-------------------------------- MODULE GistErrors --------------------------------
(***************************************************************************)
(* The text of an error of the github-gists server as a function of what   *)
(* the upstream sent: what is redacted, what is cut, in which order.  A    *)
(* text is a sequence of UTF-16 units; those that nothing tells apart are  *)
(* one letter.                                                             *)
(***************************************************************************)
EXTENDS Integers, Sequences, SequencesExt, FiniteSets

CONSTANTS
  SurfaceCap,                     \* 200: what reasonFromResponse and
                                  \* describeFetchFailure leave
  ERROR_TEXT_BACKSTOP_UNITS,      \* 300: what GithubApiError leaves
  MaxPieces                       \* bound: the pieces of an upstream text

Token    == <<"t", "k">>
Redacted == <<"[", "r", "]">>
Pair     == <<"high", "low">>     \* one character outside the BMP
Ellipsis == <<"...">>
Status   == <<"s">>               \* "status 404"
Default  == <<"f">>               \* "fetch failed"
ReadFailed == <<"b">>             \* "response body could not be read: "

Texts == { FlattenSeq(p) : p \in SeqOf({<<"x">>, Pair, Token}, MaxPieces) }

\* Where an upstream text comes from: the body of an error response or its JSON
\* message, a rejected fetch, a rejected read, the name of a file in a body that
\* is no gist, the X-GitHub-Request-Id header.
Surfaces == {"reason", "unreadable", "fetch", "read", "shape", "requestId"}

----------------------------------------------------------------------------

\* The token stands at i.
Occurs(text, i) == {i, i + 1} \subseteq DOMAIN text /\ <<text[i], text[i + 1]>> = Token

\* text.split(token).join("[REDACTED]"), with a token or without.
redactToken(text, token) ==
  IF token
  THEN FlattenSeq([i \in DOMAIN text |-> CASE Occurs(text, i)     -> Redacted
                                          [] Occurs(text, i - 1) -> <<>>
                                          [] OTHER               -> <<text[i]>>])
  ELSE text

\* A cut keeps no high half without its low half.
capErrorText(text, maxUnits) ==
  IF Len(text) <= maxUnits THEN text
  ELSE LET end == IF text[maxUnits] = "high" THEN maxUnits - 1 ELSE maxUnits
       IN SubSeq(text, 1, end) \o Ellipsis

OrElse(text, default) == IF text = <<>> THEN default ELSE text

describeFetchFailure(text, token) ==
  capErrorText(OrElse(redactToken(text, token), Default), SurfaceCap)

\* Mutant: the text is cut before the token is looked for.
reasonCutFirst(text, token) ==
  redactToken(capErrorText(OrElse(text, Status), SurfaceCap), token)

reasonFromResponse(text, token) ==
  capErrorText(redactToken(OrElse(text, Status), token), SurfaceCap)

\* The constructor of GithubApiError, which every surface of a response ends in.
GithubApiError(reason, token) ==
  capErrorText(redactToken(reason, token), ERROR_TEXT_BACKSTOP_UNITS)

\* What the tool's result says.  A fetch that rejected had no response to blame.
Told(surface, text, token) ==
  CASE surface = "reason"     -> GithubApiError(reasonFromResponse(text, token), token)
    [] surface = "unreadable" -> GithubApiError(Status, token)
    [] surface = "fetch"      -> describeFetchFailure(text, token)
    [] surface = "read"       -> GithubApiError(ReadFailed \o describeFetchFailure(text, token), token)
    [] OTHER                  -> GithubApiError(text, token)
===================================================================================
