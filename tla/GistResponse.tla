-------------------------------- MODULE GistResponse --------------------------------
(***************************************************************************)
(* What the github-gists server makes of a response: readGist and          *)
(* projectGist as functions of a parsed body, which is refused or taken    *)
(* for a gist, and the text a failure is told with.  A value of a body is  *)
(* known by what the code tells apart; `long` is over maxBytesPerFile.     *)
(***************************************************************************)
EXTENDS GistErrors

VARIABLES
  body,     \* the parsed JSON; its one file is body.file
  failure,  \* what went wrong instead, and with which text
  result    \* the problem the body is refused for, or its projection; or the
            \* text of the error

vars == <<body, failure, result>>

Strings  == {"text", "empty", "long"}
Values == Strings \cup {"absent", "null", "true", "false", "count", "negative", "object", "array"}

GistFields == {"id", "html_url", "description", "public", "truncated", "files"}
FileFields == {"entry", "language", "size", "content", "partial"}

\* A gist as GitHub sends it, and bodies up to three values away from it.
Github == [f \in GistFields \cup FileFields \cup {"body"} |->
  CASE f \in {"body", "files", "entry"} -> "object"
    [] f \in {"id", "html_url", "content"} -> "text"
    [] f = "public" -> "true"
    [] f = "size" -> "count"
    [] OTHER -> "absent"]

Bodies ==
  { [Github EXCEPT ![f] = u, ![g] = v, !["content"] = w] :
      f \in DOMAIN Github, g \in {"size", "partial", "truncated", "description"},
      u \in Values, v \in Values, w \in {"text", "long", "absent", "null"} }

None == [surface |-> "none", text |-> <<>>, token |-> FALSE]
Failures == [surface : Surfaces, text : Texts, token : BOOLEAN]

Nothing == [refused |-> "", gist |-> Github, told |-> <<>>]

Init ==
  /\ result = Nothing
  /\ \/ body \in Bodies /\ failure = None
     \/ body = Github /\ failure \in Failures

--------------------------------------------------------------------------------
OptionalBoolean(v) == v \in {"absent", "true", "false"}
OptionalText(v)    == v \in Strings \cup {"absent", "null"}

\* The checks in the order that decides which of several problems is named.
Checks == <<
  [problem |-> "not an object",       ok |-> body["body"] = "object"],
  [problem |-> "no string id",        ok |-> body["id"] \in {"text", "long"}],
  [problem |-> "no files object",     ok |-> body["files"] = "object"],
  [problem |-> "file not an object",  ok |-> body["entry"] = "object"],
  [problem |-> "language",            ok |-> OptionalText(body["language"])],
  [problem |-> "no string html_url",  ok |-> body["html_url"] \in {"text", "long"}],
  [problem |-> "description",         ok |-> OptionalText(body["description"])],
  [problem |-> "public",              ok |-> body["public"] \in {"true", "false"}],
  [problem |-> "truncated",           ok |-> OptionalBoolean(body["truncated"])],
  [problem |-> "file truncated",      ok |-> OptionalBoolean(body["partial"])],
  [problem |-> "file size",           ok |-> body["size"] \in {"absent", "count"}],
  [problem |-> "file content",        ok |-> OptionalText(body["content"])] >>

gistShapeProblem ==
  LET failing == { i \in DOMAIN Checks : ~Checks[i].ok }
  IN IF failing = {} THEN "" ELSE Checks[CHOOSE i \in failing : \A j \in failing : i <= j].problem

OrNull(v) == IF v = "absent" THEN "null" ELSE v
Flag(b)   == IF b THEN "true" ELSE "false"
OverCap   == body["content"] = "long"

\* Mutant: the flag is GitHub's alone.
PartialGithub == Flag(body["partial"] = "true")

Partial == Flag(OverCap \/ body["partial"] = "true")

projectGist ==
  [body EXCEPT
    !["description"] = OrNull(@),
    !["truncated"]   = Flag(@ = "true"),
    !["language"]    = OrNull(@),
    !["size"]        = IF OrNull(@) # "null" THEN @
                       ELSE IF OrNull(body["content"]) = "null" THEN "null" ELSE "count",
    !["partial"]     = Partial,
    !["content"]     = IF OverCap THEN "null" ELSE OrNull(@)]

readGist ==
  /\ failure = None /\ result = Nothing
  /\ result' = IF gistShapeProblem = "" THEN [Nothing EXCEPT !.gist = projectGist]
               ELSE [Nothing EXCEPT !.refused = gistShapeProblem]
  /\ UNCHANGED <<body, failure>>

errorMessage ==
  /\ failure # None /\ result = Nothing
  /\ result' = [Nothing EXCEPT !.refused = failure.surface,
                               !.told = Told(failure.surface, failure.text, failure.token)]
  /\ UNCHANGED <<body, failure>>

Next == readGist \/ errorMessage
Spec == Init /\ [][Next]_vars

--------------------------------------------------------------------------------
(* Properties.                                                             *)

Projected == result # Nothing /\ result.refused = ""

\* The result has the types that the tools' description promises.
Typed(g) ==
  /\ \A f \in {"id", "html_url"} : g[f] \in Strings \ {"empty"}
  /\ \A f \in {"description", "language", "content"} : g[f] \in Strings \cup {"null"}
  /\ \A f \in {"public", "truncated", "partial"} : g[f] \in {"true", "false"}
  /\ g["size"] \in {"count", "null"}

\* A body GitHub may send: an optional value is there or absent, and true to type.
Upstream ==
  /\ \A f \in {"body", "files", "entry"} : body[f] = "object"
  /\ \A f \in {"id", "html_url"} : body[f] = "text"
  /\ body["public"] \in {"true", "false"}
  /\ \A f \in {"description", "language", "content"} : body[f] \in Strings \cup {"null", "absent"}
  /\ \A f \in {"truncated", "partial"} : body[f] \in {"true", "false", "absent"}
  /\ body["size"] \in {"count", "absent"}

\* readGist and projectGist refuse nothing that GitHub sends, and what they take
\* comes out typed and unchanged: a flag that was true stays true, and a file
\* without content that is not marked truncated had none upstream.
ProjectionTrue ==
  failure = None /\ result # Nothing =>
    /\ Upstream => Projected
    /\ Projected =>
         /\ Typed(result.gist)
         /\ result.gist["public"] = body["public"]
         /\ \A f \in {"truncated", "partial"} : body[f] = "true" => result.gist[f] = "true"
         /\ result.gist["content"] = "null" /\ result.gist["partial"] = "false" =>
              body["content"] \in {"absent", "null"}

Has(text, unit) == \E k \in DOMAIN text : text[k] = unit

\* A client is told why a call failed: nothing of the token is left in the text,
\* not even a part that a cut has kept; it is bounded, cut at most once and never
\* inside a character; and a short text without the token comes through as it is
\* (client.ts:292, "a cut cannot leave a prefix of the token behind").
ErrorTextTrue ==
  failure # None /\ result # Nothing =>
    LET told == result.told IN
    /\ failure.token => ~Has(told, "t") /\ ~Has(told, "k")
    /\ told # <<>> \/ failure.text = <<>>
    /\ Len(told) <= ERROR_TEXT_BACKSTOP_UNITS + 1
    /\ Cardinality({k \in DOMAIN told : told[k] = Ellipsis[1]}) <= 1
    /\ \A k \in DOMAIN told : told[k] = "high" => k < Len(told) /\ told[k + 1] = "low"
    /\ /\ 0 < Len(failure.text) /\ Len(failure.text) <= SurfaceCap
       /\ ~Has(failure.text, "t") /\ failure.surface # "unreadable"
       => IsSuffix(failure.text, told)
================================================================================
