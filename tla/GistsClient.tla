------------------------------- MODULE GistsClient -------------------------------
(***************************************************************************)
(* GistsClient of the github-gists server: each tool call makes one HTTP   *)
(* exchange under one timer.  The headers and the body of a response come  *)
(* in steps of their own, either may stall or break off, and the timer     *)
(* fires between any two of them.  Calls run concurrently.                 *)
(***************************************************************************)
EXTENDS FiniteSets

CONSTANTS Calls, None

VARIABLES
  token,     \* a token is configured
  args,      \* args[c]: the operation, and whether its arguments are valid
  pc,        \* "idle", "fetching", "reading" or "done"
  timer,     \* "none", "armed", "fired" or "cleared"
  exchange,  \* "none", "sent", "handled", "headers",
             \* "body", "broken" (before the headers) or "cut" (after them)
  response,  \* what the upstream made of the request, or None
  applied,   \* the updates the upstream has applied
  answer     \* what the tool returns, or None: "ok", "refused" before any request,
             \* or an error that names its request

vars == <<token, args, pc, timer, exchange, response, applied, answer>>

\* The kinds of a response: a status that is not ok; an ok status with a gist,
\* with JSON that is no gist, or with something that is not JSON.
Responses == {"error", "gist", "json", "page"}
Answers == {"ok", "refused", "api", "timeout", "unreachable"}

ASSUME NoneAssumption == None \notin Responses \cup Answers

Init ==
  /\ token \in BOOLEAN
  /\ args \in [Calls -> [op : {"GET", "PATCH"}, valid : BOOLEAN]]
  /\ pc = [c \in Calls |-> "idle"]
  /\ timer = [c \in Calls |-> "none"]
  /\ exchange = [c \in Calls |-> "none"]
  /\ response = [c \in Calls |-> None]
  /\ applied = {}
  /\ answer = [c \in Calls |-> None]

--------------------------------------------------------------------------------
(* The client.                                                             *)

\* The checks of getGist and updateGistFile that come before any request.
Allowed(c) == args[c].valid /\ (args[c].op = "PATCH" => token)

Refuse(c) ==
  /\ pc[c] = "idle"
  /\ ~Allowed(c)
  /\ pc' = [pc EXCEPT ![c] = "done"]
  /\ answer' = [answer EXCEPT ![c] = "refused"]
  /\ UNCHANGED <<token, args, timer, exchange, response, applied>>

\* The timer is armed and fetch is called.
request(c) ==
  /\ pc[c] = "idle"
  /\ Allowed(c)
  /\ pc' = [pc EXCEPT ![c] = "fetching"]
  /\ timer' = [timer EXCEPT ![c] = "armed"]
  /\ exchange' = [exchange EXCEPT ![c] = "sent"]
  /\ UNCHANGED <<token, args, response, applied, answer>>

\* `finally`: the timer is cleared when the exchange is over, whole.
Settle(c, a) ==
  /\ pc' = [pc EXCEPT ![c] = "done"]
  /\ answer' = [answer EXCEPT ![c] = a]
  /\ timer' = [timer EXCEPT ![c] = IF @ = "armed" THEN "cleared" ELSE @]

\* Mutant: the abort is told by the name of the error.
FailByName(c, e) == Settle(c, e)

\* The outer catch of request: whatever was thrown, an aborted signal means
\* that the exchange timed out.  (It also asks for the name AbortError, which only
\* what the abort itself rejects with bears.)
Fail(c, e) == Settle(c, IF timer[c] = "fired" THEN "timeout" ELSE e)

\* Mutant: the timer covers the wait for the headers only.
HeadersDisarm(c) ==
  /\ pc[c] = "fetching" /\ exchange[c] \in {"headers", "body", "cut"}
  /\ pc' = [pc EXCEPT ![c] = "reading"]
  /\ timer' = [timer EXCEPT ![c] = IF @ = "armed" THEN "cleared" ELSE @]
  /\ UNCHANGED <<token, args, exchange, response, applied, answer>>

\* fetch resolves when the headers are there.
Headers(c) ==
  /\ pc[c] = "fetching" /\ exchange[c] \in {"headers", "body", "cut"}
  /\ pc' = [pc EXCEPT ![c] = "reading"]
  /\ UNCHANGED <<token, args, timer, exchange, response, applied, answer>>

\* fetch rejects: the connection failed, or the abort reached it.
FetchRejects(c) ==
  /\ pc[c] = "fetching"
  /\ exchange[c] = "broken" \/ timer[c] = "fired"
  /\ Fail(c, "unreachable")
  /\ UNCHANGED <<token, args, exchange, response, applied>>

\* Mutant: a body that parses is taken for a gist.
GistJson(r) == r \in {"gist", "json"}

\* readGist takes a JSON body for a gist only when gistShapeProblem finds none.
Gist(r) == r = "gist"

\* The body is read to its end.
BodyRead(c) ==
  /\ pc[c] = "reading" /\ exchange[c] = "body"
  /\ IF Gist(response[c]) THEN Settle(c, "ok") ELSE Fail(c, "api")
  /\ UNCHANGED <<token, args, exchange, response, applied>>

\* The read of the body rejects.  readJson wraps what it rejects with, and
\* reasonFromResponse falls back to the status: a GithubApiError either way.
BodyFails(c) ==
  /\ pc[c] = "reading"
  /\ exchange[c] = "cut" \/ timer[c] = "fired"
  /\ Fail(c, "api")
  /\ UNCHANGED <<token, args, exchange, response, applied>>

Timeout(c) ==
  /\ timer[c] = "armed"
  /\ timer' = [timer EXCEPT ![c] = "fired"]
  /\ UNCHANGED <<token, args, pc, exchange, response, applied, answer>>

--------------------------------------------------------------------------------
(* The upstream and the network.                                           *)

\* The upstream serves the request; a refused update is not applied, and a
\* proxy on the way may put a page of its own in place of the answer.
Serve(c, r) ==
  /\ exchange[c] = "sent"
  /\ exchange' = [exchange EXCEPT ![c] = "handled"]
  /\ response' = [response EXCEPT ![c] = r]
  /\ applied' \in IF args[c].op = "GET" \/ r = "error" THEN {applied}
                  ELSE IF r = "gist" THEN {applied \cup {c}}
                  ELSE {applied, applied \cup {c}}
  /\ UNCHANGED <<token, args, pc, timer, answer>>

\* The headers, then the body, reach the client.
Arrive(c) ==
  /\ exchange[c] \in {"handled", "headers"}
  /\ exchange' = [exchange EXCEPT ![c] = IF @ = "handled" THEN "headers" ELSE "body"]
  /\ UNCHANGED <<token, args, pc, timer, response, applied, answer>>

Break(c) ==
  /\ exchange[c] \in {"sent", "handled", "headers"}
  /\ exchange' = [exchange EXCEPT ![c] = IF @ = "headers" THEN "cut" ELSE "broken"]
  /\ UNCHANGED <<token, args, pc, timer, response, applied, answer>>

Next ==
  \E c \in Calls :
    \/ Refuse(c) \/ request(c) \/ Headers(c) \/ FetchRejects(c)
    \/ BodyRead(c) \/ BodyFails(c) \/ Timeout(c)
    \/ \E r \in Responses : Serve(c, r)
    \/ Arrive(c) \/ Break(c)

Spec == Init /\ [][Next]_vars

\* A timer fires, and what is aborted rejects.  The upstream promises nothing.
Fairness ==
  \A c \in Calls : WF_vars(Timeout(c)) /\ WF_vars(FetchRejects(c)) /\ WF_vars(BodyFails(c))

FairSpec == Spec /\ Fairness

--------------------------------------------------------------------------------
(* Properties.                                                             *)

Failures == {"api", "timeout", "unreachable"}

\* A success is a whole gist from the upstream, and an update that succeeded
\* was applied.  One that was refused never was: neither its arguments nor the
\* want of a token are left for the upstream to find out.
SuccessTrue ==
  \A c \in Calls :
    /\ answer[c] = "ok" =>
         /\ response[c] = "gist" /\ exchange[c] = "body"
         /\ args[c].op = "PATCH" => c \in applied
    /\ answer[c] = "refused" \/ (args[c].op = "PATCH" /\ ~token) => c \notin applied

\* A failure of an exchange is called a timeout exactly when the timer fired,
\* wherever in the exchange that was and whatever broke off.  No timer is left to
\* fire after the failure.
FailureTold ==
  \A c \in Calls : answer[c] \in Failures =>
    (answer[c] = "timeout" <=> timer[c] = "fired")

\* A call that is sent is answered, wherever the upstream stalls.
Answered == \A c \in Calls : pc[c] = "fetching" ~> pc[c] = "done"
================================================================================
