-------------------------------- MODULE MCPyServe --------------------------------
(***************************************************************************)
(* The lines of a small session: what the SDK takes, and everything near a *)
(* request that it rejects.                                                *)
(***************************************************************************)
EXTENDS PyServe

CallLine == [sdk |-> TRUE, form |-> "object", method |-> TRUE, id |-> "int",
             strings |-> "plain", integers |-> "plain", depth |-> "flat"]

Notification == [CallLine EXCEPT !.id = "none"]

\* A call without "jsonrpc": readable, and rejected.
Rejected == [CallLine EXCEPT !.sdk = FALSE]

OneOff ==
  {[Rejected EXCEPT !.form = f] : f \in {"array", "garbage"}}
  \cup {[Rejected EXCEPT !.method = FALSE]}
  \cup {[Rejected EXCEPT !.id = d] : d \in {"none", "bool"}}
  \cup {[Rejected EXCEPT !.strings = "lone"], [Rejected EXCEPT !.integers = "huge"]}
  \cup {[Rejected EXCEPT !.depth = d] : d \in {"deep", "abyss"}}

\* An id is part of the text: a lone surrogate in it is one of the line's, and
\* so is its length.
TwoOff ==
  {[Rejected EXCEPT !.id = "lone", !.strings = "lone"],
   [Rejected EXCEPT !.id = "huge", !.integers = "huge"],
   [Rejected EXCEPT !.strings = "lone", !.integers = "huge"],
   [Rejected EXCEPT !.strings = "lone", !.depth = "deep"]}

MCLines == {CallLine, Notification, Rejected} \cup OneOff \cup TwoOff
==================================================================================
