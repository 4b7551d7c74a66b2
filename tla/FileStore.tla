------------------------------- MODULE FileStore -------------------------------
(***************************************************************************)
(* What write_file promises, whichever port serves it: a file holds one    *)
(* whole version or does not exist, a write replaces the version in one    *)
(* step, a call that reports failure has changed nothing, and after a kill *)
(* or a power loss every file holds a version it held before.              *)
(***************************************************************************)
CONSTANTS
  Calls,      \* slots for write_file calls in flight
  Targets,    \* the paths the calls write
  Versions,   \* the whole contents a call may ask to write
  None        \* "no file"

VARIABLES
  content,    \* content[t]: the version a reader of t sees
  stable,     \* stable[t]: the version t holds after a power loss
  call        \* call[c]: the progress and the request of call c

vars == <<content, stable, call>>

Idle == [phase |-> "idle", target |-> None, version |-> None]

AtPhase(c, phase) == call[c].phase = phase

Goto(c, phase) == call' = [call EXCEPT ![c].phase = phase]

Init ==
  /\ content \in [Targets -> Versions \cup {None}]
  /\ stable = content
  /\ call = [c \in Calls |-> Idle]

\* A call may be refused as it arrives.
Invoke(c, t, v) ==
  /\ AtPhase(c, "idle")
  /\ \E phase \in {"pending", "failed"} :
       call' = [call EXCEPT ![c] = [phase |-> phase, target |-> t, version |-> v]]
  /\ UNCHANGED <<content, stable>>

Commit(c) ==
  /\ AtPhase(c, "pending")
  /\ content' = [content EXCEPT ![call[c].target] = call[c].version]
  /\ Goto(c, "committed")
  /\ UNCHANGED stable

Fail(c) ==
  /\ AtPhase(c, "pending")
  /\ Goto(c, "failed")
  /\ UNCHANGED <<content, stable>>

Reply(c) ==
  /\ call[c].phase \in {"committed", "failed"}
  /\ call' = [call EXCEPT ![c] = Idle]
  /\ UNCHANGED <<content, stable>>

Remove(t) ==
  /\ content' = [content EXCEPT ![t] = None]
  /\ UNCHANGED <<stable, call>>

Persist ==
  /\ stable' = content
  /\ UNCHANGED <<content, call>>

Kill(S) ==
  /\ call' = [c \in Calls |-> IF c \in S THEN Idle ELSE call[c]]
  /\ UNCHANGED <<content, stable>>

PowerLoss ==
  /\ content' = stable
  /\ call' = [c \in Calls |-> Idle]
  /\ UNCHANGED stable

Next ==
  \/ \E c \in Calls :
       \/ \E t \in Targets, v \in Versions : Invoke(c, t, v)
       \/ Commit(c) \/ Fail(c) \/ Reply(c)
  \/ \E t \in Targets : Remove(t)
  \/ \E S \in SUBSET Calls : Kill(S)
  \/ Persist \/ PowerLoss

Spec == Init /\ [][Next]_vars
================================================================================
