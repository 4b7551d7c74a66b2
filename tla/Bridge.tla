--------------------------------- MODULE Bridge ---------------------------------
(***************************************************************************)
(* runBridged of the internal-tools-bridge server: one call, the child     *)
(* process it spawns, and a grandchild that may inherit the child's pipes. *)
(* The promise is settled by whichever event comes first: a chunk over the *)
(* output cap, the timer, a spawn error, or 'close'.  The steps of the     *)
(* event loop interleave with those of the processes.                      *)
(***************************************************************************)
EXTENDS Naturals

CONSTANTS
  Streams,          \* {"stdout", "stderr"}
  maxOutputBytes,   \* the cap on each stream
  MaxWritten        \* bound on the bytes written to each stream

ASSUME ConstantsAssumption ==
  /\ maxOutputBytes \in Nat \ {0}
  /\ MaxWritten \in Nat

VARIABLES
  outcome,       \* how the promise was settled
  timer,         \* "none", "armed", "cleared" or "fired"
  listening,     \* the 'data' listeners are attached
  killed,        \* the bridge's flag: it decided to kill the child
  outputCapped,  \* the stream that went over the cap, or "null"
  bytes,         \* stdoutBytes and stderrBytes
  chunks,        \* the bytes kept in stdoutChunks and stderrChunks
  closed,        \* 'close' was emitted
  child,         \* the child process
  code,          \* its exit code
  grandchild,    \* a process the child left behind
  signalled,     \* SIGKILL was sent to the child
  written,       \* written[s]: the bytes ever written to stream s
  pipe           \* pipe[s]: those the event loop has not read yet

callVars == <<outcome, timer, listening, killed, outputCapped, bytes, chunks>>
procVars == <<child, code, grandchild, written>>
vars     == <<callVars, closed, procVars, signalled, pipe>>

Outcomes == {"refused", "ok", "nonzero", "cap", "timeout", "spawn failed"}

TypeOK ==
  /\ outcome \in Outcomes \cup {"pending"}
  /\ timer \in {"none", "armed", "cleared", "fired"}
  /\ outputCapped \in Streams \cup {"null"}
  /\ listening \in BOOLEAN /\ killed \in BOOLEAN
  /\ closed \in BOOLEAN /\ signalled \in BOOLEAN
  /\ bytes \in [Streams -> 0..MaxWritten]
  /\ chunks \in [Streams -> 0..MaxWritten]
  /\ child \in {"none", "failed", "running", "exited"}
  /\ code \in {"null", "zero", "nonzero"}
  /\ grandchild \in {"none", "alive", "gone"}
  /\ written \in [Streams -> 0..MaxWritten]
  /\ pipe \in [Streams -> 0..MaxWritten]

Init ==
  /\ outcome = "pending" /\ timer = "none" /\ outputCapped = "null"
  /\ listening = FALSE /\ killed = FALSE /\ closed = FALSE /\ signalled = FALSE
  /\ child = "none" /\ code = "null" /\ grandchild = "none"
  /\ bytes = [s \in Streams |-> 0]
  /\ chunks = [s \in Streams |-> 0]
  /\ written = [s \in Streams |-> 0]
  /\ pipe = [s \in Streams |-> 0]

--------------------------------------------------------------------------------
\* Mutant: the timer is left running.
settleKeepTimer(o) ==
  IF outcome # "pending" THEN UNCHANGED <<outcome, timer, listening>>
  ELSE /\ outcome' = o
       /\ listening' = FALSE
       /\ UNCHANGED timer

\* Settle exactly once, disarm the timer, stop listening.
settle(o) ==
  IF outcome # "pending" THEN UNCHANGED <<outcome, timer, listening>>
  ELSE /\ outcome' = o
       /\ timer' = IF timer = "armed" THEN "cleared" ELSE timer
       /\ listening' = FALSE

\* The binary is not on the allow-list, or argv is not an array of strings.
Refuse ==
  /\ child = "none"
  /\ outcome = "pending"
  /\ outcome' = "refused"
  /\ UNCHANGED <<timer, listening, killed, outputCapped, bytes, chunks, closed,
                 procVars, signalled, pipe>>

\* spawn() returns at once; whether there is a process shows later.
Spawn ==
  /\ child = "none"
  /\ outcome = "pending"
  /\ child' \in {"running", "failed"}
  /\ timer' = "armed"
  /\ listening' = TRUE
  /\ UNCHANGED <<outcome, killed, outputCapped, bytes, chunks, closed, code,
                 grandchild, written, signalled, pipe>>

--------------------------------------------------------------------------------
(* The events.                                                             *)

\* Mutants: the child is killed and the call waits for 'close'; the call is
\* settled and the child left running.
TimeoutWaits ==
  /\ timer = "armed"
  /\ timer' = "fired" /\ killed' = TRUE /\ signalled' = TRUE
  /\ UNCHANGED <<outcome, listening, outputCapped, bytes, chunks, closed, procVars, pipe>>
TimeoutLeaves ==
  /\ timer = "armed"
  /\ timer' = "fired" /\ killed' = TRUE /\ outcome' = "timeout" /\ listening' = FALSE
  /\ UNCHANGED <<outputCapped, bytes, chunks, closed, procVars, signalled, pipe>>

\* The timer is armed only while the call is pending, so settle takes effect.
Timeout ==
  /\ timer = "armed"
  /\ timer' = "fired"
  /\ killed' = TRUE
  /\ signalled' = TRUE
  /\ outcome' = IF outcome = "pending" THEN "timeout" ELSE outcome
  /\ listening' = FALSE
  /\ UNCHANGED <<outputCapped, bytes, chunks, closed, procVars, pipe>>

\* The stream goes over the cap; a chunk for a stream already over it, while
\* the kill is under way, is dropped.
OverCap(s) ==
  /\ UNCHANGED chunks
  /\ IF killed THEN UNCHANGED <<outcome, timer, listening, killed, outputCapped, signalled>>
     ELSE /\ killed' = TRUE
          /\ outputCapped' = s
          /\ signalled' = TRUE
          /\ settle("cap")

Keep(s, n) ==
  /\ chunks' = [chunks EXCEPT ![s] = @ + n]
  /\ UNCHANGED <<outcome, timer, listening, killed, outputCapped, signalled>>

Drop == UNCHANGED <<callVars, signalled>>

Chunk(s, n) ==
  /\ n <= pipe[s]
  /\ pipe' = [pipe EXCEPT ![s] = @ - n]
  /\ UNCHANGED <<closed, procVars>>

\* Mutant: going over the cap kills the child and leaves the rest to 'close'.
DataWaits(s, n) ==
  /\ Chunk(s, n)
  /\ IF ~listening THEN Drop
     ELSE /\ bytes' = [bytes EXCEPT ![s] = @ + n]
          /\ IF bytes[s] + n > maxOutputBytes
             THEN /\ killed' = TRUE /\ signalled' = TRUE
                  /\ UNCHANGED <<outcome, timer, listening, outputCapped, chunks>>
             ELSE Keep(s, n)

\* 'data' with the next n bytes; without a listener the stream still flows.
Data(s, n) ==
  /\ Chunk(s, n)
  /\ IF ~listening THEN Drop
     ELSE /\ bytes' = [bytes EXCEPT ![s] = @ + n]
          /\ IF bytes[s] + n > maxOutputBytes THEN OverCap(s) ELSE Keep(s, n)

SpawnError ==
  /\ child = "failed"
  /\ child' = "exited"
  /\ settle("spawn failed")
  /\ UNCHANGED <<killed, outputCapped, bytes, chunks, closed, code, grandchild,
                 written, signalled, pipe>>

Report == IF outputCapped # "null" THEN "cap" ELSE IF code = "zero" THEN "ok" ELSE "nonzero"

\* Mutant: the call is settled on 'exit', before the streams have ended.
Exited ==
  /\ child = "exited"
  /\ ~closed
  /\ closed' = TRUE
  /\ settle(Report)
  /\ UNCHANGED <<killed, outputCapped, bytes, chunks, procVars, signalled, pipe>>

\* 'close': the child has exited, nobody holds its pipes, everything is read.
Close ==
  /\ child = "exited"
  /\ grandchild # "alive"
  /\ \A s \in Streams : pipe[s] = 0
  /\ ~closed
  /\ closed' = TRUE
  /\ settle(Report)
  /\ UNCHANGED <<killed, outputCapped, bytes, chunks, procVars, signalled, pipe>>

--------------------------------------------------------------------------------
(* The processes.                                                          *)

Write(s) ==
  /\ child = "running" \/ grandchild = "alive"
  /\ written[s] < MaxWritten
  /\ written' = [written EXCEPT ![s] = @ + 1]
  /\ pipe' = [pipe EXCEPT ![s] = @ + 1]
  /\ UNCHANGED <<callVars, closed, child, code, grandchild, signalled>>

Fork ==
  /\ child = "running"
  /\ grandchild = "none"
  /\ grandchild' = "alive"
  /\ UNCHANGED <<callVars, closed, child, code, written, signalled, pipe>>

Exit(status) ==
  /\ child = "running"
  /\ child' = "exited"
  /\ code' = status
  /\ UNCHANGED <<callVars, closed, grandchild, written, signalled, pipe>>

\* SIGKILL arrives: no exit code.
Die ==
  /\ signalled
  /\ child = "running"
  /\ child' = "exited"
  /\ UNCHANGED <<callVars, closed, code, grandchild, written, signalled, pipe>>

GrandchildExits ==
  /\ grandchild = "alive"
  /\ grandchild' = "gone"
  /\ UNCHANGED <<callVars, closed, child, code, written, signalled, pipe>>

--------------------------------------------------------------------------------
Next ==
  \/ Refuse \/ Spawn \/ Timeout \/ SpawnError \/ Close
  \/ \E s \in Streams : Write(s) \/ \E n \in 1..MaxWritten : Data(s, n)
  \/ Fork \/ Die \/ GrandchildExits
  \/ \E status \in {"zero", "nonzero"} : Exit(status)

Spec == Init /\ [][Next]_vars

\* A timer that stays armed fires and a signal that was sent is delivered; the
\* child and the grandchild need never write, exit or close anything.
FairSpec == Spec /\ WF_vars(Timeout) /\ WF_vars(Die)

--------------------------------------------------------------------------------
(* Properties.                                                             *)

\* A call that reports the child's own end reports all of it: every byte any
\* holder of the pipes wrote, and no success unless the child exited with 0.
NothingMissing ==
  /\ outcome \in {"ok", "nonzero"} => chunks = written
  /\ outcome = "ok" => child = "exited" /\ code = "zero"

\* No stream ever holds more than the cap, however its bytes are chunked.
CapHolds == \A s \in Streams : chunks[s] <= maxOutputBytes

\* What runBridged keeps of the output is all there is when the child's own end
\* is reported, and is never over the cap.
OutputTrue == NothingMissing /\ CapHolds

\* The bridge's own kill is never reported as the child's doing, and a call that
\* gave up on the child has killed it.
KillExplained == signalled <=> outcome \in {"cap", "timeout"}

\* Once the call is answered, no timer it left behind signals the child.
NoLateKill == [][outcome # "pending" => signalled' = signalled]_vars

\* A spawned call is answered even if the child, or a grandchild that survives
\* the SIGKILL with the pipes open, never ends (the hang settle is there for).
Answered == child # "none" ~> outcome # "pending"

\* A child the call gave up on does not stay behind.
ChildDies == outcome \in {"cap", "timeout"} /\ child = "running" ~> child = "exited"
================================================================================
