---------------------------- MODULE RepoStatsProofs -----------------------------
(***************************************************************************)
(* The safety properties of runBridged, for every output cap, every number *)
(* of bytes the processes write and every way they are cut into chunks.    *)
(*                                                                         *)
(* The composition keeps what runBridged promises: every step of the tool  *)
(* and of its program is a step of Bridge or leaves it alone.  On top of   *)
(* that, no answer of the tool is cut short, for every tree, every cap and *)
(* every change others make; and the counts of a tree that nobody changes  *)
(* are those of its files, whatever the tree and the order of the walk.    *)
(***************************************************************************)
EXTENDS RepoStats, FiniteSetTheorems, TLAPS

--------------------------------------------------------------------------------
(* runBridged.                                                             *)

\* Nothing runs and nothing is in a pipe before spawn().
NotSpawned ==
  child = "none" =>
    /\ timer = "none"
    /\ outcome \in {"pending", "refused"}
    /\ grandchild = "none"
    /\ \A s \in Streams : pipe[s] = 0

\* What settle leaves behind: no listener, no armed timer.
Settled ==
  /\ listening <=> outcome = "pending" /\ child # "none"
  /\ timer = "armed" => outcome = "pending"

\* While the call is pending, what was written is kept or still in the pipe.
Conserved ==
  outcome = "pending" =>
    /\ chunks = bytes
    /\ \A s \in Streams : chunks[s] + pipe[s] = written[s]

\* What is in a pipe was written to it.
Piped == \A s \in Streams : pipe[s] <= written[s]

\* The flags that say why the child was killed.
Flags ==
  /\ (killed <=> signalled)
  /\ (signalled <=> outcome \in {"cap", "timeout"})
  /\ outputCapped # "null" => outcome = "cap"

\* After an answer from 'close' nobody is left to write.
Finished ==
  outcome \in {"ok", "nonzero"} =>
    /\ child = "exited"
    /\ grandchild # "alive"
    /\ chunks = written
    /\ outcome = "ok" => code = "zero"

IInv ==
  TypeOK /\ NotSpawned /\ Settled /\ Conserved /\ Piped /\ CapHolds /\ Flags /\ Finished

LEMMA InitIInv == Init => IInv
<1> SUFFICES ASSUME Init PROVE IInv
  OBVIOUS
<1>1. 0 \in 0..MaxWritten /\ 0 <= maxOutputBytes
  BY ConstantsAssumption
<1>2. TypeOK
  BY <1>1 DEF Init, TypeOK, Outcomes
<1>3. \A s \in Streams : chunks[s] = 0 /\ pipe[s] = 0 /\ written[s] = 0
  BY DEF Init
<1>4. Conserved /\ Piped /\ CapHolds
  BY <1>1, <1>3 DEF Init, Conserved, Piped, CapHolds
<1> QED
  BY <1>2, <1>3, <1>4 DEF Init, IInv, NotSpawned, Settled, Flags, Finished

--------------------------------------------------------------------------------
(* One lemma per action.                                                   *)

LEMMA RefuseIInv == ASSUME IInv, Refuse PROVE IInv'
BY DEF IInv, TypeOK, Outcomes, NotSpawned, Settled, Conserved, Piped, CapHolds,
   Flags, Finished, Refuse, procVars

LEMMA SpawnIInv == ASSUME IInv, Spawn PROVE IInv'
BY DEF IInv, TypeOK, Outcomes, NotSpawned, Settled, Conserved, Piped, CapHolds,
   Flags, Finished, Spawn

LEMMA TimeoutIInv == ASSUME IInv, Timeout PROVE IInv'
BY DEF IInv, TypeOK, Outcomes, NotSpawned, Settled, Conserved, Piped, CapHolds,
   Flags, Finished, Timeout, procVars

LEMMA SpawnErrorIInv == ASSUME IInv, SpawnError PROVE IInv'
BY ZenonT(60) DEF IInv, TypeOK, Outcomes, NotSpawned, Settled, Conserved, Piped, CapHolds,
   Flags, Finished, SpawnError, settle

LEMMA CloseIInv == ASSUME IInv, Close PROVE IInv'
<1> USE DEF IInv, TypeOK, Outcomes
<1>1. CASE outcome # "pending"
  BY <1>1 DEF NotSpawned, Settled, Conserved, Piped, CapHolds, Flags, Finished, Close, settle,
     procVars
<1>2. CASE outcome = "pending"
  <2>1. outputCapped = "null" /\ outcome' = IF code = "zero" THEN "ok" ELSE "nonzero"
    BY <1>2 DEF Close, settle, Report, Flags
  <2>2. chunks = written
    BY <1>2 DEF Close, Conserved
  <2> QED
    BY <1>2, <2>1, <2>2 DEF NotSpawned, Settled, Conserved, Piped, CapHolds,
   Flags, Finished,     Close, settle, procVars
<1> QED
  BY <1>1, <1>2

LEMMA DataIInv ==
  ASSUME IInv, NEW s \in Streams, NEW n \in 1..MaxWritten, Data(s, n)
  PROVE  IInv'
<1> USE ConstantsAssumption
<1>0. TypeOK /\ NotSpawned /\ Settled /\ Conserved /\ Piped /\ CapHolds /\ Flags /\ Finished
  BY DEF IInv
<1>1. /\ pipe \in [Streams -> 0..MaxWritten] /\ written \in [Streams -> 0..MaxWritten]
      /\ bytes \in [Streams -> 0..MaxWritten] /\ chunks \in [Streams -> 0..MaxWritten]
  BY <1>0 DEF TypeOK
<1>2. /\ n <= pipe[s]
      /\ pipe' = [pipe EXCEPT ![s] = @ - n]
      /\ UNCHANGED <<closed, child, code, grandchild, written>>
  BY DEF Data, Chunk, procVars
<1>3. child # "none"
  BY <1>0, <1>2 DEF NotSpawned
<1>4. pipe' \in [Streams -> 0..MaxWritten] /\ Piped'
  BY <1>0, <1>1, <1>2 DEF Piped
<1>5. CASE ~listening
  <2>1. outcome # "pending"
    BY <1>0, <1>3, <1>5 DEF Settled
  <2>2. UNCHANGED <<callVars, signalled>>
    BY <1>5 DEF Data, Drop
  <2>3. TypeOK'
    BY <1>0, <1>2, <1>4, <2>2 DEF TypeOK, callVars
  <2> QED
    BY <1>0, <1>2, <1>3, <1>4, <2>1, <2>2, <2>3 DEF IInv, callVars, NotSpawned, Settled,
       Conserved, CapHolds, Flags, Finished
<1>6. CASE listening
  <2>1. outcome = "pending"
    BY <1>0, <1>6 DEF Settled
  <2>2. ~killed /\ ~signalled /\ outputCapped = "null"
    BY <1>0, <2>1 DEF TypeOK, Flags
  <2>3. chunks = bytes /\ \A r \in Streams : chunks[r] + pipe[r] = written[r]
    BY <1>0, <2>1 DEF Conserved
  <2>4. bytes' = [bytes EXCEPT ![s] = @ + n]
    BY <1>6 DEF Data
  <2>5. bytes' \in [Streams -> 0..MaxWritten]
    <3>1. bytes[s] + n \in 0..MaxWritten
      BY <1>1, <1>2, <2>3
    <3> QED
      BY <1>1, <2>4, <3>1
  <2>6. CASE bytes[s] + n > maxOutputBytes
    <3>1. /\ UNCHANGED chunks
          /\ killed' = TRUE /\ signalled' = TRUE /\ outputCapped' = s
          /\ outcome' = "cap" /\ listening' = FALSE
          /\ timer' = IF timer = "armed" THEN "cleared" ELSE timer
      BY <1>6, <2>1, <2>2, <2>6 DEF Data, OverCap, settle
    <3>2. TypeOK'
      BY <1>0, <1>2, <1>4, <2>5, <3>1 DEF TypeOK, Outcomes
    <3>3. CapHolds'
      BY <1>0, <3>1 DEF CapHolds
    <3> QED
      BY <1>2, <1>3, <1>4, <3>1, <3>2, <3>3 DEF IInv, NotSpawned, Settled, Conserved,
         Flags, Finished
  <2>7. CASE ~(bytes[s] + n > maxOutputBytes)
    <3>1. /\ chunks' = [chunks EXCEPT ![s] = @ + n]
          /\ UNCHANGED <<outcome, timer, listening, killed, outputCapped, signalled>>
      BY <1>6, <2>7 DEF Data, Keep
    <3>2. chunks' = bytes'
      BY <2>3, <2>4, <3>1
    <3>3. \A r \in Streams : chunks'[r] + pipe'[r] = written'[r]
      <4> TAKE r \in Streams
      <4>1. CASE r = s
        BY <1>1, <1>2, <2>3, <3>1, <4>1
      <4>2. CASE r # s
        BY <1>1, <1>2, <2>3, <3>1, <4>2
      <4> QED
        BY <4>1, <4>2
    <3>4. CapHolds'
      BY <1>0, <1>1, <2>3, <2>7, <3>1 DEF CapHolds
    <3>5. TypeOK'
      BY <1>0, <1>2, <1>4, <2>5, <3>1, <3>2 DEF TypeOK
    <3> QED
      BY <1>0, <1>2, <1>3, <1>4, <2>1, <3>1, <3>2, <3>3, <3>4, <3>5 DEF IInv, NotSpawned,
         Settled, Conserved, Flags, Finished
  <2> QED
    BY <1>1, <2>6, <2>7
<1> QED
  BY <1>5, <1>6

LEMMA WriteIInv == ASSUME IInv, NEW s \in Streams, Write(s) PROVE IInv'
<1> USE ConstantsAssumption
<1>0. TypeOK /\ NotSpawned /\ Settled /\ Conserved /\ Piped /\ CapHolds /\ Flags /\ Finished
  BY DEF IInv
<1>1. outcome \notin {"ok", "nonzero"} /\ child # "none"
  BY <1>0 DEF Write, Finished, NotSpawned
<1>2. /\ written[s] < MaxWritten
      /\ written' = [written EXCEPT ![s] = @ + 1]
      /\ pipe' = [pipe EXCEPT ![s] = @ + 1]
      /\ UNCHANGED <<callVars, closed, child, code, grandchild, signalled>>
  BY DEF Write
<1>3. /\ pipe \in [Streams -> 0..MaxWritten] /\ written \in [Streams -> 0..MaxWritten]
      /\ chunks \in [Streams -> 0..MaxWritten]
  BY <1>0 DEF TypeOK
<1>4. written' \in [Streams -> 0..MaxWritten]
  BY <1>2, <1>3
<1>5. pipe' \in [Streams -> 0..MaxWritten] /\ Piped'
  BY <1>0, <1>2, <1>3 DEF Piped
<1>6. TypeOK'
  BY <1>0, <1>2, <1>4, <1>5 DEF TypeOK, callVars
<1>7. Conserved'
  <2> SUFFICES ASSUME outcome' = "pending"
               PROVE  chunks' = bytes' /\ \A r \in Streams : chunks'[r] + pipe'[r] = written'[r]
    BY DEF Conserved
  <2>1. chunks' = chunks /\ bytes' = bytes /\ outcome = "pending"
    BY <1>2 DEF callVars
  <2>2. chunks = bytes /\ \A r \in Streams : chunks[r] + pipe[r] = written[r]
    BY <1>0, <2>1 DEF Conserved
  <2> QED
    BY <1>2, <1>3, <2>1, <2>2
<1> QED
  BY <1>0, <1>1, <1>2, <1>5, <1>6, <1>7 DEF IInv, callVars, NotSpawned, Settled, CapHolds,
     Flags, Finished

LEMMA ForkIInv == ASSUME IInv, Fork PROVE IInv'
BY ZenonT(60) DEF IInv, TypeOK, Outcomes, NotSpawned, Settled, Conserved, Piped, CapHolds,
   Flags, Finished, Fork, callVars

LEMMA ExitIInv ==
  ASSUME IInv, NEW status \in {"zero", "nonzero"}, Exit(status) PROVE IInv'
BY DEF IInv, TypeOK, Outcomes, NotSpawned, Settled, Conserved, Piped, CapHolds,
   Flags, Finished, Exit, callVars

LEMMA DieIInv == ASSUME IInv, Die PROVE IInv'
BY DEF IInv, TypeOK, Outcomes, NotSpawned, Settled, Conserved, Piped, CapHolds,
   Flags, Finished, Die, callVars

LEMMA GrandchildExitsIInv == ASSUME IInv, GrandchildExits PROVE IInv'
BY ZenonT(60) DEF IInv, TypeOK, Outcomes, NotSpawned, Settled, Conserved, Piped, CapHolds,
   Flags, Finished, GrandchildExits, callVars

LEMMA StepIInv == IInv /\ [Next]_vars => IInv'
<1>1. ASSUME IInv, UNCHANGED vars
      PROVE  IInv'
  <2>0. TypeOK /\ UNCHANGED vars
    BY <1>1 DEF IInv
  <2>1. TypeOK'
    BY <2>0 DEF TypeOK, vars, callVars, procVars
  <2>2. Conserved' /\ Piped' /\ CapHolds'
    BY <1>1 DEF IInv, Conserved, Piped, CapHolds, vars, callVars, procVars
  <2> QED
    BY <1>1, <2>1, <2>2 DEF IInv, NotSpawned, Settled, Flags, Finished, vars, callVars,
       procVars
<1> QED
  BY <1>1, RefuseIInv, SpawnIInv, TimeoutIInv, SpawnErrorIInv, CloseIInv, DataIInv,
     WriteIInv, ForkIInv, ExitIInv, DieIInv, GrandchildExitsIInv DEF Next

THEOREM Invariance == Spec => []IInv
BY InitIInv, StepIInv, PTL DEF Spec

--------------------------------------------------------------------------------
\* Every variable keeps its type; in particular no byte is counted twice.
THEOREM TypeCorrect == Spec => []TypeOK
BY Invariance, PTL DEF IInv

\* An answer that speaks of the child's own end has all of its output, and no
\* stream is ever kept past the cap, at any cap and any chunking.
THEOREM Complete == Spec => []OutputTrue
<1>1. IInv => OutputTrue
  BY DEF IInv, Finished, NothingMissing, OutputTrue
<1> QED
  BY <1>1, Invariance, PTL

\* The child is killed exactly when the answer says that it was.
THEOREM Explained == Spec => []KillExplained
<1>1. IInv => KillExplained
  BY DEF IInv, TypeOK, Flags, KillExplained
<1> QED
  BY <1>1, Invariance, PTL

\* After the answer nothing signals the child any more: settle has disarmed the
\* timer and removed the listeners that could.
THEOREM NothingLate == Spec => NoLateKill
<1>1. ASSUME IInv, [Next]_vars, outcome # "pending"
      PROVE  signalled' = signalled
  <2>1. timer # "armed" /\ listening = FALSE
    BY <1>1 DEF IInv, Settled
  <2>2. ~Timeout /\ ~Spawn
    BY <1>1, <2>1 DEF Timeout, Spawn
  <2>3. ASSUME NEW s \in Streams, NEW n \in 1..MaxWritten, Data(s, n)
        PROVE  signalled' = signalled
    BY <2>1, <2>3 DEF Data, Drop
  <2> QED
    BY <1>1, <2>2, <2>3 DEF Next, vars, Refuse, SpawnError, Close, Write, Fork, Die,
       GrandchildExits, Exit
<1> QED
  BY <1>1, Invariance, PTL DEF Spec, NoLateKill

--------------------------------------------------------------------------------
(* The tool around it.                                                     *)


LEMMA StepsAreCalls == StatsNext => [Next]_vars
<1> SUFFICES ASSUME StatsNext PROVE Next \/ UNCHANGED vars
  OBVIOUS
<1>1. CASE Handle
  BY <1>1 DEF Handle
<1>2. CASE Reply
  BY <1>2 DEF Reply
<1>3. CASE main
  BY <1>3 DEF main
<1>4. CASE StatRoot
  BY <1>4 DEF StatRoot
<1>5. CASE Access
  BY <1>5 DEF Access
<1>6. CASE ReadDir
  BY <1>6 DEF ReadDir
<1>7. CASE Stat
  BY <1>7 DEF Stat
<1>8. CASE Return
  BY <1>8 DEF Return
<1>9. CASE PrintLine
  <2>1. stage \in Streams /\ Write(stage)
    BY <1>9, StatsAssumption DEF PrintLine
  <2> QED
    BY <2>1 DEF Next
<1>10. CASE ExitCli
  <2>1. Exit("zero") \/ Exit("nonzero")
    BY <1>10 DEF ExitCli
  <2> QED
    BY <2>1 DEF Next
<1>11. ASSUME NEW p \in Paths, NEW k \in Kinds, Entry([path |-> p, kind |-> k])
       PROVE  UNCHANGED vars
  BY <1>11 DEF Entry
<1>12. CASE Call
  BY <1>12 DEF Call, Next
<1>13. ASSUME NEW p \in All, Change(p) PROVE UNCHANGED vars
  BY <1>13 DEF Change
<1> QED
  BY <1>1, <1>2, <1>3, <1>4, <1>5, <1>6, <1>7, <1>8, <1>9, <1>10, <1>11, <1>12, <1>13
  DEF StatsNext, cli

\* A call of the tool is a call of runBridged: what Bridge promises of any child
\* holds with this handler and this program around it.
THEOREM Composes == StatsSpec => Spec
<1>1. StatsInit => Init
  BY DEF StatsInit
<1>2. [StatsNext]_statsVars => [Next]_vars
  <2>1. UNCHANGED statsVars => UNCHANGED vars
    BY DEF statsVars
  <2> QED
    BY <2>1, StepsAreCalls
<1> QED
  BY <1>1, <1>2, PTL DEF StatsSpec, Spec

--------------------------------------------------------------------------------
Errors == {"does not exist", "is not a directory", "is not readable"}

\* The program is only ever run with arguments it accepts.
Accepted ==
  /\ argv # <<>> => parseArgs(argv).maxDepth # 0
  /\ child # "none" /\ program = "repo-stats" => argv # <<>>
  /\ program \in {"any", "repo-stats"}
  /\ program = "any" => argv = <<>>

\* What it has printed, and why, once it has exited by itself.
Told ==
  program = "repo-stats" =>
    /\ stage # "done" => code = "null"
    /\ stage = "stdout" => said = [kind |-> "stats", found |-> found]
    /\ stage = "stderr" => said.kind \in Errors
    /\ stage = "done" =>
         \/ code = "zero" /\ said.kind = "stats" /\ written["stdout"] = Line(said.found)
         \/ code = "nonzero" /\ said.kind \in Errors /\ written["stderr"] = 1

\* A child without an exit code was killed, or never was.
Ended ==
  /\ child = "exited" /\ code = "null" => outcome # "pending"
  /\ outcome = "nonzero" => code = "nonzero"

SInv == Accepted /\ Told /\ Ended /\ Whole

LEMMA InitSInv == StatsInit => SInv
<1> SUFFICES ASSUME StatsInit PROVE SInv
  OBVIOUS
<1>1. program \in {"any", "repo-stats"} /\ argv = <<>> /\ stage = "main" /\ reply.kind = "none"
  BY DEF StatsInit
<1>2. child = "none" /\ code = "null" /\ outcome = "pending"
  BY DEF StatsInit, Init
<1> QED
  BY <1>1, <1>2 DEF SInv, Accepted, Told, Ended, Whole

\* What the handler's checks pass, the program's own check passes.
LEMMA GoodArgv ==
  ASSUME NEW a, validateRepoStatsInput(a) PROVE parseArgs(ArgvOf(a)).maxDepth # 0
<1> DEFINE d == Field(a, "max_depth")
           w == ArgvOf(a)
<1>0. DefaultMaxDepth # 0 /\ \A n \in 1..AbsoluteMaxDepth : n # 0
  BY StatsAssumption
<1>1. CASE d.kind = "undefined"
  <2>1. DOMAIN w = {"--root"}
    BY <1>1 DEF ArgvOf
  <2>2. parseArgs(w) = [root |-> w["--root"], maxDepth |-> DefaultMaxDepth]
    BY <2>1 DEF parseArgs
  <2> QED
    BY <2>2, <1>0
<1>2. CASE d.kind # "undefined"
  <2>1. DOMAIN w = {"--root", "--max-depth"} /\ w["--max-depth"] = d.value
    BY <1>2 DEF ArgvOf
  <2>2. d.value \in 1..AbsoluteMaxDepth
    BY <1>2 DEF validateRepoStatsInput
  <2>3. parseArgs(w) = [root |-> w["--root"], maxDepth |-> d.value]
    BY <2>1, <2>2 DEF parseArgs
  <2> QED
    BY <2>2, <2>3, <1>0
<1> QED
  BY <1>1, <1>2

LEMMA HandleSInv == ASSUME SInv, Handle PROVE SInv'
<1>1. argv' # argv => parseArgs(argv').maxDepth # 0
  <2>1. argv' # argv => validateRepoStatsInput(request.value) /\ argv' = ArgvOf(request.value)
    BY DEF Handle
  <2>2. validateRepoStatsInput(request.value) => parseArgs(ArgvOf(request.value)).maxDepth # 0
    BY GoodArgv
  <2> QED
    BY <2>1, <2>2
<1>2. UNCHANGED <<child, code, outcome, written, program, stage, said, found>>
  BY DEF Handle, vars, callVars, procVars, cliVars, walkVars
<1>3. reply'.kind \in {"invalid", "input error"} \/ reply' = reply
  <2>1. reply' = [kind |-> "invalid"] \/ reply' = [kind |-> "input error"] \/ reply' = reply
    BY DEF Handle
  <2>2. [kind |-> "invalid"].kind = "invalid" /\ [kind |-> "input error"].kind = "input error"
    OBVIOUS
  <2> QED
    BY <2>1, <2>2
<1>4. argv = <<>> /\ program = "repo-stats"
  BY DEF Handle
<1> USE DEF SInv
<1>5. Accepted'
  BY <1>1, <1>2, <1>4 DEF Accepted
<1>6. Told' /\ Ended'
  BY <1>2 DEF Told, Ended, Line
<1>7. Whole'
  BY <1>3 DEF Whole
<1> QED
  BY <1>5, <1>6, <1>7

LEMMA ReplySInv == ASSUME SInv, IInv, Reply PROVE SInv'
<1>1. UNCHANGED <<child, code, outcome, written, program, stage, said, found, argv>>
  BY DEF Reply, vars, callVars, procVars, cliVars, walkVars
<1>2. program = "repo-stats"
  BY DEF Reply, SInv, Accepted
<1> USE DEF SInv
<1>3. Accepted' /\ Told' /\ Ended'
  BY <1>1 DEF Accepted, Told, Ended, Line
<1>4. outcome \in Outcomes /\ reply' = Answer
  BY DEF Reply, IInv, TypeOK
<1>5. CASE outcome = "ok"
  <2>1. code = "zero" /\ chunks = written
    BY <1>5 DEF IInv, Finished
  <2>2. said.kind = "stats" /\ chunks["stdout"] = Line(said.found)
    BY <2>1, <1>2 DEF Told, Reply
  <2> QED
    BY <1>3, <1>4, <1>5, <2>2 DEF Answer, Parsed, Whole
<1>6. CASE outcome = "nonzero"
  <2>1. code = "nonzero" /\ chunks = written
    BY <1>6 DEF IInv, Finished, Ended
  <2>2. said.kind \in Errors /\ chunks["stderr"] = 1
    BY <2>1, <1>2 DEF Told, Reply
  <2>3. reply' = said
    BY <1>4, <1>6, <2>2 DEF Answer
  <2> QED
    BY <1>3, <2>2, <2>3 DEF Whole, Errors
<1>7. CASE outcome \notin {"ok", "nonzero"}
  BY <1>3, <1>4, <1>7 DEF Answer, Whole, Outcomes
<1> QED
  BY <1>5, <1>6, <1>7

\* The steps of the program that leave the call alone.
LEMMA QuietSInv ==
  ASSUME SInv, Step, UNCHANGED vars, stage # "done", stage' # "done",
         stage' = "stdout" => said' = [kind |-> "stats", found |-> found'],
         stage' = "stderr" => said'.kind \in Errors
  PROVE  SInv'
<1>1. UNCHANGED <<child, code, outcome, written, program, argv, reply>>
  BY DEF Step, toolVars, vars, callVars, procVars
<1> USE DEF SInv
<1>2. Accepted' /\ Ended' /\ Whole'
  BY <1>1 DEF Accepted, Ended, Whole
<1>3. Told'
  BY <1>1 DEF Told
<1> QED
  BY <1>2, <1>3

LEMMA MainSInv == ASSUME SInv, main PROVE SInv'
<1>1. opts'.maxDepth # 0
  BY DEF main, Step, SInv, Accepted
<1>2. stage = "main" /\ stage' = "stat"
  BY <1>1 DEF main
<1> QED
  BY <1>2, QuietSInv DEF main

LEMMA SayTells == ASSUME NEW k \in Errors, Say(k) PROVE stage' = "stderr" /\ said'.kind \in Errors
<1>1. said' = [kind |-> k]
  BY DEF Say
<1> QED
  BY <1>1 DEF Say

LEMMA StatRootSInv == ASSUME SInv, StatRoot PROVE SInv'
<1>1. stage = "stat" /\ (stage' = "access" \/ (stage' = "stderr" /\ said'.kind \in Errors))
  <2>1. "does not exist" \in Errors /\ "is not a directory" \in Errors /\ "is not readable" \in Errors
    BY DEF Errors
  <2> QED
    BY <2>1, SayTells DEF StatRoot
<1> QED
  BY <1>1, QuietSInv DEF StatRoot

LEMMA AccessSInv == ASSUME SInv, Access PROVE SInv'
<1>1. stage = "access" /\ (stage' = "walk" \/ (stage' = "stderr" /\ said'.kind \in Errors))
  <2>1. "is not readable" \in Errors
    BY DEF Errors
  <2> QED
    BY <2>1, SayTells DEF Access
<1> QED
  BY <1>1, QuietSInv DEF Access

LEMMA ReadDirSInv == ASSUME SInv, ReadDir PROVE SInv'
<1>1. Step /\ UNCHANGED vars /\ stage = "walk"
  BY DEF ReadDir, Walking
<1>2. stage' = "walk" \/ (stage' = "stderr" /\ said'.kind \in Errors)
  <2>1. "is not readable" \in Errors
    BY DEF Errors
  <2> QED
    BY <1>1, <2>1, SayTells DEF ReadDir
<1> QED
  BY <1>1, <1>2, QuietSInv

LEMMA EntrySInv == ASSUME SInv, NEW e, Entry(e) PROVE SInv'
<1>1. Step /\ UNCHANGED vars /\ stage = "walk" /\ stage' = "walk"
  BY DEF Entry, Walking
<1> QED
  BY <1>1, QuietSInv

LEMMA ReturnSInv == ASSUME SInv, Return PROVE SInv'
<1>1. Step /\ UNCHANGED <<vars, found>> /\ stage = "walk"
  BY DEF Return, Walking
<1>2. stage' = "walk" \/ (stage' = "stdout" /\ said' = [kind |-> "stats", found |-> found])
  BY <1>1 DEF Return
<1> QED
  BY <1>1, <1>2, QuietSInv

LEMMA StatSInv == ASSUME SInv, Stat, stage = "walk" PROVE SInv'
<1>1. Step /\ UNCHANGED vars /\ stage' = "walk"
  BY DEF Stat
<1> QED
  BY <1>1, QuietSInv

LEMMA PrintSInv == ASSUME SInv, PrintLine PROVE SInv'
<1>1. UNCHANGED <<child, code, outcome, program, argv, reply, stage, said, found>>
  BY DEF PrintLine, Step, Write, toolVars, cliVars, walkVars, callVars
<1>2. stage \in {"stdout", "stderr"}
  BY DEF PrintLine
<1> USE DEF SInv
<1>3. Accepted' /\ Ended' /\ Whole'
  BY <1>1 DEF Accepted, Ended, Whole
<1>4. Told'
  BY <1>1, <1>2 DEF Told
<1> QED
  BY <1>3, <1>4

LEMMA ExitCliSInv == ASSUME SInv, ExitCli PROVE SInv'
<1>1. UNCHANGED <<outcome, program, argv, reply, written, said, found>>
  BY DEF ExitCli, Exit, Step, toolVars, walkVars, callVars
<1>2. child = "running" /\ child' = "exited" /\ stage' = "done" /\ program = "repo-stats"
  BY DEF ExitCli, Exit, Step
<1>3. \/ stage = "stdout" /\ code' = "zero" /\ written["stdout"] = Line(found)
      \/ stage = "stderr" /\ code' = "nonzero" /\ written["stderr"] = 1
  BY DEF ExitCli, Exit, Length
<1>4. code = "null"
  BY <1>2, <1>3 DEF SInv, Told
<1> USE DEF SInv
<1>5. Accepted' /\ Whole'
  BY <1>1, <1>2 DEF Accepted, Whole
<1>6. Told'
  <2>1. CASE stage = "stdout"
    BY <1>1, <1>2, <1>3, <2>1 DEF Told, Line
  <2>2. CASE stage = "stderr"
    BY <1>1, <1>2, <1>3, <2>2 DEF Told, Line
  <2> QED
    BY <1>3, <2>1, <2>2
<1>7. Ended'
  BY <1>1, <1>2, <1>3, <1>4 DEF Ended
<1> QED
  BY <1>5, <1>6, <1>7

LEMMA CallSInv == ASSUME SInv, IInv, Call PROVE SInv'
<1>1. UNCHANGED <<program, argv, reply, stage, said, found>>
  BY DEF Call, toolVars, cliVars, walkVars
<1>2. child' # "none" => child # "none" \/ argv # <<>> \/ program = "any"
  BY DEF Call, SInv, Accepted
<1> USE DEF SInv
<1>3. Accepted' /\ Whole'
  BY <1>1, <1>2 DEF Accepted, Whole
<1>4. ASSUME program = "repo-stats" PROVE UNCHANGED <<code, written>>
  BY <1>4 DEF Call, Refuse, Spawn, Timeout, SpawnError, Close, Die, Data, Chunk, procVars
<1>5. Told'
  BY <1>1, <1>4 DEF Told, Line
<1>6. Ended'
  <2>1. CASE Refuse
    BY <2>1 DEF Refuse, Ended, procVars
  <2>2. CASE Spawn
    BY <2>2 DEF Spawn, Ended
  <2>3. CASE Timeout
    BY <2>3 DEF Timeout, Ended, procVars
  <2>4. CASE SpawnError
    BY <2>4 DEF SpawnError, settle, Ended
  <2>5. CASE Close
    BY <2>5 DEF Close, settle, Report, Ended, procVars, IInv, TypeOK
  <2>6. CASE Die
    BY <2>6 DEF Die, Ended, callVars, IInv, Flags
  <2>7. ASSUME NEW s \in Streams, NEW n \in 1..MaxWritten, Data(s, n) PROVE Ended'
    BY <2>7 DEF Data, Chunk, Drop, Keep, OverCap, settle, Ended, procVars, callVars
  <2>8. ASSUME NEW s \in Streams, Write(s) PROVE Ended'
    BY <2>8 DEF Write, Ended, callVars
  <2>9. CASE Fork
    BY <2>9 DEF Fork, Ended, callVars
  <2>10. CASE GrandchildExits
    BY <2>10 DEF GrandchildExits, Ended, callVars
  <2>11. ASSUME NEW status \in {"zero", "nonzero"}, Exit(status) PROVE Ended'
    BY <2>11 DEF Exit, Ended, callVars, IInv, Finished
  <2> QED
    BY <2>1, <2>2, <2>3, <2>4, <2>5, <2>6, <2>7, <2>8, <2>9, <2>10, <2>11 DEF Call
<1> QED
  BY <1>3, <1>5, <1>6

\* A size is asked for only while the tree is walked.
Stages == statting # "null" => stage = "walk"

LEMMA StagesHold == StatsSpec => []Stages
<1>1. StatsInit => Stages
  BY DEF StatsInit, Stages
<1>2. ASSUME Stages, [StatsNext]_statsVars PROVE Stages'
  <2>1. CASE Handle \/ Reply \/ Call \/ UNCHANGED statsVars
    BY <1>2, <2>1 DEF Handle, Reply, Call, statsVars, cliVars, walkVars, Stages
  <2>2. CASE main \/ StatRoot \/ Access
    BY <1>2, <2>2 DEF main, StatRoot, Access, walkVars, Stages
  <2>3. CASE ReadDir \/ Return
    BY <2>3 DEF ReadDir, Return, Walking, Stages
  <2>4. CASE Stat
    BY <2>4 DEF Stat, Stages
  <2>5. CASE PrintLine \/ ExitCli
    BY <1>2, <2>5 DEF PrintLine, ExitCli, cliVars, walkVars, Stages
  <2>6. ASSUME NEW p \in Paths, NEW k \in Kinds, Entry([path |-> p, kind |-> k]) PROVE Stages'
    BY <2>6 DEF Entry, Walking, Stages
  <2>7. ASSUME NEW p \in All, Change(p) PROVE Stages'
    BY <1>2, <2>7 DEF Change, cliVars, walkVars, Stages
  <2> QED
    BY <1>2, <2>1, <2>2, <2>3, <2>4, <2>5, <2>6, <2>7 DEF StatsNext, cli
<1> QED
  BY <1>1, <1>2, PTL DEF StatsSpec

LEMMA StepSInv == ASSUME SInv, IInv, Stages, [StatsNext]_statsVars PROVE SInv'
<1>1. CASE Handle
  BY <1>1, HandleSInv
<1>2. CASE Reply
  BY <1>2, ReplySInv
<1>3. CASE main \/ StatRoot \/ Access \/ ReadDir \/ Return
  BY <1>3, MainSInv, StatRootSInv, AccessSInv, ReadDirSInv, ReturnSInv
<1>4. CASE Stat
  BY <1>4, StatSInv DEF Stat, Stages
<1>5. CASE PrintLine \/ ExitCli
  BY <1>5, PrintSInv, ExitCliSInv
<1>6. ASSUME NEW p \in Paths, NEW k \in Kinds, Entry([path |-> p, kind |-> k]) PROVE SInv'
  BY <1>6, EntrySInv
<1>7. CASE Call
  BY <1>7, CallSInv
<1>8. ASSUME UNCHANGED <<vars, toolVars, cliVars>> PROVE SInv'
  BY <1>8 DEF SInv, Accepted, Told, Ended, Whole, Line, vars, callVars, procVars, toolVars, cliVars,
              walkVars
<1>9. ASSUME NEW p \in All, Change(p) PROVE SInv'
  BY <1>8, <1>9 DEF Change
<1>10. CASE UNCHANGED statsVars
  BY <1>8, <1>10 DEF statsVars
<1> QED
  BY <1>1, <1>2, <1>3, <1>4, <1>5, <1>6, <1>7, <1>9, <1>10 DEF StatsNext, cli

\* No answer of the tool is cut short or left to the program to refuse: the line
\* that is parsed is all of it, and an error carries the program's reason.
THEOREM WholeAnswers == StatsSpec => []Whole
<1>1. StatsSpec => []IInv
  BY Composes, Invariance, PTL
<1>2. SInv /\ IInv /\ Stages /\ [StatsNext]_statsVars => SInv'
  BY StepSInv
<1>3. SInv => Whole
  BY DEF SInv
<1> QED
  BY <1>1, <1>2, <1>3, InitSInv, StagesHold, PTL DEF StatsSpec

\* With the tool around it, the call keeps its cap, its completeness and its
\* account of the kills (the theorems above).
THEOREM StillComplete == StatsSpec => [](OutputTrue /\ KillExplained)
BY Composes, Complete, Explained, PTL

--------------------------------------------------------------------------------
(* The tree.                                                               *)

\* A property that Parent hands down from the root holds of every path.
LEMMA FromTheRoot ==
  ASSUME NEW S, S \subseteq Paths, \A p \in Paths : (\/ Parent[p] = Root \/ Parent[p] \in S) => p \in S
  PROVE  S = Paths
<1> DEFINE P == Paths \ S
<1> SUFFICES ASSUME P # {} PROVE FALSE
  OBVIOUS
<1>1. PICK p \in P : Parent[p] \notin P
  <2>1. P \in SUBSET Paths
    OBVIOUS
  <2> HIDE DEF P
  <2> QED
    BY <2>1, StatsAssumption
<1>2. p \in Paths /\ Parent[p] \in All
  BY StatsAssumption
<1> QED
  BY <1>1, <1>2 DEF All

\* Above is the set of the directories on the way to the root.
LEMMA AboveDef ==
  \A p \in All : Above[p] = IF p = Root THEN {} ELSE {Parent[p]} \cup Above[Parent[p]]
<1> DEFINE Closed(A, p) == /\ p # Root => Parent[p] \in A
                           /\ \A q \in A : q # Root => Parent[q] \in A
           least == [p \in All |-> {a \in All : \A A \in SUBSET All : Closed(A, p) => a \in A}]
           Def(f) == f = [p \in All |-> IF p = Root THEN {} ELSE {Parent[p]} \cup f[Parent[p]]]
<1>1. \A p \in All : p # Root => p \in Paths /\ Parent[p] \in All
  BY StatsAssumption DEF All
<1>2. Root \in All
  BY DEF All
<1>3. least[Root] = {}
  <2>1. Closed({}, Root)
    OBVIOUS
  <2> HIDE DEF Closed
  <2>2. {} \in SUBSET All
    OBVIOUS
  <2> QED
    BY <1>2, <2>1, <2>2
<1>4. ASSUME NEW p \in All, p # Root
      PROVE  least[p] = {Parent[p]} \cup least[Parent[p]]
  <2> DEFINE q == Parent[p]
             U == {q} \cup least[q]
  <2>1. q \in All
    BY <1>1, <1>4
  <2>2. \A A \in SUBSET All : Closed(A, p) => q \in A /\ Closed(A, q)
    BY <1>4
  <2>3. U \subseteq least[p]
    <3>1. \A a \in least[q] : a \in All /\ \A A \in SUBSET All : Closed(A, q) => a \in A
      BY <2>1
    <3> HIDE DEF Closed
    <3> QED
      BY <2>1, <2>2, <3>1
  <2>4. U \in SUBSET All
    BY <2>1
  <2>5. Closed(U, p)
    <3>1. ASSUME NEW a \in U, a # Root PROVE Parent[a] \in U
      <4>1. CASE a = q
        <5>1. Parent[q] \in All
          BY <1>1, <2>1, <3>1, <4>1
        <5>2. \A A \in SUBSET All : Closed(A, q) => Parent[q] \in A
          BY <3>1, <4>1
        <5> HIDE DEF Closed
        <5> QED
          BY <2>1, <4>1, <5>1, <5>2
      <4>2. CASE a \in least[q]
        <5>1. a \in All /\ \A A \in SUBSET All : Closed(A, q) => a \in A
          BY <2>1, <4>2
        <5>2. Parent[a] \in All
          BY <1>1, <3>1, <5>1
        <5>3. \A A \in SUBSET All : Closed(A, q) => Parent[a] \in A
          BY <3>1, <5>1
        <5> HIDE DEF Closed
        <5> QED
          BY <2>1, <5>2, <5>3
      <4> QED
        BY <4>1, <4>2
    <3> QED
      BY <3>1
  <2>6. least[p] \subseteq U
    <3>1. \A a \in least[p] : \A A \in SUBSET All : Closed(A, p) => a \in A
      OBVIOUS
    <3> HIDE DEF Closed, U
    <3> QED
      BY <2>4, <2>5, <3>1
  <2> QED
    BY <2>3, <2>6
<1>5. Def(least)
  <2> HIDE DEF least
  <2>1. least = [p \in All |-> least[p]]
    BY DEF least
  <2>2. \A p \in All : least[p] = IF p = Root THEN {} ELSE {Parent[p]} \cup least[Parent[p]]
    BY <1>3, <1>4
  <2> QED
    BY <2>1, <2>2, Zenon
<1>6. Above = CHOOSE f : Def(f)
  BY DEF Above
<1>7. Def(Above)
  <2> HIDE DEF Def
  <2> QED
    BY <1>5, <1>6
<1> QED
  BY <1>7

LEMMA AboveRoot == Above[Root] = {}
<1>1. Root \in All
  BY DEF All
<1> QED
  BY <1>1, AboveDef

LEMMA AbovePath ==
  ASSUME NEW p \in Paths
  PROVE  /\ p \in All /\ Parent[p] \in All
         /\ Above[p] = {Parent[p]} \cup Above[Parent[p]]
<1>1. p \in All /\ p # Root /\ Parent[p] \in All
  BY StatsAssumption DEF All
<1> QED
  BY <1>1, AboveDef

LEMMA AboveType == \A p \in All : Above[p] \subseteq All
<1> DEFINE S == {p \in Paths : Above[p] \subseteq All}
<1>1. \A p \in Paths : (\/ Parent[p] = Root \/ Parent[p] \in S) => p \in S
  BY AbovePath, AboveRoot
<1>2. S = Paths
  <2>1. S \subseteq Paths
    OBVIOUS
  <2> HIDE DEF S
  <2> QED
    BY <1>1, <2>1, FromTheRoot
<1> QED
  BY <1>2, AboveRoot DEF All

\* The root is above every path.
LEMMA RootAbove == \A p \in Paths : Root \in Above[p]
<1> DEFINE S == {p \in Paths : Root \in Above[p]}
<1>1. \A p \in Paths : (\/ Parent[p] = Root \/ Parent[p] \in S) => p \in S
  BY AbovePath
<1>2. S = Paths
  <2>1. S \subseteq Paths
    OBVIOUS
  <2> HIDE DEF S
  <2> QED
    BY <1>1, <2>1, FromTheRoot
<1> QED
  BY <1>2

\* What is above a directory is above what the directory holds.
LEMMA AboveAbove == \A p \in All : \A a \in Above[p] : Above[a] \subseteq Above[p]
<1> DEFINE S == {p \in Paths : \A a \in Above[p] : Above[a] \subseteq Above[p]}
<1>1. \A p \in Paths : (\/ Parent[p] = Root \/ Parent[p] \in S) => p \in S
  BY AbovePath, AboveRoot
<1>2. S = Paths
  <2>1. S \subseteq Paths
    OBVIOUS
  <2> HIDE DEF S
  <2> QED
    BY <1>1, <2>1, FromTheRoot
<1> QED
  BY <1>2, AboveRoot DEF All

\* No path is above itself.
LEMMA AboveStrict == \A p \in All : p \notin Above[p]
<1> DEFINE S == {p \in Paths : p \notin Above[p]}
<1>1. ASSUME NEW p \in Paths, Parent[p] = Root \/ Parent[p] \in S
      PROVE  p \in S
  <2>1. /\ p \in All /\ Parent[p] \in All /\ p # Root
        /\ Above[p] = {Parent[p]} \cup Above[Parent[p]]
    BY AbovePath, StatsAssumption
  <2>2. Parent[p] \notin Above[Parent[p]]
    BY <1>1, AboveRoot
  <2>3. ASSUME p \in Above[Parent[p]] PROVE FALSE
    <3>1. Above[p] \subseteq Above[Parent[p]]
      BY <2>1, <2>3, AboveAbove
    <3> QED
      BY <2>1, <2>2, <3>1
  <2>4. p # Parent[p]
    BY <1>1, <2>1, <2>2, <2>3
  <2> QED
    BY <2>1, <2>3, <2>4
<1>2. S = Paths
  <2>1. S \subseteq Paths
    OBVIOUS
  <2> HIDE DEF S
  <2> QED
    BY <1>1, <2>1, FromTheRoot
<1> QED
  BY <1>2, AboveRoot DEF All

\* Below a directory there is one of its entries on the way.
LEMMA EntryToward ==
  \A p \in Paths : \A d \in Above[p] : \E c \in Above[p] \cup {p} : c \in Paths /\ Parent[c] = d
<1> DEFINE S == {p \in Paths : \A d \in Above[p] :
                   \E c \in Above[p] \cup {p} : c \in Paths /\ Parent[c] = d}
<1>1. ASSUME NEW p \in Paths, Parent[p] = Root \/ Parent[p] \in S
      PROVE  p \in S
  <2>1. Above[p] = {Parent[p]} \cup Above[Parent[p]]
    BY AbovePath
  <2>2. ASSUME NEW d \in Above[p]
        PROVE  \E c \in Above[p] \cup {p} : c \in Paths /\ Parent[c] = d
    <3>1. CASE d = Parent[p]
      BY <3>1
    <3>2. CASE d \in Above[Parent[p]]
      <4>1. Parent[p] \in S
        BY <1>1, <3>2, AboveRoot
      <4>2. PICK c \in Above[Parent[p]] \cup {Parent[p]} : c \in Paths /\ Parent[c] = d
        BY <3>2, <4>1
      <4> QED
        BY <2>1, <4>2
    <3> QED
      BY <2>1, <2>2, <3>1, <3>2
  <2> QED
    BY <2>2
<1>2. S = Paths
  <2>1. S \subseteq Paths
    OBVIOUS
  <2> HIDE DEF S
  <2> QED
    BY <1>1, <2>1, FromTheRoot
<1> QED
  BY <1>2

\* How deep a path is.
LEMMA Depth ==
  \A p \in All : IsFiniteSet(Above[p]) /\ Cardinality(Above[p]) \in Nat
<1>1. IsFiniteSet(All)
  BY StatsAssumption, FS_AddElement DEF All
<1>2. ASSUME NEW p \in All PROVE IsFiniteSet(Above[p])
  BY <1>1, AboveType, FS_Subset
<1> QED
  BY <1>2, FS_CardinalityType

LEMMA Deeper ==
  /\ \A p \in Paths : Cardinality(Above[p]) = Cardinality(Above[Parent[p]]) + 1
  /\ \A p \in All : \A a \in Above[p] : Cardinality(Above[a]) < Cardinality(Above[p])
<1>1. ASSUME NEW p \in Paths
      PROVE  Cardinality(Above[p]) = Cardinality(Above[Parent[p]]) + 1
  <2>1. Parent[p] \in All /\ Above[p] = Above[Parent[p]] \cup {Parent[p]}
    BY AbovePath
  <2>2. IsFiniteSet(Above[Parent[p]]) /\ Parent[p] \notin Above[Parent[p]]
    BY <2>1, Depth, AboveStrict
  <2> QED
    BY <2>1, <2>2, FS_AddElement
<1>2. ASSUME NEW p \in All, NEW a \in Above[p]
      PROVE  Cardinality(Above[a]) < Cardinality(Above[p])
  <2>1. a \in All /\ Above[a] \subseteq Above[p] /\ a \notin Above[a]
    BY AboveType, AboveAbove, AboveStrict
  <2>2. Above[a] # Above[p]
    BY <2>1
  <2>3. IsFiniteSet(Above[p]) /\ Cardinality(Above[a]) \in Nat /\ Cardinality(Above[p]) \in Nat
    BY <2>1, Depth
  <2>4. /\ Cardinality(Above[a]) <= Cardinality(Above[p])
        /\ Cardinality(Above[a]) = Cardinality(Above[p]) => Above[a] = Above[p]
    BY <2>1, <2>3, FS_Subset
  <2> QED
    BY <2>2, <2>3, <2>4
<1> QED
  BY <1>1, <1>2

--------------------------------------------------------------------------------
(* The counts of a set of files.                                           *)

\* What holds of no path, and of one path more, holds of every finite set.
LEMMA OneByOne ==
  ASSUME NEW S, IsFiniteSet(S), NEW Q, {} \in Q,
         \A T \in SUBSET S : \A x \in S \ T : T \in Q => T \cup {x} \in Q
  PROVE  \A T \in SUBSET S : T \in Q
<1> DEFINE Bad == (SUBSET S) \ Q
           R == StrictSubsetOrdering(S)
<1> SUFFICES ASSUME Bad # {} PROVE FALSE
  OBVIOUS
<1>1. IsWellFoundedOn(R, SUBSET S)
  BY FS_StrictSubsetOrderingWellFounded, FS_FiniteSubsetsOfFinite
<1>2. PICK T \in Bad : \A U \in Bad : ~(<<U, T>> \in R)
  <2>1. Bad \subseteq SUBSET S
    OBVIOUS
  <2> HIDE DEF Bad, R
  <2> QED
    BY <1>1, <2>1, WFMin
<1>3. PICK x \in T : TRUE
  BY <1>2
<1> DEFINE U == T \ {x}
<1>4. U \in SUBSET S /\ x \in S \ U /\ U \cup {x} = T
  OBVIOUS
<1>5. U \in Q
  <2>1. <<U, T>> \in R
    BY <1>3, <1>4 DEF StrictSubsetOrdering
  <2> QED
    BY <1>2, <1>4, <2>1
<1> QED
  BY <1>2, <1>4, <1>5

\* A file of n bytes as n units: the total of a set is how many they have.
Units(S) == UNION {{p} \X (1 .. Size[p]) : p \in S}

LEMMA UnitsAdd ==
  ASSUME NEW S \in SUBSET Paths, NEW p \in Paths \ S, IsFiniteSet(Units(S))
  PROVE  /\ IsFiniteSet(Units(S \cup {p}))
         /\ Cardinality(Units(S \cup {p})) = Cardinality(Units(S)) + Size[p]
<1> DEFINE new == {p} \X (1 .. Size[p])
<1>1. Size[p] \in Nat
  BY StatsAssumption
<1>2. IsFiniteSet(1 .. Size[p]) /\ Cardinality(1 .. Size[p]) = Size[p]
  <2>1. \A n \in Nat : IsFiniteSet(1 .. n) /\ Cardinality(1 .. n) = IF 1 > n THEN 0 ELSE n - 1 + 1
    BY FS_Interval, 1 \in Int, \A n \in Nat : n \in Int
  <2>2. \A n \in Nat : (IF 1 > n THEN 0 ELSE n - 1 + 1) = n
    OBVIOUS
  <2> QED
    BY <1>1, <2>1, <2>2, Zenon
<1>3. IsFiniteSet({p}) /\ Cardinality({p}) = 1
  BY FS_Singleton
<1>4. IsFiniteSet(new) /\ Cardinality(new) = Size[p]
  <2>1. /\ IsFiniteSet({p} \X (1 .. Size[p]))
        /\ Cardinality({p} \X (1 .. Size[p])) = Cardinality({p}) * Cardinality(1 .. Size[p])
    BY <1>2, <1>3, FS_Product, Zenon
  <2>2. 1 * Size[p] = Size[p]
    BY <1>1
  <2>3. Cardinality({p}) * Cardinality(1 .. Size[p]) = 1 * Size[p]
    BY <1>2, <1>3, Zenon
  <2> QED
    BY <2>1, <2>2, <2>3, Zenon
<1>5. Units(S \cup {p}) = Units(S) \cup new /\ Units(S) \cap new = {}
  BY DEF Units
<1>6. Cardinality(Units(S)) \in Nat
  BY FS_CardinalityType
<1> HIDE DEF new
<1>7. Cardinality({}) = 0
  BY FS_EmptySet
<1>8. /\ IsFiniteSet(Units(S) \cup new)
      /\ Cardinality(Units(S) \cup new) =
           Cardinality(Units(S)) + Cardinality(new) - Cardinality(Units(S) \cap new)
  BY <1>4, FS_Union, Zenon
<1>9. Cardinality(Units(S) \cap new) = 0
  BY <1>5, <1>7, Zenon
<1>10. Cardinality(Units(S) \cup new) = Cardinality(Units(S)) + Size[p]
  BY <1>1, <1>4, <1>6, <1>8, <1>9
<1> QED
  BY <1>5, <1>8, <1>10, Zenon

LEMMA UnitsFinite == \A S \in SUBSET Paths : IsFiniteSet(Units(S))
<1> DEFINE Q == {S \in SUBSET Paths : IsFiniteSet(Units(S))}
<1>1. {} \in Q
  <2>1. Units({}) = {}
    BY DEF Units
  <2> QED
    BY <2>1, FS_EmptySet
<1>2. \A S \in SUBSET Paths : \A p \in Paths \ S : S \in Q => S \cup {p} \in Q
  BY UnitsAdd
<1>3. \A S \in SUBSET Paths : S \in Q
  <2> HIDE DEF Q
  <2> QED
    BY <1>1, <1>2, OneByOne, StatsAssumption
<1> QED
  BY <1>3

\* The order in which MapThenSumSet adds does not matter.
LEMMA TotalUnits == \A S \in SUBSET Paths : Total(S) = Cardinality(Units(S))
<1> SUFFICES ASSUME NEW S \in SUBSET Paths
             PROVE  Total(S) = Cardinality(Units(S))
  OBVIOUS
<1> DEFINE Def(f) == f = [s \in SUBSET S |-> IF s = {} THEN 0
                            ELSE LET x == CHOOSE x \in s : TRUE
                                 IN  Size[x] + f[s \ {x}]]
           w == [s \in SUBSET S |-> Cardinality(Units(s))]
           g == CHOOSE f : Def(f)
<1>1. Total(S) = g[S]
  BY DEF Total, MapThenSumSet, MapThenFoldSet
<1>2. Cardinality(Units({})) = 0
  <2>1. Units({}) = {}
    BY DEF Units
  <2> QED
    BY <2>1, FS_EmptySet
<1>3. \A s \in SUBSET S : \A x \in s :
        Cardinality(Units(s)) = Size[x] + Cardinality(Units(s \ {x}))
  <2> SUFFICES ASSUME NEW s \in SUBSET S, NEW x \in s
               PROVE  Cardinality(Units(s)) = Size[x] + Cardinality(Units(s \ {x}))
    OBVIOUS
  <2>1. s \ {x} \in SUBSET Paths /\ x \in Paths \ (s \ {x}) /\ (s \ {x}) \cup {x} = s
    OBVIOUS
  <2>2. IsFiniteSet(Units(s \ {x}))
    BY <2>1, UnitsFinite
  <2>3. Cardinality(Units(s \ {x})) \in Nat /\ Size[x] \in Nat
    BY <2>1, <2>2, FS_CardinalityType, StatsAssumption
  <2>4. Cardinality(Units((s \ {x}) \cup {x})) = Cardinality(Units(s \ {x})) + Size[x]
    BY <2>1, <2>2, UnitsAdd
  <2>5. Cardinality(Units((s \ {x}) \cup {x})) = Cardinality(Units(s))
    BY <2>1, Zenon
  <2> QED
    BY <2>3, <2>4, <2>5
<1>4. Def(w)
  <2>1. ASSUME NEW s \in SUBSET S
        PROVE  w[s] = IF s = {} THEN 0
                      ELSE LET x == CHOOSE x \in s : TRUE IN Size[x] + w[s \ {x}]
    <3>1. CASE s = {}
      BY <1>2, <3>1
    <3>2. CASE s # {}
      <4> DEFINE x == CHOOSE x \in s : TRUE
      <4>1. x \in s /\ s \ {x} \in SUBSET S
        BY <3>2
      <4> HIDE DEF x
      <4>2. w[s] = Size[x] + w[s \ {x}]
        BY <1>3, <4>1
      <4> QED
        BY <3>2, <4>2 DEF x
    <3> QED
      BY <3>1, <3>2
  <2>2. w = [s \in SUBSET S |-> w[s]]
    OBVIOUS
  <2> HIDE DEF w
  <2> QED
    BY <2>1, <2>2
<1>5. Def(g)
  <2> HIDE DEF Def
  <2> QED
    BY <1>4
<1>6. \A s \in SUBSET S : g[s] = IF s = {} THEN 0
                            ELSE LET x == CHOOSE x \in s : TRUE IN Size[x] + g[s \ {x}]
  <2> HIDE DEF g
  <2> QED
    BY <1>5
<1> HIDE DEF g, w, Def
<1> DEFINE Bad == {s \in SUBSET S : g[s] # Cardinality(Units(s))}
           R == StrictSubsetOrdering(S)
<1>7. Bad = {}
  <2> SUFFICES ASSUME Bad # {} PROVE FALSE
    OBVIOUS
  <2>1. IsFiniteSet(S)
    BY FS_Subset, StatsAssumption
  <2>2. IsWellFoundedOn(R, SUBSET S)
    BY <2>1, FS_StrictSubsetOrderingWellFounded, FS_FiniteSubsetsOfFinite
  <2>3. PICK s \in Bad : \A t \in Bad : ~(<<t, s>> \in R)
    <3>1. Bad \subseteq SUBSET S
      OBVIOUS
    <3> HIDE DEF Bad, R
    <3> QED
      BY <2>2, <3>1, WFMin
  <2>4. s # {}
    BY <1>2, <1>6, <2>3
  <2> DEFINE x == CHOOSE x \in s : TRUE
  <2>5. x \in s /\ s \ {x} \in SUBSET S
    BY <2>4
  <2>6. g[s] = Size[x] + g[s \ {x}]
    BY <1>6, <2>3, <2>4
  <2> HIDE DEF x
  <2>7. <<s \ {x}, s>> \in R
    BY <2>3, <2>5 DEF StrictSubsetOrdering
  <2>8. g[s \ {x}] = Cardinality(Units(s \ {x}))
    BY <2>3, <2>5, <2>7
  <2> QED
    BY <1>3, <2>3, <2>5, <2>6, <2>8
<1> QED
  BY <1>1, <1>7

LEMMA TallyNothing == Tally({}, {}) = Nothing
<1>1. Total({}) = 0
  <2>1. Total({}) = Cardinality(Units({})) /\ Units({}) = {}
    BY TotalUnits DEF Units
  <2> QED
    BY <2>1, FS_EmptySet
<1>2. \A x : {p \in {} : Ext[p] = x} = {}
  OBVIOUS
<1> QED
  BY <1>1, <1>2, FS_EmptySet DEF Tally, Nothing

LEMMA TallyFile ==
  ASSUME NEW F \in SUBSET Paths, NEW B, NEW p \in Paths \ F
  PROVE  [Tally(F, B) EXCEPT !.byExt[Ext[p]] = @ + 1, !.files = @ + 1] = Tally(F \cup {p}, B)
<1> DEFINE Of(x) == {q \in F : Ext[q] = x}
           New(x) == {q \in F \cup {p} : Ext[q] = x}
<1>1. IsFiniteSet(F)
  BY FS_Subset, StatsAssumption
<1>2. Ext[p] \in Exts
  BY DEF Exts
<1>3. Cardinality(F \cup {p}) = Cardinality(F) + 1
  BY <1>1, FS_AddElement
<1>4. \A x : x # Ext[p] => New(x) = Of(x)
  OBVIOUS
<1>5. New(Ext[p]) = Of(Ext[p]) \cup {p} /\ p \notin Of(Ext[p]) /\ Of(Ext[p]) \subseteq F
  OBVIOUS
<1>6. Cardinality(New(Ext[p])) = Cardinality(Of(Ext[p])) + 1
  <2> HIDE DEF New, Of
  <2>1. IsFiniteSet(Of(Ext[p]))
    BY <1>1, <1>5, FS_Subset
  <2>2. Cardinality(Of(Ext[p]) \cup {p}) = Cardinality(Of(Ext[p])) + 1
    BY <1>5, <2>1, FS_AddElement
  <2> QED
    BY <1>5, <2>2, Zenon
<1> DEFINE a == [x \in Exts |-> Cardinality(Of(x))]
           b == [x \in Exts |-> Cardinality(New(x))]
<1>7. [a EXCEPT ![Ext[p]] = @ + 1] = b
  <2> HIDE DEF New, Of
  <2> QED
    BY <1>2, <1>4, <1>6
<1>8. /\ Tally(F, B) = [byExt |-> a, files |-> Cardinality(F), bytes |-> Total(B)]
      /\ Tally(F \cup {p}, B) = [byExt |-> b, files |-> Cardinality(F \cup {p}), bytes |-> Total(B)]
  BY Zenon DEF Tally
<1> HIDE DEF a, b
<1>9. ASSUME NEW r, r = [byExt |-> a, files |-> Cardinality(F), bytes |-> Total(B)]
      PROVE  [r EXCEPT !.byExt[Ext[p]] = @ + 1, !.files = @ + 1]
               = [byExt |-> b, files |-> Cardinality(F \cup {p}), bytes |-> Total(B)]
  <2>1. [r EXCEPT !.byExt[Ext[p]] = @ + 1]
          = [byExt |-> [a EXCEPT ![Ext[p]] = @ + 1], files |-> Cardinality(F), bytes |-> Total(B)]
    BY <1>9
  <2> DEFINE q == [r EXCEPT !.byExt[Ext[p]] = @ + 1]
  <2>2. q.files = Cardinality(F) /\ r.files = Cardinality(F)
    BY <1>9, <2>1
  <2>3. [r EXCEPT !.byExt[Ext[p]] = @ + 1, !.files = @ + 1] = [q EXCEPT !.files = @ + 1]
    BY <2>2
  <2>4. [q EXCEPT !.files = @ + 1]
          = [byExt |-> [a EXCEPT ![Ext[p]] = @ + 1], files |-> Cardinality(F) + 1, bytes |-> Total(B)]
    <3> HIDE DEF q
    <3>1. q = [byExt |-> [a EXCEPT ![Ext[p]] = @ + 1], files |-> Cardinality(F), bytes |-> Total(B)]
      BY <2>1 DEF q
    <3> QED
      BY <3>1
  <2> QED
    BY <1>3, <1>7, <2>3, <2>4, Zenon
<1> QED
  BY <1>8, <1>9, Zenon

LEMMA TallySize ==
  ASSUME NEW F, NEW B \in SUBSET Paths, NEW p \in Paths \ B
  PROVE  [Tally(F, B) EXCEPT !.bytes = @ + Size[p]] = Tally(F, B \cup {p})
<1>1. Cardinality(Units(B \cup {p})) = Cardinality(Units(B)) + Size[p]
  BY UnitsAdd, UnitsFinite
<1>2. Total(B) = Cardinality(Units(B)) /\ Total(B \cup {p}) = Cardinality(Units(B \cup {p}))
  BY TotalUnits
<1>3. Total(B \cup {p}) = Total(B) + Size[p]
  BY <1>1, <1>2
<1> DEFINE a == [x \in Exts |-> Cardinality({q \in F : Ext[q] = x})]
<1>4. /\ Tally(F, B) = [byExt |-> a, files |-> Cardinality(F), bytes |-> Total(B)]
      /\ Tally(F, B \cup {p}) = [byExt |-> a, files |-> Cardinality(F), bytes |-> Total(B \cup {p})]
  BY Zenon DEF Tally
<1> HIDE DEF a
<1>5. ASSUME NEW r, r = [byExt |-> a, files |-> Cardinality(F), bytes |-> Total(B)]
      PROVE  [r EXCEPT !.bytes = @ + Size[p]]
               = [byExt |-> a, files |-> Cardinality(F), bytes |-> Total(B \cup {p})]
  BY <1>3, <1>5
<1> QED
  BY <1>4, <1>5, Zenon

--------------------------------------------------------------------------------
(* Where a walk is, and what it has yet to come to.                        *)

\* A tree whose root the directories above it do not hide.
TreeType == {t \in [kind : [All -> Kinds], mode : [All -> Modes], reach : BOOLEAN] : t.reach}
Frames   == [dir : All, read : BOOLEAN, left : SUBSET [path : Paths, kind : Kinds]]

\* A directory that was entered and not listed has all its paths before it, one
\* that was listed those of the entries that are left.
Waits(f, p) ==
  IF f.read THEN \E e \in f.left : e.path \in Above[p] \cup {p} ELSE f.dir \in Above[p]

Pending(s, p) == \E k \in 1 .. Len(s) : Waits(s[k], p)

Visited(t, depth, s) == {p \in Listed(t, depth) : ~Pending(s, p)}

\* A call of recurse is in a directory below those of the calls before it, and
\* what is left of a listing is part of it.
Placed(t, s, k) ==
  /\ Above[s[k].dir] = {s[j].dir : j \in 1 .. (k - 1)}
  /\ Cardinality(Above[s[k].dir]) = k - 1
  /\ t.kind[Root] # "link" => t.kind[s[k].dir] = "dir"
  /\ s[k].read => Lists(t, s[k].dir) /\ s[k].left \subseteq Listing(t, s[k].dir)

\* It has entered one directory of those it lists, which is no longer left.
Entered(s, k) ==
  /\ s[k].read
  /\ Parent[s[k + 1].dir] = s[k].dir
  /\ \A e \in s[k].left : e.path # s[k + 1].dir

Trail(t, depth, s) ==
  /\ s \in Seq(Frames) /\ Len(s) \in 1 .. depth
  /\ t.kind[Root] = "link" => Len(s) = 1
  /\ \A k \in 1 .. Len(s) : Placed(t, s, k)
  /\ \A k \in 1 .. (Len(s) - 1) : Entered(s, k)

LEMMA Reached == \A t \in TreeType : t.reach
BY DEF TreeType

LEMMA TrailFacts ==
  ASSUME NEW t, NEW depth \in Nat, NEW s, Trail(t, depth, s)
  PROVE  /\ Len(s) \in Nat /\ Len(s) >= 1 /\ Len(s) <= depth /\ s \in Seq(Frames)
         /\ \A k \in 1 .. Len(s) : s[k] \in Frames /\ s[k].dir \in All
         /\ \A k \in 1 .. Len(s) : s[k].dir = Root <=> k = 1
         /\ \A k \in 2 .. Len(s) : s[k].dir \in Paths
         /\ \A j, k \in 1 .. Len(s) : s[j].dir = s[k].dir => j = k
         /\ \A k \in 1 .. Len(s) : \A j \in 1 .. (k - 1) : s[j].dir \in Above[s[k].dir]
<1>1. Len(s) \in Nat /\ Len(s) >= 1 /\ Len(s) <= depth /\ s \in Seq(Frames)
  BY DEF Trail
<1>2. \A k \in 1 .. Len(s) : s[k] \in Frames
  BY <1>1
<1>3. \A k \in 1 .. Len(s) : s[k].dir \in All
  BY <1>2 DEF Frames
<1>4. \A k \in 1 .. Len(s) : /\ Above[s[k].dir] = {s[j].dir : j \in 1 .. (k - 1)}
                             /\ Cardinality(Above[s[k].dir]) = k - 1
  BY DEF Trail, Placed
<1>5. \A j, k \in 1 .. Len(s) : s[j].dir = s[k].dir => j = k
  <2> SUFFICES ASSUME NEW j \in 1 .. Len(s), NEW k \in 1 .. Len(s), s[j].dir = s[k].dir
               PROVE  j = k
    OBVIOUS
  <2>1. j - 1 = k - 1
    BY <1>4, Zenon
  <2> QED
    BY <1>1, <2>1
<1>6. \A k \in 1 .. Len(s) : \A j \in 1 .. (k - 1) : s[j].dir \in Above[s[k].dir]
  BY <1>4
<1>7. \A k \in 1 .. Len(s) : s[k].dir = Root <=> k = 1
  <2>1. Cardinality(Above[Root]) = 0
    BY AboveRoot, FS_EmptySet
  <2>2. s[1].dir = Root
    <3>1. Above[s[1].dir] = {}
      BY <1>1, <1>4
    <3>2. s[1].dir \in Paths => Root \in Above[s[1].dir]
      BY RootAbove
    <3> QED
      BY <1>1, <1>3, <3>1, <3>2 DEF All
  <2>3. 1 \in 1 .. Len(s)
    BY <1>1
  <2> QED
    BY <1>5, <2>2, <2>3
<1>8. \A k \in 2 .. Len(s) : s[k].dir \in Paths
  BY <1>1, <1>3, <1>7 DEF All
<1> QED
  BY <1>1, <1>2, <1>3, <1>5, <1>6, <1>7, <1>8

LEMMA PopFacts ==
  ASSUME NEW s \in Seq(Frames), s # <<>>
  PROVE  /\ SubSeq(s, 1, Len(s) - 1) \in Seq(Frames)
         /\ Len(SubSeq(s, 1, Len(s) - 1)) = Len(s) - 1
         /\ \A k \in 1 .. (Len(s) - 1) : SubSeq(s, 1, Len(s) - 1)[k] = s[k]
<1>1. Len(s) \in Nat /\ Len(s) >= 1
  OBVIOUS
<1>2. ASSUME NEW m \in Int, m = Len(s) - 1
      PROVE  /\ SubSeq(s, 1, m) \in Seq(Frames) /\ Len(SubSeq(s, 1, m)) = m
             /\ \A k \in 1 .. m : SubSeq(s, 1, m)[k] = s[k]
  BY <1>1, <1>2
<1>3. Len(s) - 1 \in Int
  BY <1>1
<1> QED
  BY <1>2, <1>3

\* What pends when the last call changes, is joined by another, or returns.
LEMMA PendingTop ==
  ASSUME NEW s \in Seq(Frames), s # <<>>, NEW f \in Frames, NEW p
  PROVE  /\ Pending(s, p) <=> Pending(SubSeq(s, 1, Len(s) - 1), p) \/ Waits(s[Len(s)], p)
         /\ Pending([s EXCEPT ![Len(s)] = f], p)
              <=> Pending(SubSeq(s, 1, Len(s) - 1), p) \/ Waits(f, p)
         /\ Pending(Append(s, f), p) <=> Pending(s, p) \/ Waits(f, p)
<1> DEFINE n == Len(s)
           r == SubSeq(s, 1, n - 1)
           u == [s EXCEPT ![n] = f]
           v == Append(s, f)
<1>1. n \in Nat /\ n >= 1
  OBVIOUS
<1>2. Len(r) = n - 1 /\ \A k \in 1 .. (n - 1) : r[k] = s[k]
  BY PopFacts
<1>3. Len(u) = n /\ u[n] = f /\ \A k \in 1 .. (n - 1) : u[k] = s[k]
  BY <1>1
<1>4. Len(v) = n + 1 /\ v[n + 1] = f /\ \A k \in 1 .. n : v[k] = s[k]
  BY <1>1
<1> HIDE DEF r, u, v, n
<1>5. Pending(r, p) <=> \E k \in 1 .. (n - 1) : Waits(s[k], p)
  BY <1>2, Zenon DEF Pending
<1>6. Pending(s, p) <=> Pending(r, p) \/ Waits(s[n], p)
  <2>1. \A k : k \in 1 .. n <=> k \in 1 .. (n - 1) \/ k = n
    BY <1>1
  <2> QED
    BY <1>5, <2>1, Zenon DEF Pending, n
<1>7. Pending(u, p) <=> Pending(r, p) \/ Waits(f, p)
  <2>1. \A k : k \in 1 .. n <=> k \in 1 .. (n - 1) \/ k = n
    BY <1>1
  <2> QED
    BY <1>3, <1>5, <2>1, Zenon DEF Pending
<1>8. Pending(v, p) <=> Pending(s, p) \/ Waits(f, p)
  <2>1. \A k : k \in 1 .. (n + 1) <=> k \in 1 .. n \/ k = n + 1
    BY <1>1
  <2>2. Pending(s, p) <=> \E k \in 1 .. n : Waits(s[k], p)
    BY Zenon DEF Pending, n
  <2>3. Pending(v, p) <=> \E k \in 1 .. (n + 1) : Waits(v[k], p)
    BY <1>4, Zenon DEF Pending
  <2> QED
    BY <1>4, <2>1, <2>2, <2>3, Zenon
<1> QED
  BY <1>6, <1>7, <1>8 DEF r, u, v, n

--------------------------------------------------------------------------------
(* What a directory of the walk lists.                                     *)

\* Below directories there are no links to follow: readdir asks for permissions only.
LEMMA ListsDir ==
  ASSUME NEW t \in TreeType, NEW d \in All, t.kind[d] = "dir",
         \A a \in Above[d] : t.kind[a] = "dir"
  PROVE  /\ Lists(t, d) <=> t.mode[d] # "none" /\ \A a \in Above[d] : t.mode[a] = "rx"
         /\ Lists(t, d) =>
              Listing(t, d) = {[path |-> q, kind |-> t.kind[q]] :
                                 q \in {c \in Children(d) : t.kind[c] # "absent"}}
<1>1. CASE \A a \in Above[d] : t.mode[a] = "rx"
  <2>1. \A a \in Above[d] : Open(t, a)
    BY <1>1 DEF Open
  <2>2. At(t, d) = "dir"
    BY <2>1, Reached DEF At
  <2> QED
    BY <1>1, <2>2 DEF Lists, Listing
<1>2. CASE ~\A a \in Above[d] : t.mode[a] = "rx"
  <2>1. ~\A a \in Above[d] : Open(t, a)
    BY <1>2 DEF Open
  <2>2. ~\E a \in Above[d] : t.kind[a] = "link" /\ \A b \in Above[a] : Open(t, b)
    OBVIOUS
  <2>3. At(t, d) = "absent"
    BY <2>1, <2>2 DEF At
  <2> QED
    BY <1>2, <2>3 DEF Lists
<1> QED
  BY <1>1, <1>2

\* A root that is a link leads to a directory of regular files.
LEMMA ListsLink ==
  ASSUME NEW t \in TreeType, t.kind[Root] = "link"
  PROVE  /\ Lists(t, Root)
         /\ Listing(t, Root) = {[path |-> q, kind |-> "file"] : q \in Children(Root)}
<1>1. At(t, Root) = "link"
  BY Reached, AboveRoot DEF At
<1> QED
  BY <1>1 DEF Lists, Listing

\* The directories of a walk, when the root is one.
LEMMA TrailDirs ==
  ASSUME NEW t \in TreeType, NEW depth \in Nat, NEW s, Trail(t, depth, s), NEW k \in 1 .. Len(s),
         t.kind[Root] # "link"
  PROVE  t.kind[s[k].dir] = "dir" /\ \A a \in Above[s[k].dir] : t.kind[a] = "dir"
<1>1. \A j \in 1 .. Len(s) : t.kind[s[j].dir] = "dir"
  BY DEF Trail, Placed
<1>2. Above[s[k].dir] = {s[j].dir : j \in 1 .. (k - 1)}
  BY DEF Trail, Placed
<1>3. \A j \in 1 .. (k - 1) : j \in 1 .. Len(s)
  BY TrailFacts
<1> QED
  BY <1>1, <1>2, <1>3

\* What a listing holds: entries of the directory, each of its kind.
LEMMA ListingFacts ==
  ASSUME NEW t \in TreeType, NEW depth \in Nat, NEW s, Trail(t, depth, s), NEW k \in 1 .. Len(s),
         Lists(t, s[k].dir)
  PROVE  /\ Listing(t, s[k].dir) \subseteq [path : Paths, kind : Kinds]
         /\ \A e \in Listing(t, s[k].dir) :
              /\ e.path \in Paths /\ Parent[e.path] = s[k].dir
              /\ IF t.kind[Root] = "link" THEN e.kind = "file" ELSE e.kind = t.kind[e.path]
              /\ e.kind \in {"file", "dir", "link"}
         /\ \A c \in Paths : Parent[c] = s[k].dir /\ t.kind[c] # "absent" =>
              \E e \in Listing(t, s[k].dir) : e.path = c
         /\ t.kind[Root] = "link" => \A c \in Paths : Parent[c] = s[k].dir =>
              \E e \in Listing(t, s[k].dir) : e.path = c
<1>1. s[k].dir \in All
  BY TrailFacts
<1>2. \A c \in Paths : t.kind[c] \in Kinds
  BY DEF TreeType, All
<1>3. CASE t.kind[Root] = "link"
  <2>1. s[k].dir = Root
    <3>1. Len(s) = 1
      BY <1>3 DEF Trail
    <3>2. k = 1
      BY <3>1
    <3> QED
      BY <3>2, TrailFacts
  <2>2. Listing(t, s[k].dir) = {[path |-> q, kind |-> "file"] : q \in Children(Root)}
    BY <1>3, <2>1, ListsLink
  <2>3. \A q \in Children(Root) : q \in Paths /\ Parent[q] = Root
    BY DEF Children
  <2>4. \A q \in Paths : Parent[q] = Root => q \in Children(Root)
    BY DEF Children
  <2>5. "file" \in Kinds
    BY DEF Kinds
  <2> DEFINE E(q) == [path |-> q, kind |-> "file"]
  <2>6. \A q : E(q).path = q /\ E(q).kind = "file"
    OBVIOUS
  <2>7. \A q \in Paths : E(q) \in [path : Paths, kind : Kinds]
    BY <2>5
  <2>8. Listing(t, s[k].dir) = {E(q) : q \in Children(Root)}
    BY <2>2
  <2> HIDE DEF E
  <2> QED
    BY <1>3, <2>1, <2>3, <2>4, <2>6, <2>7, <2>8
<1>4. CASE t.kind[Root] # "link"
  <2>1. Listing(t, s[k].dir) = {[path |-> q, kind |-> t.kind[q]] :
                                  q \in {c \in Children(s[k].dir) : t.kind[c] # "absent"}}
    BY <1>1, <1>4, TrailDirs, ListsDir
  <2>2. \A q \in Paths : q \in Children(s[k].dir) <=> Parent[q] = s[k].dir
    BY DEF Children
  <2>3. \A q \in Children(s[k].dir) : q \in Paths
    BY DEF Children
  <2> DEFINE E(q) == [path |-> q, kind |-> t.kind[q]]
             C == {c \in Children(s[k].dir) : t.kind[c] # "absent"}
  <2>4. \A q : E(q).path = q /\ E(q).kind = t.kind[q]
    OBVIOUS
  <2>5. \A q \in Paths : E(q) \in [path : Paths, kind : Kinds]
    BY <1>2
  <2>6. Listing(t, s[k].dir) = {E(q) : q \in C}
    BY <2>1
  <2>7. \A q \in C : /\ q \in Paths /\ Parent[q] = s[k].dir
                     /\ t.kind[q] \in {"file", "dir", "link"}
    BY <1>2, <2>2, <2>3 DEF Kinds
  <2>8. \A c \in Paths : Parent[c] = s[k].dir /\ t.kind[c] # "absent" => c \in C
    BY <2>2
  <2> HIDE DEF E, C
  <2> QED
    BY <1>4, <2>4, <2>5, <2>6, <2>7, <2>8
<1> QED
  BY <1>3, <1>4

\* What the listed files are, with the root a directory or a link to one.
LEMMA ListedFacts ==
  ASSUME NEW t \in TreeType, NEW depth \in Nat, NEW p \in Listed(t, depth)
  PROVE  /\ p \in Paths
         /\ t.kind[Root] = "link" => Parent[p] = Root /\ Above[p] = {Root}
         /\ t.kind[Root] # "link" =>
              /\ t.kind[p] = "file" /\ Cardinality(Above[p]) <= depth
              /\ \A a \in Above[p] : t.kind[a] = "dir"
              /\ t.mode[Parent[p]] # "none"
              /\ \A a \in Above[p] \ {Parent[p]} : t.mode[a] = "rx"
<1>1. CASE t.kind[Root] = "link"
  <2>1. p \in Paths /\ Parent[p] = Root
    BY <1>1 DEF Listed, Children
  <2>2. Above[p] = {Root}
    BY <2>1, AbovePath, AboveRoot
  <2> QED
    BY <1>1, <2>1, <2>2
<1>2. CASE t.kind[Root] # "link"
  BY <1>2 DEF Listed
<1> QED
  BY <1>1, <1>2

--------------------------------------------------------------------------------
(* What each step of the walk passes.                                      *)

\* The call that runs.
LEMMA TopFacts ==
  ASSUME NEW t, NEW depth \in Nat, NEW s, Trail(t, depth, s)
  PROVE  /\ Len(s) \in Nat /\ Len(s) >= 1 /\ Len(s) <= depth /\ Len(s) \in 1 .. Len(s)
         /\ s \in Seq(Frames) /\ s # <<>> /\ s[Len(s)] \in Frames
         /\ s[Len(s)].dir \in All /\ s[Len(s)].read \in BOOLEAN
         /\ s[Len(s)].left \subseteq [path : Paths, kind : Kinds]
         /\ Placed(t, s, Len(s))
<1>1. Len(s) \in Nat /\ Len(s) >= 1 /\ Len(s) <= depth /\ s \in Seq(Frames)
  BY TrailFacts
<1>2. Len(s) \in 1 .. Len(s) /\ s # <<>>
  BY <1>1
<1>3. s[Len(s)] \in Frames
  BY <1>2, TrailFacts
<1>4. /\ s[Len(s)].dir \in All /\ s[Len(s)].read \in BOOLEAN
      /\ s[Len(s)].left \subseteq [path : Paths, kind : Kinds]
  BY <1>3 DEF Frames
<1>5. Placed(t, s, Len(s))
  BY <1>2, Zenon DEF Trail
<1> QED
  BY <1>1, <1>2, <1>3, <1>4, <1>5

\* What it lists.
LEMMA TopListing ==
  ASSUME NEW t \in TreeType, NEW depth \in Nat, NEW s, Trail(t, depth, s), Lists(t, s[Len(s)].dir)
  PROVE  /\ Listing(t, s[Len(s)].dir) \subseteq [path : Paths, kind : Kinds]
         /\ \A e \in Listing(t, s[Len(s)].dir) :
              /\ e.path \in Paths /\ Parent[e.path] = s[Len(s)].dir
              /\ IF t.kind[Root] = "link" THEN e.kind = "file" ELSE e.kind = t.kind[e.path]
              /\ e.kind \in {"file", "dir", "link"}
         /\ \A c \in Paths : Parent[c] = s[Len(s)].dir /\ t.kind[c] # "absent" =>
              \E e \in Listing(t, s[Len(s)].dir) : e.path = c
         /\ t.kind[Root] = "link" => \A c \in Paths : Parent[c] = s[Len(s)].dir =>
              \E e \in Listing(t, s[Len(s)].dir) : e.path = c
<1>1. Len(s) \in 1 .. Len(s)
  BY TopFacts
<1> QED
  BY <1>1, ListingFacts

LEMMA TopEntry ==
  ASSUME NEW t \in TreeType, NEW depth \in Nat, NEW s, Trail(t, depth, s), Lists(t, s[Len(s)].dir),
         NEW e \in Listing(t, s[Len(s)].dir)
  PROVE  e.path \in Paths /\ Parent[e.path] = s[Len(s)].dir
<1> DEFINE L == Listing(t, s[Len(s)].dir)
<1>1. \A x \in L : /\ x.path \in Paths /\ Parent[x.path] = s[Len(s)].dir
                   /\ IF t.kind[Root] = "link" THEN x.kind = "file" ELSE x.kind = t.kind[x.path]
                   /\ x.kind \in {"file", "dir", "link"}
  BY TopListing
<1>2. e \in L
  OBVIOUS
<1> HIDE DEF L
<1> QED
  BY <1>1, <1>2

\* Listing a directory passes nothing.
LEMMA ReadPasses ==
  ASSUME NEW t \in TreeType, NEW depth \in Nat, NEW s, Trail(t, depth, s),
         ~s[Len(s)].read, Lists(t, s[Len(s)].dir),
         NEW f, f.read, f.left = Listing(t, s[Len(s)].dir),
         NEW p \in Listed(t, depth)
  PROVE  Waits(f, p) <=> Waits(s[Len(s)], p)
<1> DEFINE d == s[Len(s)].dir
<1>1. Len(s) \in 1 .. Len(s) /\ d \in All
  BY TopFacts
<1>2. Waits(s[Len(s)], p) <=> d \in Above[p]
  BY DEF Waits
<1>3. Waits(f, p) <=> \E e \in Listing(t, d) : e.path \in Above[p] \cup {p}
  BY DEF Waits
<1>4. p \in Paths /\ p \in All
  BY ListedFacts, AbovePath
<1>5. ASSUME NEW e \in Listing(t, d), e.path \in Above[p] \cup {p}
      PROVE  d \in Above[p]
  <2>1. e.path \in Paths /\ Parent[e.path] = d
    BY <1>5, TopEntry
  <2>2. d \in Above[e.path]
    BY <2>1, AbovePath
  <2>3. e.path \in Above[p] => Above[e.path] \subseteq Above[p]
    BY <1>4, AboveAbove
  <2> QED
    BY <1>5, <2>2, <2>3
<1>6. ASSUME d \in Above[p]
      PROVE  \E e \in Listing(t, d) : e.path \in Above[p] \cup {p}
  <2>1. PICK c \in Above[p] \cup {p} : c \in Paths /\ Parent[c] = d
    BY <1>4, <1>6, EntryToward
  <2>2. t.kind[Root] = "link" \/ t.kind[c] # "absent"
    BY <2>1, ListedFacts
  <2>3. \E e \in Listing(t, d) : e.path = c
    BY <2>1, <2>2, TopListing
  <2> QED
    BY <2>1, <2>3
<1> QED
  BY <1>2, <1>3, <1>5, <1>6

\* Nothing that is to be counted is below a directory that cannot be listed.
LEMMA SkipPasses ==
  ASSUME NEW t \in TreeType, NEW depth \in Nat, NEW s, Trail(t, depth, s),
         ~s[Len(s)].read, ~Lists(t, s[Len(s)].dir), NEW p \in Listed(t, depth)
  PROVE  ~Waits(s[Len(s)], p)
<1> DEFINE d == s[Len(s)].dir
<1>1. Len(s) \in 1 .. Len(s) /\ d \in All
  BY TopFacts
<1>2. t.kind[Root] # "link"
  <2> SUFFICES ASSUME t.kind[Root] = "link" PROVE FALSE
    OBVIOUS
  <2>1. Len(s) = 1
    BY DEF Trail
  <2>2. d = Root
    BY <1>1, <2>1, TrailFacts
  <2> QED
    BY <2>2, ListsLink
<1>3. t.kind[d] = "dir" /\ \A a \in Above[d] : t.kind[a] = "dir"
  BY <1>1, <1>2, TrailDirs
<1>4. p \in Paths /\ p \in All /\ Above[p] = {Parent[p]} \cup Above[Parent[p]]
  BY ListedFacts, AbovePath
<1>5. /\ t.mode[Parent[p]] # "none"
      /\ \A a \in Above[p] \ {Parent[p]} : t.mode[a] = "rx"
  BY <1>2, ListedFacts
<1>6. ASSUME d \in Above[p]
      PROVE  Lists(t, d)
  <2>1. \A a \in Above[d] : a \in Above[p] /\ a # Parent[p]
    <3> SUFFICES ASSUME NEW a \in Above[d]
                 PROVE  a \in Above[p] /\ a # Parent[p]
      OBVIOUS
    <3>1. Above[d] \subseteq Above[p]
      BY <1>4, <1>6, AboveAbove
    <3>2. a \in All /\ d \notin Above[d] /\ a \notin Above[a]
      BY <1>1, AboveType, AboveStrict
    <3>3. d = Parent[p] \/ d \in Above[Parent[p]]
      BY <1>4, <1>6
    <3>4. Above[a] \subseteq Above[d]
      BY <1>1, AboveAbove
    <3> QED
      BY <3>1, <3>2, <3>3, <3>4
  <2>2. \A a \in Above[d] : t.mode[a] = "rx"
    BY <1>5, <2>1
  <2>3. t.mode[d] # "none"
    <3>1. d # Parent[p] => t.mode[d] = "rx"
      BY <1>5, <1>6
    <3> QED
      BY <1>5, <3>1
  <2> QED
    BY <1>1, <1>3, <2>2, <2>3, ListsDir
<1> QED
  BY <1>6 DEF Waits

\* The entry that is next, and what is known of it.
LEMMA EntryFacts ==
  ASSUME NEW t \in TreeType, NEW depth \in Nat, NEW s, Trail(t, depth, s),
         s[Len(s)].read, NEW e \in s[Len(s)].left
  PROVE  /\ e.path \in Paths /\ Parent[e.path] = s[Len(s)].dir
         /\ IF t.kind[Root] = "link" THEN e.kind = "file" ELSE e.kind = t.kind[e.path]
         /\ e.kind \in {"file", "dir", "link"}
         /\ Above[e.path] = {s[Len(s)].dir} \cup Above[s[Len(s)].dir]
         /\ Cardinality(Above[e.path]) = Len(s)
         /\ Above[e.path] = {s[j].dir : j \in 1 .. Len(s)}
<1> DEFINE n == Len(s)
<1>1. n \in Nat /\ n \in 1 .. n /\ s[n].dir \in All /\ Placed(t, s, n)
  BY TopFacts
<1>2. Lists(t, s[n].dir) /\ e \in Listing(t, s[n].dir)
  BY <1>1 DEF Placed
<1>3. /\ e.path \in Paths /\ Parent[e.path] = s[n].dir
      /\ IF t.kind[Root] = "link" THEN e.kind = "file" ELSE e.kind = t.kind[e.path]
      /\ e.kind \in {"file", "dir", "link"}
  BY <1>2, TopListing
<1>4. Above[e.path] = {s[n].dir} \cup Above[s[n].dir]
  BY <1>3, AbovePath
<1>5. Cardinality(Above[s[n].dir]) = n - 1 /\ Above[s[n].dir] = {s[j].dir : j \in 1 .. (n - 1)}
  BY <1>1 DEF Placed
<1>6. Cardinality(Above[e.path]) = n
  <2>1. Cardinality(Above[e.path]) = Cardinality(Above[s[n].dir]) + 1
    BY <1>3, Deeper
  <2> QED
    BY <1>1, <1>5, <2>1
<1>7. Above[e.path] = {s[j].dir : j \in 1 .. n}
  <2>1. \A j : j \in 1 .. n <=> j \in 1 .. (n - 1) \/ j = n
    BY <1>1
  <2> QED
    BY <1>4, <1>5, <2>1
<1> QED
  BY <1>3, <1>4, <1>6, <1>7

\* A regular file is to be counted.
LEMMA FileListed ==
  ASSUME NEW t \in TreeType, NEW depth \in Nat, NEW s, Trail(t, depth, s),
         s[Len(s)].read, NEW e \in s[Len(s)].left, e.kind = "file"
  PROVE  e.path \in Listed(t, depth)
<1> DEFINE n == Len(s)
           d == s[n].dir
<1>1. n \in 1 .. n /\ n \in Nat /\ n <= depth /\ d \in All /\ Lists(t, d)
  <2>1. n \in 1 .. n /\ n \in Nat /\ n <= depth /\ d \in All /\ Placed(t, s, n)
    BY TopFacts
  <2> QED
    BY <2>1 DEF Placed
<1>2. /\ e.path \in Paths /\ Parent[e.path] = d
      /\ Above[e.path] = {d} \cup Above[d]
      /\ Cardinality(Above[e.path]) = n
  BY EntryFacts
<1>3. CASE t.kind[Root] = "link"
  <2>1. n = 1
    BY <1>3 DEF Trail
  <2>2. d = Root
    BY <1>1, <2>1, TrailFacts
  <2> QED
    BY <1>2, <1>3, <2>2, Reached DEF Listed, Children
<1>4. CASE t.kind[Root] # "link"
  <2>1. t.kind[d] = "dir" /\ \A a \in Above[d] : t.kind[a] = "dir"
    BY <1>1, <1>4, TrailDirs
  <2>2. t.mode[d] # "none" /\ \A a \in Above[d] : t.mode[a] = "rx"
    BY <1>1, <2>1, ListsDir
  <2>3. t.kind[e.path] = "file"
    BY <1>4, EntryFacts
  <2> QED
    BY <1>1, <1>2, <1>4, <2>1, <2>2, <2>3, Reached DEF Listed
<1> QED
  BY <1>3, <1>4
\* No call before the last waits for an entry of the last: what they have left are
\* siblings of the directories on the way.
LEMMA OthersPassed ==
  ASSUME NEW t \in TreeType, NEW depth \in Nat, NEW s, Trail(t, depth, s),
         s[Len(s)].read, NEW e \in s[Len(s)].left
  PROVE  ~Pending(SubSeq(s, 1, Len(s) - 1), e.path)
<1> DEFINE n == Len(s)
           r == SubSeq(s, 1, n - 1)
<1>1. n \in Nat /\ n >= 1 /\ s \in Seq(Frames) /\ s # <<>>
  BY TopFacts
<1>2. Len(r) = n - 1 /\ \A k \in 1 .. (n - 1) : r[k] = s[k]
  BY <1>1, PopFacts
<1>3. Pending(r, e.path) <=> \E k \in 1 .. (n - 1) : Waits(s[k], e.path)
  <2> HIDE DEF r, n
  <2> QED
    BY <1>2, Zenon DEF Pending
<1>4. /\ e.path \in Paths /\ Parent[e.path] = s[n].dir
      /\ Above[e.path] = {s[j].dir : j \in 1 .. n}
  BY EntryFacts, ZenonT(60)
<1> SUFFICES ASSUME NEW k \in 1 .. (n - 1), Waits(s[k], e.path) PROVE FALSE
  BY <1>3
<1>5. k \in 1 .. n /\ n \in 1 .. n /\ k + 1 \in 1 .. n /\ k # n /\ k \in Nat
  BY <1>1
<1>6. Entered(s, k) /\ Placed(t, s, k)
  BY <1>5, Zenon DEF Trail
<1>7. s[k].read /\ s[k].left \subseteq Listing(t, s[k].dir) /\ Lists(t, s[k].dir)
  BY <1>6 DEF Entered, Placed
<1>8. PICK x \in s[k].left : x.path \in Above[e.path] \cup {e.path}
  BY <1>7 DEF Waits
<1>9. x.path \in Paths /\ Parent[x.path] = s[k].dir
  BY <1>5, <1>7, ListingFacts
<1>10. \A j \in 1 .. n : s[j].dir = s[k].dir => j = k
  BY <1>5, TrailFacts
<1>11. CASE x.path = e.path
  BY <1>4, <1>5, <1>9, <1>10, <1>11
<1>12. CASE x.path \in Above[e.path]
  <2>1. PICK j \in 1 .. n : x.path = s[j].dir
    BY <1>4, <1>12
  <2>2. j # 1
    <3>1. Root \notin Paths
      BY StatsAssumption
    <3>2. 1 \in 1 .. n
      BY <1>1
    <3>3. s[1].dir = Root
      BY <3>2, TrailFacts
    <3> QED
      BY <1>9, <2>1, <3>1, <3>3
  <2>3. j - 1 \in 1 .. (n - 1) /\ j - 1 \in 1 .. n /\ (j - 1) + 1 = j
    BY <1>1, <2>2
  <2>4. Entered(s, j - 1)
    BY <2>3, Zenon DEF Trail
  <2>5. Parent[s[j].dir] = s[j - 1].dir
    BY <2>3, <2>4 DEF Entered
  <2>6. j - 1 = k
    BY <1>9, <1>10, <2>1, <2>3, <2>5
  <2>7. x.path = s[k + 1].dir
    BY <2>1, <2>3, <2>6
  <2> QED
    BY <1>6, <1>8, <2>7 DEF Entered
<1> QED
  BY <1>8, <1>11, <1>12

\* Once it is removed, neither does the last.
LEMMA EntryPassed ==
  ASSUME NEW t \in TreeType, NEW depth \in Nat, NEW s, Trail(t, depth, s),
         s[Len(s)].read, NEW e \in s[Len(s)].left,
         NEW f, f.read, f.left = s[Len(s)].left \ {e}
  PROVE  /\ ~Waits(f, e.path)
         /\ \A x \in f.left : x.path # e.path
<1>1. /\ e.path \in Paths /\ Parent[e.path] = s[Len(s)].dir
      /\ IF t.kind[Root] = "link" THEN e.kind = "file" ELSE e.kind = t.kind[e.path]
      /\ Above[e.path] = {s[Len(s)].dir} \cup Above[s[Len(s)].dir]
  BY EntryFacts
<1>2. s[Len(s)].dir \in All /\ s[Len(s)].left \subseteq [path : Paths, kind : Kinds]
  BY TopFacts
<1>3. ASSUME NEW x \in f.left PROVE x.path # e.path /\ x.path \notin Above[e.path]
  <2>1. x \in s[Len(s)].left /\ x # e
    BY <1>3
  <2>2. /\ x.path \in Paths /\ Parent[x.path] = s[Len(s)].dir
        /\ IF t.kind[Root] = "link" THEN x.kind = "file" ELSE x.kind = t.kind[x.path]
        /\ Above[x.path] = {s[Len(s)].dir} \cup Above[s[Len(s)].dir]
    BY <2>1, EntryFacts, ZenonT(60)
  <2>3. x.path # e.path
    <3> SUFFICES ASSUME x.path = e.path PROVE FALSE
      OBVIOUS
    <3>1. x.kind = e.kind
      BY <1>1, <2>2
    <3>2. x \in [path : Paths, kind : Kinds] /\ e \in [path : Paths, kind : Kinds]
      BY <1>2, <2>1
    <3>3. x = e
      BY <3>1, <3>2
    <3> QED
      BY <2>1, <3>3
  <2>4. x.path \notin Above[e.path]
    <3>1. x.path \in All
      BY <2>2, AbovePath
    <3>2. x.path \notin Above[x.path]
      BY <3>1, AboveStrict
    <3> QED
      BY <1>1, <2>2, <3>2
  <2> QED
    BY <2>3, <2>4
<1>4. ~Waits(f, e.path)
  BY <1>3 DEF Waits
<1> QED
  BY <1>3, <1>4

\* Without a file or a link the same files are to come, save the file itself.
LEMMA LeafPasses ==
  ASSUME NEW t \in TreeType, NEW depth \in Nat, NEW s, Trail(t, depth, s),
         s[Len(s)].read, NEW e \in s[Len(s)].left, e.kind # "dir",
         NEW f, f.read, f.left = s[Len(s)].left \ {e}, NEW p \in Listed(t, depth)
  PROVE  /\ p # e.path => (Waits(f, p) <=> Waits(s[Len(s)], p))
         /\ e.kind = "link" => p # e.path
<1>1. /\ e.path \in Paths
      /\ IF t.kind[Root] = "link" THEN e.kind = "file" ELSE e.kind = t.kind[e.path]
  BY EntryFacts
<1>2. e.path \notin Above[p]
  <2>1. CASE t.kind[Root] = "link"
    BY <1>1, <2>1, ListedFacts, StatsAssumption
  <2>2. CASE t.kind[Root] # "link"
    BY <1>1, <2>2, ListedFacts
  <2> QED
    BY <2>1, <2>2
<1>3. e.kind = "link" => p # e.path
  BY <1>1, ListedFacts
<1>4. s[Len(s)].left = f.left \cup {e}
  OBVIOUS
<1>5. Waits(s[Len(s)], p) <=> \E x \in s[Len(s)].left : x.path \in Above[p] \cup {p}
  BY DEF Waits
<1>6. Waits(f, p) <=> \E x \in f.left : x.path \in Above[p] \cup {p}
  BY DEF Waits
<1> QED
  BY <1>2, <1>3, <1>4, <1>5, <1>6

\* Nothing that is to be counted is below the depth, and a directory that is
\* entered has all that is below it before it.
LEMMA DirPasses ==
  ASSUME NEW t \in TreeType, NEW depth \in Nat, NEW s, Trail(t, depth, s),
         s[Len(s)].read, NEW e \in s[Len(s)].left, e.kind = "dir",
         NEW f, f.read, f.left = s[Len(s)].left \ {e}, NEW p \in Listed(t, depth)
  PROVE  /\ Waits(s[Len(s)], p) <=> Waits(f, p) \/ Waits(Frame(e.path), p)
         /\ Len(s) >= depth => ~Waits(Frame(e.path), p)
<1>1. /\ e.path \in Paths /\ t.kind[Root] # "link" /\ t.kind[e.path] = "dir"
      /\ Cardinality(Above[e.path]) = Len(s) /\ Len(s) \in Nat
  BY EntryFacts, TopFacts
<1>2. Waits(Frame(e.path), p) <=> e.path \in Above[p]
  BY DEF Waits, Frame
<1>3. p # e.path /\ p \in Paths /\ Cardinality(Above[p]) <= depth
  BY <1>1, ListedFacts
<1>4. s[Len(s)].left = f.left \cup {e}
  OBVIOUS
<1>5. Waits(s[Len(s)], p) <=> \E x \in s[Len(s)].left : x.path \in Above[p] \cup {p}
  BY DEF Waits
<1>6. Waits(f, p) <=> \E x \in f.left : x.path \in Above[p] \cup {p}
  BY DEF Waits
<1>7. Waits(s[Len(s)], p) <=> Waits(f, p) \/ Waits(Frame(e.path), p)
  BY <1>2, <1>3, <1>4, <1>5, <1>6
<1>8. ASSUME Len(s) >= depth, e.path \in Above[p] PROVE FALSE
  <2>1. p \in All
    BY <1>3 DEF All
  <2>2. Cardinality(Above[e.path]) < Cardinality(Above[p]) /\ Cardinality(Above[p]) \in Nat
    BY <1>8, <2>1, Deeper, Depth
  <2> QED
    BY <1>1, <1>3, <1>8, <2>2
<1> QED
  BY <1>2, <1>7, <1>8

--------------------------------------------------------------------------------
(* Each step of the walk leaves a trail.                                   *)

LEMMA TrailStarts ==
  ASSUME NEW t \in TreeType, NEW depth \in Nat, depth >= 1, t.kind[Root] \in {"dir", "link"}
  PROVE  Trail(t, depth, <<Frame(Root)>>)
<1> DEFINE s == <<Frame(Root)>>
<1>1. Root \in All
  BY DEF All
<1>2. Frame(Root) \in Frames /\ Frame(Root).dir = Root /\ ~Frame(Root).read
  BY <1>1 DEF Frame, Frames
<1>3. s \in Seq(Frames) /\ Len(s) = 1 /\ s[1].dir = Root /\ ~s[1].read
  <2> HIDE DEF Frame, Frames
  <2> QED
    BY <1>2
<1> HIDE DEF s
<1>4. \A k \in 1 .. Len(s) : k = 1
  BY <1>3
<1>5. Placed(t, s, 1)
  <2>1. Above[s[1].dir] = {} /\ {s[j].dir : j \in 1 .. (1 - 1)} = {}
    BY <1>3, AboveRoot
  <2>2. Cardinality({}) = 1 - 1
    BY FS_EmptySet
  <2>3. t.kind[Root] # "link" => t.kind[s[1].dir] = "dir"
    BY <1>3
  <2> QED
    BY <1>3, <2>1, <2>2, <2>3 DEF Placed
<1>6. \A k \in 1 .. (Len(s) - 1) : Entered(s, k)
  BY <1>3
<1>7. Len(s) \in 1 .. depth
  BY <1>3
<1>8. \A k \in 1 .. Len(s) : Placed(t, s, k)
  BY <1>4, <1>5, Zenon
<1> QED
  BY <1>3, <1>6, <1>7, <1>8 DEF Trail, s

\* Two stacks with the same calls up to one place it alike.
LEMMA PlacedAlike ==
  ASSUME NEW t, NEW s, NEW u, NEW k \in Nat, s[k] = u[k],
         \A j \in 1 .. (k - 1) : s[j].dir = u[j].dir, Placed(t, s, k)
  PROVE  Placed(t, u, k)
<1>1. {s[j].dir : j \in 1 .. (k - 1)} = {u[j].dir : j \in 1 .. (k - 1)}
  OBVIOUS
<1> QED
  BY <1>1 DEF Placed

LEMMA TrailPops ==
  ASSUME NEW t \in TreeType, NEW depth \in Nat, NEW s, Trail(t, depth, s), Len(s) # 1
  PROVE  Trail(t, depth, SubSeq(s, 1, Len(s) - 1))
<1> DEFINE n == Len(s)
           r == SubSeq(s, 1, n - 1)
<1>1. n \in Nat /\ n >= 2 /\ n <= depth /\ s \in Seq(Frames) /\ s # <<>>
  <2>1. n \in Nat /\ n >= 1 /\ n <= depth /\ s \in Seq(Frames) /\ s # <<>>
    BY TopFacts
  <2>2. \A m \in Nat : m >= 1 /\ m # 1 => m >= 2
    OBVIOUS
  <2> QED
    BY <2>1, <2>2, Zenon
<1>2. r \in Seq(Frames) /\ Len(r) = n - 1 /\ \A k \in 1 .. (n - 1) : r[k] = s[k]
  BY <1>1, PopFacts
<1> HIDE DEF r
<1>3. \A k \in 1 .. n : Placed(t, s, k)
  BY DEF Trail
<1>4. \A k \in 1 .. (n - 1) : Entered(s, k)
  BY DEF Trail
<1>5. t.kind[Root] # "link"
  BY <1>1 DEF Trail
<1>6. ASSUME NEW k \in 1 .. (n - 1) PROVE Placed(t, r, k)
  <2>1. k \in Nat /\ k \in 1 .. n /\ s[k] = r[k]
    BY <1>1, <1>2
  <2>2. \A j \in 1 .. (k - 1) : s[j].dir = r[j].dir
    BY <1>1, <1>2, SMTT(30)
  <2>3. Placed(t, s, k)
    BY <1>3, <2>1
  <2> QED
    BY <2>1, <2>2, <2>3, PlacedAlike
<1>7. ASSUME NEW k \in 1 .. ((n - 1) - 1) PROVE Entered(r, k)
  <2>1. k \in 1 .. (n - 1) /\ k + 1 \in 1 .. (n - 1)
    BY <1>1
  <2>2. r[k] = s[k] /\ r[k + 1] = s[k + 1]
    BY <1>2, <2>1
  <2> QED
    BY <1>4, <2>1, <2>2 DEF Entered
<1>8. Len(r) \in 1 .. depth
  BY <1>1, <1>2
<1>9. /\ \A k \in 1 .. Len(r) : Placed(t, r, k)
      /\ \A k \in 1 .. (Len(r) - 1) : Entered(r, k)
  BY <1>2, <1>6, <1>7
<1> QED
  BY <1>2, <1>5, <1>8, <1>9 DEF Trail, r

\* The last call lists its directory, or is done with an entry.
LEMMA TrailTop ==
  ASSUME NEW t \in TreeType, NEW depth \in Nat, NEW s, Trail(t, depth, s),
         NEW f \in Frames, f.dir = s[Len(s)].dir,
         f.read => Lists(t, f.dir) /\ f.left \subseteq Listing(t, f.dir)
  PROVE  Trail(t, depth, [s EXCEPT ![Len(s)] = f])
<1> DEFINE n == Len(s)
           u == [s EXCEPT ![n] = f]
<1>1. n \in Nat /\ n >= 1 /\ n <= depth /\ s \in Seq(Frames) /\ n \in 1 .. n
  BY TopFacts
<1>2. u \in Seq(Frames) /\ Len(u) = n /\ u[n] = f /\ \A k \in 1 .. (n - 1) : u[k] = s[k]
  BY <1>1
<1> HIDE DEF u
<1>3. \A k \in 1 .. n : Placed(t, s, k)
  BY DEF Trail
<1>4. \A k \in 1 .. (n - 1) : Entered(s, k)
  BY DEF Trail
<1>5. \A k \in 1 .. n : u[k].dir = s[k].dir
  BY <1>1, <1>2
<1>6. ASSUME NEW k \in 1 .. n PROVE Placed(t, u, k)
  <2>1. Placed(t, s, k)
    BY <1>3
  <2>2. \A j \in 1 .. (k - 1) : s[j].dir = u[j].dir
    BY <1>1, <1>2
  <2>3. CASE k # n
    <3>1. k \in Nat /\ s[k] = u[k]
      BY <1>1, <1>2, <2>3
    <3> QED
      BY <2>1, <2>2, <3>1, PlacedAlike
  <2>4. CASE k = n
    <3>1. {s[j].dir : j \in 1 .. (k - 1)} = {u[j].dir : j \in 1 .. (k - 1)}
      BY <2>2
    <3>2. u[k].dir = s[k].dir
      BY <1>5
    <3> QED
      BY <1>2, <2>1, <2>4, <3>1, <3>2 DEF Placed
  <2> QED
    BY <2>3, <2>4
<1>7. ASSUME NEW k \in 1 .. (n - 1) PROVE Entered(u, k)
  <2>1. k \in 1 .. n /\ k + 1 \in 1 .. n
    BY <1>1
  <2>2. u[k] = s[k] /\ u[k + 1].dir = s[k + 1].dir
    BY <1>2, <1>5, <2>1
  <2> QED
    BY <1>4, <2>2 DEF Entered
<1>8. t.kind[Root] = "link" => n = 1
  BY DEF Trail
<1>9. Len(u) \in 1 .. depth
  BY <1>1, <1>2
<1>10. /\ \A k \in 1 .. Len(u) : Placed(t, u, k)
       /\ \A k \in 1 .. (Len(u) - 1) : Entered(u, k)
  BY <1>2, <1>6, <1>7
<1> QED
  BY <1>2, <1>8, <1>9, <1>10 DEF Trail, u

\* The last call enters a directory that it has listed and that is not left.
LEMMA TrailPush ==
  ASSUME NEW t \in TreeType, NEW depth \in Nat, NEW s, Trail(t, depth, s),
         s[Len(s)].read, Len(s) < depth, t.kind[Root] # "link",
         NEW c \in Paths, t.kind[c] = "dir", Parent[c] = s[Len(s)].dir,
         \A e \in s[Len(s)].left : e.path # c
  PROVE  Trail(t, depth, Append(s, Frame(c)))
<1> DEFINE n == Len(s)
           v == Append(s, Frame(c))
<1>1. n \in Nat /\ n >= 1 /\ s \in Seq(Frames) /\ n \in 1 .. n /\ s[n].dir \in All
  BY TopFacts
<1>2. Frame(c) \in Frames /\ Frame(c).dir = c /\ ~Frame(c).read
  BY DEF Frame, Frames, All
<1>3. v \in Seq(Frames) /\ Len(v) = n + 1 /\ v[n + 1] = Frame(c) /\ \A k \in 1 .. n : v[k] = s[k]
  <2> HIDE DEF Frame, Frames
  <2> QED
    BY <1>1, <1>2
<1> HIDE DEF v
<1>4. \A k \in 1 .. n : Placed(t, s, k)
  BY DEF Trail
<1>5. \A k \in 1 .. (n - 1) : Entered(s, k)
  BY DEF Trail
<1>6. Placed(t, s, n)
  BY <1>1, <1>4
<1>7. Above[c] = {v[j].dir : j \in 1 .. n}
  <2>1. Above[c] = {s[n].dir} \cup {s[j].dir : j \in 1 .. (n - 1)}
    BY <1>6, AbovePath DEF Placed
  <2>2. \A j : j \in 1 .. n <=> j \in 1 .. (n - 1) \/ j = n
    BY <1>1
  <2> QED
    BY <1>3, <2>1, <2>2
<1>8. Cardinality(Above[c]) = n
  <2>1. Cardinality(Above[c]) = Cardinality(Above[s[n].dir]) + 1
    BY Deeper
  <2> QED
    BY <1>1, <1>6, <2>1 DEF Placed
<1>9. Placed(t, v, n + 1)
  <2>1. v[n + 1].dir = c /\ ~v[n + 1].read
    BY <1>2, <1>3
  <2>2. (n + 1) - 1 = n
    BY <1>1
  <2> QED
    BY <1>7, <1>8, <2>1, <2>2 DEF Placed
<1>10. ASSUME NEW k \in 1 .. (n + 1) PROVE Placed(t, v, k)
  <2>1. CASE k = n + 1
    BY <1>9, <2>1
  <2>2. CASE k # n + 1
    <3>1. k \in 1 .. n /\ k \in Nat
      BY <1>1, <2>2
    <3>2. \A j \in 1 .. (k - 1) : s[j].dir = v[j].dir
      BY <1>3, <3>1
    <3>3. Placed(t, s, k) /\ s[k] = v[k]
      BY <1>3, <1>4, <3>1
    <3> QED
      BY <3>1, <3>2, <3>3, PlacedAlike
  <2> QED
    BY <2>1, <2>2
<1>11. ASSUME NEW k \in 1 .. n PROVE Entered(v, k)
  <2>1. CASE k = n
    BY <1>1, <1>2, <1>3, <2>1 DEF Entered
  <2>2. CASE k # n
    <3>1. k \in 1 .. (n - 1) /\ k + 1 \in 1 .. n
      BY <1>1, <2>2
    <3> QED
      BY <1>3, <1>5, <3>1 DEF Entered
  <2> QED
    BY <2>1, <2>2
<1>12. Len(v) \in 1 .. depth
  BY <1>1, <1>3
<1>13. /\ \A k \in 1 .. Len(v) : Placed(t, v, k)
       /\ \A k \in 1 .. (Len(v) - 1) : Entered(v, k)
  <2>1. Len(v) - 1 = n
    BY <1>1, <1>3
  <2> QED
    BY <1>3, <1>10, <1>11, <2>1
<1> QED
  BY <1>3, <1>12, <1>13 DEF Trail, v

--------------------------------------------------------------------------------
(* What each step of the walk has visited.                                 *)

LEMMA VisitsAlike ==
  ASSUME NEW t, NEW depth, NEW s, NEW u,
         \A p \in Listed(t, depth) : Pending(s, p) <=> Pending(u, p)
  PROVE  Visited(t, depth, s) = Visited(t, depth, u)
BY DEF Visited

LEMMA StartVisits ==
  ASSUME NEW t \in TreeType, NEW depth \in Nat
  PROVE  Visited(t, depth, <<Frame(Root)>>) = {}
<1> DEFINE s == <<Frame(Root)>>
<1> SUFFICES ASSUME NEW p \in Listed(t, depth) PROVE Pending(s, p)
  BY DEF Visited
<1>1. Waits(Frame(Root), p)
  <2>1. p \in Paths
    BY ListedFacts
  <2> QED
    BY <2>1, RootAbove DEF Waits, Frame
<1>2. 1 \in 1 .. Len(s) /\ s[1] = Frame(Root)
  OBVIOUS
<1> QED
  BY <1>1, <1>2 DEF Pending

\* After readdir.
LEMMA ReadVisits ==
  ASSUME NEW t \in TreeType, NEW depth \in Nat, NEW s, Trail(t, depth, s),
         ~s[Len(s)].read, Lists(t, s[Len(s)].dir),
         NEW f \in Frames, f.read, f.dir = s[Len(s)].dir, f.left = Listing(t, s[Len(s)].dir)
  PROVE  /\ Trail(t, depth, [s EXCEPT ![Len(s)] = f])
         /\ Visited(t, depth, [s EXCEPT ![Len(s)] = f]) = Visited(t, depth, s)
<1>1. s \in Seq(Frames) /\ s # <<>> /\ s[Len(s)] \in Frames
  BY TopFacts
<1>4. ASSUME NEW p \in Listed(t, depth)
      PROVE  Pending(s, p) <=> Pending([s EXCEPT ![Len(s)] = f], p)
  <2>1. Waits(f, p) <=> Waits(s[Len(s)], p)
    BY ReadPasses
  <2> QED
    BY <1>1, <2>1, PendingTop
<1>5. Trail(t, depth, [s EXCEPT ![Len(s)] = f])
  BY TrailTop
<1> QED
  BY <1>4, <1>5, VisitsAlike

\* After a directory that cannot be listed, and after the last of its entries.
LEMMA PopVisits ==
  ASSUME NEW t \in TreeType, NEW depth \in Nat, NEW s, Trail(t, depth, s),
         \/ ~s[Len(s)].read /\ ~Lists(t, s[Len(s)].dir)
         \/ s[Len(s)].read /\ s[Len(s)].left = {}
  PROVE  Visited(t, depth, SubSeq(s, 1, Len(s) - 1)) = Visited(t, depth, s)
<1>1. s \in Seq(Frames) /\ s # <<>> /\ s[Len(s)] \in Frames
  BY TopFacts
<1>2. ASSUME NEW p \in Listed(t, depth) PROVE ~Waits(s[Len(s)], p)
  <2>1. CASE ~s[Len(s)].read /\ ~Lists(t, s[Len(s)].dir)
    BY <2>1, SkipPasses
  <2>2. CASE s[Len(s)].read /\ s[Len(s)].left = {}
    BY <2>2 DEF Waits
  <2> QED
    BY <2>1, <2>2
<1>3. ASSUME NEW p \in Listed(t, depth)
      PROVE  Pending(s, p) <=> Pending(SubSeq(s, 1, Len(s) - 1), p)
  BY <1>1, <1>2, PendingTop
<1> QED
  BY <1>3, VisitsAlike

\* All there is, when the first call returns.
LEMMA LastVisits ==
  ASSUME NEW t \in TreeType, NEW depth \in Nat, NEW s, Trail(t, depth, s), Len(s) = 1,
         s[Len(s)].read, s[Len(s)].left = {}
  PROVE  Visited(t, depth, s) = Listed(t, depth)
<1>1. \A p : ~Waits(s[1], p)
  BY DEF Waits
<1>2. \A p : ~Pending(s, p)
  BY <1>1 DEF Pending
<1> QED
  BY <1>2 DEF Visited

\* After an entry, the rest of the listing is left.
LEMMA RestLeft ==
  ASSUME NEW t \in TreeType, NEW depth \in Nat, NEW s, Trail(t, depth, s),
         s[Len(s)].read, NEW e \in s[Len(s)].left,
         NEW f \in Frames, f.read, f.dir = s[Len(s)].dir, f.left = s[Len(s)].left \ {e}
  PROVE  /\ Trail(t, depth, [s EXCEPT ![Len(s)] = f])
         /\ \A p : /\ Pending(s, p)
                        <=> Pending(SubSeq(s, 1, Len(s) - 1), p) \/ Waits(s[Len(s)], p)
                   /\ Pending([s EXCEPT ![Len(s)] = f], p)
                        <=> Pending(SubSeq(s, 1, Len(s) - 1), p) \/ Waits(f, p)
<1>1. s \in Seq(Frames) /\ s # <<>> /\ s[Len(s)] \in Frames /\ Placed(t, s, Len(s))
  BY TopFacts
<1>2. Trail(t, depth, [s EXCEPT ![Len(s)] = f])
  <2>1. Lists(t, f.dir) /\ f.left \subseteq Listing(t, f.dir)
    BY <1>1 DEF Placed
  <2> QED
    BY <2>1, TrailTop
<1> QED
  BY <1>1, <1>2, PendingTop

\* A file is now visited, and was not before.
LEMMA FileVisits ==
  ASSUME NEW t \in TreeType, NEW depth \in Nat, NEW s, Trail(t, depth, s),
         s[Len(s)].read, NEW e \in s[Len(s)].left, e.kind = "file",
         NEW f \in Frames, f.read, f.dir = s[Len(s)].dir, f.left = s[Len(s)].left \ {e}
  PROVE  /\ Trail(t, depth, [s EXCEPT ![Len(s)] = f])
         /\ e.path \notin Visited(t, depth, s)
         /\ \A p : p \in Visited(t, depth, [s EXCEPT ![Len(s)] = f])
                     <=> p \in Visited(t, depth, s) \/ p = e.path
<1> DEFINE u == [s EXCEPT ![Len(s)] = f]
<1>1. /\ Trail(t, depth, u)
      /\ \A p : /\ Pending(s, p) <=> Pending(SubSeq(s, 1, Len(s) - 1), p) \/ Waits(s[Len(s)], p)
                /\ Pending(u, p) <=> Pending(SubSeq(s, 1, Len(s) - 1), p) \/ Waits(f, p)
  BY RestLeft
<1> HIDE DEF u
<1>2. e.path \in Listed(t, depth)
  BY FileListed
<1>3. Waits(s[Len(s)], e.path)
  BY DEF Waits
<1>4. ~Pending(u, e.path)
  BY <1>1, OthersPassed, EntryPassed
<1>5. \A p \in Listed(t, depth) : p # e.path => (Pending(u, p) <=> Pending(s, p))
  BY <1>1, LeafPasses
<1>6. e.path \notin Visited(t, depth, s)
  BY <1>1, <1>3 DEF Visited
<1>7. \A p : p \in Visited(t, depth, u) <=> p \in Visited(t, depth, s) \/ p = e.path
  BY <1>2, <1>4, <1>5 DEF Visited
<1> QED
  BY <1>1, <1>6, <1>7 DEF u

\* Nothing is visited by an entry that is passed over.
LEMMA RestVisits ==
  ASSUME NEW t \in TreeType, NEW depth \in Nat, NEW s, Trail(t, depth, s),
         s[Len(s)].read, NEW e \in s[Len(s)].left,
         e.kind = "link" \/ (e.kind = "dir" /\ Len(s) >= depth),
         NEW f \in Frames, f.read, f.dir = s[Len(s)].dir, f.left = s[Len(s)].left \ {e}
  PROVE  /\ Trail(t, depth, [s EXCEPT ![Len(s)] = f])
         /\ Visited(t, depth, [s EXCEPT ![Len(s)] = f]) = Visited(t, depth, s)
<1>1. ASSUME NEW p \in Listed(t, depth) PROVE Waits(f, p) <=> Waits(s[Len(s)], p)
  <2>1. CASE e.kind = "link"
    BY <2>1, LeafPasses
  <2>2. CASE e.kind = "dir" /\ Len(s) >= depth
    BY <2>2, DirPasses
  <2> QED
    BY <2>1, <2>2
<1> DEFINE u == [s EXCEPT ![Len(s)] = f]
<1>2. /\ Trail(t, depth, u)
      /\ \A p : /\ Pending(s, p) <=> Pending(SubSeq(s, 1, Len(s) - 1), p) \/ Waits(s[Len(s)], p)
                /\ Pending(u, p) <=> Pending(SubSeq(s, 1, Len(s) - 1), p) \/ Waits(f, p)
  BY RestLeft
<1> HIDE DEF u
<1>3. Visited(t, depth, u) = Visited(t, depth, s)
  BY <1>1, <1>2, VisitsAlike
<1> QED
  BY <1>2, <1>3 DEF u

\* After a directory is entered.
LEMMA PushVisits ==
  ASSUME NEW t \in TreeType, NEW depth \in Nat, NEW s, Trail(t, depth, s),
         s[Len(s)].read, NEW e \in s[Len(s)].left, e.kind = "dir", Len(s) < depth,
         NEW f \in Frames, f.read, f.dir = s[Len(s)].dir, f.left = s[Len(s)].left \ {e}
  PROVE  /\ Trail(t, depth, Append([s EXCEPT ![Len(s)] = f], Frame(e.path)))
         /\ Visited(t, depth, Append([s EXCEPT ![Len(s)] = f], Frame(e.path)))
              = Visited(t, depth, s)
<1> DEFINE n == Len(s)
           u == [s EXCEPT ![Len(s)] = f]
<1>1. /\ s \in Seq(Frames) /\ s # <<>> /\ s[n] \in Frames /\ Placed(t, s, n)
      /\ n \in Nat /\ n >= 1
  BY TopFacts
<1>2. /\ e.path \in Paths /\ Parent[e.path] = s[n].dir
      /\ t.kind[Root] # "link" /\ t.kind[e.path] = "dir"
  BY EntryFacts
<1>3. u \in Seq(Frames) /\ Len(u) = n /\ u[n] = f /\ u # <<>>
  BY <1>1
<1>4. Frame(e.path) \in Frames
  BY <1>2 DEF Frame, Frames, All
<1>5. /\ Trail(t, depth, u)
      /\ \A p : /\ Pending(s, p) <=> Pending(SubSeq(s, 1, Len(s) - 1), p) \/ Waits(s[Len(s)], p)
                /\ Pending(u, p) <=> Pending(SubSeq(s, 1, Len(s) - 1), p) \/ Waits(f, p)
  BY RestLeft
<1> HIDE DEF u
<1>6. \A p : Pending(Append(u, Frame(e.path)), p) <=> Pending(u, p) \/ Waits(Frame(e.path), p)
  BY <1>3, <1>4, PendingTop
<1>7. Trail(t, depth, Append(u, Frame(e.path)))
  <2>1. u[Len(u)].read /\ Len(u) < depth /\ Parent[e.path] = u[Len(u)].dir
    BY <1>2, <1>3
  <2>2. \A x \in u[Len(u)].left : x.path # e.path
    BY <1>3, EntryPassed
  <2> QED
    BY <1>5, <1>2, <2>1, <2>2, TrailPush
<1>8. ASSUME NEW p \in Listed(t, depth) PROVE Pending(s, p) <=> Pending(Append(u, Frame(e.path)), p)
  <2>1. Waits(s[Len(s)], p) <=> Waits(f, p) \/ Waits(Frame(e.path), p)
    BY DirPasses
  <2> QED
    BY <1>5, <1>6, <2>1
<1> QED
  BY <1>7, <1>8, VisitsAlike DEF u

--------------------------------------------------------------------------------
(* The counts, as the walk goes.                                           *)

\* The counts are those of the files visited, and their sizes those of them that
\* can be asked for, but for the file whose size is being asked for.
Counted(t, depth, s, f, file) ==
  LET seen == Visited(t, depth, s)
  IN  /\ f = Tally(seen, (seen \cap Sized(t, depth)) \ {file})
      /\ file # "null" => file \in seen

LEMMA SeenPaths ==
  ASSUME NEW t \in TreeType, NEW depth \in Nat, NEW s
  PROVE  /\ Visited(t, depth, s) \subseteq Listed(t, depth) /\ Listed(t, depth) \subseteq Paths
         /\ Sized(t, depth) \subseteq Listed(t, depth) /\ "null" \notin Paths
BY ListedFacts, StatsAssumption DEF Visited, Sized

LEMMA CountsStart ==
  ASSUME NEW t \in TreeType, NEW depth \in Nat
  PROVE  Counted(t, depth, <<Frame(Root)>>, Nothing, "null")
<1>1. Visited(t, depth, <<Frame(Root)>>) = {}
  BY StartVisits
<1>2. ({} \cap Sized(t, depth)) \ {"null"} = {}
  OBVIOUS
<1> QED
  BY <1>1, <1>2, TallyNothing, Zenon DEF Counted

LEMMA CountsFile ==
  ASSUME NEW t \in TreeType, NEW depth \in Nat, NEW s, NEW u, NEW f, Counted(t, depth, s, f, "null"),
         NEW p \in Paths, p \notin Visited(t, depth, s),
         Visited(t, depth, u) = Visited(t, depth, s) \cup {p}
  PROVE  Counted(t, depth, u, [f EXCEPT !.byExt[Ext[p]] = @ + 1, !.files = @ + 1], p)
<1> DEFINE S == Visited(t, depth, s)
           Z == Sized(t, depth)
           B == (S \cap Z) \ {"null"}
<1>1. S \subseteq Paths /\ "null" \notin Paths
  BY SeenPaths
<1>2. f = Tally(S, B)
  BY DEF Counted
<1> HIDE DEF S
<1>3. B = ((S \cup {p}) \cap Z) \ {p}
  BY <1>1 DEF S
<1>4. [Tally(S, B) EXCEPT !.byExt[Ext[p]] = @ + 1, !.files = @ + 1] = Tally(S \cup {p}, B)
  <2>1. S \in SUBSET Paths /\ p \in Paths \ S
    BY <1>1 DEF S
  <2> HIDE DEF B
  <2> QED
    BY <2>1, TallyFile
<1> HIDE DEF B, Z
<1>5. [f EXCEPT !.byExt[Ext[p]] = @ + 1, !.files = @ + 1] = Tally(S \cup {p}, ((S \cup {p}) \cap Z) \ {p})
  BY <1>2, <1>3, <1>4, Zenon
<1>6. Visited(t, depth, u) = S \cup {p}
  BY DEF S
<1>7. p \in Visited(t, depth, u)
  OBVIOUS
<1> QED
  BY <1>5, <1>6, <1>7, Zenon DEF Counted, Z

\* The size of a file that is listed is known when its directory can be searched.
LEMMA SizeTrue ==
  ASSUME NEW t \in TreeType, NEW depth \in Nat, NEW p \in Listed(t, depth)
  PROVE  SizeAt(t, p) = IF p \in Sized(t, depth) THEN Size[p] ELSE 0
<1>1. p \in Paths /\ Above[p] = {Parent[p]} \cup Above[Parent[p]]
  BY ListedFacts, AbovePath
<1>2. CASE t.kind[Root] = "link"
  <2>1. Above[p] = {Root} /\ ~Open(t, Root)
    BY <1>2, ListedFacts DEF Open
  <2>2. At(t, p) = "file"
    BY <1>2, <2>1, Reached, AboveRoot DEF At
  <2>3. p \in Sized(t, depth)
    BY <1>2 DEF Sized
  <2> QED
    BY <2>2, <2>3 DEF SizeAt
<1>3. CASE t.kind[Root] # "link"
  <2>1. /\ t.kind[p] = "file" /\ \A a \in Above[p] : t.kind[a] = "dir"
        /\ \A a \in Above[p] \ {Parent[p]} : t.mode[a] = "rx"
    BY <1>3, ListedFacts
  <2>2. p \in Sized(t, depth) <=> t.mode[Parent[p]] = "rx"
    BY <1>3 DEF Sized
  <2>3. CASE t.mode[Parent[p]] = "rx"
    <3>1. \A a \in Above[p] : Open(t, a)
      BY <2>1, <2>3 DEF Open
    <3>2. At(t, p) = "file"
      BY <2>1, <3>1, Reached DEF At
    <3> QED
      BY <2>2, <2>3, <3>2 DEF SizeAt
  <2>4. CASE t.mode[Parent[p]] # "rx"
    <3>1. ~\A a \in Above[p] : Open(t, a)
      BY <1>1, <2>4 DEF Open
    <3>2. ~\E a \in Above[p] : t.kind[a] = "link" /\ \A b \in Above[a] : Open(t, b)
      BY <2>1
    <3>3. At(t, p) = "absent"
      BY <3>1, <3>2 DEF At
    <3> QED
      BY <2>2, <2>4, <3>3 DEF SizeAt
  <2> QED
    BY <2>3, <2>4
<1> QED
  BY <1>2, <1>3

LEMMA CountsSize ==
  ASSUME NEW t \in TreeType, NEW depth \in Nat, NEW s, NEW f, NEW p,
         Counted(t, depth, s, f, p), p # "null"
  PROVE  Counted(t, depth, s, [f EXCEPT !.bytes = @ + SizeAt(t, p)], "null")
<1> DEFINE S == Visited(t, depth, s)
           Z == Sized(t, depth)
           B == (S \cap Z) \ {p}
           C == (S \cap Z) \ {"null"}
<1>1. S \subseteq Paths /\ "null" \notin Paths /\ p \in S /\ p \in Listed(t, depth)
  BY SeenPaths DEF Counted
<1>2. f = Tally(S, B)
  BY DEF Counted
<1>3. SizeAt(t, p) = IF p \in Z THEN Size[p] ELSE 0
  BY <1>1, SizeTrue
<1> SUFFICES [f EXCEPT !.bytes = @ + SizeAt(t, p)] = Tally(S, C)
  BY DEF Counted
<1> HIDE DEF S, Z
<1>4. CASE p \in Z
  <2>1. B \cup {p} = C /\ B \in SUBSET Paths /\ p \in Paths \ B
    BY <1>1, <1>4
  <2> HIDE DEF B, C
  <2>2. [Tally(S, B) EXCEPT !.bytes = @ + Size[p]] = Tally(S, B \cup {p})
    BY <2>1, TallySize
  <2> QED
    BY <1>2, <1>3, <1>4, <2>1, <2>2, Zenon
<1>5. CASE p \notin Z
  <2>1. B = C /\ B \in SUBSET Paths
    BY <1>1, <1>5
  <2> HIDE DEF B, C
  <2>2. f.bytes = Total(B)
    BY <1>2 DEF Tally
  <2>3. Total(B) \in Nat
    BY <2>1, TotalUnits, UnitsFinite, FS_CardinalityType
  <2>4. f.bytes + 0 = f.bytes
    BY <2>2, <2>3
  <2>5. [Tally(S, B) EXCEPT !.bytes = Tally(S, B).bytes] = Tally(S, B)
    BY DEF Tally
  <2>6. f.bytes + SizeAt(t, p) = f.bytes
    BY <1>3, <1>5, <2>4
  <2>7. [f EXCEPT !.bytes = f.bytes + SizeAt(t, p)] = [f EXCEPT !.bytes = f.bytes]
    BY <2>6, Zenon
  <2>8. [f EXCEPT !.bytes = f.bytes] = f
    BY <1>2, <2>5, Zenon
  <2>9. [f EXCEPT !.bytes = @ + SizeAt(t, p)] = [f EXCEPT !.bytes = f.bytes + SizeAt(t, p)]
    OBVIOUS
  <2> QED
    BY <1>2, <2>1, <2>7, <2>8, <2>9, Zenon
<1> QED
  BY <1>4, <1>5

LEMMA CountsDone ==
  ASSUME NEW t \in TreeType, NEW depth \in Nat, NEW s, NEW f,
         Counted(t, depth, s, f, "null"), Visited(t, depth, s) = Listed(t, depth)
  PROVE  f = Counts(t, depth)
<1>1. (Listed(t, depth) \cap Sized(t, depth)) \ {"null"} = Sized(t, depth)
  BY SeenPaths
<1>2. f = Tally(Listed(t, depth), (Listed(t, depth) \cap Sized(t, depth)) \ {"null"})
  BY Zenon DEF Counted
<1> QED
  BY <1>1, <1>2, Zenon DEF Counts

--------------------------------------------------------------------------------
(* The state.                                                              *)

\* What an outcome r says of the tree to the depth that was asked for.
Reported(r, t, asked) ==
  /\ r.kind = "stats" => Walkable(t) /\ r.found = Counts(t, asked)
  /\ r.kind = "does not exist" => t.reach /\ t.kind[Root] = "absent"
  /\ r.kind = "is not a directory" => t.reach /\ t.kind[Root] = "file"
  /\ r.kind = "is not readable" => ~t.reach \/ (t.kind[Root] = "dir" /\ t.mode[Root] # "rx")

\* The arguments come through unchanged.
Passed ==
  /\ argv # <<>> => validateRepoStatsInput(request.value) /\ argv = ArgvOf(request.value)
  /\ stage # "main" => opts.maxDepth = Asked(request) /\ opts.maxDepth \in Nat \ {0}

Walked ==
  /\ tree \in Trees
  /\ stage \in {"main", "stat", "access"} => found = Nothing
  /\ stage = "access" => tree.reach /\ tree.kind[Root] \in {"dir", "link"}
  /\ stage = "walk" => /\ Walkable(tree)
                       /\ Trail(tree, opts.maxDepth, stack)
                       /\ Counted(tree, opts.maxDepth, stack, found, statting)
  /\ Reported(said, tree, Asked(request)) /\ Reported(reply, tree, Asked(request))

WInv ==
  /\ moves \in Nat
  /\ program = "any" => reply.kind = "none"
  /\ program = "repo-stats" => Passed /\ (moves = 0 => Walked)

\* The depth asked for is the depth of the walk, and not nothing.
LEMMA DepthPassed ==
  ASSUME NEW r, validateRepoStatsInput(r.value)
  PROVE  parseArgs(ArgvOf(r.value)).maxDepth = Asked(r) /\ Asked(r) \in Nat \ {0}
<1> DEFINE d == Field(r.value, "max_depth")
           w == ArgvOf(r.value)
<1>1. AbsoluteMaxDepth \in Nat /\ DefaultMaxDepth \in Nat \ {0}
  BY StatsAssumption
<1>2. CASE d.kind = "undefined"
  <2>1. DOMAIN w = {"--root"}
    BY <1>2 DEF ArgvOf
  <2>2. parseArgs(w) = [root |-> w["--root"], maxDepth |-> DefaultMaxDepth]
    BY <2>1 DEF parseArgs
  <2> QED
    BY <1>1, <1>2, <2>2 DEF Asked
<1>3. CASE d.kind # "undefined"
  <2>1. DOMAIN w = {"--root", "--max-depth"} /\ w["--max-depth"] = d.value
    BY <1>3 DEF ArgvOf
  <2>2. d.value \in 1..AbsoluteMaxDepth
    BY <1>3 DEF validateRepoStatsInput
  <2>3. parseArgs(w) = [root |-> w["--root"], maxDepth |-> d.value]
    BY <2>1, <2>2 DEF parseArgs
  <2> QED
    BY <1>1, <1>3, <2>2, <2>3 DEF Asked
<1> QED
  BY <1>2, <1>3

LEMMA SilentReports ==
  ASSUME NEW r, NEW t, NEW asked,
         r.kind \notin {"stats", "does not exist", "is not a directory", "is not readable"}
  PROVE  Reported(r, t, asked)
BY DEF Reported

LEMMA InitWInv == StatsInit => WInv
<1> SUFFICES ASSUME StatsInit PROVE WInv
  OBVIOUS
<1>1. /\ moves = 0 /\ argv = <<>> /\ stage = "main" /\ found = Nothing
      /\ reply.kind = "none" /\ said.kind = "nothing"
  BY DEF StatsInit
<1>2. program = "repo-stats" => tree \in Trees
  BY DEF StatsInit
<1>3. Reported(said, tree, Asked(request)) /\ Reported(reply, tree, Asked(request))
  BY <1>1, SilentReports
<1> QED
  BY <1>1, <1>2, <1>3 DEF WInv, Passed, Walked

LEMMA HandleWInv == ASSUME WInv, Handle PROVE WInv'
<1>1. UNCHANGED <<program, request, tree, moves, stage, opts, stack, statting, found, said>>
  BY DEF Handle, treeVars, cliVars, walkVars
<1>2. program = "repo-stats" /\ argv = <<>> /\ reply.kind = "none"
  BY DEF Handle
<1>3. argv' # <<>> => validateRepoStatsInput(request.value) /\ argv' = ArgvOf(request.value)
  BY <1>2 DEF Handle
<1>4. reply'.kind \in {"invalid", "input error", "none"}
  <2>1. reply' = [kind |-> "invalid"] \/ reply' = [kind |-> "input error"] \/ reply' = reply
    BY DEF Handle
  <2>2. [kind |-> "invalid"].kind = "invalid" /\ [kind |-> "input error"].kind = "input error"
    OBVIOUS
  <2> QED
    BY <1>2, <2>1, <2>2
<1>5. Passed'
  BY <1>1, <1>2, <1>3 DEF WInv, Passed
<1>6. moves = 0 => Walked'
  <2>1. Reported(reply', tree, Asked(request))
    BY <1>4, SilentReports
  <2> QED
    BY <1>1, <1>2, <2>1 DEF WInv, Walked
<1> QED
  BY <1>1, <1>2, <1>5, <1>6 DEF WInv

LEMMA ReplyWInv == ASSUME WInv, SInv, IInv, Reply PROVE WInv'
<1>1. UNCHANGED <<program, request, argv, tree, moves, stage, opts, stack, statting, found, said>>
  BY DEF Reply, treeVars, cliVars, walkVars
<1>2. program = "repo-stats"
  BY DEF Reply, SInv, Accepted
<1>3. outcome \in Outcomes
  <2>1. TypeOK
    BY Zenon DEF IInv
  <2> QED
    BY <2>1 DEF TypeOK, Reply
<1>4. reply' = said \/ reply'.kind \notin {"stats", "does not exist", "is not a directory",
                                            "is not readable"}
  <2>1. \/ reply' = said \/ reply' = [kind |-> "not JSON"] \/ reply' = [kind |-> "nothing"]
        \/ reply' = [kind |-> outcome]
    BY DEF Reply, Answer, Parsed
  <2>2. ASSUME NEW k, reply' = [kind |-> k] PROVE reply'.kind = k
    BY <2>2
  <2>3. outcome \notin {"stats", "does not exist", "is not a directory", "is not readable"}
    BY <1>3 DEF Outcomes
  <2> QED
    BY <2>1, <2>2, <2>3
<1>5. Passed'
  BY <1>1, <1>2 DEF WInv, Passed
<1>6. moves = 0 => Walked'
  <2>1. moves = 0 => Reported(reply', tree, Asked(request))
    BY <1>2, <1>4, SilentReports DEF WInv, Walked
  <2> QED
    BY <1>1, <1>2, <2>1 DEF WInv, Walked
<1> QED
  BY <1>1, <1>2, <1>5, <1>6 DEF WInv

\* The steps of the program.
LEMMA StepWInv ==
  ASSUME WInv, Step, Passed', moves = 0 => Walked' PROVE WInv'
<1>1. UNCHANGED <<program, moves, reply>> /\ program = "repo-stats"
  BY DEF Step, toolVars, treeVars
<1> QED
  BY <1>1 DEF WInv

LEMMA MainWInv == ASSUME WInv, SInv, main PROVE WInv'
<1>1. UNCHANGED <<request, argv, reply, tree, moves, found, stack, statting>>
  BY DEF main, Step, toolVars, treeVars
<1>2. program = "repo-stats" /\ argv # <<>> /\ stage = "main"
  BY DEF main, Step, SInv, Accepted
<1>3. opts' = parseArgs(argv) /\ opts'.maxDepth # 0
  BY <1>2 DEF main, SInv, Accepted
<1>4. stage' = "stat" /\ said' = said
  BY <1>3 DEF main
<1>5. argv = ArgvOf(request.value) /\ validateRepoStatsInput(request.value)
  BY <1>2 DEF WInv, Passed
<1>6. opts'.maxDepth = Asked(request) /\ opts'.maxDepth \in Nat \ {0}
  BY <1>3, <1>5, DepthPassed
<1>7. Passed'
  BY <1>1, <1>5, <1>6 DEF Passed
<1>8. moves = 0 => Walked'
  BY <1>1, <1>2, <1>4 DEF WInv, Walked
<1> QED
  BY <1>7, <1>8, StepWInv DEF main

LEMMA StatRootWInv == ASSUME WInv, StatRoot PROVE WInv'
<1>1. UNCHANGED <<request, argv, reply, tree, moves, opts, found, stack, statting>>
  BY DEF StatRoot, Step, toolVars, treeVars, walkVars
<1>2. program = "repo-stats" /\ stage = "stat"
  BY DEF StatRoot, Step
<1>3. Passed'
  BY <1>1, <1>2 DEF WInv, Passed
<1>4. moves = 0 => Walked'
  <2> SUFFICES ASSUME moves = 0 PROVE Walked'
    OBVIOUS
  <2>1. Walked
    BY <1>2 DEF WInv
  <2>5. CASE ~tree.reach /\ Say("is not readable")
    <3>1. said' = [kind |-> "is not readable"] /\ stage' = "stderr"
      BY <2>5 DEF Say
    <3>2. Reported(said', tree, Asked(request))
      BY <2>5, <3>1 DEF Reported
    <3> QED
      BY <1>1, <2>1, <3>1, <3>2 DEF Walked
  <2>2. CASE tree.reach /\ tree.kind[Root] = "absent" /\ Say("does not exist")
    <3>1. said' = [kind |-> "does not exist"] /\ stage' = "stderr"
      BY <2>2 DEF Say
    <3>2. Reported(said', tree, Asked(request))
      BY <2>2, <3>1 DEF Reported
    <3> QED
      BY <1>1, <2>1, <3>1, <3>2 DEF Walked
  <2>3. CASE tree.reach /\ tree.kind[Root] = "file" /\ Say("is not a directory")
    <3>1. said' = [kind |-> "is not a directory"] /\ stage' = "stderr"
      BY <2>3 DEF Say
    <3>2. Reported(said', tree, Asked(request))
      BY <2>3, <3>1 DEF Reported
    <3> QED
      BY <1>1, <2>1, <3>1, <3>2 DEF Walked
  <2>4. CASE tree.reach /\ tree.kind[Root] \in {"dir", "link"} /\ stage' = "access" /\ UNCHANGED said
    BY <1>1, <1>2, <2>1, <2>4 DEF Walked
  <2> QED
    BY <2>2, <2>3, <2>4, <2>5 DEF StatRoot
<1> QED
  BY <1>3, <1>4, StepWInv DEF StatRoot

LEMMA AccessWInv == ASSUME WInv, Stages, Access PROVE WInv'
<1>1. UNCHANGED <<request, argv, reply, tree, moves, opts, found, statting>>
  BY DEF Access, Step, toolVars, treeVars
<1>2. program = "repo-stats" /\ stage = "access" /\ stack' = <<Frame(Root)>>
  BY DEF Access, Step
<1>3. Passed'
  BY <1>1, <1>2 DEF WInv, Passed
<1>4. moves = 0 => Walked'
  <2> SUFFICES ASSUME moves = 0 PROVE Walked'
    OBVIOUS
  <2>1. Walked
    BY <1>2 DEF WInv
  <2>2. CASE Walkable(tree)
    <3>1. stage' = "walk" /\ said' = said
      BY <2>2 DEF Access, Walkable
    <3>2. tree \in TreeType /\ opts.maxDepth \in Nat /\ opts.maxDepth >= 1
      BY <1>2, <2>1, <2>2, StatsAssumption DEF Walked, TreeType, WInv, Passed, Walkable
    <3>3. Trail(tree, opts.maxDepth, <<Frame(Root)>>)
      BY <1>2, <2>1, <3>2, TrailStarts DEF Walked
    <3>4. statting = "null" /\ found = Nothing
      BY <1>2, <2>1 DEF Stages, Walked
    <3>5. Counted(tree, opts.maxDepth, <<Frame(Root)>>, found, statting)
      BY <3>2, <3>4, CountsStart
    <3> QED
      BY <1>1, <1>2, <2>1, <2>2, <3>1, <3>3, <3>5 DEF Walked
  <2>3. CASE ~Walkable(tree)
    <3>1. said' = [kind |-> "is not readable"] /\ stage' = "stderr"
      BY <2>3 DEF Access, Walkable, Say
    <3>2. tree.kind[Root] = "dir" /\ tree.mode[Root] # "rx"
      BY <1>2, <2>1, <2>3 DEF Walked, Walkable, Open
    <3>3. Reported(said', tree, Asked(request))
      BY <3>1, <3>2 DEF Reported
    <3> QED
      BY <1>1, <2>1, <3>1, <3>3 DEF Walked
  <2> QED
    BY <2>2, <2>3
<1> QED
  BY <1>3, <1>4, StepWInv DEF Access

\* The steps that only move the walk on.
LEMMA WalkWInv ==
  ASSUME WInv, Step, stage = "walk", stage' = "walk", UNCHANGED <<opts, said>>,
         moves = 0 => /\ Trail(tree, opts.maxDepth, stack')
                      /\ Counted(tree, opts.maxDepth, stack', found', statting')
  PROVE  WInv'
<1>1. UNCHANGED <<request, argv, reply, tree, moves>> /\ program = "repo-stats"
  BY DEF Step, toolVars, treeVars
<1>2. Passed'
  BY <1>1 DEF WInv, Passed
<1>3. moves = 0 => Walked'
  BY <1>1 DEF WInv, Walked
<1> QED
  BY <1>2, <1>3, StepWInv

\* What holds while the walk is alone with the tree.
LEMMA Alone ==
  ASSUME WInv, program = "repo-stats", stage = "walk", moves = 0
  PROVE  /\ tree \in TreeType /\ opts.maxDepth \in Nat /\ Walkable(tree) /\ Walked
         /\ Trail(tree, opts.maxDepth, stack)
         /\ Counted(tree, opts.maxDepth, stack, found, statting)
         /\ stack \in Seq(Frames) /\ stack # <<>> /\ Top \in Frames /\ Len(stack) \in Nat
         /\ opts.maxDepth = Asked(request)
<1>1. Walked /\ opts.maxDepth \in Nat /\ opts.maxDepth = Asked(request)
  BY DEF WInv, Passed
<1>2. /\ tree \in TreeType /\ Walkable(tree) /\ Trail(tree, opts.maxDepth, stack)
      /\ Counted(tree, opts.maxDepth, stack, found, statting)
  BY <1>1, StatsAssumption DEF Walked, TreeType, Walkable
<1>3. stack \in Seq(Frames) /\ stack # <<>> /\ Top \in Frames /\ Len(stack) \in Nat
  BY <1>1, <1>2, TopFacts DEF Top
<1> QED
  BY <1>1, <1>2, <1>3

LEMMA FrameType ==
  ASSUME NEW f \in Frames
  PROVE  /\ \A L \in SUBSET [path : Paths, kind : Kinds] :
              LET g == [f EXCEPT !.read = TRUE, !.left = L]
              IN  g \in Frames /\ g.dir = f.dir /\ g.read /\ g.left = L
         /\ \A e : LET g == [f EXCEPT !.left = @ \ {e}]
                   IN  /\ g \in Frames /\ g.dir = f.dir /\ g.read = f.read
                       /\ g.left = f.left \ {e}
BY DEF Frames

LEMMA ReadDirWInv == ASSUME WInv, Stages, ReadDir PROVE WInv'
<1>1. /\ UNCHANGED <<request, argv, reply, tree, moves, opts, statting, found>>
      /\ program = "repo-stats" /\ stage = "walk" /\ Step /\ statting = "null"
  BY DEF ReadDir, Walking, Step, toolVars, treeVars
<1>2. Passed'
  BY <1>1 DEF WInv, Passed
<1>3. moves = 0 => Walked'
  <2> SUFFICES ASSUME moves = 0 PROVE Walked'
    OBVIOUS
  <2>1. /\ tree \in TreeType /\ opts.maxDepth \in Nat /\ Walkable(tree) /\ Walked
        /\ Trail(tree, opts.maxDepth, stack)
        /\ Counted(tree, opts.maxDepth, stack, found, statting)
        /\ stack \in Seq(Frames) /\ stack # <<>> /\ Top \in Frames /\ Len(stack) \in Nat
    BY <1>1, Alone
  <2>2. ~Top.read
    BY DEF ReadDir
  <2>3. CASE Lists(tree, Top.dir)
    <3> DEFINE f == [Top EXCEPT !.read = TRUE, !.left = Listing(tree, Top.dir)]
    <3>1. stack' = [stack EXCEPT ![Len(stack)] = f] /\ UNCHANGED <<stage, said>>
      BY <2>3 DEF ReadDir, Top
    <3>2. Listing(tree, Top.dir) \subseteq [path : Paths, kind : Kinds]
      BY <2>1, <2>3, TopListing DEF Top
    <3>3. f \in Frames /\ f.dir = Top.dir /\ f.read /\ f.left = Listing(tree, Top.dir)
      BY <2>1, <3>2, FrameType
    <3> HIDE DEF f
    <3>4. /\ Trail(tree, opts.maxDepth, [stack EXCEPT ![Len(stack)] = f])
          /\ Visited(tree, opts.maxDepth, [stack EXCEPT ![Len(stack)] = f])
               = Visited(tree, opts.maxDepth, stack)
      BY <2>1, <2>2, <2>3, <3>3, ReadVisits DEF Top
    <3>5. Counted(tree, opts.maxDepth, stack', found, statting)
      BY <2>1, <3>1, <3>4, Zenon DEF Counted
    <3> QED
      BY <1>1, <2>1, <3>1, <3>4, <3>5 DEF Walked
  <2>4. CASE ~Lists(tree, Top.dir)
    <3>1. stack' = SubSeq(stack, 1, Len(stack) - 1)
      BY <2>4 DEF ReadDir, Pop
    <3>2. Top.dir # Root
      <4> SUFFICES ASSUME Top.dir = Root PROVE FALSE
        OBVIOUS
      <4>1. CASE tree.kind[Root] = "link"
        BY <2>1, <2>4, <4>1, ListsLink
      <4>2. CASE Open(tree, Root)
        <5>1. At(tree, Root) = "dir" /\ tree.mode[Root] = "rx"
          BY <4>2, <2>1, Reached, AboveRoot DEF At, Open
        <5> QED
          BY <2>4, <5>1 DEF Lists
      <4> QED
        BY <2>1, <4>1, <4>2 DEF Walkable
    <3>3. UNCHANGED <<stage, said>>
      BY <2>4, <3>2 DEF ReadDir
    <3>4. Len(stack) # 1
      <4>1. Len(stack) \in 1 .. Len(stack)
        BY <2>1, TopFacts
      <4> QED
        BY <2>1, <3>2, <4>1, TrailFacts DEF Top
    <3>5. Trail(tree, opts.maxDepth, stack')
      BY <2>1, <3>1, <3>4, TrailPops
    <3>6. Visited(tree, opts.maxDepth, stack') = Visited(tree, opts.maxDepth, stack)
      BY <2>1, <2>2, <2>4, <3>1, PopVisits DEF Top
    <3>7. Counted(tree, opts.maxDepth, stack', found, statting)
      BY <2>1, <3>6, Zenon DEF Counted
    <3> QED
      BY <1>1, <2>1, <3>3, <3>5, <3>7 DEF Walked
  <2> QED
    BY <2>3, <2>4
<1> QED
  BY <1>1, <1>2, <1>3, StepWInv

LEMMA EntryWInv == ASSUME WInv, Stages, NEW e, Entry(e) PROVE WInv'
<1>1. /\ Step /\ program = "repo-stats" /\ stage = "walk" /\ stage' = "walk" /\ statting = "null"
      /\ UNCHANGED <<opts, said>>
  BY DEF Entry, Walking, Step
<1> SUFFICES ASSUME moves = 0
             PROVE  /\ Trail(tree, opts.maxDepth, stack')
                    /\ Counted(tree, opts.maxDepth, stack', found', statting')
  BY <1>1, WalkWInv
<1>2. /\ tree \in TreeType /\ opts.maxDepth \in Nat
      /\ Trail(tree, opts.maxDepth, stack)
      /\ Counted(tree, opts.maxDepth, stack, found, statting)
      /\ Top \in Frames
  BY <1>1, Alone
<1> DEFINE f == [Top EXCEPT !.left = @ \ {e}]
           rest == [stack EXCEPT ![Len(stack)] = f]
<1>3. Top.read /\ e \in Top.left
  BY DEF Entry
<1>4. f \in Frames /\ f.dir = Top.dir /\ f.read /\ f.left = Top.left \ {e}
  BY <1>2, <1>3, FrameType, ZenonT(60)
<1>5. e.path \in Paths /\ e.kind \in {"file", "dir", "link"}
  BY <1>2, <1>3, EntryFacts DEF Top
<1>6. [stack EXCEPT ![Len(stack)].left = @ \ {e}] = rest
  BY DEF Top
<1> HIDE DEF f, rest
<1>7. CASE e.kind = "link"
  <2>1. stack' = rest /\ UNCHANGED <<statting, found>>
    BY <1>6, <1>7 DEF Entry
  <2>2. /\ Trail(tree, opts.maxDepth, rest)
        /\ Visited(tree, opts.maxDepth, rest) = Visited(tree, opts.maxDepth, stack)
    BY <1>2, <1>3, <1>4, <1>7, RestVisits DEF Top, rest
  <2>3. Counted(tree, opts.maxDepth, rest, found, statting)
    BY <1>2, <2>2, Zenon DEF Counted
  <2> QED
    BY <2>1, <2>2, <2>3
<1>8. CASE e.kind = "dir"
  <2>1. /\ stack' = IF Len(stack) < opts.maxDepth THEN Append(rest, Frame(e.path)) ELSE rest
        /\ UNCHANGED <<statting, found>>
    BY <1>6, <1>8 DEF Entry
  <2>2. CASE Len(stack) < opts.maxDepth
    <3>1. /\ Trail(tree, opts.maxDepth, Append(rest, Frame(e.path)))
          /\ Visited(tree, opts.maxDepth, Append(rest, Frame(e.path)))
               = Visited(tree, opts.maxDepth, stack)
      BY <1>2, <1>3, <1>4, <1>8, <2>2, PushVisits DEF Top, rest
    <3>2. Counted(tree, opts.maxDepth, Append(rest, Frame(e.path)), found, statting)
      BY <1>2, <3>1, Zenon DEF Counted
    <3> QED
      BY <2>1, <2>2, <3>1, <3>2
  <2>3. CASE ~(Len(stack) < opts.maxDepth)
    <3>1. Len(stack) >= opts.maxDepth
      BY <1>1, <1>2, <2>3, Alone
    <3>2. /\ Trail(tree, opts.maxDepth, rest)
          /\ Visited(tree, opts.maxDepth, rest) = Visited(tree, opts.maxDepth, stack)
      BY <1>2, <1>3, <1>4, <1>8, <3>1, RestVisits DEF Top, rest
    <3>3. Counted(tree, opts.maxDepth, rest, found, statting)
      BY <1>2, <3>2, Zenon DEF Counted
    <3> QED
      BY <2>1, <2>3, <3>2, <3>3
  <2> QED
    BY <2>2, <2>3
<1>9. CASE e.kind = "file"
  <2>1. /\ stack' = rest /\ statting' = e.path
        /\ found' = [found EXCEPT !.byExt[Ext[e.path]] = @ + 1, !.files = @ + 1]
    BY <1>6, <1>9 DEF Entry
  <2>2. /\ Trail(tree, opts.maxDepth, rest)
        /\ e.path \notin Visited(tree, opts.maxDepth, stack)
        /\ Visited(tree, opts.maxDepth, rest) = Visited(tree, opts.maxDepth, stack) \cup {e.path}
    <3>1. /\ Trail(tree, opts.maxDepth, rest)
          /\ e.path \notin Visited(tree, opts.maxDepth, stack)
          /\ \A p : p \in Visited(tree, opts.maxDepth, rest)
                      <=> p \in Visited(tree, opts.maxDepth, stack) \/ p = e.path
      <4> DEFINE u == [stack EXCEPT ![Len(stack)] = f]
      <4>1. /\ stack[Len(stack)].read /\ e \in stack[Len(stack)].left
            /\ f.dir = stack[Len(stack)].dir /\ f.left = stack[Len(stack)].left \ {e}
        BY <1>3, <1>4 DEF Top
      <4>2. Trail(tree, opts.maxDepth, u) /\ e.path \notin Visited(tree, opts.maxDepth, stack)
        BY <1>2, <1>4, <1>9, <4>1, FileVisits
      <4>3. \A p : p \in Visited(tree, opts.maxDepth, u)
                     <=> p \in Visited(tree, opts.maxDepth, stack) \/ p = e.path
        <5> HIDE DEF u
        <5> SUFFICES ASSUME NEW p
                     PROVE  p \in Visited(tree, opts.maxDepth, u)
                              <=> p \in Visited(tree, opts.maxDepth, stack) \/ p = e.path
          OBVIOUS
        <5> QED
          BY <1>2, <1>4, <1>9, <4>1, FileVisits DEF u
      <4> QED
        BY <4>2, <4>3 DEF rest
    <3> QED
      BY <3>1
  <2>3. Counted(tree, opts.maxDepth, stack, found, "null")
    BY <1>1, <1>2
  <2>4. Counted(tree, opts.maxDepth, rest,
                [found EXCEPT !.byExt[Ext[e.path]] = @ + 1, !.files = @ + 1], e.path)
    BY <1>2, <1>5, <2>2, <2>3, CountsFile
  <2> QED
    BY <2>1, <2>2, <2>4
<1> QED
  BY <1>5, <1>7, <1>8, <1>9

LEMMA StatWInv == ASSUME WInv, Stages, Stat PROVE WInv'
<1>1. /\ Step /\ program = "repo-stats" /\ stage = "walk" /\ stage' = "walk" /\ statting # "null"
      /\ UNCHANGED <<opts, said, stack>> /\ statting' = "null"
      /\ found' = [found EXCEPT !.bytes = @ + SizeAt(tree, statting)]
  BY DEF Stat, Step, Stages
<1> SUFFICES ASSUME moves = 0
             PROVE  /\ Trail(tree, opts.maxDepth, stack')
                    /\ Counted(tree, opts.maxDepth, stack', found', statting')
  BY <1>1, WalkWInv
<1>2. /\ tree \in TreeType /\ opts.maxDepth \in Nat
      /\ Trail(tree, opts.maxDepth, stack)
      /\ Counted(tree, opts.maxDepth, stack, found, statting)
  BY <1>1, Alone
<1>3. Counted(tree, opts.maxDepth, stack,
              [found EXCEPT !.bytes = @ + SizeAt(tree, statting)], "null")
  BY <1>1, <1>2, CountsSize
<1> QED
  BY <1>1, <1>2, <1>3

LEMMA ReturnWInv == ASSUME WInv, Stages, Return PROVE WInv'
<1>1. /\ UNCHANGED <<request, argv, reply, tree, moves, opts, statting, found>>
      /\ program = "repo-stats" /\ stage = "walk" /\ Step /\ statting = "null"
      /\ stack' = SubSeq(stack, 1, Len(stack) - 1)
  BY DEF Return, Walking, Step, toolVars, treeVars, Pop
<1>2. Passed'
  BY <1>1 DEF WInv, Passed
<1>3. moves = 0 => Walked'
  <2> SUFFICES ASSUME moves = 0 PROVE Walked'
    OBVIOUS
  <2>1. /\ tree \in TreeType /\ opts.maxDepth \in Nat /\ Walkable(tree) /\ Walked
        /\ Trail(tree, opts.maxDepth, stack)
        /\ Counted(tree, opts.maxDepth, stack, found, "null")
        /\ opts.maxDepth = Asked(request)
    BY <1>1, Alone
  <2>2. Top.read /\ Top.left = {}
    BY DEF Return
  <2>3. CASE Len(stack) = 1
    <3>1. stage' = "stdout" /\ said' = [kind |-> "stats", found |-> found]
      BY <2>3 DEF Return
    <3>2. Visited(tree, opts.maxDepth, stack) = Listed(tree, opts.maxDepth)
      BY <2>1, <2>2, <2>3, LastVisits DEF Top
    <3>3. found = Counts(tree, Asked(request))
      BY <2>1, <3>2, CountsDone
    <3>4. Reported(said', tree, Asked(request))
      BY <2>1, <3>1, <3>3 DEF Reported
    <3> QED
      BY <1>1, <2>1, <3>1, <3>4 DEF Walked
  <2>4. CASE Len(stack) # 1
    <3>1. UNCHANGED <<stage, said>>
      BY <2>4 DEF Return
    <3>2. Trail(tree, opts.maxDepth, stack')
      BY <1>1, <2>1, <2>4, TrailPops
    <3>3. Visited(tree, opts.maxDepth, stack') = Visited(tree, opts.maxDepth, stack)
      BY <1>1, <2>1, <2>2, PopVisits DEF Top
    <3>4. Counted(tree, opts.maxDepth, stack', found, "null")
      BY <2>1, <3>3, Zenon DEF Counted
    <3> QED
      BY <1>1, <2>1, <3>1, <3>2, <3>4 DEF Walked
  <2> QED
    BY <2>3, <2>4
<1> QED
  BY <1>1, <1>2, <1>3, StepWInv

\* The steps that leave the tool and the tree alone, and end no walk.
LEMMA QuietWInv ==
  ASSUME WInv, UNCHANGED <<program, request, argv, reply, tree, moves, opts, stack, statting, found, said>>,
         stage' = stage \/ (stage # "main" /\ stage' = "done")
  PROVE  WInv'
<1>1. Passed => Passed'
  BY DEF Passed
<1>2. Walked => Walked'
  BY DEF Walked
<1> QED
  BY <1>1, <1>2 DEF WInv

LEMMA ChangeWInv == ASSUME WInv, NEW p \in All, Change(p) PROVE WInv'
<1>1. /\ UNCHANGED <<program, request, argv, reply, stage, opts>>
      /\ moves' = moves + 1 /\ program = "repo-stats"
  BY DEF Change, toolVars, cliVars, walkVars
<1>2. moves' \in Nat /\ moves' # 0
  BY <1>1 DEF WInv
<1>3. Passed'
  BY <1>1 DEF WInv, Passed
<1> QED
  BY <1>1, <1>2, <1>3 DEF WInv

LEMMA StepsWInv ==
  ASSUME WInv, SInv, IInv, Stages, [StatsNext]_statsVars PROVE WInv'
<1>1. CASE Handle \/ Reply
  BY <1>1, HandleWInv, ReplyWInv
<1>2. CASE main \/ StatRoot \/ Access
  BY <1>2, MainWInv, StatRootWInv, AccessWInv
<1>3. CASE ReadDir \/ Stat \/ Return
  BY <1>3, ReadDirWInv, StatWInv, ReturnWInv
<1>4. ASSUME NEW p \in Paths, NEW k \in Kinds, Entry([path |-> p, kind |-> k]) PROVE WInv'
  BY <1>4, EntryWInv
<1>5. CASE PrintLine
  BY <1>5, QuietWInv DEF PrintLine, Step, toolVars, treeVars, cliVars, walkVars
<1>6. CASE ExitCli
  <2>1. /\ UNCHANGED <<program, request, argv, reply, tree, moves, opts, stack, statting, found, said>>
        /\ stage # "main" /\ stage' = "done"
    BY <1>6 DEF ExitCli, Step, toolVars, treeVars, walkVars
  <2> QED
    BY <2>1, QuietWInv
<1>7. CASE Call
  BY <1>7, QuietWInv DEF Call, toolVars, treeVars, cliVars, walkVars
<1>8. ASSUME NEW p \in All, Change(p) PROVE WInv'
  BY <1>8, ChangeWInv
<1>9. CASE UNCHANGED statsVars
  BY <1>9, QuietWInv DEF statsVars, toolVars, treeVars, cliVars, walkVars
<1> QED
  BY <1>1, <1>2, <1>3, <1>4, <1>5, <1>6, <1>7, <1>8, <1>9 DEF StatsNext, cli

\* The counts a client is given are those of the tree to the depth it asked for,
\* whatever the tree, when nobody changed it while it was walked, and a root that
\* cannot be walked is refused for its own reason.
THEOREM CountsTrue == StatsSpec => []CountsExact
<1>1. StatsSpec => []IInv
  BY Composes, Invariance, PTL
<1>2. SInv /\ IInv /\ Stages /\ [StatsNext]_statsVars => SInv'
  BY StepSInv
<1>3. WInv /\ SInv /\ IInv /\ Stages /\ [StatsNext]_statsVars => WInv'
  BY StepsWInv
<1>4. WInv /\ SInv => CountsExact
  <2> SUFFICES ASSUME WInv, SInv, moves = 0 PROVE CountsExact
    BY DEF CountsExact
  <2>1. CASE program = "any"
    BY <2>1 DEF WInv, CountsExact
  <2>2. CASE program = "repo-stats"
    BY <2>2 DEF WInv, Walked, Reported, Walkable, CountsExact
  <2> QED
    BY <2>1, <2>2 DEF SInv, Accepted
<1> QED
  BY <1>1, <1>2, <1>3, <1>4, InitSInv, InitWInv, StagesHold, PTL DEF StatsSpec

================================================================================
