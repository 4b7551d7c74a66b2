------------------------------ MODULE AtomicWrite ------------------------------
(***************************************************************************)
(* The write path of the filesystem-sandbox server: the write_file handler *)
(* and atomicWriteFile below it.  Every `await` is a step, so calls of one *)
(* process interleave with each other and with another server process on   *)
(* the same sandbox; any awaited system call may fail, and the process may *)
(* be killed, or the machine lose power, between any two steps.            *)
(*                                                                         *)
(* The file system is a directory of names over inodes; an inode has its   *)
(* data, block by block, and its mode.  `ddir` and `disk` are the part of  *)
(* the directory and of the inodes that is already durable.                *)
(***************************************************************************)
EXTENDS Naturals

CONSTANTS
  Calls,        \* slots for write_file calls in flight
  Targets,      \* the resolved paths the calls name
  Directories,  \* the targets that are directories
  Temps,        \* temp names: .<base>.<pid>.<token>.tmp
  Inodes,
  Payloads,     \* contents, as the calls pass them
  Refused,      \* the payloads refused before any await: too large, a lone
                \* surrogate, not a string, or any at all on a read-only server
  Original,     \* what the files hold before the server starts
  Blocks,       \* the blocks it takes to write a payload
  Modes,        \* permission bits
  CREATE_MODE,  \* 0o666 under the process umask
  None,         \* no such file, no handle, no name
  MaxCrashes,   \* bound on kills and power losses
  MaxOutside    \* bound on the steps of other programs

ASSUME ConstantsAssumption ==
  /\ Directories \subseteq Targets
  /\ Targets \cap Temps = {}
  /\ Original \in Payloads
  /\ Refused \subseteq Payloads
  /\ Blocks \in Nat \ {0}
  /\ CREATE_MODE \in Modes
  /\ None \notin Inodes \cup Targets \cup Temps \cup Payloads \cup Modes
  /\ MaxCrashes \in Nat
  /\ MaxOutside \in Nat

VARIABLES
  dir,      \* dir[n]: the inode name n refers to
  inode,    \* inode[i]: the data and the mode a reader finds
  ddir,     \* the directory a power loss leaves
  disk,     \* the inodes a power loss leaves
  pc,       \* pc[c]: the next step of call c
  req,      \* req[c]: the target and payload of call c
  tmp,      \* tmp[c]: the temp name of call c
  fd,       \* fd[c]: the inode behind the handle of call c
  pos,      \* pos[c]: the blocks written through that handle
  seen,     \* seen[c]: what existingMode returned to call c
  orphans,  \* history: temp names no live call will remove
  stale,    \* history: the calls whose `seen` another program invalidated
  crashes,  \* how often the process died
  outside   \* how often another program changed a target

fsVars   == <<dir, inode, ddir, disk>>
callVars == <<pc, req, tmp, fd, pos, seen>>
histVars == <<orphans, stale, crashes, outside>>
vars     == <<fsVars, callVars, histVars>>

Names == Targets \cup Temps
File  == [data : [1..Blocks -> Payloads \cup {None}], mode : Modes]
NoReq == [target |-> None, payload |-> None]

\* The awaited calls inside the `try`, and where a call owns a temp file.
Awaits == {"write", "stat", "chmod", "sync", "close", "rename"}
InTry  == Awaits \cup {"cleanup"}

TypeOK ==
  /\ dir \in [Names -> Inodes \cup {None}]
  /\ inode \in [Inodes -> File]
  /\ ddir \in [Names -> Inodes \cup {None}]
  /\ disk \in [Inodes -> File]
  /\ pc \in [Calls -> InTry \cup {"idle", "check", "create", "renamed", "failed"}]
  /\ req \in [Calls -> [target : Targets, payload : Payloads] \cup {NoReq}]
  /\ tmp \in [Calls -> Temps \cup {None}]
  /\ fd \in [Calls -> Inodes \cup {None}]
  /\ pos \in [Calls -> 0..Blocks]
  /\ seen \in [Calls -> Modes \cup {None}]
  /\ orphans \in SUBSET Temps
  /\ stale \in SUBSET Calls
  /\ crashes \in 0..MaxCrashes
  /\ outside \in 0..MaxOutside

--------------------------------------------------------------------------------
Goto(c, label) == pc' = [pc EXCEPT ![c] = label]

\* A step that only moves on.
Jump(c, from, to) ==
  /\ pc[c] \in from
  /\ Goto(c, to)
  /\ UNCHANGED <<fsVars, req, tmp, fd, pos, seen, histVars>>

\* All of payload p, and nothing else.
Whole(p) == [k \in 1..Blocks |-> p]

\* An inode nothing refers to, neither now nor after a power loss.
Free(i) ==
  /\ \A n \in Names : dir[n] # i /\ ddir[n] # i
  /\ \A c \in Calls : pc[c] \in InTry => fd[c] # i

\* What stat() finds at t: the mode of the file there, or no file.
ModeAt(t) == IF dir[t] = None THEN None ELSE inode[dir[t]].mode

\* The calls that have read the mode of t and not used it yet.
HoldsModeOf(t) ==
  {c \in Calls : /\ pc[c] \in {"chmod", "sync", "close", "rename"}
                 /\ req[c].target = t}

Init ==
  /\ dir \in [Names -> Inodes \cup {None}]
  /\ \A n \in Temps \cup Directories : dir[n] = None
  /\ \A m, n \in Names : dir[m] = dir[n] /\ dir[m] # None => m = n
  /\ inode \in [Inodes -> [data : {Whole(Original)}, mode : Modes]]
  /\ \A i \in Inodes :
       (\A n \in Names : dir[n] # i) => inode[i].mode = CREATE_MODE
  /\ ddir = dir
  /\ disk = inode
  /\ pc = [c \in Calls |-> "idle"]
  /\ req = [c \in Calls |-> NoReq]
  /\ tmp = [c \in Calls |-> None]
  /\ fd = [c \in Calls |-> None]
  /\ pos = [c \in Calls |-> 0]
  /\ seen = [c \in Calls |-> None]
  /\ orphans = {}
  /\ stale = {}
  /\ crashes = 0
  /\ outside = 0

--------------------------------------------------------------------------------
(* The handler, down to its last check before the first file is created.   *)

writeFile(c, t, p) ==
  /\ pc[c] = "idle"
  /\ req' = [req EXCEPT ![c] = [target |-> t, payload |-> p]]
  /\ Goto(c, IF p \in Refused THEN "failed" ELSE "check")
  /\ UNCHANGED <<fsVars, tmp, fd, pos, seen, histVars>>

CheckTarget(c) ==
  Jump(c, {"check"}, IF req[c].target \in Directories THEN "failed" ELSE "create")

--------------------------------------------------------------------------------
(* atomicWriteFile.                                                        *)

EmptyFile == [data |-> Whole(None), mode |-> CREATE_MODE]

OpenTemp(c, n, i) ==
  /\ pc[c] = "create"
  /\ inode' = [inode EXCEPT ![i] = EmptyFile]
  /\ disk' = [disk EXCEPT ![i] = EmptyFile]
  /\ dir' = [dir EXCEPT ![n] = i]
  /\ tmp' = [tmp EXCEPT ![c] = n]
  /\ fd' = [fd EXCEPT ![c] = i]
  /\ Goto(c, "write")
  /\ UNCHANGED <<ddir, req, pos, seen, histVars>>

\* O_CREAT | O_EXCL with a fresh token.  (The mkdir -p before it makes directories
\* above the target, and no property is about those.)
CreateTemp(c) ==
  \E n \in Temps, i \in Inodes : dir[n] = None /\ Free(i) /\ OpenTemp(c, n, i)

\* mkdir or open throws (EEXIST when the token is taken): the `try` is not
\* entered, so nothing is cleaned up.
CreateFails(c) == Jump(c, {"create"}, "failed")

WriteBlock(c, next) ==
  /\ pc[c] = "write"
  /\ inode' = [inode EXCEPT ![fd[c]].data[pos[c] + 1] = req[c].payload]
  /\ pos' = [pos EXCEPT ![c] = @ + 1]
  /\ Goto(c, next)
  /\ UNCHANGED <<dir, ddir, disk, req, tmp, fd, seen, histVars>>

\* Mutant: a short write is taken for the whole one.
WriteDataOnce(c) == WriteBlock(c, "stat")

WriteData(c) == WriteBlock(c, IF pos[c] + 1 = Blocks THEN "stat" ELSE "write")

existingMode(c) ==
  /\ pc[c] = "stat"
  /\ seen' = [seen EXCEPT ![c] = ModeAt(req[c].target)]
  /\ Goto(c, IF ModeAt(req[c].target) = None THEN "sync" ELSE "chmod")
  /\ UNCHANGED <<fsVars, req, tmp, fd, pos, histVars>>

\* Mutant: the mode is looked up and not applied.
ChmodTempSkipped(c) == Jump(c, {"chmod"}, "sync")

ChmodTemp(c) ==
  /\ pc[c] = "chmod"
  /\ inode' = [inode EXCEPT ![fd[c]].mode = seen[c]]
  /\ Goto(c, "sync")
  /\ UNCHANGED <<dir, ddir, disk, req, tmp, fd, pos, seen, histVars>>

Sync(c, file) ==
  /\ pc[c] = "sync"
  /\ disk' = [disk EXCEPT ![fd[c]] = file]
  /\ Goto(c, "close")
  /\ UNCHANGED <<dir, inode, ddir, req, tmp, fd, pos, seen, histVars>>

\* Mutants: no fsync before the rename; one that comes before the chmod.
SyncTempSkipped(c)  == Sync(c, disk[fd[c]])
SyncTempDataOnly(c) == Sync(c, [inode[fd[c]] EXCEPT !.mode = CREATE_MODE])

SyncTemp(c) == Sync(c, inode[fd[c]])

CloseTemp(c) == Jump(c, {"close"}, "rename")

\* rename(2): one step, whatever the other calls do meanwhile.
RenameTemp(c) ==
  LET t == req[c].target
  IN /\ pc[c] = "rename"
     /\ dir[tmp[c]] # None
     /\ dir' = [dir EXCEPT ![t] = dir[tmp[c]], ![tmp[c]] = None]
     /\ Goto(c, "renamed")
     /\ stale' = IF c \in stale THEN stale \cup HoldsModeOf(t) ELSE stale
     /\ UNCHANGED <<inode, ddir, disk, req, tmp, fd, pos, seen, orphans, crashes, outside>>

\* Mutants: the rename is outside the `try`, so nothing is cleaned up when it
\* fails; something after the rename can still fail the call.
TryThrowsNoCleanup(c) ==
  Jump(c, Awaits, IF pc[c] = "rename" THEN "failed" ELSE "cleanup")
TryThrowsLate(c) == Jump(c, Awaits \cup {"renamed"}, "cleanup")

\* Any awaited call inside the `try` throws.
TryThrows(c) == Jump(c, Awaits, "cleanup")

\* The `finally` block: close, then unlink; a failing unlink is swallowed.
Cleanup(c) ==
  /\ pc[c] = "cleanup"
  /\ \/ /\ dir' = [dir EXCEPT ![tmp[c]] = None]
        /\ UNCHANGED orphans
     \/ /\ orphans' = orphans \cup {tmp[c]}
        /\ UNCHANGED dir
  /\ Goto(c, "failed")
  /\ UNCHANGED <<inode, ddir, disk, req, tmp, fd, pos, seen, stale, crashes, outside>>

\* The result or the error goes to the client; the call's locals are gone.
Reply(c) ==
  /\ pc[c] \in {"renamed", "failed"}
  /\ Goto(c, "idle")
  /\ req' = [req EXCEPT ![c] = NoReq]
  /\ tmp' = [tmp EXCEPT ![c] = None]
  /\ fd' = [fd EXCEPT ![c] = None]
  /\ pos' = [pos EXCEPT ![c] = 0]
  /\ seen' = [seen EXCEPT ![c] = None]
  /\ stale' = stale \ {c}
  /\ UNCHANGED <<fsVars, orphans, crashes, outside>>

--------------------------------------------------------------------------------
(* What ends a process, and what other programs and the kernel do.         *)

Forget(S) ==
  /\ pc' = [c \in Calls |-> IF c \in S THEN "idle" ELSE pc[c]]
  /\ req' = [c \in Calls |-> IF c \in S THEN NoReq ELSE req[c]]
  /\ tmp' = [c \in Calls |-> IF c \in S THEN None ELSE tmp[c]]
  /\ fd' = [c \in Calls |-> IF c \in S THEN None ELSE fd[c]]
  /\ pos' = [c \in Calls |-> IF c \in S THEN 0 ELSE pos[c]]
  /\ seen' = [c \in Calls |-> IF c \in S THEN None ELSE seen[c]]
  /\ stale' = stale \ S
  /\ crashes' = crashes + 1

\* The server process with the calls S is killed; a new one takes its slots.
Kill(S) ==
  /\ crashes < MaxCrashes
  /\ Forget(S)
  /\ orphans' = orphans \cup {tmp[c] : c \in {d \in S : pc[d] \in InTry}}
  /\ UNCHANGED <<fsVars, outside>>

PowerLoss ==
  /\ crashes < MaxCrashes
  /\ dir' = ddir
  /\ inode' = disk
  /\ Forget(Calls)
  /\ orphans' = {n \in Temps : ddir[n] # None}
  /\ UNCHANGED <<ddir, disk, outside>>

\* The kernel writes back on its own schedule: any inode, in any order with
\* the directory (a journal keeps the directory's own changes in order).  Bound:
\* only as long as a power loss can still show it.
WriteBackInode(i) ==
  /\ crashes < MaxCrashes
  /\ disk' = [disk EXCEPT ![i] = inode[i]]
  /\ UNCHANGED <<dir, inode, ddir, callVars, histVars>>

WriteBackDir ==
  /\ crashes < MaxCrashes
  /\ ddir' = dir
  /\ UNCHANGED <<dir, inode, disk, callVars, histVars>>

OutsideChmod(t, m) ==
  /\ outside < MaxOutside
  /\ dir[t] # None
  /\ inode' = [inode EXCEPT ![dir[t]].mode = m]
  /\ stale' = stale \cup HoldsModeOf(t)
  /\ outside' = outside + 1
  /\ UNCHANGED <<dir, ddir, disk, callVars, orphans, crashes>>

OutsideRemove(t) ==
  /\ outside < MaxOutside
  /\ dir[t] # None
  /\ dir' = [dir EXCEPT ![t] = None]
  /\ stale' = stale \cup HoldsModeOf(t)
  /\ outside' = outside + 1
  /\ UNCHANGED <<inode, ddir, disk, callVars, orphans, crashes>>

--------------------------------------------------------------------------------
\* One call's own steps, in the order of the code.
Step(c) ==
  \/ CheckTarget(c) \/ CreateTemp(c) \/ CreateFails(c)
  \/ WriteData(c) \/ existingMode(c) \/ ChmodTemp(c) \/ SyncTemp(c)
  \/ CloseTemp(c) \/ RenameTemp(c) \/ TryThrows(c) \/ Cleanup(c) \/ Reply(c)

Next ==
  \/ \E c \in Calls :
       \/ \E t \in Targets, p \in Payloads : writeFile(c, t, p)
       \/ Step(c)
  \/ \E S \in SUBSET Calls : Kill(S)
  \/ PowerLoss
  \/ \E i \in Inodes : WriteBackInode(i)
  \/ WriteBackDir
  \/ \E t \in Targets : OutsideRemove(t) \/ \E m \in Modes : OutsideChmod(t, m)

Spec == Init /\ [][Next]_vars

--------------------------------------------------------------------------------
(* Properties.                                                             *)

\* A reader never finds a torn file: whatever calls overlap, fail or die, each
\* target holds one payload whole (the promise in atomic_write.ts's header).
TargetsWhole ==
  \A t \in Targets : dir[t] # None =>
    \E p \in Payloads : inode[dir[t]].data = Whole(p)

\* The same after a power loss: no durable name is ahead of its durable data.
\* This is what handle.sync() before the rename is for.
DurableWhole ==
  \A t \in Targets : ddir[t] # None =>
    \E p \in Payloads : disk[ddir[t]].data = Whole(p)

\* A power loss does not bring back another mode for a file either: the chmod
\* is durable with the data, not only ordered before the rename.
DurableMode ==
  outside = 0 =>
    \A t \in Targets : ddir[t] # None =>
      disk[ddir[t]].mode = inode[ddir[t]].mode

\* Overlapping calls never stage in the same file, so no cleanup removes, and
\* no rename publishes, what another call is writing.
OwnTemp ==
  \A c, d \in Calls :
    pc[c] \in InTry /\ pc[d] \in InTry /\ c # d =>
      tmp[c] # tmp[d] /\ dir[tmp[c]] # dir[tmp[d]]

\* A temp file in the directory belongs to a call that will still remove or
\* rename it, or was left by a kill or by an unlink that itself failed.
TempsAccounted ==
  \A n \in Temps : dir[n] # None =>
    n \in orphans \/ \E c \in Calls : pc[c] \in InTry /\ tmp[c] = n

\* An overwrite keeps the mode of the file it replaces, whatever other calls do
\* to that file in the meantime; only a chmod or a removal by another program
\* between existingMode and the rename can defeat it.
ModeKept ==
  [][\A c \in Calls :
       RenameTemp(c) /\ c \notin stale /\ ModeAt(req[c].target) # None =>
         ModeAt(req[c].target)' = ModeAt(req[c].target)]_vars

--------------------------------------------------------------------------------
(* Refinement.  A version is what a name's data holds; a torn file is no   *)
(* member of Versions, so only the rename may change what a target shows.  *)

Versions == {Whole(p) : p \in Payloads}

DataAt(d, f) == [t \in Targets |-> IF d[t] = None THEN None ELSE f[d[t]].data]
Content      == DataAt(dir, inode)
Stable       == DataAt(ddir, disk)

Phase(c) ==
  CASE pc[c] = "idle"    -> "idle"
    [] pc[c] = "renamed" -> "committed"
    [] pc[c] = "failed"  -> "failed"
    [] OTHER             -> "pending"

CallOf(c) ==
  [phase   |-> Phase(c),
   target  |-> req[c].target,
   version |-> IF req[c] = NoReq THEN None ELSE Whole(req[c].payload)]

Call == [c \in Calls |-> CallOf(c)]

Store == INSTANCE FileStore WITH content <- Content, stable <- Stable, call <- Call

\* atomicWriteFile implements FileStore: the rename is the commit.
ImplementsFileStore == Store!Spec
================================================================================
