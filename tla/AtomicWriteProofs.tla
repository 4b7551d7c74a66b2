--------------------------- MODULE AtomicWriteProofs ---------------------------
(***************************************************************************)
(* The promises of atomicWriteFile, for every number of calls, targets,    *)
(* temp names, inodes, payloads and blocks, every number of crashes and of *)
(* changes by other programs.                                              *)
(***************************************************************************)
EXTENDS AtomicWrite, TLAPS

Live(c) == pc[c] \in InTry

\* A call that was accepted knows its target and its payload.
Requested ==
  \A c \in Calls : pc[c] # "idle" => req[c] \in [target : Targets, payload : Payloads]

\* No two names share an inode, now or after a power loss.
OneName(d) == \A m, n \in Names : d[m] = d[n] /\ d[m] # None => m = n

\* A call inside the `try` holds the file its temp name refers to; no other call
\* stages under that name, and no power loss makes it a target.
Owns ==
  \A c \in Calls : Live(c) =>
    /\ tmp[c] \in Temps /\ fd[c] \in Inodes
    /\ dir[tmp[c]] = fd[c]
    /\ \A t \in Targets : ddir[t] # fd[c]
    /\ \A d \in Calls : Live(d) /\ tmp[d] = tmp[c] => d = c

\* How much of the payload the temp file holds.
Staged ==
  \A c \in Calls :
    /\ pc[c] \in {"idle", "check", "create"} => pos[c] = 0
    /\ pc[c] = "write" =>
         /\ pos[c] < Blocks
         /\ \A k \in 1..pos[c] : inode[fd[c]].data[k] = req[c].payload
    /\ pc[c] \in {"stat", "chmod", "sync", "close", "rename"} =>
         inode[fd[c]].data = Whole(req[c].payload)

\* What the rename publishes is durable, data and mode.
Synced == \A c \in Calls : pc[c] \in {"close", "rename"} => disk[fd[c]] = inode[fd[c]]

\* A file under a target name, in memory or on disk, is one whole payload, and
\* the disk has the same.
Sound(d) ==
  \A t \in Targets : d[t] # None =>
    /\ \E p \in Payloads : inode[d[t]].data = Whole(p)
    /\ disk[d[t]].data = inode[d[t]].data
    /\ outside = 0 => disk[d[t]].mode = inode[d[t]].mode

\* The mode of the temp file.
TempMode ==
  \A c \in Calls :
    /\ pc[c] \in {"write", "stat", "chmod"} => inode[fd[c]].mode = CREATE_MODE
    /\ pc[c] = "chmod" => seen[c] # None
    /\ pc[c] \in {"sync", "close", "rename"} =>
         inode[fd[c]].mode = IF seen[c] = None THEN CREATE_MODE ELSE seen[c]

\* What existingMode returned still holds, unless another program changed it.  A
\* target that did not exist may have been created by another call meanwhile.
SeenMode ==
  \A c \in Calls :
    pc[c] \in {"chmod", "sync", "close", "rename"} /\ c \notin stale =>
      ModeAt(req[c].target) \in (IF seen[c] = None THEN {None, CREATE_MODE} ELSE {seen[c]})

IInv ==
  /\ TypeOK
  /\ Requested
  /\ OneName(dir) /\ OneName(ddir)
  /\ Owns
  /\ Staged
  /\ Synced
  /\ Sound(dir) /\ Sound(ddir)
  /\ TempMode
  /\ SeenMode
  /\ TempsAccounted

Labels == InTry \cup {"idle", "check", "create", "renamed", "failed"}

--------------------------------------------------------------------------------
(* Facts about the data.                                                   *)

LEMMA WholeIsData ==
  ASSUME NEW p \in Payloads \cup {None}
  PROVE  Whole(p) \in [1..Blocks -> Payloads \cup {None}]
BY DEF Whole

LEMMA NoneApart ==
  /\ None \notin Inodes /\ None \notin Targets /\ None \notin Temps
  /\ None \notin Payloads /\ None \notin Modes
  /\ \A n \in Temps : n \notin Targets
  /\ CREATE_MODE \in Modes
  /\ Blocks \in Nat /\ Blocks > 0
BY ConstantsAssumption

LEMMA InitIInv == Init => IInv
<1> SUFFICES ASSUME Init PROVE IInv
  OBVIOUS
<1> USE NoneApart, ConstantsAssumption
<1>1. Whole(Original) \in [1..Blocks -> Payloads \cup {None}]
  BY WholeIsData
<1>2. inode \in [Inodes -> File]
  BY <1>1 DEF Init, File
<1>3. TypeOK
  BY <1>2 DEF Init, TypeOK
<1>4. Sound(dir) /\ Sound(ddir)
  <2>1. \A i \in Inodes : inode[i].data = Whole(Original)
    BY DEF Init
  <2>2. dir \in [Names -> Inodes \cup {None}] /\ ddir = dir /\ disk = inode
    BY DEF Init
  <2>3. \A t \in Targets : t \in Names
    BY DEF Names
  <2> QED
    BY <2>1, <2>2, <2>3 DEF Sound
<1>5. OneName(dir) /\ OneName(ddir)
  BY DEF Init, OneName
<1>6. \A c \in Calls : pc[c] = "idle" /\ pos[c] = 0
  BY DEF Init
<1>7. Requested /\ Owns /\ Staged /\ Synced /\ TempMode /\ SeenMode
  BY <1>6 DEF Requested, Owns, Staged, Synced, TempMode, SeenMode, Live, InTry, Awaits
<1>8. TempsAccounted
  BY DEF Init, TempsAccounted
<1> QED
  BY <1>3, <1>4, <1>5, <1>7, <1>8 DEF IInv

--------------------------------------------------------------------------------
(* What the invariant says of two calls at once.                           *)

\* No call holds the file of another, and none holds a target's.
LEMMA Apart ==
  ASSUME IInv, NEW c \in Calls, Live(c)
  PROVE  /\ tmp[c] \in Temps /\ tmp[c] \in Names /\ fd[c] \in Inodes /\ fd[c] # None
         /\ dir[tmp[c]] = fd[c]
         /\ \A t \in Targets : dir[t] # fd[c] /\ ddir[t] # fd[c] /\ t # tmp[c]
         /\ \A d \in Calls \ {c} : Live(d) => fd[d] # fd[c] /\ tmp[d] # tmp[c]
BY NoneApart DEF IInv, Owns, OneName, Names

--------------------------------------------------------------------------------
(* The steps of a call.                                                    *)

\* A step that only moves on, and keeps the temp file of the call if it has one.
LEMMA JumpIInv ==
  ASSUME IInv, NEW c \in Calls, NEW from, NEW to, Jump(c, from, to),
         \/ pc[c] \in {"check", "create"} /\ to \in {"create", "failed"}
         \/ pc[c] = "close" /\ to = "rename"
         \/ pc[c] \in Awaits /\ to = "cleanup"
  PROVE  IInv'
<1>0. pc \in [Calls -> Labels] /\ to \in Labels
  BY DEF IInv, TypeOK, Labels, InTry, Awaits
<1>1. /\ pc' = [pc EXCEPT ![c] = to]
      /\ UNCHANGED <<fsVars, req, tmp, fd, pos, seen, histVars>>
  BY DEF Jump, Goto
<1>2. \A d \in Calls : Live(d)' <=> Live(d)
  BY <1>0, <1>1 DEF Live, InTry, Awaits
<1>3. TypeOK'
  BY <1>0, <1>1 DEF IInv, TypeOK, Labels, fsVars, histVars
<1>4. Requested'
  BY <1>0, <1>1 DEF IInv, Requested, Awaits
<1>5. OneName(dir)' /\ OneName(ddir)' /\ Sound(dir)' /\ Sound(ddir)'
  BY <1>1 DEF IInv, OneName, Sound, fsVars, histVars
<1>6. Owns' /\ TempsAccounted'
  BY <1>1, <1>2 DEF IInv, Owns, TempsAccounted, Live, fsVars, histVars
<1>7. Staged' /\ Synced'
  BY <1>0, <1>1 DEF IInv, Staged, Synced, Awaits, fsVars, histVars
<1>8. TempMode'
  BY <1>0, <1>1 DEF IInv, TempMode, Awaits, fsVars, histVars
<1>9. SeenMode'
  BY <1>0, <1>1 DEF IInv, SeenMode, ModeAt, Awaits, fsVars, histVars
<1> QED
  BY <1>3, <1>4, <1>5, <1>6, <1>7, <1>8, <1>9 DEF IInv

LEMMA WriteFileIInv ==
  ASSUME IInv, NEW c \in Calls, NEW t \in Targets, NEW p \in Payloads, writeFile(c, t, p)
  PROVE  IInv'
<1> DEFINE to == IF p \in Refused THEN "failed" ELSE "check"
<1>0. pc \in [Calls -> Labels] /\ req \in [Calls -> [target : Targets, payload : Payloads] \cup {NoReq}]
  BY DEF IInv, TypeOK, Labels
<1>1. /\ pc[c] = "idle"
      /\ pc' = [pc EXCEPT ![c] = to] /\ to \in {"failed", "check"}
      /\ req' = [req EXCEPT ![c] = [target |-> t, payload |-> p]]
      /\ UNCHANGED <<fsVars, tmp, fd, pos, seen, histVars>>
  BY DEF writeFile, Goto
<1> HIDE DEF to
<1>2. \A d \in Calls : (Live(d)' <=> Live(d)) /\ (d # c => pc'[d] = pc[d] /\ req'[d] = req[d])
  BY <1>0, <1>1 DEF Live, InTry, Awaits
<1>3. pc'[c] \in {"failed", "check"} /\ req'[c] \in [target : Targets, payload : Payloads]
  BY <1>0, <1>1
<1>4. TypeOK'
  BY <1>0, <1>1 DEF IInv, TypeOK, Labels, fsVars, histVars
<1>5. Requested'
  BY <1>2, <1>3 DEF IInv, Requested
<1>6. OneName(dir)' /\ OneName(ddir)' /\ Sound(dir)' /\ Sound(ddir)'
  BY <1>1 DEF IInv, OneName, Sound, fsVars, histVars
<1>7. Owns' /\ TempsAccounted'
  BY <1>1, <1>2 DEF IInv, Owns, TempsAccounted, Live, fsVars, histVars
<1>8. Staged' /\ Synced'
  BY <1>1, <1>2, <1>3 DEF IInv, Staged, Synced, fsVars, histVars
<1>9. TempMode'
  BY <1>1, <1>2, <1>3 DEF IInv, TempMode, fsVars, histVars
<1>10. SeenMode'
  BY <1>1, <1>2, <1>3 DEF IInv, SeenMode, ModeAt, fsVars, histVars
<1> QED
  BY <1>4, <1>5, <1>6, <1>7, <1>8, <1>9, <1>10 DEF IInv

LEMMA CreateTempIInv ==
  ASSUME IInv, NEW c \in Calls, CreateTemp(c)
  PROVE  IInv'
<1>1. PICK n \in Temps, i \in Inodes : dir[n] = None /\ Free(i) /\ OpenTemp(c, n, i)
  BY DEF CreateTemp
<1>2. /\ TypeOK
      /\ pc \in [Calls -> Labels] /\ tmp \in [Calls -> Temps \cup {None}]
      /\ fd \in [Calls -> Inodes \cup {None}]
      /\ dir \in [Names -> Inodes \cup {None}]
      /\ inode \in [Inodes -> File] /\ disk \in [Inodes -> File]
      /\ n \in Names /\ i # None
  BY NoneApart DEF IInv, TypeOK, Labels, Names
<1>3. /\ pc[c] = "create" /\ pc' = [pc EXCEPT ![c] = "write"]
      /\ inode' = [inode EXCEPT ![i] = EmptyFile] /\ disk' = [disk EXCEPT ![i] = EmptyFile]
      /\ dir' = [dir EXCEPT ![n] = i]
      /\ tmp' = [tmp EXCEPT ![c] = n] /\ fd' = [fd EXCEPT ![c] = i]
      /\ UNCHANGED <<ddir, req, pos, seen, histVars>>
  BY <1>1 DEF OpenTemp, Goto
<1>4. /\ pc'[c] = "write" /\ tmp'[c] = n /\ fd'[c] = i
      /\ dir'[n] = i /\ inode'[i] = EmptyFile
      /\ \A d \in Calls \ {c} : pc'[d] = pc[d] /\ tmp'[d] = tmp[d] /\ fd'[d] = fd[d]
      /\ \A m \in Names \ {n} : dir'[m] = dir[m]
      /\ \A j \in Inodes \ {i} : inode'[j] = inode[j] /\ disk'[j] = disk[j]
  BY <1>2, <1>3
<1>5. /\ \A m \in Names : dir[m] # i /\ ddir[m] # i
      /\ \A d \in Calls \ {c} : Live(d) => fd[d] # i /\ fd[d] \in Inodes /\ tmp[d] # n /\ tmp[d] \in Names
  BY <1>1, <1>2, Apart DEF Free, Live
<1>6. TypeOK'
  <2>1. EmptyFile \in File
    BY WholeIsData, NoneApart DEF EmptyFile, File
  <2>2. inode' \in [Inodes -> File] /\ disk' \in [Inodes -> File]
    BY <1>2, <1>3, <2>1
  <2>3. pc' \in [Calls -> Labels]
    BY <1>2, <1>3 DEF Labels, InTry, Awaits
  <2> QED
    BY <1>2, <1>3, <2>2, <2>3 DEF TypeOK, Labels, histVars
<1>7. Requested'
  BY <1>3, <1>4 DEF IInv, Requested
<1>8. OneName(dir)' /\ OneName(ddir)'
  BY <1>3, <1>4, <1>5 DEF IInv, OneName
<1>9. Owns'
  <2> SUFFICES ASSUME NEW d \in Calls, Live(d)'
               PROVE  /\ tmp'[d] \in Temps /\ fd'[d] \in Inodes
                      /\ dir'[tmp'[d]] = fd'[d]
                      /\ \A t \in Targets : ddir'[t] # fd'[d]
                      /\ \A e \in Calls : Live(e)' /\ tmp'[e] = tmp'[d] => e = d
    BY DEF Owns
  <2>1. CASE d = c
    BY <1>3, <1>4, <1>5, <2>1 DEF Live, Names
  <2>2. CASE d # c
    BY <1>3, <1>4, <1>5, <2>2 DEF Live, IInv, Owns
  <2> QED
    BY <2>1, <2>2
<1>10. Staged'
  <2>1. pos[c] = 0
    BY <1>3 DEF IInv, Staged
  <2> QED
    BY <1>3, <1>4, <1>5, <2>1, NoneApart DEF IInv, Staged, Live, InTry, Awaits
<1>11. Synced' /\ TempMode'
  BY <1>3, <1>4, <1>5 DEF IInv, Synced, TempMode, EmptyFile, Live, InTry, Awaits
<1>12. \A t \in Targets : t \in Names \ {n} /\ dir'[t] = dir[t] /\ (dir[t] # None => dir[t] \in Inodes \ {i})
  BY <1>2, <1>4, <1>5, NoneApart DEF Names
<1>13. Sound(dir)' /\ Sound(ddir)'
  <2>1. \A t \in Targets : ddir[t] # None => ddir[t] \in Inodes \ {i}
    BY <1>2, <1>5 DEF TypeOK, Names
  <2> QED
    BY <1>3, <1>4, <1>12, <2>1 DEF IInv, Sound, histVars
<1>14. SeenMode'
  <2>1. \A t \in Targets : ModeAt(t)' = ModeAt(t)
    BY <1>4, <1>12 DEF ModeAt
  <2> QED
    BY <1>3, <1>4, <2>1 DEF IInv, SeenMode, Requested, histVars
<1>15. TempsAccounted'
  BY <1>2, <1>3, <1>4 DEF IInv, TempsAccounted, Names, InTry, Awaits, histVars
<1> QED
  BY <1>6, <1>7, <1>8, <1>9, <1>10, <1>11, <1>13, <1>14, <1>15 DEF IInv

\* A step inside the `try` that touches at most the call's own temp file, and
\* keeps it, disturbs nothing but what is said of that file.
LEMMA OwnFileStep ==
  ASSUME IInv, NEW c \in Calls, Live(c), NEW to \in InTry,
         pc' = [pc EXCEPT ![c] = to],
         inode' \in [Inodes -> File],
         \A j \in Inodes \ {fd[c]} : inode'[j] = inode[j] /\ disk'[j] = disk[j],
         \A d \in Calls \ {c} : pos'[d] = pos[d] /\ seen'[d] = seen[d],
         UNCHANGED <<dir, ddir, req, tmp, fd, histVars>>
  PROVE  /\ Requested' /\ OneName(dir)' /\ OneName(ddir)' /\ Owns'
         /\ Sound(dir)' /\ Sound(ddir)' /\ TempsAccounted'
         /\ pc'[c] = to
         /\ \A t \in Targets : ModeAt(t)' = ModeAt(t)
         /\ \A d \in Calls \ {c} :
              /\ pc'[d] = pc[d]
              /\ Live(d) => inode'[fd'[d]] = inode[fd[d]] /\ disk'[fd'[d]] = disk[fd[d]]
<1>1. /\ pc \in [Calls -> Labels]
      /\ dir \in [Names -> Inodes \cup {None}] /\ ddir \in [Names -> Inodes \cup {None}]
      /\ Targets \subseteq Names
  BY DEF IInv, TypeOK, Labels, Names
<1>2. /\ pc'[c] = to /\ \A d \in Calls \ {c} : pc'[d] = pc[d]
      /\ \A d \in Calls : Live(d)' <=> Live(d)
  BY <1>1 DEF Live
<1>3. /\ \A t \in Targets : dir[t] # fd[c] /\ ddir[t] # fd[c]
      /\ \A d \in Calls \ {c} : Live(d) => fd[d] \in Inodes \ {fd[c]}
  BY Apart
<1>4. Requested'
  BY <1>2 DEF IInv, Requested, Live, InTry, Awaits
<1>5. OneName(dir)' /\ OneName(ddir)'
  BY DEF IInv, OneName
<1>6. Owns' /\ TempsAccounted'
  BY <1>2 DEF IInv, Owns, TempsAccounted, Live, histVars
<1>7. \A t \in Targets : /\ dir[t] # None => dir[t] \in Inodes \ {fd[c]}
                         /\ ddir[t] # None => ddir[t] \in Inodes \ {fd[c]}
  BY <1>1, <1>3
<1>8. Sound(dir)' /\ Sound(ddir)'
  BY <1>7 DEF IInv, Sound, histVars
<1>9. \A t \in Targets : ModeAt(t)' = ModeAt(t)
  BY <1>7 DEF ModeAt
<1> QED
  BY <1>2, <1>3, <1>4, <1>5, <1>6, <1>8, <1>9

LEMMA WriteDataIInv ==
  ASSUME IInv, NEW c \in Calls, WriteData(c)
  PROVE  IInv'
<1> DEFINE to == IF pos[c] + 1 = Blocks THEN "stat" ELSE "write"
           i  == fd[c]
           p  == req[c].payload
<1>1. /\ pc[c] = "write" /\ pc' = [pc EXCEPT ![c] = to]
      /\ inode' = [inode EXCEPT ![i].data[pos[c] + 1] = p]
      /\ pos' = [pos EXCEPT ![c] = @ + 1]
      /\ UNCHANGED <<dir, ddir, disk, req, tmp, fd, seen, histVars>>
  BY DEF WriteData, WriteBlock, Goto
<1>2. /\ TypeOK /\ Live(c) /\ to \in InTry /\ to \in {"stat", "write"}
      /\ pos \in [Calls -> 0..Blocks] /\ inode \in [Inodes -> File] /\ i \in Inodes
  BY <1>1, Apart DEF IInv, TypeOK, Live, InTry, Awaits
<1>3. pos[c] \in Nat /\ pos[c] < Blocks /\ \A k \in 1..pos[c] : inode[i].data[k] = p
  BY <1>1, <1>2 DEF IInv, Staged
<1>4. p \in Payloads
  BY <1>1 DEF IInv, Requested
<1>5. /\ inode[i].data \in [1..Blocks -> Payloads \cup {None}]
      /\ inode[i].mode \in Modes
      /\ pos[c] + 1 \in 1..Blocks
  BY <1>2, <1>3, NoneApart DEF File
<1>6. /\ inode'[i].data = [inode[i].data EXCEPT ![pos[c] + 1] = p]
      /\ inode'[i].mode = inode[i].mode
      /\ inode'[i] \in File
      /\ \A j \in Inodes \ {i} : inode'[j] = inode[j]
  BY <1>1, <1>2, <1>4, <1>5 DEF File
<1>7. inode' \in [Inodes -> File]
  BY <1>1, <1>2, <1>6
<1> HIDE DEF to, i, p
<1>8. /\ Requested' /\ OneName(dir)' /\ OneName(ddir)' /\ Owns'
      /\ Sound(dir)' /\ Sound(ddir)' /\ TempsAccounted'
      /\ pc'[c] = to
      /\ \A t \in Targets : ModeAt(t)' = ModeAt(t)
      /\ \A d \in Calls \ {c} :
           /\ pc'[d] = pc[d]
           /\ Live(d) => inode'[fd'[d]] = inode[fd[d]] /\ disk'[fd'[d]] = disk[fd[d]]
  BY <1>1, <1>2, <1>6, <1>7, OwnFileStep DEF i
<1>9. TypeOK'
  <2>1. pos' \in [Calls -> 0..Blocks]
    BY <1>1, <1>2, <1>3, NoneApart
  <2> QED
    BY <1>1, <1>2, <1>7, <2>1 DEF TypeOK, histVars
<1>10. Staged'
  <2>1. pos'[c] = pos[c] + 1 /\ \A d \in Calls \ {c} : pos'[d] = pos[d]
    BY <1>1, <1>2
  <2>2. \A k \in 1..(pos[c] + 1) : inode'[i].data[k] = p
    <3> SUFFICES ASSUME NEW k \in 1..(pos[c] + 1)
                 PROVE  inode'[i].data[k] = p
      OBVIOUS
    <3>1. k \in 1..Blocks
      BY <1>3, <1>5, NoneApart
    <3>2. CASE k = pos[c] + 1
      BY <1>5, <1>6, <3>1, <3>2
    <3>3. CASE k # pos[c] + 1
      <4>1. k \in 1..pos[c]
        BY <1>3, <3>3
      <4> QED
        BY <1>3, <1>5, <1>6, <3>1, <3>3, <4>1
    <3> QED
      BY <3>2, <3>3
  <2>3. to = "stat" => inode'[i].data = Whole(p)
    <3>1. inode'[i].data \in [1..Blocks -> Payloads \cup {None}]
      BY <1>6 DEF File
    <3>2. to = "stat" => pos[c] + 1 = Blocks
      BY DEF to
    <3> QED
      BY <2>2, <3>1, <3>2 DEF Whole
  <2>4. to = "write" => pos[c] + 1 < Blocks
    BY <1>3, NoneApart DEF to
  <2> SUFFICES ASSUME NEW d \in Calls
               PROVE  /\ pc'[d] \in {"idle", "check", "create"} => pos'[d] = 0
                      /\ pc'[d] = "write" =>
                           /\ pos'[d] < Blocks
                           /\ \A k \in 1..pos'[d] : inode'[fd'[d]].data[k] = req'[d].payload
                      /\ pc'[d] \in {"stat", "chmod", "sync", "close", "rename"} =>
                           inode'[fd'[d]].data = Whole(req'[d].payload)
    BY DEF Staged, Whole
  <2>5. CASE d = c
    <3>1. fd'[c] = i /\ req'[c].payload = p /\ pc'[c] \in {"stat", "write"} /\ pc'[c] = to
      BY <1>1, <1>2, <1>8 DEF i, p
    <3> QED
      BY <2>1, <2>2, <2>3, <2>4, <2>5, <3>1
  <2>6. CASE d # c
    <3>1. pc'[d] = pc[d] /\ pos'[d] = pos[d] /\ req' = req /\ fd' = fd
      BY <1>1, <1>8, <2>1, <2>6
    <3>2. Live(d) => inode'[fd[d]] = inode[fd[d]]
      BY <1>1, <1>8, <2>6
    <3> QED
      BY <3>1, <3>2 DEF IInv, Staged, Live, InTry, Awaits
  <2> QED
    BY <2>5, <2>6
<1>11. Synced'
  BY <1>1, <1>2, <1>8 DEF IInv, Synced, Live, InTry, Awaits
<1>12. TempMode'
  BY <1>1, <1>2, <1>6, <1>8 DEF IInv, TempMode, Live, InTry, Awaits, i
<1>13. SeenMode'
  <2>1. ASSUME NEW d \in Calls
        PROVE  /\ d # c => pc'[d] = pc[d]
               /\ pc'[c] \notin {"chmod", "sync", "close", "rename"}
    BY <1>1, <1>2, <1>8 DEF to
  <2>2. req' = req /\ seen' = seen /\ stale' = stale
    BY <1>1 DEF histVars
  <2>3. ASSUME NEW d \in Calls, pc[d] # "idle"
        PROVE  ModeAt(req[d].target)' = ModeAt(req[d].target)
    <3>1. req[d].target \in Targets /\ req'[d].target = req[d].target
      BY <2>2, <2>3 DEF IInv, Requested
    <3>2. \A t \in Targets : t = req'[d].target => ModeAt(t)' = ModeAt(req[d].target)'
      BY DEF ModeAt
    <3> QED
      BY <1>8, <3>1, <3>2
  <2> QED
    BY <2>1, <2>2, <2>3 DEF IInv, SeenMode
<1> QED
  BY <1>8, <1>9, <1>10, <1>11, <1>12, <1>13 DEF IInv

LEMMA ExistingModeIInv ==
  ASSUME IInv, NEW c \in Calls, existingMode(c)
  PROVE  IInv'
<1> DEFINE found == ModeAt(req[c].target)
           to    == IF found = None THEN "sync" ELSE "chmod"
<1>1. /\ pc[c] = "stat" /\ pc' = [pc EXCEPT ![c] = to]
      /\ seen' = [seen EXCEPT ![c] = found]
      /\ UNCHANGED <<fsVars, req, tmp, fd, pos, histVars>>
  BY DEF existingMode, Goto
<1>2. /\ TypeOK /\ Live(c) /\ to \in InTry /\ to \in {"sync", "chmod"}
      /\ seen \in [Calls -> Modes \cup {None}] /\ inode \in [Inodes -> File]
  BY <1>1 DEF IInv, TypeOK, Live, InTry, Awaits
<1>3. req[c].target \in Names /\ found \in Modes \cup {None}
  BY <1>1, <1>2 DEF IInv, Requested, TypeOK, ModeAt, Names, File
<1>4. seen'[c] = found /\ \A d \in Calls \ {c} : seen'[d] = seen[d]
  BY <1>1, <1>2
<1> HIDE DEF to, found
<1>5. /\ Requested' /\ OneName(dir)' /\ OneName(ddir)' /\ Owns'
      /\ Sound(dir)' /\ Sound(ddir)' /\ TempsAccounted'
      /\ pc'[c] = to
      /\ \A t \in Targets : ModeAt(t)' = ModeAt(t)
      /\ \A d \in Calls \ {c} :
           /\ pc'[d] = pc[d]
           /\ Live(d) => inode'[fd'[d]] = inode[fd[d]] /\ disk'[fd'[d]] = disk[fd[d]]
  BY <1>1, <1>2, <1>4, OwnFileStep DEF fsVars
<1>6. TypeOK'
  BY <1>1, <1>2, <1>3 DEF TypeOK, fsVars, histVars
<1>7. Staged' /\ Synced'
  BY <1>1, <1>2, <1>5 DEF IInv, Staged, Synced, Live, InTry, Awaits, fsVars
<1>8. TempMode'
  BY <1>1, <1>2, <1>4, <1>5 DEF IInv, TempMode, Live, InTry, Awaits, fsVars, to
<1>9. SeenMode'
  BY <1>1, <1>2, <1>4, <1>5, SMTT(30) DEF IInv, SeenMode, Requested, histVars, found
<1> QED
  BY <1>5, <1>6, <1>7, <1>8, <1>9 DEF IInv

LEMMA ChmodTempIInv ==
  ASSUME IInv, NEW c \in Calls, ChmodTemp(c)
  PROVE  IInv'
<1> DEFINE i == fd[c]
<1>1. /\ pc[c] = "chmod" /\ pc' = [pc EXCEPT ![c] = "sync"]
      /\ inode' = [inode EXCEPT ![i].mode = seen[c]]
      /\ UNCHANGED <<dir, ddir, disk, req, tmp, fd, pos, seen, histVars>>
  BY DEF ChmodTemp, Goto
<1>2. /\ TypeOK /\ Live(c) /\ "sync" \in InTry /\ i \in Inodes
      /\ seen[c] \in Modes /\ inode \in [Inodes -> File]
  BY <1>1, Apart DEF IInv, TypeOK, TempMode, Live, InTry, Awaits
<1>3. /\ inode'[i].data = inode[i].data /\ inode'[i].mode = seen[c]
      /\ \A j \in Inodes \ {i} : inode'[j] = inode[j]
      /\ inode' \in [Inodes -> File]
  BY <1>1, <1>2 DEF File
<1> HIDE DEF i
<1>4. /\ Requested' /\ OneName(dir)' /\ OneName(ddir)' /\ Owns'
      /\ Sound(dir)' /\ Sound(ddir)' /\ TempsAccounted'
      /\ pc'[c] = "sync"
      /\ \A t \in Targets : ModeAt(t)' = ModeAt(t)
      /\ \A d \in Calls \ {c} :
           /\ pc'[d] = pc[d]
           /\ Live(d) => inode'[fd'[d]] = inode[fd[d]] /\ disk'[fd'[d]] = disk[fd[d]]
  BY <1>1, <1>2, <1>3, OwnFileStep DEF i
<1>5. TypeOK'
  BY <1>1, <1>2, <1>3 DEF TypeOK, histVars
<1>6. Staged' /\ Synced'
  BY <1>1, <1>2, <1>3, <1>4 DEF IInv, Staged, Synced, Live, InTry, Awaits, i
<1>7. TempMode'
  <2>1. fd'[c] = i /\ seen'[c] = seen[c] /\ seen[c] # None
    BY <1>1, <1>2, NoneApart DEF i
  <2>2. \A d \in Calls \ {c} : Live(d) => inode'[fd'[d]] = inode[fd[d]] /\ seen'[d] = seen[d]
    BY <1>1, <1>4
  <2> QED
    BY <1>3, <1>4, <2>1, <2>2 DEF IInv, TempMode, Live, InTry, Awaits
<1>8. SeenMode'
  BY <1>1, <1>2, <1>4 DEF IInv, SeenMode, Requested, histVars
<1> QED
  BY <1>4, <1>5, <1>6, <1>7, <1>8 DEF IInv

LEMMA SyncTempIInv ==
  ASSUME IInv, NEW c \in Calls, SyncTemp(c)
  PROVE  IInv'
<1>1. /\ pc[c] = "sync" /\ pc' = [pc EXCEPT ![c] = "close"]
      /\ disk' = [disk EXCEPT ![fd[c]] = inode[fd[c]]]
      /\ UNCHANGED <<dir, inode, ddir, req, tmp, fd, pos, seen, histVars>>
  BY DEF SyncTemp, Sync, Goto
<1>2. /\ TypeOK /\ Live(c) /\ "close" \in InTry /\ fd[c] \in Inodes
      /\ inode \in [Inodes -> File] /\ disk \in [Inodes -> File]
  BY <1>1, Apart DEF IInv, TypeOK, Live, InTry, Awaits
<1>3. /\ disk'[fd[c]] = inode[fd[c]]
      /\ \A j \in Inodes \ {fd[c]} : disk'[j] = disk[j]
      /\ disk' \in [Inodes -> File]
  BY <1>1, <1>2
<1>4. /\ Requested' /\ OneName(dir)' /\ OneName(ddir)' /\ Owns'
      /\ Sound(dir)' /\ Sound(ddir)' /\ TempsAccounted'
      /\ pc'[c] = "close"
      /\ \A t \in Targets : ModeAt(t)' = ModeAt(t)
      /\ \A d \in Calls \ {c} :
           /\ pc'[d] = pc[d]
           /\ Live(d) => inode'[fd'[d]] = inode[fd[d]] /\ disk'[fd'[d]] = disk[fd[d]]
  BY <1>1, <1>2, <1>3, OwnFileStep
<1>5. TypeOK'
  BY <1>1, <1>2, <1>3 DEF TypeOK, histVars
<1>6. Staged' /\ Synced'
  BY <1>1, <1>2, <1>3, <1>4 DEF IInv, Staged, Synced, Live, InTry, Awaits
<1>7. TempMode'
  BY <1>1, <1>2, <1>4 DEF IInv, TempMode, Live, InTry, Awaits
<1>8. SeenMode'
  BY <1>1, <1>2, <1>4 DEF IInv, SeenMode, Requested, histVars
<1> QED
  BY <1>4, <1>5, <1>6, <1>7, <1>8 DEF IInv

\* What a call knows when it renames: its temp file is the whole payload, already
\* on disk, under the mode existingMode found.
LEMMA ReadyToRename ==
  ASSUME IInv, NEW c \in Calls, RenameTemp(c)
  PROVE  /\ Live(c)
         /\ req[c].target \in Targets /\ req[c].target \in Names /\ req[c].payload \in Payloads
         /\ dir[tmp[c]] = fd[c]
         /\ inode[fd[c]].data = Whole(req[c].payload)
         /\ inode[fd[c]].mode = IF seen[c] = None THEN CREATE_MODE ELSE seen[c]
         /\ disk[fd[c]] = inode[fd[c]]
         /\ dir' = [dir EXCEPT ![req[c].target] = fd[c], ![tmp[c]] = None]
         /\ dir'[req[c].target] = fd[c] /\ dir'[tmp[c]] = None
         /\ \A m \in Names \ {req[c].target, tmp[c]} : dir'[m] = dir[m]
<1>1. pc[c] = "rename"
  BY DEF RenameTemp
<1>2. Live(c)
  BY <1>1 DEF Live, InTry, Awaits
<1>3. req[c].target \in Targets /\ req[c].target \in Names /\ req[c].payload \in Payloads
  BY <1>1 DEF IInv, Requested, Names
<1>4. dir[tmp[c]] = fd[c] /\ tmp[c] \in Names /\ req[c].target # tmp[c]
  BY <1>2, <1>3, Apart
<1>5. dir \in [Names -> Inodes \cup {None}]
  BY DEF IInv, TypeOK
<1>6. dir' = [dir EXCEPT ![req[c].target] = fd[c], ![tmp[c]] = None]
  BY <1>4 DEF RenameTemp
<1>7. /\ dir'[req[c].target] = fd[c] /\ dir'[tmp[c]] = None
      /\ \A m \in Names \ {req[c].target, tmp[c]} : dir'[m] = dir[m]
  BY <1>3, <1>4, <1>5, <1>6
<1> QED
  BY <1>1, <1>2, <1>3, <1>4, <1>6, <1>7 DEF IInv, Staged, Synced, TempMode

LEMMA RenameTempIInv ==
  ASSUME IInv, NEW c \in Calls, RenameTemp(c)
  PROVE  IInv'
<1> DEFINE t == req[c].target
           n == tmp[c]
           i == fd[c]
<1>1. /\ Live(c) /\ t \in Targets /\ t \in Names /\ dir[n] = i
      /\ inode[i].data = Whole(req[c].payload) /\ req[c].payload \in Payloads
      /\ inode[i].mode = IF seen[c] = None THEN CREATE_MODE ELSE seen[c]
      /\ disk[i] = inode[i]
      /\ dir' = [dir EXCEPT ![t] = i, ![n] = None]
      /\ dir'[t] = i /\ dir'[n] = None
      /\ \A m \in Names \ {t, n} : dir'[m] = dir[m]
  BY ReadyToRename
<1>2. /\ pc[c] = "rename" /\ pc' = [pc EXCEPT ![c] = "renamed"]
      /\ stale' = IF c \in stale THEN stale \cup HoldsModeOf(t) ELSE stale
      /\ UNCHANGED <<inode, ddir, disk, req, tmp, fd, pos, seen, orphans, crashes, outside>>
  BY DEF RenameTemp, Goto
<1>3. /\ n \in Names /\ n \in Temps /\ i \in Inodes /\ i # None
      /\ \A u \in Targets : u # n
      /\ \A d \in Calls \ {c} : Live(d) => tmp[d] # n /\ tmp[d] \in Names \ {t, n}
  BY <1>1, Apart
<1> HIDE DEF t, n, i
<1>4. TypeOK
  BY DEF IInv
<1>5. /\ pc \in [Calls -> Labels] /\ pc'[c] = "renamed"
      /\ \A d \in Calls \ {c} : pc'[d] = pc[d] /\ (Live(d)' <=> Live(d))
      /\ ~Live(c)'
  BY <1>2, <1>4 DEF TypeOK, Labels, Live, InTry, Awaits
<1>6. TypeOK'
  <2>1. stale' \in SUBSET Calls
    BY <1>2, <1>4 DEF TypeOK, HoldsModeOf
  <2>2. dir' \in [Names -> Inodes \cup {None}]
    BY <1>1, <1>3, <1>4 DEF TypeOK
  <2>3. pc' \in [Calls -> Labels]
    BY <1>2, <1>5 DEF Labels
  <2> QED
    BY <1>2, <1>4, <2>1, <2>2, <2>3 DEF TypeOK, Labels
<1>7. Requested'
  BY <1>2, <1>5 DEF IInv, Requested
<1>8. OneName(dir)' /\ OneName(ddir)'
  <2>1. \A m \in Names : dir[m] = i => m = n
    BY <1>1, <1>3 DEF IInv, OneName
  <2>2. \A m, k \in Names : dir[m] = dir[k] /\ dir[m] # None => m = k
    BY DEF IInv, OneName
  <2>3. \A m, k \in Names : dir'[m] = dir'[k] /\ dir'[m] # None => m = k
    BY <1>1, <2>1, <2>2
  <2> QED
    BY <1>2, <2>3 DEF IInv, OneName
<1>9. Owns'
  <2> SUFFICES ASSUME NEW d \in Calls, Live(d)'
               PROVE  /\ tmp[d] \in Temps /\ fd[d] \in Inodes
                      /\ dir'[tmp[d]] = fd[d]
                      /\ \A u \in Targets : ddir[u] # fd[d]
                      /\ \A e \in Calls : Live(e)' /\ tmp[e] = tmp[d] => e = d
    BY <1>2 DEF Owns
  <2>1. d # c /\ Live(d) /\ dir'[tmp[d]] = dir[tmp[d]]
    BY <1>1, <1>3, <1>5
  <2> QED
    BY <1>5, <2>1 DEF IInv, Owns
<1>10. Staged' /\ Synced' /\ TempMode'
  BY <1>2, <1>5 DEF IInv, Staged, Synced, TempMode
<1>11. \A u \in Targets \ {t} : u \in Names /\ dir'[u] = dir[u]
  BY <1>1, <1>3 DEF Names
<1>12. Sound(dir)' /\ Sound(ddir)'
  <2>1. dir'[t] = i /\ disk'[i] = inode'[i] /\ inode'[i].data = Whole(req[c].payload)
    BY <1>1, <1>2
  <2>2. ASSUME NEW u \in Targets, dir'[u] # None
        PROVE  /\ \E p \in Payloads : inode'[dir'[u]].data = Whole(p)
               /\ disk'[dir'[u]].data = inode'[dir'[u]].data
               /\ outside' = 0 => disk'[dir'[u]].mode = inode'[dir'[u]].mode
    <3>1. CASE u = t
      BY <1>1, <2>1, <3>1
    <3>2. CASE u # t
      BY <1>2, <1>11, <2>2, <3>2 DEF IInv, Sound
    <3> QED
      BY <3>1, <3>2
  <2>3. Sound(ddir)'
    BY <1>2 DEF IInv, Sound
  <2> QED
    BY <2>2, <2>3 DEF Sound, Whole
<1>13. SeenMode'
  <2> SUFFICES ASSUME NEW d \in Calls,
                      pc'[d] \in {"chmod", "sync", "close", "rename"}, d \notin stale'
               PROVE  ModeAt(req[d].target)' \in
                        (IF seen[d] = None THEN {None, CREATE_MODE} ELSE {seen[d]})
    BY <1>2 DEF SeenMode, ModeAt
  <2>1. d # c /\ pc[d] = pc'[d] /\ d \notin stale
    BY <1>2, <1>5
  <2>2. ModeAt(req[d].target) \in (IF seen[d] = None THEN {None, CREATE_MODE} ELSE {seen[d]})
    BY <2>1 DEF IInv, SeenMode
  <2>3. req[d].target \in Targets
    BY <2>1 DEF IInv, Requested
  <2>4. CASE req[d].target # t
    BY <1>2, <1>11, <2>2, <2>3, <2>4 DEF ModeAt
  <2>5. CASE req[d].target = t
    <3>1. c \notin stale
      BY <1>2, <2>1, <2>5 DEF HoldsModeOf
    <3>2. ModeAt(t) \in (IF seen[c] = None THEN {None, CREATE_MODE} ELSE {seen[c]})
      BY <1>2, <3>1 DEF IInv, SeenMode, t
    <3>3. ModeAt(t)' = IF seen[c] = None THEN CREATE_MODE ELSE seen[c]
      BY <1>1, <1>2, <1>3 DEF ModeAt, t
    <3>4. ModeAt(t) \in (IF seen[d] = None THEN {None, CREATE_MODE} ELSE {seen[d]})
      BY <2>2, <2>5
    <3>5. ModeAt(req[d].target)' = ModeAt(t)'
      BY <1>2, <2>5 DEF t
    <3> QED
      BY <3>2, <3>3, <3>4, <3>5
  <2> QED
    BY <2>4, <2>5
<1>14. TempsAccounted'
  <2> SUFFICES ASSUME NEW m \in Temps, dir'[m] # None
               PROVE  m \in orphans \/ \E d \in Calls : Live(d)' /\ tmp[d] = m
    BY <1>2 DEF TempsAccounted, Live
  <2>1. m # n /\ m \in Names \ {t, n} /\ dir[m] # None
    BY <1>1, NoneApart DEF Names
  <2> QED
    BY <1>5, <2>1 DEF IInv, TempsAccounted, Live, n
<1> QED
  BY <1>6, <1>7, <1>8, <1>9, <1>10, <1>12, <1>13, <1>14 DEF IInv

LEMMA CleanupIInv ==
  ASSUME IInv, NEW c \in Calls, Cleanup(c)
  PROVE  IInv'
<1> DEFINE n == tmp[c]
<1>1. /\ pc[c] = "cleanup" /\ pc' = [pc EXCEPT ![c] = "failed"]
      /\ \/ dir' = [dir EXCEPT ![n] = None] /\ orphans' = orphans
         \/ dir' = dir /\ orphans' = orphans \cup {n}
      /\ UNCHANGED <<inode, ddir, disk, req, tmp, fd, pos, seen, stale, crashes, outside>>
  BY DEF Cleanup, Goto
<1>2. Live(c)
  BY <1>1 DEF Live, InTry
<1>3. /\ n \in Names /\ n \in Temps
      /\ \A u \in Targets : u # n
      /\ \A d \in Calls \ {c} : Live(d) => tmp[d] # n /\ tmp[d] \in Names
  BY <1>2, Apart
<1> HIDE DEF n
<1>4. TypeOK /\ dir \in [Names -> Inodes \cup {None}]
  BY DEF IInv, TypeOK
<1>5. /\ pc \in [Calls -> Labels] /\ pc'[c] = "failed"
      /\ \A d \in Calls \ {c} : pc'[d] = pc[d] /\ (Live(d)' <=> Live(d))
      /\ ~Live(c)'
  BY <1>1, <1>4 DEF TypeOK, Labels, Live, InTry, Awaits
<1>6. /\ dir' \in [Names -> Inodes \cup {None}]
      /\ \A m \in Names \ {n} : dir'[m] = dir[m]
      /\ dir'[n] \in {dir[n], None}
  BY <1>1, <1>3, <1>4
<1>7. TypeOK'
  BY <1>1, <1>3, <1>4, <1>6 DEF TypeOK
<1>8. Requested'
  BY <1>1, <1>5 DEF IInv, Requested
<1>9. OneName(dir)' /\ OneName(ddir)'
  BY <1>1, <1>6 DEF IInv, OneName
<1>10. Owns'
  BY <1>1, <1>3, <1>5, <1>6 DEF IInv, Owns
<1>11. Staged' /\ Synced' /\ TempMode'
  BY <1>1, <1>5 DEF IInv, Staged, Synced, TempMode
<1>12. \A u \in Targets : dir'[u] = dir[u]
  BY <1>3, <1>6 DEF Names
<1>13. Sound(dir)' /\ Sound(ddir)' /\ SeenMode'
  <2>1. Sound(dir)' /\ Sound(ddir)'
    BY <1>1, <1>12 DEF IInv, Sound
  <2>2. \A u \in Targets : ModeAt(u)' = ModeAt(u)
    BY <1>1, <1>12 DEF ModeAt
  <2>3. SeenMode'
    BY <1>1, <1>5, <2>2 DEF IInv, SeenMode, Requested
  <2> QED
    BY <2>1, <2>3
<1>14. TempsAccounted'
  <2> SUFFICES ASSUME NEW m \in Temps, dir'[m] # None
               PROVE  m \in orphans' \/ \E d \in Calls : Live(d)' /\ tmp[d] = m
    BY <1>1 DEF TempsAccounted, Live
  <2>1. m \in orphans \/ \E d \in Calls : Live(d) /\ tmp[d] = m
    <3>1. dir[m] # None
      BY <1>6 DEF Names
    <3> QED
      BY <3>1 DEF IInv, TempsAccounted, Live
  <2>2. m = n => m \in orphans'
    BY <1>1, <1>3, <1>4
  <2> QED
    BY <1>1, <1>5, <2>1, <2>2 DEF n
<1> QED
  BY <1>7, <1>8, <1>9, <1>10, <1>11, <1>13, <1>14 DEF IInv

\* Ending calls, whether by a reply or by a kill, with their temp files accounted for.
LEMMA EndCalls ==
  ASSUME IInv, NEW S \in SUBSET Calls,
         pc'   = [c \in Calls |-> IF c \in S THEN "idle" ELSE pc[c]],
         req'  = [c \in Calls |-> IF c \in S THEN NoReq ELSE req[c]],
         tmp'  = [c \in Calls |-> IF c \in S THEN None ELSE tmp[c]],
         fd'   = [c \in Calls |-> IF c \in S THEN None ELSE fd[c]],
         pos'  = [c \in Calls |-> IF c \in S THEN 0 ELSE pos[c]],
         seen' = [c \in Calls |-> IF c \in S THEN None ELSE seen[c]],
         stale' = stale \ S,
         orphans' \in SUBSET Temps, orphans \subseteq orphans',
         \A c \in S : Live(c) => tmp[c] \in orphans',
         crashes' \in 0..MaxCrashes,
         UNCHANGED <<fsVars, outside>>
  PROVE  IInv'
<1>1. \A c \in Calls :
        IF c \in S THEN pc'[c] = "idle" /\ pos'[c] = 0
        ELSE /\ pc'[c] = pc[c] /\ req'[c] = req[c] /\ tmp'[c] = tmp[c] /\ fd'[c] = fd[c]
             /\ pos'[c] = pos[c] /\ seen'[c] = seen[c]
             /\ c \notin stale' => c \notin stale
  OBVIOUS
<1>2. \A c \in Calls : Live(c)' => c \notin S /\ Live(c)
  BY <1>1 DEF Live, InTry, Awaits
<1>3. TypeOK'
  <2>1. TypeOK
    BY DEF IInv
  <2>2. pc' \in [Calls -> Labels] /\ req' \in [Calls -> [target : Targets, payload : Payloads] \cup {NoReq}]
    BY <2>1 DEF TypeOK, Labels
  <2>3. tmp' \in [Calls -> Temps \cup {None}] /\ fd' \in [Calls -> Inodes \cup {None}]
    BY <2>1 DEF TypeOK
  <2>4. pos' \in [Calls -> 0..Blocks] /\ seen' \in [Calls -> Modes \cup {None}]
    BY <2>1, NoneApart DEF TypeOK
  <2> QED
    BY <2>1, <2>2, <2>3, <2>4 DEF TypeOK, Labels, fsVars
<1>4. Requested'
  BY <1>1 DEF IInv, Requested
<1>5. OneName(dir)' /\ OneName(ddir)' /\ Sound(dir)' /\ Sound(ddir)'
  BY DEF IInv, OneName, Sound, fsVars
<1>6. Owns'
  BY <1>1, <1>2 DEF IInv, Owns, fsVars
<1>7. Staged'
  BY <1>1 DEF IInv, Staged, fsVars
<1>8. Synced' /\ TempMode' /\ SeenMode'
  BY <1>1 DEF IInv, Synced, TempMode, SeenMode, ModeAt, fsVars
<1>9. TempsAccounted'
  BY <1>1 DEF IInv, TempsAccounted, Live, fsVars
<1> QED
  BY <1>3, <1>4, <1>5, <1>6, <1>7, <1>8, <1>9 DEF IInv

LEMMA ReplyIInv ==
  ASSUME IInv, NEW c \in Calls, Reply(c)
  PROVE  IInv'
<1>1. ~Live(c)
  BY DEF Reply, Live, InTry, Awaits
<1>2. TypeOK
  BY DEF IInv
<1>3. /\ pc'   = [d \in Calls |-> IF d \in {c} THEN "idle" ELSE pc[d]]
      /\ req'  = [d \in Calls |-> IF d \in {c} THEN NoReq ELSE req[d]]
      /\ tmp'  = [d \in Calls |-> IF d \in {c} THEN None ELSE tmp[d]]
      /\ fd'   = [d \in Calls |-> IF d \in {c} THEN None ELSE fd[d]]
      /\ pos'  = [d \in Calls |-> IF d \in {c} THEN 0 ELSE pos[d]]
      /\ seen' = [d \in Calls |-> IF d \in {c} THEN None ELSE seen[d]]
  BY <1>2 DEF Reply, Goto, TypeOK
<1>4. /\ stale' = stale \ {c} /\ orphans' = orphans /\ crashes' = crashes
      /\ UNCHANGED <<fsVars, outside>>
  BY DEF Reply
<1> DEFINE S == {c}
<1>5. S \in SUBSET Calls /\ \A d \in S : ~Live(d)
  BY <1>1
<1>6. orphans' \in SUBSET Temps /\ orphans \subseteq orphans' /\ crashes' \in 0..MaxCrashes
  BY <1>2, <1>4 DEF TypeOK
<1> HIDE DEF S
<1> QED
  BY <1>3, <1>4, <1>5, <1>6, EndCalls DEF S

LEMMA KillIInv ==
  ASSUME IInv, NEW S \in SUBSET Calls, Kill(S)
  PROVE  IInv'
<1>1. TypeOK
  BY DEF IInv
<1>2. \A c \in S : Live(c) => tmp[c] \in Temps
  BY Apart
<1>3. /\ orphans' \in SUBSET Temps /\ orphans \subseteq orphans'
      /\ \A c \in S : Live(c) => tmp[c] \in orphans'
  BY <1>1, <1>2 DEF Kill, Live, TypeOK
<1>4. crashes' \in 0..MaxCrashes
  BY <1>1, ConstantsAssumption DEF Kill, Forget, TypeOK
<1>5. /\ pc'   = [c \in Calls |-> IF c \in S THEN "idle" ELSE pc[c]]
      /\ req'  = [c \in Calls |-> IF c \in S THEN NoReq ELSE req[c]]
      /\ tmp'  = [c \in Calls |-> IF c \in S THEN None ELSE tmp[c]]
      /\ fd'   = [c \in Calls |-> IF c \in S THEN None ELSE fd[c]]
      /\ pos'  = [c \in Calls |-> IF c \in S THEN 0 ELSE pos[c]]
      /\ seen' = [c \in Calls |-> IF c \in S THEN None ELSE seen[c]]
      /\ stale' = stale \ S
      /\ UNCHANGED <<fsVars, outside>>
  BY DEF Kill, Forget
<1> QED
  BY <1>3, <1>4, <1>5, EndCalls

LEMMA PowerLossIInv ==
  ASSUME IInv, PowerLoss
  PROVE  IInv'
<1>1. /\ TypeOK
      /\ dir' = ddir /\ inode' = disk /\ ddir' = ddir /\ disk' = disk /\ outside' = outside
      /\ orphans' = {n \in Temps : ddir[n] # None}
  BY DEF IInv, PowerLoss
<1>2. \A c \in Calls : pc'[c] = "idle" /\ pos'[c] = 0
  BY DEF PowerLoss, Forget
<1>3. TypeOK'
  <2>1. crashes' \in 0..MaxCrashes /\ stale' = {}
    BY <1>1, ConstantsAssumption DEF PowerLoss, Forget, TypeOK
  <2>2. pc' = [c \in Calls |-> "idle"] /\ req' = [c \in Calls |-> NoReq]
    BY DEF PowerLoss, Forget
  <2>3. /\ tmp' = [c \in Calls |-> None] /\ fd' = [c \in Calls |-> None]
        /\ pos' = [c \in Calls |-> 0] /\ seen' = [c \in Calls |-> None]
    BY DEF PowerLoss, Forget
  <2>4. 0 \in 0..Blocks
    BY NoneApart
  <2> QED
    BY <1>1, <2>1, <2>2, <2>3, <2>4 DEF TypeOK
<1>4. OneName(dir)' /\ OneName(ddir)'
  BY <1>1 DEF IInv, OneName
<1>5. Sound(dir)' /\ Sound(ddir)'
  BY <1>1 DEF IInv, Sound
<1>6. Requested' /\ Owns' /\ Staged' /\ Synced' /\ TempMode' /\ SeenMode'
  BY <1>2 DEF Requested, Owns, Staged, Synced, TempMode, SeenMode, Live, InTry, Awaits
<1>7. TempsAccounted'
  BY <1>1 DEF TempsAccounted
<1> QED
  BY <1>3, <1>4, <1>5, <1>6, <1>7 DEF IInv

--------------------------------------------------------------------------------
(* The kernel and other programs.                                          *)

LEMMA WriteBackInodeIInv ==
  ASSUME IInv, NEW i \in Inodes, WriteBackInode(i)
  PROVE  IInv'
<1>1. /\ TypeOK
      /\ disk' = [disk EXCEPT ![i] = inode[i]]
      /\ UNCHANGED <<dir, inode, ddir, callVars, histVars>>
  BY DEF IInv, WriteBackInode
<1>2. \A j \in Inodes : disk'[j] \in {disk[j], inode[j]}
  BY <1>1 DEF TypeOK
<1>3. TypeOK'
  <2>1. disk' \in [Inodes -> File]
    BY <1>1 DEF TypeOK
  <2> QED
    BY <1>1, <2>1 DEF TypeOK, callVars, histVars
<1>4. Sound(dir)' /\ Sound(ddir)'
  <2>1. \A t \in Targets : /\ dir[t] # None => dir[t] \in Inodes
                           /\ ddir[t] # None => ddir[t] \in Inodes
    BY <1>1 DEF TypeOK, Names
  <2> QED
    BY <1>1, <1>2, <2>1 DEF IInv, Sound, histVars
<1>5. Synced'
  <2>1. \A c \in Calls : pc[c] \in {"close", "rename"} => fd[c] \in Inodes
    BY Apart DEF Live, InTry, Awaits
  <2> QED
    BY <1>1, <1>2, <2>1 DEF IInv, Synced, callVars
<1>6. Requested' /\ OneName(dir)' /\ OneName(ddir)' /\ Owns' /\ TempsAccounted'
  BY <1>1 DEF IInv, Requested, OneName, Owns, TempsAccounted, Live, callVars, histVars
<1>7. Staged' /\ TempMode' /\ SeenMode'
  BY <1>1 DEF IInv, Staged, TempMode, SeenMode, ModeAt, callVars, histVars
<1> QED
  BY <1>3, <1>4, <1>5, <1>6, <1>7 DEF IInv

LEMMA WriteBackDirIInv ==
  ASSUME IInv, WriteBackDir
  PROVE  IInv'
<1>1. /\ TypeOK
      /\ ddir' = dir
      /\ UNCHANGED <<dir, inode, disk, callVars, histVars>>
  BY DEF IInv, WriteBackDir
<1>2. TypeOK'
  BY <1>1 DEF TypeOK, callVars, histVars
<1>3. OneName(dir)' /\ OneName(ddir)' /\ Sound(dir)' /\ Sound(ddir)'
  BY <1>1 DEF IInv, OneName, Sound, histVars
<1>4. Owns'
  <2>1. \A c \in Calls : Live(c) => \A t \in Targets : dir[t] # fd[c]
    BY Apart
  <2> QED
    BY <1>1, <2>1 DEF IInv, Owns, Live, callVars
<1>5. Requested' /\ Staged' /\ Synced' /\ TempsAccounted'
  BY <1>1 DEF IInv, Requested, Staged, Synced, TempsAccounted, callVars, histVars
<1>6. TempMode' /\ SeenMode'
  BY <1>1 DEF IInv, TempMode, SeenMode, ModeAt, callVars, histVars
<1> QED
  BY <1>2, <1>3, <1>4, <1>5, <1>6 DEF IInv

LEMMA OutsideChmodIInv ==
  ASSUME IInv, NEW t \in Targets, NEW m \in Modes, OutsideChmod(t, m)
  PROVE  IInv'
<1> DEFINE i == dir[t]
<1>1. /\ TypeOK
      /\ i # None
      /\ inode' = [inode EXCEPT ![i].mode = m]
      /\ stale' = stale \cup HoldsModeOf(t)
      /\ outside < MaxOutside /\ outside' = outside + 1
      /\ UNCHANGED <<dir, ddir, disk, callVars, orphans, crashes>>
  BY DEF IInv, OutsideChmod
<1>2. i \in Inodes /\ t \in Names /\ Targets \subseteq Names
  BY <1>1 DEF TypeOK, Names
<1>3. /\ \A j \in Inodes : inode'[j].data = inode[j].data
      /\ \A j \in Inodes \ {i} : inode'[j] = inode[j]
      /\ inode' \in [Inodes -> File]
  <2>1. inode \in [Inodes -> File]
    BY <1>1 DEF TypeOK
  <2>2. inode'[i].data = inode[i].data /\ inode'[i] \in File
    BY <1>1, <1>2, <2>1 DEF File
  <2>3. \A j \in Inodes \ {i} : inode'[j] = inode[j]
    BY <1>1, <2>1
  <2>4. inode' \in [Inodes -> File]
    BY <1>1, <2>1, <2>2, <2>3
  <2> QED
    BY <2>2, <2>3, <2>4
<1>4. \A c \in Calls : Live(c) => fd[c] \in Inodes \ {i}
  BY Apart
<1>5. \A u \in Targets \ {t} : dir[u] # i
  BY <1>1, <1>2 DEF IInv, OneName
<1> HIDE DEF i
<1>6. outside \in Nat /\ outside' # 0
  BY <1>1, ConstantsAssumption DEF TypeOK
<1>7. TypeOK'
  <2>1. stale' \in SUBSET Calls /\ outside' \in 0..MaxOutside
    BY <1>1, ConstantsAssumption DEF TypeOK, HoldsModeOf
  <2> QED
    BY <1>1, <1>3, <2>1 DEF TypeOK, callVars
<1>8. Requested' /\ OneName(dir)' /\ OneName(ddir)' /\ Owns' /\ TempsAccounted'
  BY <1>1 DEF IInv, Requested, OneName, Owns, TempsAccounted, Live, callVars
<1>9. Staged' /\ Synced' /\ TempMode'
  BY <1>1, <1>3, <1>4 DEF IInv, Staged, Synced, TempMode, Live, InTry, Awaits, callVars
<1>10. Sound(dir)' /\ Sound(ddir)'
  <2>1. \A u \in Targets : /\ dir[u] # None => dir[u] \in Inodes
                           /\ ddir[u] # None => ddir[u] \in Inodes
    BY <1>1, <1>2 DEF TypeOK
  <2> QED
    BY <1>1, <1>3, <1>6, <2>1 DEF IInv, Sound
<1>11. SeenMode'
  <2> SUFFICES ASSUME NEW d \in Calls,
                      pc[d] \in {"chmod", "sync", "close", "rename"}, d \notin stale'
               PROVE  ModeAt(req[d].target)' \in
                        (IF seen[d] = None THEN {None, CREATE_MODE} ELSE {seen[d]})
    BY <1>1 DEF SeenMode, ModeAt, callVars
  <2>1. req[d].target \in Targets \ {t} /\ d \notin stale
    BY <1>1 DEF IInv, Requested, HoldsModeOf
  <2>2. dir[req[d].target] # None => dir[req[d].target] \in Inodes \ {i}
    BY <1>1, <1>2, <1>5, <2>1 DEF TypeOK
  <2>3. ModeAt(req[d].target)' = ModeAt(req[d].target)
    BY <1>1, <1>3, <2>2 DEF ModeAt, callVars
  <2> QED
    BY <2>1, <2>3 DEF IInv, SeenMode
<1> QED
  BY <1>7, <1>8, <1>9, <1>10, <1>11 DEF IInv

LEMMA OutsideRemoveIInv ==
  ASSUME IInv, NEW t \in Targets, OutsideRemove(t)
  PROVE  IInv'
<1>1. /\ TypeOK
      /\ dir' = [dir EXCEPT ![t] = None]
      /\ stale' = stale \cup HoldsModeOf(t)
      /\ outside < MaxOutside /\ outside' = outside + 1
      /\ UNCHANGED <<inode, ddir, disk, callVars, orphans, crashes>>
  BY DEF IInv, OutsideRemove
<1>2. /\ t \in Names /\ Targets \subseteq Names /\ Temps \subseteq Names
      /\ dir'[t] = None
      /\ \A m \in Names \ {t} : dir'[m] = dir[m]
  BY <1>1 DEF TypeOK, Names
<1>3. \A c \in Calls : Live(c) => tmp[c] \in Names \ {t}
  BY Apart
<1>4. outside \in Nat /\ outside' # 0
  BY <1>1, ConstantsAssumption DEF TypeOK
<1>5. TypeOK'
  <2>1. stale' \in SUBSET Calls /\ outside' \in 0..MaxOutside
    BY <1>1, ConstantsAssumption DEF TypeOK, HoldsModeOf
  <2>2. dir' \in [Names -> Inodes \cup {None}]
    BY <1>1 DEF TypeOK
  <2> QED
    BY <1>1, <2>1, <2>2 DEF TypeOK, callVars
<1>6. OneName(dir)' /\ OneName(ddir)'
  BY <1>1, <1>2 DEF IInv, OneName
<1>7. Owns'
  <2>1. \A c \in Calls : Live(c) => dir'[tmp[c]] = dir[tmp[c]]
    BY <1>2, <1>3
  <2>2. UNCHANGED <<pc, tmp, fd, ddir>>
    BY <1>1 DEF callVars
  <2> QED
    BY <2>1, <2>2 DEF IInv, Owns, Live
<1>8. Requested' /\ Staged' /\ Synced' /\ TempMode'
  BY <1>1 DEF IInv, Requested, Staged, Synced, TempMode, callVars
<1>9. Sound(dir)' /\ Sound(ddir)'
  BY <1>1, <1>2, <1>4 DEF IInv, Sound
<1>10. SeenMode'
  <2> SUFFICES ASSUME NEW d \in Calls,
                      pc[d] \in {"chmod", "sync", "close", "rename"}, d \notin stale'
               PROVE  ModeAt(req[d].target)' \in
                        (IF seen[d] = None THEN {None, CREATE_MODE} ELSE {seen[d]})
    BY <1>1 DEF SeenMode, ModeAt, callVars
  <2>1. req[d].target \in Targets \ {t} /\ d \notin stale
    BY <1>1 DEF IInv, Requested, HoldsModeOf
  <2>2. ModeAt(req[d].target)' = ModeAt(req[d].target)
    BY <1>1, <1>2, <2>1 DEF ModeAt, callVars
  <2> QED
    BY <2>1, <2>2 DEF IInv, SeenMode
<1>11. TempsAccounted'
  <2>1. \A n \in Temps : dir'[n] # None => dir[n] # None
    BY <1>2, NoneApart
  <2> QED
    BY <1>1, <2>1 DEF IInv, TempsAccounted, callVars
<1> QED
  BY <1>5, <1>6, <1>7, <1>8, <1>9, <1>10, <1>11 DEF IInv

LEMMA StutterIInv ==
  ASSUME IInv, UNCHANGED vars
  PROVE  IInv'
<1>1. UNCHANGED <<fsVars, callVars, histVars>>
  BY DEF vars
<1>2. TypeOK'
  BY <1>1 DEF IInv, TypeOK, fsVars, callVars, histVars
<1>3. Requested' /\ OneName(dir)' /\ OneName(ddir)' /\ Owns' /\ TempsAccounted'
  BY <1>1 DEF IInv, Requested, OneName, Owns, TempsAccounted, Live, fsVars, callVars, histVars
<1>4. Staged' /\ Synced' /\ Sound(dir)' /\ Sound(ddir)'
  BY <1>1 DEF IInv, Staged, Synced, Sound, fsVars, callVars, histVars
<1>5. TempMode' /\ SeenMode'
  BY <1>1 DEF IInv, TempMode, SeenMode, ModeAt, fsVars, callVars, histVars
<1> QED
  BY <1>2, <1>3, <1>4, <1>5 DEF IInv

LEMMA StepIInv == IInv /\ [Next]_vars => IInv'
<1> SUFFICES ASSUME IInv, [Next]_vars PROVE IInv'
  OBVIOUS
<1>1. ASSUME NEW c \in Calls, CheckTarget(c) PROVE IInv'
  BY <1>1, JumpIInv DEF CheckTarget, Jump
<1>2. ASSUME NEW c \in Calls, CreateFails(c) PROVE IInv'
  BY <1>2, JumpIInv DEF CreateFails, Jump
<1>3. ASSUME NEW c \in Calls, CloseTemp(c) PROVE IInv'
  BY <1>3, JumpIInv DEF CloseTemp, Jump
<1>4. ASSUME NEW c \in Calls, TryThrows(c) PROVE IInv'
  BY <1>4, JumpIInv DEF TryThrows, Jump
<1>5. ASSUME NEW c \in Calls, Step(c) PROVE IInv'
  BY <1>1, <1>2, <1>3, <1>4, <1>5, CreateTempIInv, WriteDataIInv, ExistingModeIInv,
     ChmodTempIInv, SyncTempIInv, RenameTempIInv, CleanupIInv, ReplyIInv DEF Step
<1> QED
  BY <1>5, WriteFileIInv, KillIInv, PowerLossIInv, WriteBackInodeIInv, WriteBackDirIInv,
     OutsideChmodIInv, OutsideRemoveIInv, StutterIInv DEF Next

THEOREM Invariance == Spec => []IInv
BY InitIInv, StepIInv, PTL DEF Spec

--------------------------------------------------------------------------------
(* The safety properties.                                                  *)

\* Every variable of the write path keeps its type.
THEOREM TypeCorrect == Spec => []TypeOK
BY Invariance, PTL DEF IInv

\* No interleaving, failure, kill or power loss shows a reader a torn file.
THEOREM NeverTorn == Spec => []TargetsWhole
<1>1. IInv => TargetsWhole
  BY DEF IInv, Sound, TargetsWhole
<1> QED
  BY <1>1, Invariance, PTL

\* Nor does the disk hold one under a durable name, whatever the kernel writes
\* back and when: handle.sync() comes before the rename.
THEOREM NeverTornOnDisk == Spec => []DurableWhole
<1>1. IInv => DurableWhole
  BY DEF IInv, Sound, DurableWhole
<1> QED
  BY <1>1, Invariance, PTL

\* The mode on disk is the mode in memory: handle.chmod() comes before handle.sync().
THEOREM ModeOnDisk == Spec => []DurableMode
<1>1. IInv => DurableMode
  BY DEF IInv, Sound, DurableMode
<1> QED
  BY <1>1, Invariance, PTL

\* Two calls never hold one temp file.
THEOREM OwnTemps == Spec => []OwnTemp
<1>1. ASSUME IInv, NEW c \in Calls, NEW d \in Calls, Live(c), Live(d), c # d
      PROVE  tmp[c] # tmp[d] /\ dir[tmp[c]] # dir[tmp[d]]
  BY <1>1, Apart
<1>2. IInv => OwnTemp
  BY <1>1 DEF OwnTemp, Live
<1> QED
  BY <1>2, Invariance, PTL

\* Every temp file left in a directory is accounted for.
THEOREM NoStrayTemps == Spec => []TempsAccounted
BY Invariance, PTL DEF IInv

\* An overwrite keeps the mode of the file it replaces.
THEOREM KeepsMode == Spec => ModeKept
<1>1. ASSUME IInv, NEW c \in Calls, RenameTemp(c), c \notin stale,
             ModeAt(req[c].target) # None
      PROVE  ModeAt(req[c].target)' = ModeAt(req[c].target)
  <2>1. /\ inode[fd[c]].mode = IF seen[c] = None THEN CREATE_MODE ELSE seen[c]
        /\ dir'[req[c].target] = fd[c] /\ Live(c)
    BY <1>1, ReadyToRename
  <2>2. ModeAt(req[c].target) \in (IF seen[c] = None THEN {None, CREATE_MODE} ELSE {seen[c]})
    BY <1>1 DEF IInv, SeenMode, RenameTemp
  <2>3. inode' = inode /\ req' = req /\ fd[c] # None
    BY <1>1, <2>1, Apart DEF RenameTemp
  <2> QED
    BY <1>1, <2>1, <2>2, <2>3 DEF ModeAt
<1>2. IInv => \A c \in Calls :
                RenameTemp(c) /\ c \notin stale /\ ModeAt(req[c].target) # None =>
                  ModeAt(req[c].target)' = ModeAt(req[c].target)
  BY <1>1
<1> QED
  BY <1>2, Invariance, PTL DEF ModeKept

--------------------------------------------------------------------------------
(***************************************************************************)
(* Refinement: atomicWriteFile implements FileStore.  The rename is the    *)
(* commit, the write-back of the directory makes it durable, and every     *)
(* other step of a write is invisible to a reader.                         *)
(***************************************************************************)

(* What a step shows.                                                      *)

\* A step that leaves the targets and their data shows nothing to a reader.
LEMMA SameContent ==
  ASSUME \A t \in Targets : dir'[t] = dir[t],
         \A t \in Targets : dir[t] # None => inode'[dir[t]].data = inode[dir[t]].data
  PROVE  Content' = Content
<1>1. \A t \in Targets :
        (IF dir'[t] = None THEN None ELSE inode'[dir'[t]].data)
          = (IF dir[t] = None THEN None ELSE inode[dir[t]].data)
  OBVIOUS
<1> QED
  BY <1>1, Zenon DEF Content, DataAt

LEMMA SameStable ==
  ASSUME ddir' = ddir,
         \A t \in Targets : ddir[t] # None => disk'[ddir[t]].data = disk[ddir[t]].data
  PROVE  Stable' = Stable
<1>1. \A t \in Targets :
        (IF ddir'[t] = None THEN None ELSE disk'[ddir'[t]].data)
          = (IF ddir[t] = None THEN None ELSE disk[ddir[t]].data)
  OBVIOUS
<1> QED
  BY <1>1, Zenon DEF Stable, DataAt

\* A step of one call changes one entry.
LEMMA OneCall ==
  ASSUME NEW c \in Calls,
         \A d \in Calls \ {c} : pc'[d] = pc[d] /\ req'[d] = req[d]
  PROVE  Call' = [Call EXCEPT ![c] = CallOf(c)']
<1>1. \A d \in Calls \ {c} : CallOf(d)' = CallOf(d)
  BY DEF CallOf, Phase
<1>2. Call' = [d \in Calls |-> CallOf(d)']
  BY DEF Call
<1>3. \A d \in Calls : CallOf(d)' = IF d = c THEN CallOf(c)' ELSE Call[d]
  BY <1>1 DEF Call
<1> QED
  BY <1>2, <1>3 DEF Call

\* A step of one call that keeps its request changes its phase alone.
LEMMA OnePhase ==
  ASSUME NEW c \in Calls, req' = req,
         \A d \in Calls \ {c} : pc'[d] = pc[d]
  PROVE  Call' = [Call EXCEPT ![c].phase = Phase(c)']
<1>1. Call' = [Call EXCEPT ![c] = CallOf(c)']
  BY OneCall
<1>2. CallOf(c)' = [CallOf(c) EXCEPT !.phase = Phase(c)']
  BY DEF CallOf
<1> QED
  BY <1>1, <1>2 DEF Call

LEMMA SamePhase ==
  ASSUME NEW c \in Calls, req' = req,
         \A d \in Calls \ {c} : pc'[d] = pc[d], Phase(c)' = Phase(c)
  PROVE  Call' = Call
<1>1. \A d \in Calls : CallOf(d)' = CallOf(d)
  BY DEF CallOf, Phase
<1> QED
  BY <1>1 DEF Call

--------------------------------------------------------------------------------
(* Every step maps to a step of FileStore, or to a stutter.                *)

Seen == <<Content, Stable, Call>>

LEMMA JumpRefines ==
  ASSUME IInv, NEW c \in Calls, NEW from, NEW to, Jump(c, from, to),
         \/ pc[c] \in {"check", "create"} /\ to \in {"create", "failed"}
         \/ pc[c] = "close" /\ to = "rename"
         \/ pc[c] \in Awaits /\ to = "cleanup"
  PROVE  Store!Next \/ UNCHANGED Seen
<1>1. /\ pc \in [Calls -> Labels]
      /\ pc' = [pc EXCEPT ![c] = to]
      /\ UNCHANGED <<fsVars, req>>
  BY DEF IInv, TypeOK, Labels, Jump, Goto
<1>2. Content' = Content /\ Stable' = Stable
  BY <1>1, SameContent, SameStable DEF fsVars
<1>3. Phase(c) = "pending" /\ \A d \in Calls \ {c} : pc'[d] = pc[d]
  BY <1>1 DEF Phase, Awaits
<1>4. CASE to = "failed"
  <2>1. Phase(c)' = "failed"
    BY <1>1, <1>4 DEF Phase
  <2>2. Store!Fail(c)
    BY <1>1, <1>2, <1>3, <2>1, OnePhase DEF Store!Fail, Store!AtPhase, Store!Goto, Call, CallOf
  <2> QED
    BY <2>2 DEF Store!Next
<1>5. CASE to # "failed"
  <2>1. Phase(c)' = "pending"
    BY <1>1, <1>5 DEF Phase
  <2> QED
    BY <1>1, <1>2, <1>3, <2>1, SamePhase DEF Seen
<1> QED
  BY <1>4, <1>5

LEMMA WriteFileRefines ==
  ASSUME IInv, NEW c \in Calls, NEW t \in Targets, NEW p \in Payloads, writeFile(c, t, p)
  PROVE  Store!Next
<1> DEFINE to    == IF p \in Refused THEN "failed" ELSE "check"
           phase == IF p \in Refused THEN "failed" ELSE "pending"
<1>1. /\ pc \in [Calls -> Labels]
      /\ req \in [Calls -> [target : Targets, payload : Payloads] \cup {NoReq}]
      /\ pc[c] = "idle" /\ pc' = [pc EXCEPT ![c] = to]
      /\ req' = [req EXCEPT ![c] = [target |-> t, payload |-> p]]
      /\ UNCHANGED fsVars
  BY DEF IInv, TypeOK, Labels, writeFile, Goto
<1>2. Content' = Content /\ Stable' = Stable
  BY <1>1, SameContent, SameStable DEF fsVars
<1>3. Phase(c) = "idle" /\ Phase(c)' = phase
  BY <1>1 DEF Phase
<1>4. req'[c] = [target |-> t, payload |-> p] /\ req'[c] # NoReq
  BY <1>1, NoneApart DEF NoReq
<1>5. CallOf(c)' = [phase |-> phase, target |-> t, version |-> Whole(p)]
  <2>1. Whole(req[c].payload)' = Whole(p) /\ req'[c].target = t
    BY <1>4 DEF Whole
  <2> HIDE DEF phase
  <2> QED
    BY <1>3, <1>4, <2>1 DEF CallOf, NoReq
<1>6. Call' = [Call EXCEPT ![c] = [phase |-> phase, target |-> t, version |-> Whole(p)]]
  BY <1>1, <1>5, OneCall
<1>7. Store!Invoke(c, t, Whole(p))
  BY <1>2, <1>3, <1>6 DEF Store!Invoke, Store!AtPhase, Call, CallOf
<1>8. Whole(p) \in Versions
  BY DEF Versions
<1> QED
  BY <1>7, <1>8 DEF Store!Next

\* The steps that write the temp file are invisible: it is no target's file.
LEMMA OwnFileRefines ==
  ASSUME IInv, NEW c \in Calls, Live(c), NEW to \in Awaits,
         pc[c] \in Awaits, pc' = [pc EXCEPT ![c] = to],
         \A j \in Inodes \ {fd[c]} : inode'[j] = inode[j] /\ disk'[j] = disk[j],
         UNCHANGED <<dir, ddir, req>>
  PROVE  UNCHANGED Seen
<1>1. /\ pc \in [Calls -> Labels]
      /\ \A t \in Targets : /\ dir[t] # None => dir[t] \in Inodes \ {fd[c]}
                            /\ ddir[t] # None => ddir[t] \in Inodes \ {fd[c]}
  BY Apart DEF IInv, TypeOK, Labels, Names
<1>2. Content' = Content /\ Stable' = Stable
  BY <1>1, SameContent, SameStable
<1>3. Phase(c) = "pending" /\ Phase(c)' = "pending" /\ \A d \in Calls \ {c} : pc'[d] = pc[d]
  BY <1>1 DEF Phase, Awaits
<1> QED
  BY <1>2, <1>3, SamePhase DEF Seen

LEMMA CreateTempRefines ==
  ASSUME IInv, NEW c \in Calls, CreateTemp(c)
  PROVE  UNCHANGED Seen
<1>1. PICK n \in Temps, i \in Inodes : dir[n] = None /\ Free(i) /\ OpenTemp(c, n, i)
  BY DEF CreateTemp
<1>2. /\ pc \in [Calls -> Labels] /\ TypeOK
      /\ pc[c] = "create" /\ pc' = [pc EXCEPT ![c] = "write"]
      /\ inode' = [inode EXCEPT ![i] = EmptyFile] /\ disk' = [disk EXCEPT ![i] = EmptyFile]
      /\ dir' = [dir EXCEPT ![n] = i]
      /\ ddir' = ddir /\ req' = req
  BY <1>1 DEF IInv, TypeOK, Labels, OpenTemp, Goto
<1>3. \A t \in Targets : t \in Names /\ dir'[t] = dir[t]
  BY <1>2, NoneApart DEF TypeOK, Names
<1>4. \A t \in Targets : /\ dir[t] # None => inode'[dir[t]] = inode[dir[t]]
                         /\ ddir[t] # None => disk'[ddir[t]] = disk[ddir[t]]
  BY <1>1, <1>2, <1>3 DEF TypeOK, Free
<1>5. Content' = Content /\ Stable' = Stable
  BY <1>2, <1>3, <1>4, SameContent, SameStable
<1>6. Phase(c) = "pending" /\ Phase(c)' = "pending" /\ \A d \in Calls \ {c} : pc'[d] = pc[d]
  BY <1>2 DEF Phase
<1> QED
  BY <1>2, <1>5, <1>6, SamePhase DEF Seen

\* The rename is the commit.
LEMMA RenameTempRefines ==
  ASSUME IInv, NEW c \in Calls, RenameTemp(c)
  PROVE  Store!Commit(c)
<1> DEFINE t == req[c].target
           p == req[c].payload
<1>1. /\ Live(c) /\ t \in Targets /\ p \in Payloads
      /\ inode[fd[c]].data = Whole(p)
      /\ dir'[t] = fd[c]
      /\ \A m \in Names \ {t, tmp[c]} : dir'[m] = dir[m]
  BY ReadyToRename
<1>2. /\ pc \in [Calls -> Labels] /\ req \in [Calls -> [target : Targets, payload : Payloads] \cup {NoReq}]
      /\ pc[c] = "rename" /\ pc' = [pc EXCEPT ![c] = "renamed"]
      /\ inode' = inode /\ ddir' = ddir /\ disk' = disk /\ req' = req
  BY DEF IInv, TypeOK, Labels, RenameTemp, Goto
<1>3. /\ fd[c] # None
      /\ \A u \in Targets \ {t} : dir'[u] = dir[u]
  BY <1>1, Apart DEF Names
<1>4. Call[c].phase = "pending" /\ Call[c].target = t /\ Call[c].version = Whole(p)
  <2>1. req[c] # NoReq /\ Phase(c) = "pending"
    BY <1>1, <1>2, NoneApart DEF NoReq, Phase
  <2> QED
    BY <2>1 DEF Call, CallOf
<1>5. Call' = [Call EXCEPT ![c].phase = "committed"]
  <2>1. Phase(c)' = "committed" /\ \A d \in Calls \ {c} : pc'[d] = pc[d]
    BY <1>2 DEF Phase
  <2> QED
    BY <1>2, <2>1, OnePhase
<1> HIDE DEF t, p
<1>6. Content' = [Content EXCEPT ![t] = Whole(p)]
  <2>1. Content' = [u \in Targets |-> IF dir'[u] = None THEN None ELSE inode'[dir'[u]].data]
    BY DEF Content, DataAt
  <2>2. \A u \in Targets : Content'[u] = IF u = t THEN Whole(p) ELSE Content[u]
    <3>1. Content'[t] = Whole(p)
      BY <1>1, <1>2, <1>3, <2>1 DEF t, p
    <3>2. ASSUME NEW u \in Targets, u # t PROVE Content'[u] = Content[u]
      BY <1>2, <1>3, <2>1, <3>2 DEF Content, DataAt
    <3> QED
      BY <3>1, <3>2
  <2> QED
    BY <1>1, <2>1, <2>2 DEF Content, DataAt
<1>7. Stable' = Stable
  BY <1>2, SameStable
<1> QED
  BY <1>4, <1>5, <1>6, <1>7 DEF Store!Commit, Store!AtPhase, Store!Goto

LEMMA CleanupRefines ==
  ASSUME IInv, NEW c \in Calls, Cleanup(c)
  PROVE  Store!Fail(c)
<1>1. /\ pc \in [Calls -> Labels] /\ dir \in [Names -> Inodes \cup {None}]
      /\ pc[c] = "cleanup" /\ pc' = [pc EXCEPT ![c] = "failed"]
      /\ dir' = [dir EXCEPT ![tmp[c]] = None] \/ dir' = dir
      /\ inode' = inode /\ ddir' = ddir /\ disk' = disk /\ req' = req
  BY DEF IInv, TypeOK, Labels, Cleanup, Goto
<1>2. \A t \in Targets : t # tmp[c] /\ t \in Names
  BY <1>1, Apart DEF Live, InTry, Names
<1>3. \A t \in Targets : dir'[t] = dir[t]
  BY <1>1, <1>2
<1>4. Content' = Content /\ Stable' = Stable
  BY <1>1, <1>3, SameContent, SameStable
<1>5. Phase(c) = "pending" /\ Phase(c)' = "failed" /\ \A d \in Calls \ {c} : pc'[d] = pc[d]
  BY <1>1 DEF Phase
<1>6. Call' = [Call EXCEPT ![c].phase = "failed"]
  BY <1>1, <1>5, OnePhase
<1> QED
  BY <1>4, <1>5, <1>6 DEF Store!Fail, Store!AtPhase, Store!Goto, Call, CallOf

LEMMA IdleCall ==
  ASSUME NEW c \in Calls, pc[c] = "idle", req[c] = NoReq
  PROVE  CallOf(c) = Store!Idle
BY DEF CallOf, Phase, NoReq, Store!Idle

LEMMA ReplyRefines ==
  ASSUME IInv, NEW c \in Calls, Reply(c)
  PROVE  Store!Reply(c)
<1>1. /\ pc \in [Calls -> Labels]
      /\ req \in [Calls -> [target : Targets, payload : Payloads] \cup {NoReq}]
      /\ pc[c] \in {"renamed", "failed"} /\ pc' = [pc EXCEPT ![c] = "idle"]
      /\ req' = [req EXCEPT ![c] = NoReq]
      /\ UNCHANGED fsVars
  BY DEF IInv, TypeOK, Labels, Reply, Goto
<1>2. Content' = Content /\ Stable' = Stable
  BY <1>1, SameContent, SameStable DEF fsVars
<1>3. CallOf(c)' = Store!Idle
  BY <1>1 DEF CallOf, Phase, NoReq, Store!Idle
<1>4. Call' = [Call EXCEPT ![c] = Store!Idle]
  BY <1>1, <1>3, OneCall
<1>5. Phase(c) \in {"committed", "failed"}
  BY <1>1 DEF Phase
<1> QED
  BY <1>2, <1>4, <1>5 DEF Store!Reply, Call, CallOf

LEMMA ForgetRefines ==
  ASSUME NEW S \in SUBSET Calls, Forget(S)
  PROVE  Call' = [c \in Calls |-> IF c \in S THEN Store!Idle ELSE Call[c]]
<1>1. \A c \in Calls : CallOf(c)' = IF c \in S THEN Store!Idle ELSE Call[c]
  BY DEF Forget, CallOf, Call, Phase, NoReq, Store!Idle
<1> QED
  BY <1>1 DEF Call

LEMMA KillRefines ==
  ASSUME NEW S \in SUBSET Calls, Kill(S)
  PROVE  Store!Kill(S)
<1>1. Forget(S) /\ UNCHANGED fsVars
  BY DEF Kill
<1> QED
  BY <1>1, ForgetRefines, SameContent, SameStable DEF Store!Kill, fsVars

LEMMA PowerLossRefines ==
  ASSUME PowerLoss
  PROVE  Store!PowerLoss
<1>1. Forget(Calls) /\ dir' = ddir /\ inode' = disk /\ ddir' = ddir /\ disk' = disk
  BY DEF PowerLoss
<1>2. Content' = Stable /\ Stable' = Stable
  BY <1>1 DEF Content, Stable, DataAt
<1>3. Call' = [c \in Calls |-> Store!Idle]
  BY <1>1, ForgetRefines
<1> QED
  BY <1>2, <1>3 DEF Store!PowerLoss

\* What is written back early cannot be seen: the data of a durable name is on
\* disk already, and so is that of every name that becomes durable.
LEMMA WriteBackInodeRefines ==
  ASSUME IInv, NEW i \in Inodes, WriteBackInode(i)
  PROVE  UNCHANGED Seen
<1>1. /\ disk \in [Inodes -> File] /\ ddir \in [Names -> Inodes \cup {None}]
      /\ disk' = [disk EXCEPT ![i] = inode[i]]
      /\ UNCHANGED <<dir, inode, ddir, pc, req>>
  BY DEF IInv, TypeOK, WriteBackInode, callVars
<1>2. \A t \in Targets : ddir[t] # None => disk'[ddir[t]].data = disk[ddir[t]].data
  BY <1>1 DEF IInv, Sound, Names
<1>3. Content' = Content /\ Stable' = Stable
  BY <1>1, <1>2, SameContent, SameStable
<1>4. Call' = Call
  BY <1>1 DEF Call, CallOf, Phase
<1> QED
  BY <1>3, <1>4 DEF Seen

LEMMA WriteBackDirRefines ==
  ASSUME IInv, WriteBackDir
  PROVE  Store!Persist
<1>1. ddir' = dir /\ UNCHANGED <<dir, inode, disk, pc, req>>
  BY DEF WriteBackDir, callVars
<1>2. Content' = Content /\ Call' = Call
  BY <1>1, SameContent DEF Call, CallOf, Phase
<1>3. Stable' = Content
  <2>1. \A t \in Targets : dir[t] # None => disk[dir[t]].data = inode[dir[t]].data
    BY DEF IInv, Sound
  <2>2. Stable' = [t \in Targets |-> IF dir[t] = None THEN None ELSE disk[dir[t]].data]
    BY <1>1 DEF Stable, DataAt
  <2> QED
    BY <2>1, <2>2 DEF Content, DataAt
<1> QED
  BY <1>2, <1>3 DEF Store!Persist

LEMMA OutsideChmodRefines ==
  ASSUME IInv, NEW t \in Targets, NEW m \in Modes, OutsideChmod(t, m)
  PROVE  UNCHANGED Seen
<1>1. /\ inode \in [Inodes -> File] /\ dir \in [Names -> Inodes \cup {None}]
      /\ t \in Names /\ Targets \subseteq Names
      /\ inode' = [inode EXCEPT ![dir[t]].mode = m]
      /\ UNCHANGED <<dir, ddir, disk, pc, req>>
  BY DEF IInv, TypeOK, OutsideChmod, callVars, Names
<1>2. \A i \in Inodes : inode'[i].data = inode[i].data
  BY <1>1 DEF File
<1>3. Content' = Content /\ Stable' = Stable
  BY <1>1, <1>2, SameContent, SameStable
<1>4. Call' = Call
  BY <1>1 DEF Call, CallOf, Phase
<1> QED
  BY <1>3, <1>4 DEF Seen

LEMMA OutsideRemoveRefines ==
  ASSUME IInv, NEW t \in Targets, OutsideRemove(t)
  PROVE  Store!Remove(t)
<1>1. /\ dir \in [Names -> Inodes \cup {None}] /\ t \in Names /\ Targets \subseteq Names
      /\ dir' = [dir EXCEPT ![t] = None]
      /\ UNCHANGED <<inode, ddir, disk, pc, req>>
  BY DEF IInv, TypeOK, OutsideRemove, callVars, Names
<1>2. Content' = [Content EXCEPT ![t] = None]
  <2>1. Content' = [u \in Targets |-> IF dir'[u] = None THEN None ELSE inode[dir'[u]].data]
    BY <1>1 DEF Content, DataAt
  <2>2. \A u \in Targets : dir'[u] = IF u = t THEN None ELSE dir[u]
    BY <1>1
  <2> QED
    BY <2>1, <2>2 DEF Content, DataAt
<1>3. Stable' = Stable /\ Call' = Call
  BY <1>1, SameStable DEF Call, CallOf, Phase
<1> QED
  BY <1>2, <1>3 DEF Store!Remove

--------------------------------------------------------------------------------
LEMMA InitRefines == Init => Store!Init
<1> SUFFICES ASSUME Init PROVE Store!Init
  OBVIOUS
<1>1. ddir = dir /\ disk = inode
  BY DEF Init
<1>2. Content \in [Targets -> Versions \cup {None}]
  <2>1. \A t \in Targets : dir[t] \in Inodes \cup {None}
    BY DEF Init, Names
  <2>2. \A i \in Inodes : inode[i].data = Whole(Original)
    BY DEF Init
  <2>3. Whole(Original) \in Versions
    BY ConstantsAssumption DEF Versions
  <2> QED
    BY <2>1, <2>2, <2>3 DEF Content, DataAt
<1>3. Stable = Content
  BY <1>1 DEF Stable, Content
<1>4. \A c \in Calls : CallOf(c) = Store!Idle
  BY IdleCall DEF Init
<1>5. Call = [c \in Calls |-> Store!Idle]
  BY <1>4 DEF Call
<1> QED
  BY <1>2, <1>3, <1>5 DEF Store!Init

LEMMA CallStepRefines ==
  ASSUME IInv, NEW c \in Calls, Step(c)
  PROVE  Store!Next \/ UNCHANGED Seen
<1>1. CASE CheckTarget(c)
  BY <1>1, JumpRefines DEF CheckTarget, Jump
<1>2. CASE CreateFails(c)
  BY <1>2, JumpRefines DEF CreateFails, Jump
<1>3. CASE CloseTemp(c)
  BY <1>3, JumpRefines DEF CloseTemp, Jump
<1>4. CASE TryThrows(c)
  BY <1>4, JumpRefines DEF TryThrows, Jump
<1>5. CASE CreateTemp(c)
  BY <1>5, CreateTempRefines
<1>6. CASE WriteData(c) \/ existingMode(c) \/ ChmodTemp(c) \/ SyncTemp(c)
  <2>1. pc[c] \in Awaits /\ Live(c) /\ inode \in [Inodes -> File] /\ disk \in [Inodes -> File]
    BY <1>6 DEF WriteData, WriteBlock, existingMode, ChmodTemp, SyncTemp, Sync, Live, InTry,
       Awaits, IInv, TypeOK
  <2>2. \A j \in Inodes \ {fd[c]} : inode'[j] = inode[j] /\ disk'[j] = disk[j]
    BY <1>6, <2>1 DEF WriteData, WriteBlock, existingMode, ChmodTemp, SyncTemp, Sync, fsVars
  <2>3. UNCHANGED <<dir, ddir, req>>
    BY <1>6 DEF WriteData, WriteBlock, existingMode, ChmodTemp, SyncTemp, Sync, fsVars
  <2>4. PICK to \in Awaits : pc' = [pc EXCEPT ![c] = to]
    BY <1>6 DEF WriteData, WriteBlock, existingMode, ChmodTemp, SyncTemp, Sync, Goto, Awaits
  <2> QED
    BY <2>1, <2>2, <2>3, <2>4, OwnFileRefines
<1>7. CASE RenameTemp(c)
  BY <1>7, RenameTempRefines DEF Store!Next
<1>8. CASE Cleanup(c)
  BY <1>8, CleanupRefines DEF Store!Next
<1>9. CASE Reply(c)
  BY <1>9, ReplyRefines DEF Store!Next
<1> QED
  BY <1>1, <1>2, <1>3, <1>4, <1>5, <1>6, <1>7, <1>8, <1>9 DEF Step

LEMMA StepRefines == IInv /\ [Next]_vars => [Store!Next]_(Store!vars)
<1> SUFFICES ASSUME IInv, [Next]_vars PROVE Store!Next \/ UNCHANGED Seen
  BY DEF Store!vars, Seen
<1>1. CASE UNCHANGED vars
  BY <1>1 DEF vars, fsVars, callVars, Seen, Content, Stable, DataAt, Call, CallOf, Phase
<1>2. CASE \E c \in Calls, t \in Targets, p \in Payloads : writeFile(c, t, p)
  BY <1>2, WriteFileRefines
<1>3. CASE \E c \in Calls : Step(c)
  BY <1>3, CallStepRefines
<1>4. CASE \E S \in SUBSET Calls : Kill(S)
  BY <1>4, KillRefines DEF Store!Next
<1>5. CASE PowerLoss
  BY <1>5, PowerLossRefines DEF Store!Next
<1>6. CASE \E i \in Inodes : WriteBackInode(i)
  BY <1>6, WriteBackInodeRefines
<1>7. CASE WriteBackDir
  BY <1>7, WriteBackDirRefines DEF Store!Next
<1>8. CASE \E t \in Targets, m \in Modes : OutsideChmod(t, m)
  BY <1>8, OutsideChmodRefines
<1>9. CASE \E t \in Targets : OutsideRemove(t)
  BY <1>9, OutsideRemoveRefines DEF Store!Next
<1> QED
  BY <1>1, <1>2, <1>3, <1>4, <1>5, <1>6, <1>7, <1>8, <1>9 DEF Next

\* Whatever calls overlap, fail, die or lose power, a reader and a restart see
\* what FileStore promises: whole versions, replaced in one step, and nothing
\* changed by a call that reports failure.
THEOREM Refinement == Spec => ImplementsFileStore
<1>1. Spec => []IInv
  BY Invariance
<1>2. Spec => Store!Init /\ [][Store!Next]_(Store!vars)
  BY <1>1, InitRefines, StepRefines, PTL DEF Spec
<1> QED
  BY <1>2 DEF ImplementsFileStore, Store!Spec
================================================================================
