------------------------------ MODULE DemoLayout ------------------------------
(***************************************************************************)
(* tools/capture-demo.mjs: the stages of a run, and the one that deletes   *)
(* and rebuilds the demo's sandbox directory.  Every system call on that   *)
(* tree is a step: other programs change entries between two of them, a    *)
(* call may fail, and the run may be killed and started again.             *)
(*                                                                         *)
(* The walk and the removal take entries in any order; the code's order is *)
(* one of them.                                                            *)
(***************************************************************************)
EXTENDS Naturals, Sequences

CONSTANTS
  Root,        \* the sandbox root
  Files,       \* SANDBOX_FILES
  Dirs,        \* the directories between them and the root
  Others,      \* names under the root that are no part of the layout
  Parent,      \* Parent[p]: the directory of p
  Argvs,       \* command lines
  Dashed,      \* the words that start with "--"
  MaxRuns,     \* bound on runs
  MaxOutside   \* bound on the entries other programs change

Below == Files \cup Dirs \cup Others
Paths == Below \cup {Root}

ASSUME LayoutAssumption ==
  /\ Files \cap Dirs = {} /\ Others \cap (Files \cup Dirs) = {} /\ Root \notin Below
  /\ Parent \in [Below -> Dirs \cup {Root}]
  /\ \A d \in Dirs : Parent[d] = Root /\ \E f \in Files : Parent[f] = d
  /\ Argvs \subseteq Seq(STRING)
  /\ Dashed \cap {"-h", "2"} = {}
  /\ {"--pause-seconds", "--sandbox-root", "--launch-postgres", "--skip-sandbox-layout",
      "--skip-stage-1", "--skip-stage-2", "--skip-stage-3", "--help"} \subseteq Dashed
  /\ MaxRuns \in Nat /\ MaxOutside \in Nat

VARIABLES
  tree,       \* what each path holds
  argv, clean,
  pc,
  open,       \* directories the walk has still to read
  unseen,     \* entries it has still to look at
  left,       \* layout files still to write
  file,       \* the one being written
  exit,       \* how the last run ended
  built,      \* it wrote a layout
  dirty,      \* history: this run has changed the tree
  newcomers,  \* history: what other programs changed since the run began
  destroyed,  \* history: foreign entries, there since the run began, that are gone
  intruded,   \* history: something foreign was there at some time
  runs, outside

runVars  == <<argv, clean, open, unseen, left, file>>
history  == <<built, dirty, newcomers, destroyed, intruded, runs, outside>>
vars     == <<tree, runVars, pc, exit, history>>

\* A file holds the layout's content, a part of it, or something else.
Regular == {"ours", "torn", "file"}
Kinds   == Regular \cup {"none", "dir", "link"}

Children(t, d) == {p \in Below : Parent[p] = d /\ t[p] # "none"}

\* Every entry is in a directory.
Trees == {t \in [Paths -> Kinds] : \A p \in Below : t[p] # "none" => t[Parent[p]] = "dir"}

\* Mutant: a file has to hold the content too.
OwnedByContent(p, k) == (p \in Files /\ k = "ours") \/ (p \in Dirs \cup {Root} /\ k = "dir")

\* Ownership is by name and type.
Owned(p, k) == (p \in Files /\ k \in Regular) \/ (p \in Dirs \cup {Root} /\ k = "dir")

\* What a run must not touch.
Foreign(t) ==
  {p \in Files : t[p] \notin Regular \cup {"none"}}
    \cup {p \in Dirs \cup {Root} : t[p] \notin {"dir", "none"}}
    \cup {p \in Others : t[p] # "none"}

Layout == [p \in Paths |-> IF p \in Files THEN "ours" ELSE IF p \in Others THEN "none" ELSE "dir"]

Init ==
  /\ tree \in {t \in Trees : \A p \in Paths : t[p] \notin {"ours", "torn"}} \cup {Layout}
  /\ argv = <<>> /\ clean = TRUE
  /\ pc = "off" /\ exit = "none"
  /\ open = {} /\ unseen = {} /\ left = {} /\ file = Root
  /\ built = FALSE /\ dirty = FALSE
  /\ newcomers = {} /\ destroyed = {}
  /\ intruded = (Foreign(tree) # {})
  /\ runs = 0 /\ outside = 0

--------------------------------------------------------------------------------
(* The command line.                                                       *)

Valued   == {"--pause-seconds", "--sandbox-root"}
Switches == {"--launch-postgres", "--skip-sandbox-layout", "--skip-stage-1",
             "--skip-stage-2", "--skip-stage-3", "--help", "-h"}

\* Mutant: whatever follows a flag that takes a value is its value.
flagValueAny(v) == TRUE

\* A value may not start with "--", as every flag but -h does.
flagValue(v) == v \notin Dashed

\* What a switch sets: -h is short for --help.
Sets(w) == IF w = "-h" THEN "--help" ELSE w

\* What is set, with "error" when the line is refused.
parseArgs ==
  LET parse[i \in 1 .. Len(argv) + 2] ==
        IF i > Len(argv) THEN {}
        ELSE IF argv[i] \in Switches THEN {Sets(argv[i])} \cup parse[i + 1]
        ELSE IF /\ argv[i] \in Valued /\ i < Len(argv) /\ flagValue(argv[i + 1])
                /\ argv[i] = "--pause-seconds" => argv[i + 1] = "2"
             THEN parse[i + 2]
        ELSE {"error"}
  IN parse[1]

\* Bound: command lines of every kind only for a first run on a finished layout.
Start(a, c) ==
  /\ pc = "off" /\ runs < MaxRuns
  /\ a # <<>> => runs = 0 /\ tree = Layout
  /\ argv' = a /\ clean' = c
  /\ pc' = "parse" /\ exit' = "none"
  /\ runs' = runs + 1
  /\ built' = FALSE /\ dirty' = FALSE /\ newcomers' = {} /\ destroyed' = {}
  /\ UNCHANGED <<tree, open, unseen, left, file, intruded, outside>>

Exit(e) ==
  /\ pc' = "off" /\ exit' = e
  /\ open' = {} /\ unseen' = {} /\ left' = {}
  /\ UNCHANGED <<tree, argv, clean, file, history>>

Goto(l) == pc' = l /\ UNCHANGED <<tree, runVars, exit, history>>

main ==
  /\ pc = "parse"
  /\ IF "error" \in parseArgs THEN Exit("usage")
     ELSE IF "--help" \in parseArgs THEN Exit("ok")
     ELSE Goto(IF "--skip-stage-1" \in parseArgs THEN "stage2" ELSE "stage1")

\* The seed file and the pin of the fixture document.
Seeds == {"pinned", "drifted", "unpinned", "absent"}

\* The seed has to be the pinned one.  docker is asked for, and its failure
\* only told.
Stage1 ==
  pc = "stage1" /\ \E seed \in Seeds : IF seed = "pinned" THEN Goto("stage2") ELSE Exit("seed")

Stage2 ==
  /\ pc = "stage2"
  /\ IF {"--skip-stage-2", "--skip-sandbox-layout"} \cap parseArgs = {}
     THEN Goto("root") ELSE Goto("stage3")

Stage3 == pc = "stage3" /\ Exit("ok")

--------------------------------------------------------------------------------
(* findForeignEntry.                                                       *)

LstatRoot ==
  /\ pc = "root"
  /\ IF tree[Root] = "none" THEN Goto("clean")
     ELSE IF Owned(Root, tree[Root])
     THEN /\ pc' = "walk" /\ open' = {Root}
          /\ UNCHANGED <<tree, argv, clean, unseen, left, file, exit, history>>
     ELSE Exit("refused")

\* readdir of a directory that a link has replaced lists another one.
ReadDir(d) ==
  /\ pc = "walk" /\ d \in open
  /\ \/ /\ tree[d] \in {"dir", "link"}
        /\ open' = open \ {d}
        /\ unseen' = unseen \cup (IF tree[d] = "dir" THEN Children(tree, d) ELSE {})
        /\ UNCHANGED <<tree, argv, clean, left, file, pc, exit, history>>
     \/ tree[d] = "link" /\ Exit("refused")
     \/ tree[d] # "dir" /\ Exit("failed")

Lstat(p) ==
  /\ pc = "walk" /\ p \in unseen
  /\ IF tree[p] = "none" THEN Exit("failed")
     ELSE IF Owned(p, tree[p])
     THEN /\ unseen' = unseen \ {p}
          /\ open' = IF tree[p] = "dir" THEN open \cup {p} ELSE open
          /\ UNCHANGED <<tree, argv, clean, left, file, pc, exit, history>>
     ELSE Exit("refused")

\* Mutant: only the entries of the root are looked at.
WalkedShallow == pc = "walk" /\ Root \notin open /\ unseen = {} /\ Goto("clean")

Walked == pc = "walk" /\ open = {} /\ unseen = {} /\ Goto("clean")

--------------------------------------------------------------------------------
(* buildSandboxLayout, once nothing foreign was found.                     *)

Lost(S) == destroyed' = destroyed \cup ((S \cap Foreign(tree)) \ newcomers)

Clean == pc = "clean" /\ Goto(IF clean /\ tree[Root] # "none" THEN "rm" ELSE "mkroot")

\* rmSync takes whatever it finds; a link is removed and not followed.
RemoveEntry(p) ==
  /\ pc = "rm"
  /\ tree[p] # "none"
  /\ tree[p] = "dir" => \A q \in Below : Parent[q] = p => tree[q] = "none"
  /\ tree' = [tree EXCEPT ![p] = "none"]
  /\ Lost({p})
  /\ dirty' = TRUE
  /\ pc' = IF p = Root THEN "mkroot" ELSE "rm"
  /\ UNCHANGED <<runVars, exit, built, newcomers, intruded, runs, outside>>

Gone == pc = "rm" /\ tree[Root] = "none" /\ Goto("mkroot")

\* mkdirSync, recursive: a link to a directory will do.
MakeRoot ==
  /\ pc = "mkroot"
  /\ tree[Root] \in {"none", "dir", "link"}
  /\ tree' = IF tree[Root] = "none" THEN [tree EXCEPT ![Root] = "dir"] ELSE tree
  /\ left' = Files
  /\ dirty' = TRUE
  /\ pc' = "file"
  /\ UNCHANGED <<argv, clean, open, unseen, file, exit,
                 built, newcomers, destroyed, intruded, runs, outside>>

MakeParent(f) ==
  LET t == IF tree[Root] = "none" THEN [tree EXCEPT ![Root] = "dir"] ELSE tree
  IN /\ pc = "file" /\ f \in left
     /\ t[Root] \in {"dir", "link"} /\ t[Parent[f]] \in {"none", "dir", "link"}
     /\ tree' = IF t[Root] = "dir" /\ t[Parent[f]] = "none" THEN [t EXCEPT ![Parent[f]] = "dir"] ELSE t
     /\ file' = f
     /\ pc' = "open"
     /\ UNCHANGED <<argv, clean, open, unseen, left, exit, history>>

\* writeFileSync opens with O_TRUNC, which goes through any link on the way.
OpenFile ==
  LET links == {p \in {Root, Parent[file], file} : tree[p] = "link"}
  IN /\ pc = "open"
     /\ \A p \in {Root, Parent[file]} : tree[p] = "dir" \/ links # {}
     /\ tree[file] # "dir"
     /\ tree' = IF links = {} THEN [tree EXCEPT ![file] = "torn"] ELSE tree
     /\ Lost(links)
     /\ pc' = "data"
     /\ UNCHANGED <<runVars, exit, built, dirty, newcomers, intruded, runs, outside>>

WriteData ==
  /\ pc = "data"
  /\ tree' = IF tree[file] = "torn" THEN [tree EXCEPT ![file] = "ours"] ELSE tree
  /\ left' = left \ {file}
  /\ pc' = IF left = {file} THEN "stage3" ELSE "file"
  /\ built' = (left = {file})
  /\ UNCHANGED <<argv, clean, open, unseen, file, exit,
                 dirty, newcomers, destroyed, intruded, runs, outside>>

\* A system call of the rebuild throws, at whatever point.
Throws == pc \in {"root", "walk", "rm", "mkroot", "file", "open", "data"} /\ Exit("failed")

Kill == pc # "off" /\ Exit("killed")

--------------------------------------------------------------------------------
\* Another program puts an entry in place of another; what was below is gone.
\* Bound: during a run; what happens before one is another tree to begin with.
Outside(p, k) ==
  LET under == IF p = Root THEN Below ELSE {q \in Below : Parent[q] = p}
  IN /\ outside < MaxOutside
     /\ pc # "off" /\ argv = <<>>
     /\ k # tree[p]
     /\ p # Root => tree[Parent[p]] = "dir"
     /\ tree' = [q \in Paths |-> IF q = p THEN k ELSE IF q \in under THEN "none" ELSE tree[q]]
     /\ newcomers' = newcomers \cup {p}
     /\ intruded' = (intruded \/ Foreign(tree') # {})
     /\ outside' = outside + 1
     /\ UNCHANGED <<runVars, pc, exit, built, dirty, destroyed, runs>>

Next ==
  \/ \E a \in Argvs, c \in BOOLEAN : Start(a, c)
  \/ main \/ Stage1 \/ Stage2 \/ Stage3
  \/ LstatRoot \/ Walked \/ \E p \in Paths : ReadDir(p) \/ Lstat(p) \/ RemoveEntry(p)
  \/ Clean \/ Gone \/ MakeRoot \/ \E f \in Files : MakeParent(f)
  \/ OpenFile \/ WriteData \/ Throws \/ Kill
  \/ \E p \in Paths, k \in {"none", "file", "dir", "link"} : Outside(p, k)

Spec == Init /\ [][Next]_vars

--------------------------------------------------------------------------------
(* Properties.                                                             *)

\* A run neither removes nor writes through anything that is no part of the
\* layout and was there when the run began, wherever in the tree it is and
\* whatever other programs do meanwhile (#202).
Spared == destroyed = {}

\* Whatever a killed or failed run leaves behind, the next one takes for its own:
\* a run is refused only if something foreign has been there, and one that ends
\* well has left the layout, whole and alone, unless other programs changed it
\* meanwhile.
LayoutTrue ==
  /\ ~intruded => exit # "refused"
  /\ exit = "ok" /\ built /\ newcomers = {} => tree = Layout

\* A run that is refused has changed nothing on disk, and neither has one whose
\* command line says to skip the layout anywhere, or asks for help: no other flag
\* takes the switch for its value (#202), but --sandbox-root, which takes -h.
Harmless ==
  dirty =>
    /\ exit \notin {"usage", "seed", "refused"}
    /\ \A k \in DOMAIN argv :
         /\ argv[k] \notin {"--help", "--skip-sandbox-layout", "--skip-stage-2"}
         /\ argv[k] = "-h" => k > 1 /\ argv[k - 1] = "--sandbox-root"
================================================================================
