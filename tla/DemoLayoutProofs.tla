--------------------------- MODULE DemoLayoutProofs -----------------------------
(***************************************************************************)
(* What a run of capture-demo.mjs does to the sandbox directory, for every *)
(* layout, every command line, any number of runs and any changes by other *)
(* programs.                                                               *)
(***************************************************************************)
EXTENDS DemoLayout, WellFoundedInduction, TLAPS

Rebuild == {"clean", "rm", "mkroot", "file", "open", "data"}
Stages  == {"stage1", "stage2", "stage3"}

TypeOK ==
  /\ tree \in Trees /\ newcomers \subseteq Paths /\ argv \in Seq(STRING)
  /\ open \subseteq Dirs \cup {Root} /\ unseen \subseteq Below /\ left \subseteq Files
  /\ pc \in {"open", "data"} => file \in left
  /\ pc \in {"off", "parse", "root", "walk"} \cup Stages \cup Rebuild

\* What the walk has still to come to.
Ahead(p) ==
  \/ p \in unseen
  \/ Parent[p] \in unseen \cup open
  \/ Parent[p] \in Dirs /\ Root \in open

\* While it walks, no foreign entry is behind it but those of newcomers; and when
\* the rebuild begins there are no others.
Searched ==
  /\ pc = "walk" => \A p \in Foreign(tree) \ newcomers : p \in Below /\ Ahead(p)
  /\ pc \in Rebuild => Foreign(tree) \subseteq newcomers

\* What is written stays written, unless others change it.
Written ==
  newcomers = {} =>
    /\ pc \in {"file", "open", "data"} =>
         tree[Root] = "dir" /\ \A f \in Files \ left : tree[f] = "ours"
    /\ pc = "data" => tree[file] = "torn"
    /\ built => tree = Layout

\* Nothing is changed before the rebuild, and the rebuild is what the command
\* line asked for.
Asked ==
  /\ dirty => pc \in Rebuild \cup {"stage3", "off"}
  /\ pc \in {"file", "open", "data"} => dirty
  /\ built => dirty /\ pc \in {"stage3", "off"}
  /\ pc # "off" => exit = "none"
  /\ dirty => exit \notin {"usage", "seed", "refused"}
  /\ pc \in {"root", "walk"} \cup Stages \cup Rebuild => {"error", "--help"} \cap parseArgs = {}
  /\ pc \in {"root", "walk"} \cup Rebuild \/ dirty =>
       {"error", "--help", "--skip-stage-2", "--skip-sandbox-layout"} \cap parseArgs = {}

\* A refusal tells of something foreign.
Seen ==
  /\ Foreign(tree) # {} => intruded
  /\ exit = "refused" => intruded

IInv == TypeOK /\ Searched /\ Written /\ Asked /\ Seen /\ Spared

--------------------------------------------------------------------------------
(* Trees.                                                                  *)

LEMMA PathFacts ==
  /\ Files \cap Dirs = {} /\ Others \cap (Files \cup Dirs) = {} /\ Root \notin Below
  /\ Root \in Paths /\ Below \subseteq Paths /\ Files \subseteq Below /\ Dirs \subseteq Below
  /\ Others \subseteq Below /\ Below = Files \cup Dirs \cup Others
  /\ \A p \in Below : Parent[p] \in Dirs \cup {Root}
  /\ \A d \in Dirs : Parent[d] = Root /\ \E f \in Files : Parent[f] = d
BY LayoutAssumption DEF Paths, Below

LEMMA TreeFacts ==
  ASSUME NEW t \in Trees
  PROVE  /\ t \in [Paths -> Kinds]
         /\ \A p \in Below : t[p] # "none" => t[Parent[p]] = "dir"
BY DEF Trees

\* What is at a path of the layout is the layout's, nothing, or foreign.
LEMMA ForeignFacts ==
  ASSUME NEW t \in Trees, NEW p \in Paths
  PROVE  p \in Foreign(t) <=> t[p] # "none" /\ ~Owned(p, t[p])
BY PathFacts, TreeFacts DEF Foreign, Owned, Paths, Regular

\* An entry in a directory that is there, with nothing below it unless it is one.
LEMMA PutEntry ==
  ASSUME NEW t \in Trees, NEW p \in Paths, NEW k \in Kinds,
         k # "none" /\ p \in Below => t[Parent[p]] = "dir",
         k # "dir" => \A q \in Below : Parent[q] = p => t[q] = "none"
  PROVE  /\ [t EXCEPT ![p] = k] \in Trees
         /\ [t EXCEPT ![p] = k][p] = k
         /\ \A q \in Paths \ {p} : [t EXCEPT ![p] = k][q] = t[q]
<1> DEFINE u == [t EXCEPT ![p] = k]
<1>1. /\ u \in [Paths -> Kinds] /\ u[p] = k /\ \A q \in Paths \ {p} : u[q] = t[q]
  BY TreeFacts
<1> HIDE DEF u
<1>2. ASSUME NEW q \in Below, u[q] # "none" PROVE u[Parent[q]] = "dir"
  <2>1. q \in Paths /\ Parent[q] \in Paths
    BY PathFacts
  <2>2. Parent[q] # q
    BY PathFacts
  <2>3. CASE q = p
    BY <1>1, <1>2, <2>1, <2>2, <2>3
  <2>4. CASE q # p
    <3>1. t[q] # "none" /\ t[Parent[q]] = "dir"
      BY <1>1, <1>2, <2>1, <2>4, TreeFacts
    <3>2. Parent[q] = p => k = "dir"
      BY <3>1
    <3> QED
      BY <1>1, <2>1, <3>1, <3>2
  <2> QED
    BY <2>3, <2>4
<1>3. u \in Trees
  BY <1>1, <1>2 DEF Trees
<1> QED
  BY <1>1, <1>3 DEF u

\* Nothing foreign comes of what the layout owns, or of what is removed.
LEMMA PutOwned ==
  ASSUME NEW t \in Trees, NEW p \in Paths, NEW k \in Kinds, [t EXCEPT ![p] = k] \in Trees,
         k = "none" \/ Owned(p, k)
  PROVE  Foreign([t EXCEPT ![p] = k]) \subseteq Foreign(t)
<1> DEFINE u == [t EXCEPT ![p] = k]
<1>1. u \in Trees /\ u[p] = k /\ \A q \in Paths \ {p} : u[q] = t[q]
  BY TreeFacts
<1> HIDE DEF u
<1>2. Foreign(u) \subseteq Paths
  BY PathFacts DEF Foreign, Paths, Below
<1> QED
  BY <1>1, <1>2, ForeignFacts DEF u

--------------------------------------------------------------------------------
(* The steps.                                                              *)

LEMMA InitInv == Init => IInv
<1> SUFFICES ASSUME Init PROVE IInv
  OBVIOUS
<1>1. /\ argv = <<>> /\ pc = "off" /\ exit = "none" /\ open = {} /\ unseen = {} /\ left = {}
      /\ built = FALSE /\ dirty = FALSE /\ newcomers = {} /\ destroyed = {}
      /\ intruded = (Foreign(tree) # {})
  BY DEF Init
<1>2. tree \in Trees
  <2>1. Layout \in Trees
    <3>1. \A p \in Paths : Layout[p] \in Kinds
      BY DEF Layout, Kinds, Regular
    <3>2. \A p \in Below : Layout[Parent[p]] = "dir"
      BY PathFacts DEF Layout
    <3> QED
      BY <3>1, <3>2 DEF Layout, Trees
  <2> QED
    BY <2>1 DEF Init
<1>3. TypeOK
  BY <1>1, <1>2 DEF TypeOK
<1>4. Searched /\ Written
  BY <1>1 DEF Searched, Written, Rebuild
<1>5. Asked /\ Seen /\ Spared
  BY <1>1 DEF Asked, Seen, Spared, Rebuild, Stages
<1> QED
  BY <1>3, <1>4, <1>5 DEF IInv

LEMMA StartInv ==
  ASSUME IInv, NEW a \in Argvs, NEW c \in BOOLEAN, Start(a, c) PROVE IInv'
<1>1. /\ pc' = "parse" /\ exit' = "none" /\ argv' = a
      /\ built' = FALSE /\ dirty' = FALSE /\ newcomers' = {} /\ destroyed' = {}
      /\ UNCHANGED <<tree, open, unseen, left, file, intruded>>
  BY DEF Start
<1>2. TypeOK'
  BY <1>1, LayoutAssumption DEF IInv, TypeOK
<1>3. Foreign(tree)' = Foreign(tree)
  BY <1>1 DEF Foreign
<1>4. Searched' /\ Written'
  BY <1>1 DEF Searched, Written, Rebuild
<1>5. Asked' /\ Seen' /\ Spared'
  BY <1>1, <1>3 DEF IInv, Asked, Seen, Spared, Rebuild, Stages
<1> QED
  BY <1>2, <1>4, <1>5 DEF IInv

\* A run may end anywhere, but a refusal changes nothing and has a reason.
LEMMA ExitInv ==
  ASSUME IInv, NEW e, Exit(e),
         e \in {"usage", "seed", "refused"} => ~dirty,
         e = "refused" => Foreign(tree) # {},
         built => pc = "stage3"
  PROVE  IInv'
<1>1. /\ pc' = "off" /\ exit' = e /\ open' = {} /\ unseen' = {} /\ left' = {}
      /\ UNCHANGED <<tree, argv, file, built, dirty, newcomers, destroyed, intruded>>
  BY DEF Exit, history
<1>2. TypeOK'
  BY <1>1 DEF IInv, TypeOK
<1>3. Foreign(tree)' = Foreign(tree) /\ parseArgs' = parseArgs /\ Layout' = Layout
  BY <1>1 DEF Foreign, parseArgs, Layout
<1>4. Searched'
  BY <1>1 DEF Searched, Rebuild
<1>5. Written'
  BY <1>1, <1>3 DEF IInv, Written
<1>6. Asked'
  BY <1>1, <1>3 DEF IInv, Asked, Rebuild, Stages
<1>7. Seen' /\ Spared'
  BY <1>1, <1>3 DEF IInv, Seen, Spared
<1> QED
  BY <1>2, <1>4, <1>5, <1>6, <1>7 DEF IInv

\* From one stage to the next.
LEMMA GotoInv ==
  ASSUME IInv, NEW l \in {"stage1", "stage2", "stage3", "root", "clean", "rm", "mkroot"}, Goto(l),
         pc # "off", built => l = "stage3",
         dirty => l \in {"clean", "rm", "mkroot", "stage3"},
         {"error", "--help"} \cap parseArgs = {},
         l \in {"root", "clean", "rm", "mkroot"} =>
           {"error", "--help", "--skip-stage-2", "--skip-sandbox-layout"} \cap parseArgs = {},
         l \in {"clean", "rm", "mkroot"} => Foreign(tree) \subseteq newcomers
  PROVE  IInv'
<1>1. /\ pc' = l
      /\ UNCHANGED <<tree, argv, clean, open, unseen, left, file, exit, built, dirty, newcomers,
                     destroyed, intruded>>
  BY DEF Goto, runVars, history
<1>2. TypeOK'
  BY <1>1 DEF IInv, TypeOK, Rebuild, Stages
<1>3. Foreign(tree)' = Foreign(tree) /\ parseArgs' = parseArgs /\ Layout' = Layout
  BY <1>1 DEF Foreign, parseArgs, Layout
<1>4. Searched'
  BY <1>1, <1>3 DEF Searched, Rebuild
<1>5. Written'
  BY <1>1, <1>3 DEF IInv, Written
<1>6. Asked'
  BY <1>1, <1>3 DEF IInv, Asked, Rebuild, Stages
<1>7. Seen' /\ Spared'
  BY <1>1, <1>3 DEF IInv, Seen, Spared
<1> QED
  BY <1>2, <1>4, <1>5, <1>6, <1>7 DEF IInv

LEMMA mainInv == ASSUME IInv, main PROVE IInv'
<1>1. pc = "parse" /\ ~dirty /\ ~built
  BY DEF main, IInv, Asked, Rebuild
<1>2. CASE "error" \in parseArgs
  BY <1>1, <1>2, ExitInv DEF main
<1>3. CASE "error" \notin parseArgs /\ "--help" \in parseArgs
  BY <1>1, <1>3, ExitInv DEF main
<1>4. CASE "error" \notin parseArgs /\ "--help" \notin parseArgs
  <2>1. {"error", "--help"} \cap parseArgs = {}
    BY <1>4
  <2>2. Goto("stage2") \/ Goto("stage1")
    BY <1>4 DEF main
  <2> QED
    BY <1>1, <2>1, <2>2, GotoInv
<1> QED
  BY <1>2, <1>3, <1>4

LEMMA StageInv == ASSUME IInv, Stage1 \/ Stage2 \/ Stage3 PROVE IInv'
<1>1. {"error", "--help"} \cap parseArgs = {}
  BY DEF Stage1, Stage2, Stage3, IInv, Asked, Stages
<1>2. CASE Stage1
  <2>1. pc = "stage1" /\ ~dirty /\ ~built
    BY <1>2 DEF Stage1, IInv, Asked, Rebuild
  <2>2. Goto("stage2") \/ Exit("seed")
    BY <1>2 DEF Stage1
  <2> QED
    BY <1>1, <2>1, <2>2, GotoInv, ExitInv
<1>3. CASE Stage2
  <2>1. pc = "stage2" /\ ~dirty /\ ~built
    BY <1>3 DEF Stage2, IInv, Asked, Rebuild
  <2>2. CASE {"--skip-stage-2", "--skip-sandbox-layout"} \cap parseArgs = {}
    <3>1. Goto("root")
      BY <1>3, <2>2 DEF Stage2
    <3>2. {"error", "--help", "--skip-stage-2", "--skip-sandbox-layout"} \cap parseArgs = {}
      BY <1>1, <2>2
    <3> QED
      BY <1>1, <2>1, <3>1, <3>2, GotoInv
  <2>3. CASE {"--skip-stage-2", "--skip-sandbox-layout"} \cap parseArgs # {}
    <3>1. Goto("stage3")
      BY <1>3, <2>3 DEF Stage2
    <3> QED
      BY <1>1, <2>1, <3>1, GotoInv
  <2> QED
    BY <2>2, <2>3
<1>4. CASE Stage3
  BY <1>4, ExitInv DEF Stage3
<1> QED
  BY <1>2, <1>3, <1>4

--------------------------------------------------------------------------------
(* The search.                                                             *)

\* A step of the search changes what is still to be looked at, and nothing else.
LEMMA WalkStepInv ==
  ASSUME IInv, pc \in {"root", "walk"}, pc' = "walk",
         UNCHANGED <<tree, argv, clean, left, file, exit, history>>,
         open' \subseteq Dirs \cup {Root}, unseen' \subseteq Below,
         \A p \in Foreign(tree) \ newcomers : p \in Below /\ Ahead(p)'
  PROVE  IInv'
<1>1. UNCHANGED <<tree, argv, left, file, exit, built, dirty, newcomers, destroyed, intruded>>
  BY DEF history
<1>2. TypeOK'
  BY <1>1 DEF IInv, TypeOK
<1>3. Foreign(tree)' = Foreign(tree) /\ parseArgs' = parseArgs /\ Layout' = Layout
  BY <1>1 DEF Foreign, parseArgs, Layout
<1>4. Searched'
  <2>1. \A p \in Foreign(tree)' \ newcomers' : p \in Below /\ Ahead(p)'
    BY <1>1, <1>3
  <2> QED
    BY <2>1 DEF Searched, Rebuild
<1>5. ~dirty /\ ~built
  BY DEF IInv, Asked, Rebuild
<1>6. Written'
  BY <1>1, <1>5 DEF Written
<1>7. Asked'
  BY <1>1, <1>3, <1>5 DEF IInv, Asked, Rebuild, Stages
<1>8. Seen' /\ Spared'
  BY <1>1, <1>3 DEF IInv, Seen, Spared
<1> QED
  BY <1>2, <1>4, <1>6, <1>7, <1>8 DEF IInv

\* What has something in it is a directory, and so is what that is in.
LEMMA Within ==
  ASSUME NEW t \in Trees, NEW p \in Below, t[p] # "none"
  PROVE  /\ t[Parent[p]] = "dir"
         /\ Parent[p] \in Dirs => t[Root] = "dir"
BY PathFacts, TreeFacts

LEMMA ForeignBelow ==
  ASSUME NEW t \in Trees, NEW p \in Foreign(t)
  PROVE  p \in Paths /\ t[p] # "none" /\ ~Owned(p, t[p]) /\ (p # Root => p \in Below)
BY PathFacts, ForeignFacts DEF Foreign, Paths, Below

LEMMA LstatRootInv == ASSUME IInv, LstatRoot PROVE IInv'
<1>1. /\ pc = "root" /\ ~dirty /\ ~built /\ tree \in Trees
      /\ {"error", "--help", "--skip-stage-2", "--skip-sandbox-layout"} \cap parseArgs = {}
  BY DEF LstatRoot, IInv, Asked, TypeOK, Rebuild
<1>2. {"error", "--help"} \cap parseArgs = {}
  BY <1>1
<1>3. CASE tree[Root] = "none"
  <2>1. Goto("clean")
    BY <1>3 DEF LstatRoot
  <2>2. Foreign(tree) = {}
    <3> SUFFICES ASSUME NEW p \in Foreign(tree) PROVE FALSE
      OBVIOUS
    <3>1. p \in Below /\ tree[p] # "none"
      BY <1>1, <1>3, ForeignBelow
    <3> QED
      BY <1>1, <1>3, <3>1, Within, PathFacts
  <2> QED
    BY <1>1, <1>2, <2>1, <2>2, GotoInv
<1>4. CASE tree[Root] # "none" /\ Owned(Root, tree[Root])
  <2>1. /\ pc' = "walk" /\ open' = {Root}
        /\ UNCHANGED <<tree, argv, clean, unseen, left, file, exit, history>>
    BY <1>4 DEF LstatRoot
  <2>2. unseen \subseteq Below
    BY DEF IInv, TypeOK
  <2>3. ASSUME NEW p \in Foreign(tree) \ newcomers PROVE p \in Below /\ Ahead(p)'
    <3>1. p \in Below
      BY <1>1, <1>4, ForeignBelow
    <3>2. Parent[p] \in open' \/ (Parent[p] \in Dirs /\ Root \in open')
      BY <2>1, <3>1, PathFacts
    <3> QED
      BY <3>1, <3>2 DEF Ahead
  <2> QED
    BY <1>1, <2>1, <2>2, <2>3, WalkStepInv
<1>5. CASE tree[Root] # "none" /\ ~Owned(Root, tree[Root])
  <2>1. Exit("refused")
    BY <1>5 DEF LstatRoot
  <2>2. Foreign(tree) # {}
    BY <1>1, <1>5, ForeignFacts, PathFacts
  <2> QED
    BY <1>1, <2>1, <2>2, ExitInv
<1> QED
  BY <1>3, <1>4, <1>5

LEMMA ReadDirInv == ASSUME IInv, NEW d \in Paths, ReadDir(d) PROVE IInv'
<1>1. /\ pc = "walk" /\ d \in open /\ ~dirty /\ ~built /\ tree \in Trees
      /\ open \subseteq Dirs \cup {Root} /\ unseen \subseteq Below
      /\ \A p \in Foreign(tree) \ newcomers : p \in Below /\ Ahead(p)
  BY DEF ReadDir, IInv, Asked, TypeOK, Rebuild, Searched
<1>2. CASE /\ tree[d] \in {"dir", "link"}
           /\ open' = open \ {d}
           /\ unseen' = unseen \cup (IF tree[d] = "dir" THEN Children(tree, d) ELSE {})
           /\ UNCHANGED <<tree, argv, clean, left, file, pc, exit, history>>
  <2>1. unseen \subseteq unseen' /\ unseen' \subseteq Below
    BY <1>1, <1>2 DEF Children
  <2>2. \A p \in Below : Parent[p] = d /\ tree[p] # "none" => p \in unseen'
    <3> SUFFICES ASSUME NEW p \in Below, Parent[p] = d, tree[p] # "none" PROVE p \in unseen'
      OBVIOUS
    <3>1. tree[d] = "dir"
      BY <1>1, Within
    <3> QED
      BY <1>2, <3>1 DEF Children
  <2>3. ASSUME NEW p \in Foreign(tree) \ newcomers PROVE p \in Below /\ Ahead(p)'
    <3>1. p \in Below /\ Ahead(p) /\ tree[p] # "none"
      BY <1>1, ForeignBelow
    <3>2. CASE p \in unseen \/ Parent[p] \in unseen
      BY <2>1, <3>1, <3>2 DEF Ahead
    <3>3. CASE Parent[p] \in open
      BY <1>2, <2>2, <3>1, <3>3 DEF Ahead
    <3>4. CASE Parent[p] \in Dirs /\ Root \in open
      <4>1. CASE d # Root
        BY <1>2, <3>1, <3>4, <4>1 DEF Ahead
      <4>2. CASE d = Root
        <5>1. Parent[p] \in Below /\ Parent[Parent[p]] = Root /\ tree[Parent[p]] # "none"
          BY <1>1, <3>1, <3>4, Within, PathFacts
        <5>2. Parent[p] \in unseen'
          BY <2>2, <4>2, <5>1
        <5> QED
          BY <3>1, <5>2 DEF Ahead
      <4> QED
        BY <4>1, <4>2
    <3> QED
      BY <3>1, <3>2, <3>3, <3>4 DEF Ahead
  <2>4. pc' = "walk" /\ UNCHANGED <<tree, argv, clean, left, file, exit, history>>
    BY <1>1, <1>2
  <2>5. open' \subseteq Dirs \cup {Root}
    BY <1>1, <1>2
  <2> QED
    BY <1>1, <2>1, <2>3, <2>4, <2>5, WalkStepInv
<1>3. CASE tree[d] = "link" /\ Exit("refused")
  <2>1. d \in Foreign(tree)
    BY <1>1, <1>3, PathFacts DEF Foreign
  <2> QED
    BY <1>1, <1>3, <2>1, ExitInv
<1>4. CASE Exit("failed")
  BY <1>1, <1>4, ExitInv
<1> QED
  BY <1>2, <1>3, <1>4 DEF ReadDir

LEMMA LstatInv == ASSUME IInv, NEW p \in Paths, Lstat(p) PROVE IInv'
<1>1. /\ pc = "walk" /\ p \in unseen /\ ~dirty /\ ~built /\ tree \in Trees
      /\ open \subseteq Dirs \cup {Root} /\ unseen \subseteq Below
      /\ \A q \in Foreign(tree) \ newcomers : q \in Below /\ Ahead(q)
  BY DEF Lstat, IInv, Asked, TypeOK, Rebuild, Searched
<1>2. CASE tree[p] = "none"
  BY <1>1, <1>2, ExitInv DEF Lstat
<1>3. CASE tree[p] # "none" /\ Owned(p, tree[p])
  <2>1. /\ unseen' = unseen \ {p}
        /\ open' = IF tree[p] = "dir" THEN open \cup {p} ELSE open
        /\ UNCHANGED <<tree, argv, clean, left, file, pc, exit, history>>
    BY <1>3 DEF Lstat
  <2>2. open \subseteq open' /\ open' \subseteq Dirs \cup {Root}
    BY <1>1, <1>3, <2>1 DEF Owned, Regular
  <2>3. ASSUME NEW q \in Foreign(tree) \ newcomers PROVE q \in Below /\ Ahead(q)'
    <3>1. q \in Below /\ Ahead(q) /\ tree[q] # "none" /\ ~Owned(q, tree[q])
      BY <1>1, ForeignBelow
    <3>2. q # p /\ (Parent[q] = p => p \in open')
      BY <1>1, <1>3, <2>1, <3>1, Within
    <3> QED
      BY <2>1, <2>2, <3>1, <3>2 DEF Ahead
  <2>4. pc' = "walk" /\ unseen' \subseteq Below
    BY <1>1, <2>1
  <2> QED
    BY <1>1, <2>1, <2>2, <2>3, <2>4, WalkStepInv
<1>4. CASE tree[p] # "none" /\ ~Owned(p, tree[p])
  <2>1. Exit("refused") /\ p \in Foreign(tree)
    BY <1>1, <1>4, ForeignFacts, PathFacts DEF Lstat
  <2> QED
    BY <1>1, <2>1, ExitInv
<1> QED
  BY <1>2, <1>3, <1>4

LEMMA WalkedInv == ASSUME IInv, Walked PROVE IInv'
<1>1. /\ pc = "walk" /\ open = {} /\ unseen = {} /\ Goto("clean") /\ ~dirty /\ ~built
      /\ {"error", "--help", "--skip-stage-2", "--skip-sandbox-layout"} \cap parseArgs = {}
  BY DEF Walked, IInv, Asked, Rebuild
<1>2. {"error", "--help"} \cap parseArgs = {}
  BY <1>1
<1>3. Foreign(tree) \subseteq newcomers
  BY <1>1 DEF IInv, Searched, Ahead
<1> QED
  BY <1>1, <1>2, <1>3, GotoInv

LEMMA CleanInv == ASSUME IInv, Clean \/ Gone PROVE IInv'
<1>1. /\ pc \in {"clean", "rm"} /\ ~built /\ Foreign(tree) \subseteq newcomers
      /\ {"error", "--help", "--skip-stage-2", "--skip-sandbox-layout"} \cap parseArgs = {}
  BY DEF Clean, Gone, IInv, Asked, Rebuild, Searched
<1>2. {"error", "--help"} \cap parseArgs = {}
  BY <1>1
<1>3. Goto("rm") \/ Goto("mkroot")
  BY DEF Clean, Gone
<1> QED
  BY <1>1, <1>2, <1>3, GotoInv

--------------------------------------------------------------------------------
(* The rebuild.                                                            *)

\* A step of the rebuild adds nothing foreign and loses nothing of others.
LEMMA BuildStepInv ==
  ASSUME IInv, pc \in Rebuild, pc' \in Rebuild \cup {"stage3"},
         tree' \in Trees, Foreign(tree') \subseteq Foreign(tree), destroyed' = {},
         UNCHANGED <<argv, open, unseen, exit, newcomers, intruded>>,
         left' \subseteq Files, pc' \in {"open", "data"} => file' \in left',
         dirty' \in {dirty, TRUE},
         pc' \in {"file", "open", "data"} => dirty', built' => dirty' /\ pc' = "stage3",
         Written'
  PROVE  IInv'
<1>1. TypeOK'
  BY DEF IInv, TypeOK, Stages
<1>2. Foreign(tree)' = Foreign(tree') /\ parseArgs' = parseArgs
  BY DEF Foreign, parseArgs
<1>3. Searched'
  BY <1>2 DEF IInv, Searched, Rebuild
<1>4. exit = "none"
  BY DEF IInv, Asked, Rebuild
<1>5. {"error", "--help", "--skip-stage-2", "--skip-sandbox-layout"} \cap parseArgs = {}
  BY DEF IInv, Asked
<1>6. {"error", "--help"} \cap parseArgs = {}
  BY <1>5
<1>7. Asked'
  BY <1>2, <1>4, <1>5, <1>6 DEF Asked, Rebuild, Stages
<1>8. Seen' /\ Spared'
  BY <1>2, <1>4 DEF IInv, Seen, Spared
<1> QED
  BY <1>1, <1>3, <1>7, <1>8 DEF IInv

\* What the rebuild knows of the tree it works on.
LEMMA Building ==
  ASSUME IInv, pc \in Rebuild
  PROVE  /\ tree \in Trees /\ Foreign(tree) \subseteq newcomers /\ ~built /\ destroyed = {}
         /\ (pc \in {"file", "open", "data"} => dirty)
         /\ left \subseteq Files /\ (pc \in {"open", "data"} => file \in left)
BY DEF IInv, TypeOK, Searched, Asked, Rebuild, Spared

LEMMA RemoveEntryInv == ASSUME IInv, NEW p \in Paths, RemoveEntry(p) PROVE IInv'
<1>1. /\ pc = "rm" /\ tree[p] # "none" /\ dirty' = TRUE /\ pc' \in {"mkroot", "rm"}
      /\ tree[p] = "dir" => \A q \in Below : Parent[q] = p => tree[q] = "none"
      /\ tree' = [tree EXCEPT ![p] = "none"] /\ Lost({p})
      /\ UNCHANGED <<argv, open, unseen, left, file, exit, built, newcomers, intruded>>
  BY DEF RemoveEntry, runVars
<1>2. /\ tree \in Trees /\ Foreign(tree) \subseteq newcomers /\ ~built /\ destroyed = {}
      /\ left \subseteq Files
  BY <1>1, Building DEF Rebuild
<1>3. tree' \in Trees
  <2>1. \A q \in Below : Parent[q] = p => tree[q] = "none"
    BY <1>1, <1>2, TreeFacts
  <2> QED
    BY <1>1, <1>2, <2>1, PutEntry DEF Kinds
<1>4. Foreign(tree') \subseteq Foreign(tree)
  BY <1>1, <1>2, <1>3, PutOwned DEF Kinds
<1>5. destroyed' = {}
  BY <1>1, <1>2 DEF Lost
<1>6. Written'
  BY <1>1, <1>2 DEF Written
<1> QED
  BY <1>1, <1>2, <1>3, <1>4, <1>5, <1>6, BuildStepInv DEF Rebuild

\* A directory where there is nothing.
LEMMA MakeDir ==
  ASSUME NEW t \in Trees, NEW d \in Dirs \cup {Root}, t[d] = "none", d # Root => t[Root] = "dir"
  PROVE  /\ [t EXCEPT ![d] = "dir"] \in Trees
         /\ Foreign([t EXCEPT ![d] = "dir"]) \subseteq Foreign(t)
         /\ [t EXCEPT ![d] = "dir"][d] = "dir"
         /\ \A q \in Paths \ {d} : [t EXCEPT ![d] = "dir"][q] = t[q]
<1>1. /\ d \in Paths /\ (d \in Below => t[Parent[d]] = "dir") /\ "dir" \in Kinds
      /\ Owned(d, "dir")
  BY PathFacts DEF Kinds, Owned
<1>2. [t EXCEPT ![d] = "dir"] \in Trees
  BY <1>1, PutEntry
<1>3. Foreign([t EXCEPT ![d] = "dir"]) \subseteq Foreign(t)
  BY <1>1, <1>2, PutOwned
<1> QED
  BY <1>1, <1>2, <1>3, TreeFacts

LEMMA MakeRootInv == ASSUME IInv, MakeRoot PROVE IInv'
<1>1. /\ pc = "mkroot" /\ pc' = "file" /\ dirty' = TRUE /\ left' = Files
      /\ tree[Root] \in {"none", "dir", "link"}
      /\ tree' = IF tree[Root] = "none" THEN [tree EXCEPT ![Root] = "dir"] ELSE tree
      /\ UNCHANGED <<argv, open, unseen, file, exit, built, newcomers, destroyed, intruded>>
  BY DEF MakeRoot
<1>2. /\ tree \in Trees /\ Foreign(tree) \subseteq newcomers /\ ~built /\ destroyed = {}
  BY <1>1, Building DEF Rebuild
<1>3. /\ tree' \in Trees /\ Foreign(tree') \subseteq Foreign(tree)
      /\ tree[Root] = "none" => tree'[Root] = "dir"
  BY <1>1, <1>2, MakeDir
<1>4. Written'
  <2>1. newcomers = {} => tree[Root] # "link"
    BY <1>2 DEF Foreign
  <2>2. newcomers = {} => tree'[Root] = "dir"
    BY <1>1, <1>3, <2>1
  <2> QED
    BY <1>1, <1>2, <2>2 DEF Written
<1> QED
  BY <1>1, <1>2, <1>3, <1>4, BuildStepInv DEF Rebuild

LEMMA MakeParentInv == ASSUME IInv, NEW f \in Files, MakeParent(f) PROVE IInv'
<1> DEFINE t == IF tree[Root] = "none" THEN [tree EXCEPT ![Root] = "dir"] ELSE tree
<1>1. /\ pc = "file" /\ f \in left /\ pc' = "open" /\ file' = f
      /\ t[Root] \in {"dir", "link"} /\ t[Parent[f]] \in {"none", "dir", "link"}
      /\ tree' = IF t[Root] = "dir" /\ t[Parent[f]] = "none" THEN [t EXCEPT ![Parent[f]] = "dir"]
                 ELSE t
      /\ UNCHANGED <<argv, open, unseen, left, exit, built, dirty, newcomers, destroyed, intruded>>
  BY DEF MakeParent, history
<1>2. /\ tree \in Trees /\ Foreign(tree) \subseteq newcomers /\ ~built /\ destroyed = {} /\ dirty
      /\ left \subseteq Files
  BY <1>1, Building DEF Rebuild
<1>3. /\ t \in Trees /\ Foreign(t) \subseteq Foreign(tree)
      /\ tree[Root] = "dir" => t = tree
  BY <1>1, <1>2, MakeDir
<1> HIDE DEF t
<1>4. /\ tree' \in Trees /\ Foreign(tree') \subseteq Foreign(t)
      /\ \A q \in Files : tree'[q] = t[q]
      /\ t[Root] = "dir" => tree'[Root] = "dir"
  <2>1. CASE t[Root] = "dir" /\ t[Parent[f]] = "none"
    <3>1. Parent[f] \in Dirs \cup {Root} /\ Parent[f] # Root
      BY <2>1, PathFacts
    <3>2. /\ tree' \in Trees /\ Foreign(tree') \subseteq Foreign(t)
          /\ \A q \in Paths \ {Parent[f]} : tree'[q] = t[q]
      BY <1>1, <1>3, <2>1, <3>1, MakeDir, ZenonT(60)
    <3> QED
      BY <2>1, <3>1, <3>2, PathFacts
  <2>2. CASE ~(t[Root] = "dir" /\ t[Parent[f]] = "none")
    BY <1>1, <1>3, <2>2
  <2> QED
    BY <2>1, <2>2
<1>5. Written'
  <2>1. newcomers = {} => tree[Root] = "dir" /\ \A q \in Files \ left : tree[q] = "ours"
    BY <1>1 DEF IInv, Written
  <2> QED
    BY <1>1, <1>2, <1>3, <1>4, <2>1 DEF Written
<1> QED
  BY <1>1, <1>2, <1>3, <1>4, <1>5, BuildStepInv DEF Rebuild

\* A file of the layout in a directory that is there.
LEMMA PutFile ==
  ASSUME NEW t \in Trees, NEW f \in Files, NEW k \in Regular, t[Parent[f]] = "dir"
  PROVE  /\ [t EXCEPT ![f] = k] \in Trees
         /\ Foreign([t EXCEPT ![f] = k]) \subseteq Foreign(t)
         /\ \A q \in Paths \ {f} : [t EXCEPT ![f] = k][q] = t[q]
<1>1. /\ f \in Paths /\ k \in Kinds /\ Owned(f, k) /\ \A q \in Below : Parent[q] # f
  BY PathFacts DEF Kinds, Owned
<1>2. [t EXCEPT ![f] = k] \in Trees
  BY <1>1, PutEntry
<1>3. Foreign([t EXCEPT ![f] = k]) \subseteq Foreign(t)
  BY <1>1, <1>2, PutOwned
<1> QED
  BY <1>1, <1>2, <1>3, TreeFacts

LEMMA OpenFileInv == ASSUME IInv, OpenFile PROVE IInv'
<1> DEFINE links == {p \in {Root, Parent[file], file} : tree[p] = "link"}
<1>1. /\ pc = "open" /\ pc' = "data" /\ Lost(links)
      /\ \A p \in {Root, Parent[file]} : tree[p] = "dir" \/ links # {}
      /\ tree' = IF links = {} THEN [tree EXCEPT ![file] = "torn"] ELSE tree
      /\ UNCHANGED <<argv, open, unseen, left, file, exit, built, dirty, newcomers, intruded>>
  BY DEF OpenFile, runVars
<1>2. /\ tree \in Trees /\ Foreign(tree) \subseteq newcomers /\ ~built /\ destroyed = {} /\ dirty
      /\ left \subseteq Files /\ file \in left
  BY <1>1, Building DEF Rebuild
<1>3. links \subseteq Foreign(tree)
  BY <1>2, PathFacts DEF Foreign, Regular
<1> HIDE DEF links
<1>4. links = {} => /\ tree' \in Trees /\ Foreign(tree') \subseteq Foreign(tree)
                    /\ tree'[file] = "torn" /\ \A q \in Paths \ {file} : tree'[q] = tree[q]
  <2>1. file \in Files /\ "torn" \in Regular
    BY <1>2 DEF Regular
  <2>2. CASE links = {}
    <3>1. tree[Parent[file]] = "dir"
      BY <1>1, <2>2
    <3>2. /\ [tree EXCEPT ![file] = "torn"] \in Trees
          /\ Foreign([tree EXCEPT ![file] = "torn"]) \subseteq Foreign(tree)
      BY <1>2, <2>1, <3>1, PutFile
    <3>3. \A q \in Paths \ {file} : [tree EXCEPT ![file] = "torn"][q] = tree[q]
      BY <1>2, <2>1, <3>1, PutFile
    <3>4. file \in Paths /\ tree \in [Paths -> Kinds]
      BY <1>2, PathFacts, TreeFacts
    <3> QED
      BY <1>1, <2>2, <3>2, <3>3, <3>4
  <2> QED
    BY <2>2
<1>5. tree' \in Trees /\ Foreign(tree') \subseteq Foreign(tree)
  BY <1>1, <1>2, <1>4
<1>6. destroyed' = {}
  BY <1>1, <1>2, <1>3 DEF Lost
<1>7. Written'
  <2>1. newcomers = {} => tree[Root] = "dir" /\ \A q \in Files \ left : tree[q] = "ours"
    BY <1>1 DEF IInv, Written
  <2>2. newcomers = {} => links = {}
    BY <1>2, <1>3
  <2>3. newcomers = {} => /\ tree'[Root] = "dir" /\ tree'[file] = "torn"
                          /\ \A q \in Files \ left : tree'[q] = "ours"
    BY <1>2, <1>4, <2>1, <2>2, PathFacts
  <2> QED
    BY <1>1, <1>2, <2>3 DEF Written
<1> QED
  BY <1>1, <1>2, <1>5, <1>6, <1>7, BuildStepInv DEF Rebuild

\* A tree with every file of the layout and nothing foreign is the layout.
LEMMA Whole ==
  ASSUME NEW t \in Trees, Foreign(t) = {}, t[Root] = "dir", \A f \in Files : t[f] = "ours"
  PROVE  t = Layout
<1>1. t \in [Paths -> Kinds]
  BY TreeFacts
<1>2. ASSUME NEW p \in Paths PROVE t[p] = Layout[p]
  <2>1. CASE p \in Files
    BY <2>1, <1>2 DEF Layout
  <2>2. CASE p \in Others
    BY <2>2, <1>2, PathFacts DEF Layout, Foreign
  <2>3. CASE p = Root
    BY <2>3, <1>2, PathFacts DEF Layout
  <2>4. CASE p \in Dirs
    <3>1. PICK f \in Files : Parent[f] = p
      BY <2>4, PathFacts
    <3>2. t[p] = "dir"
      BY <3>1, TreeFacts, PathFacts
    <3> QED
      BY <2>4, <3>2, <1>2, PathFacts DEF Layout
  <2> QED
    BY <2>1, <2>2, <2>3, <2>4, <1>2 DEF Paths, Below
<1> QED
  BY <1>1, <1>2 DEF Layout

LEMMA WriteDataInv == ASSUME IInv, WriteData PROVE IInv'
<1>1. /\ pc = "data" /\ left' = left \ {file}
      /\ tree' = IF tree[file] = "torn" THEN [tree EXCEPT ![file] = "ours"] ELSE tree
      /\ pc' = IF left = {file} THEN "stage3" ELSE "file"
      /\ built' = (left = {file})
      /\ UNCHANGED <<argv, open, unseen, file, exit, dirty, newcomers, destroyed, intruded>>
  BY DEF WriteData
<1>2. /\ tree \in Trees /\ Foreign(tree) \subseteq newcomers /\ destroyed = {}
      /\ left \subseteq Files /\ file \in left
  BY <1>1, Building DEF Rebuild
<1>3. /\ tree' \in Trees /\ Foreign(tree') \subseteq Foreign(tree)
      /\ tree[file] = "torn" =>
           tree'[file] = "ours" /\ \A q \in Paths \ {file} : tree'[q] = tree[q]
  <2>1. CASE tree[file] = "torn"
    <3>1. file \in Files /\ "ours" \in Regular
      BY <1>2 DEF Regular
    <3>2. tree[Parent[file]] = "dir"
      BY <1>2, <2>1, PathFacts, TreeFacts
    <3>3. /\ [tree EXCEPT ![file] = "ours"] \in Trees
          /\ Foreign([tree EXCEPT ![file] = "ours"]) \subseteq Foreign(tree)
      BY <1>2, <3>1, <3>2, PutFile
    <3>4. \A q \in Paths \ {file} : [tree EXCEPT ![file] = "ours"][q] = tree[q]
      BY <1>2, <3>1, <3>2, PutFile
    <3>5. file \in Paths /\ tree \in [Paths -> Kinds]
      BY <1>2, PathFacts, TreeFacts
    <3> QED
      BY <1>1, <2>1, <3>3, <3>4, <3>5
  <2> QED
    BY <1>1, <1>2, <2>1
<1>4. Written'
  <2>1. newcomers = {} => /\ tree[Root] = "dir" /\ \A q \in Files \ left : tree[q] = "ours"
                          /\ tree[file] = "torn"
    BY <1>1 DEF IInv, Written
  <2>2. newcomers = {} => tree'[Root] = "dir" /\ \A q \in Files \ left' : tree'[q] = "ours"
    BY <1>1, <1>2, <1>3, <2>1, PathFacts
  <2>3. newcomers = {} /\ left = {file} => tree' = Layout
    BY <1>1, <1>2, <1>3, <2>2, Whole
  <2> QED
    BY <1>1, <2>2, <2>3 DEF Written, Layout
<1>5. dirty' \in {dirty, TRUE} /\ dirty'
  <2>1. dirty
    BY <1>1 DEF IInv, Asked
  <2>2. dirty' = dirty
    BY <1>1
  <2> QED
    BY <2>1, <2>2, Zenon
<1>6. /\ pc \in Rebuild /\ pc' \in Rebuild \cup {"stage3"} /\ pc' \notin {"open", "data"}
      /\ (built' => pc' = "stage3") /\ left' \subseteq Files /\ destroyed' = {}
  BY <1>1, <1>2 DEF Rebuild
<1> QED
  BY <1>1, <1>3, <1>4, <1>5, <1>6, BuildStepInv

--------------------------------------------------------------------------------
(* Other programs, failures, and the whole.                                *)

\* What others put there is theirs, and nothing else becomes foreign.
LEMMA OutsideTree ==
  ASSUME IInv, NEW p \in Paths, NEW k \in {"none", "file", "dir", "link"}, Outside(p, k)
  PROVE  tree' \in Trees /\ Foreign(tree') \subseteq Foreign(tree) \cup {p}
<1> DEFINE under == IF p = Root THEN Below ELSE {q \in Below : Parent[q] = p}
<1>1. /\ p # Root => tree[Parent[p]] = "dir"
      /\ tree' = [q \in Paths |-> IF q = p THEN k ELSE IF q \in under THEN "none" ELSE tree[q]]
  BY DEF Outside
<1>2. tree \in Trees /\ k \in Kinds
  BY DEF IInv, TypeOK, Kinds, Regular
<1>3. \A q \in Below : Parent[q] = p => q \in under
  BY PathFacts
<1>4. \A q \in Paths : q # p /\ q \notin under => Parent[p] # q \/ tree'[q] = tree[q]
  BY <1>1
<1>5. p \notin under
  BY PathFacts
<1>6. \A d \in Dirs \cup {Root} : d # p /\ d \in under => p = Root
  BY PathFacts
<1>7. under \subseteq Below /\ (p = Root => under = Below)
  OBVIOUS
<1> HIDE DEF under
<1>8. tree' \in [Paths -> Kinds]
  <2>1. \A q \in Paths : (IF q = p THEN k ELSE IF q \in under THEN "none" ELSE tree[q]) \in Kinds
    BY <1>2, TreeFacts DEF Kinds
  <2> QED
    BY <1>1, <2>1
<1>9. ASSUME NEW q \in Below, tree'[q] # "none" PROVE tree'[Parent[q]] = "dir"
  <2>1. q \in Paths /\ Parent[q] \in Paths /\ Parent[q] \in Dirs \cup {Root} /\ Parent[q] # q
    BY PathFacts
  <2>2. q \notin under \/ q = p
    BY <1>1, <1>9, <2>1
  <2>3. p # Root
    BY <1>7, <2>2, PathFacts
  <2>4. CASE q = p
    <3>1. Parent[q] \notin under
      BY <1>6, <2>1, <2>3, <2>4
    <3> QED
      BY <1>1, <2>1, <2>3, <2>4, <3>1
  <2>5. CASE q # p
    <3>1. tree[q] # "none" /\ q \notin under
      BY <1>1, <1>9, <2>1, <2>2, <2>5
    <3>2. tree[Parent[q]] = "dir" /\ Parent[q] # p
      BY <1>2, <1>3, <3>1, TreeFacts
    <3>3. Parent[q] \notin under
      BY <1>6, <2>1, <2>3, <3>2
    <3> QED
      BY <1>1, <2>1, <3>2, <3>3
  <2> QED
    BY <2>4, <2>5
<1>10. tree' \in Trees
  BY <1>8, <1>9 DEF Trees
<1>11. ASSUME NEW q \in Foreign(tree'), q # p PROVE q \in Foreign(tree)
  <2>1. q \in Paths /\ tree'[q] # "none" /\ ~Owned(q, tree'[q])
    BY <1>10, ForeignBelow
  <2>2. tree'[q] = tree[q]
    BY <1>1, <1>11, <2>1
  <2> QED
    BY <1>2, <2>1, <2>2, ForeignFacts
<1> QED
  BY <1>10, <1>11

LEMMA OutsideInv ==
  ASSUME IInv, NEW p \in Paths, NEW k \in {"none", "file", "dir", "link"}, Outside(p, k)
  PROVE  IInv'
<1>1. /\ pc # "off" /\ newcomers' = newcomers \cup {p}
      /\ intruded' = (intruded \/ Foreign(tree') # {})
      /\ UNCHANGED <<argv, open, unseen, left, file, pc, exit, built, dirty, destroyed>>
  BY DEF Outside, runVars
<1>2. tree' \in Trees /\ Foreign(tree') \subseteq Foreign(tree) \cup {p}
  BY OutsideTree
<1>3. TypeOK'
  BY <1>1, <1>2 DEF IInv, TypeOK
<1>4. Foreign(tree)' = Foreign(tree') /\ parseArgs' = parseArgs
  BY <1>1 DEF Foreign, parseArgs
<1>5. Searched'
  <2>1. Foreign(tree') \ newcomers' \subseteq Foreign(tree) \ newcomers
    BY <1>1, <1>2
  <2>2. \A q : Ahead(q)' <=> Ahead(q)
    BY <1>1 DEF Ahead
  <2>3. pc' = "walk" => \A q \in Foreign(tree)' \ newcomers' : q \in Below /\ Ahead(q)'
    BY <1>1, <1>4, <2>1, <2>2 DEF IInv, Searched
  <2>4. pc' \in Rebuild => Foreign(tree)' \subseteq newcomers'
    BY <1>1, <1>2, <1>4 DEF IInv, Searched
  <2> QED
    BY <2>3, <2>4 DEF Searched
<1>6. Written'
  BY <1>1 DEF Written
<1>7. Asked'
  BY <1>1, <1>4 DEF IInv, Asked
<1>8. Seen' /\ Spared'
  <2>1. exit' # "refused"
    BY <1>1 DEF IInv, Asked
  <2> QED
    BY <1>1, <1>4, <2>1 DEF IInv, Seen, Spared
<1> QED
  BY <1>3, <1>5, <1>6, <1>7, <1>8 DEF IInv

LEMMA FailInv == ASSUME IInv, Throws \/ Kill PROVE IInv'
<1>1. built => pc \in {"stage3", "off"}
  BY DEF IInv, Asked
<1> QED
  BY <1>1, ExitInv DEF Throws, Kill

LEMMA StutterInv == ASSUME IInv, UNCHANGED vars PROVE IInv'
<1>1. /\ UNCHANGED <<tree, argv, clean, open, unseen, left, file, pc, exit>>
      /\ UNCHANGED <<built, dirty, newcomers, destroyed, intruded>>
  BY DEF vars, runVars, history
<1>2. TypeOK' /\ Spared'
  BY <1>1 DEF IInv, TypeOK, Spared
<1>3. Foreign(tree)' = Foreign(tree) /\ parseArgs' = parseArgs /\ \A q : Ahead(q)' <=> Ahead(q)
  BY <1>1 DEF Foreign, parseArgs, Ahead
<1>4. Searched' /\ Seen'
  BY <1>1, <1>3 DEF IInv, Searched, Seen
<1>5. Written'
  BY <1>1 DEF IInv, Written, Layout
<1>6. Asked'
  BY <1>1, <1>3 DEF IInv, Asked
<1> QED
  BY <1>2, <1>4, <1>5, <1>6 DEF IInv

\* What holds at every step of every run of capture-demo.mjs.
THEOREM Invariance == Spec => []IInv
<1>1. IInv /\ [Next]_vars => IInv'
  <2> SUFFICES ASSUME IInv, [Next]_vars PROVE IInv'
    OBVIOUS
  <2>1. CASE \E a \in Argvs, c \in BOOLEAN : Start(a, c)
    BY <2>1, StartInv
  <2>2. CASE main
    BY <2>2, mainInv
  <2>3. CASE Stage1 \/ Stage2 \/ Stage3
    BY <2>3, StageInv
  <2>4. CASE LstatRoot
    BY <2>4, LstatRootInv
  <2>5. CASE Walked
    BY <2>5, WalkedInv
  <2>6. CASE \E p \in Paths : ReadDir(p) \/ Lstat(p) \/ RemoveEntry(p)
    BY <2>6, ReadDirInv, LstatInv, RemoveEntryInv
  <2>7. CASE Clean \/ Gone
    BY <2>7, CleanInv
  <2>8. CASE MakeRoot
    BY <2>8, MakeRootInv
  <2>9. CASE \E f \in Files : MakeParent(f)
    BY <2>9, MakeParentInv
  <2>10. CASE OpenFile
    BY <2>10, OpenFileInv
  <2>11. CASE WriteData
    BY <2>11, WriteDataInv
  <2>12. CASE Throws \/ Kill
    BY <2>12, FailInv
  <2>13. CASE \E p \in Paths, k \in {"none", "file", "dir", "link"} : Outside(p, k)
    BY <2>13, OutsideInv
  <2>14. CASE UNCHANGED vars
    BY <2>14, StutterInv
  <2> QED
    BY <2>1, <2>2, <2>3, <2>4, <2>5, <2>6, <2>7, <2>8, <2>9, <2>10, <2>11, <2>12, <2>13, <2>14
       DEF Next
<1> QED
  BY <1>1, InitInv, PTL DEF Spec

\* The run has a tree to work on, and writes a file it has still to write.
THEOREM TypeCorrect == Spec => []TypeOK
BY Invariance, PTL DEF IInv

\* Nothing of others is removed or written through, in any tree, with any
\* interference: when the rebuild begins the search has come past every entry
\* that was there, and each was the layout's own.
THEOREM OthersSpared == Spec => []Spared
BY Invariance, PTL DEF IInv

\* What a run leaves behind is never what the next one refuses, and one that ends
\* well, alone, leaves the layout.
THEOREM Rebuilds == Spec => []LayoutTrue
<1>1. IInv => LayoutTrue
  BY DEF IInv, Seen, Written, LayoutTrue
<1> QED
  BY <1>1, Invariance, PTL

--------------------------------------------------------------------------------
(* The command line.                                                       *)

\* Every set of naturals that is not empty has a least element.
LEMMA LeastElement ==
  ASSUME NEW T, T \subseteq Nat, T # {}
  PROVE  \E x \in T : \A y \in T : x <= y
<1> DEFINE R == {ss \in Nat \X Nat : ss[1] < ss[2]}
<1>1. R = OpToRel(<, Nat)
  BY DEF OpToRel
<1>2. IsWellFoundedOn(R, Nat)
  BY <1>1, NatLessThanWellFounded
<1>3. PICK x \in T : \A y \in T : ~(<<y, x>> \in R)
  <2> HIDE DEF R
  <2> QED
    BY <1>2, WFMin
<1>4. ASSUME NEW y \in T PROVE x <= y
  <2>1. x \in Nat /\ y \in Nat
    OBVIOUS
  <2>2. <<y, x>> \in R <=> y < x
    BY <2>1
  <2>3. ~(y < x)
    <3> HIDE DEF R
    <3> QED
      BY <1>3, <2>2
  <2> QED
    BY <2>1, <2>3
<1> QED
  BY <1>4

\* So a set that holds 0, and n + 1 whenever it holds n, holds all up to N.
LEMMA UpToInduction ==
  ASSUME NEW N \in Nat, NEW S, 0 \in S,
         \A n \in 0 .. N - 1 : n \in S => n + 1 \in S
  PROVE  \A n \in 0 .. N : n \in S
<1> DEFINE T == {n \in 0 .. N : n \notin S}
<1> SUFFICES ASSUME T # {} PROVE FALSE
  OBVIOUS
<1>1. PICK x \in T : \A y \in T : x <= y
  <2>1. T \subseteq Nat
    OBVIOUS
  <2> HIDE DEF T
  <2> QED
    BY <2>1, LeastElement
<1>2. x \in 0 .. N /\ x \notin S /\ x # 0
  OBVIOUS
<1>3. x - 1 \in 0 .. N - 1 /\ x - 1 \notin T
  BY <1>1, <1>2
<1>4. x - 1 \in S
  BY <1>3
<1>5. (x - 1) + 1 \in S
  BY <1>3, <1>4
<1> QED
  BY <1>2, <1>5

\* A flag of the line a and its value, at position i.
Pair(a, i) ==
  /\ a[i] \in Valued /\ i < Len(a) /\ flagValue(a[i + 1])
  /\ a[i] = "--pause-seconds" => a[i + 1] = "2"

\* What the line says from position i on, when f tells it of the positions after i.
Reads(a, f, i) ==
  IF i > Len(a) THEN {}
  ELSE IF a[i] \in Switches THEN {Sets(a[i])} \cup f[i + 1]
  ELSE IF Pair(a, i) THEN f[i + 2]
  ELSE {"error"}

Parses(a, f) == f = [i \in 1 .. Len(a) + 2 |-> Reads(a, f, i)]

\* The recursion of parseArgs has a solution on every line.
LEMMA ParseExists ==
  ASSUME NEW a \in Seq(STRING)
  PROVE  \E f : Parses(a, f)
<1> DEFINE V == Switches \cup {"error"}
           N == Len(a) + 2
           Partial(f, n) == \A i \in 1 .. N : i > N - n => f[i] = Reads(a, f, i)
           S == {n \in 0 .. N : \E f \in [1 .. N -> SUBSET V] : Partial(f, n)}
<1>1. N \in Nat /\ Len(a) \in Nat /\ N = Len(a) + 2
  OBVIOUS
<1> HIDE DEF N
<1>2. 0 \in S
  <2> DEFINE f == [i \in 1 .. N |-> {}]
  <2>1. f \in [1 .. N -> SUBSET V] /\ Partial(f, 0)
    BY <1>1
  <2> HIDE DEF f, Partial
  <2> QED
    BY <1>1, <2>1
<1>3. ASSUME NEW n \in 0 .. N - 1, n \in S PROVE n + 1 \in S
  <2>1. PICK f \in [1 .. N -> SUBSET V] : Partial(f, n)
    BY <1>3
  <2> DEFINE j == N - n
             g == [f EXCEPT ![j] = Reads(a, f, j)]
  <2>2. j \in 1 .. N /\ j = N - n
    BY <1>1
  <2> HIDE DEF j
  <2>3. Reads(a, f, j) \in SUBSET V
    <3>1. CASE j > Len(a)
      BY <3>1 DEF Reads
    <3>2. CASE ~(j > Len(a))
      <4>1. j + 1 \in 1 .. N /\ j + 2 \in 1 .. N /\ j \in 1 .. Len(a)
        BY <1>1, <2>2, <3>2
      <4>2. f[j + 1] \subseteq V /\ f[j + 2] \subseteq V
        BY <2>1, <4>1
      <4>3. "error" \in V /\ (a[j] \in Switches => Sets(a[j]) \in V)
        BY DEF Switches, Sets
      <4>4. a[j] \in Switches => {Sets(a[j])} \cup f[j + 1] \subseteq V
        BY <4>2, <4>3, Zenon
      <4>5. {"error"} \subseteq V
        BY <4>3, Zenon
      <4> HIDE DEF V
      <4> QED
        BY <3>2, <4>2, <4>4, <4>5 DEF Reads
    <3> QED
      BY <3>1, <3>2
  <2>4. g \in [1 .. N -> SUBSET V] /\ g[j] = Reads(a, f, j)
        /\ \A i \in 1 .. N : i # j => g[i] = f[i]
    BY <2>1, <2>2, <2>3
  <2> HIDE DEF g
  <2>5. ASSUME NEW i \in 1 .. N, i >= j PROVE Reads(a, g, i) = Reads(a, f, i)
    <3>1. CASE i > Len(a)
      BY <3>1 DEF Reads
    <3>2. CASE ~(i > Len(a))
      <4>1. i + 1 \in 1 .. N /\ i + 1 # j /\ i + 2 \in 1 .. N /\ i + 2 # j
        BY <1>1, <2>2, <2>5, <3>2
      <4>2. g[i + 1] = f[i + 1] /\ g[i + 2] = f[i + 2]
        BY <2>4, <4>1
      <4> QED
        BY <3>2, <4>2 DEF Reads
    <3> QED
      BY <3>1, <3>2
  <2>6. ASSUME NEW i \in 1 .. N, i > N - (n + 1) PROVE g[i] = Reads(a, g, i)
    <3>1. i >= j /\ (i # j => i > N - n)
      BY <1>1, <2>2, <2>6
    <3>2. i # j => f[i] = Reads(a, f, i)
      BY <2>1, <3>1
    <3> QED
      BY <2>4, <2>5, <3>1, <3>2
  <2>7. Partial(g, n + 1)
    BY <2>6
  <2> HIDE DEF Partial
  <2> QED
    BY <1>1, <2>4, <2>7
<1>4. N \in S
  <2> HIDE DEF S
  <2>1. \A n \in 0 .. N : n \in S
    BY <1>1, <1>2, <1>3, UpToInduction
  <2> QED
    BY <1>1, <2>1
<1>5. PICK f \in [1 .. N -> SUBSET V] : Partial(f, N)
  BY <1>4
<1>6. \A i \in 1 .. N : f[i] = Reads(a, f, i)
  BY <1>1, <1>5
<1>7. f = [i \in 1 .. N |-> Reads(a, f, i)]
  BY <1>5, <1>6
<1> QED
  BY <1>1, <1>7 DEF Parses

LEMMA ParseArgsFact ==
  ASSUME argv \in Seq(STRING)
  PROVE  \E f : Parses(argv, f) /\ parseArgs = f[1]
<1>1. \E f : Parses(argv, f)
  BY ParseExists
<1> DEFINE p == CHOOSE f : Parses(argv, f)
<1>2. Parses(argv, p)
  BY <1>1
<1>3. parseArgs = p[1]
  BY DEF parseArgs, Parses, Reads, Pair
<1> QED
  BY <1>2, <1>3

\* No switch of a line that is accepted is passed over: a flag does not take one
\* for its value, save for the one that takes -h.
LEMMA SwitchesFound ==
  ASSUME NEW a \in Seq(STRING), NEW f, Parses(a, f), "error" \notin f[1],
         NEW k \in 1 .. Len(a), a[k] \in Switches,
         a[k] = "-h" => k = 1 \/ a[k - 1] # "--sandbox-root"
  PROVE  Sets(a[k]) \in f[1]
<1> DEFINE S == {n \in 0 .. Len(a) :
                   \/ f[n + 1] \subseteq f[1]
                   \/ n > 0 /\ Pair(a, n) /\ f[n] \subseteq f[1]}
<1>1. Len(a) \in Nat
  OBVIOUS
<1>2. \A i \in 1 .. Len(a) + 2 : f[i] = Reads(a, f, i)
  BY DEF Parses
<1>3. \A i \in 1 .. Len(a) : Pair(a, i) => a[i] \notin Switches
  BY DEF Pair, Valued, Switches
<1>4. 0 \in S
  BY <1>1
<1>5. ASSUME NEW n \in 0 .. Len(a) - 1, n \in S PROVE n + 1 \in S
  <2>1. n + 1 \in 1 .. Len(a) /\ (n + 1) + 1 = n + 2 /\ n + 1 > 0
    BY <1>1
  <2>2. CASE f[n + 1] \subseteq f[1]
    <3>1. f[n + 1] = Reads(a, f, n + 1)
      BY <1>1, <1>2, <2>1
    <3>2. CASE a[n + 1] \in Switches
      <4>1. f[n + 2] \subseteq f[n + 1]
        BY <1>1, <2>1, <3>1, <3>2 DEF Reads
      <4> QED
        BY <1>1, <2>1, <2>2, <4>1
    <3>3. CASE a[n + 1] \notin Switches /\ Pair(a, n + 1)
      BY <1>1, <2>1, <2>2, <3>3
    <3>4. CASE a[n + 1] \notin Switches /\ ~Pair(a, n + 1)
      <4>1. "error" \in f[n + 1]
        BY <1>1, <2>1, <3>1, <3>4 DEF Reads
      <4> QED
        BY <2>2, <4>1
    <3> QED
      BY <3>2, <3>3, <3>4
  <2>3. CASE n > 0 /\ Pair(a, n) /\ f[n] \subseteq f[1]
    <3>1. n \in 1 .. Len(a) /\ f[n] = Reads(a, f, n) /\ a[n] \notin Switches
      BY <1>1, <1>2, <1>3, <2>3
    <3>2. f[n] = f[n + 2]
      BY <1>1, <2>3, <3>1 DEF Reads
    <3> QED
      BY <1>1, <2>1, <2>3, <3>2
  <2> QED
    BY <1>5, <2>2, <2>3
<1>6. \A n \in 0 .. Len(a) : n \in S
  <2> HIDE DEF S
  <2> QED
    BY <1>1, <1>4, <1>5, UpToInduction
<1>7. k - 1 \in S /\ (k - 1) + 1 = k
  BY <1>1, <1>6
<1>8. CASE f[k] \subseteq f[1]
  <2>1. f[k] = Reads(a, f, k) /\ ~(k > Len(a))
    BY <1>1, <1>2
  <2>2. Sets(a[k]) \in f[k]
    BY <2>1 DEF Reads
  <2> QED
    BY <1>8, <2>2
<1>9. CASE k - 1 > 0 /\ Pair(a, k - 1)
  <2>1. a[k] \notin Dashed /\ a[k - 1] \in Valued /\ (a[k - 1] = "--pause-seconds" => a[k] = "2")
    BY <1>7, <1>9 DEF Pair, flagValue
  <2>2. a[k] = "-h"
    BY <2>1, LayoutAssumption DEF Switches
  <2>3. k # 1 /\ a[k - 1] = "--sandbox-root"
    BY <1>9, <2>1, <2>2 DEF Valued
  <2> QED
    BY <2>2, <2>3
<1> QED
  BY <1>7, <1>8, <1>9

\* A run that is refused has changed nothing, and none changes anything whose
\* command line holds --help or a switch that skips the layout, whatever else is
\* on the line and in whatever order, nor one that holds -h anywhere but behind
\* --sandbox-root.
THEOREM ChangesAsked == Spec => []Harmless
<1>1. IInv => Harmless
  <2> SUFFICES ASSUME IInv, dirty PROVE Harmless
    BY DEF Harmless
  <2>1. /\ exit \notin {"usage", "seed", "refused"}
        /\ {"error", "--help", "--skip-stage-2", "--skip-sandbox-layout"} \cap parseArgs = {}
        /\ argv \in Seq(STRING)
    BY DEF IInv, Asked, TypeOK
  <2>2. PICK f : Parses(argv, f) /\ parseArgs = f[1]
    BY <2>1, ParseArgsFact
  <2>3. ASSUME NEW k \in DOMAIN argv,
               argv[k] \in {"--help", "-h", "--skip-sandbox-layout", "--skip-stage-2"},
               argv[k] = "-h" => k = 1 \/ argv[k - 1] # "--sandbox-root"
        PROVE  FALSE
    <3>1. k \in 1 .. Len(argv) /\ argv[k] \in Switches /\ "error" \notin f[1]
      BY <2>1, <2>2, <2>3 DEF Switches
    <3>2. Sets(argv[k]) \in f[1]
      BY <2>1, <2>2, <2>3, <3>1, SwitchesFound
    <3>3. Sets(argv[k]) \in {"--help", "--skip-sandbox-layout", "--skip-stage-2"}
      BY <2>3 DEF Sets
    <3> QED
      BY <2>1, <2>2, <3>2, <3>3
  <2> QED
    BY <2>1, <2>3 DEF Harmless
<1> QED
  BY <1>1, Invariance, PTL

================================================================================
