----------------------------- MODULE SandboxResolve -----------------------------
(***************************************************************************)
(* Sandbox.create, Sandbox.resolve and the tools that use what it accepts, *)
(* one action per awaited call, over a small directory tree.  Between two  *)
(* calls another write_file may create a file, and another program may     *)
(* change any entry of the tree.  A path is a sequence of names; an input  *)
(* may also hold "." and "..", pass through links and end in a separator.  *)
(***************************************************************************)
EXTENDS Naturals, Sequences, SequencesExt, FiniteSets

CONSTANTS
  Hosts,        \* the realpath() of the host: "strict", or "lenient" as darwin's
  Locations,    \* the paths a tree may have entries at
  Trees,        \* the trees a call may find
  Inputs,       \* the paths a tool may be called with
  Configured,   \* the name of the allow-list root in the configuration
  Placed,       \* the entries that other programs may put in place of another
  MaxWalk,      \* above the steps of the longest path walk that ends
  MaxMoves,     \* bound: entries other programs change
  MaxShort,     \* bound: they do while the input is this short,
  Disturbed     \* and on these hosts

VARIABLES
  host, tree,
  op, input,    \* the tool and its path
  pc,
  root,         \* the allow-list root, resolved at boot
  real,         \* the value `resolve` is about to check, then its result
  used,         \* directories and files the tool reached
  moved,        \* history: what other programs changed
  possible      \* history: what the input has named since the call began

vars == <<host, tree, op, input, pc, root, real, used, moved, possible>>

None    == [kind |-> "none"]
File    == [kind |-> "file"]
Dir     == [kind |-> "dir"]
Link(p) == [kind |-> "link", to |-> p]

IsEntry(e) == e \in {None, File, Dir} \/ (e.kind = "link" /\ e = Link(e.to) /\ e.to \in Seq(STRING))

Missing == <<"missing">>
Dots    == {".", ".."}

KindAt(t, p) == IF p \in Locations THEN t[p].kind ELSE "none"
Parent(p)    == IF p = <<>> THEN <<>> ELSE Front(p)

\* Every entry is in a directory, and the root of all is one.
IsTree(t) ==
  /\ t = [p \in Locations |-> t[p]] /\ t[<<>>] = Dir
  /\ \A p \in Locations : IsEntry(t[p]) /\ (t[p] # None => KindAt(t, Parent(p)) = "dir")

ASSUME TreesAssumption ==
  /\ Locations \subseteq Seq(STRING) /\ <<>> \in Locations /\ Missing \notin Locations
  /\ \A p \in Locations : Parent(p) \in Locations /\ ToSet(p) \cap Dots = {} /\ Len(p) <= MaxWalk
  /\ \A t \in Trees : IsTree(t)
  /\ \A e \in Placed : IsEntry(e)
  /\ \A i \in Inputs : i.valid => i.path \in Seq(STRING) \ {<<>>}
  /\ Hosts \subseteq {"strict", "lenient"} /\ Configured \in STRING
  /\ MaxWalk \in Nat /\ MaxWalk >= 8

--------------------------------------------------------------------------------
(* The kernel.                                                             *)

\* One component of a path walk.  A lenient host folds dots after anything.
Advance(t, lenient, s) ==
  IF s.rest = <<>> THEN s ELSE
  LET name == Head(s.rest)
      rest == Tail(s.rest)
      next == Append(s.at, name)
      dir  == KindAt(t, s.at) = "dir"
  IN CASE name = "."  /\ (dir \/ lenient) -> [at |-> s.at, rest |-> rest]
       [] name = ".." /\ (dir \/ lenient) -> [at |-> Parent(s.at), rest |-> rest]
       [] dir /\ KindAt(t, next) \in {"file", "dir"} -> [at |-> next, rest |-> rest]
       [] dir /\ KindAt(t, next) = "link" -> [at |-> <<>>, rest |-> t[next].to \o rest]
       [] OTHER -> [at |-> Missing, rest |-> <<>>]

\* n components, from a state of the walk.
Steps(t, lenient, n, from) ==
  LET state[k \in 0 .. n] == IF k = 0 THEN from ELSE Advance(t, lenient, state[k - 1])
  IN state[n]

\* Where a path leads, or Missing; a walk that does not end is a loop of links.
\* Most end early.
Walk(t, lenient, path) ==
  LET early == Steps(t, lenient, 8, [at |-> <<>>, rest |-> path])
      end   == IF early.rest = <<>> THEN early ELSE Steps(t, lenient, MaxWalk - 8, early)
  IN IF end.rest = <<>> THEN end.at ELSE Missing

\* MaxWalk is enough: a walk of an input that has not ended by then goes round
\* in links.
ASSUME WalksAssumption ==
  \A t \in Trees, i \in Inputs : i.valid =>
    LET from == [at |-> <<>>, rest |-> i.path]
    IN  Steps(t, FALSE, 2 * MaxWalk, from).rest = <<>> => Steps(t, FALSE, MaxWalk, from).rest = <<>>

realpath(p) == Walk(tree, host = "lenient", p)
stat(p)     == KindAt(tree, Walk(tree, FALSE, p))
lstat(p)    == IF p = <<>> THEN "dir" ELSE
               LET d == Walk(tree, FALSE, Front(p))
               IN IF KindAt(tree, d) = "dir" THEN KindAt(tree, Append(d, Last(p))) ELSE "none"

--------------------------------------------------------------------------------
(* The paths of the code.                                                  *)

\* The input as the kernel reads it: a trailing separator asks for a directory.
AsWritten == input.path \o (IF input.slash THEN <<".">> ELSE <<>>)

\* path.dirname and path.basename are textual; path.join folds dots.
Dirname  == Parent(input.path)
Basename == Last(input.path)

Join(d) ==
  CASE Basename = "."  -> d
    [] Basename = ".." -> Parent(d)
    [] OTHER -> Append(d, Basename)

_underRoot(p) == IsPrefix(root, p)

--------------------------------------------------------------------------------
Init ==
  /\ host \in Hosts
  /\ tree \in Trees
  /\ op \in {"read", "list", "write"}
  /\ input \in Inputs
  /\ pc = "boot"
  /\ root = Missing /\ real = Missing
  /\ used = {} /\ moved = {} /\ possible = {}

\* What the input names in tree t, by the rules of POSIX: the object it leads
\* to or, for a write, the new entry of the directory it leads to.
Named(t, r) ==
  LET p == Walk(t, FALSE, AsWritten)
      d == Walk(t, FALSE, Dirname)
      q == Append(d, Basename)
  IN CASE input.valid /\ p # Missing /\ IsPrefix(r, p) -> p
       [] /\ input.valid /\ p = Missing
          /\ op = "write" /\ ~input.slash /\ Basename \notin Dots
          /\ KindAt(t, d) = "dir" /\ KindAt(t, q) = "none" /\ IsPrefix(r, q) -> q
       [] OTHER -> Missing

\* The root is resolved once, and must be a directory.
create ==
  /\ pc = "boot"
  /\ LET r == realpath(<<Configured>>) IN
     IF KindAt(tree, r) = "dir"
     THEN pc' = "call" /\ root' = r /\ possible' = {Named(tree, r)}
     ELSE pc' = "stopped" /\ UNCHANGED <<root, possible>>
  /\ UNCHANGED <<host, tree, op, input, real, used, moved>>

Frame  == UNCHANGED <<host, tree, op, input, root, used, moved, possible>>
Refuse == pc' = "refused" /\ real' = Missing /\ Frame
Goto(l) == pc' = l /\ Frame

\* The containment check that ends `resolve`.
Admit(p) == IF p # Missing /\ _underRoot(p) THEN real' = p /\ Goto("checked") ELSE Refuse

First == IF op = "write" THEN "parent" ELSE "exists"

\* Validation, up to the first await.
resolve ==
  /\ pc = "call"
  /\ IF input.valid
     THEN Goto(IF input.slash THEN "slash" ELSE First) /\ UNCHANGED real
     ELSE Refuse

CheckSlash ==
  /\ pc = "slash"
  /\ IF stat(AsWritten) = "dir" THEN Goto(First) /\ UNCHANGED real ELSE Refuse

CheckExists ==
  /\ pc = "exists"
  /\ IF stat(AsWritten) # "none" THEN Goto("real") /\ UNCHANGED real ELSE Refuse

RealInput == pc = "real" /\ Admit(realpath(AsWritten))

RealParent ==
  /\ pc = "parent"
  /\ LET d == realpath(Dirname)
     IN IF d = Missing THEN Refuse ELSE real' = d /\ Goto("parentKind")

\* Mutant: the resolved parent is asked instead of the parent as written.
CheckParentReal ==
  /\ pc = "parentKind"
  /\ IF stat(real) = "dir" THEN real' = Join(real) /\ Goto("leaf") ELSE Refuse

CheckParent ==
  /\ pc = "parentKind"
  /\ IF stat(Dirname) = "dir" THEN real' = Join(real) /\ Goto("leaf") ELSE Refuse

\* An existing link is followed; anything else keeps the name.
CheckLeaf ==
  /\ pc = "leaf"
  /\ IF lstat(real) = "link" THEN Goto("realLeaf") /\ UNCHANGED real ELSE Admit(real)

RealLeaf == pc = "realLeaf" /\ Admit(realpath(real))

--------------------------------------------------------------------------------
(* The tools.                                                              *)

Fail == pc' = "failed" /\ UNCHANGED real /\ Frame

\* resolveFile, resolveDir, and the check of writeFile that its target is not a
\* directory: the root is one, and its parent is outside.
CheckKind ==
  /\ pc = "checked"
  /\ IF CASE op = "read" -> stat(real) = "file"
         [] op = "list" -> stat(real) = "dir"
         [] op = "write" -> stat(real) # "dir"
     THEN Goto("open") /\ UNCHANGED real
     ELSE Fail

\* open() and readdir() follow the path again.
Read ==
  /\ pc = "open" /\ op \in {"read", "list"}
  /\ LET p == Walk(tree, FALSE, real) IN
     IF p = Missing THEN Fail
     ELSE /\ pc' = "done" /\ used' = {p}
          /\ UNCHANGED <<host, tree, op, input, root, real, moved, possible>>

\* Mutant: the target is opened in place.
WriteInPlace ==
  /\ pc = "open" /\ op = "write"
  /\ LET p == Walk(tree, FALSE, real) IN
     IF p = Missing THEN Fail
     ELSE /\ pc' = "done" /\ used' = {p}
          /\ UNCHANGED <<host, tree, op, input, root, real, moved, possible>>

\* atomicWriteFile stages a file beside its target and renames it over the
\* name, whatever the name is now, except that a directory stays.  (Its mkdir -p
\* is left out: it finds the parent there, unless another program has taken away a
\* directory above the target since the checks, and Contained says nothing then.)
Write ==
  /\ pc = "open" /\ op = "write"
  /\ LET d == Walk(tree, FALSE, Front(real))
         p == Append(d, Last(real))
     IN IF KindAt(tree, d) # "dir" THEN Fail
        ELSE /\ used' = {d}
             /\ pc' = IF KindAt(tree, p) = "dir" THEN "failed" ELSE "done"
             /\ tree' = IF p \notin Locations \/ tree[p] = Dir THEN tree ELSE [tree EXCEPT ![p] = File]
             /\ UNCHANGED <<host, op, input, root, real, moved, possible>>

--------------------------------------------------------------------------------
(* Everybody else.                                                         *)

Resolving == pc \in {"call", "slash", "exists", "real", "parent", "parentKind", "leaf", "realLeaf"}
Changed(t) ==
  /\ tree' = t
  /\ possible' = possible \cup (IF Resolving THEN {Named(t, root)} ELSE {})
  /\ UNCHANGED <<host, op, input, pc, root, real, used>>

\* Another call of write_file creates a file under the root.
OtherWrite(p) ==
  /\ Resolving \/ pc \in {"checked", "open"}
  /\ IsPrefix(root, p) /\ tree[p] = None /\ KindAt(tree, Parent(p)) = "dir"
  /\ Changed([tree EXCEPT ![p] = File])
  /\ UNCHANGED moved

\* Another program replaces an entry; what was below it is gone.
Outside(p, e) ==
  /\ Resolving \/ pc \in {"boot", "checked", "open"}
  /\ Cardinality(moved) < MaxMoves /\ Len(input.path) <= MaxShort /\ host \in Disturbed
  /\ p # <<>> /\ e # tree[p] /\ KindAt(tree, Parent(p)) = "dir"
  /\ Changed([q \in Locations |-> IF q = p THEN e ELSE IF IsPrefix(p, q) THEN None ELSE tree[q]])
  /\ moved' = moved \cup {p}

Next ==
  \/ create \/ resolve \/ CheckSlash \/ CheckExists \/ RealInput
  \/ RealParent \/ CheckParent \/ CheckLeaf \/ RealLeaf
  \/ CheckKind \/ Read \/ Write
  \/ \E p \in Locations :
       \/ OtherWrite(p)
       \/ \E e \in Placed : Outside(p, e)

Spec == Init /\ [][Next]_vars

--------------------------------------------------------------------------------
(* Properties.                                                             *)

\* Types; what `resolve` is about to check holds no dots.
TypeOK ==
  /\ host \in {"strict", "lenient"} /\ op \in {"read", "list", "write"} /\ input \in Inputs
  /\ DOMAIN tree = Locations
  /\ \A p \in Locations : tree[p].kind \in {"none", "file", "dir", "link"}
  /\ pc \in {"boot", "stopped", "call", "slash", "exists", "real", "parent", "parentKind", "leaf",
             "realLeaf", "checked", "open", "refused", "failed", "done"}
  /\ root \in Locations \cup {Missing} /\ used \in SUBSET Locations /\ moved \in SUBSET Locations
  /\ \A p \in possible \cup {real} : ToSet(p) \cap Dots = {}

\* No link holds dots where realpath() folds them: the source records what such a
\* host makes of an input, and not of a link.
LinksTold ==
  host = "lenient" => \A p \in Locations : tree[p].kind = "link" => ToSet(tree[p].to) \cap Dots = {}

\* `resolve` accepts exactly what the input names by the rules of POSIX, at some
\* moment of the call, and only under the root.  The answer depends neither on
\* other calls nor, but for links that hold dots, on how the host spells realpath().
Agrees ==
  moved = {} /\ LinksTold =>
    /\ pc = "refused" => Missing \in possible
    /\ pc \in {"checked", "open"} => real \in possible \ {Missing}

\* A tool touches nothing outside the root, unless another program changed the
\* accepted path itself; for a write below the root, unless it changed a
\* directory above the target: a leaf that becomes a link is replaced and not
\* followed.
Contained ==
  \A u \in used :
    \/ IsPrefix(root, u)
    \/ \E p \in moved : IsPrefix(p, real) /\ (op = "write" /\ real # root => p # real)
================================================================================
