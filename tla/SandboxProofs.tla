----------------------------- MODULE SandboxProofs ------------------------------
(***************************************************************************)
(* What Sandbox.resolve accepts is what the input names, and a tool        *)
(* reaches it under the root, for every tree, every input, either kind of  *)
(* host and any changes by others; what read_file then answers is the file *)
(* at one moment of the call.                                              *)
(***************************************************************************)
EXTENDS SandboxResolve, ReadFile, SequenceTheorems, WellFoundedInduction, TLAPS

\* The components of a path, the one for a trailing separator included.
Word == STRING \cup {"."}

Prefix(p, k) == SubSeq(p, 1, k)

\* Something at or above q is in m, what other programs changed.
Shaky(m, q) == \E x \in m : IsPrefix(x, q)

\* No link of t is on the way to p, or on it and at its end, but by what others
\* did; all of r is directories, but for what they did.
Lead(t, m, p)   == \A k \in 0 .. Len(p) - 1 :
                     KindAt(t, Prefix(p, k)) = "link" => Shaky(m, Prefix(p, k))
Steady(t, m, p) == \A k \in 0 .. Len(p) :
                     KindAt(t, Prefix(p, k)) = "link" => Shaky(m, Prefix(p, k))
Solid(t, m, r)  == \A k \in 0 .. Len(r) :
                     KindAt(t, Prefix(r, k)) = "dir" \/ Shaky(m, Prefix(r, k))

Plain(p) == p \in Seq(Word) /\ \A i \in 1 .. Len(p) : p[i] \notin Dots

Asking == {"slash", "exists", "real", "parent", "parentKind", "leaf", "realLeaf"}

Types ==
  /\ IsTree(tree) /\ moved \subseteq Locations /\ input \in Inputs
  /\ op \in {"read", "list", "write"}
  /\ pc \in {"boot", "stopped", "call", "checked", "open", "refused", "failed", "done"} \cup Asking
  /\ pc \in Asking => input.valid
  /\ pc \notin {"boot", "stopped"} => root \in Locations

\* The root stays a directory, unless others replace it or what it is in.
RootHeld ==
  pc \notin {"boot", "stopped"} => Solid(tree, moved, root)

\* What is about to be checked, and what was accepted.
Held ==
  /\ pc = "parentKind" => Plain(real) /\ Steady(tree, moved, real)
  /\ pc \in {"leaf", "realLeaf"} => Plain(real) /\ Lead(tree, moved, real)
  /\ pc \in {"checked", "open"} => Plain(real) /\ Steady(tree, moved, real) /\ IsPrefix(root, real)
  /\ pc = "open" /\ op = "write" /\ real = root => Shaky(moved, root)

\* Nothing is used before the end.
Unused == pc \notin {"done", "failed"} => used = {}

IInv == Types /\ RootHeld /\ Held /\ Unused /\ Contained

--------------------------------------------------------------------------------
(* Naturals.                                                               *)

\* Every set of naturals that is not empty has a least element.
LEMMA LeastElement ==
  ASSUME NEW T, T \subseteq Nat, T # {}
  PROVE  \E x \in T : \A y \in T : x <= y
<1> DEFINE R == {ss \in Nat \X Nat : ss[1] < ss[2]}
<1>1. R = OpToRel(<, Nat)
  BY DEF OpToRel
<1>2. IsWellFoundedOn(R, Nat)
  BY <1>1, NatLessThanWellFounded
<1>3. PICK x \in T : \A y \in T : ~(<<y, x>> \in R)
  <2> HIDE DEF R
  <2> QED
    BY <1>2, WFMin
<1>4. ASSUME NEW y \in T PROVE x <= y
  <2>1. x \in Nat /\ y \in Nat
    OBVIOUS
  <2>2. <<y, x>> \in R <=> y < x
    BY <2>1
  <2>3. ~(y < x)
    <3> HIDE DEF R
    <3> QED
      BY <1>3, <2>2
  <2> QED
    BY <2>1, <2>3
<1> QED
  BY <1>4

\* So a set that holds 0, and n + 1 whenever it holds n, holds all up to N.
LEMMA UpToInduction ==
  ASSUME NEW N \in Nat, NEW S, 0 \in S,
         \A n \in 0 .. N - 1 : n \in S => n + 1 \in S
  PROVE  \A n \in 0 .. N : n \in S
<1> DEFINE T == {n \in 0 .. N : n \notin S}
<1> SUFFICES ASSUME T # {} PROVE FALSE
  OBVIOUS
<1>1. PICK x \in T : \A y \in T : x <= y
  <2>1. T \subseteq Nat
    OBVIOUS
  <2> HIDE DEF T
  <2> QED
    BY <2>1, LeastElement
<1>2. x \in 0 .. N /\ x \notin S /\ x # 0
  OBVIOUS
<1>3. x - 1 \in 0 .. N - 1 /\ x - 1 \notin T
  BY <1>1, <1>2
<1>4. x - 1 \in S
  BY <1>3
<1>5. (x - 1) + 1 \in S
  BY <1>3, <1>4
<1> QED
  BY <1>2, <1>5

--------------------------------------------------------------------------------
(* Sequences of names.                                                     *)

LEMMA Elements ==
  ASSUME NEW W, NEW s \in Seq(W), NEW t \in Seq(W), Len(s) = Len(t),
         \A i \in 1 .. Len(s) : s[i] = t[i]
  PROVE  s = t
OBVIOUS

LEMMA SubSeqFacts ==
  ASSUME NEW W, NEW s \in Seq(W), NEW m \in Int, NEW n \in Int, 1 <= m, m <= n + 1, n <= Len(s)
  PROVE  /\ SubSeq(s, m, n) \in Seq(W) /\ Len(SubSeq(s, m, n)) = n - m + 1
         /\ \A i \in 1 .. n - m + 1 : SubSeq(s, m, n)[i] = s[m + i - 1]
OBVIOUS

LEMMA PrefixFacts ==
  ASSUME NEW W, NEW s \in Seq(W), NEW k \in 0 .. Len(s)
  PROVE  /\ Prefix(s, k) \in Seq(W) /\ Len(Prefix(s, k)) = k
         /\ \A i \in 1 .. k : Prefix(s, k)[i] = s[i]
BY SubSeqFacts DEF Prefix

LEMMA PrefixPrefix ==
  ASSUME NEW W, NEW s \in Seq(W), NEW k \in 0 .. Len(s), NEW j \in 0 .. k
  PROVE  Prefix(Prefix(s, k), j) = Prefix(s, j)
<1>1. /\ Prefix(s, k) \in Seq(W) /\ Len(Prefix(s, k)) = k /\ j \in 0 .. Len(s)
      /\ \A i \in 1 .. k : Prefix(s, k)[i] = s[i]
  BY PrefixFacts
<1>2. /\ Prefix(Prefix(s, k), j) \in Seq(W) /\ Len(Prefix(Prefix(s, k), j)) = j
      /\ \A i \in 1 .. j : Prefix(Prefix(s, k), j)[i] = Prefix(s, k)[i]
  BY <1>1, PrefixFacts
<1>3. /\ Prefix(s, j) \in Seq(W) /\ Len(Prefix(s, j)) = j
      /\ \A i \in 1 .. j : Prefix(s, j)[i] = s[i]
  BY <1>1, PrefixFacts
<1>4. \A i \in 1 .. j : Prefix(Prefix(s, k), j)[i] = Prefix(s, j)[i]
  BY <1>1, <1>2, <1>3
<1> QED
  BY <1>2, <1>3, <1>4, Elements

LEMMA WholePrefix ==
  ASSUME NEW W, NEW s \in Seq(W)
  PROVE  Prefix(s, Len(s)) = s
<1>1. Len(s) \in 0 .. Len(s)
  OBVIOUS
<1> QED
  BY <1>1, PrefixFacts, Elements

LEMMA IsPrefixFacts ==
  ASSUME NEW W, NEW s \in Seq(W), NEW t \in Seq(W)
  PROVE  IsPrefix(s, t) <=> Len(s) <= Len(t) /\ s = Prefix(t, Len(s))
<1>1. SubSeq(s, 1, Len(s)) = s
  BY WholePrefix DEF Prefix
<1> QED
  BY <1>1 DEF IsPrefix, Prefix

LEMMA IsPrefixTransitive ==
  ASSUME NEW W, NEW r \in Seq(W), NEW s \in Seq(W), NEW t \in Seq(W),
         IsPrefix(r, s), IsPrefix(s, t)
  PROVE  IsPrefix(r, t)
<1>1. Len(r) <= Len(s) /\ r = Prefix(s, Len(r)) /\ Len(s) <= Len(t) /\ s = Prefix(t, Len(s))
  BY IsPrefixFacts
<1>2. Len(r) \in 0 .. Len(s) /\ Len(s) \in 0 .. Len(t)
  BY <1>1
<1>3. Prefix(Prefix(t, Len(s)), Len(r)) = Prefix(t, Len(r))
  BY <1>2, PrefixPrefix
<1>4. Len(r) <= Len(t) /\ r = Prefix(t, Len(r))
  BY <1>1, <1>2, <1>3
<1> QED
  BY <1>4, IsPrefixFacts

LEMMA PrefixIsPrefix ==
  ASSUME NEW W, NEW t \in Seq(W), NEW k \in 0 .. Len(t)
  PROVE  IsPrefix(Prefix(t, k), t)
<1>1. Prefix(t, k) \in Seq(W) /\ Len(Prefix(t, k)) = k
  BY PrefixFacts
<1> QED
  BY <1>1, IsPrefixFacts

\* Of two sequences that begin a third, the shorter begins the longer.
LEMMA IsPrefixLinear ==
  ASSUME NEW W, NEW r \in Seq(W), NEW s \in Seq(W), NEW t \in Seq(W),
         IsPrefix(r, t), IsPrefix(s, t), Len(r) <= Len(s)
  PROVE  IsPrefix(r, s)
<1>1. Len(s) <= Len(t) /\ r = Prefix(t, Len(r)) /\ s = Prefix(t, Len(s))
  BY IsPrefixFacts
<1>2. Len(s) \in 0 .. Len(t) /\ Len(r) \in 0 .. Len(s)
  BY <1>1
<1>3. Prefix(Prefix(t, Len(s)), Len(r)) = Prefix(t, Len(r))
  BY <1>2, PrefixPrefix
<1>4. r = Prefix(s, Len(r))
  BY <1>1, <1>3
<1> QED
  BY <1>4, IsPrefixFacts

LEMMA ParentFacts ==
  ASSUME NEW W, NEW p \in Seq(W)
  PROVE  /\ Parent(p) \in Seq(W)
         /\ p # <<>> => /\ Parent(p) = Prefix(p, Len(p) - 1) /\ Len(Parent(p)) = Len(p) - 1
                        /\ Front(p) = Parent(p) /\ Last(p) \in W /\ p = Append(Parent(p), Last(p))
<1>1. CASE p = <<>>
  BY <1>1 DEF Parent
<1>2. CASE p # <<>>
  <2> DEFINE n == Len(p) - 1
  <2>1. n \in 0 .. Len(p) /\ Len(p) = n + 1 /\ Last(p) = p[n + 1] /\ Last(p) \in W
    BY <1>2 DEF Last
  <2>2. Parent(p) = Prefix(p, n) /\ Front(p) = Parent(p)
    BY <1>2 DEF Parent, Front, Prefix
  <2> HIDE DEF n
  <2>3. Parent(p) \in Seq(W) /\ Len(Parent(p)) = n /\ \A i \in 1 .. n : Parent(p)[i] = p[i]
    BY <2>1, <2>2, PrefixFacts
  <2>4. /\ Append(Parent(p), Last(p)) \in Seq(W) /\ Len(Append(Parent(p), Last(p))) = Len(p)
        /\ \A i \in 1 .. Len(p) : Append(Parent(p), Last(p))[i] = p[i]
    BY <2>1, <2>3
  <2>5. p = Append(Parent(p), Last(p))
    BY <2>4, Elements
  <2> QED
    BY <2>1, <2>2, <2>3, <2>5 DEF n
<1> QED
  BY <1>1, <1>2

LEMMA AppendFacts ==
  ASSUME NEW W, NEW d \in Seq(W), NEW x \in W
  PROVE  /\ Append(d, x) \in Seq(W) /\ Len(Append(d, x)) = Len(d) + 1 /\ Append(d, x) # <<>>
         /\ Append(d, x)[Len(d) + 1] = x /\ \A i \in 1 .. Len(d) : Append(d, x)[i] = d[i]
         /\ \A k \in 0 .. Len(d) : Prefix(Append(d, x), k) = Prefix(d, k)
         /\ Parent(Append(d, x)) = d
<1> DEFINE a == Append(d, x)
<1>1. /\ a \in Seq(W) /\ Len(a) = Len(d) + 1 /\ a # <<>>
      /\ a[Len(d) + 1] = x /\ \A i \in 1 .. Len(d) : a[i] = d[i]
  OBVIOUS
<1> HIDE DEF a
<1>2. ASSUME NEW k \in 0 .. Len(d) PROVE Prefix(a, k) = Prefix(d, k)
  <2>1. k \in 0 .. Len(a)
    BY <1>1
  <2>2. /\ Prefix(a, k) \in Seq(W) /\ Len(Prefix(a, k)) = k
        /\ \A i \in 1 .. k : Prefix(a, k)[i] = a[i]
    BY <1>1, <2>1, PrefixFacts
  <2>3. /\ Prefix(d, k) \in Seq(W) /\ Len(Prefix(d, k)) = k
        /\ \A i \in 1 .. k : Prefix(d, k)[i] = d[i]
    BY PrefixFacts
  <2>4. \A i \in 1 .. k : Prefix(a, k)[i] = Prefix(d, k)[i]
    BY <1>1, <2>2, <2>3
  <2> QED
    BY <2>2, <2>3, <2>4, Elements
<1>3. Parent(a) = d
  <2>1. Parent(a) = Prefix(a, Len(d))
    BY <1>1, ParentFacts
  <2> QED
    BY <1>2, <2>1, WholePrefix
<1> QED
  BY <1>1, <1>2, <1>3 DEF a

--------------------------------------------------------------------------------
(* Trees.                                                                  *)

LEMMA Words ==
  ASSUME NEW s \in Seq(STRING)
  PROVE  s \in Seq(Word)
BY DEF Word

LEMMA LocationFacts ==
  ASSUME NEW p \in Locations
  PROVE  /\ p \in Seq(Word) /\ Plain(p) /\ p # Missing /\ Parent(p) \in Locations
         /\ Len(p) <= MaxWalk /\ Len(p) \in Nat
<1>1. p \in Seq(STRING) /\ ToSet(p) \cap Dots = {}
  BY TreesAssumption
<1>2. p \in Seq(Word)
  BY <1>1, Words
<1>3. \A i \in 1 .. Len(p) : p[i] \in ToSet(p)
  BY <1>1 DEF ToSet
<1>4. Plain(p)
  BY <1>1, <1>2, <1>3 DEF Plain
<1> QED
  BY <1>1, <1>2, <1>4, TreesAssumption

LEMMA EntryFacts ==
  ASSUME NEW e, IsEntry(e)
  PROVE  /\ e.kind \in {"none", "file", "dir", "link"}
         /\ e.kind = "none" <=> e = None
         /\ e.kind = "dir" <=> e = Dir
         /\ e.kind = "link" => e.to \in Seq(STRING)
BY DEF IsEntry, None, File, Dir, Link

LEMMA TreeFacts ==
  ASSUME NEW t, IsTree(t), NEW p \in Locations
  PROVE  /\ IsEntry(t[p]) /\ KindAt(t, p) = t[p].kind
         /\ t[p] # None => KindAt(t, Parent(p)) = "dir"
BY DEF IsTree, KindAt

LEMMA KindFacts ==
  ASSUME NEW t, IsTree(t), NEW p, KindAt(t, p) # "none"
  PROVE  /\ p \in Locations /\ KindAt(t, p) \in {"file", "dir", "link"}
         /\ KindAt(t, Parent(p)) = "dir"
         /\ KindAt(t, p) = "link" => t[p].to \in Seq(Word)
<1>1. p \in Locations
  BY DEF KindAt
<1>2. IsEntry(t[p]) /\ KindAt(t, p) = t[p].kind /\ (t[p] # None => KindAt(t, Parent(p)) = "dir")
  BY <1>1, TreeFacts
<1>3. /\ t[p] # None /\ t[p].kind \in {"file", "dir", "link"}
      /\ t[p].kind = "link" => t[p].to \in Seq(STRING)
  BY <1>2, EntryFacts
<1> QED
  BY <1>1, <1>2, <1>3, Words

\* The root of all is a directory.
LEMMA TopFacts ==
  ASSUME NEW t, IsTree(t)
  PROVE  <<>> \in Locations /\ KindAt(t, <<>>) = "dir"
BY TreesAssumption DEF IsTree, KindAt, Dir

\* All that is above an entry is a directory.
LEMMA Above ==
  ASSUME NEW t, IsTree(t), NEW p, KindAt(t, p) # "none"
  PROVE  \A k \in 0 .. Len(p) - 1 : KindAt(t, Prefix(p, k)) = "dir"
<1>1. p \in Locations /\ p \in Seq(Word) /\ Len(p) \in Nat
  BY KindFacts, LocationFacts
<1> DEFINE N == Len(p)
           S == {n \in 0 .. N : /\ KindAt(t, Prefix(p, N - n)) # "none"
                                /\ n # 0 => KindAt(t, Prefix(p, N - n)) = "dir"}
<1>2. N \in Nat /\ N = Len(p)
  BY <1>1
<1> HIDE DEF N
<1>3. 0 \in S
  <2>1. Prefix(p, N - 0) = p
    BY <1>1, <1>2, WholePrefix
  <2> QED
    BY <1>2, <2>1
<1>4. ASSUME NEW n \in 0 .. N - 1, n \in S PROVE n + 1 \in S
  <2> DEFINE k == N - n
  <2>1. k \in 1 .. N /\ k \in 0 .. Len(p) /\ N - (n + 1) = k - 1 /\ k - 1 \in 0 .. k
    BY <1>2
  <2>2. KindAt(t, Prefix(p, k)) # "none"
    BY <1>4
  <2> HIDE DEF k
  <2>3. Prefix(p, k) \in Seq(Word) /\ Len(Prefix(p, k)) = k
    BY <1>1, <2>1, PrefixFacts
  <2>4. Prefix(p, k) # <<>>
    BY <2>1, <2>3
  <2>5. Parent(Prefix(p, k)) = Prefix(Prefix(p, k), k - 1)
    BY <2>3, <2>4, ParentFacts
  <2>6. Parent(Prefix(p, k)) = Prefix(p, k - 1)
    BY <1>1, <2>1, <2>5, PrefixPrefix
  <2>7. KindAt(t, Prefix(p, N - (n + 1))) = "dir"
    BY <2>1, <2>2, <2>6, KindFacts
  <2>8. n + 1 \in 0 .. N
    BY <1>2
  <2> QED
    BY <2>7, <2>8
<1>5. \A n \in 0 .. N : n \in S
  <2> HIDE DEF S
  <2> QED
    BY <1>2, <1>3, <1>4, UpToInduction
<1>6. ASSUME NEW k \in 0 .. Len(p) - 1 PROVE KindAt(t, Prefix(p, k)) = "dir"
  <2>1. N - k \in 0 .. N /\ N - k # 0 /\ N - (N - k) = k
    BY <1>2
  <2>2. N - k \in S
    BY <1>5, <2>1
  <2> QED
    BY <2>1, <2>2
<1> QED
  BY <1>6

--------------------------------------------------------------------------------
(* Walks.                                                                  *)

\* The recursion of Steps has a solution.
LEMMA StepsExist ==
  ASSUME NEW t, NEW lenient, NEW from, NEW n \in Nat
  PROVE  \E f : f = [k \in 0 .. n |-> IF k = 0 THEN from ELSE Advance(t, lenient, f[k - 1])]
<1> DEFINE Solves(f, m) == f = [k \in 0 .. m |-> IF k = 0 THEN from ELSE Advance(t, lenient, f[k - 1])]
           S == {m \in 0 .. n : \E f : Solves(f, m)}
<1>1. 0 \in S
  <2> DEFINE f == [k \in 0 .. 0 |-> from]
  <2>1. Solves(f, 0)
    OBVIOUS
  <2> HIDE DEF f, Solves
  <2> QED
    BY <2>1
<1>2. ASSUME NEW m \in 0 .. n - 1, m \in S PROVE m + 1 \in S
  <2>1. PICK f : Solves(f, m)
    BY <1>2
  <2> DEFINE g == [k \in 0 .. m + 1 |-> IF k <= m THEN f[k] ELSE Advance(t, lenient, f[m])]
  <2>2. ASSUME NEW k \in 0 .. m + 1
        PROVE  g[k] = IF k = 0 THEN from ELSE Advance(t, lenient, g[k - 1])
    <3>1. CASE k = 0
      BY <2>1, <3>1
    <3>2. CASE k \in 1 .. m
      <4>1. g[k] = f[k] /\ g[k - 1] = f[k - 1] /\ k \in 0 .. m
        BY <3>2
      <4> QED
        BY <2>1, <3>2, <4>1
    <3>3. CASE k = m + 1
      BY <3>3
    <3> QED
      BY <3>1, <3>2, <3>3
  <2>3. g = [k \in 0 .. m + 1 |-> g[k]]
    OBVIOUS
  <2> HIDE DEF g
  <2>4. Solves(g, m + 1)
    BY <2>2, <2>3
  <2> HIDE DEF Solves
  <2> QED
    BY <2>4
<1>3. n \in S
  <2> HIDE DEF S
  <2>1. \A m \in 0 .. n : m \in S
    BY <1>1, <1>2, UpToInduction
  <2> QED
    BY <2>1
<1> QED
  BY <1>3

\* What holds of a state after j components, and is kept by each, holds after n
\* more.
LEMMA StepsKeep ==
  ASSUME NEW t, NEW lenient, NEW from, NEW I, NEW j \in Nat, NEW n \in Nat, from \in I[j],
         \A k \in Nat : \A s \in I[k] : Advance(t, lenient, s) \in I[k + 1]
  PROVE  Steps(t, lenient, n, from) \in I[j + n]
<1> DEFINE f == CHOOSE f : f = [k \in 0 .. n |-> IF k = 0 THEN from ELSE Advance(t, lenient, f[k - 1])]
           S == {m \in 0 .. n : f[m] \in I[j + m]}
<1>1. f = [k \in 0 .. n |-> IF k = 0 THEN from ELSE Advance(t, lenient, f[k - 1])]
  BY StepsExist
<1>2. Steps(t, lenient, n, from) = f[n]
  BY DEF Steps
<1> HIDE DEF f
<1>3. 0 \in S
  BY <1>1
<1>4. ASSUME NEW m \in 0 .. n - 1, m \in S PROVE m + 1 \in S
  <2>1. m + 1 \in 0 .. n /\ m + 1 # 0 /\ (m + 1) - 1 = m /\ j + m \in Nat /\ (j + m) + 1 = j + (m + 1)
    OBVIOUS
  <2>2. f[m + 1] = Advance(t, lenient, f[m])
    BY <1>1, <2>1
  <2>3. f[m] \in I[j + m]
    BY <1>4
  <2>4. Advance(t, lenient, f[m]) \in I[(j + m) + 1]
    BY <2>1, <2>3
  <2> QED
    BY <2>1, <2>2, <2>4
<1>5. n \in S
  <2> HIDE DEF S
  <2>1. \A m \in 0 .. n : m \in S
    BY <1>3, <1>4, UpToInduction
  <2> QED
    BY <2>1
<1> QED
  BY <1>2, <1>5

\* So it holds of the state a walk ends in, which it reaches in MaxWalk steps or
\* with nothing left to do.
LEMMA WalkKeeps ==
  ASSUME NEW t, NEW lenient, NEW path, NEW I, [at |-> <<>>, rest |-> path] \in I[0],
         \A k \in Nat : \A s \in I[k] : Advance(t, lenient, s) \in I[k + 1]
  PROVE  \E n \in Nat : \E s \in I[n] :
           /\ n = MaxWalk \/ s.rest = <<>>
           /\ Walk(t, lenient, path) = IF s.rest = <<>> THEN s.at ELSE Missing
<1> DEFINE from  == [at |-> <<>>, rest |-> path]
           early == Steps(t, lenient, 8, from)
           late  == Steps(t, lenient, MaxWalk - 8, early)
<1>1. from \in I[0] /\ 8 \in Nat /\ 0 \in Nat /\ 0 + 8 = 8
  OBVIOUS
<1>2. MaxWalk - 8 \in Nat /\ 8 + (MaxWalk - 8) = MaxWalk /\ MaxWalk \in Nat
  BY TreesAssumption
<1>3. Walk(t, lenient, path) = IF early.rest = <<>> THEN early.at
                               ELSE IF late.rest = <<>> THEN late.at ELSE Missing
  BY DEF Walk
<1> HIDE DEF from
<1>4. early \in I[8]
  <2>1. Steps(t, lenient, 8, from) \in I[0 + 8]
    BY <1>1, StepsKeep
  <2> QED
    BY <1>1, <2>1
<1> HIDE DEF early
<1>5. late \in I[MaxWalk]
  <2>1. Steps(t, lenient, MaxWalk - 8, early) \in I[8 + (MaxWalk - 8)]
    BY <1>1, <1>2, <1>4, StepsKeep
  <2> QED
    BY <1>2, <2>1
<1> HIDE DEF late
<1>6. CASE early.rest = <<>>
  BY <1>1, <1>3, <1>4, <1>6
<1>7. CASE early.rest # <<>>
  BY <1>2, <1>3, <1>5, <1>7
<1> QED
  BY <1>6, <1>7

\* A component stays, goes up, goes down, follows a link or fails.
LEMMA AdvanceFacts ==
  ASSUME NEW t, NEW lenient, NEW s, s.rest # <<>>
  PROVE  LET rest == Tail(s.rest)
             next == Append(s.at, Head(s.rest))
         IN \/ Advance(t, lenient, s) = [at |-> s.at, rest |-> rest]
            \/ Advance(t, lenient, s) = [at |-> Parent(s.at), rest |-> rest]
            \/ Advance(t, lenient, s) = [at |-> Missing, rest |-> <<>>]
            \/ /\ KindAt(t, next) \in {"file", "dir"}
               /\ Advance(t, lenient, s) = [at |-> next, rest |-> rest]
            \/ /\ KindAt(t, next) = "link"
               /\ Advance(t, lenient, s) = [at |-> <<>>, rest |-> t[next].to \o rest]
<1> DEFINE name == Head(s.rest)
           rest == Tail(s.rest)
           next == Append(s.at, name)
           dir  == KindAt(t, s.at) = "dir"
<1>1. Advance(t, lenient, s) =
        CASE name = "."  /\ (dir \/ lenient) -> [at |-> s.at, rest |-> rest]
          [] name = ".." /\ (dir \/ lenient) -> [at |-> Parent(s.at), rest |-> rest]
          [] dir /\ KindAt(t, next) \in {"file", "dir"} -> [at |-> next, rest |-> rest]
          [] dir /\ KindAt(t, next) = "link" -> [at |-> <<>>, rest |-> t[next].to \o rest]
          [] OTHER -> [at |-> Missing, rest |-> <<>>]
  BY DEF Advance
<1> HIDE DEF name, rest, next, dir
<1> QED
  BY <1>1 DEF name, rest, next

\* A walk ends at a file or a directory, or nowhere.
LEMMA WalkEnds ==
  ASSUME NEW t, IsTree(t), NEW lenient, NEW path \in Seq(Word), Walk(t, lenient, path) # Missing
  PROVE  KindAt(t, Walk(t, lenient, path)) \in {"file", "dir"}
<1> DEFINE Good == {p \in Locations : KindAt(t, p) \in {"file", "dir"}}
           G == {s \in [at : Good, rest : Seq(Word)] : TRUE} \cup {[at |-> Missing, rest |-> <<>>]}
           I == [k \in Nat |-> G]
<1>1. [at |-> <<>>, rest |-> path] \in G
  <2>1. <<>> \in Good
    BY TopFacts
  <2> HIDE DEF Good
  <2> QED
    BY <2>1
<1>2. ASSUME NEW s \in G PROVE Advance(t, lenient, s) \in G
  <2>1. CASE s.rest = <<>>
    BY <1>2, <2>1 DEF Advance
  <2>2. CASE s.rest # <<>>
    <3> DEFINE rest == Tail(s.rest)
               next == Append(s.at, Head(s.rest))
    <3>1. s.at \in Good /\ rest \in Seq(Word)
      BY <2>2
    <3>2. Parent(s.at) \in Good
      <4>1. KindAt(t, s.at) # "none"
        BY <3>1
      <4>2. KindAt(t, Parent(s.at)) = "dir"
        BY <4>1, KindFacts
      <4> QED
        BY <4>2 DEF KindAt
    <3>3. KindAt(t, next) \in {"file", "dir"} => next \in Good
      BY DEF KindAt
    <3>4. <<>> \in Good
      BY TopFacts
    <3>5. KindAt(t, next) = "link" => t[next].to \o rest \in Seq(Word)
      <4>1. KindAt(t, next) = "link" => t[next].to \in Seq(Word)
        BY KindFacts
      <4> HIDE DEF next, rest
      <4> QED
        BY <3>1, <4>1
    <3>6. s.rest # <<>>
      BY <2>2
    <3> HIDE DEF Good, next, rest, G
    <3>7. /\ \A x \in Good : [at |-> x, rest |-> rest] \in G
          /\ [at |-> Missing, rest |-> <<>>] \in G
          /\ \A x \in Seq(Word) : [at |-> <<>>, rest |-> x] \in G
      BY <3>1, <3>4 DEF G
    <3>8. \/ Advance(t, lenient, s) = [at |-> s.at, rest |-> rest]
          \/ Advance(t, lenient, s) = [at |-> Parent(s.at), rest |-> rest]
          \/ Advance(t, lenient, s) = [at |-> Missing, rest |-> <<>>]
          \/ /\ KindAt(t, next) \in {"file", "dir"}
             /\ Advance(t, lenient, s) = [at |-> next, rest |-> rest]
          \/ /\ KindAt(t, next) = "link"
             /\ Advance(t, lenient, s) = [at |-> <<>>, rest |-> t[next].to \o rest]
      BY <3>6, AdvanceFacts DEF rest, next
    <3> QED
      BY <3>1, <3>2, <3>3, <3>5, <3>7, <3>8
  <2> QED
    BY <2>1, <2>2
<1> HIDE DEF G
<1>3. 0 \in Nat /\ \A k \in Nat : I[k] = G /\ k + 1 \in Nat
  OBVIOUS
<1>4. /\ [at |-> <<>>, rest |-> path] \in I[0]
      /\ \A k \in Nat : \A s \in I[k] : Advance(t, lenient, s) \in I[k + 1]
  BY <1>1, <1>2, <1>3
<1> HIDE DEF I
<1>5. \E n \in Nat : \E s \in I[n] :
        /\ n = MaxWalk \/ s.rest = <<>>
        /\ Walk(t, lenient, path) = IF s.rest = <<>> THEN s.at ELSE Missing
  BY <1>4, WalkKeeps
<1>6. PICK s \in G : Walk(t, lenient, path) = IF s.rest = <<>> THEN s.at ELSE Missing
  BY <1>3, <1>5
<1>7. s.at \in Good
  <2>1. s.at # Missing
    BY <1>6
  <2> QED
    BY <2>1 DEF G
<1> QED
  BY <1>6, <1>7

\* A walk that has done k components of p, and one that has failed.
On(p, k) == [at |-> Prefix(p, k), rest |-> SubSeq(p, k + 1, Len(p))]
Lost     == [at |-> Missing, rest |-> <<>>]

\* One component of a path without dots.
LEMMA PlainStep ==
  ASSUME NEW t, NEW lenient, NEW p, Plain(p), NEW k \in 0 .. Len(p)
  PROVE  /\ k = Len(p) => On(p, k).rest = <<>> /\ On(p, k).at = p
         /\ k < Len(p) =>
              /\ On(p, k).rest # <<>>
              /\ KindAt(t, Prefix(p, k)) = "dir" /\ KindAt(t, Prefix(p, k + 1)) \in {"file", "dir"} =>
                   Advance(t, lenient, On(p, k)) = On(p, k + 1)
              /\ KindAt(t, Prefix(p, k + 1)) # "link" =>
                   Advance(t, lenient, On(p, k)) \in {On(p, k + 1), Lost}
<1> DEFINE s == On(p, k)
<1>1. p \in Seq(Word) /\ Len(p) \in Nat
  BY DEF Plain
<1>2. CASE k = Len(p)
  <2>1. SubSeq(p, k + 1, Len(p)) = <<>>
    BY <1>1, <1>2
  <2>2. Prefix(p, k) = p
    BY <1>1, <1>2, WholePrefix
  <2> QED
    BY <1>2, <2>1, <2>2 DEF On
<1>3. CASE k < Len(p)
  <2> DEFINE tail == SubSeq(p, k + 1, Len(p))
  <2>1. k + 1 \in 1 .. Len(p) /\ k + 1 \in 0 .. Len(p) /\ p[k + 1] \notin Dots /\ p[k + 1] \in Word
    BY <1>1, <1>3 DEF Plain
  <2>2. /\ tail \in Seq(Word) /\ Len(tail) = Len(p) - k
        /\ \A i \in 1 .. Len(p) - k : tail[i] = p[k + i]
    BY <1>1, <1>3, SubSeqFacts
  <2>3. s.rest # <<>> /\ Head(s.rest) = p[k + 1]
    <3> HIDE DEF tail
    <3>1. s.rest = tail
      BY DEF tail, On
    <3> QED
      BY <1>1, <1>3, <2>2, <3>1
  <2>4. Tail(s.rest) = SubSeq(p, k + 2, Len(p))
    <3>1. /\ SubSeq(p, k + 2, Len(p)) \in Seq(Word) /\ Len(SubSeq(p, k + 2, Len(p))) = Len(p) - k - 1
          /\ \A i \in 1 .. Len(p) - k - 1 : SubSeq(p, k + 2, Len(p))[i] = p[k + i + 1]
      BY <1>1, <1>3, SubSeqFacts
    <3>2. s.rest = tail
      BY DEF On
    <3> HIDE DEF tail
    <3>3. /\ Tail(tail) \in Seq(Word) /\ Len(Tail(tail)) = Len(p) - k - 1
          /\ \A i \in 1 .. Len(p) - k - 1 : Tail(tail)[i] = tail[i + 1]
      BY <1>1, <1>3, <2>2
    <3>4. \A i \in 1 .. Len(p) - k - 1 : Tail(tail)[i] = SubSeq(p, k + 2, Len(p))[i]
      <4> TAKE i \in 1 .. Len(p) - k - 1
      <4>1. i + 1 \in 1 .. Len(p) - k /\ k + (i + 1) = k + i + 1
        BY <1>1
      <4> QED
        BY <2>2, <3>1, <3>3, <4>1
    <3> QED
      BY <3>1, <3>2, <3>3, <3>4, Elements
  <2>5. Append(s.at, p[k + 1]) = Prefix(p, k + 1)
    <3> DEFINE q == Prefix(p, k + 1)
    <3>1. q \in Seq(Word) /\ Len(q) = k + 1 /\ q[k + 1] = p[k + 1]
      <4>1. \A i \in 1 .. k + 1 : q[i] = p[i]
        BY <1>1, <2>1, PrefixFacts
      <4>2. q \in Seq(Word) /\ Len(q) = k + 1
        BY <1>1, <2>1, PrefixFacts
      <4> HIDE DEF q
      <4> QED
        BY <2>1, <4>1, <4>2
    <3>2. Prefix(q, k) = Prefix(p, k)
      BY <1>1, <2>1, PrefixPrefix
    <3> HIDE DEF q
    <3>3. q # <<>> /\ Last(q) = p[k + 1]
      BY <3>1 DEF Last
    <3>4. Parent(q) = Prefix(q, k) /\ q = Append(Parent(q), Last(q))
      BY <3>1, <3>3, ParentFacts
    <3> QED
      BY <3>2, <3>3, <3>4 DEF q, On
  <2>6. p[k + 1] # "." /\ p[k + 1] # ".."
    BY <2>1 DEF Dots
  <2>7. s.at = Prefix(p, k) /\ On(p, k + 1) = [at |-> Prefix(p, k + 1), rest |-> Tail(s.rest)]
    <3>1. (k + 1) + 1 = k + 2
      OBVIOUS
    <3> HIDE DEF s
    <3>2. On(p, k + 1) = [at |-> Prefix(p, k + 1), rest |-> SubSeq(p, k + 2, Len(p))]
      BY <3>1 DEF On
    <3> QED
      BY <2>4, <3>2 DEF s, On
  <2> HIDE DEF s
  <2>8. Advance(t, lenient, s) =
          CASE KindAt(t, s.at) = "dir" /\ KindAt(t, Prefix(p, k + 1)) \in {"file", "dir"} ->
                 On(p, k + 1)
            [] KindAt(t, s.at) = "dir" /\ KindAt(t, Prefix(p, k + 1)) = "link" ->
                 [at |-> <<>>, rest |-> t[Prefix(p, k + 1)].to \o Tail(s.rest)]
            [] OTHER -> Lost
    BY <2>3, <2>5, <2>6, <2>7 DEF Advance, Lost
  <2>9. KindAt(t, Prefix(p, k)) = "dir" /\ KindAt(t, Prefix(p, k + 1)) \in {"file", "dir"} =>
          Advance(t, lenient, s) = On(p, k + 1)
    BY <2>7, <2>8
  <2>10. KindAt(t, Prefix(p, k + 1)) # "link" => Advance(t, lenient, s) \in {On(p, k + 1), Lost}
    BY <2>7, <2>8
  <2>11. k # Len(p)
    BY <1>1, <1>3
  <2> USE DEF s
  <2>12. On(p, k).rest # <<>>
    BY <2>3
  <2> HIDE DEF s
  <2> QED
    BY <2>9, <2>10, <2>11, <2>12, Zenon DEF s
<1> QED
  BY <1>1, <1>2, <1>3

\* Where nothing of a path is a link, the walk goes nowhere else.
LEMMA WalkStraight ==
  ASSUME NEW t, NEW p, Plain(p), \A k \in 0 .. Len(p) : KindAt(t, Prefix(p, k)) # "link"
  PROVE  Walk(t, FALSE, p) \in {p, Missing}
<1> DEFINE G == {On(p, k) : k \in 0 .. Len(p)} \cup {Lost}
           I == [k \in Nat |-> G]
<1>1. p \in Seq(Word) /\ Len(p) \in Nat
  BY DEF Plain
<1>2. [at |-> <<>>, rest |-> p] \in G
  <2>1. Prefix(p, 0) = <<>> /\ SubSeq(p, 0 + 1, Len(p)) = p
    BY <1>1, WholePrefix DEF Prefix
  <2>2. On(p, 0) = [at |-> <<>>, rest |-> p]
    BY <2>1 DEF On
  <2>3. 0 \in 0 .. Len(p)
    BY <1>1
  <2> QED
    BY <2>2, <2>3
<1>3. ASSUME NEW s \in G PROVE Advance(t, FALSE, s) \in G /\ (s.rest = <<>> => s.at \in {p, Missing})
  <2>1. CASE s = Lost
    BY <2>1 DEF Advance, Lost
  <2>2. ASSUME NEW k \in 0 .. Len(p), s = On(p, k)
        PROVE  Advance(t, FALSE, s) \in G /\ (s.rest = <<>> => s.at \in {p, Missing})
    <3>1. CASE k = Len(p)
      <4>1. s.rest = <<>> /\ s.at = p
        BY <2>2, <3>1, PlainStep
      <4>2. Advance(t, FALSE, s) = s
        BY <4>1 DEF Advance
      <4> QED
        BY <4>1, <4>2
    <3>2. CASE k < Len(p)
      <4>1. k + 1 \in 0 .. Len(p)
        BY <1>1, <3>2
      <4>2. KindAt(t, Prefix(p, k + 1)) # "link"
        BY <4>1
      <4>3. s.rest # <<>> /\ Advance(t, FALSE, s) \in {On(p, k + 1), Lost}
        BY <2>2, <3>2, <4>2, PlainStep
      <4> QED
        BY <4>1, <4>3
    <3>3. k = Len(p) \/ k < Len(p)
      BY <1>1
    <3> HIDE DEF G
    <3> QED
      BY <3>1, <3>2, <3>3
  <2> QED
    BY <2>1, <2>2
<1> HIDE DEF G
<1>4. 0 \in Nat /\ \A k \in Nat : I[k] = G /\ k + 1 \in Nat
  OBVIOUS
<1>5. /\ [at |-> <<>>, rest |-> p] \in I[0]
      /\ \A k \in Nat : \A s \in I[k] : Advance(t, FALSE, s) \in I[k + 1]
  BY <1>2, <1>3, <1>4
<1> HIDE DEF I
<1>6. \E n \in Nat : \E s \in I[n] :
        /\ n = MaxWalk \/ s.rest = <<>>
        /\ Walk(t, FALSE, p) = IF s.rest = <<>> THEN s.at ELSE Missing
  BY <1>5, WalkKeeps
<1>7. PICK s \in G : Walk(t, FALSE, p) = IF s.rest = <<>> THEN s.at ELSE Missing
  BY <1>4, <1>6
<1> QED
  BY <1>3, <1>7

\* Where all of it is directories, it arrives.
LEMMA WalkArrives ==
  ASSUME NEW t, NEW p, Plain(p), Len(p) <= MaxWalk,
         \A k \in 0 .. Len(p) : KindAt(t, Prefix(p, k)) = "dir"
  PROVE  Walk(t, FALSE, p) = p
<1> DEFINE G(k) == {On(p, IF k < Len(p) THEN k ELSE Len(p))}
           I == [k \in Nat |-> G(k)]
<1>1. p \in Seq(Word) /\ Len(p) \in Nat
  BY DEF Plain
<1>2. 0 \in Nat /\ \A k \in Nat : I[k] = G(k) /\ k + 1 \in Nat
  OBVIOUS
<1>3. [at |-> <<>>, rest |-> p] \in I[0]
  <2>1. Prefix(p, 0) = <<>> /\ SubSeq(p, 0 + 1, Len(p)) = p
    BY <1>1, WholePrefix DEF Prefix
  <2>2. On(p, 0) = [at |-> <<>>, rest |-> p]
    BY <2>1 DEF On
  <2>3. (IF 0 < Len(p) THEN 0 ELSE Len(p)) = 0
    BY <1>1
  <2> HIDE DEF I
  <2> QED
    BY <1>2, <2>2, <2>3
<1>4. On(p, Len(p)).rest = <<>> /\ On(p, Len(p)).at = p
  <2>1. Len(p) \in 0 .. Len(p)
    BY <1>1
  <2> QED
    BY <2>1, PlainStep
<1>5. ASSUME NEW k \in Nat, NEW s \in G(k) PROVE Advance(t, FALSE, s) \in G(k + 1)
  <2>1. CASE k < Len(p)
    <3>1. k \in 0 .. Len(p) /\ k + 1 \in 0 .. Len(p) /\ s = On(p, k)
      BY <1>1, <2>1
    <3>2. (IF k + 1 < Len(p) THEN k + 1 ELSE Len(p)) = k + 1
      BY <1>1, <2>1
    <3>3. KindAt(t, Prefix(p, k)) = "dir" /\ KindAt(t, Prefix(p, k + 1)) \in {"file", "dir"}
      BY <3>1
    <3>4. Advance(t, FALSE, On(p, k)) = On(p, k + 1)
      BY <2>1, <3>1, <3>3, PlainStep
    <3> QED
      BY <3>1, <3>2, <3>4
  <2>2. CASE ~(k < Len(p))
    <3>1. s = On(p, Len(p))
      BY <2>2
    <3>2. Advance(t, FALSE, s) = s
      BY <1>4, <3>1 DEF Advance
    <3>3. (IF k + 1 < Len(p) THEN k + 1 ELSE Len(p)) = Len(p)
      BY <1>1, <2>2
    <3> QED
      BY <3>1, <3>2, <3>3
  <2> QED
    BY <2>1, <2>2
<1> HIDE DEF I
<1>6. \A k \in Nat : \A s \in I[k] : Advance(t, FALSE, s) \in I[k + 1]
  <2> HIDE DEF G
  <2> QED
    BY <1>2, <1>5
<1>7. \E n \in Nat : \E s \in I[n] :
        /\ n = MaxWalk \/ s.rest = <<>>
        /\ Walk(t, FALSE, p) = IF s.rest = <<>> THEN s.at ELSE Missing
  BY <1>3, <1>6, WalkKeeps
<1>8. PICK n \in Nat : \E s \in G(n) :
        /\ n = MaxWalk \/ s.rest = <<>>
        /\ Walk(t, FALSE, p) = IF s.rest = <<>> THEN s.at ELSE Missing
  <2> HIDE DEF G
  <2> QED
    BY <1>2, <1>7
<1>9. PICK s \in G(n) :
        /\ n = MaxWalk \/ s.rest = <<>>
        /\ Walk(t, FALSE, p) = IF s.rest = <<>> THEN s.at ELSE Missing
  BY <1>8
<1>10. s = On(p, Len(p))
  <2>1. CASE n < Len(p)
    <3>1. s = On(p, n) /\ n \in 0 .. Len(p)
      BY <1>1, <2>1
    <3>2. s.rest # <<>>
      BY <2>1, <3>1, PlainStep
    <3>3. n # MaxWalk
      BY <1>1, <2>1, TreesAssumption
    <3> QED
      BY <1>9, <3>2, <3>3
  <2>2. CASE ~(n < Len(p))
    BY <2>2
  <2> QED
    BY <2>1, <2>2
<1> QED
  BY <1>4, <1>9, <1>10

--------------------------------------------------------------------------------
(* What others have changed.                                               *)

LEMMA ShakyDown ==
  ASSUME NEW m \in SUBSET Locations, NEW p \in Seq(Word), NEW k \in 0 .. Len(p),
         Shaky(m, Prefix(p, k))
  PROVE  Shaky(m, p)
<1>1. PICK x \in m : IsPrefix(x, Prefix(p, k))
  BY DEF Shaky
<1>2. x \in Seq(Word) /\ Prefix(p, k) \in Seq(Word) /\ IsPrefix(Prefix(p, k), p)
  BY LocationFacts, PrefixFacts, PrefixIsPrefix
<1>3. IsPrefix(x, p)
  BY <1>1, <1>2, IsPrefixTransitive
<1> QED
  BY <1>3 DEF Shaky

\* Nothing of a path that is not shaky is.
LEMMA Unshaken ==
  ASSUME NEW m \in SUBSET Locations, NEW p \in Seq(Word), ~Shaky(m, p)
  PROVE  \A k \in 0 .. Len(p) : ~Shaky(m, Prefix(p, k))
BY ShakyDown

\* What a walk arrives at is steady.
LEMMA EntrySteady ==
  ASSUME NEW t, IsTree(t), NEW m, NEW p, KindAt(t, p) \in {"file", "dir"}
  PROVE  p \in Locations /\ Plain(p) /\ Steady(t, m, p)
<1>1. p \in Locations /\ p \in Seq(Word) /\ Plain(p) /\ Len(p) \in Nat
  BY KindFacts, LocationFacts
<1>2. \A k \in 0 .. Len(p) - 1 : KindAt(t, Prefix(p, k)) = "dir"
  BY Above
<1>3. Prefix(p, Len(p)) = p
  BY <1>1, WholePrefix
<1>4. ASSUME NEW k \in 0 .. Len(p) PROVE KindAt(t, Prefix(p, k)) # "link"
  <2>1. k = Len(p) \/ k \in 0 .. Len(p) - 1
    BY <1>1
  <2> QED
    BY <1>2, <1>3, <2>1
<1> QED
  BY <1>1, <1>4 DEF Steady

LEMMA DirectorySolid ==
  ASSUME NEW t, IsTree(t), NEW m, NEW p, KindAt(t, p) = "dir"
  PROVE  Solid(t, m, p)
<1>1. p \in Locations /\ p \in Seq(Word) /\ Len(p) \in Nat
  BY KindFacts, LocationFacts
<1>2. \A k \in 0 .. Len(p) - 1 : KindAt(t, Prefix(p, k)) = "dir"
  BY Above
<1>3. Prefix(p, Len(p)) = p
  BY <1>1, WholePrefix
<1>4. ASSUME NEW k \in 0 .. Len(p) PROVE KindAt(t, Prefix(p, k)) = "dir"
  <2>1. k = Len(p) \/ k \in 0 .. Len(p) - 1
    BY <1>1
  <2> QED
    BY <1>2, <1>3, <2>1
<1> QED
  BY <1>4 DEF Solid

\* A solid root that is not shaken is found where it was.
LEMMA SolidReached ==
  ASSUME NEW t, NEW m \in SUBSET Locations, NEW r \in Locations, Solid(t, m, r), ~Shaky(m, r)
  PROVE  Walk(t, FALSE, r) = r /\ KindAt(t, r) = "dir"
<1>1. r \in Seq(Word) /\ Plain(r) /\ Len(r) <= MaxWalk /\ Len(r) \in Nat
  BY LocationFacts
<1>2. \A k \in 0 .. Len(r) : ~Shaky(m, Prefix(r, k))
  BY <1>1, Unshaken
<1>3. \A k \in 0 .. Len(r) : KindAt(t, Prefix(r, k)) = "dir"
  BY <1>2 DEF Solid
<1>4. Walk(t, FALSE, r) = r
  BY <1>1, <1>3, WalkArrives
<1>5. Prefix(r, Len(r)) = r /\ Len(r) \in 0 .. Len(r)
  BY <1>1, WholePrefix
<1>6. KindAt(t, r) = "dir"
  BY <1>3, <1>5
<1> QED
  BY <1>4, <1>6

\* A change that makes links, and unmakes directories, only of what is shaky
\* keeps all that is held.
LEMMA ChangeHeld ==
  ASSUME NEW t, NEW u, NEW m, NEW n, m \subseteq n, NEW p,
         \A q : KindAt(u, q) = "link" => KindAt(t, q) = "link" \/ Shaky(n, q),
         \A q : KindAt(t, q) = "dir" => KindAt(u, q) = "dir" \/ Shaky(n, q)
  PROVE  /\ Lead(t, m, p) => Lead(u, n, p)
         /\ Steady(t, m, p) => Steady(u, n, p)
         /\ Solid(t, m, p) => Solid(u, n, p)
<1>1. \A q : Shaky(m, q) => Shaky(n, q)
  BY DEF Shaky
<1>2. Lead(t, m, p) => Lead(u, n, p)
  BY <1>1 DEF Lead
<1>3. Steady(t, m, p) => Steady(u, n, p)
  BY <1>1 DEF Steady
<1>4. Solid(t, m, p) => Solid(u, n, p)
  BY <1>1 DEF Solid
<1> QED
  BY <1>2, <1>3, <1>4

\* What has no link on its way, and is none itself as lstat() tells, is steady.
LEMMA LeafSteady ==
  ASSUME NEW m, IsTree(tree), Plain(real), Lead(tree, m, real), lstat(real) # "link"
  PROVE  Steady(tree, m, real)
<1>1. KindAt(tree, real) # "link"
  <2> SUFFICES ASSUME KindAt(tree, real) = "link" PROVE FALSE
    OBVIOUS
  <2>1. real \in Locations /\ real \in Seq(Word) /\ Len(real) <= MaxWalk /\ Len(real) \in Nat
    BY KindFacts, LocationFacts
  <2>2. real # <<>>
    BY TopFacts
  <2> DEFINE d == Front(real)
  <2>3. /\ d \in Seq(Word) /\ d = Prefix(real, Len(real) - 1) /\ Len(d) = Len(real) - 1
        /\ d = Parent(real) /\ real = Append(d, Last(real))
    BY <2>1, <2>2, ParentFacts
  <2> HIDE DEF d
  <2>4. d \in Locations /\ Plain(d) /\ Len(d) <= MaxWalk /\ Len(d) \in Nat
    BY <2>1, <2>3, LocationFacts
  <2>5. KindAt(tree, d) = "dir"
    BY <2>3, KindFacts
  <2>6. \A k \in 0 .. Len(d) : KindAt(tree, Prefix(d, k)) = "dir"
    <3>1. \A k \in 0 .. Len(d) - 1 : KindAt(tree, Prefix(d, k)) = "dir"
      BY <2>5, Above
    <3>2. Prefix(d, Len(d)) = d
      BY <2>3, WholePrefix
    <3> TAKE k \in 0 .. Len(d)
    <3>3. k = Len(d) \/ k \in 0 .. Len(d) - 1
      BY <2>4
    <3> QED
      BY <2>5, <3>1, <3>2, <3>3
  <2>7. Walk(tree, FALSE, d) = d
    BY <2>4, <2>6, WalkArrives
  <2>8. lstat(real) = KindAt(tree, Append(d, Last(real)))
    BY <2>2, <2>5, <2>7 DEF lstat, d
  <2> QED
    BY <2>3, <2>8
<1>2. real \in Seq(Word) /\ Len(real) \in Nat /\ Prefix(real, Len(real)) = real
  BY WholePrefix DEF Plain
<1>3. ASSUME NEW k \in 0 .. Len(real), KindAt(tree, Prefix(real, k)) = "link"
      PROVE  Shaky(m, Prefix(real, k))
  <2>1. k # Len(real)
    BY <1>1, <1>2, <1>3
  <2>2. k \in 0 .. Len(real) - 1
    BY <1>2, <2>1
  <2> QED
    BY <1>3, <2>2 DEF Lead
<1> QED
  BY <1>3 DEF Steady

\* What the code joins from a steady directory has no link on its way.
LEMMA JoinHeld ==
  ASSUME NEW d, Plain(d), NEW t, NEW m, Steady(t, m, d), Basename \in Word
  PROVE  Plain(Join(d)) /\ Lead(t, m, Join(d))
<1>1. d \in Seq(Word) /\ Len(d) \in Nat /\ \A i \in 1 .. Len(d) : d[i] \notin Dots
  BY DEF Plain
<1>2. CASE Basename = "."
  <2>1. Join(d) = d
    BY <1>2 DEF Join
  <2>2. Lead(t, m, d)
    BY <1>1 DEF Lead, Steady
  <2> QED
    BY <2>1, <2>2
<1>3. CASE Basename = ".."
  <2>1. Join(d) = Parent(d)
    BY <1>3 DEF Join
  <2>2. CASE d = <<>>
    <3>1. Parent(d) = d /\ Lead(t, m, d)
      BY <1>1, <2>2 DEF Parent, Lead, Steady
    <3> QED
      BY <2>1, <3>1
  <2>3. CASE d # <<>>
    <3> DEFINE n == Len(d) - 1
    <3>1. Parent(d) = Prefix(d, n) /\ n \in 0 .. Len(d)
      BY <1>1, <2>3, ParentFacts
    <3> HIDE DEF n
    <3>2. /\ Prefix(d, n) \in Seq(Word) /\ Len(Prefix(d, n)) = n
          /\ \A i \in 1 .. n : Prefix(d, n)[i] = d[i]
      BY <1>1, <3>1, PrefixFacts
    <3>3. Plain(Prefix(d, n))
      BY <1>1, <3>1, <3>2 DEF Plain
    <3>4. \A k \in 0 .. n : Prefix(Prefix(d, n), k) = Prefix(d, k) /\ k \in 0 .. Len(d)
      BY <1>1, <3>1, PrefixPrefix
    <3>5. Lead(t, m, Prefix(d, n))
      BY <1>1, <3>1, <3>2, <3>4 DEF Lead, Steady
    <3> QED
      BY <2>1, <3>1, <3>3, <3>5
  <2> QED
    BY <2>2, <2>3
<1>4. CASE Basename \notin Dots
  <2> DEFINE a == Append(d, Basename)
  <2>1. Join(d) = a
    BY <1>4 DEF Join, Dots
  <2>2. /\ a \in Seq(Word) /\ Len(a) = Len(d) + 1
        /\ a[Len(d) + 1] = Basename /\ \A i \in 1 .. Len(d) : a[i] = d[i]
    BY <1>1, AppendFacts
  <2>3. \A k \in 0 .. Len(d) : Prefix(a, k) = Prefix(d, k)
    BY <1>1, AppendFacts
  <2> HIDE DEF a
  <2>4. Plain(a)
    <3>1. ASSUME NEW i \in 1 .. Len(a) PROVE a[i] \notin Dots
      <4>1. i = Len(d) + 1 \/ i \in 1 .. Len(d)
        BY <1>1, <2>2
      <4> QED
        BY <1>1, <1>4, <2>2, <4>1
    <3> QED
      BY <2>2, <3>1 DEF Plain
  <2>5. Lead(t, m, a)
    <3>1. Len(a) - 1 = Len(d)
      BY <1>1, <2>2
    <3> QED
      BY <2>3, <3>1 DEF Lead, Steady
  <2> QED
    BY <2>1, <2>4, <2>5
<1> QED
  BY <1>2, <1>3, <1>4 DEF Dots

--------------------------------------------------------------------------------
(* resolve.                                                                *)

LEMMA Singleton ==
  ASSUME NEW W, NEW x \in W
  PROVE  <<x>> \in Seq(W)
OBVIOUS

LEMMA InputFacts ==
  ASSUME input \in Inputs, input.valid
  PROVE  /\ AsWritten \in Seq(Word) /\ Dirname \in Seq(Word) /\ Basename \in Word
<1>1. input.path \in Seq(STRING) /\ input.path # <<>>
  BY TreesAssumption
<1>2. input.path \in Seq(Word)
  BY <1>1, Words
<1>3. (IF input.slash THEN <<".">> ELSE <<>>) \in Seq(Word)
  <2>1. "." \in Word
    BY DEF Word
  <2>2. <<".">> \in Seq(Word)
    BY <2>1, Singleton
  <2> QED
    BY <2>2
<1>4. AsWritten \in Seq(Word)
  BY <1>2, <1>3 DEF AsWritten
<1>5. Dirname \in Seq(Word) /\ Basename \in Word
  BY <1>1, <1>2, ParentFacts DEF Dirname, Basename
<1> QED
  BY <1>4, <1>5

LEMMA InitInv == Init => IInv
<1> SUFFICES ASSUME Init PROVE IInv
  OBVIOUS
<1>1. IsTree(tree) /\ input \in Inputs /\ op \in {"read", "list", "write"}
      /\ pc = "boot" /\ moved = {} /\ used = {}
  BY TreesAssumption DEF Init
<1> QED
  BY <1>1 DEF IInv, Types, RootHeld, Held, Unused, Contained, Asking

\* A step of the call that leaves the tree alone and uses nothing.
LEMMA CallStep ==
  ASSUME IInv, Frame, pc \in {"call", "checked", "open"} \cup Asking,
         pc' \in {"checked", "open", "refused", "failed"} \cup Asking,
         pc' \in Asking => input.valid, Held'
  PROVE  IInv'
<1>1. UNCHANGED <<tree, op, input, root, used, moved>>
  BY DEF Frame
<1>2. used = {} /\ pc \notin {"boot", "stopped"} /\ pc' \notin {"boot", "stopped"}
  BY DEF IInv, Unused, Asking
<1>3. Types'
  BY <1>1, <1>2 DEF IInv, Types, IsTree, Asking
<1>4. RootHeld'
  BY <1>1, <1>2 DEF IInv, RootHeld
<1>5. Unused' /\ Contained'
  BY <1>1, <1>2 DEF Unused, Contained
<1> QED
  BY <1>3, <1>4, <1>5 DEF IInv

LEMMA CallTypes ==
  ASSUME IInv, pc \in {"call", "checked", "open"} \cup Asking
  PROVE  /\ IsTree(tree) /\ moved \in SUBSET Locations /\ input \in Inputs
         /\ op \in {"read", "list", "write"}
         /\ pc \in Asking => input.valid
         /\ root \in Locations /\ Solid(tree, moved, root) /\ used = {}
BY DEF IInv, Types, RootHeld, Unused, Asking

LEMMA RefuseInv ==
  ASSUME IInv, pc \in {"call"} \cup Asking, Refuse
  PROVE  IInv'
<1>1. Frame /\ pc' = "refused"
  BY DEF Refuse
<1>2. Held'
  BY <1>1 DEF Held
<1> QED
  BY <1>1, <1>2, CallStep DEF Asking

LEMMA AdmitInv ==
  ASSUME IInv, pc \in Asking, NEW p, Admit(p),
         p # Missing => Plain(p) /\ Steady(tree, moved, p)
  PROVE  IInv'
<1>1. CASE Refuse
  BY <1>1, RefuseInv
<1>2. CASE p # Missing /\ IsPrefix(root, p) /\ real' = p /\ Goto("checked")
  <2>1. Frame /\ pc' = "checked" /\ real' = p
    BY <1>2 DEF Goto
  <2>2. UNCHANGED <<tree, root, moved>>
    BY <2>1 DEF Frame
  <2>3. Steady(tree, moved, real)'
    BY <1>2, <2>1, <2>2 DEF Steady, Shaky, KindAt
  <2>4. Held'
    BY <1>2, <2>1, <2>2, <2>3 DEF Held
  <2> QED
    BY <2>1, <2>4, CallStep DEF Asking
<1> QED
  BY <1>1, <1>2 DEF Admit, _underRoot

\* A step on, with nothing yet found.
LEMMA OnwardInv ==
  ASSUME IInv, pc \in {"call"} \cup Asking, input.valid,
         NEW l \in {"slash", "exists", "real", "parent"}, Goto(l)
  PROVE  IInv'
<1>1. Frame /\ pc' = l
  BY DEF Goto
<1>2. Held'
  BY <1>1 DEF Held
<1> QED
  BY <1>1, <1>2, CallStep DEF Asking

LEMMA resolveInv == ASSUME IInv, resolve \/ CheckSlash \/ CheckExists PROVE IInv'
<1>1. pc \in {"call", "slash", "exists"} /\ (pc \in Asking => input.valid)
  BY CallTypes DEF resolve, CheckSlash, CheckExists, Asking
<1>2. Refuse \/ (input.valid /\ \E l \in {"slash", "exists", "real", "parent"} : Goto(l))
  BY <1>1 DEF resolve, CheckSlash, CheckExists, First, Asking
<1> QED
  BY <1>1, <1>2, RefuseInv, OnwardInv DEF Asking

LEMMA RealInputInv == ASSUME IInv, RealInput PROVE IInv'
<1>1. pc \in Asking /\ Admit(realpath(AsWritten)) /\ IsTree(tree) /\ AsWritten \in Seq(Word)
  BY CallTypes, InputFacts DEF RealInput, Asking
<1>2. realpath(AsWritten) # Missing =>
        Plain(realpath(AsWritten)) /\ Steady(tree, moved, realpath(AsWritten))
  BY <1>1, WalkEnds, EntrySteady DEF realpath
<1> QED
  BY <1>1, <1>2, AdmitInv

LEMMA RealLeafInv == ASSUME IInv, RealLeaf PROVE IInv'
<1>1. pc = "realLeaf" /\ pc \in Asking /\ Admit(realpath(real)) /\ IsTree(tree)
  BY CallTypes DEF RealLeaf, Asking
<1>2. real \in Seq(Word)
  BY <1>1 DEF IInv, Held, Plain
<1>3. realpath(real) # Missing =>
        Plain(realpath(real)) /\ Steady(tree, moved, realpath(real))
  BY <1>1, <1>2, WalkEnds, EntrySteady DEF realpath
<1> QED
  BY <1>1, <1>3, AdmitInv

LEMMA RealParentInv == ASSUME IInv, RealParent PROVE IInv'
<1> DEFINE d == realpath(Dirname)
<1>1. pc = "parent" /\ pc \in Asking /\ input.valid /\ IsTree(tree) /\ Dirname \in Seq(Word)
  BY CallTypes, InputFacts DEF RealParent, Asking
<1>2. d # Missing => Plain(d) /\ Steady(tree, moved, d)
  BY <1>1, WalkEnds, EntrySteady DEF realpath
<1>3. Refuse \/ (d # Missing /\ real' = d /\ Goto("parentKind"))
  BY DEF RealParent
<1> HIDE DEF d
<1>4. ASSUME d # Missing, real' = d, Goto("parentKind") PROVE IInv'
  <2>1. Frame /\ pc' = "parentKind" /\ UNCHANGED <<tree, moved, input>>
    BY <1>4 DEF Goto, Frame
  <2>2. Steady(tree, moved, real)'
    BY <1>2, <1>4, <2>1 DEF Steady, Shaky, KindAt
  <2>3. Held'
    BY <1>2, <1>4, <2>1, <2>2 DEF Held
  <2> QED
    BY <1>1, <2>1, <2>3, CallStep DEF Asking
<1> QED
  BY <1>1, <1>3, <1>4, RefuseInv

LEMMA CheckParentInv == ASSUME IInv, CheckParent PROVE IInv'
<1>1. pc = "parentKind" /\ pc \in Asking /\ input.valid /\ Basename \in Word
  BY CallTypes, InputFacts DEF CheckParent, Asking
<1>2. Plain(Join(real)) /\ Lead(tree, moved, Join(real))
  <2>1. Plain(real) /\ Steady(tree, moved, real)
    BY <1>1 DEF IInv, Held
  <2> QED
    BY <1>1, <2>1, JoinHeld
<1>3. Refuse \/ (real' = Join(real) /\ Goto("leaf"))
  BY DEF CheckParent
<1>4. ASSUME real' = Join(real), Goto("leaf") PROVE IInv'
  <2>1. Frame /\ pc' = "leaf" /\ UNCHANGED <<tree, moved, input>>
    BY <1>4 DEF Goto, Frame
  <2>2. Plain(real') /\ Lead(tree, moved, real')
    BY <1>2, <1>4
  <2>3. Lead(tree, moved, real)'
    BY <2>1, <2>2 DEF Lead, Shaky, KindAt
  <2>4. Held'
    BY <2>1, <2>2, <2>3 DEF Held
  <2> QED
    BY <1>1, <2>1, <2>4, CallStep DEF Asking
<1> QED
  BY <1>1, <1>3, <1>4, RefuseInv

LEMMA CheckLeafInv == ASSUME IInv, CheckLeaf PROVE IInv'
<1>1. pc = "leaf" /\ pc \in Asking /\ input.valid /\ IsTree(tree)
  BY CallTypes DEF CheckLeaf, Asking
<1>2. Plain(real) /\ Lead(tree, moved, real)
  BY <1>1 DEF IInv, Held
<1>3. CASE Goto("realLeaf") /\ UNCHANGED real
  <2>1. Frame /\ pc' = "realLeaf" /\ UNCHANGED <<tree, moved, input, real>>
    BY <1>3 DEF Goto, Frame
  <2>2. Lead(tree, moved, real)'
    BY <1>2, <2>1 DEF Lead, Shaky, KindAt
  <2>3. Held'
    BY <1>2, <2>1, <2>2 DEF Held
  <2> QED
    BY <1>1, <2>1, <2>3, CallStep DEF Asking
<1>4. CASE lstat(real) # "link" /\ Admit(real)
  <2>1. Steady(tree, moved, real)
    BY <1>1, <1>2, <1>4, LeafSteady
  <2> QED
    BY <1>1, <1>2, <1>4, <2>1, AdmitInv
<1> QED
  BY <1>3, <1>4 DEF CheckLeaf

LEMMA createInv == ASSUME IInv, create PROVE IInv'
<1> DEFINE r == realpath(<<Configured>>)
<1>1. /\ pc = "boot" /\ IsTree(tree) /\ used = {} /\ pc' \in {"call", "stopped"}
      /\ UNCHANGED <<tree, op, input, used, moved>>
      /\ pc' = "call" => KindAt(tree, r) = "dir" /\ root' = r
  BY DEF create, IInv, Types, Unused
<1> HIDE DEF r
<1>2. pc' = "call" => r \in Locations /\ Solid(tree, moved, r)
  BY <1>1, DirectorySolid, EntrySteady
<1>3. Types'
  BY <1>1, <1>2 DEF IInv, Types, IsTree, Asking
<1>4. RootHeld'
  BY <1>1, <1>2 DEF RootHeld, Solid, Shaky, KindAt
<1>5. Held' /\ Unused' /\ Contained'
  BY <1>1 DEF Held, Unused, Contained
<1> QED
  BY <1>3, <1>4, <1>5 DEF IInv

--------------------------------------------------------------------------------
(* The tools.                                                              *)

LEMMA FailInv ==
  ASSUME IInv, pc \in {"checked", "open"}, Fail
  PROVE  IInv'
<1>1. Frame /\ pc' = "failed"
  BY DEF Fail
<1>2. Held'
  BY <1>1 DEF Held
<1> QED
  BY <1>1, <1>2, CallStep DEF Asking

\* What was accepted.
LEMMA Accepted ==
  ASSUME IInv, pc \in {"checked", "open"}
  PROVE  /\ Plain(real) /\ Steady(tree, moved, real) /\ IsPrefix(root, real)
         /\ IsTree(tree) /\ moved \in SUBSET Locations /\ root \in Locations /\ used = {}
         /\ pc = "open" /\ op = "write" /\ real = root => Shaky(moved, root)
BY CallTypes DEF IInv, Held

LEMMA CheckKindInv == ASSUME IInv, CheckKind PROVE IInv'
<1>1. pc = "checked"
  BY DEF CheckKind
<1>2. /\ Plain(real) /\ Steady(tree, moved, real) /\ IsPrefix(root, real)
      /\ moved \in SUBSET Locations /\ root \in Locations /\ Solid(tree, moved, root)
  BY <1>1, Accepted, CallTypes
<1>3. Fail \/ (Goto("open") /\ UNCHANGED real /\ (op = "write" => stat(real) # "dir"))
  BY DEF CheckKind
<1>4. ASSUME Goto("open"), UNCHANGED real, op = "write" => stat(real) # "dir" PROVE IInv'
  <2>1. Frame /\ pc' = "open" /\ UNCHANGED <<tree, moved, op, root, real>>
    BY <1>4 DEF Goto, Frame
  <2>2. Steady(tree, moved, real)'
    BY <1>2, <2>1 DEF Steady, Shaky, KindAt
  <2>3. op = "write" /\ real = root => Shaky(moved, root)
    <3> SUFFICES ASSUME op = "write", real = root, ~Shaky(moved, root) PROVE FALSE
      OBVIOUS
    <3>1. Walk(tree, FALSE, root) = root /\ KindAt(tree, root) = "dir"
      BY <1>2, SolidReached
    <3>2. stat(real) = "dir"
      BY <3>1 DEF stat
    <3> QED
      BY <1>4, <3>2
  <2>4. (op = "write" /\ real = root => Shaky(moved, root))'
    BY <2>1, <2>3 DEF Shaky
  <2>5. Held'
    BY <1>2, <2>1, <2>2, <2>4 DEF Held
  <2> QED
    BY <1>1, <2>1, <2>5, CallStep DEF Asking
<1> QED
  BY <1>1, <1>3, <1>4, FailInv

\* The last step of a call.
LEMMA EndInv ==
  ASSUME IInv, pc = "open", pc' \in {"done", "failed"}, UNCHANGED <<op, input, root, real, moved>>,
         IsTree(tree'), Solid(tree', moved, root),
         NEW u, used' = {u},
         \/ IsPrefix(root, u)
         \/ \E p \in moved : IsPrefix(p, real) /\ (op = "write" /\ real # root => p # real)
  PROVE  IInv'
<1>1. Types'
  BY DEF IInv, Types, IsTree, KindAt, Asking
<1>2. RootHeld'
  BY DEF RootHeld, Solid, Shaky, KindAt
<1>3. Held' /\ Unused'
  BY DEF Held, Unused
<1>4. Contained'
  BY DEF Contained
<1> QED
  BY <1>1, <1>2, <1>3, <1>4 DEF IInv

\* A file is read, or a directory listed, where it was accepted, if it is not shaky.
LEMMA ReadInv == ASSUME IInv, Read PROVE IInv'
<1> DEFINE p == Walk(tree, FALSE, real)
<1>1. pc = "open" /\ op \in {"read", "list"}
  BY DEF Read
<1>2. /\ Plain(real) /\ Steady(tree, moved, real) /\ IsPrefix(root, real)
      /\ IsTree(tree) /\ moved \in SUBSET Locations /\ Solid(tree, moved, root)
  BY <1>1, Accepted, CallTypes
<1>3. \/ Fail
      \/ /\ p # Missing /\ pc' = "done" /\ used' = {p}
         /\ UNCHANGED <<tree, op, input, root, real, moved>>
  BY DEF Read
<1>4. p # Missing /\ ~Shaky(moved, real) => IsPrefix(root, p)
  <2> SUFFICES ASSUME p # Missing, ~Shaky(moved, real) PROVE IsPrefix(root, p)
    OBVIOUS
  <2>1. \A k \in 0 .. Len(real) : ~Shaky(moved, Prefix(real, k))
    BY <1>2, Unshaken DEF Plain
  <2>2. \A k \in 0 .. Len(real) : KindAt(tree, Prefix(real, k)) # "link"
    BY <1>2, <2>1 DEF Steady
  <2>3. p = real
    BY <1>2, <2>2, WalkStraight
  <2> QED
    BY <1>2, <2>3
<1> HIDE DEF p
<1>5. p # Missing =>
        \/ IsPrefix(root, p)
        \/ \E q \in moved : IsPrefix(q, real) /\ (op = "write" /\ real # root => q # real)
  BY <1>1, <1>4 DEF Shaky
<1>6. ASSUME p # Missing, pc' = "done", used' = {p}, UNCHANGED <<tree, op, input, root, real, moved>>
      PROVE  IInv'
  <2>1. IsTree(tree') /\ Solid(tree', moved, root)
    BY <1>2, <1>6
  <2> QED
    BY <1>1, <1>5, <1>6, <2>1, EndInv
<1> QED
  BY <1>1, <1>3, <1>6, FailInv

\* A file put in a directory in place of what is no directory.
LEMMA PutFile ==
  ASSUME NEW t, IsTree(t), NEW p \in Locations, KindAt(t, Parent(p)) = "dir", t[p] # Dir
  PROVE  /\ IsTree([t EXCEPT ![p] = File])
         /\ \A q : KindAt([t EXCEPT ![p] = File], q) = IF q = p THEN "file" ELSE KindAt(t, q)
<1> DEFINE u == [t EXCEPT ![p] = File]
<1>1. t = [q \in Locations |-> t[q]]
  BY DEF IsTree
<1>2. u = [q \in Locations |-> u[q]] /\ \A q \in Locations : u[q] = IF q = p THEN File ELSE t[q]
  BY <1>1
<1> HIDE DEF u
<1>3. \A q : KindAt(u, q) = IF q = p THEN "file" ELSE KindAt(t, q)
  BY <1>2 DEF KindAt, File
<1>4. t[<<>>] = Dir /\ <<>> \in Locations /\ p # <<>>
  BY TopFacts DEF IsTree
<1>5. IsEntry(File) /\ KindAt(t, p) # "dir"
  <2>1. KindAt(t, p) = t[p].kind /\ IsEntry(t[p])
    BY TreeFacts
  <2> QED
    BY <2>1, EntryFacts DEF IsEntry
<1>6. ASSUME NEW q \in Locations PROVE IsEntry(u[q]) /\ (u[q] # None => KindAt(u, Parent(q)) = "dir")
  <2>1. IsEntry(t[q]) /\ (t[q] # None => KindAt(t, Parent(q)) = "dir")
    BY TreeFacts
  <2>2. IsEntry(u[q])
    BY <1>2, <1>5, <2>1
  <2>3. u[q] # None => KindAt(t, Parent(q)) = "dir"
    BY <1>2, <2>1
  <2>4. KindAt(t, Parent(q)) = "dir" => Parent(q) # p
    BY <1>5
  <2> QED
    BY <1>3, <2>2, <2>3, <2>4
<1>7. IsTree(u)
  BY <1>2, <1>4, <1>6 DEF IsTree
<1> QED
  BY <1>3, <1>7 DEF u

LEMMA Widened ==
  ASSUME NEW W, NEW x, NEW s \in Seq(W)
  PROVE  s \in Seq(W \cup {x}) /\ x \in W \cup {x}
OBVIOUS

\* A write stages and renames beside what was accepted, unless something above
\* the name is shaky: a name that is a link is not followed.
LEMMA WriteInv == ASSUME IInv, Write PROVE IInv'
<1> DEFINE d == Walk(tree, FALSE, Front(real))
           p == Append(d, Last(real))
<1>1. pc = "open" /\ op = "write"
  BY DEF Write
<1>2. /\ Plain(real) /\ Steady(tree, moved, real) /\ IsPrefix(root, real)
      /\ IsTree(tree) /\ moved \in SUBSET Locations /\ root \in Locations
      /\ Solid(tree, moved, root) /\ (real = root => Shaky(moved, root))
      /\ real \in Seq(Word) /\ Len(real) \in Nat /\ root \in Seq(Word) /\ Len(root) \in Nat
  BY <1>1, Accepted, CallTypes, LocationFacts DEF Plain
<1>3. \/ Fail
      \/ /\ KindAt(tree, d) = "dir" /\ used' = {d} /\ pc' \in {"done", "failed"}
         /\ UNCHANGED <<op, input, root, real, moved>>
         /\ tree' = tree \/ (p \in Locations /\ tree[p] # Dir /\ tree' = [tree EXCEPT ![p] = File])
  BY DEF Write
<1>4. ASSUME KindAt(tree, d) = "dir"
      PROVE  \/ IsPrefix(root, d)
             \/ \E q \in moved : IsPrefix(q, real) /\ (real # root => q # real)
  <2>1. CASE real = root
    BY <1>2, <2>1 DEF Shaky
  <2>2. CASE real # root
    <3> DEFINE f == Front(real)
    <3>1. Len(root) < Len(real)
      <4>1. Len(root) <= Len(real) /\ root = Prefix(real, Len(root)) /\ Prefix(real, Len(real)) = real
        BY <1>2, IsPrefixFacts, WholePrefix
      <4> QED
        BY <1>2, <2>2, <4>1
    <3>2. real # <<>>
      BY <1>2, <3>1
    <3>3. /\ f \in Seq(Word) /\ f = Prefix(real, Len(real) - 1) /\ Len(f) = Len(real) - 1
          /\ Len(real) - 1 \in 0 .. Len(real) /\ Len(root) <= Len(f)
      <4>1. /\ f = Parent(real) /\ f \in Seq(Word)
            /\ f = Prefix(real, Len(real) - 1) /\ Len(f) = Len(real) - 1
        BY <1>2, <3>2, ParentFacts
      <4> HIDE DEF f
      <4> QED
        BY <1>2, <3>1, <4>1
    <3> HIDE DEF f
    <3>4. IsPrefix(root, f) /\ IsPrefix(f, real)
      <4>1. IsPrefix(f, real)
        BY <1>2, <3>3, PrefixIsPrefix
      <4> QED
        BY <1>2, <3>3, <4>1, IsPrefixLinear
    <3>5. Plain(f)
      <4> DEFINE n == Len(real) - 1
      <4>1. n \in 0 .. Len(real) /\ f = Prefix(real, n) /\ Len(f) = n
        BY <3>3
      <4> HIDE DEF n
      <4>2. \A i \in 1 .. n : Prefix(real, n)[i] = real[i]
        BY <1>2, <4>1, PrefixFacts
      <4>3. \A i \in 1 .. Len(f) : f[i] = real[i] /\ i \in 1 .. Len(real)
        BY <1>2, <4>1, <4>2
      <4> QED
        BY <1>2, <3>3, <4>3 DEF Plain
    <3>6. CASE Shaky(moved, f)
      <4>1. PICK q \in moved : IsPrefix(q, f)
        BY <3>6 DEF Shaky
      <4>2. q \in Seq(Word) /\ Len(q) \in Nat
        BY <1>2, LocationFacts
      <4>3. IsPrefix(q, real)
        BY <1>2, <3>3, <3>4, <4>1, <4>2, IsPrefixTransitive
      <4>4. Len(q) <= Len(f)
        BY <3>3, <4>1, <4>2, IsPrefixFacts
      <4>5. q # real
        BY <1>2, <3>3, <4>2, <4>4
      <4> QED
        BY <4>3, <4>5
    <3>7. CASE ~Shaky(moved, f)
      <4>1. \A k \in 0 .. Len(f) : ~Shaky(moved, Prefix(f, k))
        BY <1>2, <3>3, <3>7, Unshaken
      <4>2. \A k \in 0 .. Len(f) : Prefix(f, k) = Prefix(real, k) /\ k \in 0 .. Len(real)
        BY <1>2, <3>3, PrefixPrefix
      <4>3. \A k \in 0 .. Len(f) : KindAt(tree, Prefix(f, k)) # "link"
        BY <1>2, <4>1, <4>2 DEF Steady
      <4>4. d \in {f, Missing}
        BY <3>5, <4>3, WalkStraight DEF f
      <4>5. d # Missing
        BY <1>4, TreesAssumption DEF KindAt
      <4> QED
        BY <3>4, <4>4, <4>5
    <3> QED
      BY <3>6, <3>7
  <2> QED
    BY <2>1, <2>2
<1>5. ASSUME KindAt(tree, d) = "dir", p \in Locations, tree[p] # Dir, tree' = [tree EXCEPT ![p] = File]
      PROVE  IsTree(tree') /\ Solid(tree', moved, root)
  <2>1. d \in Seq(Word) /\ p \in Seq(Word)
    BY <1>2, <1>5, KindFacts, LocationFacts
  <2> DEFINE x == Last(real)
  <2>2. Parent(p) = d
    <3>1. d \in Seq(Word \cup {x}) /\ x \in Word \cup {x}
      BY <2>1, Widened
    <3> HIDE DEF d, x
    <3> QED
      BY <3>1, AppendFacts DEF x
  <2> HIDE DEF d, p
  <2>3. /\ IsTree(tree')
        /\ \A q : KindAt(tree', q) = IF q = p THEN "file" ELSE KindAt(tree, q)
    <3>1. /\ IsTree([tree EXCEPT ![p] = File])
          /\ \A q : KindAt([tree EXCEPT ![p] = File], q) = IF q = p THEN "file" ELSE KindAt(tree, q)
      BY <1>2, <1>5, <2>2, PutFile
    <3> QED
      BY <1>5, <3>1, Zenon
  <2>4. KindAt(tree, p) # "dir"
    <3>1. KindAt(tree, p) = tree[p].kind /\ IsEntry(tree[p])
      BY <1>2, <1>5, TreeFacts
    <3> QED
      BY <1>5, <3>1, EntryFacts
  <2>5. Solid(tree', moved, root)
    BY <1>2, <2>3, <2>4, ChangeHeld
  <2> QED
    BY <2>3, <2>5
<1> HIDE DEF d, p
<1>6. ASSUME KindAt(tree, d) = "dir", used' = {d}, pc' \in {"done", "failed"},
             UNCHANGED <<op, input, root, real, moved>>,
             tree' = tree \/ (p \in Locations /\ tree[p] # Dir /\ tree' = [tree EXCEPT ![p] = File])
      PROVE  IInv'
  <2>1. IsTree(tree') /\ Solid(tree', moved, root)
    BY <1>2, <1>5, <1>6
  <2> QED
    BY <1>1, <1>4, <1>6, <2>1, EndInv
<1> QED
  BY <1>1, <1>3, <1>6, FailInv

--------------------------------------------------------------------------------
(* Everybody else.                                                         *)

LEMMA OthersInv ==
  ASSUME IInv, UNCHANGED <<op, input, pc, root, real, used>>, pc \notin {"done", "failed"},
         IsTree(tree'), moved \subseteq moved', moved' \subseteq Locations,
         \A q : KindAt(tree', q) = "link" => KindAt(tree, q) = "link" \/ Shaky(moved', q),
         \A q : KindAt(tree, q) = "dir" => KindAt(tree', q) = "dir" \/ Shaky(moved', q)
  PROVE  IInv'
<1>1. Types'
  <2>1. \A t : t = tree' => (IsTree(t) => IsTree(tree)')
    BY DEF IsTree, KindAt
  <2>2. IsTree(tree)'
    BY <2>1
  <2> QED
    BY <2>2 DEF IInv, Types, Asking
<1>2. \A p : /\ Lead(tree, moved, p) => Lead(tree', moved', p)
             /\ Steady(tree, moved, p) => Steady(tree', moved', p)
             /\ Solid(tree, moved, p) => Solid(tree', moved', p)
  BY ChangeHeld
<1>3. \A q : Shaky(moved, q) => Shaky(moved', q)
  BY DEF Shaky
<1>4. RootHeld'
  BY <1>2 DEF IInv, RootHeld
<1>5. Held'
  BY <1>2, <1>3 DEF IInv, Held
<1>6. Unused' /\ Contained'
  BY DEF IInv, Unused, Contained
<1> QED
  BY <1>1, <1>4, <1>5, <1>6 DEF IInv

LEMMA OtherWriteInv == ASSUME IInv, NEW p \in Locations, OtherWrite(p) PROVE IInv'
<1>1. /\ tree[p] = None /\ KindAt(tree, Parent(p)) = "dir" /\ tree' = [tree EXCEPT ![p] = File]
      /\ UNCHANGED <<op, input, pc, root, real, used, moved>> /\ pc \notin {"done", "failed"}
  BY DEF OtherWrite, Changed, Resolving
<1>2. IsTree(tree) /\ moved \subseteq Locations
  BY DEF IInv, Types
<1>3. tree[p] # Dir
  BY <1>1 DEF None, Dir
<1>4. /\ IsTree([tree EXCEPT ![p] = File])
      /\ \A q : KindAt([tree EXCEPT ![p] = File], q) = IF q = p THEN "file" ELSE KindAt(tree, q)
  BY <1>1, <1>2, <1>3, PutFile
<1>5. /\ IsTree(tree')
      /\ \A q : KindAt(tree', q) = IF q = p THEN "file" ELSE KindAt(tree, q)
  BY <1>1, <1>4, Zenon
<1>6. KindAt(tree, p) = "none"
  BY <1>1 DEF KindAt, None
<1>7. /\ \A q : KindAt(tree', q) = "link" => KindAt(tree, q) = "link" \/ Shaky(moved', q)
      /\ \A q : KindAt(tree, q) = "dir" => KindAt(tree', q) = "dir" \/ Shaky(moved', q)
  BY <1>5, <1>6
<1> QED
  BY <1>1, <1>2, <1>5, <1>7, OthersInv

\* An entry takes the place of another and of all below it.
Replaced(t, p, e) ==
  [q \in Locations |-> IF q = p THEN e ELSE IF IsPrefix(p, q) THEN None ELSE t[q]]

LEMMA ReplacedTree ==
  ASSUME NEW t, IsTree(t), NEW p \in Locations, p # <<>>, KindAt(t, Parent(p)) = "dir",
         NEW e, IsEntry(e)
  PROVE  IsTree(Replaced(t, p, e))
<1> DEFINE u == Replaced(t, p, e)
<1>1. /\ u = [q \in Locations |-> u[q]]
      /\ \A q \in Locations : u[q] = IF q = p THEN e ELSE IF IsPrefix(p, q) THEN None ELSE t[q]
  BY DEF Replaced
<1> HIDE DEF u
<1>2. p \in Seq(Word) /\ Len(p) \in Nat /\ Len(p) > 0
  BY LocationFacts
<1>3. u[<<>>] = Dir
  <2>1. <<>> \in Locations /\ <<>> \in Seq(Word) /\ t[<<>>] = Dir /\ Len(<<>>) = 0
    BY TopFacts, LocationFacts DEF IsTree
  <2>2. ~IsPrefix(p, <<>>)
    BY <1>2, <2>1 DEF IsPrefix
  <2> QED
    BY <1>1, <2>1, <2>2
<1>4. IsEntry(None)
  BY DEF IsEntry
<1>5. ASSUME NEW q \in Locations, u[q] # None PROVE KindAt(u, Parent(q)) = "dir"
  <2>1. /\ q \in Seq(Word) /\ Parent(q) \in Seq(Word) /\ Parent(q) \in Locations /\ Len(q) \in Nat
        /\ Len(Parent(q)) \in Nat
    BY LocationFacts
  <2>2. q = p \/ (~IsPrefix(p, q) /\ t[q] # None)
    BY <1>1, <1>5
  <2>3. KindAt(t, Parent(q)) = "dir"
    BY <2>2, TreeFacts
  <2>4. ~IsPrefix(p, Parent(q))
    <3>1. CASE q = p
      <4>1. Len(Parent(q)) < Len(p)
        BY <1>2, <2>1, <3>1, ParentFacts
      <4> QED
        BY <1>2, <2>1, <4>1, IsPrefixFacts
    <3>2. CASE ~IsPrefix(p, q)
      <4>1. IsPrefix(Parent(q), q)
        <5>1. CASE q = <<>>
          <6>1. Parent(q) = q
            BY <5>1 DEF Parent
          <6>2. Len(q) \in 0 .. Len(q) /\ Prefix(q, Len(q)) = q
            BY <2>1, WholePrefix
          <6>3. IsPrefix(Prefix(q, Len(q)), q)
            BY <2>1, <6>2, PrefixIsPrefix
          <6> QED
            BY <6>1, <6>2, <6>3
        <5>2. CASE q # <<>>
          <6>1. Parent(q) = Prefix(q, Len(q) - 1) /\ Len(q) - 1 \in 0 .. Len(q)
            BY <2>1, <5>2, ParentFacts
          <6> QED
            BY <2>1, <6>1, PrefixIsPrefix
        <5> QED
          BY <5>1, <5>2
      <4> QED
        BY <1>2, <2>1, <3>2, <4>1, IsPrefixTransitive
    <3> QED
      BY <2>2, <3>1, <3>2
  <2>5. Parent(q) # p
    <3>1. IsPrefix(p, p)
      BY <1>2, WholePrefix, IsPrefixFacts
    <3> QED
      BY <2>4, <3>1
  <2>6. u[Parent(q)] = t[Parent(q)]
    BY <1>1, <2>1, <2>4, <2>5
  <2> QED
    BY <2>1, <2>3, <2>6 DEF KindAt
<1>6. \A q \in Locations : IsEntry(u[q])
  BY <1>1, <1>4, TreeFacts
<1>7. IsTree(u)
  BY <1>1, <1>3, <1>5, <1>6 DEF IsTree
<1> QED
  BY <1>7 DEF u

LEMMA OutsideInv ==
  ASSUME IInv, NEW p \in Locations, NEW e \in Placed, Outside(p, e)
  PROVE  IInv'
<1>1. /\ p # <<>> /\ KindAt(tree, Parent(p)) = "dir"
      /\ tree' = Replaced(tree, p, e) /\ moved' = moved \cup {p}
      /\ UNCHANGED <<op, input, pc, root, real, used>> /\ pc \notin {"done", "failed"}
  BY DEF Outside, Changed, Resolving, Replaced
<1>2. IsTree(tree) /\ moved \subseteq Locations /\ IsEntry(e)
  BY TreesAssumption DEF IInv, Types
<1>3. IsTree(tree')
  <2>1. IsTree(Replaced(tree, p, e))
    BY <1>1, <1>2, ReplacedTree
  <2> QED
    BY <1>1, <2>1, Zenon
<1>4. IsPrefix(p, p)
  BY LocationFacts, WholePrefix, IsPrefixFacts
<1>5. ASSUME NEW q PROVE KindAt(tree', q) \in {"none", KindAt(tree, q)} \/ Shaky(moved', q)
  <2>1. CASE IsPrefix(p, q)
    BY <1>1, <2>1 DEF Shaky
  <2>2. CASE ~IsPrefix(p, q)
    <3>1. q # p
      BY <1>4, <2>2
    <3> QED
      BY <1>1, <2>2, <3>1 DEF KindAt, Replaced
  <2> QED
    BY <2>1, <2>2
<1>6. ASSUME NEW q, KindAt(tree, q) = "dir" PROVE KindAt(tree', q) = "dir" \/ Shaky(moved', q)
  <2>1. CASE IsPrefix(p, q)
    BY <1>1, <2>1 DEF Shaky
  <2>2. CASE ~IsPrefix(p, q)
    <3>1. q # p
      BY <1>4, <2>2
    <3> QED
      BY <1>1, <1>6, <2>2, <3>1 DEF KindAt, Replaced
  <2> QED
    BY <2>1, <2>2
<1>7. \A q : KindAt(tree', q) = "link" => KindAt(tree, q) = "link" \/ Shaky(moved', q)
  BY <1>5
<1>8. moved \subseteq moved' /\ moved' \subseteq Locations
  BY <1>1, <1>2
<1> QED
  BY <1>1, <1>3, <1>6, <1>7, <1>8, OthersInv

LEMMA StutterInv == ASSUME IInv, UNCHANGED vars PROVE IInv'
<1>1. UNCHANGED <<tree, op, input, pc, root, real, used, moved>>
  BY DEF vars
<1> QED
  BY <1>1 DEF IInv, Types, RootHeld, Held, Unused, Contained, IsTree, KindAt, Solid, Steady, Lead,
              Shaky

LEMMA StepInv == IInv /\ [Next]_vars => IInv'
<1> SUFFICES ASSUME IInv, [Next]_vars PROVE IInv'
  OBVIOUS
<1>1. CASE create
  BY <1>1, createInv
<1>2. CASE resolve \/ CheckSlash \/ CheckExists
  BY <1>2, resolveInv
<1>3. CASE RealInput
  BY <1>3, RealInputInv
<1>4. CASE RealParent
  BY <1>4, RealParentInv
<1>5. CASE CheckParent
  BY <1>5, CheckParentInv
<1>6. CASE CheckLeaf
  BY <1>6, CheckLeafInv
<1>7. CASE RealLeaf
  BY <1>7, RealLeafInv
<1>8. CASE CheckKind
  BY <1>8, CheckKindInv
<1>9. CASE Read
  BY <1>9, ReadInv
<1>10. CASE Write
  BY <1>10, WriteInv
<1>11. ASSUME NEW p \in Locations, OtherWrite(p) PROVE IInv'
  BY <1>11, OtherWriteInv
<1>12. ASSUME NEW p \in Locations, NEW e \in Placed, Outside(p, e) PROVE IInv'
  BY <1>12, OutsideInv
<1>13. CASE UNCHANGED vars
  BY <1>13, StutterInv
<1> QED
  BY <1>1, <1>2, <1>3, <1>4, <1>5, <1>6, <1>7, <1>8, <1>9, <1>10, <1>11, <1>12, <1>13 DEF Next

\* What is held of every path, at every moment of a call.
THEOREM Invariance == Spec => []IInv
<1>1. Init => IInv
  BY InitInv
<1>2. IInv /\ [Next]_vars => IInv'
  BY StepInv
<1> QED
  BY <1>1, <1>2, PTL DEF Spec

\* A tool touches nothing outside the root, unless another program changed the
\* accepted path itself, or for a write a directory above it: for every tree, in
\* which links may lead anywhere, every input, both kinds of realpath(), and any
\* changes by others between the awaited calls of resolve and of the tools.
THEOREM StaysInside == Spec => []Contained
<1>1. IInv => Contained
  BY DEF IInv
<1> QED
  BY <1>1, Invariance, PTL

--------------------------------------------------------------------------------
(* Types.                                                                  *)

LEMMA PlainFacts ==
  ASSUME NEW p, p = Missing \/ Plain(p)
  PROVE  ToSet(p) \cap Dots = {}
BY DEF Plain, ToSet, Missing, Dots

\* What a walk arrives at is a location, and holds no dots.
LEMMA WalkTypes ==
  ASSUME NEW t, IsTree(t), NEW lenient, NEW path \in Seq(Word)
  PROVE  /\ ToSet(Walk(t, lenient, path)) \cap Dots = {}
         /\ Walk(t, lenient, path) \in Locations \cup {Missing}
BY WalkEnds, EntrySteady, PlainFacts

LEMMA NamedTypes ==
  ASSUME NEW t, IsTree(t), NEW r, input \in Inputs
  PROVE  ToSet(Named(t, r)) \cap Dots = {}
<1>1. CASE ~input.valid
  <2>1. Named(t, r) = Missing
    BY <1>1 DEF Named
  <2> QED
    BY <2>1, PlainFacts
<1>2. CASE input.valid
  <2> DEFINE p == Walk(t, FALSE, AsWritten)
             d == Walk(t, FALSE, Dirname)
             q == Append(d, Basename)
  <2>1. ToSet(p) \cap Dots = {} /\ Basename \in Word /\ Dirname \in Seq(Word)
    BY <1>2, InputFacts, WalkTypes
  <2>2. ASSUME KindAt(t, d) = "dir", Basename \notin Dots PROVE ToSet(q) \cap Dots = {}
    <3> HIDE DEF d
    <3>1. KindAt(t, d) \in {"file", "dir"}
      BY <2>2
    <3>2. Plain(d) /\ Steady(t, {}, d)
      BY <3>1, EntrySteady
    <3>3. d \in Seq(Word) /\ Len(d) \in Nat /\ \A i \in 1 .. Len(d) : d[i] \notin Dots
      BY <3>2 DEF Plain
    <3>4. /\ q \in Seq(Word) /\ Len(q) = Len(d) + 1 /\ q[Len(d) + 1] = Basename
          /\ \A i \in 1 .. Len(d) : q[i] = d[i]
      BY <2>1, <3>3, AppendFacts
    <3> HIDE DEF q
    <3>5. ASSUME NEW i \in 1 .. Len(q) PROVE q[i] \notin Dots
      <4>1. i = Len(d) + 1 \/ i \in 1 .. Len(d)
        BY <3>3, <3>4
      <4> QED
        BY <2>2, <3>3, <3>4, <4>1
    <3>6. Plain(q)
      BY <3>4, <3>5 DEF Plain
    <3> QED
      BY <3>6, PlainFacts
  <2>3. \/ Named(t, r) = p \/ Named(t, r) = Missing
        \/ (KindAt(t, d) = "dir" /\ Basename \notin Dots /\ Named(t, r) = q)
    BY <1>2 DEF Named
  <2> HIDE DEF p, d, q
  <2> QED
    BY <2>1, <2>2, <2>3, PlainFacts
<1> QED
  BY <1>1, <1>2

\* What changes in a step, by the part of the state.
LEMMA TypesOfTree ==
  ASSUME Types
  PROVE  /\ DOMAIN tree = Locations
         /\ \A p \in Locations : tree[p].kind \in {"none", "file", "dir", "link"}
<1>1. IsTree(tree)
  BY DEF Types
<1>2. tree = [p \in Locations |-> tree[p]]
  BY <1>1 DEF IsTree
<1>3. \A p \in Locations : tree[p].kind \in {"none", "file", "dir", "link"}
  BY <1>1, TreeFacts, EntryFacts
<1> QED
  BY <1>2, <1>3

\* What `resolve` holds is free of dots.
RealType == ToSet(real) \cap Dots = {}

LEMMA RealStep ==
  ASSUME IInv, RealType, [Next]_vars
  PROVE  RealType'
<1>1. CASE UNCHANGED real
  BY <1>1 DEF RealType
<1>2. CASE real' = Missing
  BY <1>2, PlainFacts DEF RealType
<1>3. ASSUME pc \in Asking, NEW p \in Seq(Word), real' = realpath(p) PROVE RealType'
  <2>1. IsTree(tree)
    BY <1>3, CallTypes
  <2> QED
    BY <1>3, <2>1, WalkTypes DEF RealType, realpath
<1>4. RealInput => pc \in Asking /\ AsWritten \in Seq(Word) /\ real' \in {Missing, realpath(AsWritten)}
  <2> SUFFICES ASSUME RealInput
               PROVE  /\ pc \in Asking /\ AsWritten \in Seq(Word)
                      /\ real' \in {Missing, realpath(AsWritten)}
    OBVIOUS
  <2>1. pc \in Asking /\ real' \in {Missing, realpath(AsWritten)}
    BY DEF RealInput, Asking, Admit, Refuse
  <2> QED
    BY <2>1, CallTypes, InputFacts
<1>5. RealParent => pc \in Asking /\ Dirname \in Seq(Word) /\ real' \in {Missing, realpath(Dirname)}
  <2> SUFFICES ASSUME RealParent
               PROVE  pc \in Asking /\ Dirname \in Seq(Word) /\ real' \in {Missing, realpath(Dirname)}
    OBVIOUS
  <2>1. pc \in Asking /\ real' \in {Missing, realpath(Dirname)}
    BY DEF RealParent, Asking, Refuse
  <2> QED
    BY <2>1, CallTypes, InputFacts
<1>6. RealLeaf => pc \in Asking /\ real \in Seq(Word) /\ real' \in {Missing, realpath(real)}
  BY DEF RealLeaf, Asking, Admit, Refuse, IInv, Held, Plain
<1>7. ASSUME CheckParent, real' # Missing PROVE RealType'
  <2>1. pc = "parentKind" /\ pc \in Asking /\ real' = Join(real)
    BY <1>7 DEF CheckParent, Asking, Refuse
  <2>2. Plain(real) /\ Steady(tree, moved, real) /\ Basename \in Word
    BY <2>1, CallTypes, InputFacts DEF IInv, Held
  <2>3. Plain(Join(real))
    BY <2>2, JoinHeld
  <2> QED
    BY <2>1, <2>3, PlainFacts DEF RealType
<1>8. CheckLeaf => real' \in {real, Missing}
  BY DEF CheckLeaf, Admit, Refuse
<1>9. resolve \/ CheckSlash \/ CheckExists => real' \in {real, Missing}
  BY DEF resolve, CheckSlash, CheckExists, Refuse
<1>10. create \/ CheckKind \/ Read \/ Write => UNCHANGED real
  BY DEF create, CheckKind, Read, Write, Fail
<1>11. (\E p \in Locations : OtherWrite(p) \/ \E e \in Placed : Outside(p, e)) => UNCHANGED real
  BY DEF OtherWrite, Outside, Changed
<1>12. UNCHANGED vars => UNCHANGED real
  BY DEF vars
<1> QED
  BY <1>1, <1>2, <1>3, <1>4, <1>5, <1>6, <1>7, <1>8, <1>9, <1>10, <1>11, <1>12 DEF Next

PossibleType == \A p \in possible : ToSet(p) \cap Dots = {}

LEMMA PossibleStep ==
  ASSUME IInv, IInv', PossibleType, [Next]_vars
  PROVE  PossibleType'
<1>1. CASE UNCHANGED possible
  BY <1>1 DEF PossibleType
<1>2. input \in Inputs /\ IsTree(tree) /\ IsTree(tree')
  <2>1. IsTree(tree)'
    BY DEF IInv, Types
  <2>2. \A t : t = tree' => (IsTree(tree)' => IsTree(t))
    BY DEF IsTree, KindAt
  <2> QED
    BY <2>1, <2>2 DEF IInv, Types
<1>3. CASE create
  <2>1. \E r : possible' \subseteq possible \cup {Named(tree, r)}
    BY <1>3 DEF create
  <2> QED
    BY <1>2, <2>1, NamedTypes DEF PossibleType
<1>4. ASSUME NEW t, t = tree', Changed(t) PROVE PossibleType'
  <2>1. possible' \subseteq possible \cup {Named(t, root)}
    BY <1>4 DEF Changed
  <2>2. ToSet(Named(t, root)) \cap Dots = {}
    BY <1>2, <1>4, NamedTypes
  <2> QED
    BY <2>1, <2>2 DEF PossibleType
<1>5. resolve \/ CheckSlash \/ CheckExists \/ RealInput \/ RealParent \/ CheckParent \/ CheckLeaf
      \/ RealLeaf \/ CheckKind \/ Read \/ Write \/ UNCHANGED vars => UNCHANGED possible
  BY DEF resolve, CheckSlash, CheckExists, RealInput, RealParent, CheckParent, CheckLeaf, RealLeaf,
         CheckKind, Read, Write, Goto, Admit, Refuse, Fail, Frame, vars
<1>6. (\E p \in Locations : OtherWrite(p) \/ \E e \in Placed : Outside(p, e)) =>
         \E t : t = tree' /\ Changed(t)
  BY DEF OtherWrite, Outside, Changed
<1> QED
  BY <1>1, <1>3, <1>4, <1>5, <1>6 DEF Next

\* The rest.
PlainTypes ==
  /\ host \in {"strict", "lenient"} /\ root \in Locations \cup {Missing}
  /\ used \in SUBSET Locations

LEMMA PlainStepTypes ==
  ASSUME IInv, PlainTypes, [Next]_vars
  PROVE  PlainTypes'
<1>1. host' = host
  BY DEF PlainTypes, Next, create, resolve, CheckSlash, CheckExists, RealInput, RealParent,
         CheckParent, CheckLeaf, RealLeaf, CheckKind, Read, Write, OtherWrite, Outside, Changed,
         Goto, Admit, Refuse, Fail, Frame, vars
<1>2. root' \in Locations \cup {Missing}
  <2>1. CASE create
    BY <2>1 DEF PlainTypes, create, KindAt
  <2>2. CASE UNCHANGED root
    BY <2>2 DEF PlainTypes
  <2> QED
    BY <2>1, <2>2 DEF Next, resolve, CheckSlash, CheckExists, RealInput, RealParent,
       CheckParent, CheckLeaf, RealLeaf, CheckKind, Read, Write, OtherWrite, Outside, Changed,
       Goto, Admit, Refuse, Fail, Frame, vars
<1>3. used' \in SUBSET Locations
  <2>1. CASE UNCHANGED used
    BY <2>1 DEF PlainTypes
  <2>2. CASE Read
    <3>1. pc = "open"
      BY <2>2 DEF Read
    <3>2. IsTree(tree) /\ real \in Seq(Word)
      BY <3>1, Accepted DEF Plain
    <3>3. Walk(tree, FALSE, real) \in Locations \cup {Missing}
      BY <3>2, WalkTypes
    <3>4. UNCHANGED used \/ (Walk(tree, FALSE, real) # Missing /\ used' = {Walk(tree, FALSE, real)})
      BY <2>2 DEF Read, Fail, Frame
    <3> QED
      BY <2>1, <3>3, <3>4
  <2>3. CASE Write
    BY <2>1, <2>3 DEF Write, KindAt, Fail, Frame
  <2> QED
    BY <2>1, <2>2, <2>3 DEF Next, create, resolve, CheckSlash, CheckExists, RealInput, RealParent,
       CheckParent, CheckLeaf, RealLeaf, CheckKind, OtherWrite, Outside, Changed,
       Goto, Admit, Refuse, Fail, Frame, vars
<1> QED
  BY <1>1, <1>2, <1>3 DEF PlainTypes

\* Every variable keeps its type, and no path under check holds a dot.
THEOREM TypeCorrect == Spec => []TypeOK
<1> DEFINE T == RealType /\ PossibleType /\ PlainTypes
<1>1. Init => T
  <2> SUFFICES ASSUME Init PROVE T
    OBVIOUS
  <2>1. real = Missing /\ root = Missing /\ possible = {} /\ used = {} /\ host \in {"strict", "lenient"}
    BY TreesAssumption DEF Init
  <2> QED
    BY <2>1, PlainFacts DEF RealType, PossibleType, PlainTypes
<1>2. IInv /\ IInv' /\ T /\ [Next]_vars => T'
  BY RealStep, PossibleStep, PlainStepTypes
<1>3. IInv /\ T => TypeOK
  <2> SUFFICES ASSUME IInv, T PROVE TypeOK
    OBVIOUS
  <2>1. DOMAIN tree = Locations /\ \A p \in Locations : tree[p].kind \in {"none", "file", "dir", "link"}
    BY TypesOfTree DEF IInv
  <2> QED
    BY <2>1 DEF IInv, Types, TypeOK, RealType, PossibleType, PlainTypes, Asking
<1> HIDE DEF T
<1> QED
  BY <1>1, <1>2, <1>3, Invariance, PTL DEF Spec

--------------------------------------------------------------------------------
(* The walk of a path, component by component.                             *)

\* A walk of a path begins at the root of all.
Start(path) == [at |-> <<>>, rest |-> path]

\* No component, and one more.
LEMMA StepsZero ==
  ASSUME NEW t, NEW lenient, NEW s
  PROVE  Steps(t, lenient, 0, s) = s
<1> DEFINE f == CHOOSE f : f = [k \in 0 .. 0 |-> IF k = 0 THEN s ELSE Advance(t, lenient, f[k - 1])]
<1>1. f = [k \in 0 .. 0 |-> IF k = 0 THEN s ELSE Advance(t, lenient, f[k - 1])]
  BY StepsExist
<1>2. Steps(t, lenient, 0, s) = f[0]
  BY DEF Steps
<1> HIDE DEF f
<1> QED
  BY <1>1, <1>2

LEMMA StepsOne ==
  ASSUME NEW t, NEW lenient, NEW s, NEW n \in Nat
  PROVE  Steps(t, lenient, n + 1, s) = Advance(t, lenient, Steps(t, lenient, n, s))
<1> PICK l \in Nat : l = n + 1
  OBVIOUS
<1> DEFINE a == CHOOSE f : f = [k \in 0 .. n |-> IF k = 0 THEN s ELSE Advance(t, lenient, f[k - 1])]
           b == CHOOSE f : f = [k \in 0 .. l |-> IF k = 0 THEN s ELSE Advance(t, lenient, f[k - 1])]
<1>6. a = [k \in 0 .. n |-> IF k = 0 THEN s ELSE Advance(t, lenient, a[k - 1])]
  BY StepsExist
<1>7. b = [k \in 0 .. l |-> IF k = 0 THEN s ELSE Advance(t, lenient, b[k - 1])]
  BY StepsExist
<1>8. Steps(t, lenient, n, s) = a[n] /\ Steps(t, lenient, l, s) = b[l]
  BY DEF Steps
<1> HIDE DEF a, b
<1> DEFINE S == {k \in 0 .. n : a[k] = b[k]}
<1>1. 0 \in S
  BY <1>6, <1>7
<1>2. ASSUME NEW k \in 0 .. n - 1, k \in S PROVE k + 1 \in S
  <2>1. k + 1 \in 0 .. n /\ k + 1 \in 0 .. n + 1 /\ k + 1 # 0 /\ (k + 1) - 1 = k
    OBVIOUS
  <2>2. a[k + 1] = Advance(t, lenient, a[k]) /\ b[k + 1] = Advance(t, lenient, b[k])
    BY <1>6, <1>7, <2>1
  <2> QED
    BY <1>2, <2>1, <2>2
<1>3. n \in S
  <2> HIDE DEF S
  <2>1. \A k \in 0 .. n : k \in S
    BY <1>1, <1>2, UpToInduction
  <2> QED
    BY <2>1
<1>4. n + 1 \in 0 .. n + 1 /\ n + 1 # 0 /\ (n + 1) - 1 = n
  OBVIOUS
<1>5. b[n + 1] = Advance(t, lenient, b[n])
  BY <1>4, <1>7
<1> QED
  BY <1>3, <1>5, <1>8

\* The components of two parts of a walk.
LEMMA StepsAdd ==
  ASSUME NEW t, NEW lenient, NEW s, NEW m \in Nat, NEW n \in Nat
  PROVE  Steps(t, lenient, m + n, s) = Steps(t, lenient, n, Steps(t, lenient, m, s))
<1> PICK u : u = Steps(t, lenient, m, s)
  OBVIOUS
<1> DEFINE S == {k \in 0 .. n : Steps(t, lenient, m + k, s) = Steps(t, lenient, k, u)}
<1>1. 0 \in S
  <2>1. m + 0 = m
    OBVIOUS
  <2> QED
    BY <2>1, StepsZero
<1>2. ASSUME NEW k \in 0 .. n - 1, k \in S PROVE k + 1 \in S
  <2>1. k \in Nat /\ m + k \in Nat /\ m + (k + 1) = (m + k) + 1 /\ k + 1 \in 0 .. n
    OBVIOUS
  <2>2. Steps(t, lenient, m + k, s) = Steps(t, lenient, k, u)
    BY <1>2
  <2>3. Steps(t, lenient, (m + k) + 1, s) = Advance(t, lenient, Steps(t, lenient, m + k, s))
    BY <2>1, StepsOne
  <2>5. Steps(t, lenient, k + 1, u) = Advance(t, lenient, Steps(t, lenient, k, u))
    BY <2>1, StepsOne
  <2>4. Steps(t, lenient, m + (k + 1), s) = Steps(t, lenient, k + 1, u)
    BY <2>1, <2>2, <2>3, <2>5
  <2> QED
    BY <2>1, <2>4
<1>3. n \in S
  <2> HIDE DEF S
  <2>1. \A k \in 0 .. n : k \in S
    BY <1>1, <1>2, UpToInduction
  <2> QED
    BY <2>1
<1> QED
  BY <1>3

\* A walk that has ended stays where it is.
LEMMA StepsStay ==
  ASSUME NEW t, NEW lenient, NEW s, NEW m \in Nat, NEW n \in Nat, m <= n,
         Steps(t, lenient, m, s).rest = <<>>
  PROVE  Steps(t, lenient, n, s) = Steps(t, lenient, m, s)
<1> PICK u : u = Steps(t, lenient, m, s)
  OBVIOUS
<1> DEFINE S == {k \in 0 .. n - m : Steps(t, lenient, k, u) = u}
<1>1. n - m \in Nat /\ m + (n - m) = n
  OBVIOUS
<1>2. u.rest = <<>>
  OBVIOUS
<1>3. Steps(t, lenient, 0, u) = u
  BY StepsZero
<1>7. \A k \in Nat : Steps(t, lenient, k + 1, u) = Advance(t, lenient, Steps(t, lenient, k, u))
  BY StepsOne
<1>8. 0 \in S
  BY <1>1, <1>3
<1>4. ASSUME NEW k \in 0 .. (n - m) - 1, k \in S PROVE k + 1 \in S
  <2>1. k \in Nat /\ k + 1 \in 0 .. n - m
    OBVIOUS
  <2>2. Steps(t, lenient, k + 1, u) = Advance(t, lenient, Steps(t, lenient, k, u))
    BY <1>7, <2>1
  <2>3. Advance(t, lenient, u) = u
    BY <1>2 DEF Advance
  <2>4. Steps(t, lenient, k, u) = u
    BY <1>4
  <2> QED
    BY <2>1, <2>2, <2>3, <2>4
<1>5. n - m \in S
  <2> HIDE DEF S
  <2>1. \A k \in 0 .. n - m : k \in S
    BY <1>1, <1>8, <1>4, UpToInduction
  <2> QED
    BY <1>1, <2>1
<1>6. Steps(t, lenient, m + (n - m), s) = Steps(t, lenient, n - m, u)
  BY <1>1, StepsAdd
<1> QED
  BY <1>1, <1>5, <1>6

\* A walk is as many steps as MaxWalk.
LEMMA WalkSteps ==
  ASSUME NEW t, NEW lenient, NEW path
  PROVE  LET end == Steps(t, lenient, MaxWalk, Start(path))
         IN  Walk(t, lenient, path) = IF end.rest = <<>> THEN end.at ELSE Missing
<1> DEFINE s == Start(path)
           early == Steps(t, lenient, 8, s)
           late == Steps(t, lenient, MaxWalk - 8, early)
<1>1. MaxWalk - 8 \in Nat /\ 8 + (MaxWalk - 8) = MaxWalk /\ MaxWalk \in Nat /\ 8 \in Nat /\ 8 <= MaxWalk
  BY TreesAssumption
<1>2. Walk(t, lenient, path) = IF early.rest = <<>> THEN early.at
                               ELSE IF late.rest = <<>> THEN late.at ELSE Missing
  BY DEF Walk, Start
<1>3. late = Steps(t, lenient, MaxWalk, s)
  <2> HIDE DEF s
  <2>1. Steps(t, lenient, 8 + (MaxWalk - 8), s) = late
    BY <1>1, StepsAdd
  <2> QED
    BY <1>1, <2>1
<1>4. early.rest = <<>> => late = early
  <2> HIDE DEF s, late
  <2>1. ASSUME early.rest = <<>> PROVE Steps(t, lenient, MaxWalk, s) = early
    BY <1>1, <2>1, StepsStay
  <2> QED
    BY <1>3, <2>1
<1> HIDE DEF s, early, late
<1> QED
  BY <1>2, <1>3, <1>4 DEF s

\* A walk that ends in time arrives where it ends, and one that arrives somewhere
\* has ended.
LEMMA WalkEnded ==
  ASSUME NEW t, NEW lenient, NEW path, NEW n \in Nat, n <= MaxWalk,
         Steps(t, lenient, n, Start(path)).rest = <<>>
  PROVE  Walk(t, lenient, path) = Steps(t, lenient, n, Start(path)).at
<1>1. MaxWalk \in Nat
  BY TreesAssumption
<1>2. Steps(t, lenient, MaxWalk, Start(path)) = Steps(t, lenient, n, Start(path))
  BY <1>1, StepsStay
<1> QED
  BY <1>2, WalkSteps

\* The states of a walk: at a file or a directory, or lost.
States(t) ==
  [at : {p \in Locations : KindAt(t, p) \in {"file", "dir"}}, rest : Seq(Word)] \cup {Lost}

LEMMA StateFacts ==
  ASSUME NEW t, IsTree(t), NEW s \in States(t)
  PROVE  /\ s.rest \in Seq(Word) /\ s = [at |-> s.at, rest |-> s.rest]
         /\ s.at = Missing <=> s = Lost
         /\ s # Lost => s.at \in Locations /\ s.at \in Seq(Word) /\ KindAt(t, s.at) \in {"file", "dir"}
         /\ s.rest # <<>> => s # Lost /\ Head(s.rest) \in Word /\ Tail(s.rest) \in Seq(Word)
<1>1. CASE s = Lost
  <2>1. s.rest = <<>> /\ s.at = Missing /\ s = [at |-> s.at, rest |-> s.rest]
    BY <1>1 DEF Lost
  <2> QED
    BY <1>1, <2>1
<1>2. CASE s # Lost
  <2>1. /\ s.at \in Locations /\ KindAt(t, s.at) \in {"file", "dir"} /\ s.rest \in Seq(Word)
        /\ s = [at |-> s.at, rest |-> s.rest]
    BY <1>2 DEF States
  <2>2. s.at \in Seq(Word) /\ s.at # Missing
    BY <2>1, LocationFacts
  <2>3. s.rest # <<>> => Head(s.rest) \in Word /\ Tail(s.rest) \in Seq(Word)
    BY <2>1
  <2> QED
    BY <1>2, <2>1, <2>2, <2>3
<1> QED
  BY <1>1, <1>2

LEMMA AState ==
  ASSUME NEW t, NEW p \in Locations, KindAt(t, p) \in {"file", "dir"}, NEW rest \in Seq(Word)
  PROVE  [at |-> p, rest |-> rest] \in States(t)
BY DEF States

\* Names of locations hold no dots.
LEMMA NoDotEntry ==
  ASSUME NEW t, NEW p \in Seq(Word), NEW x \in Word, x \in Dots
  PROVE  KindAt(t, Append(p, x)) = "none"
<1> SUFFICES ASSUME Append(p, x) \in Locations PROVE FALSE
  BY DEF KindAt
<1>2. Append(p, x)[Len(p) + 1] = x /\ Len(Append(p, x)) = Len(p) + 1 /\ Len(p) + 1 \in 1 .. Len(p) + 1
  BY AppendFacts
<1>3. Plain(Append(p, x))
  BY LocationFacts
<1> QED
  BY <1>2, <1>3 DEF Plain

\* What a component does, case by case.
LEMMA StepCases ==
  ASSUME NEW t, IsTree(t), NEW lenient, NEW s \in States(t), s.rest # <<>>
  PROVE  LET x    == Head(s.rest)
             rest == Tail(s.rest)
             next == Append(s.at, x)
             dir  == KindAt(t, s.at) = "dir"
             to   == Advance(t, lenient, s)
         IN /\ x = "."  /\ (dir \/ lenient) => to = [at |-> s.at, rest |-> rest]
            /\ x = ".." /\ (dir \/ lenient) => to = [at |-> Parent(s.at), rest |-> rest]
            /\ x \in Dots /\ ~(dir \/ lenient) => to = Lost
            /\ x \notin Dots /\ dir /\ KindAt(t, next) \in {"file", "dir"} => to = [at |-> next, rest |-> rest]
            /\ x \notin Dots /\ dir /\ KindAt(t, next) = "link" =>
                 to = [at |-> <<>>, rest |-> t[next].to \o rest]
            /\ x \notin Dots /\ (~dir \/ KindAt(t, next) = "none") => to = Lost
<1> DEFINE x    == Head(s.rest)
           rest == Tail(s.rest)
           next == Append(s.at, x)
           dir  == KindAt(t, s.at) = "dir"
           to   == Advance(t, lenient, s)
<1>1. s.at \in Seq(Word) /\ x \in Word
  BY StateFacts
<1>2. to =
        CASE x = "."  /\ (dir \/ lenient) -> [at |-> s.at, rest |-> rest]
          [] x = ".." /\ (dir \/ lenient) -> [at |-> Parent(s.at), rest |-> rest]
          [] dir /\ KindAt(t, next) \in {"file", "dir"} -> [at |-> next, rest |-> rest]
          [] dir /\ KindAt(t, next) = "link" -> [at |-> <<>>, rest |-> t[next].to \o rest]
          [] OTHER -> Lost
  BY DEF Advance, Lost
<1>3. x \in Dots => KindAt(t, next) = "none"
  BY <1>1, NoDotEntry
<1>4. x \in Dots <=> x = "." \/ x = ".."
  BY DEF Dots
<1> HIDE DEF x, rest, next, dir, to
<1> DEFINE Goal ==
      /\ x = "."  /\ (dir \/ lenient) => to = [at |-> s.at, rest |-> rest]
      /\ x = ".." /\ (dir \/ lenient) => to = [at |-> Parent(s.at), rest |-> rest]
      /\ x \in Dots /\ ~(dir \/ lenient) => to = Lost
      /\ x \notin Dots /\ dir /\ KindAt(t, next) \in {"file", "dir"} => to = [at |-> next, rest |-> rest]
      /\ x \notin Dots /\ dir /\ KindAt(t, next) = "link" =>
           to = [at |-> <<>>, rest |-> t[next].to \o rest]
      /\ x \notin Dots /\ (~dir \/ KindAt(t, next) = "none") => to = Lost
<1>5. ASSUME x = "." PROVE Goal
  <2>1. (dir \/ lenient => to = [at |-> s.at, rest |-> rest]) /\ (~(dir \/ lenient) => to = Lost)
    BY <1>2, <1>3, <1>4, <1>5
  <2> QED
    BY <1>4, <1>5, <2>1
<1>6. ASSUME x = ".." PROVE Goal
  <2>1. (dir \/ lenient => to = [at |-> Parent(s.at), rest |-> rest]) /\ (~(dir \/ lenient) => to = Lost)
    BY <1>2, <1>3, <1>4, <1>6
  <2> QED
    BY <1>4, <1>6, <2>1
<1>7. ASSUME x # ".", x # ".." PROVE Goal
  <2>1. dir /\ KindAt(t, next) \in {"file", "dir"} => to = [at |-> next, rest |-> rest]
    BY <1>2, <1>7
  <2>2. dir /\ KindAt(t, next) = "link" => to = [at |-> <<>>, rest |-> t[next].to \o rest]
    BY <1>2, <1>7
  <2>3. ~dir \/ KindAt(t, next) = "none" => to = Lost
    BY <1>2, <1>7
  <2> QED
    BY <1>4, <1>7, <2>1, <2>2, <2>3
<1>8. Goal
  BY <1>5, <1>6, <1>7
<1> QED
  BY <1>8, Zenon DEF x, rest, next, dir, to

LEMMA AtEnd ==
  ASSUME NEW t, NEW lenient, NEW s, s.rest = <<>>
  PROVE  Advance(t, lenient, s) = s
BY DEF Advance

LEMMA LostStays ==
  ASSUME NEW t, NEW lenient
  PROVE  Advance(t, lenient, Lost) = Lost
BY AtEnd DEF Lost

\* A component leads from a state to a state.
LEMMA AdvanceState ==
  ASSUME NEW t, IsTree(t), NEW lenient, NEW s \in States(t)
  PROVE  Advance(t, lenient, s) \in States(t)
<1>1. CASE s.rest = <<>>
  BY <1>1, AtEnd
<1>2. CASE s.rest # <<>>
  <2> PICK rest : rest = Tail(s.rest)
    OBVIOUS
  <2> PICK x : x = Head(s.rest)
    OBVIOUS
  <2> PICK next : next = Append(s.at, x)
    OBVIOUS
  <2> PICK to : to = Advance(t, lenient, s)
    OBVIOUS
  <2>1. rest \in Seq(Word) /\ s.at \in Locations /\ KindAt(t, s.at) \in {"file", "dir"} /\ x \in Word
    BY <1>2, StateFacts
  <2>2. Parent(s.at) \in Locations /\ KindAt(t, Parent(s.at)) = "dir"
    <3>1. KindAt(t, s.at) # "none"
      BY <2>1
    <3> QED
      BY <2>1, <3>1, KindFacts, LocationFacts
  <2>3. KindAt(t, next) # "none" => next \in Locations
    BY KindFacts
  <2>4. KindAt(t, next) = "link" => t[next].to \o rest \in Seq(Word)
    <3>1. KindAt(t, next) = "link" => t[next].to \in Seq(Word)
      BY KindFacts
    <3> QED
      BY <2>1, <3>1
  <2>5. <<>> \in Locations /\ KindAt(t, <<>>) = "dir"
    BY TopFacts
  <2>6. Lost \in States(t)
    BY DEF States
  <2>7. \/ to = [at |-> s.at, rest |-> rest]
        \/ to = [at |-> Parent(s.at), rest |-> rest]
        \/ to = Lost
        \/ /\ KindAt(t, next) \in {"file", "dir"}
           /\ to = [at |-> next, rest |-> rest]
        \/ /\ KindAt(t, next) = "link"
           /\ to = [at |-> <<>>, rest |-> t[next].to \o rest]
    BY <1>2, AdvanceFacts DEF Lost
  <2>8. CASE to = [at |-> s.at, rest |-> rest]
    BY <2>1, <2>8, AState
  <2>9. CASE to = [at |-> Parent(s.at), rest |-> rest]
    BY <2>1, <2>2, <2>9, AState
  <2>10. CASE KindAt(t, next) \in {"file", "dir"} /\ to = [at |-> next, rest |-> rest]
    BY <2>1, <2>3, <2>10, AState
  <2>11. CASE KindAt(t, next) = "link" /\ to = [at |-> <<>>, rest |-> t[next].to \o rest]
    BY <2>4, <2>5, <2>11, AState
  <2> QED
    BY <2>6, <2>7, <2>8, <2>9, <2>10, <2>11
<1> QED
  BY <1>1, <1>2

LEMMA StartState ==
  ASSUME NEW t, IsTree(t), NEW path \in Seq(Word)
  PROVE  Start(path) \in States(t) /\ Start(path).at = <<>> /\ Start(path).rest = path
BY TopFacts, AState DEF Start

\* So do any number of them, and each goes down by one name at most.
LEMMA StepsState ==
  ASSUME NEW t, IsTree(t), NEW lenient, NEW s \in States(t), NEW n \in Nat
  PROVE  /\ Steps(t, lenient, n, s) \in States(t)
         /\ s.at = <<>> /\ Steps(t, lenient, n, s) # Lost => Len(Steps(t, lenient, n, s).at) <= n
<1> DEFINE I == [k \in Nat |-> States(t)]
           J == [k \in Nat |-> {r \in States(t) : r # Lost => Len(r.at) <= k}]
<1>1. \A k \in Nat : I[k] = States(t) /\ k + 1 \in Nat
  OBVIOUS
<1>2. \A k \in Nat : J[k] = {r \in States(t) : r # Lost => Len(r.at) <= k}
  OBVIOUS
<1> HIDE DEF I, J
<1>3. \A k \in Nat : \A r \in I[k] : Advance(t, lenient, r) \in I[k + 1]
  BY <1>1, AdvanceState
<1>4. Steps(t, lenient, n, s) \in States(t)
  <2>1. 0 \in Nat /\ s \in I[0] /\ 0 + n = n
    BY <1>1
  <2>2. Steps(t, lenient, n, s) \in I[0 + n]
    BY <1>3, <2>1, StepsKeep
  <2> QED
    BY <1>1, <2>1, <2>2
<1>5. ASSUME NEW k \in Nat, NEW r \in J[k] PROVE Advance(t, lenient, r) \in J[k + 1]
  <2>1. r \in States(t) /\ (r # Lost => Len(r.at) <= k) /\ Advance(t, lenient, r) \in States(t)
    BY <1>2, <1>5, AdvanceState
  <2> PICK to : to = Advance(t, lenient, r)
    OBVIOUS
  <2>2. CASE r.rest = <<>>
    <3>1. to = r
      BY <2>2, AtEnd
    <3>2. to # Lost => Len(to.at) <= k /\ to.at \in Seq(Word)
      BY <2>1, <3>1, StateFacts
    <3>3. to # Lost => Len(to.at) <= k + 1
      BY <3>2
    <3> QED
      BY <1>1, <1>2, <2>1, <3>3
  <2>3. CASE r.rest # <<>>
    <3> PICK x : x = Head(r.rest)
      OBVIOUS
    <3> PICK next : next = Append(r.at, x)
      OBVIOUS
    <3>1. r # Lost /\ r.at \in Seq(Word) /\ x \in Word
      BY <2>1, <2>3, StateFacts
    <3>2. Len(r.at) <= k
      BY <2>1, <3>1
    <3> PICK rest : rest = Tail(r.rest)
      OBVIOUS
    <3>8. \/ to = [at |-> r.at, rest |-> rest]
          \/ to = [at |-> Parent(r.at), rest |-> rest]
          \/ to = Lost
          \/ to = [at |-> next, rest |-> rest]
          \/ to = [at |-> <<>>, rest |-> t[next].to \o rest]
      <4> HIDE DEF Lost
      <4>1. LET rr == Tail(r.rest)
                nn == Append(r.at, Head(r.rest))
            IN \/ to = [at |-> r.at, rest |-> rr]
               \/ to = [at |-> Parent(r.at), rest |-> rr]
               \/ to = Lost
               \/ to = [at |-> nn, rest |-> rr]
               \/ to = [at |-> <<>>, rest |-> t[nn].to \o rr]
        BY <2>3, AdvanceFacts, Zenon DEF Lost
      <4> QED
        BY <4>1
    <3>3. to = Lost \/ to.at = r.at \/ to.at = Parent(r.at) \/ to.at = next \/ to.at = <<>>
      <4>1. \A q, y : [at |-> q, rest |-> y].at = q
        OBVIOUS
      <4> QED
        BY <3>8, <4>1, Zenon
    <3>4. Len(r.at) <= k + 1
      BY <3>1, <3>2
    <3>5. Len(next) <= k + 1
      BY <3>1, <3>2, AppendFacts
    <3>6. Len(Parent(r.at)) <= k + 1
      <4>1. CASE r.at = <<>>
        BY <4>1 DEF Parent
      <4>2. CASE r.at # <<>>
        <5>1. Len(Parent(r.at)) = Len(r.at) - 1
          BY <3>1, <4>2, ParentFacts
        <5> QED
          BY <3>1, <3>2, <5>1
      <4> QED
        BY <4>1, <4>2
    <3>7. to # Lost => Len(to.at) <= k + 1
      BY <3>3, <3>4, <3>5, <3>6
    <3> QED
      BY <1>1, <1>2, <2>1, <3>7
  <2> QED
    BY <2>2, <2>3
<1>6. ASSUME s.at = <<>>, Steps(t, lenient, n, s) # Lost PROVE Len(Steps(t, lenient, n, s).at) <= n
  <2>1. 0 \in Nat /\ s \in J[0] /\ 0 + n = n
    BY <1>2, <1>6
  <2>2. Steps(t, lenient, n, s) \in J[0 + n]
    BY <1>5, <2>1, StepsKeep
  <2> QED
    BY <1>2, <1>6, <2>1, <2>2
<1> QED
  BY <1>4, <1>6

\* A walk arrives at what its last state is at.
LEMMA Arrived ==
  ASSUME NEW t, IsTree(t), NEW lenient, NEW path \in Seq(Word), NEW q, q # Missing
  PROVE  Walk(t, lenient, path) = q <=> Steps(t, lenient, MaxWalk, Start(path)) = [at |-> q, rest |-> <<>>]
<1> PICK end : end = Steps(t, lenient, MaxWalk, Start(path))
  OBVIOUS
<1>1. end \in States(t)
  BY StartState, StepsState, TreesAssumption
<1>2. end = [at |-> end.at, rest |-> end.rest]
  BY <1>1, StateFacts
<1>3. Walk(t, lenient, path) = IF end.rest = <<>> THEN end.at ELSE Missing
  BY WalkSteps
<1> QED
  BY <1>2, <1>3

--------------------------------------------------------------------------------
(* Walks of two trees and of two hosts.                                    *)

\* What holds of the states of two walks and is kept by a component of each holds
\* after any number of them.
LEMMA StepsRelate ==
  ASSUME NEW t, NEW l, NEW u, NEW m, NEW R, NEW a, NEW b, <<a, b>> \in R, NEW n \in Nat,
         \A p, q : <<p, q>> \in R => <<Advance(t, l, p), Advance(u, m, q)>> \in R
  PROVE  <<Steps(t, l, n, a), Steps(u, m, n, b)>> \in R
<1> DEFINE S == {k \in 0 .. n : <<Steps(t, l, k, a), Steps(u, m, k, b)>> \in R}
<1>1. 0 \in S
  BY StepsZero
<1>2. ASSUME NEW k \in 0 .. n - 1, k \in S PROVE k + 1 \in S
  <2>1. k \in Nat /\ k + 1 \in 0 .. n
    OBVIOUS
  <2>2. /\ Steps(t, l, k + 1, a) = Advance(t, l, Steps(t, l, k, a))
        /\ Steps(u, m, k + 1, b) = Advance(u, m, Steps(u, m, k, b))
    BY <2>1, StepsOne
  <2>3. <<Steps(t, l, k, a), Steps(u, m, k, b)>> \in R
    BY <1>2
  <2> QED
    BY <2>1, <2>2, <2>3
<1>3. n \in S
  <2> HIDE DEF S
  <2>1. \A k \in 0 .. n : k \in S
    BY <1>1, <1>2, UpToInduction
  <2> QED
    BY <2>1
<1> QED
  BY <1>3

LEMMA KindValues ==
  ASSUME NEW t, IsTree(t)
  PROVE  \A p : KindAt(t, p) \in {"none", "file", "dir", "link"}
BY KindFacts

\* A strict walk that arrives does so on a lenient host too.
LEMMA LenientWalk ==
  ASSUME NEW t, IsTree(t), NEW l, ~l, NEW lenient, NEW path \in Seq(Word), Walk(t, l, path) # Missing
  PROVE  Walk(t, lenient, path) = Walk(t, l, path)
<1> DEFINE R == {r \in States(t) \X States(t) : r[1] = Lost \/ r[1] = r[2]}
<1> PICK q : q = Walk(t, l, path)
  OBVIOUS
<1>1. Start(path) \in States(t) /\ MaxWalk \in Nat
  BY StartState, TreesAssumption
<1>2. <<Start(path), Start(path)>> \in R
  BY <1>1
<1>3. ASSUME NEW p, NEW r, <<p, r>> \in R
      PROVE  <<Advance(t, l, p), Advance(t, lenient, r)>> \in R
  <2>1. p \in States(t) /\ r \in States(t) /\ (p = Lost \/ p = r)
    BY <1>3
  <2> PICK a : a = Advance(t, l, p)
    OBVIOUS
  <2> PICK b : b = Advance(t, lenient, r)
    OBVIOUS
  <2>2. a \in States(t) /\ b \in States(t)
    BY <2>1, AdvanceState
  <2>3. a = Lost \/ a = b
    <3>1. CASE p = Lost
      BY <3>1, LostStays
    <3>2. CASE p.rest = <<>> /\ p = r
      BY <3>2, AtEnd
    <3>3. CASE p.rest # <<>> /\ p = r
      <4> PICK x : x = Head(p.rest)
        OBVIOUS
      <4> PICK rest : rest = Tail(p.rest)
        OBVIOUS
      <4> PICK next : next = Append(p.at, x)
        OBVIOUS
      <4>1. KindAt(t, next) \in {"none", "file", "dir", "link"}
        BY KindValues
      <4>2. x \in Dots => x = "." \/ x = ".."
        BY DEF Dots
      <4>3. /\ x = "."  /\ KindAt(t, p.at) = "dir" => a = b
            /\ x = ".." /\ KindAt(t, p.at) = "dir" => a = b
            /\ x \in Dots /\ ~(KindAt(t, p.at) = "dir") => a = Lost
            /\ x \notin Dots /\ KindAt(t, p.at) = "dir" /\ KindAt(t, next) \in {"file", "dir"} => a = b
            /\ x \notin Dots /\ KindAt(t, p.at) = "dir" /\ KindAt(t, next) = "link" => a = b
            /\ x \notin Dots /\ (~(KindAt(t, p.at) = "dir") \/ KindAt(t, next) = "none") => a = Lost
        BY <2>1, <3>3, StepCases
      <4> QED
        BY <4>1, <4>2, <4>3
    <3> QED
      BY <2>1, <3>1, <3>2, <3>3
  <2> QED
    BY <2>2, <2>3
<1> PICK e : e = Steps(t, l, MaxWalk, Start(path))
  OBVIOUS
<1> PICK f : f = Steps(t, lenient, MaxWalk, Start(path))
  OBVIOUS
<1>4. <<e, f>> \in R
  <2> HIDE DEF R
  <2> QED
    BY <1>1, <1>2, <1>3, StepsRelate
<1>5. e = [at |-> q, rest |-> <<>>]
  BY Arrived
<1>6. e # Lost
  BY <1>5 DEF Lost
<1>7. f = [at |-> q, rest |-> <<>>]
  BY <1>4, <1>5, <1>6
<1> QED
  BY <1>7, Arrived

\* Words without dots.
NoDots(s) == \A i \in 1 .. Len(s) : s[i] \notin Dots

LEMMA NoDotsTail ==
  ASSUME NEW s \in Seq(Word), s # <<>>, NoDots(s)
  PROVE  Head(s) \notin Dots /\ Tail(s) \in Seq(Word) /\ NoDots(Tail(s))
<1>1. Len(s) \in Nat /\ Len(s) >= 1 /\ Head(s) = s[1]
  OBVIOUS
<1>2. Tail(s) \in Seq(Word) /\ Len(Tail(s)) = Len(s) - 1 /\ \A i \in 1 .. Len(s) - 1 : Tail(s)[i] = s[i + 1]
  OBVIOUS
<1>3. \A i \in 1 .. Len(s) - 1 : i + 1 \in 1 .. Len(s)
  BY <1>1
<1> QED
  BY <1>1, <1>2, <1>3 DEF NoDots

LEMMA NoDotsJoin ==
  ASSUME NEW s \in Seq(Word), NEW r \in Seq(Word), NoDots(s), NoDots(r)
  PROVE  s \o r \in Seq(Word) /\ NoDots(s \o r)
<1>1. /\ s \o r \in Seq(Word) /\ Len(s \o r) = Len(s) + Len(r)
      /\ \A i \in 1 .. Len(s) + Len(r) : (s \o r)[i] = IF i <= Len(s) THEN s[i] ELSE r[i - Len(s)]
  OBVIOUS
<1>2. ASSUME NEW i \in 1 .. Len(s) + Len(r) PROVE (s \o r)[i] \notin Dots
  <2>1. CASE i <= Len(s)
    <3>1. i \in 1 .. Len(s)
      BY <2>1
    <3> QED
      BY <1>1, <2>1, <3>1 DEF NoDots
  <2>2. CASE ~(i <= Len(s))
    <3>1. i - Len(s) \in 1 .. Len(r)
      BY <2>2
    <3> QED
      BY <1>1, <2>2, <3>1 DEF NoDots
  <2> QED
    BY <2>1, <2>2
<1> QED
  BY <1>1, <1>2 DEF NoDots

\* Where neither the path nor a link has dots, the hosts agree.
LEMMA PlainWalk ==
  ASSUME NEW t, IsTree(t), NEW l, ~l, NEW lenient, NEW path \in Seq(Word), NoDots(path),
         \A p \in Locations : KindAt(t, p) = "link" => NoDots(t[p].to)
  PROVE  Walk(t, lenient, path) = Walk(t, l, path)
<1> DEFINE R == {r \in States(t) \X States(t) : r[1] = r[2] /\ NoDots(r[1].rest)}
<1>1. Start(path) \in States(t) /\ Start(path).rest = path /\ MaxWalk \in Nat
  BY StartState, TreesAssumption
<1>2. <<Start(path), Start(path)>> \in R
  BY <1>1
<1>3. ASSUME NEW p, NEW r, <<p, r>> \in R
      PROVE  <<Advance(t, l, p), Advance(t, lenient, r)>> \in R
  <2>1. p \in States(t) /\ p = r /\ NoDots(p.rest)
    BY <1>3
  <2> PICK a : a = Advance(t, l, p)
    OBVIOUS
  <2> PICK b : b = Advance(t, lenient, r)
    OBVIOUS
  <2>2. a \in States(t) /\ b \in States(t)
    BY <2>1, AdvanceState
  <2>3. a = b /\ NoDots(a.rest)
    <3>1. CASE p.rest = <<>>
      BY <2>1, <3>1, AtEnd
    <3>2. CASE p.rest # <<>>
      <4> PICK x : x = Head(p.rest)
        OBVIOUS
      <4> PICK rest : rest = Tail(p.rest)
        OBVIOUS
      <4> PICK next : next = Append(p.at, x)
        OBVIOUS
      <4>1. KindAt(t, next) \in {"none", "file", "dir", "link"}
        BY KindValues
      <4>2. x \notin Dots /\ rest \in Seq(Word) /\ NoDots(rest)
        BY <2>1, <3>2, StateFacts, NoDotsTail
      <4>3. KindAt(t, next) = "link" => NoDots(t[next].to \o rest)
        <5>1. KindAt(t, next) = "link" => next \in Locations /\ t[next].to \in Seq(Word)
          BY KindFacts
        <5> QED
          BY <4>2, <5>1, NoDotsJoin
      <4>4. NoDots(Lost.rest)
        BY DEF NoDots, Lost
      <4>5. /\ KindAt(t, p.at) = "dir" /\ KindAt(t, next) \in {"file", "dir"} =>
                 a = [at |-> next, rest |-> rest] /\ b = a
            /\ KindAt(t, p.at) = "dir" /\ KindAt(t, next) = "link" =>
                 a = [at |-> <<>>, rest |-> t[next].to \o rest] /\ b = a
            /\ ~(KindAt(t, p.at) = "dir") \/ KindAt(t, next) = "none" => a = Lost /\ b = Lost
        BY <2>1, <3>2, <4>2, StepCases
      <4>6. CASE KindAt(t, p.at) = "dir" /\ KindAt(t, next) \in {"file", "dir"}
        <5>1. a = [at |-> next, rest |-> rest] /\ b = a
          BY <4>5, <4>6
        <5>2. a.rest = rest
          BY <5>1
        <5> QED
          BY <4>2, <5>1, <5>2
      <4>7. CASE KindAt(t, p.at) = "dir" /\ KindAt(t, next) = "link"
        <5>1. a = [at |-> <<>>, rest |-> t[next].to \o rest] /\ b = a
          BY <4>5, <4>7
        <5>2. a.rest = t[next].to \o rest
          <6>1. \A q, y : [at |-> q, rest |-> y].rest = y
            OBVIOUS
          <6> QED
            BY <5>1, <6>1, Zenon
        <5> QED
          BY <4>3, <4>7, <5>1, <5>2
      <4>8. CASE ~(KindAt(t, p.at) = "dir") \/ KindAt(t, next) = "none"
        BY <4>4, <4>5, <4>8
      <4> QED
        BY <4>1, <4>6, <4>7, <4>8
    <3> QED
      BY <3>1, <3>2
  <2> QED
    BY <2>2, <2>3
<1> PICK e : e = Steps(t, l, MaxWalk, Start(path))
  OBVIOUS
<1> PICK f : f = Steps(t, lenient, MaxWalk, Start(path))
  OBVIOUS
<1>4. <<e, f>> \in R
  <2> HIDE DEF R
  <2> QED
    BY <1>1, <1>2, <1>3, StepsRelate
<1>5. e = f
  BY <1>4
<1> QED
  BY <1>5, WalkSteps

--------------------------------------------------------------------------------
(* Trees that have grown.                                                  *)

\* u is t with files that were not there.
Grown(t, u) == \A p \in Locations : u[p] = t[p] \/ (t[p] = None /\ u[p] = File)

\* Where the walks of the two are: at the same, or the one is lost and the other
\* is lost too or at a new file.
Apart(t, u, a, b) ==
  a = Lost /\ (b = Lost \/ (b.at \in Locations /\ t[b.at] = None /\ u[b.at] = File))

LEMMA GrownFacts ==
  ASSUME NEW t, NEW u, IsTree(t), IsTree(u), Grown(t, u), NEW p
  PROVE  /\ KindAt(t, p) # "none" => KindAt(u, p) = KindAt(t, p) /\ u[p] = t[p]
         /\ KindAt(u, p) # "file" => KindAt(t, p) = KindAt(u, p)
         /\ KindAt(t, p) # KindAt(u, p) => p \in Locations /\ t[p] = None /\ u[p] = File
<1>1. CASE p \notin Locations
  BY <1>1 DEF KindAt
<1>2. CASE p \in Locations
  <2>1. KindAt(t, p) = t[p].kind /\ KindAt(u, p) = u[p].kind
    BY <1>2 DEF KindAt
  <2>2. u[p] = t[p] \/ (t[p] = None /\ u[p] = File)
    BY <1>2 DEF Grown
  <2>3. None.kind = "none" /\ File.kind = "file"
    BY DEF None, File
  <2> QED
    BY <1>2, <2>1, <2>2, <2>3
<1> QED
  BY <1>1, <1>2

LEMMA GrownStep ==
  ASSUME NEW t, NEW u, IsTree(t), IsTree(u), Grown(t, u), NEW l, ~l, NEW a \in States(t), NEW b \in States(u),
         a = b \/ Apart(t, u, a, b), NEW c, c = Advance(t, l, a), NEW d, d = Advance(u, l, b)
  PROVE  c = d \/ Apart(t, u, c, d)
<1>1. CASE a = b /\ a.rest = <<>>
  BY <1>1, AtEnd
<1>2. CASE a = b /\ a.rest # <<>>
  <2> PICK x : x = Head(a.rest)
    OBVIOUS
  <2> PICK rest : rest = Tail(a.rest)
    OBVIOUS
  <2> PICK next : next = Append(a.at, x)
    OBVIOUS
  <2>1. KindAt(u, a.at) = KindAt(t, a.at)
    <3>1. KindAt(t, a.at) \in {"file", "dir"}
      BY <1>2, StateFacts
    <3> QED
      BY <3>1, GrownFacts
  <2>2. KindAt(t, next) \in {"none", "file", "dir", "link"} /\ (x \in Dots => x = "." \/ x = "..")
    BY KindValues DEF Dots
  <2>3. CASE KindAt(u, next) = KindAt(t, next)
    <3>1. KindAt(t, next) = "link" => u[next] = t[next]
      BY GrownFacts
    <3>2. /\ x = "."  /\ KindAt(t, a.at) = "dir" => c = d
          /\ x = ".." /\ KindAt(t, a.at) = "dir" => c = d
          /\ x \in Dots /\ ~(KindAt(t, a.at) = "dir") => c = d
          /\ x \notin Dots /\ KindAt(t, a.at) = "dir" /\ KindAt(t, next) \in {"file", "dir"} => c = d
          /\ x \notin Dots /\ KindAt(t, a.at) = "dir" /\ KindAt(t, next) = "link" => c = d
          /\ x \notin Dots /\ (~(KindAt(t, a.at) = "dir") \/ KindAt(t, next) = "none") => c = d
      <4>1. d = Advance(u, l, a) /\ a \in States(u) /\ a.rest # <<>>
        BY <1>2
      <4>2. /\ x = "."  /\ KindAt(t, a.at) = "dir" => c = [at |-> a.at, rest |-> rest]
            /\ x = ".." /\ KindAt(t, a.at) = "dir" => c = [at |-> Parent(a.at), rest |-> rest]
            /\ x \in Dots /\ ~(KindAt(t, a.at) = "dir") => c = Lost
            /\ x \notin Dots /\ KindAt(t, a.at) = "dir" /\ KindAt(t, next) \in {"file", "dir"} =>
                 c = [at |-> next, rest |-> rest]
            /\ x \notin Dots /\ KindAt(t, a.at) = "dir" /\ KindAt(t, next) = "link" =>
                 c = [at |-> <<>>, rest |-> t[next].to \o rest]
            /\ x \notin Dots /\ (~(KindAt(t, a.at) = "dir") \/ KindAt(t, next) = "none") => c = Lost
        BY <1>2, StepCases
      <4>4. /\ x = "."  /\ KindAt(u, a.at) = "dir" => d = [at |-> a.at, rest |-> rest]
            /\ x = ".." /\ KindAt(u, a.at) = "dir" => d = [at |-> Parent(a.at), rest |-> rest]
            /\ x \in Dots /\ ~(KindAt(u, a.at) = "dir") => d = Lost
            /\ x \notin Dots /\ KindAt(u, a.at) = "dir" /\ KindAt(u, next) \in {"file", "dir"} =>
                 d = [at |-> next, rest |-> rest]
            /\ x \notin Dots /\ KindAt(u, a.at) = "dir" /\ KindAt(u, next) = "link" =>
                 d = [at |-> <<>>, rest |-> u[next].to \o rest]
            /\ x \notin Dots /\ (~(KindAt(u, a.at) = "dir") \/ KindAt(u, next) = "none") => d = Lost
        BY <4>1, StepCases
      <4>3. /\ x = "."  /\ KindAt(t, a.at) = "dir" => d = [at |-> a.at, rest |-> rest]
            /\ x = ".." /\ KindAt(t, a.at) = "dir" => d = [at |-> Parent(a.at), rest |-> rest]
            /\ x \in Dots /\ ~(KindAt(t, a.at) = "dir") => d = Lost
            /\ x \notin Dots /\ KindAt(t, a.at) = "dir" /\ KindAt(u, next) \in {"file", "dir"} =>
                 d = [at |-> next, rest |-> rest]
            /\ x \notin Dots /\ KindAt(t, a.at) = "dir" /\ KindAt(u, next) = "link" =>
                 d = [at |-> <<>>, rest |-> u[next].to \o rest]
            /\ x \notin Dots /\ (~(KindAt(t, a.at) = "dir") \/ KindAt(u, next) = "none") => d = Lost
        BY <2>1, <4>4
      <4> QED
        BY <1>2, <2>3, <3>1, <4>2, <4>3
    <3> QED
      BY <2>2, <3>2
  <2>4. CASE KindAt(u, next) # KindAt(t, next)
    <3>1. next \in Locations /\ t[next] = None /\ u[next] = File /\ KindAt(t, next) = "none" /\ KindAt(u, next) = "file"
      <4>1. next \in Locations /\ t[next] = None /\ u[next] = File
        BY <2>4, GrownFacts
      <4> QED
        BY <4>1 DEF KindAt, None, File
    <3>2. x \notin Dots
      <4>1. a.at \in Seq(Word) /\ x \in Word
        BY <1>2, StateFacts
      <4>2. x \in Dots => KindAt(u, next) = "none"
        BY <4>1, NoDotEntry
      <4> QED
        BY <3>1, <4>2
    <3>3. c = Lost
      BY <1>2, <3>1, <3>2, StepCases
    <3>4. d = Lost \/ d = [at |-> next, rest |-> rest]
      BY <1>2, <3>1, <3>2, StepCases
    <3> QED
      <4>1. CASE d = Lost
        BY <3>3, <4>1
      <4>2. CASE d = [at |-> next, rest |-> rest]
        <5>1. d.at = next
          BY <4>2
        <5> QED
          BY <3>1, <3>3, <5>1 DEF Apart
      <4> QED
        BY <3>4, <4>1, <4>2
  <2> QED
    BY <2>3, <2>4
<1>3. CASE Apart(t, u, a, b)
  <2>1. c = Lost
    BY <1>3, LostStays DEF Apart
  <2>2. CASE b.rest = <<>>
    BY <1>3, <2>1, <2>2, AtEnd DEF Apart
  <2>3. CASE b.rest # <<>>
    <3>1. b # Lost
      BY <2>3 DEF Lost
    <3>2. KindAt(u, b.at) = "file"
      BY <1>3, <3>1 DEF Apart, KindAt, File
    <3> PICK x : x = Head(b.rest)
      OBVIOUS
    <3>3. /\ x \in Dots => d = Lost
          /\ x \notin Dots => d = Lost
      BY <2>3, <3>2, StepCases
    <3> QED
      BY <2>1, <3>3
  <2> QED
    BY <2>2, <2>3
<1> QED
  BY <1>1, <1>2, <1>3

LEMMA GrownSteps ==
  ASSUME NEW t, NEW u, IsTree(t), IsTree(u), Grown(t, u), NEW l, ~l, NEW path \in Seq(Word), NEW n \in Nat
  PROVE  \/ Steps(t, l, n, Start(path)) = Steps(u, l, n, Start(path))
         \/ Apart(t, u, Steps(t, l, n, Start(path)), Steps(u, l, n, Start(path)))
<1> DEFINE R == {r \in States(t) \X States(u) : r[1] = r[2] \/ Apart(t, u, r[1], r[2])}
<1> PICK s : s = Start(path)
  OBVIOUS
<1>1. s \in States(t) /\ s \in States(u)
  BY StartState
<1>2. <<s, s>> \in R
  BY <1>1
<1>3. ASSUME NEW p, NEW r, <<p, r>> \in R
      PROVE  <<Advance(t, l, p), Advance(u, l, r)>> \in R
  <2>1. p \in States(t) /\ r \in States(u) /\ (p = r \/ Apart(t, u, p, r))
    BY <1>3
  <2> PICK a : a = Advance(t, l, p)
    OBVIOUS
  <2> PICK b : b = Advance(u, l, r)
    OBVIOUS
  <2>2. a \in States(t) /\ b \in States(u)
    BY <2>1, AdvanceState
  <2>3. a = b \/ Apart(t, u, a, b)
    BY <2>1, GrownStep
  <2> QED
    BY <2>2, <2>3
<1> PICK e : e = Steps(t, l, n, s)
  OBVIOUS
<1> PICK f : f = Steps(u, l, n, s)
  OBVIOUS
<1>4. <<e, f>> \in R
  <2> HIDE DEF R
  <2> QED
    BY <1>2, <1>3, StepsRelate
<1>5. e = f \/ Apart(t, u, e, f)
  BY <1>4
<1> QED
  BY <1>5

\* What a path led to it still leads to, and no new directory is reached.
LEMMA GrownWalk ==
  ASSUME NEW t, NEW u, IsTree(t), IsTree(u), Grown(t, u), NEW l, ~l, NEW path \in Seq(Word),
         NEW a, a = Walk(t, l, path), NEW b, b = Walk(u, l, path)
  PROVE  /\ a # Missing => b = a
         /\ KindAt(t, a) # "none" => KindAt(u, b) = KindAt(t, a)
         /\ KindAt(u, b) = "dir" => b = a /\ KindAt(t, a) = "dir"
<1> PICK e : e = Steps(t, l, MaxWalk, Start(path))
  OBVIOUS
<1> PICK f : f = Steps(u, l, MaxWalk, Start(path))
  OBVIOUS
<1>1. e = f \/ Apart(t, u, e, f)
  BY GrownSteps, TreesAssumption
<1>2. a # Missing => e = [at |-> a, rest |-> <<>>]
  BY Arrived
<1>3. b # Missing => f = [at |-> b, rest |-> <<>>]
  BY Arrived
<1>4. a # Missing => b = a
  <2> SUFFICES ASSUME a # Missing PROVE b = a
    OBVIOUS
  <2>1. e # Lost
    BY <1>2 DEF Lost
  <2>2. f = [at |-> a, rest |-> <<>>]
    BY <1>1, <1>2, <2>1 DEF Apart
  <2>3. Steps(u, l, MaxWalk, Start(path)) = [at |-> a, rest |-> <<>>]
    BY <2>2
  <2>4. Walk(u, l, path) = a
    BY <2>3, Arrived
  <2> QED
    BY <2>4
<1>5. KindAt(t, Missing) = "none" /\ KindAt(u, Missing) = "none"
  BY TreesAssumption DEF KindAt
<1>6. KindAt(u, b) = "dir" => b = a
  <2> SUFFICES ASSUME KindAt(u, b) = "dir" PROVE b = a
    OBVIOUS
  <2>1. b # Missing
    BY <1>5
  <2>2. f = [at |-> b, rest |-> <<>>] /\ f # Lost /\ f.at = b
    BY <1>3, <2>1 DEF Lost
  <2>3. ~(b \in Locations /\ u[b] = File)
    BY DEF KindAt, File
  <2>4. e = f
    BY <1>1, <2>2, <2>3 DEF Apart
  <2>5. Steps(t, l, MaxWalk, Start(path)) = [at |-> b, rest |-> <<>>]
    BY <2>2, <2>4
  <2>6. Walk(t, l, path) = b
    BY <2>1, <2>5, Arrived
  <2> QED
    BY <2>6
<1>7. KindAt(u, a) = "dir" => KindAt(t, a) = "dir"
  BY GrownFacts
<1>8. KindAt(t, a) # "none" => KindAt(u, a) = KindAt(t, a) /\ a # Missing
  BY <1>5, GrownFacts
<1> QED
  BY <1>4, <1>6, <1>7, <1>8

LEMMA WalkBound == MaxWalk \in Nat /\ MaxWalk >= 8
BY TreesAssumption

\* A walk of the path ends in time, or never does.
Settled(t, l, path) ==
  Steps(t, l, 2 * MaxWalk, Start(path)).rest = <<>> => Steps(t, l, MaxWalk, Start(path)).rest = <<>>

LEMMA InputSettled ==
  ASSUME NEW t \in Trees, NEW i \in Inputs, i.valid
  PROVE  Settled(t, FALSE, i.path)
BY WalksAssumption DEF Settled, Start

\* A walk that ends, in a tree that has grown, does so in time.
LEMMA Settle ==
  ASSUME NEW t, NEW u, IsTree(t), IsTree(u), Grown(t, u), NEW l, ~l,
         NEW path \in Seq(Word), Settled(t, l, path),
         NEW n \in Nat, n <= 2 * MaxWalk, NEW q, q # Missing,
         Steps(u, l, n, Start(path)) = [at |-> q, rest |-> <<>>]
  PROVE  Walk(u, l, path) = q
<1>2. PICK M \in Nat : M = 2 * MaxWalk
  BY WalkBound
<1>3. PICK s : s = Start(path)
  OBVIOUS
<1>4. Steps(u, l, M, s) = [at |-> q, rest |-> <<>>]
  <2>1. Steps(u, l, n, s).rest = <<>> /\ n <= M
    BY <1>2, <1>3
  <2>2. Steps(u, l, M, s) = Steps(u, l, n, s)
    BY <2>1, StepsStay
  <2> QED
    BY <1>3, <2>2
<1>5. Steps(t, l, M, s).rest = <<>>
  <2>1. \/ Steps(t, l, M, s) = Steps(u, l, M, s)
        \/ Apart(t, u, Steps(t, l, M, s), Steps(u, l, M, s))
    BY <1>3, GrownSteps
  <2>2. CASE Steps(t, l, M, s) = Steps(u, l, M, s)
    BY <1>4, <2>2
  <2>3. CASE Apart(t, u, Steps(t, l, M, s), Steps(u, l, M, s))
    BY <2>3 DEF Apart, Lost
  <2> QED
    BY <2>1, <2>2, <2>3
<1>6. Steps(t, l, MaxWalk, s).rest = <<>>
  BY <1>2, <1>3, <1>5 DEF Settled
<1>7. PICK e : e = Steps(t, l, MaxWalk, s)
  OBVIOUS
<1>8. PICK f : f = Steps(u, l, MaxWalk, s)
  OBVIOUS
<1>9. e = f \/ Apart(t, u, e, f)
  BY <1>3, <1>7, <1>8, GrownSteps, WalkBound
<1>10. f.rest = <<>>
  <2> SUFFICES ASSUME f.rest # <<>> PROVE FALSE
    OBVIOUS
  <2>1. f \in States(u)
    BY <1>3, <1>8, StartState, StepsState, WalkBound
  <2>2. f # Lost /\ e # f
    BY <1>6, <1>7 DEF Lost
  <2>3. f.at \in Locations /\ u[f.at] = File
    BY <1>9, <2>2 DEF Apart
  <2>4. KindAt(u, f.at) = "file"
    BY <2>3 DEF KindAt, File
  <2>5. Advance(u, l, f) = Lost
    BY <2>1, <2>4, StepCases
  <2>6. Steps(u, l, MaxWalk + 1, s) = Lost
    BY <1>8, <2>5, StepsOne, WalkBound
  <2>7. MaxWalk + 1 \in Nat /\ MaxWalk + 1 <= M /\ Lost.rest = <<>>
    BY <1>2, WalkBound DEF Lost
  <2>8. Steps(u, l, M, s) = Steps(u, l, MaxWalk + 1, s)
    BY <2>6, <2>7, StepsStay
  <2>9. Lost = [at |-> q, rest |-> <<>>]
    BY <1>4, <2>6, <2>8
  <2> QED
    BY <2>9 DEF Lost
<1>11. Steps(u, l, M, s) = Steps(u, l, MaxWalk, s)
  <2>1. Steps(u, l, MaxWalk, s).rest = <<>> /\ MaxWalk <= M
    BY <1>2, <1>8, <1>10, WalkBound
  <2> QED
    BY <2>1, StepsStay, WalkBound
<1>12. Steps(u, l, MaxWalk, Start(path)) = [at |-> q, rest |-> <<>>]
  BY <1>3, <1>4, <1>11
<1> QED
  BY <1>12, Arrived

LEMMA TailJoin ==
  ASSUME NEW r \in Seq(Word), r # <<>>, NEW x \in Seq(Word)
  PROVE  /\ r \o x \in Seq(Word) /\ r \o x # <<>>
         /\ Head(r \o x) = Head(r) /\ Tail(r \o x) = Tail(r) \o x
<1>1. /\ r \o x \in Seq(Word) /\ Len(r \o x) = Len(r) + Len(x)
      /\ \A i \in 1 .. Len(r) + Len(x) : (r \o x)[i] = IF i <= Len(r) THEN r[i] ELSE x[i - Len(r)]
  BY ConcatProperties
<1>2. Len(r) \in Nat /\ Len(r) >= 1 /\ Len(x) \in Nat
  OBVIOUS
<1>3. PICK z \in Seq(Word) : z = r \o x
  BY <1>1
<1>4. Len(z) = Len(r) + Len(x) /\ z # <<>> /\ Head(z) = z[1]
  BY <1>1, <1>2, <1>3
<1>5. z[1] = r[1] /\ Head(r) = r[1]
  <2>1. 1 \in 1 .. Len(r) + Len(x) /\ 1 <= Len(r)
    BY <1>2
  <2> QED
    BY <1>1, <1>3, <2>1
<1>6. Tail(z) \in Seq(Word) /\ Len(Tail(z)) = Len(z) - 1 /\ \A i \in 1 .. Len(Tail(z)) : Tail(z)[i] = z[i + 1]
  BY <1>4, HeadTailProperties
<1>7. PICK y \in Seq(Word) : y = Tail(r)
  BY HeadTailProperties
<1>8. Len(y) = Len(r) - 1 /\ \A i \in 1 .. Len(y) : y[i] = r[i + 1]
  BY <1>7, HeadTailProperties
<1>9. /\ y \o x \in Seq(Word) /\ Len(y \o x) = Len(y) + Len(x)
      /\ \A i \in 1 .. Len(y) + Len(x) : (y \o x)[i] = IF i <= Len(y) THEN y[i] ELSE x[i - Len(y)]
  BY ConcatProperties
<1>10. Len(Tail(z)) = Len(y \o x)
  BY <1>2, <1>4, <1>6, <1>8, <1>9
<1>11. ASSUME NEW i \in 1 .. Len(Tail(z)) PROVE Tail(z)[i] = (y \o x)[i]
  <2>1. i + 1 \in 1 .. Len(r) + Len(x) /\ i \in 1 .. Len(y) + Len(x) /\ i \in Nat
    BY <1>2, <1>4, <1>6, <1>8
  <2>2. Tail(z)[i] = (r \o x)[i + 1]
    BY <1>3, <1>6
  <2>3. CASE i <= Len(y)
    <3>1. i + 1 <= Len(r) /\ i \in 1 .. Len(y)
      BY <1>2, <1>8, <2>1, <2>3
    <3>2. Tail(z)[i] = r[i + 1]
      BY <1>1, <2>1, <2>2, <3>1
    <3> QED
      BY <1>8, <1>9, <2>1, <2>3, <3>1, <3>2
  <2>4. CASE ~(i <= Len(y))
    <3>1. ~(i + 1 <= Len(r)) /\ (i + 1) - Len(r) = i - Len(y)
      BY <1>2, <1>8, <2>1, <2>4
    <3>2. Tail(z)[i] = x[(i + 1) - Len(r)]
      BY <1>1, <2>1, <2>2, <3>1
    <3> QED
      BY <1>9, <2>1, <2>4, <3>1, <3>2
  <2> QED
    BY <2>3, <2>4
<1>12. Tail(z) = y \o x
  BY <1>6, <1>9, <1>10, <1>11, SeqEqual
<1> QED
  BY <1>3, <1>4, <1>5, <1>7, <1>12

\* A component of a path is the same whatever follows.
Beside(t, l, a, b, x) ==
  \/ Advance(t, l, a) = Lost /\ Advance(t, l, b) = Lost
  \/ \E p \in Locations, r \in Seq(Word) :
       Advance(t, l, a) = [at |-> p, rest |-> r] /\ Advance(t, l, b) = [at |-> p, rest |-> r \o x]

LEMMA ExtendStep ==
  ASSUME NEW t, IsTree(t), NEW l, NEW a \in States(t), a.rest # <<>>, NEW x \in Seq(Word),
         NEW b, b = [at |-> a.at, rest |-> a.rest \o x]
  PROVE  Beside(t, l, a, b, x)
<1>1. /\ a.at \in Locations /\ KindAt(t, a.at) \in {"file", "dir"} /\ a.rest \in Seq(Word)
      /\ Head(a.rest) \in Word /\ Tail(a.rest) \in Seq(Word) /\ a.at \in Seq(Word)
  BY StateFacts
<1>2. /\ a.rest \o x \in Seq(Word) /\ a.rest \o x # <<>>
      /\ Head(a.rest \o x) = Head(a.rest) /\ Tail(a.rest \o x) = Tail(a.rest) \o x
  BY <1>1, TailJoin
<1>3. b \in States(t) /\ b.at = a.at /\ b.rest = a.rest \o x
  BY <1>1, <1>2, AState
<1> DEFINE rest == Tail(a.rest)
           w    == Head(a.rest)
           next == Append(a.at, w)
           c    == Advance(t, l, a)
           d    == Advance(t, l, b)
           dir  == KindAt(t, a.at) = "dir"
           to   == t[next].to
<1>4. /\ b.rest # <<>> /\ Head(b.rest) = w /\ Tail(b.rest) = rest \o x
  BY <1>2, <1>3
<1>5. /\ KindAt(t, next) \in {"none", "file", "dir", "link"} /\ (w \in Dots => w = "." \/ w = "..")
      /\ KindAt(t, next) # "none" => next \in Locations
      /\ KindAt(t, next) = "link" => to \in Seq(Word)
      /\ Parent(a.at) \in Locations /\ <<>> \in Locations
  <2> HIDE DEF next, w
  <2>1. KindAt(t, next) \in {"none", "file", "dir", "link"}
    BY KindValues
  <2>2. KindAt(t, next) # "none" => next \in Locations
    BY KindFacts
  <2>3. KindAt(t, next) = "link" => to \in Seq(Word)
    BY KindFacts
  <2> QED
    BY <1>1, <2>1, <2>2, <2>3, LocationFacts, TreesAssumption DEF Dots
<1>6. rest \in Seq(Word) /\ rest \o x \in Seq(Word)
  BY <1>1, ConcatProperties
<1>7. /\ w = "."  /\ (dir \/ l) => c = [at |-> a.at, rest |-> rest]
      /\ w = ".." /\ (dir \/ l) => c = [at |-> Parent(a.at), rest |-> rest]
      /\ w \in Dots /\ ~(dir \/ l) => c = Lost
      /\ w \notin Dots /\ dir /\ KindAt(t, next) \in {"file", "dir"} => c = [at |-> next, rest |-> rest]
      /\ w \notin Dots /\ dir /\ KindAt(t, next) = "link" => c = [at |-> <<>>, rest |-> to \o rest]
      /\ w \notin Dots /\ (~dir \/ KindAt(t, next) = "none") => c = Lost
  BY StepCases, Zenon
<1>8. ASSUME NEW e \in States(t), e.rest # <<>>
      PROVE  LET ew == Head(e.rest)
                 er == Tail(e.rest)
                 en == Append(e.at, ew)
                 ed == KindAt(t, e.at) = "dir"
                 to2 == Advance(t, l, e)
             IN /\ ew = "."  /\ (ed \/ l) => to2 = [at |-> e.at, rest |-> er]
                /\ ew = ".." /\ (ed \/ l) => to2 = [at |-> Parent(e.at), rest |-> er]
                /\ ew \in Dots /\ ~(ed \/ l) => to2 = Lost
                /\ ew \notin Dots /\ ed /\ KindAt(t, en) \in {"file", "dir"} => to2 = [at |-> en, rest |-> er]
                /\ ew \notin Dots /\ ed /\ KindAt(t, en) = "link" => to2 = [at |-> <<>>, rest |-> t[en].to \o er]
                /\ ew \notin Dots /\ (~ed \/ KindAt(t, en) = "none") => to2 = Lost
  BY <1>8, StepCases, Zenon
<1>9. next = Append(b.at, Head(b.rest)) /\ to = t[Append(b.at, Head(b.rest))].to /\ (dir <=> KindAt(t, b.at) = "dir")
  BY <1>3, <1>4
<1>19. /\ w = "."  /\ (dir \/ l) => d = [at |-> b.at, rest |-> Tail(b.rest)]
       /\ w = ".." /\ (dir \/ l) => d = [at |-> Parent(b.at), rest |-> Tail(b.rest)]
       /\ w \in Dots /\ ~(dir \/ l) => d = Lost
       /\ w \notin Dots /\ dir /\ KindAt(t, next) \in {"file", "dir"} => d = [at |-> next, rest |-> Tail(b.rest)]
       /\ w \notin Dots /\ dir /\ KindAt(t, next) = "link" => d = [at |-> <<>>, rest |-> to \o Tail(b.rest)]
       /\ w \notin Dots /\ (~dir \/ KindAt(t, next) = "none") => d = Lost
  <2> HIDE DEF w, next, dir, to, c, rest
  <2>1. b \in States(t) /\ b.rest # <<>> /\ Head(b.rest) = w
    BY <1>3, <1>4
  <2> QED
    BY <1>8, <1>9, <2>1
<1> HIDE DEF rest, w, next, c, d, dir, to
<1>10. /\ w = "."  /\ (dir \/ l) => d = [at |-> a.at, rest |-> rest \o x]
       /\ w = ".." /\ (dir \/ l) => d = [at |-> Parent(a.at), rest |-> rest \o x]
       /\ w \in Dots /\ ~(dir \/ l) => d = Lost
       /\ w \notin Dots /\ dir /\ KindAt(t, next) \in {"file", "dir"} => d = [at |-> next, rest |-> rest \o x]
       /\ w \notin Dots /\ dir /\ KindAt(t, next) = "link" => d = [at |-> <<>>, rest |-> to \o (rest \o x)]
       /\ w \notin Dots /\ (~dir \/ KindAt(t, next) = "none") => d = Lost
  BY <1>3, <1>4, <1>19
<1>11. KindAt(t, next) = "link" =>
         to \o rest \in Seq(Word) /\ to \o (rest \o x) = (to \o rest) \o x
  BY <1>5, <1>6, ConcatProperties, ConcatAssociative
<1> DEFINE Goal == \/ c = Lost /\ d = Lost
                   \/ \E p \in Locations, r \in Seq(Word) :
                        c = [at |-> p, rest |-> r] /\ d = [at |-> p, rest |-> r \o x]
<1>12. ASSUME w = ".", dir \/ l PROVE Goal
  BY <1>1, <1>6, <1>7, <1>10, <1>12, Zenon
<1>13. ASSUME w = "..", dir \/ l PROVE Goal
  BY <1>5, <1>6, <1>7, <1>10, <1>13, Zenon
<1>14. ASSUME w \notin Dots, dir, KindAt(t, next) \in {"file", "dir"} PROVE Goal
  <2>1. next \in Locations
    BY <1>5, <1>14
  <2> QED
    BY <1>6, <1>7, <1>10, <1>14, <2>1, Zenon
<1>15. ASSUME w \notin Dots, dir, KindAt(t, next) = "link" PROVE Goal
  <2>1. c = [at |-> <<>>, rest |-> to \o rest] /\ d = [at |-> <<>>, rest |-> (to \o rest) \o x]
    BY <1>7, <1>10, <1>11, <1>15, Zenon
  <2> QED
    BY <1>5, <1>11, <1>15, <2>1, Zenon
<1>16. ASSUME (w \in Dots /\ ~(dir \/ l)) \/ (w \notin Dots /\ (~dir \/ KindAt(t, next) = "none")) PROVE Goal
  BY <1>7, <1>10, <1>16, Zenon
<1>17. \/ w = "." /\ (dir \/ l)
       \/ w = ".." /\ (dir \/ l)
       \/ w \notin Dots /\ dir /\ KindAt(t, next) \in {"file", "dir"}
       \/ w \notin Dots /\ dir /\ KindAt(t, next) = "link"
       \/ (w \in Dots /\ ~(dir \/ l)) \/ (w \notin Dots /\ (~dir \/ KindAt(t, next) = "none"))
  BY <1>5
<1>18. Goal
  <2> HIDE DEF Goal
  <2> QED
    BY <1>12, <1>13, <1>14, <1>15, <1>16, <1>17, Zenon
<1> QED
  BY <1>18 DEF c, d, Beside

--------------------------------------------------------------------------------
(* The last component of an input.                                         *)

\* What a walk does of a path that goes on: the same, until it is through the
\* part or lost.
Along(t, l, n, s, r, x) ==
  \/ /\ Steps(t, l, n, s).rest # <<>>
     /\ Steps(t, l, n, r) = [at |-> Steps(t, l, n, s).at, rest |-> Steps(t, l, n, s).rest \o x]
  \/ Steps(t, l, n, s) = Lost /\ Steps(t, l, n, r) = Lost
  \/ \E k \in 0 .. n, d \in Locations :
       /\ Steps(t, l, n, s) = [at |-> d, rest |-> <<>>]
       /\ Steps(t, l, k, s) = [at |-> d, rest |-> <<>>]
       /\ Steps(t, l, k, r) = [at |-> d, rest |-> x]

LEMMA Extend ==
  ASSUME NEW t, IsTree(t), NEW l, NEW p \in Seq(Word), NEW x \in Seq(Word), NEW n \in Nat,
         NEW s, s = Start(p), NEW r, r = Start(p \o x)
  PROVE  Along(t, l, n, s, r, x)
<1> DEFINE On1(k) == /\ Steps(t, l, k, s).rest # <<>>
                     /\ Steps(t, l, k, r) = [at |-> Steps(t, l, k, s).at, rest |-> Steps(t, l, k, s).rest \o x]
           Off(k) == Steps(t, l, k, s) = Lost /\ Steps(t, l, k, r) = Lost
           Over(k) == \E j \in 0 .. k, d \in Locations :
                       /\ Steps(t, l, k, s) = [at |-> d, rest |-> <<>>]
                       /\ Steps(t, l, j, s) = [at |-> d, rest |-> <<>>]
                       /\ Steps(t, l, j, r) = [at |-> d, rest |-> x]
           S == {k \in 0 .. n : On1(k) \/ Off(k) \/ Over(k)}
<1>1. s \in States(t) /\ s.at = <<>> /\ s.rest = p /\ r = [at |-> <<>>, rest |-> p \o x]
  BY StartState DEF Start
<1>2. \A k \in Nat : Steps(t, l, k, s) \in States(t)
  BY <1>1, StepsState
<1>3. \A k \in Nat : /\ Steps(t, l, k + 1, s) = Advance(t, l, Steps(t, l, k, s))
                     /\ Steps(t, l, k + 1, r) = Advance(t, l, Steps(t, l, k, r))
  BY StepsOne
<1>4. 0 \in S
  <2>1. Steps(t, l, 0, s) = s /\ Steps(t, l, 0, r) = r
    BY StepsZero
  <2>2. CASE p # <<>>
    <3>1. On1(0)
      BY <1>1, <2>1, <2>2
    <3> QED
      BY <3>1
  <2>3. CASE p = <<>>
    <3>1. p \o x = x
      BY <2>3, ConcatEmptySeq
    <3>2. s = [at |-> <<>>, rest |-> <<>>] /\ r = [at |-> <<>>, rest |-> x]
      BY <1>1, <2>3, <3>1, StateFacts
    <3>3. 0 \in 0 .. 0 /\ <<>> \in Locations
      BY TreesAssumption
    <3>4. Over(0)
      BY <2>1, <3>2, <3>3
    <3> QED
      BY <3>4
  <2> QED
    BY <2>2, <2>3
<1>5. ASSUME NEW k \in 0 .. n - 1, k \in S PROVE k + 1 \in S
  <2>1. k \in Nat /\ k + 1 \in 0 .. n /\ (On1(k) \/ Off(k) \/ Over(k))
    BY <1>5
  <2>2. k \in Nat /\ k + 1 \in Nat /\ k \in 0 .. k /\ k + 1 \in 0 .. k + 1 /\ k + 1 \in 0 .. n
    BY <1>5
  <2>3. PICK a \in States(t) : a = Steps(t, l, k, s)
    BY <1>2, <2>2
  <2>4. PICK b : b = Steps(t, l, k, r)
    OBVIOUS
  <2>5. Steps(t, l, k + 1, s) = Advance(t, l, a) /\ Steps(t, l, k + 1, r) = Advance(t, l, b)
    BY <1>3, <2>2, <2>3, <2>4
  <2>6. CASE On1(k)
    <3>1. a.rest # <<>> /\ b = [at |-> a.at, rest |-> a.rest \o x]
      BY <2>3, <2>4, <2>6
    <3>2. \/ Advance(t, l, a) = Lost /\ Advance(t, l, b) = Lost
          \/ \E d \in Locations, y \in Seq(Word) :
               Advance(t, l, a) = [at |-> d, rest |-> y] /\ Advance(t, l, b) = [at |-> d, rest |-> y \o x]
      <4>1. Beside(t, l, a, b, x)
        BY <3>1, ExtendStep
      <4> QED
        BY <4>1 DEF Beside
    <3>3. CASE Advance(t, l, a) = Lost /\ Advance(t, l, b) = Lost
      <4>1. Off(k + 1)
        BY <2>5, <3>3
      <4> QED
        BY <2>2, <4>1
    <3>4. ASSUME NEW d \in Locations, NEW y \in Seq(Word),
                 Advance(t, l, a) = [at |-> d, rest |-> y], Advance(t, l, b) = [at |-> d, rest |-> y \o x]
          PROVE  k + 1 \in S
      <4>1. Steps(t, l, k + 1, s) = [at |-> d, rest |-> y] /\ Steps(t, l, k + 1, r) = [at |-> d, rest |-> y \o x]
        BY <2>5, <3>4
      <4>2. CASE y # <<>>
        <5>1. PICK e : e = Steps(t, l, k + 1, s)
          OBVIOUS
        <5>2. e.at = d /\ e.rest = y
          BY <4>1, <5>1
        <5>3. Steps(t, l, k + 1, r) = [at |-> e.at, rest |-> e.rest \o x] /\ e.rest # <<>>
          BY <4>1, <4>2, <5>2
        <5>4. On1(k + 1)
          BY <5>1, <5>3
        <5> QED
          BY <2>2, <5>4
      <4>3. CASE y = <<>>
        <5>1. y \o x = x
          BY <4>3, ConcatEmptySeq
        <5>2. Over(k + 1)
          BY <2>2, <4>1, <4>3, <5>1
        <5> QED
          BY <2>2, <5>2
      <4> QED
        BY <4>2, <4>3
    <3> QED
      BY <3>2, <3>3, <3>4
  <2>7. CASE Off(k)
    <3>1. Advance(t, l, a) = Lost /\ Advance(t, l, b) = Lost
      BY <2>3, <2>4, <2>7, LostStays
    <3>2. Off(k + 1)
      BY <2>5, <3>1
    <3> QED
      BY <2>2, <3>2
  <2>8. CASE Over(k)
    <3>1. PICK j \in 0 .. k, d \in Locations :
            /\ Steps(t, l, k, s) = [at |-> d, rest |-> <<>>]
            /\ Steps(t, l, j, s) = [at |-> d, rest |-> <<>>]
            /\ Steps(t, l, j, r) = [at |-> d, rest |-> x]
      BY <2>8
    <3>2. a = [at |-> d, rest |-> <<>>]
      BY <2>3, <3>1
    <3>3. Advance(t, l, a) = a
      BY <3>2, AtEnd
    <3>4. j \in 0 .. k + 1
      BY <2>2
    <3>5. Over(k + 1)
      BY <2>5, <3>1, <3>2, <3>3, <3>4
    <3> QED
      BY <2>2, <3>5
  <2>9. On1(k) \/ Off(k) \/ Over(k)
    BY <1>5
  <2> HIDE DEF On1, Off, End, S
  <2> QED
    BY <2>6, <2>7, <2>8, <2>9
<1>6. n \in S
  <2> HIDE DEF S
  <2>1. \A k \in 0 .. n : k \in S
    BY <1>4, <1>5, UpToInduction
  <2> QED
    BY <2>1
<1> QED
  BY <1>6 DEF Along

\* Where a path arrives, one more component is taken from there, after as many
\* steps at least as there are names to it.
LEMMA Onward ==
  ASSUME NEW t, IsTree(t), NEW l, NEW p \in Seq(Word), NEW y \in Word, Walk(t, l, p) # Missing,
         NEW d, d = Walk(t, l, p)
  PROVE  \E k \in 0 .. MaxWalk :
           /\ d \in Locations /\ Len(d) <= k
           /\ Steps(t, l, k, Start(Append(p, y))) = [at |-> d, rest |-> <<y>>]
<1>1. Steps(t, l, MaxWalk, Start(p)) = [at |-> d, rest |-> <<>>]
  BY Arrived
<1>2. PICK x \in Seq(Word) : x = <<y>> /\ Append(p, y) = p \o x
  <2>1. <<y>> \in Seq(Word) /\ Append(p, y) = p \o <<y>> /\ Append(p, y) \in Seq(Word)
    OBVIOUS
  <2> QED
    BY <2>1
<1>3. PICK s : s = Start(p)
  OBVIOUS
<1>4. PICK r : r = Start(p \o x)
  OBVIOUS
<1>5. \/ Steps(t, l, MaxWalk, s).rest # <<>>
      \/ Steps(t, l, MaxWalk, s) = Lost
      \/ \E k \in 0 .. MaxWalk, q \in Locations :
           /\ Steps(t, l, MaxWalk, s) = [at |-> q, rest |-> <<>>]
           /\ Steps(t, l, k, s) = [at |-> q, rest |-> <<>>]
           /\ Steps(t, l, k, r) = [at |-> q, rest |-> x]
  <2>1. Along(t, l, MaxWalk, s, r, x)
    BY <1>3, <1>4, Extend, WalkBound
  <2> QED
    BY <2>1 DEF Along
<1>6. Steps(t, l, MaxWalk, s).rest = <<>> /\ Steps(t, l, MaxWalk, s) # Lost
  BY <1>1, <1>3 DEF Lost
<1>7. PICK k \in 0 .. MaxWalk, q \in Locations :
        /\ Steps(t, l, MaxWalk, s) = [at |-> q, rest |-> <<>>]
        /\ Steps(t, l, k, s) = [at |-> q, rest |-> <<>>]
        /\ Steps(t, l, k, r) = [at |-> q, rest |-> x]
  BY <1>5, <1>6
<1>8. q = d
  BY <1>1, <1>3, <1>7
<1>9. Len(q) <= k
  <2>1. s \in States(t) /\ s.at = <<>> /\ k \in Nat
    BY <1>3, StartState, WalkBound
  <2>2. q # Missing
    BY TreesAssumption
  <2>3. Steps(t, l, k, s) # Lost /\ Steps(t, l, k, s).at = q
    BY <1>7, <2>2 DEF Lost
  <2> QED
    BY <2>1, <2>3, StepsState
<1> QED
  BY <1>2, <1>4, <1>7, <1>8, <1>9

\* A path that arrives goes through a directory before its last component, and has
\* a step left to do for it.
LEMMA Through ==
  ASSUME NEW t, IsTree(t), NEW l, ~l, NEW p \in Seq(Word), NEW y \in Word,
         Walk(t, l, Append(p, y)) # Missing
  PROVE  /\ KindAt(t, Walk(t, l, p)) = "dir"
         /\ \E k \in 0 .. MaxWalk - 1 :
              Steps(t, l, k, Start(Append(p, y))) = [at |-> Walk(t, l, p), rest |-> <<y>>]
<1>1. PICK q : q = Walk(t, l, Append(p, y))
  OBVIOUS
<1>2. PICK x \in Seq(Word) : x = <<y>> /\ Append(p, y) = p \o x /\ p \o x \in Seq(Word)
  <2>1. <<y>> \in Seq(Word) /\ Append(p, y) = p \o <<y>> /\ Append(p, y) \in Seq(Word)
    OBVIOUS
  <2> QED
    BY <2>1
<1>3. PICK s : s = Start(p)
  OBVIOUS
<1>4. PICK r : r = Start(p \o x)
  OBVIOUS
<1>5. Steps(t, l, MaxWalk, r) = [at |-> q, rest |-> <<>>] /\ q # Missing
  <2>1. Walk(t, l, p \o x) = q /\ q # Missing
    BY <1>1, <1>2
  <2>2. Steps(t, l, MaxWalk, Start(p \o x)) = [at |-> q, rest |-> <<>>]
    <3>1. p \o x \in Seq(Word)
      BY <1>2
    <3> QED
      BY <2>1, <3>1, Arrived
  <2> QED
    BY <1>4, <2>1, <2>2
<1>6. \/ /\ Steps(t, l, MaxWalk, s).rest # <<>>
         /\ Steps(t, l, MaxWalk, r) =
              [at |-> Steps(t, l, MaxWalk, s).at, rest |-> Steps(t, l, MaxWalk, s).rest \o x]
      \/ Steps(t, l, MaxWalk, r) = Lost
      \/ \E k \in 0 .. MaxWalk, d \in Locations :
           /\ Steps(t, l, MaxWalk, s) = [at |-> d, rest |-> <<>>]
           /\ Steps(t, l, k, s) = [at |-> d, rest |-> <<>>]
           /\ Steps(t, l, k, r) = [at |-> d, rest |-> x]
  <2>1. Along(t, l, MaxWalk, s, r, x)
    BY <1>3, <1>4, Extend, WalkBound
  <2> QED
    BY <2>1 DEF Along
<1>7. Steps(t, l, MaxWalk, r) # Lost
  BY <1>5 DEF Lost
<1>8. ~ /\ Steps(t, l, MaxWalk, s).rest # <<>>
        /\ Steps(t, l, MaxWalk, r) =
             [at |-> Steps(t, l, MaxWalk, s).at, rest |-> Steps(t, l, MaxWalk, s).rest \o x]
  <2>1. Steps(t, l, MaxWalk, s) \in States(t)
    BY <1>3, StartState, StepsState, WalkBound
  <2>2. PICK z \in Seq(Word) : z = Steps(t, l, MaxWalk, s).rest
    BY <2>1, StateFacts
  <2>3. z # <<>> => z \o x # <<>>
    BY <1>2, TailJoin
  <2> SUFFICES ASSUME z # <<>>, Steps(t, l, MaxWalk, r) = [at |-> Steps(t, l, MaxWalk, s).at, rest |-> z \o x]
               PROVE  FALSE
    BY <2>2
  <2>4. Steps(t, l, MaxWalk, r).rest = z \o x /\ Steps(t, l, MaxWalk, r).rest = <<>>
    BY <1>5
  <2> QED
    BY <2>3, <2>4
<1>9. PICK k \in 0 .. MaxWalk, d \in Locations :
        /\ Steps(t, l, MaxWalk, s) = [at |-> d, rest |-> <<>>]
        /\ Steps(t, l, k, r) = [at |-> d, rest |-> x]
  BY <1>6, <1>7, <1>8
<1>10. d # Missing
  BY TreesAssumption
<1>11. Walk(t, l, p) = d
  BY <1>3, <1>9, <1>10, Arrived
<1>12. k # MaxWalk
  <2> SUFFICES ASSUME k = MaxWalk PROVE FALSE
    OBVIOUS
  <2>1. [at |-> q, rest |-> <<>>] = [at |-> d, rest |-> x] /\ x # <<>>
    BY <1>2, <1>5, <1>9
  <2> QED
    BY <2>1
<1>13. k \in 0 .. MaxWalk - 1 /\ k \in Nat
  BY <1>12, WalkBound
<1>14. KindAt(t, d) = "dir"
  <2> SUFFICES ASSUME KindAt(t, d) # "dir" PROVE FALSE
    OBVIOUS
  <2>1. PICK a : a = [at |-> d, rest |-> x]
    OBVIOUS
  <2>2. a \in States(t) /\ a.rest # <<>> /\ a.at = d
    <3>1. Steps(t, l, k, r) \in States(t)
      BY <1>2, <1>4, <1>13, StartState, StepsState
    <3>2. a \in States(t)
      BY <1>9, <2>1, <3>1
    <3>3. x # <<>>
      BY <1>2
    <3> QED
      BY <2>1, <3>2, <3>3
  <2>3. Advance(t, l, a) = Lost
    BY <2>2, StepCases
  <2>4. Steps(t, l, k + 1, r) = Lost
    BY <1>9, <1>13, <2>1, <2>3, StepsOne
  <2>5. k + 1 \in Nat /\ k + 1 <= MaxWalk /\ Lost.rest = <<>>
    BY <1>13, WalkBound DEF Lost
  <2>6. Steps(t, l, MaxWalk, r) = Steps(t, l, k + 1, r)
    BY <2>4, <2>5, StepsStay, WalkBound
  <2> QED
    BY <1>7, <2>4, <2>6
<1> QED
  BY <1>2, <1>4, <1>9, <1>11, <1>13, <1>14

\* What the last component of a path leads to from a directory, but for a link.
LastTo(t, d, x, to) ==
  /\ x = "."  => to = [at |-> d, rest |-> <<>>]
  /\ x = ".." => to = [at |-> Parent(d), rest |-> <<>>]
  /\ x \notin Dots /\ KindAt(t, Append(d, x)) \in {"file", "dir"} =>
       to = [at |-> Append(d, x), rest |-> <<>>]
  /\ x \notin Dots /\ KindAt(t, Append(d, x)) = "none" => to = Lost

LEMMA LastStep ==
  ASSUME NEW t, IsTree(t), NEW l, ~l, NEW d, KindAt(t, d) = "dir", NEW x \in Word,
         NEW a, a = [at |-> d, rest |-> <<x>>], NEW to, to = Advance(t, l, a)
  PROVE  LastTo(t, d, x, to)
<1>1. /\ a.at = d /\ a.rest = <<x>> /\ <<x>> # <<>> /\ <<x>> \in Seq(Word)
      /\ Head(<<x>>) = x /\ Tail(<<x>>) = <<>>
  OBVIOUS
<1>2. d \in Locations
  BY DEF KindAt
<1>3. [at |-> d, rest |-> <<x>>] \in States(t)
  BY <1>1, <1>2, AState
<1>4. a \in States(t) /\ a.rest # <<>> /\ Head(a.rest) = x /\ Tail(a.rest) = <<>> /\ KindAt(t, a.at) = "dir"
  BY <1>1, <1>3
<1>5. /\ Head(a.rest) = "."  => to = [at |-> a.at, rest |-> Tail(a.rest)]
      /\ Head(a.rest) = ".." => to = [at |-> Parent(a.at), rest |-> Tail(a.rest)]
      /\ Head(a.rest) \notin Dots /\ KindAt(t, Append(a.at, Head(a.rest))) \in {"file", "dir"} =>
              to = [at |-> Append(a.at, Head(a.rest)), rest |-> Tail(a.rest)]
      /\ Head(a.rest) \notin Dots /\ KindAt(t, Append(a.at, Head(a.rest))) = "none" => to = Lost
  BY <1>4, StepCases
<1> QED
  BY <1>1, <1>4, <1>5 DEF LastTo

\* A path followed by "." leads where the path does, if it leads anywhere.
LEMMA Dotted ==
  ASSUME NEW t, IsTree(t), NEW l, ~l, NEW p \in Seq(Word), Walk(t, l, Append(p, ".")) # Missing
  PROVE  Walk(t, l, Append(p, ".")) = Walk(t, l, p) /\ KindAt(t, Walk(t, l, p)) = "dir"
<1>1. "." \in Word
  BY DEF Word
<1>2. PICK d : d = Walk(t, l, p)
  OBVIOUS
<1>3. KindAt(t, d) = "dir"
  BY <1>1, <1>2, Through
<1>4. PICK k \in 0 .. MaxWalk - 1 : Steps(t, l, k, Start(Append(p, "."))) = [at |-> d, rest |-> <<".">>]
  BY <1>1, <1>2, Through
<1>5. Advance(t, l, [at |-> d, rest |-> <<".">>]) = [at |-> d, rest |-> <<>>]
  BY <1>1, <1>3, LastStep DEF LastTo
<1>6. k \in Nat /\ k + 1 \in Nat /\ k + 1 <= MaxWalk
  BY WalkBound
<1>7. Steps(t, l, k + 1, Start(Append(p, "."))) = [at |-> d, rest |-> <<>>]
  BY <1>4, <1>5, <1>6, StepsOne
<1>8. Steps(t, l, k + 1, Start(Append(p, "."))).rest = <<>> /\ Steps(t, l, k + 1, Start(Append(p, "."))).at = d
  BY <1>7
<1>9. Walk(t, l, Append(p, ".")) = d
  BY <1>6, <1>8, WalkEnded
<1> QED
  BY <1>2, <1>3, <1>9

\* The way to an entry through directories is as long as its path.
LEMMA StraightDown ==
  ASSUME NEW t, IsTree(t), NEW l, NEW d, KindAt(t, d) = "dir", NEW x \in Word, x \notin Dots
  PROVE  Steps(t, l, Len(d), Start(Append(d, x))) = [at |-> d, rest |-> <<x>>]
<1>1. d \in Locations /\ d \in Seq(Word) /\ Plain(d) /\ Len(d) \in Nat
  BY KindFacts, LocationFacts
<1>2. PICK p : p = Append(d, x)
  OBVIOUS
<1>3. /\ p \in Seq(Word) /\ Len(p) = Len(d) + 1 /\ p[Len(d) + 1] = x
      /\ \A i \in 1 .. Len(d) : p[i] = d[i]
      /\ \A k \in 0 .. Len(d) : Prefix(p, k) = Prefix(d, k)
  BY <1>1, <1>2, AppendFacts
<1>4. Plain(p)
  <2>1. ASSUME NEW i \in 1 .. Len(p) PROVE p[i] \notin Dots
    <3>1. i \in 1 .. Len(d) \/ i = Len(d) + 1
      BY <1>1, <1>3
    <3> QED
      BY <1>1, <1>3, <3>1 DEF Plain
  <2> QED
    BY <1>3, <2>1 DEF Plain
<1>5. ASSUME NEW k \in 0 .. Len(d) PROVE KindAt(t, Prefix(p, k)) = "dir"
  <2>1. CASE k = Len(d)
    <3>1. Prefix(d, k) = d
      BY <1>1, <2>1, WholePrefix
    <3> QED
      BY <1>3, <3>1
  <2>2. CASE k # Len(d)
    <3>1. k \in 0 .. Len(d) - 1
      BY <1>1, <2>2
    <3>2. KindAt(t, d) # "none"
      OBVIOUS
    <3> QED
      BY <1>3, <3>1, <3>2, Above
  <2> QED
    BY <2>1, <2>2
<1> DEFINE S == {k \in 0 .. Len(d) : Steps(t, l, k, Start(p)) = On(p, k)}
<1>6. 0 \in S
  <2>1. Prefix(p, 0) = <<>> /\ SubSeq(p, 0 + 1, Len(p)) = p
    BY <1>3, WholePrefix DEF Prefix
  <2>2. On(p, 0) = Start(p)
    BY <2>1 DEF On, Start
  <2>3. 0 \in 0 .. Len(d)
    BY <1>1
  <2> QED
    BY <2>2, <2>3, StepsZero
<1>7. ASSUME NEW k \in 0 .. Len(d) - 1, k \in S PROVE k + 1 \in S
  <2>1. k \in Nat /\ k \in 0 .. Len(d) /\ k + 1 \in 0 .. Len(d) /\ k \in 0 .. Len(p) /\ k < Len(p)
    BY <1>1, <1>3
  <2>2. KindAt(t, Prefix(p, k)) = "dir" /\ KindAt(t, Prefix(p, k + 1)) \in {"file", "dir"}
    BY <1>5, <2>1
  <2>3. Advance(t, l, On(p, k)) = On(p, k + 1)
    BY <1>4, <2>1, <2>2, PlainStep
  <2>4. Steps(t, l, k, Start(p)) = On(p, k)
    BY <1>7
  <2>5. Steps(t, l, k + 1, Start(p)) = On(p, k + 1)
    BY <2>1, <2>3, <2>4, StepsOne
  <2> QED
    BY <2>1, <2>5
<1>8. Len(d) \in S
  <2> HIDE DEF S
  <2>1. \A k \in 0 .. Len(d) : k \in S
    BY <1>1, <1>6, <1>7, UpToInduction
  <2> QED
    BY <1>1, <2>1
<1>9. On(p, Len(d)) = [at |-> d, rest |-> <<x>>]
  <2>1. Prefix(p, Len(d)) = d
    BY <1>1, <1>3, WholePrefix
  <2>2. SubSeq(p, Len(d) + 1, Len(p)) = <<x>>
    <3>1. /\ SubSeq(p, Len(d) + 1, Len(p)) \in Seq(Word) /\ Len(SubSeq(p, Len(d) + 1, Len(p))) = 1
          /\ SubSeq(p, Len(d) + 1, Len(p))[1] = x
      BY <1>1, <1>3, SubSeqFacts
    <3>2. <<x>> \in Seq(Word) /\ Len(<<x>>) = 1 /\ <<x>>[1] = x
      OBVIOUS
    <3>3. \A i \in 1 .. 1 : SubSeq(p, Len(d) + 1, Len(p))[i] = <<x>>[i]
      BY <3>1, <3>2
    <3> QED
      BY <3>1, <3>2, <3>3, Elements
  <2> QED
    BY <2>1, <2>2 DEF On
<1> QED
  BY <1>2, <1>8, <1>9

\* The first k components of a path lead to s.
Leads(u, l, path, k, s) == k \in 0 .. MaxWalk /\ Steps(u, l, k, Start(path)) = s

\* What a path leads to whose walk comes to its last component in a directory,
\* when that is no link.
AtPlain(u, l, path, d, x) ==
  /\ x = "."  => Walk(u, l, path) = d
  /\ x = ".." => Walk(u, l, path) = Parent(d)
  /\ x \notin Dots /\ KindAt(u, Append(d, x)) \in {"file", "dir"} => Walk(u, l, path) = Append(d, x)
  /\ x \notin Dots /\ KindAt(u, Append(d, x)) = "none" => Walk(u, l, path) = Missing

LEMMA LeafWalk ==
  ASSUME NEW t, NEW u, IsTree(t), IsTree(u), Grown(t, u), NEW l, ~l,
         NEW path \in Seq(Word), Settled(t, l, path), NEW d, KindAt(u, d) = "dir", NEW x \in Word,
         NEW k, Leads(u, l, path, k, [at |-> d, rest |-> <<x>>])
  PROVE  AtPlain(u, l, path, d, x)
<1>0. k \in 0 .. MaxWalk /\ Steps(u, l, k, Start(path)) = [at |-> d, rest |-> <<x>>]
  BY Zenon DEF Leads
<1>1. k \in Nat /\ k + 1 \in Nat /\ k + 1 <= 2 * MaxWalk
  BY <1>0, WalkBound
<1>2. PICK to : to = Steps(u, l, k + 1, Start(path))
  OBVIOUS
<1>9. PICK a : a = [at |-> d, rest |-> <<x>>]
  OBVIOUS
<1>3. to = Advance(u, l, a)
  BY <1>0, <1>1, <1>2, <1>9, StepsOne
<1>4. LastTo(u, d, x, to)
  BY <1>3, <1>9, LastStep
<1>5. ASSUME NEW q \in Locations, to = [at |-> q, rest |-> <<>>]
      PROVE  Walk(u, l, path) = q
  <2>1. q # Missing /\ Steps(u, l, k + 1, Start(path)) = [at |-> q, rest |-> <<>>]
    BY <1>2, <1>5, TreesAssumption
  <2> QED
    BY <1>1, <2>1, Settle
<1>6. d \in Locations /\ Parent(d) \in Locations
  BY LocationFacts DEF KindAt
<1>7. KindAt(u, Append(d, x)) \in {"file", "dir"} => Append(d, x) \in Locations
  BY DEF KindAt
<1>8. ASSUME to = Lost PROVE Walk(u, l, path) = Missing
  <2>1. CASE k = MaxWalk
    <3>1. Steps(u, l, MaxWalk, Start(path)).rest # <<>>
      <4>1. <<x>> # <<>> /\ [at |-> d, rest |-> <<x>>].rest = <<x>>
        OBVIOUS
      <4> QED
        BY <1>0, <2>1, <4>1
    <3> QED
      BY <3>1, WalkSteps
  <2>2. CASE k # MaxWalk
    <3>1. k + 1 <= MaxWalk
      BY <1>0, <1>1, <2>2, WalkBound
    <3>2. Steps(u, l, k + 1, Start(path)) = Lost /\ Lost.rest = <<>> /\ Lost.at = Missing
      BY <1>2, <1>8 DEF Lost
    <3>3. Steps(u, l, k + 1, Start(path)).rest = <<>> /\ Steps(u, l, k + 1, Start(path)).at = Missing
      BY <3>2
    <3> QED
      BY <1>1, <3>1, <3>3, WalkEnded
  <2> QED
    BY <2>1, <2>2
<1> QED
  BY <1>4, <1>5, <1>6, <1>7, <1>8 DEF LastTo, AtPlain

\* When it is one, the entry itself leads to the same.
LEMMA LeafLink ==
  ASSUME NEW t, NEW u, IsTree(t), IsTree(u), Grown(t, u), NEW l, ~l,
         NEW path \in Seq(Word), Settled(t, l, path), NEW p \in Seq(Word), NEW s,
         NEW k, Leads(u, l, path, k, s), NEW j, j <= k, Leads(u, l, p, j, s)
  PROVE  Walk(u, l, p) = Walk(u, l, path)
<1>0. /\ k \in 0 .. MaxWalk /\ Steps(u, l, k, Start(path)) = s
      /\ j \in 0 .. MaxWalk /\ Steps(u, l, j, Start(p)) = s
  BY Zenon DEF Leads
<1>1. k \in Nat /\ j \in Nat /\ j <= k /\ k <= MaxWalk /\ MaxWalk \in Nat
  BY <1>0, WalkBound
<1>2. ASSUME NEW q, q # Missing, Walk(u, l, p) = q PROVE Walk(u, l, path) = q
  <2>1. PICK m \in Nat : m = MaxWalk - j
    BY <1>1
  <2>2. j + m = MaxWalk /\ k + m \in Nat /\ k + m <= 2 * MaxWalk
    BY <1>1, <2>1
  <2>3. Steps(u, l, MaxWalk, Start(p)) = [at |-> q, rest |-> <<>>]
    BY <1>2, Arrived
  <2>4. Steps(u, l, m, s) = [at |-> q, rest |-> <<>>]
    <3>1. Steps(u, l, j + m, Start(p)) = Steps(u, l, m, Steps(u, l, j, Start(p)))
      BY <1>1, StepsAdd
    <3> QED
      BY <1>0, <2>2, <2>3, <3>1
  <2>5. Steps(u, l, k + m, Start(path)) = [at |-> q, rest |-> <<>>]
    <3>1. Steps(u, l, k + m, Start(path)) = Steps(u, l, m, Steps(u, l, k, Start(path)))
      BY <1>1, StepsAdd
    <3> QED
      BY <1>0, <2>4, <3>1
  <2> QED
    BY <1>2, <2>2, <2>5, Settle
<1>3. ASSUME NEW q, q # Missing, Walk(u, l, path) = q PROVE Walk(u, l, p) = q
  <2>1. PICK m \in Nat : m = MaxWalk - k
    BY <1>1
  <2>2. k + m = MaxWalk /\ j + m \in Nat /\ j + m <= MaxWalk
    BY <1>1, <2>1
  <2>3. Steps(u, l, MaxWalk, Start(path)) = [at |-> q, rest |-> <<>>]
    BY <1>3, Arrived
  <2>4. Steps(u, l, m, s) = [at |-> q, rest |-> <<>>]
    <3>1. Steps(u, l, k + m, Start(path)) = Steps(u, l, m, Steps(u, l, k, Start(path)))
      BY <1>1, StepsAdd
    <3> QED
      BY <1>0, <2>2, <2>3, <3>1
  <2>5. Steps(u, l, j + m, Start(p)) = [at |-> q, rest |-> <<>>]
    <3>1. Steps(u, l, j + m, Start(p)) = Steps(u, l, m, Steps(u, l, j, Start(p)))
      BY <1>1, StepsAdd
    <3> QED
      BY <1>0, <2>4, <3>1
  <2>6. Steps(u, l, j + m, Start(p)).rest = <<>> /\ Steps(u, l, j + m, Start(p)).at = q
    BY <2>5
  <2> QED
    BY <2>2, <2>6, WalkEnded
<1>4. CASE Walk(u, l, p) # Missing
  BY <1>2, <1>4
<1>5. CASE Walk(u, l, path) # Missing
  BY <1>3, <1>5
<1> QED
  BY <1>4, <1>5

\* The path of a call, its parts, and the path with its trailing separator.
LEMMA PathFacts ==
  ASSUME input \in Inputs, input.valid
  PROVE  /\ input.path \in Seq(Word) /\ Dirname \in Seq(Word) /\ Basename \in Word
         /\ input.path = Append(Dirname, Basename)
         /\ AsWritten = IF input.slash THEN Append(input.path, ".") ELSE input.path
         /\ AsWritten \in Seq(Word)
<1>1. input.path \in Seq(Word) /\ input.path # <<>>
  BY Words, TreesAssumption
<1>2. /\ Parent(input.path) \in Seq(Word) /\ Last(input.path) \in Word
      /\ input.path = Append(Parent(input.path), Last(input.path))
  BY <1>1, ParentFacts
<1>3. PICK p \in Seq(Word) : p = input.path
  BY <1>1
<1>4. p \o <<>> = p
  BY ConcatEmptySeq
<1>5. p \o <<".">> = Append(p, ".")
  OBVIOUS
<1>6. AsWritten = IF input.slash THEN Append(input.path, ".") ELSE input.path
  BY <1>3, <1>4, <1>5 DEF AsWritten
<1> QED
  BY <1>1, <1>2, <1>6, InputFacts DEF Dirname, Basename

\* If the input leads somewhere it goes through a directory, and a trailing
\* separator changes nothing.
LEMMA InputWalk ==
  ASSUME input \in Inputs, input.valid, NEW u, IsTree(u), NEW l, ~l
  PROVE  /\ Walk(u, l, AsWritten) # Missing =>
              /\ Walk(u, l, AsWritten) = Walk(u, l, input.path)
              /\ KindAt(u, Walk(u, l, AsWritten)) \in {"file", "dir"}
              /\ KindAt(u, Walk(u, l, Dirname)) = "dir"
              /\ input.slash => KindAt(u, Walk(u, l, AsWritten)) = "dir"
         /\ ~input.slash => Walk(u, l, AsWritten) = Walk(u, l, input.path)
<1>1. /\ input.path \in Seq(Word) /\ Dirname \in Seq(Word) /\ Basename \in Word
      /\ input.path = Append(Dirname, Basename) /\ AsWritten \in Seq(Word)
      /\ AsWritten = IF input.slash THEN Append(input.path, ".") ELSE input.path
  BY PathFacts
<1>2. CASE ~input.slash
  <2>1. AsWritten = input.path
    BY <1>1, <1>2
  <2>2. Walk(u, l, input.path) # Missing => KindAt(u, Walk(u, l, input.path)) \in {"file", "dir"}
    BY <1>1, WalkEnds
  <2>3. Walk(u, l, input.path) # Missing => KindAt(u, Walk(u, l, Dirname)) = "dir"
    BY <1>1, Through
  <2> QED
    BY <1>2, <2>1, <2>2, <2>3
<1>3. CASE input.slash
  <2>1. AsWritten = Append(input.path, ".")
    BY <1>1, <1>3
  <2>2. SUFFICES ASSUME Walk(u, l, Append(input.path, ".")) # Missing
                 PROVE  /\ Walk(u, l, Append(input.path, ".")) = Walk(u, l, input.path)
                        /\ KindAt(u, Walk(u, l, Append(input.path, "."))) = "dir"
                        /\ KindAt(u, Walk(u, l, Dirname)) = "dir"
    BY <1>3, <2>1
  <2>3. /\ Walk(u, l, Append(input.path, ".")) = Walk(u, l, input.path)
        /\ KindAt(u, Walk(u, l, input.path)) = "dir"
    BY <1>1, <2>2, Dotted
  <2>4. Walk(u, l, Append(Dirname, Basename)) # Missing
    BY <1>1, <2>2, <2>3
  <2>5. KindAt(u, Walk(u, l, Dirname)) = "dir"
    BY <1>1, <2>4, Through
  <2> QED
    BY <2>3, <2>5
<1> QED
  BY <1>2, <1>3

\* When it is one, the entry itself leads to the same.
AtLeaf(u, l, path, d, x) ==
  /\ AtPlain(u, l, path, d, x)
  /\ x \notin Dots => Walk(u, l, Append(d, x)) = Walk(u, l, path)

LEMMA LeafOf ==
  ASSUME NEW t, NEW u, IsTree(t), IsTree(u), Grown(t, u), NEW l, ~l,
         NEW path \in Seq(Word), Settled(t, l, path), NEW d, KindAt(u, d) = "dir", NEW x \in Word,
         NEW k, Len(d) <= k, Leads(u, l, path, k, [at |-> d, rest |-> <<x>>])
  PROVE  AtLeaf(u, l, path, d, x)
<1>1. AtPlain(u, l, path, d, x)
  BY LeafWalk
<1>2. d \in Seq(Word) /\ Len(d) \in Nat /\ Append(d, x) \in Seq(Word)
  BY LocationFacts DEF KindAt
<1>3. ASSUME x \notin Dots PROVE Walk(u, l, Append(d, x)) = Walk(u, l, path)
  <2>1. PICK s : s = [at |-> d, rest |-> <<x>>]
    OBVIOUS
  <2>2. Steps(u, l, Len(d), Start(Append(d, x))) = s
    BY <1>3, <2>1, StraightDown
  <2>3. Leads(u, l, path, k, s) /\ k \in 0 .. MaxWalk
    BY <2>1, Zenon DEF Leads
  <2>4. Len(d) \in 0 .. MaxWalk
    BY <1>2, <2>3, WalkBound
  <2>5. Leads(u, l, Append(d, x), Len(d), s)
    BY <2>2, <2>4, Zenon DEF Leads
  <2> QED
    BY <1>2, <2>3, <2>5, LeafLink
<1> QED
  BY <1>1, <1>3 DEF AtLeaf

\* What the input leads to, by its parent and its last component.
LEMMA LeafFacts ==
  ASSUME input \in Inputs, input.valid, NEW t, NEW u, IsTree(t), IsTree(u), Grown(t, u), NEW l, ~l,
         Settled(t, l, input.path), NEW d, KindAt(u, d) = "dir", d = Walk(u, l, Dirname)
  PROVE  AtLeaf(u, l, input.path, d, Basename)
<1>1. /\ input.path \in Seq(Word) /\ Dirname \in Seq(Word) /\ Basename \in Word
      /\ input.path = Append(Dirname, Basename)
  BY PathFacts
<1>2. PICK e : e = d
  OBVIOUS
<1>3. KindAt(u, e) = "dir" /\ Walk(u, l, Dirname) = e
  BY <1>2
<1>4. e # Missing
  BY <1>3, LocationFacts DEF KindAt
<1>5. PICK x \in Word : x = Basename
  BY <1>1
<1>6. PICK k : Len(e) <= k /\ Leads(u, l, Append(Dirname, x), k, [at |-> e, rest |-> <<x>>])
  <2>1. PICK k \in 0 .. MaxWalk :
          Len(e) <= k /\ Steps(u, l, k, Start(Append(Dirname, x))) = [at |-> e, rest |-> <<x>>]
    BY <1>1, <1>3, <1>4, Onward
  <2> QED
    BY <2>1, Zenon DEF Leads
<1>7. Leads(u, l, input.path, k, [at |-> e, rest |-> <<x>>])
  BY <1>1, <1>5, <1>6, Zenon
<1>8. AtLeaf(u, l, input.path, e, x)
  BY <1>1, <1>3, <1>6, <1>7, LeafOf
<1> QED
  BY <1>2, <1>5, <1>8

\* lstat of a name in a directory is the entry's own.
LEMMA LstatFacts ==
  ASSUME IsTree(tree), NEW d, KindAt(tree, d) = "dir", NEW x \in Word
  PROVE  /\ lstat(d) = "dir"
         /\ x \notin Dots => lstat(Append(d, x)) = KindAt(tree, Append(d, x))
<1>1. ASSUME NEW q, KindAt(tree, q) = "dir" PROVE Walk(tree, FALSE, q) = q
  <2>1. q \in Locations /\ q \in Seq(Word) /\ Plain(q) /\ Len(q) <= MaxWalk /\ Len(q) \in Nat
    BY <1>1, LocationFacts DEF KindAt
  <2>2. ASSUME NEW k \in 0 .. Len(q) PROVE KindAt(tree, Prefix(q, k)) = "dir"
    <3>1. CASE k = Len(q)
      <4>1. Prefix(q, k) = q
        BY <2>1, <3>1, WholePrefix
      <4> QED
        BY <1>1, <4>1
    <3>2. CASE k # Len(q)
      <4>1. k \in 0 .. Len(q) - 1 /\ KindAt(tree, q) # "none"
        BY <1>1, <2>1, <3>2
      <4> QED
        BY <4>1, Above
    <3> QED
      BY <3>1, <3>2
  <2> QED
    BY <2>1, <2>2, WalkArrives
<1>2. d \in Locations /\ d \in Seq(Word)
  BY LocationFacts DEF KindAt
<1>3. lstat(d) = "dir"
  <2>1. CASE d = <<>>
    BY <2>1 DEF lstat
  <2>2. CASE d # <<>>
    <3>1. Front(d) = Parent(d) /\ d = Append(Parent(d), Last(d)) /\ KindAt(tree, Parent(d)) = "dir"
      BY <1>2, <2>2, ParentFacts, KindFacts
    <3>2. Walk(tree, FALSE, Front(d)) = Parent(d)
      BY <1>1, <3>1
    <3> QED
      BY <2>2, <3>1, <3>2 DEF lstat
  <2> QED
    BY <2>1, <2>2
<1>4. ASSUME x \notin Dots PROVE lstat(Append(d, x)) = KindAt(tree, Append(d, x))
  <2>1. Append(d, x) \in Seq(Word) /\ Append(d, x) # <<>> /\ Parent(Append(d, x)) = d
    BY <1>2, AppendFacts
  <2>2. Front(Append(d, x)) = d /\ Append(d, x) = Append(d, Last(Append(d, x)))
    BY <2>1, ParentFacts
  <2>3. Walk(tree, FALSE, Front(Append(d, x))) = d
    BY <1>1, <2>2
  <2> QED
    BY <2>1, <2>2, <2>3 DEF lstat
<1> QED
  BY <1>3, <1>4

--------------------------------------------------------------------------------
(* The answer of resolve.                                                  *)

\* Where the input and the directory it is in lead.
Whole(t) == Walk(t, FALSE, AsWritten)
Up(t)    == Walk(t, FALSE, Dirname)

\* What the kernel tells `resolve`, in those terms.
LEMMA Told ==
  /\ stat(AsWritten) = KindAt(tree, Whole(tree))
  /\ stat(Dirname) = KindAt(tree, Up(tree))
BY DEF stat, Whole, Up

LEMMA ToldReal ==
  ASSUME IsTree(tree), input \in Inputs, input.valid
  PROVE  /\ Whole(tree) # Missing => realpath(AsWritten) = Whole(tree)
         /\ Up(tree) # Missing => realpath(Dirname) = Up(tree)
<1>1. AsWritten \in Seq(Word) /\ Dirname \in Seq(Word)
  BY InputFacts
<1>2. ASSUME NEW l, ~l, NEW lenient, NEW p \in Seq(Word)
      PROVE  Walk(tree, l, p) # Missing => Walk(tree, lenient, p) = Walk(tree, l, p)
  BY <1>2, LenientWalk
<1> QED
  BY <1>1, <1>2 DEF realpath, Whole, Up

LEMMA WholeFacts ==
  ASSUME input \in Inputs, input.valid, NEW u, IsTree(u)
  PROVE  /\ Whole(u) # Missing => /\ KindAt(u, Whole(u)) \in {"file", "dir"}
                                  /\ KindAt(u, Up(u)) = "dir"
                                  /\ input.slash => KindAt(u, Whole(u)) = "dir"
                                  /\ Whole(u) = Walk(u, FALSE, input.path)
         /\ ~input.slash => Whole(u) = Walk(u, FALSE, input.path)
         /\ KindAt(u, Whole(u)) # "none" => Whole(u) # Missing
         /\ KindAt(u, Up(u)) = "dir" => Up(u) # Missing /\ Up(u) \in Locations /\ Up(u) \in Seq(Word)
<1>1. ASSUME NEW l, ~l
      PROVE  /\ Walk(u, l, AsWritten) # Missing =>
                  /\ Walk(u, l, AsWritten) = Walk(u, l, input.path)
                  /\ KindAt(u, Walk(u, l, AsWritten)) \in {"file", "dir"}
                  /\ KindAt(u, Walk(u, l, Dirname)) = "dir"
                  /\ input.slash => KindAt(u, Walk(u, l, AsWritten)) = "dir"
             /\ ~input.slash => Walk(u, l, AsWritten) = Walk(u, l, input.path)
  BY <1>1, InputWalk
<1>2. \A q : KindAt(u, q) # "none" => q \in Locations /\ q # Missing /\ q \in Seq(Word)
  BY LocationFacts DEF KindAt
<1>3. /\ KindAt(u, Whole(u)) # "none" => Whole(u) # Missing
      /\ KindAt(u, Up(u)) = "dir" => Up(u) # Missing /\ Up(u) \in Locations /\ Up(u) \in Seq(Word)
  BY <1>2
<1> QED
  BY <1>1, <1>3 DEF Whole, Up

\* What the input names: the object it leads to or, for a write, a new entry.
Fresh(t) ==
  /\ op = "write" /\ ~input.slash /\ Basename \notin Dots
  /\ KindAt(t, Up(t)) = "dir" /\ KindAt(t, Append(Up(t), Basename)) = "none"

LEMMA NamedIs ==
  ASSUME NEW t, NEW r
  PROVE  /\ ~input.valid => Named(t, r) = Missing
         /\ input.valid /\ Whole(t) # Missing =>
              Named(t, r) = IF IsPrefix(r, Whole(t)) THEN Whole(t) ELSE Missing
         /\ Whole(t) = Missing /\ ~Fresh(t) => Named(t, r) = Missing
         /\ input.valid /\ Whole(t) = Missing /\ Fresh(t) =>
              Named(t, r) = IF IsPrefix(r, Append(Up(t), Basename)) THEN Append(Up(t), Basename) ELSE Missing
<1>1. Named(t, r) =
        CASE input.valid /\ Whole(t) # Missing /\ IsPrefix(r, Whole(t)) -> Whole(t)
          [] /\ input.valid /\ Whole(t) = Missing
             /\ op = "write" /\ ~input.slash /\ Basename \notin Dots
             /\ KindAt(t, Up(t)) = "dir" /\ KindAt(t, Append(Up(t), Basename)) = "none"
             /\ IsPrefix(r, Append(Up(t), Basename)) -> Append(Up(t), Basename)
          [] OTHER -> Missing
  BY DEF Named, Whole, Up
<1>2. /\ input.valid /\ Whole(t) # Missing =>
           Named(t, r) = IF IsPrefix(r, Whole(t)) THEN Whole(t) ELSE Missing
      /\ Whole(t) = Missing /\ ~Fresh(t) => Named(t, r) = Missing
      /\ input.valid /\ Whole(t) = Missing /\ Fresh(t) =>
           Named(t, r) = IF IsPrefix(r, Append(Up(t), Basename)) THEN Append(Up(t), Basename) ELSE Missing
      /\ ~input.valid => Named(t, r) = Missing
  BY <1>1 DEF Fresh
<1> QED
  BY <1>2

\* A tree in which other calls create files keeps the directories of the input.
LEMMA GrownInput ==
  ASSUME input \in Inputs, input.valid, NEW t, NEW u, IsTree(t), IsTree(u), Grown(t, u)
  PROVE  /\ KindAt(t, Whole(t)) # "none" => KindAt(u, Whole(u)) = KindAt(t, Whole(t))
         /\ KindAt(u, Up(u)) = "dir" => Up(u) = Up(t) /\ KindAt(t, Up(t)) = "dir"
         /\ KindAt(t, Up(t)) = "dir" => Up(u) = Up(t) /\ KindAt(u, Up(u)) = "dir"
<1>1. AsWritten \in Seq(Word) /\ Dirname \in Seq(Word)
  BY InputFacts
<1>2. ASSUME NEW l, ~l, NEW p \in Seq(Word)
      PROVE  /\ Walk(t, l, p) # Missing => Walk(u, l, p) = Walk(t, l, p)
             /\ KindAt(t, Walk(t, l, p)) # "none" => KindAt(u, Walk(u, l, p)) = KindAt(t, Walk(t, l, p))
             /\ KindAt(u, Walk(u, l, p)) = "dir" =>
                  Walk(u, l, p) = Walk(t, l, p) /\ KindAt(t, Walk(t, l, p)) = "dir"
  <2>1. PICK a : a = Walk(t, l, p)
    OBVIOUS
  <2>2. PICK b : b = Walk(u, l, p)
    OBVIOUS
  <2>3. /\ a # Missing => b = a
        /\ KindAt(t, a) # "none" => KindAt(u, b) = KindAt(t, a)
        /\ KindAt(u, b) = "dir" => b = a /\ KindAt(t, a) = "dir"
    BY <1>2, <2>1, <2>2, GrownWalk
  <2> QED
    BY <2>1, <2>2, <2>3
<1>3. KindAt(t, Up(t)) = "dir" => Up(t) # Missing
  BY LocationFacts DEF KindAt
<1> QED
  BY <1>1, <1>2, <1>3 DEF Whole, Up

\* What `resolve` makes of the directory of the input.
LEMMA LeafTold ==
  ASSUME input \in Inputs, input.valid, IsTree(tree), NEW t \in Trees, Grown(t, tree),
         KindAt(tree, Up(tree)) = "dir"
  PROVE  /\ AtLeaf(tree, FALSE, input.path, Up(tree), Basename)
         /\ Up(tree) \in Locations /\ Up(tree) \in Seq(Word) /\ Basename \in Word
<1>1. ASSUME NEW l, ~l, Settled(t, l, input.path), NEW d, d = Walk(tree, l, Dirname), KindAt(tree, d) = "dir"
      PROVE  AtLeaf(tree, l, input.path, d, Basename)
  <2>1. IsTree(t)
    BY TreesAssumption
  <2> QED
    BY <1>1, <2>1, LeafFacts
<1>2. Settled(t, FALSE, input.path)
  BY InputSettled
<1>3. ~FALSE
  OBVIOUS
<1>4. AtLeaf(tree, FALSE, input.path, Up(tree), Basename)
  BY <1>1, <1>2, <1>3, Zenon DEF Up
<1>5. Up(tree) \in Locations /\ Up(tree) \in Seq(Word)
  BY WholeFacts
<1>6. Basename \in Word
  BY InputFacts
<1> QED
  BY <1>4, <1>5, <1>6

\* When that is no link, the input names it or nothing.
LEMMA LeafNamed ==
  ASSUME input \in Inputs, input.valid, op = "write", IsTree(tree), NEW t \in Trees, Grown(t, tree),
         KindAt(tree, Up(tree)) = "dir", input.slash => KindAt(tree, Whole(tree)) = "dir",
         NEW p, p = Join(Up(tree)), lstat(p) # "link", NEW r
  PROVE  Named(tree, r) = IF p # Missing /\ IsPrefix(r, p) THEN p ELSE Missing
<1>1. /\ AtLeaf(tree, FALSE, input.path, Up(tree), Basename)
      /\ Up(tree) \in Locations /\ Up(tree) \in Seq(Word) /\ Basename \in Word
  BY LeafTold
<1>2. PICK d : d = Up(tree)
  OBVIOUS
<1>3. PICK b : b = Basename
  OBVIOUS
<1>4. PICK w : w = Walk(tree, FALSE, input.path)
  OBVIOUS
<1>5. d \in Locations /\ d \in Seq(Word) /\ b \in Word /\ KindAt(tree, d) = "dir"
  BY <1>1, <1>2, <1>3
<1>6. /\ b = "."  => w = d
      /\ b = ".." => w = Parent(d)
      /\ b \notin Dots /\ KindAt(tree, Append(d, b)) \in {"file", "dir"} => w = Append(d, b)
      /\ b \notin Dots /\ KindAt(tree, Append(d, b)) = "none" => w = Missing
  BY <1>1, <1>2, <1>3, <1>4 DEF AtLeaf, AtPlain
<1>7. p = IF b = "." THEN d ELSE IF b = ".." THEN Parent(d) ELSE Append(d, b)
  BY <1>2, <1>3 DEF Join
<1>8. b \in Dots <=> b = "." \/ b = ".."
  BY DEF Dots
<1>9. b \notin Dots => KindAt(tree, Append(d, b)) \in {"none", "file", "dir"}
  <2>1. ASSUME b \notin Dots PROVE KindAt(tree, Append(d, b)) # "link"
    <3>1. lstat(Append(d, b)) = KindAt(tree, Append(d, b))
      BY <1>5, <2>1, LstatFacts
    <3> QED
      BY <1>7, <1>8, <2>1, <3>1
  <2> QED
    BY <2>1, KindValues
<1>10. \A q \in Locations : q # Missing
  BY TreesAssumption
<1>11. CASE w # Missing
  <2>1. Whole(tree) = w
    BY <1>4, <1>11, WholeFacts
  <2>2. p = w
    BY <1>6, <1>7, <1>8, <1>9, <1>11
  <2> QED
    BY <1>11, <2>1, <2>2, NamedIs
<1>12. CASE w = Missing
  <2>1. b \notin Dots /\ KindAt(tree, Append(d, b)) = "none"
    <3>1. Parent(d) \in Locations
      BY <1>5, LocationFacts
    <3>2. \A q : KindAt(tree, q) # "none" => q \in Locations
      BY DEF KindAt
    <3> QED
      BY <1>5, <1>6, <1>8, <1>9, <1>10, <1>12, <3>1, <3>2
  <2>2. Whole(tree) = Missing /\ ~input.slash
    BY <1>4, <1>12, WholeFacts
  <2>3. Fresh(tree)
    BY <1>2, <1>3, <1>5, <2>1, <2>2 DEF Fresh
  <2>4. p = Append(d, b)
    BY <1>7, <1>8, <2>1
  <2> QED
    BY <1>2, <1>3, <2>2, <2>3, <2>4, NamedIs
<1> QED
  BY <1>11, <1>12

\* When it is one, the name is followed, if no link holds dots where realpath()
\* folds them.
LEMMA LinkFound ==
  ASSUME input \in Inputs, input.valid, op = "write", IsTree(tree), NEW t \in Trees, Grown(t, tree),
         LinksTold, KindAt(tree, Up(tree)) = "dir", input.slash => KindAt(tree, Whole(tree)) = "dir",
         Basename \notin Dots, NEW p, p = Append(Up(tree), Basename), KindAt(tree, p) = "link"
  PROVE  realpath(p) = Whole(tree)
<1>1. /\ AtLeaf(tree, FALSE, input.path, Up(tree), Basename)
      /\ Up(tree) \in Locations /\ Up(tree) \in Seq(Word) /\ Basename \in Word
  BY LeafTold
<1>2. Walk(tree, FALSE, p) = Walk(tree, FALSE, input.path)
  BY <1>1 DEF AtLeaf
<1>3. Walk(tree, FALSE, input.path) = Whole(tree)
  BY WholeFacts
<1>4. p \in Locations
  BY DEF KindAt
<1>5. p \in Seq(Word) /\ NoDots(p)
  BY <1>4, LocationFacts DEF Plain, NoDots
<1>6. ASSUME host = "lenient", NEW q \in Locations, KindAt(tree, q) = "link" PROVE NoDots(tree[q].to)
  <2>1. tree[q].kind = "link" /\ tree[q].to \in Seq(Word)
    BY <1>6, KindFacts DEF KindAt
  <2>2. ToSet(tree[q].to) \cap Dots = {}
    BY <1>6, <2>1 DEF LinksTold
  <2> QED
    BY <2>1, <2>2 DEF NoDots, ToSet
<1>7. ASSUME NEW l, ~l, NEW lenient, lenient <=> host = "lenient", lenient \in BOOLEAN, l \in BOOLEAN
      PROVE  Walk(tree, lenient, p) = Walk(tree, l, p)
  <2>1. CASE lenient
    BY <1>5, <1>6, <1>7, <2>1, PlainWalk
  <2>2. CASE ~lenient
    <3>1. lenient = l
      BY <1>7, <2>2
    <3> QED
      BY <3>1
  <2> QED
    BY <2>1, <2>2
<1>8. realpath(p) = Walk(tree, FALSE, p)
  <2>1. PICK lenient : lenient = (host = "lenient")
    OBVIOUS
  <2>2. lenient \in BOOLEAN /\ (lenient <=> host = "lenient")
    BY <2>1
  <2>3. FALSE \in BOOLEAN /\ ~FALSE
    OBVIOUS
  <2>4. Walk(tree, lenient, p) = Walk(tree, FALSE, p)
    BY <1>7, <2>2, <2>3, Zenon
  <2> QED
    BY <2>1, <2>4, Zenon DEF realpath
<1> QED
  BY <1>2, <1>3, <1>8

LEMMA LinkTold ==
  ASSUME input \in Inputs, input.valid, IsTree(tree), KindAt(tree, Up(tree)) = "dir",
         NEW p, p = Join(Up(tree)), lstat(p) = "link"
  PROVE  Basename \notin Dots /\ p = Append(Up(tree), Basename) /\ KindAt(tree, p) = "link"
<1>1. PICK d : d = Up(tree)
  OBVIOUS
<1>2. PICK b : b = Basename
  OBVIOUS
<1>3. d \in Locations /\ b \in Word /\ KindAt(tree, d) = "dir" /\ lstat(d) = "dir"
  BY <1>1, <1>2, WholeFacts, InputFacts, LstatFacts
<1>4. lstat(Parent(d)) = "dir"
  <2>1. KindAt(tree, Parent(d)) = "dir"
    BY <1>3, KindFacts
  <2> QED
    BY <1>3, <2>1, LstatFacts
<1>5. p = IF b = "." THEN d ELSE IF b = ".." THEN Parent(d) ELSE Append(d, b)
  BY <1>1, <1>2 DEF Join
<1>6. b \in Dots <=> b = "." \/ b = ".."
  BY DEF Dots
<1>7. b \notin Dots
  BY <1>3, <1>4, <1>5, <1>6
<1>8. lstat(Append(d, b)) = KindAt(tree, Append(d, b))
  BY <1>3, <1>7, LstatFacts
<1> QED
  BY <1>1, <1>2, <1>5, <1>6, <1>7, <1>8

\* What `resolve` has found out by now of an undisturbed tree.
Known ==
  /\ pc = "slash" => input.slash
  /\ pc # "slash" /\ input.slash => KindAt(tree, Whole(tree)) = "dir"
  /\ pc \in {"exists", "real"} => op # "write"
  /\ pc = "real" => KindAt(tree, Whole(tree)) # "none"
  /\ pc \in {"parent", "parentKind", "leaf", "realLeaf"} => op = "write"
  /\ pc = "parentKind" /\ KindAt(tree, Up(tree)) = "dir" => real = Up(tree)
  /\ pc \in {"leaf", "realLeaf"} => KindAt(tree, Up(tree)) = "dir" /\ real = Join(Up(tree))
  /\ pc = "realLeaf" => Basename \notin Dots /\ KindAt(tree, real) = "link"

Agreement ==
  moved = {} =>
    /\ host \in Hosts
    /\ pc = "boot" \/ Resolving => \E t \in Trees : Grown(t, tree)
    /\ Resolving => Named(tree, root) \in possible
    /\ pc \in Asking => Known

AgreeInv == IInv /\ Agreement /\ Agrees

LEMMA Kept ==
  ASSUME UNCHANGED <<op, input, root>>
  PROVE  /\ Named(tree, root)' = Named(tree', root)
         /\ Whole(tree)' = Whole(tree') /\ Up(tree)' = Up(tree')
         /\ Basename' = Basename /\ Join(Up(tree))' = Join(Up(tree'))
<1>1. AsWritten' = AsWritten /\ Dirname' = Dirname /\ Basename' = Basename
  BY DEF AsWritten, Dirname, Basename
<1>2. Whole(tree)' = Whole(tree') /\ Up(tree)' = Up(tree')
  BY <1>1 DEF Whole, Up
<1>3. Join(Up(tree))' = Join(Up(tree'))
  BY <1>1, <1>2 DEF Join
<1>4. Named(tree, root)' = Named(tree', root)
  BY <1>1 DEF Named
<1> QED
  BY <1>1, <1>2, <1>3, <1>4

\* The answers of `resolve`.
LEMMA Refused ==
  ASSUME AgreeInv, Resolving, Refuse, moved = {} /\ LinksTold => Named(tree, root) = Missing
  PROVE  Agreement' /\ Agrees'
<1>1. pc' = "refused" /\ UNCHANGED <<host, tree, possible, moved>>
  BY DEF Refuse, Frame
<1>2. Agreement'
  BY <1>1 DEF AgreeInv, Agreement, Resolving, Asking
<1>3. moved = {} /\ LinksTold => Missing \in possible
  BY DEF AgreeInv, Agreement
<1>4. LinksTold' => LinksTold
  BY <1>1 DEF LinksTold
<1> QED
  BY <1>1, <1>2, <1>3, <1>4 DEF Agrees

LEMMA Admitted ==
  ASSUME AgreeInv, Resolving, NEW p, Admit(p),
         moved = {} /\ LinksTold => Named(tree, root) = IF p # Missing /\ IsPrefix(root, p) THEN p ELSE Missing
  PROVE  Agreement' /\ Agrees'
<1>1. CASE ~(p # Missing /\ IsPrefix(root, p))
  BY <1>1, Refused DEF Admit, _underRoot
<1>2. CASE p # Missing /\ IsPrefix(root, p)
  <2>1. pc' = "checked" /\ real' = p /\ UNCHANGED <<host, tree, possible, moved>>
    BY <1>2 DEF Admit, _underRoot, Goto, Frame
  <2>2. Agreement'
    BY <2>1 DEF AgreeInv, Agreement, Resolving, Asking
  <2>3. moved = {} /\ LinksTold => p \in possible
    BY <1>2 DEF AgreeInv, Agreement
  <2>4. LinksTold' => LinksTold
    BY <2>1 DEF LinksTold
  <2> QED
    BY <1>2, <2>1, <2>2, <2>3, <2>4 DEF Agrees
<1> QED
  BY <1>1, <1>2

\* A step on, with what is known then.
LEMMA Asked ==
  ASSUME AgreeInv, Resolving, Frame, pc' \in Asking, moved = {} => Known'
  PROVE  Agreement' /\ Agrees'
<1>1. UNCHANGED <<host, tree, op, input, root, possible, moved>>
  BY DEF Frame
<1>2. Named(tree, root)' = Named(tree, root)
  BY <1>1, Kept
<1>3. pc' # "boot" /\ Resolving'
  BY DEF Asking, Resolving
<1>4. (\E t \in Trees : Grown(t, tree)) <=> (\E t \in Trees : Grown(t, tree))'
  BY <1>1 DEF Grown
<1>5. Agreement'
  BY <1>1, <1>2, <1>3, <1>4 DEF AgreeInv, Agreement
<1> QED
  BY <1>5 DEF Agrees, Asking

LEMMA Context ==
  ASSUME AgreeInv, Resolving
  PROVE  /\ IsTree(tree) /\ input \in Inputs /\ op \in {"read", "list", "write"}
         /\ pc \in Asking => input.valid
         /\ moved = {} => /\ host \in Hosts
                          /\ \E t \in Trees : Grown(t, tree)
                          /\ pc \in Asking => Known
BY DEF AgreeInv, Agreement, IInv, Types

LEMMA Unnamed ==
  ASSUME AgreeInv, pc \in Asking, KindAt(tree, Up(tree)) # "dir" \/ (op # "write" /\ Whole(tree) = Missing)
  PROVE  Named(tree, root) = Missing
<1>1. IsTree(tree) /\ input \in Inputs /\ input.valid
  BY Context DEF Resolving, Asking
<1>2. Whole(tree) = Missing
  BY <1>1, WholeFacts
<1> QED
  BY <1>2, NamedIs DEF Fresh

LEMMA resolveAgrees == ASSUME AgreeInv, resolve PROVE Agreement' /\ Agrees'
<1>1. pc = "call" /\ Resolving
  BY DEF resolve, Resolving
<1>2. CASE ~input.valid
  BY <1>1, <1>2, NamedIs, Refused DEF resolve
<1>3. CASE input.valid
  <2>1. Frame /\ pc' = (IF input.slash THEN "slash" ELSE First)
    BY <1>3 DEF resolve, Goto
  <2>2. UNCHANGED <<tree, op, input, root>>
    BY <2>1 DEF Frame
  <2>3. pc' \in Asking
    BY <2>1 DEF First, Asking
  <2>4. op \in {"read", "list", "write"}
    BY <1>1, Context
  <2>5. Known'
    BY <2>1, <2>2, <2>4 DEF Known, First
  <2> QED
    BY <1>1, <2>1, <2>3, <2>5, Asked
<1> QED
  BY <1>2, <1>3

LEMMA CheckSlashAgrees == ASSUME AgreeInv, CheckSlash PROVE Agreement' /\ Agrees'
<1>1. pc = "slash" /\ Resolving /\ pc \in Asking
  BY DEF CheckSlash, Resolving, Asking
<1>2. IsTree(tree) /\ input \in Inputs /\ input.valid /\ op \in {"read", "list", "write"} /\ (moved = {} => Known)
  BY <1>1, Context
<1>3. stat(AsWritten) = KindAt(tree, Whole(tree))
  BY Told
<1>4. CASE stat(AsWritten) = "dir"
  <2>1. Frame /\ pc' = First
    BY <1>4 DEF CheckSlash, Goto
  <2>2. UNCHANGED <<tree, op, input, root>>
    BY <2>1 DEF Frame
  <2>3. pc' \in Asking
    BY <2>1 DEF First, Asking
  <2>4. KindAt(tree, Whole(tree))' = KindAt(tree, Whole(tree))
    BY <2>2, Kept DEF KindAt
  <2>5. Known'
    BY <1>2, <1>3, <1>4, <2>1, <2>2, <2>4 DEF Known, First
  <2> QED
    BY <1>1, <2>1, <2>3, <2>5, Asked
<1>5. CASE stat(AsWritten) # "dir"
  <2>1. Refuse
    BY <1>5 DEF CheckSlash
  <2>2. ASSUME moved = {} PROVE Named(tree, root) = Missing
    <3>1. input.slash
      BY <1>1, <1>2, <2>2 DEF Known
    <3>2. Whole(tree) = Missing
      BY <1>2, <1>3, <1>5, <3>1, WholeFacts
    <3> QED
      BY <3>1, <3>2, NamedIs DEF Fresh
  <2> QED
    BY <1>1, <2>1, <2>2, Refused
<1> QED
  BY <1>4, <1>5

LEMMA CheckExistsAgrees == ASSUME AgreeInv, CheckExists PROVE Agreement' /\ Agrees'
<1>1. pc = "exists" /\ Resolving /\ pc \in Asking
  BY DEF CheckExists, Resolving, Asking
<1>2. /\ IsTree(tree) /\ input \in Inputs /\ input.valid /\ op \in {"read", "list", "write"}
      /\ moved = {} => Known
  BY <1>1, Context
<1>3. stat(AsWritten) = KindAt(tree, Whole(tree))
  BY Told
<1>4. CASE stat(AsWritten) # "none"
  <2>1. Frame /\ pc' = "real"
    BY <1>4 DEF CheckExists, Goto
  <2>2. UNCHANGED <<tree, op, input, root>>
    BY <2>1 DEF Frame
  <2>3. pc' \in Asking
    BY <2>1 DEF Asking
  <2>4. KindAt(tree, Whole(tree))' = KindAt(tree, Whole(tree))
    BY <2>2, Kept DEF KindAt
  <2>5. moved = {} => Known'
    BY <1>1, <1>2, <1>3, <1>4, <2>1, <2>2, <2>4 DEF Known
  <2> QED
    BY <1>1, <2>1, <2>3, <2>5, Asked
<1>5. CASE stat(AsWritten) = "none"
  <2>1. Refuse
    BY <1>5 DEF CheckExists
  <2>2. ASSUME moved = {} PROVE Named(tree, root) = Missing
    <3>1. op # "write"
      BY <1>1, <1>2, <2>2 DEF Known
    <3>2. Whole(tree) = Missing
      BY <1>2, <1>3, <1>5, WholeFacts
    <3> QED
      BY <1>1, <3>1, <3>2, Unnamed
  <2> QED
    BY <1>1, <2>1, <2>2, Refused
<1> QED
  BY <1>4, <1>5

LEMMA RealInputAgrees == ASSUME AgreeInv, RealInput PROVE Agreement' /\ Agrees'
<1>1. pc = "real" /\ Resolving /\ pc \in Asking /\ Admit(realpath(AsWritten))
  BY DEF RealInput, Resolving, Asking
<1>2. IsTree(tree) /\ input \in Inputs /\ input.valid /\ (moved = {} => Known)
  BY <1>1, Context
<1>3. PICK p : p = realpath(AsWritten)
  OBVIOUS
<1>4. ASSUME moved = {} PROVE Named(tree, root) = IF p # Missing /\ IsPrefix(root, p) THEN p ELSE Missing
  <2>1. KindAt(tree, Whole(tree)) # "none"
    BY <1>1, <1>2, <1>4 DEF Known
  <2>2. Whole(tree) # Missing
    BY <1>2, <2>1, WholeFacts
  <2>3. p = Whole(tree)
    BY <1>2, <1>3, <2>2, ToldReal
  <2> QED
    BY <1>2, <2>2, <2>3, NamedIs
<1> QED
  BY <1>1, <1>3, <1>4, Admitted

LEMMA RealParentAgrees == ASSUME AgreeInv, RealParent PROVE Agreement' /\ Agrees'
<1>1. pc = "parent" /\ Resolving /\ pc \in Asking
  BY DEF RealParent, Resolving, Asking
<1>2. IsTree(tree) /\ input \in Inputs /\ input.valid /\ (moved = {} => Known)
  BY <1>1, Context
<1>3. PICK d : d = realpath(Dirname)
  OBVIOUS
<1>4. KindAt(tree, Up(tree)) = "dir" => d = Up(tree) /\ d # Missing
  BY <1>2, <1>3, WholeFacts, ToldReal
<1>5. CASE d = Missing
  <2>1. Refuse
    BY <1>3, <1>5 DEF RealParent
  <2>2. Named(tree, root) = Missing
    BY <1>1, <1>4, <1>5, Unnamed
  <2> QED
    BY <1>1, <2>1, <2>2, Refused
<1>6. CASE d # Missing
  <2>1. Frame /\ pc' = "parentKind" /\ real' = d
    BY <1>3, <1>6 DEF RealParent, Goto
  <2>2. UNCHANGED <<tree, op, input, root>>
    BY <2>1 DEF Frame
  <2>3. pc' \in Asking
    BY <2>1 DEF Asking
  <2>4. Up(tree)' = Up(tree) /\ Whole(tree)' = Whole(tree)
    BY <2>2, Kept
  <2>5. \A q, r : q = r => (KindAt(tree, r) = KindAt(tree', q))
    BY <2>2
  <2>6. KindAt(tree, Up(tree))' = KindAt(tree, Up(tree)) /\ KindAt(tree, Whole(tree))' = KindAt(tree, Whole(tree))
    BY <2>4, <2>5 DEF KindAt
  <2>7. moved = {} => Known'
    BY <1>1, <1>2, <1>4, <2>1, <2>2, <2>4, <2>6 DEF Known
  <2> QED
    BY <1>1, <2>1, <2>3, <2>7, Asked
<1> QED
  BY <1>5, <1>6

LEMMA CheckParentAgrees == ASSUME AgreeInv, CheckParent PROVE Agreement' /\ Agrees'
<1>1. pc = "parentKind" /\ Resolving /\ pc \in Asking
  BY DEF CheckParent, Resolving, Asking
<1>2. IsTree(tree) /\ input \in Inputs /\ input.valid /\ (moved = {} => Known)
  BY <1>1, Context
<1>3. stat(Dirname) = KindAt(tree, Up(tree))
  BY Told
<1>4. CASE stat(Dirname) # "dir"
  <2>1. Refuse
    BY <1>4 DEF CheckParent
  <2>2. Named(tree, root) = Missing
    BY <1>1, <1>3, <1>4, Unnamed
  <2> QED
    BY <1>1, <2>1, <2>2, Refused
<1>5. CASE stat(Dirname) = "dir"
  <2>1. Frame /\ pc' = "leaf" /\ real' = Join(real)
    BY <1>5 DEF CheckParent, Goto
  <2>2. UNCHANGED <<tree, op, input, root>>
    BY <2>1 DEF Frame
  <2>3. pc' \in Asking
    BY <2>1 DEF Asking
  <2>4. Up(tree)' = Up(tree) /\ Whole(tree)' = Whole(tree) /\ Join(Up(tree))' = Join(Up(tree))
    BY <2>2, Kept
  <2>5. KindAt(tree, Up(tree))' = KindAt(tree, Up(tree)) /\ KindAt(tree, Whole(tree))' = KindAt(tree, Whole(tree))
    BY <2>2, <2>4 DEF KindAt
  <2>6. moved = {} => real = Up(tree)
    BY <1>1, <1>2, <1>3, <1>5 DEF Known
  <2>7. moved = {} => real' = Join(Up(tree))'
    BY <2>1, <2>4, <2>6
  <2>8. moved = {} => Known'
    BY <1>1, <1>2, <1>3, <1>5, <2>1, <2>2, <2>5, <2>7 DEF Known
  <2> QED
    BY <1>1, <2>1, <2>3, <2>8, Asked
<1> QED
  BY <1>4, <1>5

LEMMA CheckLeafAgrees == ASSUME AgreeInv, CheckLeaf PROVE Agreement' /\ Agrees'
<1>1. pc = "leaf" /\ Resolving /\ pc \in Asking
  BY DEF CheckLeaf, Resolving, Asking
<1>2. IsTree(tree) /\ input \in Inputs /\ input.valid
  BY <1>1, Context
<1>3. moved = {} => /\ op = "write" /\ KindAt(tree, Up(tree)) = "dir" /\ real = Join(Up(tree))
                    /\ input.slash => KindAt(tree, Whole(tree)) = "dir"
                    /\ \E t \in Trees : Grown(t, tree)
  BY <1>1, Context DEF Known
<1>4. CASE lstat(real) = "link"
  <2>1. Frame /\ pc' = "realLeaf" /\ real' = real
    BY <1>4 DEF CheckLeaf, Goto
  <2>2. UNCHANGED <<tree, op, input, root>>
    BY <2>1 DEF Frame
  <2>3. pc' \in Asking
    BY <2>1 DEF Asking
  <2>4. /\ Up(tree)' = Up(tree) /\ Whole(tree)' = Whole(tree) /\ Basename' = Basename
        /\ Join(Up(tree))' = Join(Up(tree))
    BY <2>2, Kept
  <2>5. /\ KindAt(tree, Up(tree))' = KindAt(tree, Up(tree))
        /\ KindAt(tree, Whole(tree))' = KindAt(tree, Whole(tree))
        /\ KindAt(tree, real)' = KindAt(tree, real)
    BY <2>1, <2>2, <2>4 DEF KindAt
  <2>6. moved = {} => Basename \notin Dots /\ KindAt(tree, real) = "link"
    BY <1>2, <1>3, <1>4, LinkTold
  <2>7. moved = {} => Known'
    BY <1>3, <2>1, <2>2, <2>4, <2>5, <2>6 DEF Known
  <2> QED
    BY <1>1, <2>1, <2>3, <2>7, Asked
<1>5. CASE lstat(real) # "link"
  <2>1. Admit(real)
    BY <1>5 DEF CheckLeaf
  <2>2. moved = {} => Named(tree, root) = IF real # Missing /\ IsPrefix(root, real) THEN real ELSE Missing
    BY <1>2, <1>3, <1>5, LeafNamed
  <2> QED
    BY <1>1, <2>1, <2>2, Admitted
<1> QED
  BY <1>4, <1>5

LEMMA RealLeafAgrees == ASSUME AgreeInv, RealLeaf PROVE Agreement' /\ Agrees'
<1>1. pc = "realLeaf" /\ Resolving /\ pc \in Asking /\ Admit(realpath(real))
  BY DEF RealLeaf, Resolving, Asking
<1>2. IsTree(tree) /\ input \in Inputs /\ input.valid
  BY <1>1, Context
<1>3. moved = {} => /\ host \in Hosts /\ op = "write" /\ KindAt(tree, Up(tree)) = "dir" /\ real = Join(Up(tree))
                    /\ input.slash => KindAt(tree, Whole(tree)) = "dir"
                    /\ Basename \notin Dots /\ KindAt(tree, real) = "link"
                    /\ \E t \in Trees : Grown(t, tree)
  BY <1>1, Context DEF Known
<1>4. PICK p : p = realpath(real)
  OBVIOUS
<1>5. ASSUME moved = {}, LinksTold PROVE Named(tree, root) = IF p # Missing /\ IsPrefix(root, p) THEN p ELSE Missing
  <2>1. real = Append(Up(tree), Basename)
    BY <1>3, <1>5 DEF Join, Dots
  <2>2. p = Whole(tree)
    BY <1>2, <1>3, <1>4, <1>5, <2>1, LinkFound
  <2>3. ~Fresh(tree)
    BY <1>3, <1>5, <2>1 DEF Fresh
  <2> QED
    BY <1>2, <2>2, <2>3, NamedIs
<1> QED
  BY <1>1, <1>4, <1>5, Admitted

LEMMA createAgrees == ASSUME AgreeInv, create PROVE Agreement' /\ Agrees'
<1>1. pc = "boot" /\ UNCHANGED <<host, tree, op, input, moved>>
  BY DEF create
<1>2. CASE pc' = "stopped" /\ UNCHANGED <<root, possible>>
  BY <1>1, <1>2 DEF AgreeInv, Agreement, Agrees, Resolving, Asking
<1>3. CASE \E r : pc' = "call" /\ root' = r /\ possible' = {Named(tree, r)}
  <2>1. PICK r : pc' = "call" /\ root' = r /\ possible' = {Named(tree, r)}
    BY <1>3
  <2>2. Named(tree, root)' = Named(tree, r)
    <3>1. AsWritten' = AsWritten /\ Dirname' = Dirname /\ Basename' = Basename
      BY <1>1 DEF AsWritten, Dirname, Basename
    <3> QED
      BY <1>1, <2>1, <3>1 DEF Named
  <2>3. (\E t \in Trees : Grown(t, tree))' <=> \E t \in Trees : Grown(t, tree)
    BY <1>1 DEF Grown
  <2>4. Agreement'
    BY <1>1, <2>1, <2>2, <2>3 DEF AgreeInv, Agreement, Resolving, Asking
  <2> QED
    BY <2>1, <2>4 DEF Agrees
<1> QED
  BY <1>2, <1>3 DEF create

LEMMA OtherWriteGrown ==
  ASSUME NEW t, Grown(t, tree), IsTree(tree), NEW p \in Locations, OtherWrite(p)
  PROVE  Grown(tree, tree') /\ Grown(t, tree')
<1>1. tree[p] = None /\ tree' = [tree EXCEPT ![p] = File]
  BY DEF OtherWrite, Changed
<1>2. tree = [q \in Locations |-> tree[q]]
  BY DEF IsTree
<1>3. \A q \in Locations : tree'[q] = IF q = p THEN File ELSE tree[q]
  BY <1>1, <1>2
<1>4. None # File
  BY DEF None, File
<1> QED
  BY <1>1, <1>3, <1>4 DEF Grown

LEMMA OtherWriteAgrees ==
  ASSUME AgreeInv, IsTree(tree'), NEW p \in Locations, OtherWrite(p) PROVE Agreement' /\ Agrees'
<1>1. /\ Resolving \/ pc \in {"checked", "open"}
      /\ UNCHANGED <<host, op, input, pc, root, real, moved>>
      /\ possible' = possible \cup (IF Resolving THEN {Named(tree', root)} ELSE {})
  BY DEF OtherWrite, Changed
<1>2. /\ Named(tree, root)' = Named(tree', root)
      /\ Whole(tree)' = Whole(tree') /\ Up(tree)' = Up(tree')
      /\ Basename' = Basename /\ Join(Up(tree))' = Join(Up(tree'))
  BY <1>1, Kept
<1>3. CASE pc \in {"checked", "open"}
  <2>1. possible' = possible /\ ~Resolving' /\ pc' \notin Asking /\ pc' # "boot"
    BY <1>1, <1>3 DEF Resolving, Asking
  <2>2. Agreement'
    BY <1>1, <2>1 DEF AgreeInv, Agreement
  <2>3. tree' = [tree EXCEPT ![p] = File] /\ tree[p] = None
    BY DEF OtherWrite, Changed
  <2>4. LinksTold' => LinksTold
    <3>1. tree = [q \in Locations |-> tree[q]]
      BY DEF AgreeInv, IInv, Types, IsTree
    <3>2. \A q \in Locations : tree[q].kind = "link" => tree'[q] = tree[q]
      BY <2>3, <3>1 DEF None
    <3> QED
      BY <1>1, <3>2 DEF LinksTold
  <2> QED
    BY <1>1, <1>3, <2>1, <2>2, <2>4 DEF AgreeInv, Agrees
<1>4. CASE Resolving
  <2>1. Agrees'
    BY <1>1, <1>4 DEF Agrees, Resolving
  <2>2. IsTree(tree) /\ input \in Inputs /\ (pc \in Asking => input.valid) /\ (moved = {} => \E t \in Trees : Grown(t, tree))
    BY <1>4, Context
  <2>3. moved = {} => (\E t \in Trees : Grown(t, tree))'
    <3>1. moved = {} => \E t \in Trees : Grown(t, tree')
      BY <2>2, OtherWriteGrown
    <3> QED
      BY <3>1 DEF Grown
  <2>4. ASSUME moved = {}, pc \in Asking PROVE Known'
    <3>1. Known /\ input.valid
      BY <1>4, <2>2, <2>4, Context
    <3>2. Grown(tree, tree')
      BY <2>2, <2>4, OtherWriteGrown
    <3> PICK u : u = tree'
      OBVIOUS
    <3>3. IsTree(u) /\ Grown(tree, u)
      BY <3>2
    <3>4. /\ KindAt(tree, Whole(tree)) # "none" => KindAt(u, Whole(u)) = KindAt(tree, Whole(tree))
          /\ KindAt(u, Up(u)) = "dir" => Up(u) = Up(tree) /\ KindAt(tree, Up(tree)) = "dir"
          /\ KindAt(tree, Up(tree)) = "dir" => Up(u) = Up(tree) /\ KindAt(u, Up(u)) = "dir"
      BY <2>2, <3>1, <3>3, GrownInput
    <3>5. KindAt(tree, real) = "link" => KindAt(u, real) = "link"
      BY <2>2, <3>3, GrownFacts
    <3>6. /\ KindAt(tree, Whole(tree))' = KindAt(u, Whole(u)) /\ KindAt(tree, Up(tree))' = KindAt(u, Up(u))
          /\ KindAt(tree, real)' = KindAt(u, real)
          /\ Up(tree)' = Up(u) /\ Join(Up(tree))' = Join(Up(u)) /\ Basename' = Basename
      BY <1>1, <1>2 DEF KindAt
    <3> QED
      BY <1>1, <3>1, <3>4, <3>5, <3>6 DEF Known
  <2>5. Agreement'
    BY <1>1, <1>2, <1>4, <2>3, <2>4 DEF AgreeInv, Agreement, Resolving
  <2> QED
    BY <2>1, <2>5
<1> QED
  BY <1>1, <1>3, <1>4

LEMMA OutsideAgrees ==
  ASSUME NEW p \in Locations, NEW e \in Placed, Outside(p, e) PROVE Agreement' /\ Agrees'
<1>1. moved' # {}
  BY DEF Outside
<1> QED
  BY <1>1 DEF Agreement, Agrees

\* The tools use the answer, and do not change it.
LEMMA ToolAgrees ==
  ASSUME AgreeInv, CheckKind \/ Read \/ Write PROVE Agreement' /\ Agrees'
<1>1. /\ pc \in {"checked", "open"} /\ pc' \in {"open", "failed", "done"}
      /\ UNCHANGED <<host, real, possible, moved>>
      /\ pc' = "open" => tree' = tree
  BY DEF CheckKind, Read, Write, Fail, Frame, Goto
<1>2. Agreement'
  BY <1>1 DEF AgreeInv, Agreement, Resolving, Asking
<1>3. pc' = "open" => (LinksTold' => LinksTold)
  BY <1>1 DEF LinksTold
<1> QED
  BY <1>1, <1>2, <1>3 DEF AgreeInv, Agrees

LEMMA StutterAgrees == ASSUME AgreeInv, UNCHANGED vars PROVE Agreement' /\ Agrees'
<1>1. UNCHANGED <<host, tree, op, input, pc, root, real, possible, moved>>
  BY DEF vars
<1>2. /\ Named(tree, root)' = Named(tree, root)
      /\ Whole(tree)' = Whole(tree) /\ Up(tree)' = Up(tree)
      /\ Basename' = Basename /\ Join(Up(tree))' = Join(Up(tree))
  BY <1>1, Kept
<1>3. /\ KindAt(tree, Whole(tree))' = KindAt(tree, Whole(tree))
      /\ KindAt(tree, Up(tree))' = KindAt(tree, Up(tree))
      /\ KindAt(tree, real)' = KindAt(tree, real)
  BY <1>1, <1>2 DEF KindAt
<1>4. Known => Known'
  BY <1>1, <1>2, <1>3 DEF Known
<1>5. (\E t \in Trees : Grown(t, tree))' <=> \E t \in Trees : Grown(t, tree)
  BY <1>1 DEF Grown
<1>6. Agreement'
  BY <1>1, <1>2, <1>4, <1>5 DEF AgreeInv, Agreement, Resolving
<1>7. LinksTold' => LinksTold
  BY <1>1 DEF LinksTold
<1> QED
  BY <1>1, <1>6, <1>7 DEF AgreeInv, Agrees

LEMMA AgreeInit == Init => AgreeInv
<1> SUFFICES ASSUME Init PROVE AgreeInv
  OBVIOUS
<1>1. Grown(tree, tree)
  BY DEF Grown
<1>2. Agreement /\ Agrees
  BY <1>1 DEF Init, Agreement, Agrees, Resolving, Asking
<1> QED
  BY <1>2, InitInv DEF AgreeInv

LEMMA AgreeStep == AgreeInv /\ [Next]_vars => AgreeInv'
<1> SUFFICES ASSUME AgreeInv, [Next]_vars PROVE AgreeInv'
  OBVIOUS
<1>1. IInv'
  BY StepInv DEF AgreeInv
<1>2. IsTree(tree')
  <2>1. IsTree(tree)'
    BY <1>1 DEF IInv, Types
  <2>2. IsTree(tree)' <=> IsTree(tree')
    BY DEF IsTree, KindAt
  <2> QED
    BY <2>1, <2>2
<1>3. Agreement' /\ Agrees'
  <2>1. CASE create
    BY <2>1, createAgrees
  <2>2. CASE resolve
    BY <2>2, resolveAgrees
  <2>3. CASE CheckSlash
    BY <2>3, CheckSlashAgrees
  <2>4. CASE CheckExists
    BY <2>4, CheckExistsAgrees
  <2>5. CASE RealInput
    BY <2>5, RealInputAgrees
  <2>6. CASE RealParent
    BY <2>6, RealParentAgrees
  <2>7. CASE CheckParent
    BY <2>7, CheckParentAgrees
  <2>8. CASE CheckLeaf
    BY <2>8, CheckLeafAgrees
  <2>9. CASE RealLeaf
    BY <2>9, RealLeafAgrees
  <2>10. CASE CheckKind \/ Read \/ Write
    BY <2>10, ToolAgrees
  <2>11. ASSUME NEW p \in Locations, OtherWrite(p) PROVE Agreement' /\ Agrees'
    BY <1>2, <2>11, OtherWriteAgrees
  <2>12. ASSUME NEW p \in Locations, NEW e \in Placed, Outside(p, e) PROVE Agreement' /\ Agrees'
    BY <2>12, OutsideAgrees
  <2>13. CASE UNCHANGED vars
    BY <2>13, StutterAgrees
  <2> QED
    BY <2>1, <2>2, <2>3, <2>4, <2>5, <2>6, <2>7, <2>8, <2>9, <2>10, <2>11, <2>12, <2>13 DEF Next
<1> QED
  BY <1>1, <1>3 DEF AgreeInv

\* While other programs leave the tree alone, `resolve` accepts what the input
\* names by the rules of POSIX at some moment of the call, if that is under the
\* root, and refuses only what at some moment names nothing there: for every tree
\* and every input, with any other calls that create files under the root between
\* its awaits, and with either kind of realpath(), except for trees whose links
\* hold dots on a host that folds them (LinksTold).
THEOREM TrueAnswer == Spec => []Agrees
<1>1. AgreeInv => Agrees
  BY DEF AgreeInv
<1> QED
  BY <1>1, AgreeInit, AgreeStep, PTL DEF Spec

--------------------------------------------------------------------------------
(* readFile, for every cap, chunk size, content and number of changes.     *)

\* Until the call ends it has no answer, and before the first read no bytes.
Pending ==
  /\ step # "done" => answer = "none"
  /\ step \in {"open", "stat"} => chunks = <<>>

\* The handle refers to the file that was named when it was opened.
Handle ==
  /\ step \in {"stat", "read"} => opened \in seen
  /\ step # "open" /\ same => opened = named
  /\ step = "open" => ~same /\ ~torn

\* What was read is how the open file begins, as long as it has only grown.
Begins ==
  step = "read" =>
    /\ Len(chunks) <= maxBytes
    /\ ~torn => /\ Len(chunks) <= Len(opened)
                /\ \A k \in 1 .. Len(chunks) : chunks[k] = opened[k]

ReadIInv == ReadTypeOK /\ Pending /\ Handle /\ Begins /\ ReadTrue

--------------------------------------------------------------------------------

LEMMA ReadInitInv == ReadInit => ReadIInv
<1> SUFFICES ASSUME ReadInit PROVE ReadIInv
  OBVIOUS
<1>1. /\ <<>> \in Seq(Byte) /\ Len(<<>>) = 0 /\ maxBytes \in Nat /\ MaxChanges \in Nat
      /\ named \in Seq(Byte)
  BY ConstantsAssumption DEF ReadInit
<1>2. ReadTypeOK
  <2>1. named \in Seq(Byte) /\ opened \in Seq(Byte) /\ chunks \in Seq(Byte)
    BY <1>1 DEF ReadInit
  <2>2. seen \subseteq Seq(Byte) /\ changes \in 0 .. MaxChanges
    BY <1>1 DEF ReadInit
  <2> QED BY <2>1, <2>2 DEF ReadInit, ReadTypeOK, Answers
<1>3. ReadTrue
  BY <1>1 DEF ReadInit, ReadTrue, limit
<1> QED BY <1>2, <1>3 DEF ReadInit, ReadIInv, Pending, Handle, Begins

LEMMA FailsInv == ReadIInv /\ Fails => ReadIInv'
  BY ConstantsAssumption DEF ReadIInv, ReadTypeOK, Pending, Handle, Begins, ReadTrue, Answers, limit,
                             Fails, End, FileFrame

LEMMA OpenInv == ReadIInv /\ Open => ReadIInv'
  BY ConstantsAssumption DEF ReadIInv, ReadTypeOK, Pending, Handle, Begins, ReadTrue, Answers, limit,
                             Open

LEMMA StatInv == ReadIInv /\ Stat => ReadIInv'
  BY ConstantsAssumption DEF ReadIInv, ReadTypeOK, Pending, Handle, Begins, ReadTrue, Answers, limit,
                             Stat, End, FileFrame

\* A chunk extends what was read with what the file has there.
LEMMA ChunkAppended ==
  ASSUME NEW b \in Seq(Byte), NEW c \in Seq(Byte), NEW n \in Nat,
         n <= Len(b) - Len(c)
  PROVE  LET d == c \o SubSeq(b, Len(c) + 1, Len(c) + n) IN
         /\ d \in Seq(Byte)
         /\ Len(d) = Len(c) + n
         /\ \A k \in 1 .. Len(c) : d[k] = c[k]
         /\ \A k \in Len(c) + 1 .. Len(c) + n : d[k] = b[k]
<1>1. Len(c) \in Nat /\ Len(b) \in Nat
  OBVIOUS
<1> DEFINE e == SubSeq(b, Len(c) + 1, Len(c) + n)
<1>2. e \in Seq(Byte) /\ Len(e) = n /\ \A k \in 1 .. n : e[k] = b[Len(c) + k]
  BY <1>1
<1> HIDE DEF e
<1>3. /\ c \o e \in Seq(Byte)
      /\ Len(c \o e) = Len(c) + n
      /\ \A k \in 1 .. Len(c) : (c \o e)[k] = c[k]
      /\ \A k \in Len(c) + 1 .. Len(c) + n : (c \o e)[k] = e[k - Len(c)]
  <2>1. /\ c \o e \in Seq(Byte)
        /\ Len(c \o e) = Len(c) + Len(e)
        /\ \A k \in 1 .. Len(c) + Len(e) :
             (c \o e)[k] = IF k <= Len(c) THEN c[k] ELSE e[k - Len(c)]
    BY <1>2, ConcatProperties
  <2> QED BY <2>1, <1>1, <1>2
<1>4. ASSUME NEW k \in Len(c) + 1 .. Len(c) + n
      PROVE  (c \o e)[k] = b[k]
  <2>1. k - Len(c) \in 1 .. n /\ Len(c) + (k - Len(c)) = k
    BY <1>1
  <2> QED BY <2>1, <1>2, <1>3
<1> QED BY <1>3, <1>4 DEF e

LEMMA ReadChunkInv == ReadIInv /\ ReadChunk => ReadIInv'
<1> SUFFICES ASSUME ReadIInv, ReadChunk PROVE ReadIInv'
  OBVIOUS
<1>1. PICK n \in 1 .. READ_CHUNK_BYTES :
        /\ n <= (maxBytes + 1) - Len(chunks) /\ n <= Len(opened) - Len(chunks)
        /\ chunks' = chunks \o SubSeq(opened, Len(chunks) + 1, Len(chunks) + n)
        /\ step' = IF Len(chunks) + n > maxBytes THEN "done" ELSE "read"
        /\ answer' = IF Len(chunks) + n > maxBytes THEN "too_large" ELSE "none"
  BY DEF ReadChunk, total, limit
<1>2. /\ maxBytes \in Nat /\ n \in Nat /\ n >= 1
      /\ chunks \in Seq(Byte) /\ opened \in Seq(Byte)
      /\ Len(chunks) \in Nat /\ Len(opened) \in Nat
  BY ConstantsAssumption DEF ReadIInv, ReadTypeOK
<1>3. /\ chunks' \in Seq(Byte)
      /\ Len(chunks') = Len(chunks) + n
      /\ \A k \in 1 .. Len(chunks) : chunks'[k] = chunks[k]
      /\ \A k \in Len(chunks) + 1 .. Len(chunks) + n : chunks'[k] = opened[k]
  BY <1>1, <1>2, ChunkAppended
<1>4. step = "read" /\ answer = "none" /\ opened \in seen /\ FileFrame
  BY DEF ReadIInv, Pending, Handle, ReadChunk
<1>5. ReadTypeOK'
  BY <1>1, <1>3, <1>4 DEF ReadIInv, ReadTypeOK, End, FileFrame, Answers
<1>6. Pending' /\ Handle'
  BY <1>1, <1>4 DEF ReadIInv, Pending, Handle, End, FileFrame
<1>7. Begins'
  <2>1. CASE Len(chunks) + n > maxBytes
    BY <2>1, <1>1 DEF End, Begins
  <2>2. CASE Len(chunks) + n <= maxBytes
    <3>1. ~torn => \A k \in 1 .. Len(chunks) + n : chunks'[k] = opened[k]
      <4> SUFFICES ASSUME ~torn, NEW k \in 1 .. Len(chunks) + n
                   PROVE  chunks'[k] = opened[k]
        OBVIOUS
      <4>1. CASE k \in 1 .. Len(chunks)
        BY <4>1, <1>3, <1>4 DEF ReadIInv, Begins
      <4>2. CASE k \in Len(chunks) + 1 .. Len(chunks) + n
        BY <4>2, <1>3
      <4> QED BY <4>1, <4>2, <1>2
    <3> QED BY <2>2, <3>1, <1>1, <1>2, <1>3, <1>4 DEF Begins, FileFrame
  <2> QED BY <2>1, <2>2, <1>2
<1>8. ReadTrue'
  <2>1. Len(chunks') <= maxBytes + 1
    BY <1>1, <1>2, <1>3
  <2>2. answer' = "none" \/ (answer' = "too_large" /\ Len(opened) > maxBytes)
    BY <1>1, <1>2, <1>4 DEF End
  <2> QED BY <2>1, <2>2, <1>4 DEF ReadTrue, limit, FileFrame
<1> QED BY <1>5, <1>6, <1>7, <1>8 DEF ReadIInv

LEMMA ReadEndInv == ReadIInv /\ ReadEnd => ReadIInv'
<1> SUFFICES ASSUME ReadIInv, ReadEnd PROVE ReadIInv'
  OBVIOUS
<1>1. /\ maxBytes \in Nat /\ chunks \in Seq(Byte) /\ opened \in Seq(Byte)
      /\ Len(chunks) \in Nat /\ Len(opened) \in Nat
  BY ConstantsAssumption DEF ReadIInv, ReadTypeOK
<1>2. /\ step = "read" /\ opened \in seen /\ FileFrame /\ chunks' = chunks
      /\ Len(chunks) >= Len(opened) /\ Len(chunks) <= maxBytes
      /\ step' = "done" /\ answer' = IF IsText(chunks) THEN "ok" ELSE "not_text"
  BY DEF ReadIInv, Handle, Begins, ReadEnd, End, total
<1>3. torn \/ chunks = opened
  <2>1. ~torn => /\ Len(chunks) = Len(opened)
                 /\ \A k \in 1 .. Len(chunks) : chunks[k] = opened[k]
    BY <1>1, <1>2 DEF ReadIInv, Begins
  <2> QED BY <2>1, <1>1, SeqEqual
<1>4. ReadTypeOK' /\ Pending' /\ Handle' /\ Begins'
  BY <1>2 DEF ReadIInv, ReadTypeOK, Pending, Handle, Begins, FileFrame, Answers
<1>5. ReadTrue'
  <2>1. chunks' = chunks /\ seen' = seen /\ torn' = torn /\ (IsText(chunks))' = IsText(chunks)
    BY <1>2 DEF FileFrame, IsText
  <2>2. CASE IsText(chunks)
    BY <2>1, <2>2, <1>1, <1>2, <1>3 DEF ReadTrue, limit
  <2>3. CASE ~IsText(chunks)
    BY <2>1, <2>3, <1>1, <1>2, <1>3 DEF ReadTrue, limit
  <2> QED BY <2>2, <2>3
<1> QED BY <1>4, <1>5 DEF ReadIInv

\* Until the call ends, what others do reaches it only through the open file.
LEMMA ChangeInv ==
  ASSUME ReadIInv, Change, named' \in Seq(Byte), opened' \in Seq(Byte), same' \in BOOLEAN,
         torn' \in BOOLEAN, seen' \subseteq Seq(Byte),
         step # "open" => opened' \in seen', same' => same /\ opened' = named',
         step = "open" => ~torn',
         torn => torn',
         ~torn' => /\ Len(opened) <= Len(opened')
                   /\ \A k \in 1 .. Len(opened) : opened'[k] = opened[k]
  PROVE  ReadIInv'
<1>1. step # "done" /\ answer = "none" /\ UNCHANGED <<step, chunks, answer>>
  BY DEF ReadIInv, Pending, Change
<1>2. /\ Len(chunks) \in Nat /\ Len(opened) \in Nat /\ Len(opened') \in Nat
      /\ maxBytes \in Nat
  BY ConstantsAssumption DEF ReadIInv, ReadTypeOK
<1>3. ReadTypeOK'
  BY <1>1, ConstantsAssumption DEF ReadIInv, ReadTypeOK, Change
<1>4. Pending' /\ Handle'
  BY <1>1 DEF ReadIInv, Pending, Handle
<1>5. Begins'
  BY <1>1, <1>2 DEF ReadIInv, Begins
<1>6. ReadTrue'
  BY <1>1 DEF ReadIInv, ReadTrue, limit
<1> QED BY <1>3, <1>4, <1>5, <1>6 DEF ReadIInv

LEMMA ReplaceInv == ReadIInv /\ Replace => ReadIInv'
<1> SUFFICES ASSUME ReadIInv, Replace PROVE ReadIInv'
  OBVIOUS
<1>1. named' \in Seq(Byte) /\ ~same' /\ UNCHANGED <<opened, seen, torn>> /\ Change
  BY ConstantsAssumption DEF Replace
<1>2. /\ opened \in Seq(Byte) /\ torn \in BOOLEAN /\ seen \subseteq Seq(Byte) /\ same' = FALSE
      /\ step # "done"
  BY DEF ReadIInv, ReadTypeOK, Replace, Change
<1>3. (step # "open" => opened \in seen) /\ (step = "open" => ~torn)
  BY <1>2 DEF ReadIInv, ReadTypeOK, Handle
<1>4. Len(opened) <= Len(opened') /\ \A k \in 1 .. Len(opened) : opened'[k] = opened[k]
  BY <1>1, <1>2
<1> QED BY <1>1, <1>2, <1>3, <1>4, ChangeInv

LEMMA GrowInv == ReadIInv /\ Grow => ReadIInv'
<1> SUFFICES ASSUME ReadIInv, Grow PROVE ReadIInv'
  OBVIOUS
<1>1. PICK b \in Seq(Byte) : InPlace(named \o b)
  BY ConstantsAssumption DEF Grow
<1>2. /\ named \in Seq(Byte) /\ opened \in Seq(Byte)
      /\ named \o b \in Seq(Byte) /\ Len(named \o b) = Len(named) + Len(b)
      /\ Len(named) \in Nat /\ Len(b) \in Nat
      /\ \A k \in 1 .. Len(named) : (named \o b)[k] = named[k]
  BY <1>1 DEF ReadIInv, ReadTypeOK
<1>3. Change /\ torn' = torn
  BY DEF Grow
<1>4. step = "open" => ~same
  BY DEF ReadIInv, Handle
<1>5. CASE same
  <2>1. opened = named
    BY <1>4, <1>5 DEF ReadIInv, Handle
  <2>2. named' = named \o b /\ opened' = named \o b /\ seen' = seen \cup {named \o b} /\ same' = same
    BY <1>1, <1>5 DEF InPlace
  <2>3. Len(opened) <= Len(opened') /\ \A k \in 1 .. Len(opened) : opened'[k] = opened[k]
    BY <1>2, <2>1, <2>2
  <2> QED BY <1>2, <1>3, <1>4, <1>5, <2>2, <2>3, ChangeInv DEF ReadIInv, ReadTypeOK, Handle
<1>6. CASE ~same
  <2>1. named' = named \o b /\ opened' = opened /\ seen' = seen /\ ~same'
    BY <1>1, <1>6 DEF InPlace
  <2>2. /\ torn \in BOOLEAN /\ seen \subseteq Seq(Byte) /\ same' = FALSE
        /\ step # "done"
    BY <1>6, <2>1, <1>1 DEF ReadIInv, ReadTypeOK, InPlace, Grow, Change
  <2>3. (step # "open" => opened \in seen) /\ (step = "open" => ~torn)
    BY <2>2 DEF ReadIInv, ReadTypeOK, Handle
  <2>4. Len(opened) <= Len(opened') /\ \A k \in 1 .. Len(opened) : opened'[k] = opened[k]
    BY <1>2, <2>1
  <2> QED BY <1>2, <1>3, <2>1, <2>2, <2>3, <2>4, ChangeInv
<1> QED BY <1>5, <1>6

LEMMA OverwriteInv == ReadIInv /\ Overwrite => ReadIInv'
<1> SUFFICES ASSUME ReadIInv, Overwrite PROVE ReadIInv'
  OBVIOUS
<1>1. PICK b \in Seq(Byte) : InPlace(b)
  BY ConstantsAssumption DEF Overwrite
<1>2. Change /\ torn' = (torn \/ same)
  BY DEF Overwrite
<1>3. CASE same
  BY <1>1, <1>2, <1>3, ChangeInv DEF ReadIInv, ReadTypeOK, Handle, InPlace
<1>4. CASE ~same
  BY <1>1, <1>2, <1>4, ChangeInv DEF ReadIInv, ReadTypeOK, Handle, InPlace, Change
<1> QED BY <1>3, <1>4

LEMMA ReadStepInv == ReadIInv /\ [ReadNext]_readVars => ReadIInv'
<1> SUFFICES ASSUME ReadIInv, [ReadNext]_readVars PROVE ReadIInv'
  OBVIOUS
<1>1. CASE UNCHANGED readVars
  BY <1>1 DEF ReadIInv, ReadTypeOK, Pending, Handle, Begins, ReadTrue, limit, IsText, readVars
<1>2. CASE ReadNext
  BY <1>2, OpenInv, StatInv, ReadChunkInv, ReadEndInv, FailsInv, ReplaceInv, GrowInv, OverwriteInv
     DEF ReadNext
<1> QED BY <1>1, <1>2

\* Every variable of a read keeps its type.
THEOREM ReadTypeCorrect == ReadSpec => []ReadTypeOK
<1>1. ReadIInv => ReadTypeOK
  BY DEF ReadIInv
<1> QED BY <1>1, ReadInitInv, ReadStepInv, PTL DEF ReadSpec

\* What read_file answers is true of the file at one moment of the call, whoever
\* replaces or extends it meanwhile, and never longer than the cap.
THEOREM TrueRead == ReadSpec => []ReadTrue
<1>1. ReadIInv => ReadTrue
  BY DEF ReadIInv
<1> QED BY <1>1, ReadInitInv, ReadStepInv, PTL DEF ReadSpec
================================================================================
