----------------------------- MODULE PgSessionProofs -----------------------------
(***************************************************************************)
(* A call of postgres-readonly pins its session before the user's SQL,     *)
(* answers with the rows of the query and keeps to its bounds, for every   *)
(* table, every limit, every chunking and every failure.                   *)
(***************************************************************************)
EXTENDS PgSession, SequenceTheorems, WellFoundedInduction, TLAPS

Row     == [kind : {"row"}, bytes : RowBytes]
Endings == {Ready, Capped, Failure(0), Failure(messageLimit + 1)}

\* The rows that a statement is to send, when nothing stops it.
Wanted(c, st) ==
  CASE st = "FETCH"  -> First(FetchCount, c.rows)
    [] st = "SELECT" -> First(Limit(c.requested), c.rows)
    [] st \in {"EXPLAIN", "tables", "columns"} -> c.rows
    [] OTHER -> <<>>

\* Why a reply ends with e after the first n of them.
Ends(c, st, n, e) ==
  /\ st # "EXPLAIN" => Sum(First(n, Wanted(c, st))) <= maxResultBytes
  /\ \/ e = Ready /\ n = Len(Wanted(c, st))
     \/ e = Capped /\ st # "EXPLAIN" /\ Sum(Wanted(c, st)) > maxResultBytes
     \/ e = Failure(0)
     \/ e = Failure(messageLimit + 1) /\ c.error = "huge"

\* Where the connection is in each phase.
Stages ==
  /\ phase \in {"idle", "connecting"} =>
       /\ step = 0 /\ got = <<>> /\ wire = <<>> /\ ~refused
       /\ request = None /\ running = None /\ answer = None
  /\ phase = "idle" => sock = "none" /\ backend = "none"
  /\ phase = "connecting" => sock = "connecting"
  /\ phase = "running" =>
       /\ step > 0 /\ sock = "open" /\ ~refused /\ answer = None
       /\ limited <=> Script[step] = "EXPLAIN"
  /\ backend = "busy" <=> running # None

\* What is sent or executed is the statement that is awaited, or was.
InStep ==
  /\ request \notin {None, "Terminate"} => step > 0 /\ request = Script[step]
  /\ running # None => step > 0 /\ running = Script[step] /\ (phase = "running" => request = None)

\* Every setting before the statement that is awaited is in force.
PinnedSoFar == \A i \in 1..(step - 1) : Script[i] \in Settings => Script[i] \in pins

\* The rows of the tool's query are kept once it resolved, whole.
KeptWhole ==
  phase = "running" =>
    \A i \in 1..(step - 1) : Script[i] \in Main =>
      kept = Wanted(call, Script[i]) /\ Sum(kept) <= maxResultBytes

\* What is parsed, g, and what is on the wire, w, are one reply of n rows that
\* ends with e, and the last words of the backend when it died behind it.
OneReply(c, st, n, e, died, g, w) ==
  /\ Ends(c, st, n, e)
  /\ Len(g) <= n /\ g = First(Len(g), Wanted(c, st))
  /\ Len(w) = n - Len(g) + 1 + died
  /\ \A i \in 1..(n - Len(g)) : w[i] = Wanted(c, st)[Len(g) + i]
  /\ w[n - Len(g) + 1] = e
  /\ died = 1 => w[Len(w)] = Failure(0)

Exchange ==
  phase = "running" =>
    \/ got = <<>> /\ wire = <<>>
    \/ /\ running = None /\ (request = None \/ backend = "gone")
       /\ \E n \in 0..Len(Wanted(call, Script[step])), e \in Endings, died \in {0, 1} :
            /\ OneReply(call, Script[step], n, e, died, got, wire)
            /\ e = Ready /\ Script[step] \in Settings => Script[step] \in pins
            /\ died = 1 => backend = "gone"

\* A header was read ahead of its message only while a reply is awaited, and was
\* not refused.
Reading == begun => phase = "running" /\ wire # <<>> /\ ~TooLong(wire[1])

IInv ==
  /\ TypeOK /\ Stages /\ InStep /\ PinnedSoFar /\ KeptWhole /\ Exchange /\ Reading
  /\ AnswerTrue /\ AnswerBounded

--------------------------------------------------------------------------------
(* Induction: every set of naturals that is not empty has a least element. *)

LEMMA LeastElement ==
  ASSUME NEW T, T \subseteq Nat, T # {}
  PROVE  \E x \in T : \A y \in T : x <= y
<1> DEFINE R == {ss \in Nat \X Nat : ss[1] < ss[2]}
<1>1. R = OpToRel(<, Nat)
  BY DEF OpToRel
<1>2. IsWellFoundedOn(R, Nat)
  BY <1>1, NatLessThanWellFounded
<1>3. PICK x \in T : \A y \in T : ~(<<y, x>> \in R)
  <2> HIDE DEF R
  <2> QED
    BY <1>2, WFMin
<1>4. ASSUME NEW y \in T PROVE x <= y
  <2>1. x \in Nat /\ y \in Nat
    OBVIOUS
  <2>2. <<y, x>> \in R <=> y < x
    BY <2>1
  <2>3. ~(y < x)
    <3> HIDE DEF R
    <3> QED
      BY <1>3, <2>2
  <2> QED
    BY <2>1, <2>3
<1> QED
  BY <1>4

\* A set of naturals that holds n + 1 whenever it holds all up to n, and 0, is Nat;
\* here for the naturals up to a bound.
LEMMA UpToInduction ==
  ASSUME NEW N \in Nat, NEW S, 0 \in S,
         \A n \in 0..(N - 1) : n \in S => n + 1 \in S
  PROVE  \A n \in 0..N : n \in S
<1> DEFINE T == {n \in 0..N : n \notin S}
<1> SUFFICES ASSUME T # {} PROVE FALSE
  OBVIOUS
<1>1. PICK x \in T : \A y \in T : x <= y
  <2>1. T \subseteq Nat
    OBVIOUS
  <2> HIDE DEF T
  <2> QED
    BY <2>1, LeastElement
<1>2. x \in 0..N /\ x \notin S /\ x # 0
  OBVIOUS
<1>3. x - 1 \in 0..(N - 1) /\ x - 1 \notin T
  BY <1>1, <1>2
<1>4. x - 1 \in S
  BY <1>3
<1>5. (x - 1) + 1 \in S
  BY <1>3, <1>4
<1> QED
  BY <1>2, <1>5

--------------------------------------------------------------------------------
(* The sum of a sequence.                                                  *)

\* f[i] is the sum of the first i messages of s.
Sums(f, s) ==
  /\ f[0] = 0
  /\ \A i \in 1..Len(s) : f[i] = f[i - 1] + s[i].bytes

\* A sequence of messages.
Messages(s) == Len(s) \in Nat /\ \A i \in 1..Len(s) : s[i].bytes \in Nat

LEMMA SumsExist ==
  ASSUME NEW s, Messages(s)
  PROVE  \E f \in [0..Len(s) -> Nat] : Sums(f, s)
<1> DEFINE N == Len(s)
           Partial(f, n) == /\ f[0] = 0
                            /\ \A i \in 1..n : f[i] = f[i - 1] + s[i].bytes
           S == {n \in 0..N : \E f \in [0..N -> Nat] : Partial(f, n)}
<1>1. N \in Nat
  BY DEF Messages
<1>2. 0 \in S
  <2> DEFINE zero == [i \in 0..N |-> 0]
  <2>1. zero \in [0..N -> Nat] /\ Partial(zero, 0)
    BY <1>1
  <2> HIDE DEF zero, Partial
  <2> QED
    BY <1>1, <2>1
<1>3. ASSUME NEW n \in 0..(N - 1), n \in S PROVE n + 1 \in S
  <2>1. PICK f \in [0..N -> Nat] : Partial(f, n)
    BY <1>3
  <2> DEFINE g == [f EXCEPT ![n + 1] = f[n] + s[n + 1].bytes]
  <2>2. n + 1 \in 1..N /\ s[n + 1].bytes \in Nat /\ n \in 0..N
    BY <1>1 DEF Messages
  <2>3. g \in [0..N -> Nat]
    BY <2>1, <2>2
  <2>4. g[0] = 0
    BY <1>1, <2>1, <2>2
  <2>5. ASSUME NEW i \in 1..(n + 1) PROVE g[i] = g[i - 1] + s[i].bytes
    <3>1. CASE i = n + 1
      BY <1>1, <2>2, <3>1
    <3>2. CASE i \in 1..n
      BY <1>1, <2>1, <2>2, <3>2
    <3> QED
      BY <1>1, <2>2, <3>1, <3>2
  <2>6. Partial(g, n + 1)
    BY <2>4, <2>5
  <2> HIDE DEF g, Partial
  <2> QED
    BY <2>2, <2>3, <2>6
<1>4. N \in S
  <2> HIDE DEF S, N
  <2>1. \A n \in 0..N : n \in S
    BY <1>1, <1>2, <1>3, UpToInduction
  <2> QED
    BY <1>1, <2>1
<1>5. PICK f \in [0..N -> Nat] : Partial(f, N)
  BY <1>4
<1> QED
  BY <1>5 DEF Sums

\* Two functions that sum sequences which agree, agree as far.
LEMMA SumsAgree ==
  ASSUME NEW s, NEW t, Messages(s), Messages(t), NEW f, NEW g, Sums(f, s), Sums(g, t),
         NEW m \in 0..Len(s), m <= Len(t), \A i \in 1..m : s[i].bytes = t[i].bytes
  PROVE  \A i \in 0..m : f[i] = g[i]
<1> DEFINE S == {i \in 0..m : f[i] = g[i]}
<1>1. m \in Nat /\ Len(s) \in Nat /\ Len(t) \in Nat
  BY DEF Messages
<1>2. 0 \in S
  BY <1>1 DEF Sums
<1>3. ASSUME NEW i \in 0..(m - 1), i \in S PROVE i + 1 \in S
  <2>1. i + 1 \in 1..m /\ i + 1 \in 1..Len(s) /\ i + 1 \in 1..Len(t) /\ (i + 1) - 1 = i
    BY <1>1
  <2>2. f[i + 1] = f[i] + s[i + 1].bytes /\ g[i + 1] = g[i] + t[i + 1].bytes
    BY <2>1 DEF Sums
  <2> QED
    BY <1>3, <2>1, <2>2
<1> HIDE DEF S
<1>4. \A i \in 0..m : i \in S
  BY <1>1, <1>2, <1>3, UpToInduction
<1> QED
  BY <1>4 DEF S

\* Sum(s) is the last of the sums.
LEMMA SumIsLast ==
  ASSUME NEW s, Messages(s), NEW f \in [0..Len(s) -> Nat], Sums(f, s)
  PROVE  Sum(s) = f[Len(s)]
<1> DEFINE Def(total) ==
      total = [n \in 0..Len(s) |-> IF n = 0 THEN 0 ELSE total[n - 1] + s[n].bytes]
           g == CHOOSE total : Def(total)
<1>0. Len(s) \in Nat
  BY DEF Messages
<1>1. Def(f)
  <2>1. ASSUME NEW n \in 0..Len(s)
        PROVE  f[n] = IF n = 0 THEN 0 ELSE f[n - 1] + s[n].bytes
    <3>1. CASE n = 0
      BY <3>1 DEF Sums
    <3>2. CASE n # 0
      <4>1. n \in 1..Len(s)
        BY <1>0, <3>2
      <4>2. f[n] = f[n - 1] + s[n].bytes
        BY <4>1 DEF Sums
      <4> QED
        BY <3>2, <4>2
    <3> QED
      BY <3>1, <3>2
  <2> QED
    BY <2>1
<1>2. Def(g)
  <2> HIDE DEF Def
  <2> QED
    BY <1>1
<1>3. Sum(s) = g[Len(s)]
  BY DEF Sum
<1> HIDE DEF g
<1>4. Sums(g, s)
  <2>1. \A n \in 0..Len(s) : g[n] = IF n = 0 THEN 0 ELSE g[n - 1] + s[n].bytes
    BY <1>2
  <2>2. 0 \in 0..Len(s) /\ \A n \in 1..Len(s) : n \in 0..Len(s) /\ n # 0
    BY <1>0
  <2> HIDE DEF Def
  <2> QED
    BY <2>1, <2>2 DEF Sums
<1>5. g[Len(s)] = f[Len(s)]
  BY <1>0, <1>4, SumsAgree
<1> QED
  BY <1>3, <1>5

\* Sums never fall.
LEMMA SumsRise ==
  ASSUME NEW s, Messages(s), NEW f \in [0..Len(s) -> Nat], Sums(f, s),
         NEW m \in 0..Len(s)
  PROVE  \A d \in 0..(Len(s) - m) : f[m] <= f[m + d]
<1> DEFINE S == {d \in 0..(Len(s) - m) : f[m] <= f[m + d]}
<1>1. Len(s) \in Nat /\ m \in Nat /\ Len(s) - m \in Nat
  BY DEF Messages
<1>2. 0 \in S
  BY <1>1
<1>3. ASSUME NEW d \in 0..((Len(s) - m) - 1), d \in S PROVE d + 1 \in S
  <2>1. /\ m + d \in 0..Len(s) /\ m + (d + 1) \in 1..Len(s) /\ (m + (d + 1)) - 1 = m + d
        /\ d + 1 \in 0..(Len(s) - m)
    BY <1>1
  <2>2. f[m + (d + 1)] = f[m + d] + s[m + (d + 1)].bytes /\ s[m + (d + 1)].bytes \in Nat
    BY <2>1 DEF Sums, Messages
  <2>3. f[m] \in Nat /\ f[m + d] \in Nat
    BY <2>1
  <2> QED
    BY <1>3, <2>1, <2>2, <2>3
<1> HIDE DEF S
<1>4. \A d \in 0..(Len(s) - m) : d \in S
  BY <1>1, <1>2, <1>3, UpToInduction
<1> QED
  BY <1>4 DEF S

\* What is used of sums: an empty one is 0, a sum is a natural, and no part of a
\* sequence, nor any message of it, is more than the whole.
LEMMA SumEmpty == Sum(<<>>) = 0
<1>1. Messages(<<>>) /\ Len(<<>>) = 0
  BY DEF Messages
<1>2. PICK f \in [0..Len(<<>>) -> Nat] : Sums(f, <<>>)
  BY <1>1, SumsExist
<1> QED
  BY <1>1, <1>2, SumIsLast DEF Sums

LEMMA SumFacts ==
  ASSUME NEW s, Messages(s)
  PROVE  /\ Sum(s) \in Nat
         /\ \A i \in 1..Len(s) : s[i].bytes <= Sum(s)
<1>0. Len(s) \in Nat
  BY DEF Messages
<1>1. PICK f \in [0..Len(s) -> Nat] : Sums(f, s)
  BY SumsExist
<1>2. Sum(s) = f[Len(s)]
  BY <1>1, SumIsLast
<1>3. ASSUME NEW i \in 1..Len(s) PROVE s[i].bytes <= Sum(s)
  <2>1. /\ i \in 0..Len(s) /\ i - 1 \in 0..Len(s) /\ Len(s) - i \in 0..(Len(s) - i)
        /\ i + (Len(s) - i) = Len(s)
    BY <1>0
  <2>2. f[i] <= f[i + (Len(s) - i)]
    BY <1>1, <2>1, SumsRise
  <2>3. f[i] = f[i - 1] + s[i].bytes /\ s[i].bytes \in Nat
    BY <1>1 DEF Sums, Messages
  <2>4. f[i] \in Nat /\ f[i - 1] \in Nat /\ f[Len(s)] \in Nat
    BY <1>0, <2>1
  <2> QED
    BY <1>2, <2>1, <2>2, <2>3, <2>4
<1> QED
  BY <1>0, <1>2, <1>3

LEMMA SumPart ==
  ASSUME NEW s, NEW t, Messages(s), Messages(t), Len(t) <= Len(s),
         \A i \in 1..Len(t) : t[i].bytes = s[i].bytes
  PROVE  Sum(t) <= Sum(s)
<1>0. Len(s) \in Nat /\ Len(t) \in Nat /\ Len(t) \in 0..Len(s)
  BY DEF Messages
<1>1. PICK f \in [0..Len(s) -> Nat] : Sums(f, s)
  BY SumsExist
<1>2. PICK g \in [0..Len(t) -> Nat] : Sums(g, t)
  BY SumsExist
<1>3. Sum(s) = f[Len(s)] /\ Sum(t) = g[Len(t)]
  BY <1>1, <1>2, SumIsLast
<1>4. f[Len(t)] = g[Len(t)]
  <2>1. \A i \in 0..Len(t) : g[i] = f[i]
    BY <1>0, <1>1, <1>2, SumsAgree
  <2> QED
    BY <1>0, <2>1
<1>5. f[Len(t)] <= f[Len(t) + (Len(s) - Len(t))]
  BY <1>0, <1>1, SumsRise
<1> QED
  BY <1>0, <1>3, <1>4, <1>5

--------------------------------------------------------------------------------
(* Sequences of rows.                                                      *)

LEMMA RowsFacts ==
  /\ \A s : s \in Rows <=> s \in Seq(Row) /\ Len(s) <= MaxResult
  /\ \A s \in Seq(Row) : Messages(s)
<1>1. ASSUME NEW s, s \in Rows PROVE s \in Seq(Row) /\ Len(s) <= MaxResult
  <2>1. PICK m \in 0..MaxResult : s \in [1..m -> Row]
    BY <1>1 DEF Rows, BoundedSeq, SeqOf, Row
  <2>2. m \in Nat
    BY ConstantsAssumption
  <2>3. s \in Seq(Row) /\ Len(s) = m
    BY <2>1, <2>2, IsASeq
  <2> QED
    BY <2>3, ConstantsAssumption
<1>2. ASSUME NEW s \in Seq(Row), Len(s) <= MaxResult PROVE s \in Rows
  <2>1. Len(s) \in 0..MaxResult /\ s \in [1..Len(s) -> Row]
    BY <1>2, ConstantsAssumption, LenProperties
  <2> QED
    BY <2>1 DEF Rows, BoundedSeq, SeqOf, Row
<1>3. ASSUME NEW s \in Seq(Row) PROVE Messages(s)
  <2>1. ASSUME NEW i \in 1..Len(s) PROVE s[i].bytes \in Nat
    <3>1. s[i] \in Row
      BY ElementOfSeq
    <3> QED
      BY <3>1, ConstantsAssumption DEF Row
  <2> QED
    BY <2>1 DEF Messages
<1> QED
  BY <1>1, <1>2, <1>3

LEMMA SumOfRows ==
  ASSUME NEW s \in Seq(Row)
  PROVE  Sum(s) \in Nat
  BY RowsFacts, SumFacts

LEMMA NoRows == <<>> \in Rows
<1>1. <<>> \in Seq(Row) /\ Len(<<>>) <= MaxResult
  BY ConstantsAssumption
<1> QED
  BY <1>1, RowsFacts

LEMMA FirstFacts ==
  ASSUME NEW S, NEW s \in Seq(S), NEW n \in Nat
  PROVE  /\ First(n, s) \in Seq(S)
         /\ Len(First(n, s)) = Least(n, Len(s))
         /\ Least(n, Len(s)) \in Nat /\ Least(n, Len(s)) <= n /\ Least(n, Len(s)) <= Len(s)
         /\ \A i \in 1..Least(n, Len(s)) : First(n, s)[i] = s[i]
         /\ n >= Len(s) => First(n, s) = s
<1>1. Len(s) \in Nat
  OBVIOUS
<1>2. Least(n, Len(s)) \in 0..Len(s) /\ Least(n, Len(s)) <= n
  BY <1>1 DEF Least
<1>3. /\ First(n, s) \in Seq(S) /\ Len(First(n, s)) = Least(n, Len(s))
      /\ \A i \in 1..Least(n, Len(s)) : First(n, s)[i] = s[i]
  BY <1>1, <1>2 DEF First
<1>4. n >= Len(s) => First(n, s) = s
  <2> SUFFICES ASSUME n >= Len(s) PROVE First(n, s) = s
    OBVIOUS
  <2>1. Least(n, Len(s)) = Len(s)
    BY <1>1 DEF Least
  <2> QED
    BY <1>3, <2>1, SeqEqual
<1> QED
  BY <1>1, <1>2, <1>3, <1>4

LEMMA FirstLength ==
  ASSUME NEW s \in Seq(Row), NEW n \in Nat
  PROVE  Len(First(n, s)) \in Nat /\ Len(First(n, s)) <= n
  BY FirstFacts

LEMMA FirstIsRows ==
  ASSUME NEW s \in Rows, NEW n \in Nat
  PROVE  First(n, s) \in Seq(Row) /\ First(n, s) \in Rows
<1>1. s \in Seq(Row) /\ Len(s) <= MaxResult
  BY RowsFacts
<1>2. First(n, s) \in Seq(Row) /\ Len(First(n, s)) <= Len(s)
  BY <1>1, FirstFacts
<1>3. Len(First(n, s)) \in Nat /\ Len(s) \in Nat
  BY <1>1, <1>2
<1>4. Len(First(n, s)) <= MaxResult
  BY <1>1, <1>2, <1>3, ConstantsAssumption
<1> QED
  BY <1>2, <1>4, RowsFacts

\* Rows of a part of a table are rows, and weigh no more.
LEMMA FirstRows ==
  ASSUME NEW s \in Seq(Row), NEW n \in Nat, NEW m \in Nat, m <= n
  PROVE  Sum(First(m, s)) <= Sum(First(n, s)) /\ Sum(First(n, s)) <= Sum(s)
<1>1. /\ First(m, s) \in Seq(Row) /\ Len(First(m, s)) = Least(m, Len(s))
      /\ First(n, s) \in Seq(Row) /\ Len(First(n, s)) = Least(n, Len(s))
  BY FirstFacts
<1>2. Messages(First(m, s)) /\ Messages(First(n, s)) /\ Messages(s)
  BY <1>1, RowsFacts
<1>3. Least(m, Len(s)) <= Least(n, Len(s)) /\ Least(n, Len(s)) <= Len(s)
  BY DEF Least
<1>4. \A i \in 1..Least(m, Len(s)) : First(m, s)[i] = s[i] /\ First(n, s)[i] = s[i]
  <2>1. \A i \in 1..Least(m, Len(s)) : i \in 1..Least(n, Len(s))
    BY DEF Least
  <2> QED
    BY <2>1, FirstFacts
<1>5. \A i \in 1..Least(n, Len(s)) : First(n, s)[i] = s[i]
  BY FirstFacts
<1>6. Sum(First(m, s)) <= Sum(First(n, s))
  BY <1>1, <1>2, <1>3, <1>4, SumPart
<1>7. Sum(First(n, s)) <= Sum(s)
  BY <1>1, <1>2, <1>3, <1>5, SumPart
<1> QED
  BY <1>6, <1>7

LEMMA FirstOfFirst ==
  ASSUME NEW s \in Seq(Row), NEW n \in Nat, NEW m \in Nat, m <= n
  PROVE  First(m, First(n, s)) = First(m, s)
<1>1. First(n, s) \in Seq(Row) /\ Len(First(n, s)) = Least(n, Len(s))
  BY FirstFacts
<1>2. Least(m, Least(n, Len(s))) = Least(m, Len(s))
  BY DEF Least
<1>3. /\ First(m, First(n, s)) \in Seq(Row) /\ Len(First(m, First(n, s))) = Least(m, Len(s))
      /\ First(m, s) \in Seq(Row) /\ Len(First(m, s)) = Least(m, Len(s))
  BY <1>1, <1>2, FirstFacts
<1>4. ASSUME NEW i \in 1..Least(m, Len(s)) PROVE First(m, First(n, s))[i] = First(m, s)[i]
  <2>1. i \in 1..Least(n, Len(s))
    BY DEF Least
  <2> QED
    BY <1>1, <1>2, <2>1, FirstFacts
<1> QED
  BY <1>3, <1>4, SeqEqual

--------------------------------------------------------------------------------
(* The script of a call.                                                   *)

\* The statement whose rows are the tool's, and its place.
MainOf == [run_select |-> "FETCH", explain |-> "EXPLAIN", sample_rows |-> "SELECT",
           describe_schema |-> "columns"]
MainAt == CASE call.tool = "run_select"      -> 10
            [] call.tool = "describe_schema" -> 9
            [] OTHER                         -> 8

LEMMA CallFacts ==
  ASSUME call \in Calls
  PROVE  /\ call.tool \in {"run_select", "explain", "sample_rows", "describe_schema"}
         /\ call.rows \in Seq(Row) /\ call.rows \in Rows /\ Len(call.rows) \in Nat
         /\ call.error \in {"none", "small", "huge"}
         /\ call.arrays \in BOOLEAN /\ call.dups \in BOOLEAN
         /\ call.requested \in Nat \ {0}
         /\ call.width \in {1, 6}
         /\ call.tool = "describe_schema" => ~call.arrays
         /\ call.tool # "run_select" => ~call.dups
         /\ call.tool # "describe_schema" => call.width = 1
<1>1. DOMAIN Body = {"run_select", "explain", "sample_rows", "describe_schema"}
  BY DEF Body
<1>2. /\ call.tool \in DOMAIN Body /\ call.rows \in Rows
      /\ call.error \in {"none", "small", "huge"} /\ call.arrays \in BOOLEAN
      /\ call.dups \in BOOLEAN /\ call.requested \in Requested /\ call.width \in {1, 6}
      /\ call.tool = "describe_schema" => ~call.arrays
      /\ call.tool # "run_select" => ~call.dups
      /\ call.tool # "describe_schema" => call.width = 1
  BY DEF Calls
<1>3. call.rows \in Seq(Row) /\ Len(call.rows) \in Nat
  BY <1>2, RowsFacts
<1> QED
  BY <1>1, <1>2, <1>3, ConstantsAssumption

LEMMA ScriptIs ==
  ASSUME call \in Calls
  PROVE  LET body == Body[call.tool]
         IN  /\ Len(Script) = 7 + Len(body) + (IF call.arrays THEN 1 ELSE 0)
             /\ \A i \in 1..7 : Script[i] = Pins[i]
             /\ \A i \in 1..Len(body) : Script[7 + i] = body[i]
             /\ call.arrays => Script[Len(Script)] = "types"
<1> DEFINE body == Body[call.tool]
           last == IF call.arrays THEN <<"types">> ELSE <<>>
           pins7 == Pins
<1>1. pins7 \in Seq(Statements) /\ Len(pins7) = 7
  BY DEF Pins, Statements, Settings
<1>2. body \in Seq(Statements) /\ Len(body) \in Nat
  <2>1. call.tool \in {"run_select", "explain", "sample_rows", "describe_schema"}
    BY CallFacts
  <2>2. CASE call.tool = "run_select"
    <3>1. body = <<"BEGIN", "DECLARE", "FETCH", "COMMIT">>
      BY <2>2 DEF Body
    <3> QED
      BY <3>1 DEF Statements, UserSQL
  <2>3. CASE call.tool = "explain"
    <3>1. body = <<"EXPLAIN">>
      BY <2>3 DEF Body
    <3> QED
      BY <3>1 DEF Statements, UserSQL
  <2>4. CASE call.tool = "sample_rows"
    <3>1. body = <<"SELECT">>
      BY <2>4 DEF Body
    <3> QED
      BY <3>1 DEF Statements, UserSQL
  <2>5. CASE call.tool = "describe_schema"
    <3>1. body = <<"tables", "columns">>
      BY <2>5 DEF Body
    <3> QED
      BY <3>1 DEF Statements, UserSQL
  <2> QED
    BY <2>1, <2>2, <2>3, <2>4, <2>5
<1>3. last \in Seq(Statements) /\ Len(last) = (IF call.arrays THEN 1 ELSE 0)
  <2>1. "types" \in Statements
    BY DEF Statements
  <2> QED
    BY <2>1
<1>4. Script = pins7 \o body \o last
  BY DEF Script
<1>5. call.arrays => last[1] = "types"
  OBVIOUS
<1> HIDE DEF body, last, pins7
<1>6. PICK p \in Seq(Statements), b \in Seq(Statements), l \in Seq(Statements) :
        p = pins7 /\ b = body /\ l = last
  BY <1>1, <1>2, <1>3
<1>7. PICK pb \in Seq(Statements) : pb = p \o b
  <2>1. p \o b \in Seq(Statements)
    OBVIOUS
  <2> QED
    BY <2>1, Zenon
<1>8. Len(pb) = Len(p) + Len(b) /\ Len(p) \in Nat /\ Len(b) \in Nat /\ Len(l) \in Nat
  BY <1>7
<1>9. /\ \A i \in 1..Len(p) : pb[i] = p[i]
      /\ \A i \in 1..Len(b) : pb[Len(p) + i] = b[i]
  BY <1>7
<1>10. PICK all \in Seq(Statements) : all = pb \o l
  <2>1. pb \o l \in Seq(Statements)
    OBVIOUS
  <2> QED
    BY <2>1, Zenon
<1>11. Len(all) = Len(pb) + Len(l)
  BY <1>10
<1>12. /\ \A i \in 1..Len(pb) : all[i] = pb[i]
       /\ \A i \in 1..Len(l) : all[Len(pb) + i] = l[i]
  BY <1>10
<1>13. Script = all
  BY <1>4, <1>6, <1>7, <1>10
<1>14. Len(Script) = 7 + Len(body) + (IF call.arrays THEN 1 ELSE 0)
  BY <1>1, <1>3, <1>6, <1>8, <1>11, <1>13
<1>15. ASSUME NEW i \in 1..7 PROVE Script[i] = Pins[i]
  <2>1. i \in 1..Len(p) /\ i \in 1..Len(pb)
    <3>1. Len(p) = 7
      BY <1>1, <1>6
    <3> QED
      BY <1>8, <3>1
  <2> QED
    BY <1>6, <1>9, <1>12, <1>13, <2>1 DEF pins7
<1>16. ASSUME NEW i \in 1..Len(body) PROVE Script[7 + i] = body[i]
  <2>1. i \in 1..Len(b) /\ 7 + i \in 1..Len(pb) /\ Len(p) = 7
    BY <1>1, <1>6, <1>8
  <2> QED
    BY <1>6, <1>9, <1>12, <1>13, <2>1
<1>17. ASSUME call.arrays PROVE Script[Len(Script)] = "types"
  <2>1. Len(l) = 1 /\ Len(all) = Len(pb) + 1
    BY <1>3, <1>6, <1>11, <1>17
  <2>2. all[Len(pb) + 1] = l[1]
    BY <1>12, <2>1
  <2>3. l[1] = "types"
    BY <1>5, <1>6, <1>17
  <2> QED
    BY <1>13, <2>1, <2>2, <2>3
<1> QED
  BY <1>14, <1>15, <1>16, <1>17 DEF body

\* The statements behind the settings, tool by tool.
LEMMA BodyIs ==
  ASSUME call \in Calls
  PROVE  /\ call.tool = "run_select" =>
              /\ Len(Script) = IF call.arrays THEN 12 ELSE 11
              /\ Script[8] = "BEGIN" /\ Script[9] = "DECLARE" /\ Script[10] = "FETCH"
              /\ Script[11] = "COMMIT" /\ (call.arrays => Script[12] = "types")
         /\ call.tool = "explain" =>
              /\ Len(Script) = IF call.arrays THEN 9 ELSE 8
              /\ Script[8] = "EXPLAIN" /\ (call.arrays => Script[9] = "types")
         /\ call.tool = "sample_rows" =>
              /\ Len(Script) = IF call.arrays THEN 9 ELSE 8
              /\ Script[8] = "SELECT" /\ (call.arrays => Script[9] = "types")
         /\ call.tool = "describe_schema" =>
              Len(Script) = 9 /\ Script[8] = "tables" /\ Script[9] = "columns"
<1> DEFINE body == Body[call.tool]
<1>0. /\ Len(Script) = 7 + Len(body) + (IF call.arrays THEN 1 ELSE 0)
      /\ \A i \in 1..Len(body) : Script[7 + i] = body[i]
      /\ call.arrays => Script[Len(Script)] = "types"
  BY ScriptIs
<1>1. CASE call.tool = "run_select"
  <2>1. body = <<"BEGIN", "DECLARE", "FETCH", "COMMIT">>
    BY <1>1 DEF Body
  <2> HIDE DEF body
  <2> QED
    BY <1>0, <1>1, <2>1
<1>2. CASE call.tool = "explain"
  <2>1. body = <<"EXPLAIN">>
    BY <1>2 DEF Body
  <2> HIDE DEF body
  <2> QED
    BY <1>0, <1>2, <2>1
<1>3. CASE call.tool = "sample_rows"
  <2>1. body = <<"SELECT">>
    BY <1>3 DEF Body
  <2> HIDE DEF body
  <2> QED
    BY <1>0, <1>3, <2>1
<1>4. CASE call.tool = "describe_schema"
  <2>1. body = <<"tables", "columns">> /\ ~call.arrays
    BY <1>4, CallFacts DEF Body
  <2> HIDE DEF body
  <2> QED
    BY <1>0, <1>4, <2>1
<1> QED
  BY <1>1, <1>2, <1>3, <1>4

LEMMA ScriptFacts ==
  ASSUME call \in Calls
  PROVE  /\ Len(Script) \in Nat /\ MainAt \in 8..Len(Script)
         /\ Script[MainAt] = MainOf[call.tool]
         /\ Settings = {Script[i] : i \in 1..7}
         /\ \A i \in 1..Len(Script) :
              /\ Script[i] \in Statements
              /\ Script[i] \in Main <=> i = MainAt
              /\ Script[i] \in UserSQL => i > 7
              /\ Script[i] = "EXPLAIN" => call.tool = "explain"
              /\ Script[i] \in {"tables", "columns"} => call.tool = "describe_schema"
              /\ Script[i] = "FETCH" => call.tool = "run_select"
              /\ Script[i] = "SELECT" => call.tool = "sample_rows"
<1>1. call.tool \in {"run_select", "explain", "sample_rows", "describe_schema"} /\ call.arrays \in BOOLEAN
  BY CallFacts
<1>2. Len(Script) \in Nat /\ MainAt \in 8..Len(Script) /\ Script[MainAt] = MainOf[call.tool]
  BY <1>1, BodyIs DEF MainAt, MainOf
<1>3. \A i \in 1..7 : Script[i] = Pins[i]
  BY ScriptIs
<1>4. Settings = {Script[i] : i \in 1..7}
  BY <1>3 DEF Settings, Pins
<1>5. ASSUME NEW i \in 1..Len(Script)
      PROVE  /\ Script[i] \in Statements
             /\ Script[i] \in Main <=> i = MainAt
             /\ Script[i] \in UserSQL => i > 7
             /\ Script[i] = "EXPLAIN" => call.tool = "explain"
             /\ Script[i] \in {"tables", "columns"} => call.tool = "describe_schema"
             /\ Script[i] = "FETCH" => call.tool = "run_select"
             /\ Script[i] = "SELECT" => call.tool = "sample_rows"
  <2>1. CASE i \in 1..7
    <3>1. Script[i] \in Settings
      BY <1>4, <2>1
    <3> QED
      BY <1>2, <2>1, <3>1 DEF Settings, Statements, Main, UserSQL
  <2>2. CASE call.tool = "run_select" /\ i \notin 1..7
    <3>1. /\ i = 8 \/ i = 9 \/ i = 10 \/ i = 11 \/ (i = 12 /\ call.arrays)
          /\ MainAt = 10
      <4>1. Len(Script) = IF call.arrays THEN 12 ELSE 11
        BY <2>2, BodyIs
      <4> QED
        BY <1>1, <1>2, <2>2, <4>1 DEF MainAt
    <3>2. /\ Script[8] = "BEGIN" /\ Script[9] = "DECLARE" /\ Script[10] = "FETCH"
          /\ Script[11] = "COMMIT" /\ (call.arrays => Script[12] = "types")
      BY <2>2, BodyIs
    <3> QED
      BY <2>2, <3>1, <3>2 DEF Settings, Statements, Main, UserSQL
  <2>3. CASE call.tool = "explain" /\ i \notin 1..7
    <3>1. i = 8 \/ (i = 9 /\ call.arrays)
      <4>1. Len(Script) = IF call.arrays THEN 9 ELSE 8
        BY <2>3, BodyIs
      <4> QED
        BY <1>1, <1>2, <2>3, <4>1
    <3>2. MainAt = 8 /\ Script[8] = "EXPLAIN" /\ (call.arrays => Script[9] = "types")
      BY <2>3, BodyIs DEF MainAt
    <3> QED
      BY <2>3, <3>1, <3>2 DEF Settings, Statements, Main, UserSQL
  <2>4. CASE call.tool = "sample_rows" /\ i \notin 1..7
    <3>1. i = 8 \/ (i = 9 /\ call.arrays)
      <4>1. Len(Script) = IF call.arrays THEN 9 ELSE 8
        BY <2>4, BodyIs
      <4> QED
        BY <1>1, <1>2, <2>4, <4>1
    <3>2. MainAt = 8 /\ Script[8] = "SELECT" /\ (call.arrays => Script[9] = "types")
      BY <2>4, BodyIs DEF MainAt
    <3> QED
      BY <2>4, <3>1, <3>2 DEF Settings, Statements, Main, UserSQL
  <2>5. CASE call.tool = "describe_schema" /\ i \notin 1..7
    <3>1. i = 8 \/ i = 9
      <4>1. Len(Script) = 9
        BY <1>1, <2>5, BodyIs
      <4> QED
        BY <1>1, <1>2, <2>5, <4>1
    <3>2. MainAt = 9 /\ Script[8] = "tables" /\ Script[9] = "columns"
      BY <2>5, BodyIs DEF MainAt
    <3> QED
      BY <2>5, <3>1, <3>2 DEF Settings, Statements, Main, UserSQL
  <2> QED
    BY <1>1, <2>1, <2>2, <2>3, <2>4, <2>5
<1> QED
  BY <1>2, <1>4, <1>5

--------------------------------------------------------------------------------
(* What the database sends for a statement.                                *)

Message == [kind : {"row", "ready", "failure", "capped"},
            bytes : RowBytes \cup {0, messageLimit + 1}]

LEMMA MessageFacts ==
  /\ Row \subseteq Message /\ Endings \subseteq Message
  /\ \A m \in Row : IsRow(m)
  /\ \A e \in Endings : ~IsRow(e)
  BY DEF Row, Message, Endings, Ready, Capped, Failure, IsRow

LEMMA WantedFacts ==
  ASSUME call \in Calls, NEW st
  PROVE  Wanted(call, st) \in Seq(Row) /\ Wanted(call, st) \in Rows /\ Len(Wanted(call, st)) \in Nat
<1>1. call.rows \in Seq(Row) /\ call.rows \in Rows /\ call.requested \in Nat
  BY CallFacts
<1>2. ASSUME NEW n \in Nat PROVE First(n, call.rows) \in Seq(Row) /\ First(n, call.rows) \in Rows
  BY <1>1, FirstIsRows
<1>3. FetchCount \in Nat /\ Limit(call.requested) \in Nat
  BY <1>1, ConstantsAssumption DEF FetchCount, Limit, Least
<1>4. <<>> \in Seq(Row) /\ <<>> \in Rows
  BY NoRows
<1>5. Wanted(call, st) \in Seq(Row) /\ Wanted(call, st) \in Rows
  BY <1>1, <1>2, <1>3, <1>4 DEF Wanted
<1> QED
  BY <1>5

\* The rows that pass the byte cap are as many as fit, and all of them unless the
\* rows are over it.
LEMMA CapShape ==
  ASSUME NEW s \in Seq(Row)
  PROVE  \E n \in 0..Len(s), e \in {Ready, Capped} :
           /\ Cap(s) = Append(First(n, s), e)
           /\ Sum(First(n, s)) <= maxResultBytes
           /\ e = Ready => n = Len(s)
           /\ e = Capped => Sum(s) > maxResultBytes
<1> DEFINE within == { n \in 0..Len(s) : Sum(First(n, s)) <= maxResultBytes }
           Most(n) == n \in within /\ \A o \in within : o <= n
           most == CHOOSE n \in within : \A o \in within : o <= n
           T == {Len(s) - n : n \in within}
<1>0. Len(s) \in Nat /\ maxResultBytes \in Nat
  BY ConstantsAssumption
<1>1. 0 \in within
  <2>1. First(0, s) \in Seq(Row) /\ Len(First(0, s)) = 0
    BY <1>0, FirstFacts DEF Least
  <2>2. First(0, s) = <<>>
    BY <2>1
  <2> QED
    BY <1>0, <2>2, SumEmpty
<1>2. PICK x \in T : \A y \in T : x <= y
  <2>1. T \subseteq Nat /\ T # {}
    BY <1>0, <1>1
  <2> HIDE DEF T
  <2> QED
    BY <2>1, LeastElement
<1>3. PICK n \in within : x = Len(s) - n
  OBVIOUS
<1>4. ASSUME NEW o \in within PROVE o <= n
  <2>1. Len(s) - o \in T /\ o \in Nat /\ n \in Nat
    BY <1>0
  <2>2. x <= Len(s) - o
    BY <1>2, <2>1
  <2> QED
    BY <1>0, <1>3, <2>1, <2>2
<1>5. most \in within /\ \A o \in within : o <= most
  <2> HIDE DEF within
  <2> QED
    BY <1>4
<1>6. Cap(s) = IF most = Len(s) THEN Append(s, Ready) ELSE Append(First(most, s), Capped)
  BY DEF Cap
<1> HIDE DEF most
<1>7. most \in 0..Len(s) /\ Sum(First(most, s)) <= maxResultBytes
  BY <1>5
<1>8. First(Len(s), s) = s
  BY <1>0, FirstFacts
<1>9. CASE most = Len(s)
  <2>1. Cap(s) = Append(First(most, s), Ready) /\ Ready # Capped
    BY <1>6, <1>8, <1>9 DEF Ready, Capped
  <2> QED
    BY <1>7, <1>9, <2>1
<1>10. CASE most # Len(s)
  <2>1. Cap(s) = Append(First(most, s), Capped) /\ Ready # Capped
    BY <1>6, <1>10 DEF Ready, Capped
  <2>2. Len(s) \notin within
    BY <1>0, <1>5, <1>7, <1>10
  <2>3. Sum(s) > maxResultBytes
    <3>1. Sum(s) \in Nat
      BY RowsFacts, SumFacts
    <3> QED
      BY <1>0, <1>8, <2>2, <3>1
  <2> QED
    BY <1>7, <2>1, <2>3
<1> QED
  BY <1>9, <1>10

LEMMA FrontOfAppend ==
  ASSUME NEW s \in Seq(Message), NEW e \in Message
  PROVE  Front(Append(s, e)) = s
<1> DEFINE f == Front(Append(s, e))
<1>1. Append(s, e) \in Seq(Message) /\ Len(Append(s, e)) = Len(s) + 1 /\ Len(s) \in Nat
  OBVIOUS
<1>2. f = SubSeq(Append(s, e), 1, Len(s))
  BY <1>1 DEF Front
<1>3. f \in Seq(Message) /\ Len(f) = Len(s) /\ \A i \in 1..Len(s) : f[i] = s[i]
  BY <1>1, <1>2
<1> HIDE DEF f
<1>4. f = s
  BY <1>3, SeqEqual
<1> QED
  BY <1>4 DEF f

LEMMA OutputShape ==
  ASSUME call \in Calls, NEW st
  PROVE  \E n \in 0..Len(Wanted(call, st)), e \in Endings :
           Output(st) = Append(First(n, Wanted(call, st)), e) /\ Ends(call, st, n, e)
<1> DEFINE W == Wanted(call, st)
           Shape(out, n, e) == out = Append(First(n, W), e)
<1>1. W \in Seq(Row) /\ Len(W) \in Nat
  BY WantedFacts
<1>2. First(Len(W), W) = W
  BY <1>1, FirstFacts
<1>3. call.error \in {"none", "small", "huge"}
  BY CallFacts
<1>e. {Ready, Capped, Failure(0), Failure(messageLimit + 1)} = Endings
  BY DEF Endings
<1>4. ASSUME NEW out, NEW n \in 0..Len(W), NEW e \in Endings, Shape(out, n, e), Ends(call, st, n, e)
      PROVE  \E d \in Endings : Shape(WithError(out), n, d) /\ Ends(call, st, n, d)
  <2>1. First(n, W) \in Seq(Message) /\ e \in Message
    <3>1. First(n, W) \in Seq(Row)
      BY <1>1, FirstFacts
    <3> QED
      BY <3>1, MessageFacts
  <2>2. Front(out) = First(n, W)
    BY <1>4, <2>1, FrontOfAppend
  <2>3. /\ Ends(call, st, n, Failure(0))
        /\ call.error = "huge" => Ends(call, st, n, Failure(messageLimit + 1))
    BY <1>4 DEF Ends
  <2>4. CASE call.error = "none"
    BY <1>4, <2>4 DEF WithError
  <2>5. CASE call.error = "small"
    BY <1>e, <2>2, <2>3, <2>5 DEF WithError
  <2>6. CASE call.error = "huge"
    BY <1>e, <2>2, <2>3, <2>6 DEF WithError
  <2> QED
    BY <1>3, <2>4, <2>5, <2>6
<1>5. ASSUME st # "EXPLAIN"
      PROVE  \E n \in 0..Len(W), e \in Endings : Shape(Cap(W), n, e) /\ Ends(call, st, n, e)
  <2>1. PICK n \in 0..Len(W), e \in {Ready, Capped} :
          /\ Cap(W) = Append(First(n, W), e)
          /\ Sum(First(n, W)) <= maxResultBytes
          /\ e = Ready => n = Len(W)
          /\ e = Capped => Sum(W) > maxResultBytes
    BY <1>1, CapShape
  <2>2. Ends(call, st, n, e)
    BY <1>5, <2>1 DEF Ends
  <2> QED
    BY <1>e, <2>1, <2>2
<1>6. CASE st \in {"FETCH", "SELECT"}
  <2>1. Output(st) = WithError(Cap(W))
    BY <1>6 DEF Output, Wanted
  <2>2. PICK n \in 0..Len(W), e \in Endings : Shape(Cap(W), n, e) /\ Ends(call, st, n, e)
    BY <1>5, <1>6
  <2>3. PICK d \in Endings : Shape(WithError(Cap(W)), n, d) /\ Ends(call, st, n, d)
    BY <1>4, <2>2
  <2> QED
    BY <2>1, <2>3
<1>7. CASE st = "EXPLAIN"
  <2>1. Output(st) = WithError(Append(W, Ready))
    BY <1>7 DEF Output, Wanted
  <2>2. Len(W) \in 0..Len(W) /\ Ready \in Endings /\ Ends(call, st, Len(W), Ready)
    BY <1>1, <1>7 DEF Ends, Endings
  <2>3. Shape(Append(W, Ready), Len(W), Ready)
    BY <1>2
  <2>4. PICK d \in Endings : Shape(WithError(Append(W, Ready)), Len(W), d) /\ Ends(call, st, Len(W), d)
    BY <1>4, <2>2, <2>3
  <2> QED
    BY <2>1, <2>2, <2>4
<1>8. CASE st \in {"tables", "columns"}
  <2>1. Output(st) = Cap(W)
    BY <1>8 DEF Output, Wanted
  <2> QED
    BY <1>5, <1>8, <2>1
<1>9. CASE st \notin {"FETCH", "SELECT", "EXPLAIN", "tables", "columns"}
  <2>1. Output(st) = <<Ready>> /\ W = <<>>
    BY <1>9 DEF Output, Wanted
  <2>2. First(0, W) = <<>> /\ Len(W) = 0 /\ Ready \in Endings
    BY <1>2, <2>1 DEF Endings
  <2>3. Ends(call, st, 0, Ready) /\ Output(st) = Append(First(0, W), Ready)
    <3>1. Sum(First(0, W)) <= maxResultBytes
      BY <2>2, SumEmpty, ConstantsAssumption
    <3> QED
      BY <2>1, <2>2, <3>1 DEF Ends
  <2> QED
    BY <2>2, <2>3
<1> QED
  BY <1>6, <1>7, <1>8, <1>9

--------------------------------------------------------------------------------
(* The steps that change little.                                           *)

LEMMA InitIInv == Init => IInv
<1> SUFFICES ASSUME Init PROVE IInv
  OBVIOUS
<1> USE DEF Init
<1>1. Len(Script) \in Nat /\ <<>> \in Rows
  BY ScriptFacts, NoRows
<1>2. TypeOK
  <2>1. {} \in SUBSET Settings /\ step \in 0..Len(Script)
    BY <1>1
  <2>2. wire \in Seq([kind : {"row", "ready", "failure", "capped"},
                      bytes : RowBytes \cup {0, messageLimit + 1}])
    OBVIOUS
  <2> QED
    BY <1>1, <2>1, <2>2 DEF TypeOK
<1>3. Stages /\ InStep /\ PinnedSoFar /\ KeptWhole /\ Exchange /\ Reading
  BY DEF Stages, InStep, PinnedSoFar, KeptWhole, Exchange, Reading
<1>4. AnswerTrue
  <2>1. TooLarge \in Answer
    BY <1>1 DEF TooLarge, Answer
  <2> QED
    BY <2>1, NoneAssumption DEF AnswerTrue, RowsExact, TooLargeTrue
<1>5. AnswerBounded
  BY DEF AnswerBounded
<1> QED
  BY <1>2, <1>3, <1>4, <1>5 DEF IInv

LEMMA RejectStep == IInv /\ Reject => IInv'
<1> SUFFICES ASSUME IInv, Reject PROVE IInv'
  OBVIOUS
<1> USE DEF IInv, Reject, backendVars
<1>1. Script' = Script
  BY DEF Script
<1>2. TypeOK'
  <2>1. Error \in Answer
    BY NoRows DEF Answer, Error
  <2> QED
    BY <1>1, <2>1 DEF TypeOK
<1>3. Stages' /\ InStep' /\ PinnedSoFar' /\ KeptWhole' /\ Exchange' /\ Reading'
  BY <1>1 DEF Stages, InStep, PinnedSoFar, KeptWhole, Exchange, Reading
<1>4. AnswerTrue'
  BY DEF AnswerTrue, RowsExact, TooLargeTrue, TooLarge, Error
<1>5. AnswerBounded'
  BY DEF AnswerBounded, Error
<1> QED
  BY <1>2, <1>3, <1>4, <1>5

LEMMA ConnectStep == IInv /\ Connect => IInv'
<1> SUFFICES ASSUME IInv, Connect PROVE IInv'
  OBVIOUS
<1> USE DEF IInv, Connect, toolVars, backendVars
<1>1. Script' = Script
  BY DEF Script
<1>2. TypeOK'
  BY <1>1 DEF TypeOK
<1>3. Stages' /\ InStep' /\ PinnedSoFar' /\ KeptWhole' /\ Exchange' /\ Reading'
  BY <1>1 DEF Stages, InStep, PinnedSoFar, KeptWhole, Exchange, Reading
<1>4. AnswerTrue' /\ AnswerBounded'
  BY DEF AnswerTrue, RowsExact, TooLargeTrue, AnswerBounded
<1> QED
  BY <1>2, <1>3, <1>4

LEMMA ConnectFailsStep == IInv /\ ConnectFails => IInv'
<1> SUFFICES ASSUME IInv, ConnectFails PROVE IInv'
  OBVIOUS
<1> USE DEF IInv, ConnectFails, backendVars
<1>1. Script' = Script
  BY DEF Script
<1>2. TypeOK'
  <2>1. Error \in Answer
    BY NoRows DEF Answer, Error
  <2> QED
    BY <1>1, <2>1 DEF TypeOK
<1>3. Stages' /\ InStep' /\ PinnedSoFar' /\ KeptWhole' /\ Exchange' /\ Reading'
  BY <1>1 DEF Stages, InStep, PinnedSoFar, KeptWhole, Exchange, Reading
<1>4. AnswerTrue'
  BY DEF AnswerTrue, RowsExact, TooLargeTrue, TooLarge, Error
<1>5. AnswerBounded'
  BY DEF AnswerBounded, Error
<1> QED
  BY <1>2, <1>3, <1>4, <1>5

LEMMA EndStep == IInv /\ End => IInv'
<1> SUFFICES ASSUME IInv, End PROVE IInv'
  OBVIOUS
<1> USE DEF IInv, End, toolVars, backendVars
<1>1. Script' = Script
  BY DEF Script
<1>2. TypeOK'
  BY <1>1 DEF TypeOK
<1>3. Stages' /\ InStep' /\ PinnedSoFar' /\ KeptWhole' /\ Exchange' /\ Reading'
  BY <1>1 DEF Stages, InStep, PinnedSoFar, KeptWhole, Exchange, Reading
<1>4. AnswerTrue' /\ AnswerBounded'
  BY DEF AnswerTrue, RowsExact, TooLargeTrue, AnswerBounded
<1> QED
  BY <1>2, <1>3, <1>4

LEMMA AcceptStep == IInv /\ Accept => IInv'
<1> SUFFICES ASSUME IInv, Accept PROVE IInv'
  OBVIOUS
<1> USE DEF IInv, Accept, toolVars
<1>1. Script' = Script
  BY DEF Script
<1>2. TypeOK'
  BY <1>1 DEF TypeOK
<1>3. Stages'
  BY <1>1 DEF Stages
<1>4. InStep' /\ PinnedSoFar' /\ KeptWhole' /\ Exchange' /\ Reading'
  BY <1>1 DEF Stages, InStep, PinnedSoFar, KeptWhole, Exchange, Reading
<1>5. AnswerTrue' /\ AnswerBounded'
  BY DEF AnswerTrue, RowsExact, TooLargeTrue, AnswerBounded
<1> QED
  BY <1>2, <1>3, <1>4, <1>5

LEMMA NoticeStep == IInv /\ Notice => IInv'
<1> SUFFICES ASSUME IInv, Notice PROVE IInv'
  OBVIOUS
<1> USE DEF IInv, Notice, toolVars
<1>1. Script' = Script
  BY DEF Script
<1>2. TypeOK'
  BY <1>1 DEF TypeOK
<1>3. Stages' /\ InStep' /\ PinnedSoFar' /\ KeptWhole' /\ Exchange' /\ Reading'
  BY <1>1 DEF Stages, InStep, PinnedSoFar, KeptWhole, Exchange, Reading
<1>4. AnswerTrue' /\ AnswerBounded'
  BY DEF AnswerTrue, RowsExact, TooLargeTrue, AnswerBounded
<1> QED
  BY <1>2, <1>3, <1>4

\* A statement that is received is the one that is awaited.
LEMMA ExecuteStep == IInv /\ Execute => IInv'
<1> SUFFICES ASSUME IInv, Execute PROVE IInv'
  OBVIOUS
<1> USE DEF IInv, Execute, toolVars
<1>1. Script' = Script
  BY DEF Script
<1>2. TypeOK'
  BY <1>1 DEF TypeOK
<1>3. Stages' /\ InStep'
  BY <1>1 DEF Stages, InStep
<1>4. PinnedSoFar' /\ KeptWhole'
  BY <1>1 DEF PinnedSoFar, KeptWhole
<1>5. Exchange' /\ Reading'
  BY <1>1 DEF Exchange, Reading
<1>6. AnswerTrue' /\ AnswerBounded'
  BY DEF AnswerTrue, RowsExact, TooLargeTrue, AnswerBounded
<1> QED
  BY <1>2, <1>3, <1>4, <1>5, <1>6

--------------------------------------------------------------------------------
(* What the backend sends.                                                 *)

LEMMA RowsAreMessages == \A s \in Seq(Row) : s \in Seq(Message)
<1>1. ASSUME NEW s \in Seq(Row) PROVE s \in Seq(Message)
  <2>1. s \in [1..Len(s) -> Row] /\ Len(s) \in Nat
    OBVIOUS
  <2>2. s \in [1..Len(s) -> Message]
    BY <2>1, MessageFacts
  <2> QED
    BY <2>1, <2>2, IsASeq
<1> QED
  BY <1>1

\* A reply that was just sent is one reply, none of it parsed.
LEMMA NewReply ==
  ASSUME call \in Calls, NEW st, NEW n \in 0..Len(Wanted(call, st)), NEW e \in Endings,
         Ends(call, st, n, e)
  PROVE  LET w == Append(First(n, Wanted(call, st)), e)
         IN  /\ w \in Seq(Message)
             /\ OneReply(call, st, n, e, 0, <<>>, w)
<1> DEFINE W == Wanted(call, st)
           w == Append(First(n, W), e)
<1>1. W \in Seq(Row) /\ Len(W) \in Nat /\ n \in Nat /\ n <= Len(W)
  BY WantedFacts
<1>2. /\ First(n, W) \in Seq(Row) /\ Len(First(n, W)) = n
      /\ \A i \in 1..n : First(n, W)[i] = W[i]
      /\ First(0, W) \in Seq(Row) /\ Len(First(0, W)) = 0
  <2>1. Least(n, Len(W)) = n /\ Least(0, Len(W)) = 0 /\ 0 \in Nat
    BY <1>1 DEF Least
  <2> HIDE DEF W
  <2> QED
    BY <1>1, <2>1, FirstFacts
<1>3. First(n, W) \in Seq(Message) /\ e \in Message
  BY <1>2, RowsAreMessages, MessageFacts
<1>4. First(0, W) = <<>>
  BY <1>2
<1> HIDE DEF W
<1>5. w \in Seq(Message) /\ Len(w) = n + 1 /\ w[n + 1] = e /\ \A i \in 1..n : w[i] = W[i]
  <2>1. PICK f \in Seq(Message) : f = First(n, W)
    BY <1>3
  <2>2. w = Append(f, e) /\ Len(f) = n /\ \A i \in 1..n : f[i] = W[i]
    BY <1>2, <2>1
  <2> HIDE DEF w
  <2>3. /\ w \in Seq(Message) /\ Len(w) = n + 1 /\ w[n + 1] = e
        /\ \A i \in 1..n : w[i] = f[i]
    BY <1>1, <1>3, <2>2, AppendProperties
  <2> QED
    BY <2>2, <2>3
<1> HIDE DEF w
<1>6. OneReply(call, st, n, e, 0, <<>>, w)
  BY <1>1, <1>4, <1>5 DEF OneReply, W
<1> QED
  BY <1>5, <1>6 DEF w, W

\* A reply can be an error alone.
LEMMA OnlyAnError ==
  ASSUME call \in Calls, NEW st
  PROVE  /\ <<Failure(0)>> \in Seq(Message) /\ Failure(0) \in Endings
         /\ 0 \in 0..Len(Wanted(call, st))
         /\ OneReply(call, st, 0, Failure(0), 0, <<>>, <<Failure(0)>>)
<1> DEFINE W == Wanted(call, st)
<1>1. W \in Seq(Row) /\ Len(W) \in Nat /\ 0 \in 0..Len(W)
  BY WantedFacts
<1>2. First(0, W) = <<>>
  <2>1. First(0, W) \in Seq(Row) /\ Len(First(0, W)) = 0
    BY <1>1, FirstFacts DEF Least
  <2> QED
    BY <2>1
<1>3. Ends(call, st, 0, Failure(0))
  BY <1>2, SumEmpty, ConstantsAssumption DEF Ends
<1>4. Failure(0) \in Endings
  BY DEF Endings
<1>5. Append(First(0, W), Failure(0)) = <<Failure(0)>>
  <2>1. ASSUME NEW x PROVE Append(<<>>, x) = <<x>>
    OBVIOUS
  <2> QED
    BY <1>2, <2>1
<1> QED
  BY <1>1, <1>3, <1>4, <1>5, NewReply

\* A step of the backend that ends what it was doing, and what it puts on the wire.
LEMMA BackendStep ==
  ASSUME IInv, phase # "idle",
         UNCHANGED <<call, phase, toolVars, sock, request>>,
         running' = None, backend' \in {"idle", "gone"},
         pins \subseteq pins', pins' \subseteq Settings,
         wire' \in Seq(Message), phase = "connecting" => wire' = <<>>,
         begun => wire' # <<>> /\ wire'[1] = wire[1],
         Exchange'
  PROVE  IInv'
<1> USE DEF IInv, toolVars
<1>1. Script' = Script
  BY DEF Script
<1>2. TypeOK'
  BY <1>1 DEF TypeOK, Message
<1>3. Stages' /\ InStep' /\ KeptWhole'
  BY <1>1 DEF Stages, InStep, KeptWhole
<1>4. PinnedSoFar' /\ Reading'
  BY <1>1 DEF PinnedSoFar, Reading, TooLong
<1>5. AnswerTrue' /\ AnswerBounded'
  BY DEF AnswerTrue, RowsExact, TooLargeTrue, AnswerBounded
<1> QED
  BY <1>2, <1>3, <1>4, <1>5

LEMMA FinishStep == IInv /\ Finish => IInv'
<1> SUFFICES ASSUME IInv, Finish PROVE IInv'
  OBVIOUS
<1> USE DEF Finish, Reply
<1>1. Script' = Script /\ call \in Calls /\ wire \in Seq(Message)
  BY DEF Script, toolVars, IInv, TypeOK, Message
<1>2. /\ running # None /\ running = Script[step] /\ step \in 1..Len(Script)
      /\ phase \notin {"idle", "connecting"}
      /\ phase = "running" => /\ request = None /\ sock = "open"
                              /\ got = <<>> /\ wire = <<>>
      /\ ~begun
  <2>1. running # None /\ phase \notin {"idle", "connecting"}
    BY DEF IInv, Stages
  <2>2. running = Script[step] /\ step \in 1..Len(Script)
    BY <1>1, <2>1, ScriptFacts DEF IInv, InStep, TypeOK
  <2> QED
    BY <2>1, <2>2 DEF IInv, InStep, Stages, Exchange, Reading
<1>3. PICK n \in 0..Len(Wanted(call, running)), e \in Endings :
        Output(running) = Append(First(n, Wanted(call, running)), e) /\ Ends(call, running, n, e)
  BY <1>1, OutputShape
<1>4. /\ Output(running) \in Seq(Message)
      /\ OneReply(call, running, n, e, 0, <<>>, Output(running))
  BY <1>1, <1>3, NewReply
<1>5. wire' \in Seq(Message)
  BY <1>1, <1>4
<1>6. Exchange'
  <2> SUFFICES ASSUME phase' = "running"
               PROVE  /\ running' = None /\ request' = None
                      /\ OneReply(call, running, n, e, 0, got', wire')
                      /\ e = Ready /\ running \in Settings => running \in pins'
    BY <1>1, <1>2 DEF Exchange, toolVars
  <2>1. got' = <<>> /\ request' = None
    BY <1>2 DEF toolVars
  <2>2. wire' = Output(running)
    <3>1. wire' = <<>> \o Output(running)
      BY <1>2
    <3> QED
      BY <1>4, <3>1
  <2> QED
    BY <1>4, <2>1, <2>2
<1>7. pins' \subseteq Settings /\ pins \subseteq pins'
  BY DEF IInv, TypeOK
<1> QED
  BY <1>2, <1>5, <1>6, <1>7, BackendStep

LEMMA FailStep == IInv /\ Fail => IInv'
<1> SUFFICES ASSUME IInv, Fail PROVE IInv'
  OBVIOUS
<1> USE DEF Fail, Reply
<1>1. Script' = Script /\ call \in Calls /\ wire \in Seq(Message)
  BY DEF Script, toolVars, IInv, TypeOK, Message
<1>2. /\ running # None /\ phase \notin {"idle", "connecting"}
      /\ phase = "running" => /\ request = None /\ sock = "open"
                              /\ got = <<>> /\ wire = <<>>
      /\ ~begun
  BY DEF IInv, Stages, InStep, Exchange, Reading
<1>3. wire' \in Seq(Message)
  BY <1>1, OnlyAnError
<1>4. Exchange'
  <2> SUFFICES ASSUME phase' = "running"
               PROVE  /\ running' = None /\ request' = None
                      /\ OneReply(call, Script[step], 0, Failure(0), 0, got', wire')
    BY <1>1, OnlyAnError DEF Exchange, toolVars, Failure, Ready
  <2>1. got' = <<>> /\ request' = None /\ wire' = <<Failure(0)>>
    BY <1>2 DEF toolVars
  <2> QED
    BY <1>1, <2>1, OnlyAnError
<1>5. pins' \subseteq Settings /\ pins \subseteq pins'
  BY DEF IInv, TypeOK
<1> QED
  BY <1>2, <1>3, <1>4, <1>5, BackendStep

\* What a backend says when it goes is a reply of its own, or comes behind one.
LEMMA DieStep == IInv /\ Die => IInv'
<1> SUFFICES ASSUME IInv, Die PROVE IInv'
  OBVIOUS
<1> USE DEF Die
<1>1. Script' = Script /\ call \in Calls /\ wire \in Seq(Message)
  BY DEF Script, toolVars, IInv, TypeOK, Message
<1>2. /\ phase # "idle"
      /\ phase = "connecting" => wire = <<>> /\ sock = "connecting"
      /\ phase = "running" => sock = "open"
  BY DEF IInv, Stages
<1>3. PICK last \in {<<>>, <<Failure(0)>>} : wire' = IF sock = "open" THEN wire \o last ELSE wire
  OBVIOUS
<1>4. wire' \in Seq(Message)
  <2>1. last \in Seq(Message)
    <3>1. <<Failure(0)>> \in Seq(Message)
      BY <1>1, OnlyAnError
    <3>2. <<>> \in Seq(Message)
      OBVIOUS
    <3> QED
      BY <3>1, <3>2, Zenon
  <2>2. wire \o last \in Seq(Message)
    BY <1>1, <2>1
  <2> QED
    BY <1>1, <1>3, <2>2
<1>5. Exchange'
  <2> SUFFICES ASSUME phase = "running" PROVE Exchange'
    BY DEF Exchange
  <2>1. wire' = wire \o last /\ got' = got
    BY <1>2, <1>3 DEF toolVars
  <2>2. CASE last = <<>>
    <3>1. wire' = wire
      BY <1>1, <2>1, <2>2
    <3> QED
      BY <1>1, <3>1 DEF Exchange, IInv, toolVars
  <2>3. CASE last = <<Failure(0)>> /\ got = <<>> /\ wire = <<>>
    <3>1. wire' = <<Failure(0)>>
      BY <2>1, <2>3
    <3>2. OneReply(call, Script[step], 0, Failure(0), 0, got', wire')
      BY <1>1, <2>1, <2>3, <3>1, OnlyAnError
    <3> QED
      BY <1>1, <3>2, OnlyAnError DEF Exchange, toolVars, Failure, Ready
  <2>4. CASE last = <<Failure(0)>> /\ ~(got = <<>> /\ wire = <<>>)
    <3>1. PICK n \in 0..Len(Wanted(call, Script[step])), e \in Endings, died \in {0, 1} :
            /\ OneReply(call, Script[step], n, e, died, got, wire)
            /\ e = Ready /\ Script[step] \in Settings => Script[step] \in pins
            /\ died = 1 => backend = "gone"
      BY <2>4 DEF IInv, Exchange
    <3>2. died = 0
      BY <3>1
    <3>3. /\ Len(wire) \in Nat /\ Len(wire') = Len(wire) + 1 /\ wire'[Len(wire')] = Failure(0)
          /\ \A i \in 1..Len(wire) : wire'[i] = wire[i]
      <4>1. wire' = Append(wire, Failure(0))
        BY <1>1, <2>1, <2>4
      <4> QED
        BY <1>1, <4>1
    <3>4. OneReply(call, Script[step], n, e, 1, got, wire')
      <4>1. Len(got) \in Nat /\ n \in Nat /\ Len(got) <= n
        BY <1>1, <3>1, WantedFacts, RowsFacts DEF IInv, TypeOK, OneReply
      <4>2. Len(wire) = n - Len(got) + 1
        BY <3>1, <3>2, <4>1 DEF OneReply
      <4>3. /\ \A i \in 1..(n - Len(got)) : wire'[i] = Wanted(call, Script[step])[Len(got) + i]
            /\ wire'[n - Len(got) + 1] = e
        BY <3>1, <3>3, <4>1, <4>2 DEF OneReply
      <4> QED
        BY <3>1, <3>3, <4>1, <4>2, <4>3 DEF OneReply
    <3> QED
      BY <1>1, <2>1, <3>1, <3>4 DEF Exchange, toolVars
  <2> QED
    BY <2>2, <2>3, <2>4
<1>6. pins' \subseteq Settings /\ pins \subseteq pins'
  BY DEF IInv, TypeOK
<1>7. ASSUME begun PROVE wire' # <<>> /\ wire'[1] = wire[1]
  <2>1. wire # <<>> /\ Len(wire) \in Nat
    BY <1>1, <1>7 DEF IInv, Reading
  <2>2. CASE wire' = wire
    BY <2>1, <2>2
  <2>3. CASE wire' = wire \o <<>>
    BY <1>1, <2>1, <2>3
  <2>4. CASE wire' = wire \o <<Failure(0)>>
    <3>1. wire' = Append(wire, Failure(0))
      BY <1>1, <2>4
    <3> QED
      BY <1>1, <2>1, <3>1
  <2> QED
    BY <1>3, <2>2, <2>3, <2>4
<1> QED
  BY <1>2, <1>3, <1>4, <1>5, <1>6, <1>7, BackendStep

--------------------------------------------------------------------------------
(* What the tool answers.                                                  *)

\* How many rows are asked of the database.
Asked(c) == CASE c.tool = "run_select"  -> maxRows + 1
              [] c.tool = "sample_rows" -> Least(c.requested, Least(MaxSample, maxRows))
              [] OTHER -> Len(c.rows)

\* a is a right answer to the call c.
Right(c, a) ==
  /\ a \in Answer
  /\ a.kind = "ok" =>
       /\ c.tool \in {"run_select", "explain"} =>
            a.rows = First(maxRows, c.rows) /\ (a.truncated <=> Len(c.rows) > maxRows)
       /\ c.tool = "sample_rows" => a.rows = First(Asked(c), c.rows)
       /\ c.tool = "describe_schema" => a.rows = c.rows
       /\ c.width * Sum(a.rows) <= maxResultBytes
  /\ a = TooLarge =>
       \/ c.error = "huge"
       \/ c.width * Sum(First(Asked(c), c.rows)) > maxResultBytes

\* A statement whose rows are too many bytes is the tool's query, or asks for no
\* more than that does.
LEMMA TooMany ==
  ASSUME call \in Calls, NEW i \in 1..Len(Script),
         Sum(Wanted(call, Script[i])) > maxResultBytes
  PROVE  call.width * Sum(First(Asked(call), call.rows)) > maxResultBytes
<1>1. /\ call.rows \in Seq(Row) /\ Len(call.rows) \in Nat /\ call.width \in {1, 6}
      /\ maxRows \in Nat /\ maxResultBytes \in Nat
      /\ call.tool # "describe_schema" => call.width = 1
      /\ call.tool \in {"run_select", "explain", "sample_rows", "describe_schema"}
  BY CallFacts, ConstantsAssumption
<1>2. Sum(call.rows) \in Nat /\ First(Len(call.rows), call.rows) = call.rows
  <2>1. Len(call.rows) >= Len(call.rows)
    BY <1>1
  <2> QED
    BY <1>1, <2>1, SumOfRows, FirstFacts
<1>3. Script[i] \in {"FETCH", "SELECT", "EXPLAIN", "tables", "columns"}
  BY <1>1, SumEmpty DEF Wanted
<1>4. CASE Script[i] = "FETCH"
  <2>1. call.tool = "run_select" /\ call.width = 1
    BY <1>1, <1>4, ScriptFacts
  <2>2. /\ Wanted(call, Script[i]) = First(maxRows + 1, call.rows)
        /\ Asked(call) = maxRows + 1
    BY <1>4, <2>1 DEF Wanted, FetchCount, Asked
  <2>3. Sum(First(maxRows + 1, call.rows)) \in Nat
    <3>1. maxRows + 1 \in Nat
      BY <1>1
    <3> QED
      BY <1>1, <3>1, FirstFacts, SumOfRows
  <2> QED
    BY <1>1, <2>1, <2>2, <2>3
<1>5. CASE Script[i] = "SELECT"
  <2>1. call.tool = "sample_rows" /\ call.width = 1
    BY <1>1, <1>5, ScriptFacts
  <2>2. Wanted(call, Script[i]) = First(Asked(call), call.rows)
    BY <1>5, <2>1 DEF Wanted, Limit, Asked
  <2>3. Asked(call) \in Nat
    BY <2>1, CallFacts, ConstantsAssumption DEF Asked, Least
  <2>4. Sum(First(Asked(call), call.rows)) \in Nat
    BY <1>1, <2>3, FirstFacts, SumOfRows
  <2> QED
    BY <1>1, <2>1, <2>2, <2>4
<1>6. CASE Script[i] \in {"EXPLAIN", "tables", "columns"}
  <2>1. call.tool \in {"explain", "describe_schema"}
    BY <1>6, ScriptFacts
  <2>2. Wanted(call, Script[i]) = call.rows /\ Asked(call) = Len(call.rows)
    BY <1>6, <2>1 DEF Wanted, Asked
  <2> QED
    BY <1>1, <1>2, <2>2
<1> QED
  BY <1>3, <1>4, <1>5, <1>6

LEMMA RightErrors ==
  ASSUME call \in Calls
  PROVE  /\ Right(call, Error)
         /\ call.error = "huge" => Right(call, TooLarge)
         /\ \A i \in 1..Len(Script) :
              Sum(Wanted(call, Script[i])) > maxResultBytes => Right(call, TooLarge)
<1>1. Error \in Answer /\ TooLarge \in Answer
  BY NoRows DEF Answer, Error, TooLarge
<1>2. Right(call, Error)
  BY <1>1 DEF Right, Error, TooLarge
<1>3. ASSUME call.error = "huge" PROVE Right(call, TooLarge)
  BY <1>1, <1>3 DEF Right, TooLarge
<1>4. ASSUME NEW i \in 1..Len(Script), Sum(Wanted(call, Script[i])) > maxResultBytes
      PROVE  Right(call, TooLarge)
  <2>1. call.width * Sum(First(Asked(call), call.rows)) > maxResultBytes
    BY <1>4, TooMany
  <2> QED
    BY <1>1, <2>1 DEF Right, TooLarge
<1> QED
  BY <1>2, <1>3, <1>4

LEMMA RightOk ==
  ASSUME call \in Calls, NEW rows \in Rows, NEW truncated \in BOOLEAN,
         call.width * Sum(rows) <= maxResultBytes,
         call.tool \in {"run_select", "explain"} =>
           rows = First(maxRows, call.rows) /\ (truncated <=> Len(call.rows) > maxRows),
         call.tool = "sample_rows" => rows = First(Asked(call), call.rows),
         call.tool = "describe_schema" => rows = call.rows
  PROVE  Right(call, Ok(rows, truncated))
<1> DEFINE a == Ok(rows, truncated)
<1>1. a.kind = "ok" /\ a.rows = rows /\ a.truncated = truncated /\ a \in Answer
  BY DEF Ok, Answer
<1>2. a # TooLarge
  BY <1>1 DEF TooLarge
<1> HIDE DEF a
<1>4. call.tool \in {"run_select", "explain"} =>
        a.rows = First(maxRows, call.rows) /\ (a.truncated <=> Len(call.rows) > maxRows)
  BY <1>1, Zenon
<1>5. /\ call.tool = "sample_rows" => a.rows = First(Asked(call), call.rows)
      /\ call.tool = "describe_schema" => a.rows = call.rows
  BY <1>1
<1>6. call.width * Sum(a.rows) <= maxResultBytes
  BY <1>1, Zenon
<1>7. Right(call, a)
  BY <1>1, <1>2, <1>4, <1>5, <1>6, Zenon DEF Right
<1> QED
  BY <1>7 DEF a

\* What the tool makes of the rows of its query is right.
LEMMA RightPayload ==
  ASSUME call \in Calls, NEW rows, rows = Wanted(call, MainOf[call.tool]),
         Sum(rows) <= maxResultBytes
  PROVE  Right(call, Payload(rows))
<1>1. /\ call.rows \in Seq(Row) /\ Len(call.rows) \in Nat /\ call.width \in {1, 6}
      /\ call.rows \in Rows /\ call.dups \in BOOLEAN
      /\ call.tool # "run_select" => ~call.dups
      /\ maxRows \in Nat /\ maxResultBytes \in Nat
      /\ call.tool # "describe_schema" => call.width = 1
      /\ call.tool \in {"run_select", "explain", "sample_rows", "describe_schema"}
  BY CallFacts, ConstantsAssumption
<1>2. rows \in Seq(Row) /\ rows \in Rows /\ Sum(rows) \in Nat
  BY WantedFacts, SumOfRows
<1>3. CASE call.tool = "describe_schema"
  <2>1. rows = call.rows
    BY <1>3 DEF Wanted, MainOf
  <2>2. CASE Listing(rows)
    <3>1. Payload(rows) = Ok(rows, FALSE)
      BY <1>1, <1>3, <2>2 DEF Payload
    <3> QED
      BY <1>2, <1>3, <2>1, <2>2, <3>1, RightOk DEF Listing
  <2>3. CASE ~Listing(rows)
    <3>1. Payload(rows) = TooLarge
      BY <1>1, <1>3, <2>3 DEF Payload
    <3>2. Asked(call) = Len(call.rows) /\ First(Len(call.rows), call.rows) = call.rows
      BY <1>1, <1>3, FirstFacts DEF Asked
    <3>3. call.width * Sum(First(Asked(call), call.rows)) > maxResultBytes
      BY <1>1, <1>2, <2>1, <2>3, <3>2 DEF Listing
    <3>4. TooLarge \in Answer
      BY NoRows DEF Answer, TooLarge
    <3> QED
      BY <3>1, <3>3, <3>4 DEF Right, TooLarge
  <2> QED
    BY <2>2, <2>3
<1>4. CASE call.tool = "sample_rows"
  <2>1. Payload(rows) = Ok(rows, FALSE)
    BY <1>1, <1>4 DEF Payload
  <2>2. rows = First(Asked(call), call.rows)
    BY <1>4 DEF Wanted, MainOf, Asked, Limit
  <2>3. call.width * Sum(rows) <= maxResultBytes
    BY <1>1, <1>2, <1>4
  <2> QED
    BY <1>2, <1>4, <2>1, <2>2, <2>3, RightOk
<1>5. CASE call.tool \in {"run_select", "explain"} /\ call.dups
  <2>1. Payload(rows) = Error
    BY <1>5 DEF Payload
  <2> QED
    BY <2>1, RightErrors
<1>6. CASE call.tool \in {"run_select", "explain"} /\ ~call.dups
  <2>1. Payload(rows) = Ok(First(maxRows, rows), Len(rows) > maxRows)
    BY <1>6 DEF Payload
  <2>2. /\ First(maxRows, rows) = First(maxRows, call.rows)
        /\ Len(rows) > maxRows <=> Len(call.rows) > maxRows
    <3>1. CASE call.tool = "explain"
      BY <3>1 DEF Wanted, MainOf
    <3>2. CASE call.tool = "run_select"
      <4>1. rows = First(maxRows + 1, call.rows)
        BY <3>2 DEF Wanted, MainOf, FetchCount
      <4>2. First(maxRows, rows) = First(maxRows, call.rows)
        BY <1>1, <4>1, FirstOfFirst
      <4>3. Len(rows) = Least(maxRows + 1, Len(call.rows))
        <5>1. maxRows + 1 \in Nat
          BY <1>1
        <5> QED
          BY <1>1, <4>1, <5>1, FirstFacts
      <4> QED
        BY <1>1, <4>2, <4>3 DEF Least
    <3> QED
      BY <1>6, <3>1, <3>2
  <2>3. First(maxRows, rows) \in Seq(Row) /\ First(maxRows, rows) \in Rows
    BY <1>1, <1>2, FirstIsRows
  <2>4. Sum(First(maxRows, rows)) <= Sum(rows) /\ Sum(First(maxRows, rows)) \in Nat
    BY <1>1, <1>2, <2>3, FirstRows, SumOfRows
  <2>5. call.width * Sum(First(maxRows, rows)) <= maxResultBytes
    BY <1>1, <1>2, <1>6, <2>4
  <2> QED
    <3>1. (Len(rows) > maxRows) \in BOOLEAN
      OBVIOUS
    <3>2. call.tool # "sample_rows" /\ call.tool # "describe_schema"
      BY <1>6
    <3>3. Right(call, Ok(First(maxRows, rows), Len(rows) > maxRows))
      BY <1>6, <2>2, <2>3, <2>5, <3>1, <3>2, RightOk, Zenon
    <3> QED
      BY <2>1, <3>3
<1> QED
  BY <1>1, <1>3, <1>4, <1>5, <1>6

--------------------------------------------------------------------------------
(* The tool's steps.                                                       *)

LEMMA RightIsTrue ==
  ASSUME call' \in Calls, Right(call', answer')
  PROVE  AnswerTrue' /\ AnswerBounded'
<1>1. call'.tool \in {"run_select", "explain", "sample_rows", "describe_schema"}
  <2>1. DOMAIN Body = {"run_select", "explain", "sample_rows", "describe_schema"}
    BY DEF Body
  <2> QED
    BY <2>1 DEF Calls
<1>2. RowsExact'
  <2> SUFFICES ASSUME answer'.kind = "ok"
      PROVE  CASE call'.tool \in {"run_select", "explain"} ->
                    /\ answer'.rows = First(maxRows, call'.rows)
                    /\ answer'.truncated <=> Len(call'.rows) > maxRows
               [] call'.tool = "sample_rows" ->
                    answer'.rows = First(Least(call'.requested, Least(MaxSample, maxRows)), call'.rows)
               [] OTHER -> answer'.rows = call'.rows
    BY DEF RowsExact
  <2>1. CASE call'.tool \in {"run_select", "explain"}
    <3>1. /\ answer'.rows = First(maxRows, call'.rows)
          /\ answer'.truncated <=> Len(call'.rows) > maxRows
      BY <2>1, Zenon DEF Right
    <3> QED
      BY <2>1, <3>1
  <2>2. CASE call'.tool = "sample_rows"
    BY <2>2 DEF Right, Asked
  <2>3. CASE call'.tool = "describe_schema"
    BY <2>3 DEF Right
  <2> QED
    BY <1>1, <2>1, <2>2, <2>3
<1>3. TooLargeTrue'
  BY DEF TooLargeTrue, Right, Asked
<1>4. AnswerBounded'
  BY DEF AnswerBounded, Right
<1> QED
  BY <1>2, <1>3, <1>4 DEF AnswerTrue

\* The call ends with a right answer.
LEMMA LeaveStep ==
  ASSUME IInv, phase = "running", NEW a, Leave(a), Right(call, a),
         UNCHANGED <<call, backendVars>>,
         refused' \in BOOLEAN, got' \in Rows, kept' \in Rows,
         sock' \in {"open", "closed"}, wire' \in Seq(Message), begun' = FALSE
  PROVE  IInv'
<1> USE DEF Leave, backendVars
<1>1. Script' = Script
  BY DEF Script
<1>2. TypeOK'
  BY <1>1 DEF IInv, TypeOK, Message, Right
<1>3. Stages'
  BY DEF IInv, Stages
<1>4. InStep'
  BY <1>1 DEF IInv, InStep, Stages
<1>5. PinnedSoFar' /\ KeptWhole' /\ Exchange' /\ Reading'
  BY <1>1 DEF IInv, PinnedSoFar, KeptWhole, Exchange, Reading
<1>6. AnswerTrue' /\ AnswerBounded'
  <2>1. call' \in Calls /\ Right(call', answer')
    BY DEF IInv, TypeOK
  <2> QED
    BY <2>1, RightIsTrue
<1> QED
  BY <1>2, <1>3, <1>4, <1>5, <1>6 DEF IInv

\* The first statement is sent, or the next one when the awaited one succeeded.
LEMMA SendStep ==
  ASSUME IInv, phase \in {"connecting", "running"}, step < Len(Script), Send(step + 1),
         UNCHANGED <<call, refused, backendVars>>, running = None,
         step > 0 /\ Script[step] \in Settings => Script[step] \in pins,
         kept' \in Rows, KeptWhole', sock' = "open", begun' = FALSE,
         wire' = <<>> \/ (backend = "gone" /\ wire' = <<Failure(0)>>)
  PROVE  IInv'
<1> USE DEF Send, backendVars
<1>1. Script' = Script /\ call \in Calls /\ step \in Nat
  <2>1. Script' = Script
    BY DEF Script
  <2> QED
    BY <2>1 DEF IInv, TypeOK
<1>2. step + 1 \in 1..Len(Script) /\ Len(Script) \in Nat /\ Script[step + 1] \in Statements
  BY <1>1, ScriptFacts
<1>3. wire' \in Seq(Message)
  <2>1. <<>> \in Seq(Message)
    OBVIOUS
  <2>2. <<Failure(0)>> \in Seq(Message)
    BY <1>1, OnlyAnError
  <2> QED
    BY <2>1, <2>2
<1>4. TypeOK'
  <2>1. step' \in 0..Len(Script) /\ request' \in Statements /\ limited' \in BOOLEAN
    BY <1>2
  <2> QED
    BY <1>1, <1>3, <2>1, NoRows DEF IInv, TypeOK, Message
<1>5. Stages'
  <2>1. limited' <=> Script'[step'] = "EXPLAIN"
    BY <1>1, Zenon
  <2>2. step' > 0 /\ ~refused' /\ answer' = None
    BY <1>1 DEF IInv, Stages
  <2>3. backend' = "busy" <=> running' # None
    BY DEF IInv, Stages
  <2> QED
    BY <2>1, <2>2, <2>3 DEF Stages
<1>6. InStep'
  BY <1>1, <1>2 DEF IInv, InStep
<1>7. PinnedSoFar'
  <2> SUFFICES ASSUME NEW i \in 1..step, Script[i] \in Settings PROVE Script[i] \in pins
    BY <1>1, <1>2 DEF PinnedSoFar
  <2>1. CASE i = step
    BY <2>1
  <2>2. CASE i # step
    <3>1. i \in 1..(step - 1)
      BY <1>1, <2>2
    <3> QED
      BY <3>1 DEF IInv, PinnedSoFar
  <2> QED
    BY <2>1, <2>2
<1>8. Exchange'
  <2>1. CASE wire' = <<>>
    BY <2>1 DEF Exchange
  <2>2. CASE backend = "gone" /\ wire' = <<Failure(0)>>
    <3>1. OneReply(call, Script[step + 1], 0, Failure(0), 0, <<>>, <<Failure(0)>>)
      BY <1>1, OnlyAnError
    <3> QED
      BY <1>1, <2>2, <3>1, OnlyAnError DEF Exchange, Failure, Ready
  <2> QED
    BY <2>1, <2>2
<1>9. AnswerTrue' /\ AnswerBounded'
  BY DEF IInv, AnswerTrue, RowsExact, TooLargeTrue, AnswerBounded
<1>10. Reading'
  BY DEF Reading
<1> QED
  BY <1>4, <1>5, <1>6, <1>7, <1>8, <1>9, <1>10 DEF IInv

LEMMA ConnectedStep == IInv /\ Connected => IInv'
<1> SUFFICES ASSUME IInv, Connected PROVE IInv'
  OBVIOUS
<1> USE DEF Connected
<1>1. step = 0 /\ running = None /\ ~refused /\ wire = <<>> /\ begun = FALSE
  BY DEF IInv, Stages, TypeOK, Reading
<1>2. step < Len(Script)
  <2>1. Len(Script) \in Nat /\ MainAt \in 8..Len(Script)
    BY ScriptFacts DEF IInv, TypeOK
  <2> QED
    BY <1>1, <2>1
<1>3. KeptWhole'
  BY <1>1 DEF KeptWhole, Send
<1>4. kept' \in Rows /\ begun' = FALSE /\ wire' = <<>>
  BY <1>1 DEF IInv, TypeOK
<1>5. /\ phase = "connecting" /\ Send(step + 1) /\ sock' = "open"
      /\ UNCHANGED <<call, refused, backendVars>>
  BY <1>1
<1>6. /\ step > 0 /\ Script[step] \in Settings => Script[step] \in pins
      /\ phase \in {"connecting", "running"}
      /\ wire' = <<>> \/ (backend = "gone" /\ wire' = <<Failure(0)>>)
  BY <1>1, <1>4, <1>5
<1> HIDE DEF Connected
<1> QED
  <2>1. running = None /\ sock' = "open" /\ begun' = FALSE /\ kept' \in Rows
    BY <1>1, <1>4, <1>5
  <2>2. UNCHANGED <<call, refused, backendVars>> /\ Send(step + 1)
    BY <1>5
  <2> QED
    BY <1>2, <1>3, <1>6, <2>1, <2>2, SendStep

LEMMA QueryTimeoutStep == IInv /\ QueryTimeout => IInv'
<1> SUFFICES ASSUME IInv, QueryTimeout PROVE IInv'
  OBVIOUS
<1> USE DEF QueryTimeout, Throw, Done
<1>1. call \in Calls /\ refused' \in BOOLEAN /\ got' \in Rows /\ kept' \in Rows
  BY DEF IInv, TypeOK
<1>2. Right(call, Error)
  BY <1>1, RightErrors
<1>3. wire' \in Seq(Message)
  OBVIOUS
<1> QED
  BY <1>1, <1>2, <1>3, LeaveStep

LEMMA ConnectionLostStep == IInv /\ ConnectionLost => IInv'
<1> SUFFICES ASSUME IInv, ConnectionLost PROVE IInv'
  OBVIOUS
<1> USE DEF ConnectionLost, Throw, Done
<1>1. call \in Calls /\ refused' \in BOOLEAN /\ wire' \in Seq(Message)
  BY DEF IInv, TypeOK
<1>2. CASE phase = "running"
  <2>1. Right(call, Error) /\ got' \in Rows /\ kept' \in Rows
    BY <1>1, <1>2, RightErrors DEF IInv, TypeOK
  <2> QED
    BY <1>1, <1>2, <2>1, LeaveStep
<1>3. CASE phase # "running"
  <2>1. Script' = Script
    BY DEF Script
  <2>2. TypeOK'
    BY <1>1, <1>3, <2>1 DEF IInv, TypeOK, Message, backendVars
  <2>3. phase \notin {"idle", "connecting"}
    BY DEF IInv, Stages
  <2>4. Stages' /\ InStep' /\ PinnedSoFar' /\ KeptWhole' /\ Exchange' /\ Reading'
    BY <1>3, <2>1, <2>3
    DEF IInv, Stages, InStep, PinnedSoFar, KeptWhole, Exchange, Reading, backendVars
  <2>5. AnswerTrue' /\ AnswerBounded'
    BY <1>3 DEF IInv, AnswerTrue, RowsExact, TooLargeTrue, AnswerBounded
  <2> QED
    BY <2>2, <2>4, <2>5 DEF IInv
<1> QED
  BY <1>2, <1>3

--------------------------------------------------------------------------------
(* A chunk is read.                                                        *)

\* What was parsed, and j more messages that are rows, are the first rows.
LEMMA MoreRows ==
  ASSUME NEW W \in Seq(Row), NEW g \in Nat, NEW j \in Nat, g + j <= Len(W),
         NEW w \in Seq(Message), j <= Len(w), \A i \in 1..j : w[i] = W[g + i]
  PROVE  First(g, W) \o First(j, w) = First(g + j, W)
<1>1. Len(W) \in Nat /\ Len(w) \in Nat /\ g + j \in Nat
  OBVIOUS
<1>2. Least(g, Len(W)) = g /\ Least(j, Len(w)) = j /\ Least(g + j, Len(W)) = g + j
  BY <1>1 DEF Least
<1>3. /\ First(g, W) \in Seq(Row) /\ Len(First(g, W)) = g
      /\ \A i \in 1..g : First(g, W)[i] = W[i]
  BY <1>2, FirstFacts
<1>4. /\ First(j, w) \in Seq(Message) /\ Len(First(j, w)) = j
      /\ \A i \in 1..j : First(j, w)[i] = w[i]
  BY <1>2, FirstFacts
<1>5. /\ First(g + j, W) \in Seq(Row) /\ Len(First(g + j, W)) = g + j
      /\ \A i \in 1..(g + j) : First(g + j, W)[i] = W[i]
  BY <1>1, <1>2, FirstFacts
<1>6. PICK a \in Seq(Message), b \in Seq(Message), c \in Seq(Message) :
        a = First(g, W) /\ b = First(j, w) /\ c = First(g + j, W)
  <2>1. First(g, W) \in Seq(Message) /\ First(g + j, W) \in Seq(Message)
    BY <1>3, <1>5, RowsAreMessages
  <2> QED
    BY <1>4, <2>1, Zenon
<1>7. Len(a \o b) = g + j /\ Len(c) = g + j /\ a \o b \in Seq(Message)
  <2>1. Len(a) = g /\ Len(b) = j /\ Len(c) = g + j
    BY <1>3, <1>4, <1>5, <1>6
  <2>2. Len(a \o b) = Len(a) + Len(b) /\ a \o b \in Seq(Message)
    OBVIOUS
  <2> QED
    BY <2>1, <2>2
<1>8. ASSUME NEW i \in 1..(g + j) PROVE (a \o b)[i] = c[i]
  <2>1. c[i] = W[i] /\ Len(a) = g /\ Len(b) = j
    BY <1>3, <1>4, <1>5, <1>6
  <2>2. CASE i \in 1..g
    <3>1. (a \o b)[i] = a[i]
      BY <2>1, <2>2
    <3> QED
      BY <1>3, <1>6, <2>1, <2>2, <3>1
  <2>3. CASE i \notin 1..g
    <3>1. i - g \in 1..j /\ g + (i - g) = i
      BY <2>3
    <3>2. (a \o b)[i] = b[i - g]
      <4>1. \A x \in 1..Len(b) : (a \o b)[Len(a) + x] = b[x]
        OBVIOUS
      <4> QED
        BY <2>1, <3>1, <4>1
    <3>3. b[i - g] = w[i - g] /\ w[i - g] = W[i]
      BY <1>4, <1>6, <3>1
    <3> QED
      BY <2>1, <3>2, <3>3
  <2> QED
    BY <2>2, <2>3
<1>9. a \o b = c
  BY <1>7, <1>8, SeqEqual
<1> QED
  BY <1>6, <1>9

\* What is parsed with the first j messages of the wire; what the parser has, and
\* what the guard has seen, of a chunk that reaches into message k.
Up(j) == got \o First(j, wire)
Parsed(k, whole) == Up(IF whole /\ IsRow(wire[k]) THEN k ELSE k - 1)
Seen(k) == Up(IF IsRow(wire[k]) THEN k ELSE k - 1)

\* The last message of a chunk is a row of the reply or its end.
Chunk(k, n, e, died) ==
  LET W == Wanted(call, Script[step])
  IN  /\ OneReply(call, Script[step], n, e, died, got, wire)
      /\ e = Ready /\ Script[step] \in Settings => Script[step] \in pins
      /\ died = 1 => backend = "gone"
      /\ Len(got) \in Nat /\ n \in Nat /\ Len(got) <= n /\ n <= Len(W)
      /\ k <= n - Len(got) + 1 /\ k <= Len(wire) /\ n - Len(got) + 1 <= Len(wire)
      /\ running = None /\ (request = None \/ backend = "gone")

LEMMA Chunks ==
  ASSUME IInv, phase = "running", NEW k \in 1..Len(wire),
         \A i \in 1..(k - 1) : IsRow(wire[i]) /\ ~TooLong(wire[i])
  PROVE  \E n \in 0..Len(Wanted(call, Script[step])), e \in Endings, died \in {0, 1} :
           Chunk(k, n, e, died)
<1> DEFINE W == Wanted(call, Script[step])
<1>1. wire \in Seq(Message) /\ got \in Seq(Row) /\ W \in Seq(Row)
  BY WantedFacts, RowsFacts DEF IInv, TypeOK, Message
<1>2. Len(wire) \in Nat /\ Len(got) \in Nat /\ Len(W) \in Nat /\ wire # <<>>
  BY <1>1
<1>3. PICK n \in 0..Len(W), e \in Endings, died \in {0, 1} :
        /\ OneReply(call, Script[step], n, e, died, got, wire)
        /\ e = Ready /\ Script[step] \in Settings => Script[step] \in pins
        /\ died = 1 => backend = "gone"
  BY <1>2 DEF IInv, Exchange
<1>4. running = None /\ (request = None \/ backend = "gone")
  BY <1>2 DEF IInv, Exchange
<1> HIDE DEF W
<1>5. /\ n \in Nat /\ Len(got) <= n /\ n <= Len(W) /\ n - Len(got) + 1 <= Len(wire)
      /\ wire[n - Len(got) + 1] = e
  BY <1>2, <1>3 DEF OneReply
<1>6. k <= n - Len(got) + 1
  <2> SUFFICES ASSUME k > n - Len(got) + 1 PROVE FALSE
    BY <1>2, <1>5
  <2>1. n - Len(got) + 1 \in 1..(k - 1)
    BY <1>2, <1>5
  <2>2. IsRow(e)
    BY <1>5, <2>1
  <2> QED
    BY <2>2, MessageFacts
<1>7. Chunk(k, n, e, died)
  BY <1>2, <1>3, <1>4, <1>5, <1>6 DEF Chunk, W
<1> QED
  BY <1>7 DEF W

\* What is parsed with j more rows of the reply stays its first rows, and is within
\* the byte cap unless the statement is an EXPLAIN.
LEMMA ChunkOfRows ==
  ASSUME IInv, NEW k \in 1..Len(wire), NEW n \in Nat, NEW e \in Endings, NEW died \in {0, 1},
         Chunk(k, n, e, died), NEW j \in Nat, j <= n - Len(got)
  PROVE  LET W == Wanted(call, Script[step])
         IN  /\ Up(j) = First(Len(got) + j, W) /\ Len(Up(j)) = Len(got) + j
             /\ OneReply(call, Script[step], n, e, died, Up(j), SubSeq(wire, j + 1, Len(wire)))
             /\ Script[step] # "EXPLAIN" => Sum(Up(j)) <= maxResultBytes
<1> DEFINE st == Script[step]
           W == Wanted(call, st)
           g == Len(got)
           rest == SubSeq(wire, j + 1, Len(wire))
<1>1. /\ wire \in Seq(Message) /\ got \in Seq(Row) /\ W \in Seq(Row)
      /\ Len(wire) \in Nat /\ Len(W) \in Nat
  <2>1. wire \in Seq(Message) /\ got \in Seq(Row) /\ W \in Seq(Row)
    BY WantedFacts, RowsFacts DEF IInv, TypeOK, Message
  <2> QED
    BY <2>1
<1>2. /\ g \in Nat /\ g <= n /\ n <= Len(W) /\ n - g + 1 <= Len(wire)
      /\ OneReply(call, st, n, e, died, got, wire)
  BY DEF Chunk
<1> HIDE DEF W, g, st
<1>3. /\ Ends(call, st, n, e) /\ got = First(g, W) /\ Len(wire) = n - g + 1 + died
      /\ \A i \in 1..(n - g) : wire[i] = W[g + i]
      /\ wire[n - g + 1] = e
      /\ died = 1 => wire[Len(wire)] = Failure(0)
  BY <1>2 DEF OneReply, W, g
<1>4. j <= n - g
  BY DEF g
<1>5. st # "EXPLAIN" => Sum(First(n, W)) <= maxResultBytes
  BY <1>3 DEF Ends, W
<1>6. First(g, W) \o First(j, wire) = First(g + j, W)
  <2>1. g + j <= Len(W) /\ j <= Len(wire) /\ \A i \in 1..j : wire[i] = W[g + i]
    BY <1>1, <1>2, <1>3, <1>4
  <2> QED
    BY <1>1, <1>2, <2>1, MoreRows
<1>7. Up(j) = First(g + j, W)
  BY <1>3, <1>6 DEF Up
<1>8. Len(Up(j)) = g + j
  <2>1. g + j \in Nat /\ Least(g + j, Len(W)) = g + j
    BY <1>1, <1>2, <1>4 DEF Least
  <2> QED
    BY <1>1, <1>7, <2>1, FirstFacts
<1>9. /\ Len(rest) = Len(wire) - j
      /\ \A i \in 1..(Len(wire) - j) : rest[i] = wire[j + i]
  <2>1. j <= Len(wire)
    BY <1>1, <1>2, <1>4
  <2> QED
    BY <1>1, <2>1
<1>10. OneReply(call, st, n, e, died, Up(j), rest)
  <2> HIDE DEF rest
  <2>1. g + j <= n /\ Len(rest) = n - (g + j) + 1 + died
    BY <1>1, <1>2, <1>3, <1>4, <1>9, SMTT(30)
  <2>2. ASSUME NEW i \in 1..(n - (g + j)) PROVE rest[i] = W[(g + j) + i]
    <3>1. j + i \in 1..(n - g) /\ i \in 1..(Len(wire) - j) /\ g + (j + i) = (g + j) + i
      BY <1>1, <1>2, <1>3, <1>4
    <3> QED
      BY <1>3, <1>9, <3>1
  <2>3. rest[n - (g + j) + 1] = e
    <3>1. /\ n - (g + j) + 1 \in 1..(Len(wire) - j)
          /\ j + (n - (g + j) + 1) = n - g + 1
      BY <1>1, <1>2, <1>3, <1>4
    <3> QED
      BY <1>3, <1>9, <3>1
  <2>4. died = 1 => rest[Len(rest)] = Failure(0)
    <3>1. Len(rest) \in 1..(Len(wire) - j) /\ j + Len(rest) = Len(wire)
      BY <1>1, <1>2, <1>3, <1>4, <1>9
    <3> QED
      BY <1>3, <1>9, <3>1
  <2> QED
    BY <1>3, <1>7, <1>8, <2>1, <2>2, <2>3, <2>4 DEF OneReply, W
<1>11. st # "EXPLAIN" => Sum(Up(j)) <= maxResultBytes
  <2>1. g + j \in Nat /\ g + j <= n
    BY <1>1, <1>2, <1>4
  <2>2. Sum(First(g + j, W)) <= Sum(First(n, W))
    BY <1>1, <2>1, FirstRows
  <2>3. First(g + j, W) \in Seq(Row) /\ First(n, W) \in Seq(Row)
    BY <1>1, <2>1, FirstFacts
  <2>4. Sum(First(g + j, W)) \in Nat /\ Sum(First(n, W)) \in Nat /\ maxResultBytes \in Nat
    BY <2>3, SumOfRows, ConstantsAssumption
  <2> QED
    BY <1>5, <1>7, <2>2, <2>4
<1> QED
  BY <1>7, <1>8, <1>10, <1>11 DEF st, W, g

\* Its last message is a row: only an EXPLAIN sends one that is too long.
LEMMA ChunkRow ==
  ASSUME IInv, NEW k \in 1..Len(wire), NEW n \in Nat, NEW e \in Endings, NEW died \in {0, 1},
         Chunk(k, n, e, died), k <= n - Len(got)
  PROVE  LET W == Wanted(call, Script[step])
         IN  /\ IsRow(wire[k]) /\ wire[k].kind = "row"
             /\ TooLong(wire[k]) => Script[step] = "EXPLAIN" /\ Sum(W) > maxResultBytes
<1> DEFINE st == Script[step]
           W == Wanted(call, st)
           g == Len(got)
<1>1. /\ wire \in Seq(Message) /\ got \in Seq(Row) /\ W \in Seq(Row)
      /\ Len(wire) \in Nat /\ Len(W) \in Nat /\ k \in Nat /\ k >= 1
  <2>1. wire \in Seq(Message) /\ got \in Seq(Row) /\ W \in Seq(Row)
    BY WantedFacts, RowsFacts DEF IInv, TypeOK, Message
  <2> QED
    BY <2>1
<1>2. /\ g \in Nat /\ g <= n /\ n <= Len(W)
      /\ OneReply(call, st, n, e, died, got, wire)
  BY DEF Chunk
<1> HIDE DEF W, g, st
<1>3. Ends(call, st, n, e) /\ \A i \in 1..(n - g) : wire[i] = W[g + i]
  BY <1>2 DEF OneReply, W, g
<1>4. k <= n - g
  BY DEF g
<1>5. wire[k] = W[g + k] /\ W[g + k] \in Row
  <2>1. k \in 1..(n - g) /\ g + k \in 1..Len(W)
    BY <1>1, <1>2, <1>4
  <2>2. W[g + k] \in Row
    BY <1>1, <2>1, ElementOfSeq
  <2> QED
    BY <1>3, <2>1, <2>2
<1>6. IsRow(wire[k]) /\ wire[k].kind = "row"
  BY <1>5 DEF Row, IsRow
<1>7. st # "EXPLAIN" => Sum(First(n, W)) <= maxResultBytes
  BY <1>3 DEF Ends, W
<1>8. ASSUME TooLong(wire[k])
      PROVE  st = "EXPLAIN" /\ Sum(W) > maxResultBytes
  <2>1. /\ W[g + k].bytes > messageLimit /\ W[g + k].bytes \in Nat
        /\ maxResultBytes <= messageLimit /\ maxResultBytes \in Nat /\ messageLimit \in Nat
    BY <1>5, <1>8, ConstantsAssumption DEF TooLong, Row
  <2>2. W[g + k].bytes <= Sum(W) /\ Sum(W) \in Nat
    <3>1. Messages(W) /\ g + k \in 1..Len(W)
      BY <1>1, <1>2, <1>4, RowsFacts
    <3> QED
      BY <3>1, SumFacts
  <2>3. W[g + k].bytes <= Sum(First(n, W)) /\ Sum(First(n, W)) \in Nat
    <3>1. /\ First(n, W) \in Seq(Row) /\ Len(First(n, W)) = n
          /\ \A i \in 1..n : First(n, W)[i] = W[i]
      <4>1. Least(n, Len(W)) = n
        BY <1>1, <1>2 DEF Least
      <4> QED
        BY <1>1, <4>1, FirstFacts
    <3>2. Messages(First(n, W)) /\ g + k \in 1..n
      BY <1>1, <1>2, <1>4, <3>1, RowsFacts
    <3>3. First(n, W)[g + k].bytes <= Sum(First(n, W)) /\ Sum(First(n, W)) \in Nat
      BY <3>1, <3>2, SumFacts
    <3> QED
      BY <3>1, <3>2, <3>3
  <2> QED
    BY <1>7, <2>1, <2>2, <2>3
<1> QED
  BY <1>6, <1>8 DEF st, W, g

\* Its last message ends the reply: all the rows of the reply are parsed.
LEMMA ChunkToEnd ==
  ASSUME IInv, NEW k \in 1..Len(wire), NEW n \in Nat, NEW e \in Endings, NEW died \in {0, 1},
         Chunk(k, n, e, died), k = n - Len(got) + 1
  PROVE  LET W == Wanted(call, Script[step])
         IN  /\ wire[k] = e /\ Up(k - 1) = First(n, W)
             /\ Script[step] # "EXPLAIN" => Sum(Up(k - 1)) <= maxResultBytes
             /\ \/ SubSeq(wire, k + 1, Len(wire)) = <<>>
                \/ backend = "gone" /\ SubSeq(wire, k + 1, Len(wire)) = <<Failure(0)>>
<1> DEFINE st == Script[step]
           W == Wanted(call, st)
           g == Len(got)
           rest == SubSeq(wire, k + 1, Len(wire))
<1>1. /\ wire \in Seq(Message) /\ got \in Seq(Row) /\ W \in Seq(Row)
      /\ Len(wire) \in Nat /\ Len(W) \in Nat /\ k \in Nat /\ k >= 1
  <2>1. wire \in Seq(Message) /\ got \in Seq(Row) /\ W \in Seq(Row)
    BY WantedFacts, RowsFacts DEF IInv, TypeOK, Message
  <2> QED
    BY <2>1
<1>2. /\ g \in Nat /\ g <= n /\ n <= Len(W) /\ n - g + 1 <= Len(wire)
      /\ OneReply(call, st, n, e, died, got, wire)
      /\ died = 1 => backend = "gone"
  BY DEF Chunk
<1> HIDE DEF W, g, st
<1>3. /\ Ends(call, st, n, e) /\ got = First(g, W) /\ Len(wire) = n - g + 1 + died
      /\ \A i \in 1..(n - g) : wire[i] = W[g + i]
      /\ wire[n - g + 1] = e
      /\ died = 1 => wire[Len(wire)] = Failure(0)
  BY <1>2 DEF OneReply, W, g
<1>4. k = n - g + 1
  BY DEF g
<1>5. wire[k] = e /\ ~IsRow(wire[k])
  BY <1>3, <1>4, MessageFacts
<1>6. Up(k - 1) = First(n, W)
  <2>1. Up(k - 1) = got \o First(k - 1, wire)
    BY DEF Up
  <2>2. First(g, W) \o First(k - 1, wire) = First(g + (k - 1), W)
    <3>1. /\ g + (k - 1) <= Len(W) /\ k - 1 <= Len(wire) /\ k - 1 \in Nat
          /\ \A i \in 1..(k - 1) : wire[i] = W[g + i]
      BY <1>1, <1>2, <1>3, <1>4
    <3> QED
      BY <1>1, <1>2, <3>1, MoreRows
  <2>3. g + (k - 1) = n
    BY <1>1, <1>2, <1>4
  <2> QED
    BY <1>3, <2>1, <2>2, <2>3
<1>7. st # "EXPLAIN" => Sum(Up(k - 1)) <= maxResultBytes
  BY <1>3, <1>6 DEF Ends, W
<1>8. rest = <<>> \/ (backend = "gone" /\ rest = <<Failure(0)>>)
  <2>1. /\ rest \in Seq(Message) /\ Len(rest) = died
        /\ \A i \in 1..died : rest[i] = wire[k + i]
    <3>1. /\ rest \in Seq(Message) /\ Len(rest) = Len(wire) - k
          /\ \A i \in 1..(Len(wire) - k) : rest[i] = wire[k + i]
      BY <1>1
    <3>2. Len(wire) - k = died
      BY <1>2, <1>3, <1>4
    <3> HIDE DEF rest
    <3> QED
      BY <3>1, <3>2
  <2>2. CASE died = 0
    BY <2>1, <2>2
  <2>3. CASE died = 1
    <3> HIDE DEF rest
    <3>1. rest[1] = Failure(0)
      <4>1. k + 1 = Len(wire)
        BY <1>1, <1>2, <1>3, <1>4, <2>3
      <4>2. rest[1] = wire[k + 1]
        BY <2>1, <2>3
      <4> QED
        BY <1>3, <2>3, <4>1, <4>2
    <3>2. rest = <<Failure(0)>>
      BY <2>1, <2>3, <3>1
    <3> QED
      BY <1>2, <2>3, <3>2
  <2> QED
    BY <2>2, <2>3
<1> QED
  BY <1>5, <1>6, <1>7, <1>8 DEF st, W

\* What is awaited, and what a chunk that reaches into message k can show.
Awaited == Wanted(call, Script[step])

Shown(k) ==
  /\ Seen(k) \in Rows /\ Up(k - 1) \in Rows
  /\ Len(Seen(k)) <= Len(Awaited) /\ Len(Up(k - 1)) <= Len(Awaited)
  /\ Sum(Up(k - 1)) <= Sum(Seen(k))
  /\ wire[k].kind \in {"row", "ready", "capped", "failure"}
  /\ Over(Seen(k)) => Script[step] = "EXPLAIN" /\ Sum(Awaited) > maxResultBytes
  /\ Script[step] # "EXPLAIN" /\ ~TooLong(wire[k]) => Sum(Seen(k)) <= maxResultBytes
  /\ wire[k].kind = "ready" =>
       /\ Up(k - 1) = Awaited
       /\ Script[step] \in Settings => Script[step] \in pins
       /\ \/ SubSeq(wire, k + 1, Len(wire)) = <<>>
          \/ backend = "gone" /\ SubSeq(wire, k + 1, Len(wire)) = <<Failure(0)>>
  /\ wire[k].kind = "capped" => Sum(Awaited) > maxResultBytes
  /\ TooLong(wire[k]) => call.error = "huge" \/ Sum(Awaited) > maxResultBytes
  /\ running = None

LEMMA ChunkFacts ==
  ASSUME IInv, phase = "running", NEW k \in 1..Len(wire),
         \A i \in 1..(k - 1) : IsRow(wire[i]) /\ ~TooLong(wire[i])
  PROVE  Shown(k)
<1> DEFINE st == Script[step]
           g  == Len(got)
<1>1. PICK n \in 0..Len(Awaited), e \in Endings, died \in {0, 1} : Chunk(k, n, e, died)
  BY Chunks DEF Awaited
<1>2. call \in Calls /\ (limited <=> st = "EXPLAIN") /\ messageLimit \in Nat /\ maxResultBytes \in Nat
  BY ConstantsAssumption DEF IInv, TypeOK, Stages
<1>3. Awaited \in Seq(Row) /\ Awaited \in Rows /\ Len(Awaited) \in Nat /\ Sum(Awaited) \in Nat
  BY <1>2, WantedFacts, SumOfRows DEF Awaited
<1>4. n \in Nat /\ g \in Nat /\ k <= n - g + 1 /\ k \in Nat /\ k >= 1 /\ n <= Len(Awaited)
      /\ running = None
  BY <1>1, <1>3 DEF Chunk
<1>5. /\ Ends(call, st, n, e)
      /\ e = Ready /\ st \in Settings => st \in pins
  BY <1>1 DEF Chunk, OneReply
\* With j more rows, the first g + j rows of the reply are parsed.
<1>6. ASSUME NEW j \in Nat, j <= n - g
      PROVE  /\ Up(j) = First(g + j, Awaited) /\ Up(j) \in Rows
             /\ Len(Up(j)) <= Len(Awaited)
             /\ Sum(Up(j)) <= Sum(Awaited) /\ Sum(Up(j)) \in Nat
             /\ st # "EXPLAIN" => Sum(Up(j)) <= maxResultBytes
  <2>1. /\ Up(j) = First(g + j, Awaited) /\ Len(Up(j)) = g + j
        /\ st # "EXPLAIN" => Sum(Up(j)) <= maxResultBytes
    BY <1>1, <1>4, <1>6, ChunkOfRows DEF Awaited
  <2>2. g + j \in Nat /\ g + j <= n
    BY <1>4, <1>6
  <2>3. Up(j) \in Rows /\ Up(j) \in Seq(Row)
    BY <1>3, <2>1, <2>2, FirstIsRows
  <2>4. Sum(Up(j)) <= Sum(Awaited) /\ Sum(Up(j)) \in Nat
    BY <1>3, <2>1, <2>2, <2>3, FirstRows, SumOfRows
  <2> QED
    BY <1>3, <1>4, <2>1, <2>2, <2>3, <2>4
<1>7. k - 1 \in Nat /\ k - 1 <= n - g
  BY <1>4
<1>8. CASE k <= n - g
  <2>1. /\ IsRow(wire[k]) /\ wire[k].kind = "row"
        /\ TooLong(wire[k]) => st = "EXPLAIN" /\ Sum(Awaited) > maxResultBytes
    BY <1>1, <1>4, <1>8, ChunkRow DEF Awaited
  <2>2. Seen(k) = Up(k)
    BY <2>1 DEF Seen
  <2>3. Up(k - 1) = First(g + (k - 1), Awaited) /\ Up(k) = First(g + k, Awaited)
    BY <1>4, <1>6, <1>7, <1>8
  <2>4. Sum(Up(k - 1)) <= Sum(Up(k))
    <3>1. g + (k - 1) \in Nat /\ g + k \in Nat /\ g + (k - 1) <= g + k
      BY <1>4
    <3> QED
      BY <1>3, <2>3, <3>1, FirstRows
  <2>5. /\ Up(k) \in Rows /\ Len(Up(k)) <= Len(Awaited) /\ Sum(Up(k)) <= Sum(Awaited)
        /\ Sum(Up(k)) \in Nat /\ (st # "EXPLAIN" => Sum(Up(k)) <= maxResultBytes)
    BY <1>4, <1>6, <1>8
  <2>6. Up(k - 1) \in Rows /\ Len(Up(k - 1)) <= Len(Awaited)
    BY <1>6, <1>7
  <2>7. Over(Up(k)) => st = "EXPLAIN" /\ Sum(Awaited) > maxResultBytes
    BY <1>2, <1>3, <2>5 DEF Over
  <2> QED
    BY <1>4, <2>1, <2>2, <2>4, <2>5, <2>6, <2>7 DEF Shown
<1>9. CASE k = n - g + 1
  <2>1. /\ wire[k] = e /\ Up(k - 1) = First(n, Awaited)
        /\ \/ SubSeq(wire, k + 1, Len(wire)) = <<>>
           \/ backend = "gone" /\ SubSeq(wire, k + 1, Len(wire)) = <<Failure(0)>>
    BY <1>1, <1>4, <1>9, ChunkToEnd DEF Awaited
  <2>2. ~IsRow(wire[k]) /\ Seen(k) = Up(k - 1)
    BY <2>1, MessageFacts DEF Seen
  <2>3. /\ Up(k - 1) \in Rows /\ Len(Up(k - 1)) <= Len(Awaited) /\ Sum(Up(k - 1)) <= Sum(Awaited)
        /\ Sum(Up(k - 1)) \in Nat /\ (st # "EXPLAIN" => Sum(Up(k - 1)) <= maxResultBytes)
    BY <1>6, <1>7
  <2>4. Over(Up(k - 1)) => st = "EXPLAIN" /\ Sum(Awaited) > maxResultBytes
    BY <1>2, <1>3, <2>3 DEF Over
  <2>5. \/ e = Ready /\ wire[k].kind = "ready" /\ ~TooLong(wire[k]) /\ n = Len(Awaited)
        \/ e = Capped /\ wire[k].kind = "capped" /\ ~TooLong(wire[k]) /\ Sum(Awaited) > maxResultBytes
        \/ e = Failure(0) /\ wire[k].kind = "failure" /\ ~TooLong(wire[k])
        \/ wire[k].kind = "failure" /\ call.error = "huge"
    <3>1. CASE e = Ready
      <4>1. wire[k].kind = "ready" /\ ~TooLong(wire[k])
        BY <1>2, <2>1, <3>1 DEF TooLong, Ready
      <4>2. n = Len(Awaited)
        BY <1>5, <3>1 DEF Ends, Ready, Capped, Failure, Awaited
      <4> QED
        BY <3>1, <4>1, <4>2
    <3>2. CASE e = Capped
      <4>1. wire[k].kind = "capped" /\ ~TooLong(wire[k])
        BY <1>2, <2>1, <3>2 DEF TooLong, Capped
      <4>2. Sum(Awaited) > maxResultBytes
        BY <1>5, <3>2 DEF Ends, Ready, Capped, Failure, Awaited
      <4> QED
        BY <3>2, <4>1, <4>2
    <3>3. CASE e = Failure(0)
      BY <1>2, <2>1, <3>3 DEF TooLong, Failure
    <3>4. CASE e = Failure(messageLimit + 1) /\ e # Failure(0)
      <4>1. wire[k].kind = "failure"
        BY <2>1, <3>4 DEF Failure
      <4>2. call.error = "huge"
        BY <1>5, <3>4 DEF Ends, Ready, Capped, Failure, Awaited
      <4> QED
        BY <4>1, <4>2
    <3> QED
      BY <3>1, <3>2, <3>3, <3>4 DEF Endings
  <2>6. n = Len(Awaited) => Up(k - 1) = Awaited
    BY <1>3, <2>1, FirstFacts
  <2> QED
    BY <1>4, <1>5, <2>1, <2>2, <2>3, <2>4, <2>5, <2>6 DEF Shown
<1>10. k <= n - g \/ k = n - g + 1
  BY <1>4
<1> QED
  BY <1>8, <1>9, <1>10

\* The rows of the tool's query, once the awaited statement resolved with its own.
LEMMA KeptNext ==
  ASSUME IInv, phase = "running",
         kept' = IF Script[step] \in Main THEN Awaited ELSE kept,
         Sum(Awaited) <= maxResultBytes \/ Script[step] \notin Main
  PROVE  /\ kept' \in Rows
         /\ \A i \in 1..step : Script[i] \in Main =>
              kept' = Wanted(call, Script[i]) /\ Sum(kept') <= maxResultBytes
<1>1. call \in Calls /\ step \in 1..Len(Script) /\ kept \in Rows
  BY ScriptFacts DEF IInv, TypeOK, Stages
<1>2. kept' \in Rows
  BY <1>1, WantedFacts DEF Awaited
<1>3. ASSUME NEW i \in 1..step, Script[i] \in Main
      PROVE  kept' = Wanted(call, Script[i]) /\ Sum(kept') <= maxResultBytes
  <2>1. i \in 1..Len(Script) /\ i = MainAt
    <3>1. Len(Script) \in Nat
      BY <1>1, ScriptFacts
    <3>2. i \in 1..Len(Script)
      BY <1>1, <3>1
    <3> QED
      BY <1>1, <1>3, <3>2, ScriptFacts
  <2>2. CASE Script[step] \in Main
    <3>1. step = MainAt
      BY <1>1, <2>2, ScriptFacts
    <3> QED
      BY <2>1, <2>2, <3>1 DEF Awaited
  <2>3. CASE Script[step] \notin Main
    <3>1. i \in 1..(step - 1)
      BY <1>1, <1>3, <2>3
    <3> QED
      BY <1>3, <2>3, <3>1 DEF IInv, KeptWhole
  <2> QED
    BY <2>2, <2>3
<1> QED
  BY <1>2, <1>3

\* A chunk that ends the reply with success resolves the statement.
LEMMA ResolveStep ==
  ASSUME IInv, phase = "running", NEW k \in 1..Len(wire), Shown(k), wire[k].kind = "ready",
         ~TooLong(wire[k]), Resolve(Up(k - 1)), UNCHANGED <<call, backendVars>>,
         refused' <=> Over(Up(k - 1)), refused' \in BOOLEAN, begun' = FALSE,
         sock' = IF refused' THEN "closed" ELSE sock,
         wire' = IF refused' THEN <<>> ELSE SubSeq(wire, k + 1, Len(wire)),
         wire' \in Seq(Message)
  PROVE  IInv'
<1> DEFINE st == Script[step]
<1>1. /\ call \in Calls /\ step \in 1..Len(Script) /\ Len(Script) \in Nat
      /\ sock = "open" /\ ~refused /\ running = None
      /\ call.width \in {1, 6} /\ maxResultBytes \in Nat
  BY ScriptFacts, CallFacts, ConstantsAssumption DEF IInv, TypeOK, Stages, Shown
<1>2. /\ Up(k - 1) = Awaited /\ Awaited \in Rows /\ Sum(Awaited) \in Nat
      /\ Over(Awaited) => st = "EXPLAIN" /\ Sum(Awaited) > maxResultBytes
      /\ st # "EXPLAIN" => Sum(Awaited) <= maxResultBytes
      /\ st \in Settings => st \in pins
      /\ \/ SubSeq(wire, k + 1, Len(wire)) = <<>>
         \/ backend = "gone" /\ SubSeq(wire, k + 1, Len(wire)) = <<Failure(0)>>
  <2>1. Awaited \in Rows /\ Sum(Awaited) \in Nat
    BY <1>1, WantedFacts, SumOfRows DEF Awaited
  <2>2. Seen(k) = Up(k - 1)
    BY DEF Seen, IsRow
  <2> QED
    BY <2>1, <2>2 DEF Shown
<1>3. limited <=> st = "EXPLAIN"
  BY DEF IInv, Stages
<1>4. sock' \in {"open", "closed"}
  BY <1>1
<1>5. /\ kept' = IF st \in Main THEN Awaited ELSE kept
      /\ \/ st = "EXPLAIN" /\ refused' /\ Done(TooLarge, Awaited)
         \/ st = "tables" /\ Awaited = <<>> /\ Done(Ok(<<>>, FALSE), Awaited)
         \/ ~(st = "EXPLAIN" /\ refused') /\ step < Len(Script) /\ Send(step + 1)
         \/ ~(st = "EXPLAIN" /\ refused') /\ ~(step < Len(Script)) /\ Done(Payload(kept'), Awaited)
  BY <1>2 DEF Resolve
<1>6. CASE st = "EXPLAIN" /\ refused' /\ Done(TooLarge, Awaited)
  <2>1. Sum(Wanted(call, Script[step])) > maxResultBytes
    BY <1>2, <1>6 DEF Awaited
  <2>2. Right(call, TooLarge)
    BY <1>1, <2>1, RightErrors
  <2>3. kept' \in Rows /\ got' \in Rows /\ Leave(TooLarge)
    BY <1>2, <1>5, <1>6 DEF IInv, TypeOK, Done
  <2> QED
    BY <1>4, <2>2, <2>3, LeaveStep
<1>7. CASE st = "tables" /\ Awaited = <<>> /\ Done(Ok(<<>>, FALSE), Awaited)
  <2>1. call.tool = "describe_schema" /\ call.rows = <<>>
    BY <1>1, <1>7, ScriptFacts DEF Awaited, Wanted
  <2>2. call.width * Sum(<<>>) <= maxResultBytes
    BY <1>1, SumEmpty
  <2>3. Right(call, Ok(<<>>, FALSE))
    BY <1>1, <2>1, <2>2, NoRows, RightOk
  <2>4. kept' \in Rows /\ got' \in Rows /\ Leave(Ok(<<>>, FALSE))
    BY <1>2, <1>5, <1>7 DEF IInv, TypeOK, Done
  <2> QED
    BY <1>4, <2>3, <2>4, LeaveStep
\* When the call goes on, the rows are within the cap and the stream is open.
<1>8. ASSUME ~(st = "EXPLAIN" /\ refused')
      PROVE  /\ Sum(Awaited) <= maxResultBytes /\ ~refused'
             /\ kept' \in Rows
             /\ \A i \in 1..step : Script[i] \in Main =>
                  kept' = Wanted(call, Script[i]) /\ Sum(kept') <= maxResultBytes
  <2>1. ~refused'
    BY <1>2, <1>8
  <2>2. Sum(Awaited) <= maxResultBytes
    BY <1>1, <1>2, <1>3, <2>1 DEF Over
  <2> QED
    BY <1>5, <2>1, <2>2, KeptNext
<1>9. CASE ~(st = "EXPLAIN" /\ refused') /\ step < Len(Script) /\ Send(step + 1)
  <2>1. ~refused' /\ sock' = "open" /\ wire' = SubSeq(wire, k + 1, Len(wire))
    BY <1>1, <1>8, <1>9
  <2>2. KeptWhole'
    <3>1. Script' = Script
      BY DEF Script
    <3>2. step' = step + 1 /\ step \in Nat
      BY <1>1, <1>9 DEF Send
    <3> QED
      BY <1>8, <1>9, <3>1, <3>2 DEF KeptWhole
  <2>3. UNCHANGED refused
    BY <1>1, <2>1 DEF IInv, TypeOK
  <2> QED
    BY <1>1, <1>2, <1>8, <1>9, <2>1, <2>2, <2>3, SendStep
<1>10. CASE ~(st = "EXPLAIN" /\ refused') /\ ~(step < Len(Script)) /\ Done(Payload(kept'), Awaited)
  <2>1. MainAt \in 1..step /\ Script[MainAt] \in Main /\ Script[MainAt] = MainOf[call.tool]
    <3>1. MainAt \in 1..Len(Script) /\ step = Len(Script)
      <4>1. MainAt \in 8..Len(Script)
        BY <1>1, ScriptFacts
      <4> QED
        BY <1>1, <1>10, <4>1
    <3> QED
      BY <1>1, <3>1, ScriptFacts
  <2>2. kept' = Wanted(call, MainOf[call.tool]) /\ Sum(kept') <= maxResultBytes
    BY <1>8, <1>10, <2>1
  <2>3. Right(call, Payload(kept'))
    BY <1>1, <2>2, RightPayload
  <2>4. got' \in Rows /\ Leave(Payload(kept'))
    BY <1>2, <1>10 DEF Done
  <2> QED
    BY <1>4, <1>8, <1>10, <2>3, <2>4, LeaveStep
<1> QED
  BY <1>5, <1>6, <1>7, <1>9, <1>10

\* A chunk within the reply is parsed, and j more rows of it are complete.
LEMMA ParseStep ==
  ASSUME IInv, phase = "running", NEW k \in 1..Len(wire),
         \A i \in 1..(k - 1) : IsRow(wire[i]) /\ ~TooLong(wire[i]),
         NEW whole \in BOOLEAN, whole => IsRow(wire[k]), ~TooLong(wire[k]),
         got' = Parsed(k, whole), got' \in Rows, begun' = ~whole,
         wire' = SubSeq(wire, IF whole THEN k + 1 ELSE k, Len(wire)),
         UNCHANGED <<call, phase, step, kept, limited, refused, answer, sock, request, backendVars>>
  PROVE  IInv'
<1> USE DEF backendVars
<1>1. Script' = Script /\ call \in Calls /\ wire \in Seq(Message)
  <2>1. Script' = Script
    BY DEF Script
  <2> QED
    BY <2>1 DEF IInv, TypeOK, Message
<1>2. PICK n \in 0..Len(Wanted(call, Script[step])), e \in Endings, died \in {0, 1} :
        Chunk(k, n, e, died)
  BY Chunks
<1>3. n \in Nat /\ k \in Nat /\ k >= 1 /\ Len(got) \in Nat /\ k <= n - Len(got) + 1
  BY <1>2 DEF Chunk
<1> DEFINE j == IF whole THEN k ELSE k - 1
<1>4. j \in Nat /\ j <= n - Len(got)
  <2>1. CASE ~whole
    BY <1>3, <2>1
  <2>2. CASE whole
    <3> SUFFICES ASSUME k = n - Len(got) + 1 PROVE FALSE
      BY <1>3, <2>2
    <3>1. wire[k] = e
      BY <1>2, <1>3, ChunkToEnd
    <3> QED
      BY <2>2, <3>1, MessageFacts
  <2> QED
    BY <2>1, <2>2
<1>5. got' = Up(j) /\ wire' = SubSeq(wire, j + 1, Len(wire))
  <2>1. CASE whole
    BY <2>1 DEF Parsed
  <2>2. CASE ~whole
    BY <1>3, <2>2 DEF Parsed
  <2> QED
    BY <2>1, <2>2
<1>6. wire' \in Seq(Message)
  BY <1>1, <1>3
<1> HIDE DEF j
<1>7. OneReply(call, Script[step], n, e, died, got', wire')
  <2>1. OneReply(call, Script[step], n, e, died, Up(j), SubSeq(wire, j + 1, Len(wire)))
    BY <1>2, <1>3, <1>4, ChunkOfRows
  <2> QED
    BY <1>5, <2>1
<1>8. TypeOK'
  <2>1. begun' \in BOOLEAN
    OBVIOUS
  <2> QED
    BY <1>1, <1>6, <2>1 DEF IInv, TypeOK, Message
<1>9. Stages' /\ InStep' /\ PinnedSoFar' /\ KeptWhole'
  BY <1>1 DEF IInv, Stages, InStep, PinnedSoFar, KeptWhole
<1>10. Exchange'
  BY <1>1, <1>2, <1>7 DEF Exchange, Chunk
<1>11. Reading'
  <2> SUFFICES ASSUME ~whole PROVE wire' # <<>> /\ ~TooLong(wire'[1])
    BY DEF Reading
  <2>1. Len(wire') = Len(wire) - k + 1 /\ Len(wire) \in Nat
    BY <1>1, <1>3
  <2>2. wire'[1] = wire[k]
    BY <1>1, <1>3
  <2>3. wire' # <<>>
    <3>1. Len(wire') > 0
      BY <1>3, <2>1
    <3> QED
      BY <3>1
  <2> QED
    BY <2>2, <2>3
<1>12. AnswerTrue' /\ AnswerBounded'
  BY DEF IInv, AnswerTrue, RowsExact, TooLargeTrue, AnswerBounded
<1> QED
  BY <1>8, <1>9, <1>10, <1>11, <1>12 DEF IInv

\* What a step that reads a chunk does, in the terms of these lemmas.
LEMMA ReceiveIs ==
  ASSUME IInv, NEW k \in 1..Len(wire), NEW whole \in BOOLEAN, Receive(k, whole)
  PROVE  LET cut == TooLong(wire[k]) \/ Over(Seen(k))
         IN  /\ phase = "running" /\ sock = "open" /\ refused = FALSE
             /\ \A i \in 1..(k - 1) : IsRow(wire[i]) /\ ~TooLong(wire[i])
             /\ whole => ~TooLong(wire[k])
             /\ begun /\ k = 1 => whole
             /\ Sum(SubSeq(wire, IF begun THEN 2 ELSE 1, IF whole THEN k ELSE k - 1)) <= ChunkBytes
             /\ refused' \in BOOLEAN /\ (refused' <=> cut)
             /\ sock' = IF cut THEN "closed" ELSE sock
             /\ wire' = IF cut THEN <<>> ELSE SubSeq(wire, IF whole THEN k + 1 ELSE k, Len(wire))
             /\ begun' = (~whole /\ ~cut)
             /\ UNCHANGED <<call, backendVars>>
             /\ whole /\ wire[k].kind = "ready" => Resolve(Parsed(k, whole))
             /\ whole /\ wire[k].kind = "capped" => Throw(TooLarge, Parsed(k, whole))
             /\ whole /\ wire[k].kind = "failure" => Throw(Error, Parsed(k, whole))
             /\ ~whole \/ wire[k].kind = "row" =>
                  IF cut THEN Throw(TooLarge, Parsed(k, whole))
                  ELSE got' = Parsed(k, whole)
                       /\ UNCHANGED <<phase, step, kept, limited, answer, request>>
<1> DEFINE cut  == TooLong(wire[k]) \/ Over(Seen(k))
           rows == Parsed(k, whole)
           last == IF whole THEN wire[k].kind ELSE "unparsed"
<1>1. /\ phase = "running" /\ sock = "open"
      /\ \A i \in 1..(k - 1) : IsRow(wire[i]) /\ ~TooLong(wire[i])
      /\ whole => ~TooLong(wire[k])
      /\ begun /\ k = 1 => whole
      /\ Sum(SubSeq(wire, IF begun THEN 2 ELSE 1, IF whole THEN k ELSE k - 1)) <= ChunkBytes
      /\ refused' = (refused \/ cut)
      /\ sock' = IF cut THEN "closed" ELSE sock
      /\ wire' = IF cut THEN <<>> ELSE SubSeq(wire, IF whole THEN k + 1 ELSE k, Len(wire))
      /\ begun' = (~whole /\ ~cut)
      /\ CASE last = "ready"   -> Resolve(rows)
           [] last = "capped"  -> Throw(TooLarge, rows)
           [] last = "failure" -> Throw(Error, rows)
           [] OTHER ->
                IF cut THEN Throw(TooLarge, rows)
                ELSE got' = rows /\ UNCHANGED <<phase, step, kept, limited, answer, request>>
      /\ UNCHANGED <<call, backendVars>>
  BY DEF Receive, Parsed, Seen, Up
<1>2. refused = FALSE
  BY <1>1 DEF IInv, Stages, TypeOK
<1> HIDE DEF cut, rows
<1>3. refused' \in BOOLEAN /\ (refused' <=> cut)
  BY <1>1, <1>2, Zenon
<1>4. /\ last = "ready" => Resolve(rows)
      /\ last = "capped" => Throw(TooLarge, rows)
      /\ last = "failure" => Throw(Error, rows)
      /\ last \in {"row", "unparsed"} =>
           IF cut THEN Throw(TooLarge, rows)
           ELSE got' = rows /\ UNCHANGED <<phase, step, kept, limited, answer, request>>
  <2> HIDE DEF last
  <2> QED
    BY <1>1
<1>5. /\ whole /\ wire[k].kind = "ready" => Resolve(rows)
      /\ whole /\ wire[k].kind = "capped" => Throw(TooLarge, rows)
      /\ whole /\ wire[k].kind = "failure" => Throw(Error, rows)
      /\ ~whole \/ wire[k].kind = "row" =>
           IF cut THEN Throw(TooLarge, rows)
           ELSE got' = rows /\ UNCHANGED <<phase, step, kept, limited, answer, request>>
  BY <1>4
<1> QED
  BY <1>1, <1>2, <1>3, <1>5 DEF cut, rows

LEMMA ReceiveStep ==
  ASSUME IInv, NEW k \in 1..Len(wire), NEW whole \in BOOLEAN, Receive(k, whole)
  PROVE  IInv'
<1> DEFINE cut == TooLong(wire[k]) \/ Over(Seen(k))
           rows == Parsed(k, whole)
<1>1. /\ phase = "running" /\ sock = "open" /\ refused = FALSE
      /\ \A i \in 1..(k - 1) : IsRow(wire[i]) /\ ~TooLong(wire[i])
      /\ whole => ~TooLong(wire[k])
      /\ refused' \in BOOLEAN /\ (refused' <=> cut)
      /\ sock' = IF cut THEN "closed" ELSE sock
      /\ wire' = IF cut THEN <<>> ELSE SubSeq(wire, IF whole THEN k + 1 ELSE k, Len(wire))
      /\ begun' = (~whole /\ ~cut)
      /\ UNCHANGED <<call, backendVars>>
  BY ReceiveIs
<1>2. /\ whole /\ wire[k].kind = "ready" => Resolve(rows)
      /\ whole /\ wire[k].kind = "capped" => Throw(TooLarge, rows)
      /\ whole /\ wire[k].kind = "failure" => Throw(Error, rows)
      /\ ~whole \/ wire[k].kind = "row" =>
           IF cut THEN Throw(TooLarge, rows)
           ELSE got' = rows /\ UNCHANGED <<phase, step, kept, limited, answer, request>>
  BY ReceiveIs
<1>3. Shown(k)
  BY <1>1, ChunkFacts
<1>4. call \in Calls /\ wire \in Seq(Message) /\ kept \in Rows /\ step \in 1..Len(Script)
  BY <1>1, ScriptFacts DEF IInv, TypeOK, Stages, Message
<1>5. rows \in Rows
  BY <1>3 DEF Shown, Seen, Parsed
<1>6. sock' \in {"open", "closed"} /\ wire' \in Seq(Message)
  <2>1. /\ <<>> \in Seq(Message) /\ SubSeq(wire, k + 1, Len(wire)) \in Seq(Message)
        /\ SubSeq(wire, k, Len(wire)) \in Seq(Message)
    BY <1>4
  <2> QED
    BY <1>1, <2>1
<1>7. /\ Right(call, Error)
      /\ Sum(Awaited) > maxResultBytes => Right(call, TooLarge)
      /\ call.error = "huge" => Right(call, TooLarge)
  BY <1>4, RightErrors DEF Awaited
<1>8. ASSUME NEW a, Throw(a, rows), Right(call, a), begun' = FALSE PROVE IInv'
  <2>1. Leave(a) /\ kept' \in Rows /\ got' \in Rows
    BY <1>4, <1>5, <1>8 DEF Throw, Done
  <2> HIDE DEF cut, rows
  <2> QED
    BY <1>1, <1>6, <1>8, <2>1, LeaveStep
<1>9. cut => Right(call, TooLarge) /\ begun' = FALSE
  BY <1>1, <1>3, <1>7 DEF Shown
<1>10. wire[k].kind \in {"row", "ready", "capped", "failure"}
  BY <1>3 DEF Shown
<1>11. CASE whole /\ wire[k].kind = "ready"
  <2>1. ~TooLong(wire[k]) /\ begun' = FALSE
    BY <1>1, <1>11
  <2>2. rows = Up(k - 1) /\ Seen(k) = Up(k - 1)
    BY <1>11 DEF Parsed, Seen, IsRow
  <2>3. /\ refused' <=> Over(Up(k - 1))
        /\ sock' = IF refused' THEN "closed" ELSE sock
        /\ wire' = IF refused' THEN <<>> ELSE SubSeq(wire, k + 1, Len(wire))
    BY <1>1, <1>11, <2>1, <2>2
  <2> QED
    BY <1>1, <1>2, <1>3, <1>6, <1>11, <2>1, <2>2, <2>3, ResolveStep
<1>12. CASE whole /\ wire[k].kind = "capped"
  <2>1. Right(call, TooLarge) /\ begun' = FALSE
    BY <1>1, <1>3, <1>7, <1>12 DEF Shown
  <2> QED
    BY <1>2, <1>8, <1>12, <2>1
<1>13. CASE whole /\ wire[k].kind = "failure"
  <2>1. begun' = FALSE
    BY <1>1, <1>13
  <2> QED
    BY <1>2, <1>7, <1>8, <1>13, <2>1
<1>14. CASE (~whole \/ wire[k].kind = "row") /\ cut
  BY <1>2, <1>8, <1>9, <1>14
<1>15. CASE (~whole \/ wire[k].kind = "row") /\ ~cut
  <2>1. /\ got' = rows /\ ~TooLong(wire[k]) /\ ~refused'
        /\ UNCHANGED <<phase, step, kept, limited, answer, request>>
        /\ begun' = ~whole /\ sock' = sock
        /\ wire' = SubSeq(wire, IF whole THEN k + 1 ELSE k, Len(wire))
        /\ whole => IsRow(wire[k])
    BY <1>1, <1>2, <1>15 DEF IsRow
  <2>2. UNCHANGED <<call, phase, step, kept, limited, refused, answer, sock, request, backendVars>>
    BY <1>1, <2>1
  <2> HIDE DEF cut
  <2> QED
    BY <1>1, <1>5, <2>1, <2>2, ParseStep
<1> QED
  BY <1>10, <1>11, <1>12, <1>13, <1>14, <1>15

LEMMA NextKeeps == IInv /\ [Next]_vars => IInv'
<1> SUFFICES ASSUME IInv, [Next]_vars PROVE IInv'
  OBVIOUS
<1>1. CASE UNCHANGED vars
  <2>1. Script' = Script
    BY <1>1 DEF vars, Script
  <2> QED
    BY <1>1, <2>1 DEF vars, toolVars, backendVars, IInv, TypeOK, Stages, InStep, PinnedSoFar,
      KeptWhole, Exchange, Reading, AnswerTrue, RowsExact, TooLargeTrue, AnswerBounded
<1>2. CASE \E k \in 1..Len(wire), whole \in BOOLEAN : Receive(k, whole)
  BY <1>2, ReceiveStep
<1> QED
  BY <1>1, <1>2, RejectStep, ConnectStep, ConnectFailsStep, ConnectedStep, QueryTimeoutStep,
     ConnectionLostStep, EndStep, AcceptStep, ExecuteStep, FinishStep, FailStep, DieStep,
     NoticeStep DEF Next

--------------------------------------------------------------------------------
(* What is held of a reply.                                                *)

LEMMA MessageBytes == \A x \in Message : x.bytes \in Nat
<1>1. ASSUME NEW x \in Message PROVE x.bytes \in Nat
  <2>1. x.bytes \in RowBytes \cup {0, messageLimit + 1}
    BY DEF Message
  <2>2. RowBytes \subseteq Nat /\ messageLimit + 1 \in Nat
    BY ConstantsAssumption
  <2>3. CASE x.bytes \in RowBytes
    BY <2>2, <2>3
  <2>4. CASE x.bytes \in {0, messageLimit + 1}
    BY <2>2, <2>4
  <2> QED
    BY <2>1, <2>3, <2>4
<1> QED
  BY <1>1

LEMMA MessagesOf == \A s \in Seq(Message) : Messages(s)
<1>1. ASSUME NEW s \in Seq(Message) PROVE Messages(s)
  <2>1. ASSUME NEW i \in 1..Len(s) PROVE s[i].bytes \in Nat
    <3>1. s[i] \in Message
      BY ElementOfSeq
    <3> QED
      BY <3>1, MessageBytes
  <2> QED
    BY <2>1 DEF Messages
<1> QED
  BY <1>1

LEMMA SumsOfPrefix ==
  ASSUME NEW s, NEW u, Messages(s), Messages(u), Len(s) <= Len(u),
         \A i \in 1..Len(s) : u[i] = s[i],
         NEW f, NEW h, Sums(f, s), Sums(h, u)
  PROVE  h[Len(s)] = f[Len(s)]
<1>1. Len(s) \in Nat /\ Len(s) \in 0..Len(s)
  BY DEF Messages
<1>2. \A i \in 1..Len(s) : s[i].bytes = u[i].bytes
  OBVIOUS
<1>3. \A i \in 0..Len(s) : f[i] = h[i]
  BY <1>1, <1>2, SumsAgree
<1> QED
  BY <1>1, <1>3

LEMMA SumConcat ==
  ASSUME NEW s \in Seq(Message), NEW t \in Seq(Message)
  PROVE  Sum(s \o t) = Sum(s) + Sum(t)
<1> DEFINE m == Len(s)
           n == Len(t)
<1>1. PICK u \in Seq(Message) : u = s \o t
  <2>1. s \o t \in Seq(Message)
    OBVIOUS
  <2> QED
    BY <2>1, Zenon
<1>2. /\ Len(u) = m + n /\ m \in Nat /\ n \in Nat
      /\ \A i \in 1..m : u[i] = s[i]
      /\ \A i \in 1..n : u[m + i] = t[i]
  BY <1>1
<1>3. Messages(s) /\ Messages(t) /\ Messages(u)
  BY MessagesOf
<1>4. PICK f \in [0..m -> Nat] : Sums(f, s)
  BY <1>3, SumsExist
<1>5. PICK g \in [0..n -> Nat] : Sums(g, t)
  BY <1>3, SumsExist
<1>6. PICK h \in [0..Len(u) -> Nat] : Sums(h, u)
  BY <1>3, SumsExist
<1>7. Sum(s) = f[m] /\ Sum(t) = g[n] /\ Sum(u) = h[Len(u)]
  BY <1>3, <1>4, <1>5, <1>6, SumIsLast
<1>8. h[m] = f[m]
  BY <1>2, <1>3, <1>4, <1>6, SumsOfPrefix
<1> HIDE DEF m, n
<1>9. \A i \in 0..n : h[m + i] = f[m] + g[i]
  <2> DEFINE S == {i \in 0..n : h[m + i] = f[m] + g[i]}
  <2>1. 0 \in S
    BY <1>2, <1>4, <1>5, <1>8 DEF Sums
  <2>2. ASSUME NEW i \in 0..(n - 1), i \in S PROVE i + 1 \in S
    <3>1. /\ i + 1 \in 1..n /\ m + (i + 1) \in 1..Len(u) /\ (m + (i + 1)) - 1 = m + i
          /\ (i + 1) - 1 = i
      BY <1>2
    <3>2. h[m + (i + 1)] = h[m + i] + u[m + (i + 1)].bytes
      BY <1>6, <3>1 DEF Sums
    <3>3. g[i + 1] = g[i] + t[i + 1].bytes
      BY <1>5, <3>1 DEF Sums, n
    <3>4. u[m + (i + 1)].bytes = t[i + 1].bytes /\ t[i + 1].bytes \in Nat
      BY <1>2, <1>3, <3>1 DEF Messages, n
    <3>5. f[m] \in Nat /\ g[i] \in Nat /\ h[m + i] = f[m] + g[i]
      BY <1>2, <1>4, <1>5, <2>2
    <3>6. h[m + (i + 1)] = (f[m] + g[i]) + t[i + 1].bytes
      BY <3>2, <3>4, <3>5
    <3>7. g[i + 1] = g[i] + t[i + 1].bytes
      BY <3>3
    <3>8. h[m + (i + 1)] = f[m] + g[i + 1]
      BY <3>4, <3>5, <3>6, <3>7
    <3> QED
      BY <1>2, <3>1, <3>8
  <2> HIDE DEF S
  <2>3. \A i \in 0..n : i \in S
    BY <1>2, <2>1, <2>2, UpToInduction
  <2> QED
    BY <2>3 DEF S
<1> QED
  <2>1. h[Len(u)] = f[m] + g[n]
    BY <1>2, <1>9
  <2> QED
    BY <1>1, <1>7, <2>1

LEMMA SumOfOne ==
  ASSUME NEW x \in Message
  PROVE  Sum(<<x>>) = x.bytes
<1>1. <<x>> \in Seq(Message) /\ Len(<<x>>) = 1 /\ <<x>>[1] = x
  OBVIOUS
<1>2. PICK f \in [0..Len(<<x>>) -> Nat] : Sums(f, <<x>>)
  BY <1>1, MessagesOf, SumsExist
<1>3. Sum(<<x>>) = f[1]
  BY <1>1, <1>2, MessagesOf, SumIsLast
<1>4. f[0] = 0 /\ f[1] = f[1 - 1] + x.bytes
  BY <1>1, <1>2 DEF Sums
<1>5. x.bytes \in Nat
  BY MessageBytes
<1> QED
  BY <1>3, <1>4, <1>5

LEMMA SumAppend ==
  ASSUME NEW s \in Seq(Message), NEW x \in Message
  PROVE  Sum(Append(s, x)) = Sum(s) + x.bytes /\ Sum(s) \in Nat /\ x.bytes \in Nat
<1>1. Append(s, x) = s \o <<x>> /\ <<x>> \in Seq(Message)
  OBVIOUS
<1>2. Sum(s \o <<x>>) = Sum(s) + Sum(<<x>>)
  BY <1>1, SumConcat
<1>3. Sum(s) \in Nat
  BY MessagesOf, SumFacts
<1>4. x.bytes \in Nat
  BY MessageBytes
<1> QED
  BY <1>1, <1>2, <1>3, <1>4, SumOfOne

\* The weight of the first r messages, in one part and in two.
LEMMA SumFirst ==
  ASSUME NEW w \in Seq(Message), NEW b \in 0..Len(w), NEW r \in 0..b
  PROVE  /\ First(r, w) \in Seq(Message)
         /\ Sum(First(r, w)) \in Nat /\ Sum(First(r, w)) <= Sum(SubSeq(w, 1, b))
         /\ Sum(SubSeq(w, 1, b)) \in Nat
         /\ r = 0 => Sum(First(r, w)) = 0
         /\ r >= 1 => /\ Sum(First(r, w)) <= w[1].bytes + Sum(SubSeq(w, 2, b))
                      /\ w[1].bytes \in Nat /\ Sum(SubSeq(w, 2, b)) \in Nat
<1>1. Len(w) \in Nat /\ b \in Nat /\ r \in Nat /\ r <= b /\ b <= Len(w)
  OBVIOUS
<1>2. Least(r, Len(w)) = r
  BY <1>1 DEF Least
<1>3. /\ First(r, w) \in Seq(Message) /\ Len(First(r, w)) = r
      /\ \A i \in 1..r : First(r, w)[i] = w[i]
  BY <1>1, <1>2, FirstFacts
<1>4. /\ SubSeq(w, 1, b) \in Seq(Message) /\ Len(SubSeq(w, 1, b)) = b
      /\ \A i \in 1..b : SubSeq(w, 1, b)[i] = w[i]
  BY <1>1
<1>5. Messages(First(r, w)) /\ Messages(SubSeq(w, 1, b))
  BY <1>3, <1>4, MessagesOf
<1>6. /\ Sum(First(r, w)) \in Nat /\ Sum(SubSeq(w, 1, b)) \in Nat
      /\ Sum(First(r, w)) <= Sum(SubSeq(w, 1, b))
  <2>1. \A i \in 1..r : First(r, w)[i].bytes = SubSeq(w, 1, b)[i].bytes
    BY <1>1, <1>3, <1>4
  <2>2. Sum(First(r, w)) <= Sum(SubSeq(w, 1, b))
    BY <1>1, <1>3, <1>4, <1>5, <2>1, SumPart
  <2> QED
    BY <1>5, <2>2, SumFacts
<1>7. ASSUME r = 0 PROVE Sum(First(r, w)) = 0
  <2>1. First(r, w) = <<>>
    BY <1>3, <1>7
  <2> QED
    BY <2>1, SumEmpty
<1>8. ASSUME r >= 1
      PROVE  /\ Sum(First(r, w)) <= w[1].bytes + Sum(SubSeq(w, 2, b))
             /\ w[1].bytes \in Nat /\ Sum(SubSeq(w, 2, b)) \in Nat
  <2>1. w[1] \in Message /\ <<w[1]>> \in Seq(Message)
    BY <1>1, <1>8, ElementOfSeq
  <2>2. PICK v \in Seq(Message) : v = SubSeq(w, 2, b)
    <3>1. SubSeq(w, 2, b) \in Seq(Message)
      BY <1>1, <1>8
    <3> QED
      BY <3>1, Zenon
  <2>3. Len(v) = b - 1 /\ \A i \in 1..(b - 1) : v[i] = w[i + 1]
    BY <1>1, <1>8, <2>2
  <2>4. PICK u \in Seq(Message) : u = <<w[1]>> \o v
    <3>1. <<w[1]>> \o v \in Seq(Message)
      BY <2>1
    <3> QED
      BY <3>1, Zenon
  <2>5. Len(u) = b /\ \A i \in 1..b : u[i] = w[i]
    <3>1. Len(u) = b /\ u[1] = w[1] /\ \A i \in 1..(b - 1) : u[1 + i] = v[i]
      BY <1>1, <1>8, <2>1, <2>3, <2>4
    <3>2. ASSUME NEW i \in 1..b PROVE u[i] = w[i]
      <4>1. CASE i = 1
        BY <3>1, <4>1
      <4>2. CASE i # 1
        <5>1. i - 1 \in 1..(b - 1) /\ 1 + (i - 1) = i /\ (i - 1) + 1 = i
          BY <1>1, <4>2
        <5> QED
          BY <2>3, <3>1, <5>1
      <4> QED
        BY <4>1, <4>2
    <3> QED
      BY <3>1, <3>2
  <2>6. Sum(u) = w[1].bytes + Sum(v)
    BY <2>1, <2>4, SumConcat, SumOfOne
  <2>7. Sum(First(r, w)) <= Sum(u)
    <3>1. \A i \in 1..r : First(r, w)[i].bytes = u[i].bytes
      BY <1>1, <1>3, <2>5
    <3> QED
      BY <1>1, <1>3, <1>5, <2>5, <3>1, MessagesOf, SumPart
  <2>8. w[1].bytes \in Nat /\ Sum(v) \in Nat
    <3>1. w[1].bytes \in Nat
      BY <2>1, MessageBytes
    <3> QED
      BY <3>1, MessagesOf, SumFacts
  <2> QED
    BY <2>2, <2>6, <2>7, <2>8
<1> QED
  BY <1>3, <1>6, <1>7, <1>8

\* The rows a chunk brings are over the cap by no more than the chunk.
LEMMA ChunkHeld ==
  ASSUME IInv, MemoryBounded, NEW k \in 1..Len(wire), NEW whole \in BOOLEAN, Receive(k, whole)
  PROVE  Sum(Parsed(k, whole)) <= maxResultBytes + ChunkBytes
<1> DEFINE r == IF whole /\ IsRow(wire[k]) THEN k ELSE k - 1
           b == IF whole THEN k ELSE k - 1
<1>1. /\ refused = FALSE
      /\ \A i \in 1..(k - 1) : IsRow(wire[i])
      /\ Sum(SubSeq(wire, IF begun THEN 2 ELSE 1, b)) <= ChunkBytes
  BY ReceiveIs
<1>2. wire \in Seq(Message) /\ got \in Seq(Message) /\ begun \in BOOLEAN /\ Len(wire) \in Nat
  <2>1. wire \in Seq(Message) /\ got \in Seq(Row) /\ begun \in BOOLEAN
    BY RowsFacts DEF IInv, TypeOK, Message
  <2> QED
    BY <2>1, RowsAreMessages
<1>3. b \in 0..Len(wire) /\ r \in 0..b /\ (r >= 1 => IsRow(wire[1]))
  BY <1>1, <1>2
<1>4. Parsed(k, whole) = got \o First(r, wire)
  BY DEF Parsed, Up
<1> HIDE DEF r, b
<1>5. /\ First(r, wire) \in Seq(Message)
      /\ Sum(First(r, wire)) \in Nat /\ Sum(First(r, wire)) <= Sum(SubSeq(wire, 1, b))
      /\ Sum(SubSeq(wire, 1, b)) \in Nat
      /\ r = 0 => Sum(First(r, wire)) = 0
      /\ r >= 1 => /\ Sum(First(r, wire)) <= wire[1].bytes + Sum(SubSeq(wire, 2, b))
                   /\ wire[1].bytes \in Nat /\ Sum(SubSeq(wire, 2, b)) \in Nat
  BY <1>2, <1>3, SumFirst
<1>6. Sum(Parsed(k, whole)) = Sum(got) + Sum(First(r, wire)) /\ Sum(got) \in Nat
  <2>1. Sum(got) \in Nat
    BY <1>2, MessagesOf, SumFacts
  <2> QED
    BY <1>2, <1>4, <1>5, <2>1, SumConcat
<1>7. maxResultBytes \in Nat /\ ChunkBytes \in Nat
  BY ConstantsAssumption
<1>8. CASE ~begun
  <2>1. Sum(got) <= maxResultBytes
    BY <1>1, <1>7, <1>8 DEF MemoryBounded
  <2>2. Sum(SubSeq(wire, 1, b)) <= ChunkBytes
    BY <1>1, <1>8
  <2> QED
    BY <1>5, <1>6, <1>7, <2>1, <2>2
<1>9. CASE begun /\ r = 0
  <2>1. Sum(got) <= maxResultBytes
    <3>1. CASE IsRow(wire[1])
      <4>1. wire[1] \in Message
        <5>1. 1 \in 1..Len(wire)
          BY <1>2, <1>9 DEF IInv, Reading
        <5> QED
          BY <1>2, <5>1, ElementOfSeq
      <4>2. Sum(Append(got, wire[1])) <= maxResultBytes
        BY <1>1, <1>7, <1>9, <3>1 DEF MemoryBounded
      <4> QED
        BY <1>2, <1>7, <4>1, <4>2, SumAppend
    <3>2. CASE ~IsRow(wire[1])
      BY <1>1, <1>7, <1>9, <3>2 DEF MemoryBounded
    <3> QED
      BY <3>1, <3>2
  <2> QED
    BY <1>5, <1>6, <1>7, <1>9, <2>1
<1>10. CASE begun /\ r >= 1
  <2>1. wire[1] \in Message
    <3>1. 1 \in 1..Len(wire)
      BY <1>2, <1>3, <1>10
    <3> QED
      BY <1>2, <3>1, ElementOfSeq
  <2>2. Sum(Append(got, wire[1])) <= maxResultBytes
    BY <1>1, <1>3, <1>7, <1>10 DEF MemoryBounded
  <2>3. Sum(got) + wire[1].bytes <= maxResultBytes
    BY <1>2, <2>1, <2>2, SumAppend
  <2>4. Sum(SubSeq(wire, 2, b)) <= ChunkBytes
    BY <1>1, <1>10
  <2> QED
    BY <1>5, <1>6, <1>7, <1>10, <2>3, <2>4
<1> QED
  BY <1>2, <1>3, <1>8, <1>9, <1>10

\* No more rows are asked for than the one that is over MAX_ROWS.
LEMMA WantedCount ==
  ASSUME call \in Calls, NEW i \in 1..Len(Script), call.tool \in {"run_select", "sample_rows"}
  PROVE  Len(Wanted(call, Script[i])) \in Nat /\ Len(Wanted(call, Script[i])) <= maxRows + 1
<1>1. Script[i] \notin {"EXPLAIN", "tables", "columns"}
  BY ScriptFacts
<1>2. call.rows \in Seq(Row) /\ call.requested \in Nat /\ maxRows \in Nat
  BY CallFacts, ConstantsAssumption
<1>3. CASE Script[i] = "FETCH"
  <2>1. FetchCount \in Nat /\ FetchCount = maxRows + 1
    BY <1>2 DEF FetchCount
  <2>2. Len(First(FetchCount, call.rows)) \in Nat /\ Len(First(FetchCount, call.rows)) <= FetchCount
    BY <1>2, <2>1, FirstLength
  <2> QED
    BY <1>3, <2>1, <2>2 DEF Wanted
<1>4. CASE Script[i] = "SELECT"
  <2>1. Limit(call.requested) \in Nat /\ Limit(call.requested) <= maxRows + 1
    BY <1>2, ConstantsAssumption DEF Limit, Least
  <2>2. /\ Len(First(Limit(call.requested), call.rows)) <= Limit(call.requested)
        /\ Len(First(Limit(call.requested), call.rows)) \in Nat
    BY <1>2, <2>1, FirstLength
  <2> QED
    BY <1>2, <1>4, <2>1, <2>2 DEF Wanted
<1>5. CASE Script[i] \notin {"FETCH", "SELECT", "EXPLAIN", "tables", "columns"}
  <2>1. Wanted(call, Script[i]) = <<>>
    BY <1>5 DEF Wanted
  <2> QED
    BY <1>2, <2>1
<1> QED
  BY <1>1, <1>3, <1>4, <1>5

\* The bound is kept by a step after which nothing of a message to come is held and
\* what is parsed and kept is bounded.
LEMMA HeldIs ==
  ASSUME ~begun', NEW most \in Nat,
         most = maxResultBytes + (IF refused' THEN ChunkBytes ELSE 0),
         Sum(got') <= most, Sum(kept') <= most,
         call'.tool \in {"run_select", "sample_rows"} => Len(got') <= maxRows + 1
  PROVE  MemoryBounded'
  BY DEF MemoryBounded

\* So it is by a step of the tool or of the network that drops what was to come.
LEMMA HeldDropped ==
  ASSUME IInv, MemoryBounded, ~begun', got' = got \/ got' = <<>>,
         UNCHANGED <<call, kept, refused>>
  PROVE  MemoryBounded'
<1> DEFINE most == maxResultBytes + (IF refused THEN ChunkBytes ELSE 0)
<1>1. most \in Nat /\ maxRows \in Nat
  BY ConstantsAssumption
<1>2. wire \in Seq(Message) /\ got \in Seq(Message)
  <2>1. wire \in Seq(Message) /\ got \in Seq(Row)
    BY RowsFacts DEF IInv, TypeOK, Message
  <2> QED
    BY <2>1, RowsAreMessages
<1>3. /\ Sum(IF begun /\ IsRow(wire[1]) THEN Append(got, wire[1]) ELSE got) <= most
      /\ Sum(kept) <= most
      /\ call.tool \in {"run_select", "sample_rows"} => Len(got) <= maxRows + 1
  BY DEF MemoryBounded
<1> HIDE DEF most
<1>4. Sum(got) <= most
  <2>1. CASE begun /\ IsRow(wire[1])
    <3>1. wire[1] \in Message
      <4>1. 1 \in 1..Len(wire)
        BY <1>2, <2>1 DEF IInv, Reading
      <4> QED
        BY <1>2, <4>1, ElementOfSeq
    <3> QED
      BY <1>1, <1>2, <1>3, <2>1, <3>1, SumAppend
  <2>2. CASE ~(begun /\ IsRow(wire[1]))
    BY <1>3, <2>2
  <2> QED
    BY <2>1, <2>2
<1>5. Sum(<<>>) <= most /\ Len(<<>>) <= maxRows + 1
  BY <1>1, SumEmpty
<1>6. /\ most = maxResultBytes + (IF refused' THEN ChunkBytes ELSE 0)
      /\ Sum(got') <= most /\ Sum(kept') <= most
      /\ call'.tool \in {"run_select", "sample_rows"} => Len(got') <= maxRows + 1
  BY <1>3, <1>4, <1>5 DEF most
<1> QED
  BY <1>1, <1>6, HeldIs

LEMMA HeldReceive ==
  ASSUME IInv, MemoryBounded, NEW k \in 1..Len(wire), NEW whole \in BOOLEAN, Receive(k, whole)
  PROVE  MemoryBounded'
<1> DEFINE cut  == TooLong(wire[k]) \/ Over(Seen(k))
           rows == Parsed(k, whole)
           most == maxResultBytes + (IF refused' THEN ChunkBytes ELSE 0)
<1>1. /\ phase = "running" /\ refused = FALSE
      /\ \A i \in 1..(k - 1) : IsRow(wire[i]) /\ ~TooLong(wire[i])
      /\ refused' \in BOOLEAN /\ (refused' <=> cut)
      /\ wire' = IF cut THEN <<>> ELSE SubSeq(wire, IF whole THEN k + 1 ELSE k, Len(wire))
      /\ begun' = (~whole /\ ~cut)
      /\ call' = call
  BY ReceiveIs
<1>2. Shown(k)
  BY <1>1, ChunkFacts
<1>3. /\ call \in Calls /\ wire \in Seq(Message) /\ step \in 1..Len(Script)
      /\ (limited <=> Script[step] = "EXPLAIN")
      /\ maxResultBytes \in Nat /\ ChunkBytes \in Nat /\ maxRows \in Nat
  BY <1>1, ScriptFacts, ConstantsAssumption DEF IInv, TypeOK, Stages, Message
<1>4. rows \in Rows /\ Seen(k) \in Rows /\ Sum(rows) \in Nat /\ Sum(Seen(k)) \in Nat
  <2>1. rows \in Rows /\ Seen(k) \in Rows
    BY <1>2 DEF Shown, Seen, Parsed
  <2> QED
    BY <2>1, RowsFacts, SumOfRows
<1>5. ~cut => Sum(rows) <= maxResultBytes /\ Sum(Seen(k)) <= maxResultBytes
  <2> SUFFICES ASSUME ~cut PROVE Sum(rows) <= maxResultBytes /\ Sum(Seen(k)) <= maxResultBytes
    OBVIOUS
  <2>1. Sum(Seen(k)) <= maxResultBytes
    BY <1>2, <1>3, <1>4 DEF Shown, Over
  <2>2. Sum(rows) <= Sum(Seen(k))
    <3>1. rows = Seen(k) \/ rows = Up(k - 1)
      BY DEF Parsed, Seen
    <3> HIDE DEF rows
    <3> QED
      BY <1>2, <1>4, <3>1 DEF Shown
  <2> HIDE DEF rows
  <2> QED
    BY <1>3, <1>4, <2>1, <2>2
<1>6. Sum(rows) <= most /\ most \in Nat /\ maxResultBytes <= most
  <2>1. Sum(rows) <= maxResultBytes + ChunkBytes
    BY ChunkHeld
  <2> HIDE DEF cut, rows
  <2> QED
    BY <1>1, <1>3, <1>5, <2>1
<1>7. call.tool \in {"run_select", "sample_rows"} => Len(rows) <= maxRows + 1
  <2>1. Len(rows) <= Len(Awaited) /\ Len(rows) \in Nat
    <3>1. Len(rows) <= Len(Awaited)
      BY <1>2 DEF Shown, Seen, Parsed
    <3>2. Len(rows) \in Nat
      BY <1>4, RowsFacts
    <3> QED
      BY <3>1, <3>2
  <2>2. call.tool \in {"run_select", "sample_rows"} =>
          Len(Awaited) \in Nat /\ Len(Awaited) <= maxRows + 1
    BY <1>3, WantedCount DEF Awaited
  <2> QED
    BY <1>3, <2>1, <2>2
<1>8. Sum(kept) <= maxResultBytes
  BY <1>1, <1>3 DEF MemoryBounded
\* What becomes of the rows.
<1> DEFINE Fate == /\ got' = rows \/ got' = <<>>
                   /\ kept' = rows \/ kept' = kept
                   /\ begun' => got' = rows
<1>9. Fate
  <2>1. /\ whole /\ wire[k].kind = "ready" => Resolve(rows)
        /\ whole /\ wire[k].kind = "capped" => Throw(TooLarge, rows)
        /\ whole /\ wire[k].kind = "failure" => Throw(Error, rows)
        /\ ~whole \/ wire[k].kind = "row" =>
             IF cut THEN Throw(TooLarge, rows)
             ELSE got' = rows
                  /\ UNCHANGED <<phase, step, kept, limited, answer, request>>
    BY ReceiveIs
  <2>2. wire[k].kind \in {"row", "ready", "capped", "failure"}
    BY <1>2 DEF Shown
  <2> HIDE DEF cut, rows
  <2>3. ASSUME Resolve(rows), whole PROVE Fate
    BY <1>1, <2>3 DEF Resolve, Done, Send
  <2>4. ASSUME NEW a, Throw(a, rows) PROVE Fate
    BY <2>4 DEF Throw, Done
  <2>5. ASSUME ~whole \/ wire[k].kind = "row" PROVE Fate
    <3>1. CASE cut
      BY <2>1, <2>4, <2>5, <3>1
    <3>2. CASE ~cut
      BY <2>1, <2>5, <3>2
    <3> QED
      BY <3>1, <3>2
  <2> HIDE DEF Fate
  <2> QED
    BY <2>1, <2>2, <2>3, <2>4, <2>5
<1> HIDE DEF rows, cut, most
<1>10. CASE ~begun'
  <2>1. Sum(<<>>) <= most /\ Len(<<>>) <= maxRows + 1
    BY <1>3, <1>6, SumEmpty
  <2>2. Sum(kept) <= most
    <3>1. Sum(kept) \in Nat
      BY SumOfRows, RowsFacts DEF IInv, TypeOK
    <3> QED
      BY <1>3, <1>6, <1>8, <3>1
  <2>3. /\ Sum(got') <= most /\ Sum(kept') <= most
        /\ call'.tool \in {"run_select", "sample_rows"} => Len(got') <= maxRows + 1
    BY <1>1, <1>6, <1>7, <1>9, <2>1, <2>2
  <2>4. most = maxResultBytes + (IF refused' THEN ChunkBytes ELSE 0)
    BY DEF most
  <2> QED
    BY <1>6, <1>10, <2>3, <2>4, HeldIs
<1>11. CASE begun'
  <2>1. ~whole /\ ~cut /\ ~refused' /\ got' = rows
    BY <1>1, <1>9, <1>11
  <2>2. wire'[1] = wire[k]
    BY <1>1, <1>3, <2>1
  <2>3. rows = Up(k - 1)
    BY <2>1 DEF rows, Parsed
  <2>4. IsRow(wire[k]) => Append(rows, wire[k]) = Seen(k)
    <3> SUFFICES ASSUME IsRow(wire[k]) PROVE Append(Up(k - 1), wire[k]) = Up(k)
      BY <2>3 DEF Seen
    <3>1. got \in Seq(Message) /\ k - 1 \in Nat /\ k - 1 < Len(wire) /\ Len(wire) \in Nat
      <4>1. got \in Seq(Row)
        BY RowsFacts DEF IInv, TypeOK
      <4> QED
        BY <1>3, <4>1, RowsAreMessages
    <3>2. /\ First(k - 1, wire) = SubSeq(wire, 1, k - 1)
          /\ First(k, wire) = SubSeq(wire, 1, k)
      BY <1>3, <3>1 DEF First, Least
    <3>3. SubSeq(wire, 1, k) = Append(SubSeq(wire, 1, k - 1), wire[k])
      BY <1>3, <3>1
    <3>4. wire[k] \in Message /\ SubSeq(wire, 1, k - 1) \in Seq(Message)
      BY <1>3, <3>1, ElementOfSeq
    <3>5. \A x \in Seq(Message) : got \o Append(x, wire[k]) = Append(got \o x, wire[k])
      BY <3>1, <3>4
    <3> QED
      BY <3>2, <3>3, <3>4, <3>5 DEF Up
  <2>5. Sum(IF begun' /\ IsRow(wire'[1]) THEN Append(got', wire'[1]) ELSE got') <= maxResultBytes
    BY <1>5, <2>1, <2>2, <2>4
  <2>6. Sum(kept') <= maxResultBytes
    BY <1>5, <1>8, <1>9, <2>1
  <2> QED
    BY <1>1, <1>3, <1>7, <2>1, <2>5, <2>6 DEF MemoryBounded, IsRow
<1> QED
  BY <1>10, <1>11

LEMMA HeldKeeps == IInv /\ MemoryBounded /\ [Next]_vars => MemoryBounded'
<1> SUFFICES ASSUME IInv, MemoryBounded, [Next]_vars PROVE MemoryBounded'
  OBVIOUS
\* A step that leaves what is held alone.
<1>1. ASSUME UNCHANGED <<call, got, kept, refused, begun>>, begun => wire'[1] = wire[1]
      PROVE  MemoryBounded'
  BY <1>1 DEF MemoryBounded, IsRow
<1>2. CASE UNCHANGED vars
  BY <1>1, <1>2 DEF vars, toolVars
<1>3. CASE Reject \/ Connect \/ ConnectFails \/ End \/ Accept \/ Execute \/ Notice
  BY <1>1, <1>3 DEF Reject, Connect, ConnectFails, End, Accept, Execute, Notice, toolVars
<1>4. CASE Finish \/ Fail
  <2>1. ~begun
    <3>1. running # None
      BY <1>4 DEF Finish, Fail, IInv, Stages
    <3> QED
      BY <3>1 DEF IInv, Reading, Exchange
  <2> QED
    BY <1>1, <1>4, <2>1 DEF Finish, Fail, Reply, toolVars
<1>5. CASE Die
  <2>1. PICK last \in {<<>>, <<Failure(0)>>} : wire' = IF sock = "open" THEN wire \o last ELSE wire
    BY <1>5 DEF Die
  <2>2. wire \in Seq(Message) /\ call \in Calls
    BY DEF IInv, TypeOK, Message
  <2>3. last \in Seq(Message)
    <3>1. <<>> \in Seq(Message) /\ <<Failure(0)>> \in Seq(Message)
      BY <2>2, OnlyAnError
    <3> QED
      BY <3>1, Zenon
  <2>4. begun => wire'[1] = wire[1]
    <3> SUFFICES ASSUME begun PROVE wire'[1] = wire[1]
      OBVIOUS
    <3>1. 1 \in 1..Len(wire)
      BY <2>2 DEF IInv, Reading
    <3>2. (wire \o last)[1] = wire[1]
      BY <2>2, <2>3, <3>1
    <3> QED
      BY <2>1, <3>2
  <2> QED
    BY <1>1, <1>5, <2>4 DEF Die, toolVars
<1>6. CASE Connected
  <2>1. ~begun
    BY <1>6 DEF Connected, IInv, Reading
  <2>2. ~begun' /\ got' = <<>> /\ UNCHANGED <<call, kept, refused>>
    BY <1>6, <2>1 DEF Connected, Send
  <2> QED
    BY <2>2, HeldDropped
<1>7. CASE QueryTimeout
  <2>1. ~begun' /\ got' = got /\ UNCHANGED <<call, kept, refused>>
    BY <1>7 DEF QueryTimeout, Throw, Done
  <2> QED
    BY <2>1, HeldDropped
<1>8. CASE ConnectionLost
  <2>1. ~begun' /\ got' = got /\ UNCHANGED <<call, kept, refused>>
    BY <1>8 DEF ConnectionLost, Throw, Done
  <2> QED
    BY <2>1, HeldDropped
<1>9. CASE \E k \in 1..Len(wire), whole \in BOOLEAN : Receive(k, whole)
  BY <1>9, HeldReceive
<1> QED
  BY <1>2, <1>3, <1>4, <1>5, <1>6, <1>7, <1>8, <1>9 DEF Next

--------------------------------------------------------------------------------
(* The theorems.                                                           *)

\* The invariant that the others follow from: where the connection is in each
\* phase, that one statement at a time is under way, and that what is parsed and
\* what is on the wire are one reply of it.
THEOREM Invariance == Spec => []IInv
  BY InitIInv, NextKeeps, PTL DEF Spec

\* Every variable keeps its type.
THEOREM TypeCorrect == Spec => []TypeOK
<1>1. IInv => TypeOK
  BY DEF IInv
<1> QED
  BY <1>1, Invariance, PTL

\* No statement of the user runs in a session that lacks a setting, whatever
\* failed, was late or was lost before it.
THEOREM PinsFirst == Spec => []PinnedFirst
<1>1. IInv => PinnedFirst
  <2> SUFFICES ASSUME IInv, running \in UserSQL PROVE Settings \subseteq pins
    BY DEF PinnedFirst
  <2>1. call \in Calls /\ running # None
    BY NoneAssumption DEF IInv, TypeOK, Statements
  <2>2. running = Script[step] /\ step \in 1..Len(Script)
    BY <2>1, ScriptFacts DEF IInv, TypeOK, InStep
  <2>3. step > 7 /\ step \in Nat
    BY <2>1, <2>2, ScriptFacts
  <2>4. ASSUME NEW s \in Settings PROVE s \in pins
    <3>1. PICK i \in 1..7 : s = Script[i]
      BY <2>1, ScriptFacts
    <3>2. i \in 1..(step - 1)
      BY <2>3
    <3> QED
      BY <3>1, <3>2 DEF IInv, PinnedSoFar
  <2> QED
    BY <2>4
<1> QED
  BY <1>1, Invariance, PTL

\* A successful answer is exactly the rows that were asked for, and tells truly
\* whether there are more; an answer that blames their size is right to.
THEOREM AnswersTrue == Spec => []AnswerTrue
<1>1. IInv => AnswerTrue
  BY DEF IInv
<1> QED
  BY <1>1, Invariance, PTL

\* A successful answer keeps to MAX_RESULT_BYTES.  What the process holds of a reply
\* does so until the guard refuses the stream, and passes it then by no more than
\* one read of the socket.
THEOREM AnswersBounded == Spec => []Bounded
<1>1. IInv => AnswerBounded
  BY DEF IInv
<1>2. Init => MemoryBounded
  BY SumEmpty, ConstantsAssumption DEF Init, MemoryBounded
<1>3. Spec => []MemoryBounded
  BY <1>2, HeldKeeps, Invariance, PTL DEF Spec
<1> QED
  BY <1>1, <1>3, Invariance, PTL DEF Bounded

================================================================================
