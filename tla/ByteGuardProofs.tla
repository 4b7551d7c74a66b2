---------------------------- MODULE ByteGuardProofs ----------------------------
(***************************************************************************)
(* ResponseByteGuard keeps its place in the stream, and its bounds, for    *)
(* every set of message lengths, every chunking and every limit.           *)
(***************************************************************************)
EXTENDS ByteGuard, TLAPS

\* A refused stream is read no further.
Stopped == refused # None => chunk = 0

\* The guard's own total is the real one while a bound is armed.
Totalled == refused = None /\ responseLimit # None => responseBytes = rows

IInv == TypeOK /\ Stopped /\ Aligned /\ MessageBounded /\ Totalled /\ RowsBounded

--------------------------------------------------------------------------------
\* What a message is: its length counts itself, and its size is more than a header's.
LEMMA MessageFacts ==
  ASSUME NEW m \in Message
  PROVE  /\ m.length \in Nat /\ m.length >= 4
         /\ Size(m) = m.length + 1
BY ConstantsAssumption DEF Message, Size

LEMMA InitIInv == Init => IInv
<1> SUFFICES ASSUME Init PROVE IInv
  OBVIOUS
<1>1. off < Size(msg)
  BY MessageFacts DEF Init
<1> QED
  BY <1>1, ConstantsAssumption DEF Init, IInv, TypeOK, Stopped, Aligned,
     MessageBounded, Totalled, RowsBounded, Header

LEMMA ReceiveIInv ==
  ASSUME IInv, NEW n \in 1..MaxChunk, Receive(n)
  PROVE  IInv'
BY ConstantsAssumption DEF IInv, TypeOK, Stopped, Aligned, MessageBounded, Totalled,
   RowsBounded, Receive, stream, guardVars, Size, Header, Message

LEMMA SkipBodyIInv ==
  ASSUME IInv, SkipBody
  PROVE  IInv'
<1> DEFINE skip == Least(remaining, chunk)
<1> USE DEF IInv, TypeOK
<1>0. refused = None
  BY DEF SkipBody, Stopped
<1>1. /\ msg.length \in Nat /\ msg.length >= 4
      /\ Size(msg) = msg.length + 1
  BY MessageFacts
<1>2. /\ off >= Header
      /\ headerFill = 0
      /\ remaining = Size(msg) - off
  BY <1>0 DEF SkipBody, Aligned, Header
<1>3. skip \in Nat /\ skip > 0 /\ skip <= remaining /\ skip <= chunk
  BY ConstantsAssumption DEF SkipBody, Least
<1>4. /\ remaining' = remaining - skip
      /\ chunk' = chunk - skip
      /\ Advance(skip)
      /\ UNCHANGED <<headerFill, responseLimit, responseBytes, refused, rows>>
  BY DEF SkipBody
<1> HIDE DEF skip
<1>5. CASE off + skip < Size(msg)
  BY <1>0, <1>1, <1>2, <1>3, <1>4, <1>5, ConstantsAssumption
     DEF Advance, Size, Header, Stopped, Aligned, MessageBounded, Totalled, RowsBounded
<1>6. CASE off + skip >= Size(msg)
  <2>1. off' = 0 /\ msg' \in Message /\ remaining' = 0
    BY <1>1, <1>2, <1>3, <1>4, <1>6 DEF Advance
  <2>2. Size(msg') > 0
    BY <2>1, MessageFacts
  <2> QED
    BY <1>0, <1>2, <1>3, <1>4, <2>1, <2>2, ConstantsAssumption
       DEF Header, Size, Stopped, Aligned, MessageBounded, Totalled, RowsBounded
<1> QED
  BY <1>1, <1>3, <1>5, <1>6

LEMMA PartOfHeaderIInv ==
  ASSUME IInv, PartOfHeader
  PROVE  IInv'
<1> USE DEF IInv, TypeOK
<1>0. refused = None
  BY DEF PartOfHeader, CollectHeader, Stopped
<1>1. msg.length \in Nat /\ msg.length >= 4 /\ Size(msg) = msg.length + 1
  BY MessageFacts
<1>2. off < Header /\ headerFill = off
  BY <1>0, <1>1 DEF PartOfHeader, CollectHeader, Aligned, Header
<1>3. off' = off + chunk /\ msg' = msg /\ off' < Header
  BY <1>1, <1>2, ConstantsAssumption DEF PartOfHeader, CollectHeader, Advance, Header
<1> QED
  BY <1>0, <1>1, <1>2, <1>3, ConstantsAssumption
     DEF PartOfHeader, CollectHeader, Header, Size, Stopped, Aligned, MessageBounded,
         Totalled, RowsBounded

--------------------------------------------------------------------------------
\* What the turn that completes a header knows: where it is, and that the total
\* it compares is the real one.
LEMMA AtHeader ==
  ASSUME IInv, CompleteHeader
  PROVE  /\ refused = None
         /\ off < Header /\ headerFill = off /\ remaining = 0
         /\ msg.length \in Nat /\ msg.length >= 4 /\ Size(msg) = msg.length + 1
         /\ OverTotal(msg) /\ ~TooLong(msg) =>
              /\ responseLimit # None
              /\ rows' > responseLimit
<1> USE DEF IInv, TypeOK
<1>0. refused = None
  BY DEF CompleteHeader, Judge, Stopped
<1>1. msg.length \in Nat /\ msg.length >= 4 /\ Size(msg) = msg.length + 1
  BY MessageFacts
<1>2. off < Header /\ headerFill = off /\ remaining = 0
  BY <1>0, <1>1 DEF CompleteHeader, Judge, Aligned, Header
<1>3. ASSUME OverTotal(msg), ~TooLong(msg)
      PROVE  responseLimit # None /\ rows' > responseLimit
  BY <1>0, <1>3 DEF CompleteHeader, Judge, OverTotal, Counted, Totalled
<1> QED
  BY <1>0, <1>1, <1>2, <1>3

LEMMA CompleteHeaderIInv ==
  ASSUME IInv, CompleteHeader
  PROVE  IInv'
<1> USE DEF IInv, TypeOK
<1> DEFINE take == Header - headerFill
<1>1. /\ refused = None
      /\ off < Header /\ headerFill = off /\ remaining = 0
      /\ msg.length \in Nat /\ msg.length >= 4 /\ Size(msg) = msg.length + 1
  BY AtHeader
<1>2. /\ headerFill' = 0
      /\ responseBytes' = Counted(msg)
      /\ rows' = IF IsRow(msg) /\ responseLimit # None THEN rows + msg.length - 4 ELSE rows
      /\ responseLimit' = responseLimit
      /\ responseBytes' \in Nat /\ rows' \in Nat
  BY <1>1 DEF CompleteHeader, Judge, Counted
<1>3. CASE TooLong(msg) \/ OverTotal(msg)
  <2>1. refused' = msg /\ chunk' = 0 /\ UNCHANGED <<stream, remaining>>
    BY <1>3 DEF CompleteHeader, Judge
  <2>2. refused' # None
    BY <2>1, ConstantsAssumption DEF Message
  <2> QED
    BY <1>1, <1>2, <2>1, <2>2, ConstantsAssumption
       DEF stream, Header, Stopped, Aligned, MessageBounded, Totalled, RowsBounded
<1>4. CASE ~(TooLong(msg) \/ OverTotal(msg))
  <2>1. /\ remaining' = msg.length - 4
        /\ chunk' = chunk - take
        /\ Advance(take)
        /\ refused' = refused
    BY <1>4 DEF CompleteHeader, Judge
  <2>2. off + take = Header /\ chunk' \in 0..MaxChunk
    BY <1>1, <2>1, ConstantsAssumption DEF Header, CompleteHeader, Judge
  <2>3. Stopped' /\ Totalled' /\ RowsBounded'
    BY <1>1, <1>2, <1>4, <2>1, ConstantsAssumption
       DEF Stopped, Totalled, RowsBounded, OverTotal, Counted
  <2>4. CASE Header < Size(msg)
    <3>1. off' = Header /\ msg' = msg /\ Size(msg') = Size(msg)
      BY <2>1, <2>2, <2>4 DEF Advance
    <3>2. Aligned' /\ MessageBounded'
      BY <1>1, <1>2, <1>4, <2>1, <3>1, ConstantsAssumption
         DEF Header, Aligned, MessageBounded, TooLong
    <3> QED
      BY <1>1, <1>2, <2>1, <2>2, <2>3, <2>4, <3>1, <3>2 DEF Header
  <2>5. CASE ~(Header < Size(msg))
    <3>1. off' = 0 /\ msg' \in Message /\ remaining' = 0
      BY <1>1, <2>1, <2>2, <2>5 DEF Advance, Header
    <3>2. Size(msg') > 0
      BY <3>1, MessageFacts
    <3> QED
      BY <1>1, <1>2, <2>1, <2>2, <2>3, <3>1, <3>2
         DEF Header, Size, Aligned, MessageBounded
  <2> QED
    BY <2>4, <2>5
<1> QED
  BY <1>3, <1>4

LEMMA LimitResponseIInv ==
  ASSUME IInv, NEW n \in Limits, limitResponse(n)
  PROVE  IInv'
BY ConstantsAssumption DEF IInv, TypeOK, Stopped, Aligned, MessageBounded, Totalled,
   RowsBounded, limitResponse, Arm, stream, Size, Header, Message

LEMMA EndResponseIInv ==
  ASSUME IInv, endResponse
  PROVE  IInv'
BY ConstantsAssumption DEF IInv, TypeOK, Stopped, Aligned, MessageBounded, Totalled,
   RowsBounded, endResponse, stream, guardVars, Size, Header, Message

LEMMA StepIInv == IInv /\ [Next]_vars => IInv'
<1>1. ASSUME IInv, UNCHANGED vars
      PROVE  IInv'
  BY <1>1 DEF IInv, TypeOK, Stopped, Aligned, MessageBounded, Totalled, RowsBounded,
     vars, stream, guardVars, Size
<1> QED
  BY <1>1, ReceiveIInv, SkipBodyIInv, PartOfHeaderIInv, CompleteHeaderIInv,
     LimitResponseIInv, EndResponseIInv DEF Next

THEOREM Invariance == Spec => []IInv
BY InitIInv, StepIInv, PTL DEF Spec

--------------------------------------------------------------------------------
\* The guard's variables keep their types: the header buffer never overflows and
\* the stream is never past the end of a message.
THEOREM TypeCorrect == Spec => []TypeOK
BY Invariance, PTL DEF IInv

\* However the stream is cut into chunks, the guard knows where it is.
THEOREM AlwaysAligned == Spec => []Aligned
BY Invariance, PTL DEF IInv

\* No message over messageLimit is ever read on, and no EXPLAIN's rows pass the
\* bound that was armed for them.
THEOREM Bounded == Spec => []KeptBounds
<1>1. IInv => KeptBounds
  BY DEF IInv, KeptBounds
<1> QED
  BY Invariance, <1>1, PTL

\* The guard refuses nothing that keeps its bounds: what it stops at is over the
\* limit, or takes the real total over it.
THEOREM OnlyForCause == Spec => RefusedForCause
<1>1. ASSUME IInv, [Next]_vars, refused' # refused
      PROVE  \/ msg.length > messageLimit
             \/ IsRow(msg) /\ responseLimit # None /\ rows' > responseLimit
  <2>1. CompleteHeader
    BY <1>1 DEF Next, vars, guardVars, Receive, SkipBody, PartOfHeader, CollectHeader,
       limitResponse, Arm, endResponse
  <2>2. TooLong(msg) \/ OverTotal(msg)
    BY <1>1, <2>1 DEF CompleteHeader, Judge
  <2> QED
    BY <1>1, <2>1, <2>2, AtHeader DEF TooLong, OverTotal
<1> QED
  BY <1>1, Invariance, PTL DEF Spec, RefusedForCause
================================================================================
