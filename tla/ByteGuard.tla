------------------------------- MODULE ByteGuard -------------------------------
(***************************************************************************)
(* ResponseByteGuard of the postgres-readonly server: it finds the message *)
(* headers in a byte stream that arrives in chunks cut anywhere, and       *)
(* refuses the stream at the header that crosses a bound.  `msg` and `off` *)
(* are where the stream really is; the guard never sees them.              *)
(***************************************************************************)
EXTENDS Naturals

CONSTANTS
  Types,          \* message types; "D" is DataRow
  Lengths,        \* the values of the length field, which counts itself
  MaxChunk,       \* bound on the bytes of a chunk
  messageLimit,   \* the bound on one message
  Limits,         \* the bounds limitResponse is called with
  None            \* no limit; nothing refused

Header == 5

ASSUME ConstantsAssumption ==
  /\ Lengths \subseteq Nat /\ \A n \in Lengths : n >= 4
  /\ Lengths # {} /\ Types # {}
  /\ MaxChunk \in Nat
  /\ messageLimit \in Nat
  /\ Limits \subseteq Nat
  /\ None \notin Nat \cup [type : Types, length : Lengths]

VARIABLES
  msg,            \* the message the stream is in
  off,            \* the bytes of it that have arrived
  chunk,          \* the bytes of the current chunk `feed` has not read
  headerFill,     \* the header bytes collected
  remaining,      \* the body bytes to skip
  responseLimit,  \* the bound on the rows of this reply, or None
  responseBytes,  \* the bytes of its rows so far
  refused,        \* the message the stream was refused at, or None
  rows            \* history: the row bytes the reply really had

stream    == <<msg, off>>
guardVars == <<headerFill, remaining, responseBytes, refused, rows>>
vars      == <<stream, chunk, guardVars, responseLimit>>

Message   == [type : Types, length : Lengths]
Size(m)   == m.length + 1
Least(a, b) == IF a <= b THEN a ELSE b

TypeOK ==
  /\ msg \in Message
  /\ off \in Nat /\ off < Size(msg)
  /\ chunk \in 0..MaxChunk
  /\ headerFill \in 0..(Header - 1)
  /\ remaining \in Nat
  /\ responseLimit \in Limits \cup {None}
  /\ responseBytes \in Nat
  /\ refused \in Message \cup {None}
  /\ rows \in Nat

Init ==
  /\ msg \in Message
  /\ off = 0 /\ chunk = 0 /\ headerFill = 0 /\ remaining = 0
  /\ responseLimit = None /\ responseBytes = 0
  /\ refused = None
  /\ rows = 0

--------------------------------------------------------------------------------
\* The stream moves on by n bytes; after the last byte of a message comes the
\* first of another.
Advance(n) ==
  IF off + n < Size(msg) THEN off' = off + n /\ UNCHANGED msg
                         ELSE off' = 0 /\ msg' \in Message

\* The 'data' listener: feed() is called unless the stream was refused.
Receive(n) ==
  /\ chunk = 0
  /\ refused = None
  /\ chunk' = n
  /\ UNCHANGED <<stream, guardVars, responseLimit>>

\* One turn of feed's loop inside a body.
SkipBody ==
  /\ chunk > 0
  /\ remaining > 0
  /\ LET skip == Least(remaining, chunk)
     IN /\ remaining' = remaining - skip
        /\ chunk' = chunk - skip
        /\ Advance(skip)
  /\ UNCHANGED <<headerFill, responseLimit, responseBytes, refused, rows>>

CollectHeader(more) ==
  /\ chunk > 0
  /\ remaining = 0
  /\ more
  /\ headerFill' = headerFill + chunk
  /\ chunk' = 0
  /\ Advance(chunk)
  /\ UNCHANGED <<remaining, responseLimit, responseBytes, refused, rows>>

\* One turn that collects header bytes and does not complete the header.
PartOfHeader == CollectHeader(headerFill + chunk < Header)

IsRow(m) == m.type = "D"

\* Mutant: only rows are bounded, not the error message that quotes a value.
TooLongRow(m) == IsRow(m) /\ m.length > messageLimit

TooLong(m) == m.length > messageLimit

\* responseBytes once the header of m is read; unarmed, and past a message that
\* is refused for its own length, the row is not counted.
Counted(m) ==
  IF IsRow(m) /\ responseLimit # None /\ ~TooLong(m)
  THEN responseBytes + m.length - 4 ELSE responseBytes

OverTotal(m) == IsRow(m) /\ responseLimit # None /\ Counted(m) > responseLimit

\* The turn that completes a header and decides on the message.  A refusal
\* leaves the rest of the chunk unread.
Judge(body) ==
  LET m == msg
      take == Header - headerFill
  IN /\ chunk > 0
     /\ remaining = 0
     /\ take <= chunk
     /\ headerFill' = 0
     /\ responseBytes' = Counted(m)
     /\ rows' = IF IsRow(m) /\ responseLimit # None THEN rows + m.length - 4 ELSE rows
     /\ IF TooLong(m) \/ OverTotal(m)
        THEN /\ refused' = m
             /\ chunk' = 0
             /\ UNCHANGED <<stream, remaining>>
        ELSE /\ remaining' = body
             /\ chunk' = chunk - take
             /\ Advance(take)
             /\ UNCHANGED refused
     /\ UNCHANGED responseLimit

CompleteHeader == Judge(msg.length - 4)

--------------------------------------------------------------------------------
(* runSelect arms the guard before an EXPLAIN, when no row can be on the    *)
(* way, and disarms it when the query resolves or rejects, which may be in  *)
(* the middle of anything (the client's own query timeout).                 *)

Arm(n, counted) ==
  /\ chunk = 0
  /\ off = 0 \/ ~IsRow(msg)
  /\ refused = None
  /\ responseLimit = None
  /\ responseLimit' = n
  /\ responseBytes' = counted
  /\ rows' = 0
  /\ UNCHANGED <<stream, chunk, headerFill, remaining, refused>>

\* Mutant: the count of the reply before is kept.
limitResponseKeep(n) == Arm(n, responseBytes)

limitResponse(n) == Arm(n, 0)

endResponse ==
  /\ chunk = 0
  /\ responseLimit # None
  /\ responseLimit' = None
  /\ UNCHANGED <<stream, chunk, guardVars>>

Next ==
  \/ \E n \in 1..MaxChunk : Receive(n)
  \/ SkipBody \/ PartOfHeader \/ CompleteHeader
  \/ \E n \in Limits : limitResponse(n)
  \/ endResponse

Spec == Init /\ [][Next]_vars

--------------------------------------------------------------------------------
(* Properties.                                                             *)

\* However the chunks are cut, the guard is where the stream is: it collects
\* exactly the header bytes and skips exactly the body bytes.
Aligned ==
  refused = None =>
    /\ headerFill = IF off < Header THEN off ELSE 0
    /\ remaining = IF off < Header THEN 0 ELSE Size(msg) - off

\* The body of a message over the limit, of whatever type, is never read on.
MessageBounded ==
  refused = None /\ off >= Header => msg.length <= messageLimit

\* The rows that an EXPLAIN's reply has brought in never pass its bound.
RowsBounded ==
  refused = None /\ responseLimit # None => rows <= responseLimit

\* What the guard lets through keeps both bounds.
KeptBounds == MessageBounded /\ RowsBounded

\* Nothing is refused but a message over the limit, or a row that takes the real
\* total of this reply over its bound.
RefusedForCause ==
  [][refused' # refused =>
       \/ msg.length > messageLimit
       \/ IsRow(msg) /\ responseLimit # None /\ rows' > responseLimit]_vars
================================================================================
