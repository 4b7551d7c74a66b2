--------------------------------- MODULE ReadFile ---------------------------------
(***************************************************************************)
(* readFile of filesystem-sandbox: one handle, a size check and a bounded  *)
(* read in chunks, one action per awaited call.  Between two of them other *)
(* write_file calls put a new file under the name, and other programs      *)
(* append to the file that is open, cut it short or write over it.         *)
(* read_file of the Python port takes the same steps.                      *)
(***************************************************************************)
EXTENDS Integers, Sequences, FiniteSets

CONSTANTS
  maxBytes,          \* the cap
  READ_CHUNK_BYTES,  \* the largest single read
  Contents,          \* what a file may hold at first, or once it is replaced
  Appended,          \* what may be appended to it
  MaxChanges         \* bound: changes by others during the call

\* A character is "a", or "h" followed by "t"; neither of these stands alone.
Byte == {"a", "h", "t"}

ASSUME ConstantsAssumption ==
  /\ maxBytes \in Nat /\ READ_CHUNK_BYTES \in Nat \ {0} /\ MaxChanges \in Nat
  /\ Contents \subseteq Seq(Byte) /\ Appended \subseteq Seq(Byte)

VARIABLES
  named,    \* the content of the file the path names
  opened,   \* the content of the file behind the handle
  same,     \* the path still names that file
  step,     \* "open", "stat", "read" or "done"
  chunks,   \* the bytes read so far
  answer,   \* "none", "ok", "too_large", "not_text" or "failed"
  seen,     \* history: what the open file has held during the call
  torn,     \* history: bytes of the open file were changed or removed
  changes   \* bound: what others have done

readVars == <<named, opened, same, step, chunks, answer, seen, torn, changes>>

Answers == {"none", "ok", "too_large", "not_text", "failed"}

ReadTypeOK ==
  /\ named \in Seq(Byte) /\ opened \in Seq(Byte) /\ chunks \in Seq(Byte)
  /\ same \in BOOLEAN /\ torn \in BOOLEAN
  /\ step \in {"open", "stat", "read", "done"}
  /\ answer \in Answers
  /\ seen \subseteq Seq(Byte)
  /\ changes \in 0 .. MaxChanges

ReadInit ==
  /\ named \in Contents
  /\ opened = <<>> /\ same = FALSE
  /\ step = "open" /\ chunks = <<>> /\ answer = "none"
  /\ seen = {} /\ torn = FALSE /\ changes = 0

----------------------------------------------------------------------------
(* readFile                                                                *)

FileFrame == UNCHANGED <<named, opened, same, seen, torn, changes>>

End(a) == step' = "done" /\ answer' = a

\* Any awaited call may reject; the handle is closed in the finally block.
Fails ==
  /\ step # "done"
  /\ End("failed") /\ UNCHANGED chunks /\ FileFrame

Open ==
  /\ step = "open"
  /\ step' = "stat"
  /\ opened' = named /\ same' = TRUE /\ seen' = {named}
  /\ UNCHANGED <<named, chunks, answer, torn, changes>>

Stat ==
  /\ step = "stat"
  /\ IF Len(opened) > maxBytes THEN End("too_large")
     ELSE step' = "read" /\ UNCHANGED answer
  /\ UNCHANGED chunks /\ FileFrame

\* One byte more than the cap is asked for, to tell a full file from a longer one.
limit == maxBytes + 1
total == Len(chunks)

\* A strict decoder.
IsText(b) ==
  \A k \in DOMAIN b :
    /\ b[k] = "h" => k + 1 \in DOMAIN b /\ b[k + 1] = "t"
    /\ b[k] = "t" => k - 1 \in DOMAIN b /\ b[k - 1] = "h"

\* Mutant: a read that returns fewer bytes than it was asked for is the last.
ReadChunkShort ==
  /\ step = "read" /\ total < Len(opened)
  /\ \E n \in 1 .. READ_CHUNK_BYTES :
       /\ n <= limit - total /\ n <= Len(opened) - total
       /\ chunks' = chunks \o SubSeq(opened, total + 1, total + n)
       /\ IF total + n > maxBytes THEN End("too_large")
          ELSE IF n < READ_CHUNK_BYTES /\ IsText(chunks') THEN End("ok")
          ELSE UNCHANGED <<step, answer>>
  /\ FileFrame

\* read() returns at least one byte if the file has one there, and may return
\* fewer than it was asked for.
ReadChunk ==
  /\ step = "read" /\ total < Len(opened)
  /\ \E n \in 1 .. READ_CHUNK_BYTES :
       /\ n <= limit - total /\ n <= Len(opened) - total
       /\ chunks' = chunks \o SubSeq(opened, total + 1, total + n)
       /\ step' = IF total + n > maxBytes THEN "done" ELSE "read"
       /\ answer' = IF total + n > maxBytes THEN "too_large" ELSE "none"
  /\ FileFrame

\* No byte there: the file ends here, as far as this call is concerned.
ReadEnd ==
  /\ step = "read" /\ total >= Len(opened)
  /\ End(IF IsText(chunks) THEN "ok" ELSE "not_text")
  /\ UNCHANGED chunks /\ FileFrame

----------------------------------------------------------------------------
(* Everybody else                                                          *)

Change ==
  /\ step # "done" /\ changes < MaxChanges
  /\ changes' = changes + 1
  /\ UNCHANGED <<step, chunks, answer>>

\* write_file renames a new file over the name; an open file is not its matter.
Replace ==
  /\ Change
  /\ named' \in Contents /\ same' = FALSE
  /\ UNCHANGED <<opened, seen, torn>>

\* The file that the path names gets new content in place.
InPlace(b) ==
  /\ named' = b
  /\ opened' = IF same THEN b ELSE opened
  /\ seen' = IF same THEN seen \cup {b} ELSE seen
  /\ UNCHANGED same

Grow ==
  /\ Change
  /\ \E b \in Appended : InPlace(named \o b)
  /\ UNCHANGED torn

\* Another program cuts it short, or writes other bytes over it.
Overwrite ==
  /\ Change
  /\ \E b \in Contents : InPlace(b)
  /\ torn' = (torn \/ same)

ReadNext ==
  \/ Open \/ Stat \/ ReadChunk \/ ReadEnd \/ Fails
  \/ Replace \/ Grow \/ Overwrite

ReadSpec == ReadInit /\ [][ReadNext]_readVars

----------------------------------------------------------------------------
(* What a caller may rely on                                               *)

\* An answer is a text within the cap, and the file as it was at one moment of
\* the call unless its bytes were changed in place; a refusal gives a reason that
\* was true at one moment.  However the file grows meanwhile, no more than one
\* byte past the cap is read (tools.ts:109).
ReadTrue ==
  /\ Len(chunks) <= limit
  /\ answer = "ok" =>
       /\ Len(chunks) <= maxBytes /\ IsText(chunks)
       /\ torn \/ chunks \in seen
  /\ answer = "too_large" => \E b \in seen : Len(b) > maxBytes
  /\ answer = "not_text" => torn \/ \E b \in seen : ~IsText(b)
===================================================================================
