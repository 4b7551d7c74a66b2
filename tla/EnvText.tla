-------------------------------- MODULE EnvText ---------------------------------
(***************************************************************************)
(* The texts an operator writes in the environment, and how the servers    *)
(* read them: what each language trims, and the numbers the parsers take.  *)
(* A text is a sequence of characters; the characters stand for the kinds  *)
(* the languages tell apart.                                               *)
(***************************************************************************)
EXTENDS Integers, SequencesExt

CONSTANTS
  MAX_SAFE_INTEGER,   \* the largest integer a JavaScript number holds exactly
  Unset               \* what a variable that is not set holds

DigitChars == {"0", "1", "2"}
Digit      == [c \in DigitChars |-> CASE c = "0" -> 0 [] c = "1" -> 1 [] OTHER -> 2]

\* U+0085 is white space to Python alone, U+FEFF to JavaScript alone, and
\* U+200B to neither.
JsSpace      == {" ", "TAB", "LF", "BOM"}
PySpace      == {" ", "TAB", "LF", "NEL"}
CONFIG_TRIM  == JsSpace \cup PySpace

\* A text without what is in chars at its ends.
Trimmed(t, chars) ==
  LET kept == {i \in DOMAIN t : t[i] \notin chars}
  IN  IF kept = {} THEN <<>> ELSE SubSeq(t, Min(kept), Max(kept))

trim(t)       == Trimmed(t, JsSpace)
configTrim(t) == Trimmed(t, CONFIG_TRIM)

\* `env.X ?? ""`
OrEmpty(t) == IF t = Unset THEN <<>> ELSE t

--------------------------------------------------------------------------------
(* Numbers.  0 stands for a refusal: every parser refuses what is not      *)
(* positive.                                                               *)

Signed(t) == t # <<>> /\ t[1] \in {"+", "-"}
Digits(t) == IF Signed(t) THEN Tail(t) ELSE t

\* /^[+-]?\d+$/
Plain(t) == Digits(t) # <<>> /\ \A i \in DOMAIN Digits(t) : Digits(t)[i] \in DigitChars

Decimal(ds) ==
  LET value[i \in 0..Len(ds)] == IF i = 0 THEN 0 ELSE 10 * value[i - 1] + Digit[ds[i]]
  IN  value[Len(ds)]

Signum(t)   == IF Signed(t) /\ t[1] = "-" THEN -1 ELSE 1
BigInt(t)   == Signum(t) * Decimal(Digits(t))

\* Mutant: parseInt, which stops where it can read no further.
parsePlainPrefix(t) ==
  LET ends == {i \in 1..Len(t) : Plain(SubSeq(t, 1, i))}
      n    == IF ends = {} THEN 0 ELSE BigInt(SubSeq(t, 1, Max(ends)))
  IN  IF n > 0 /\ n <= MAX_SAFE_INTEGER THEN n ELSE 0

\* The grammar before the bound, the bound before Number() can round.
parsePlain(t) ==
  IF Plain(t) /\ BigInt(t) \in 1..MAX_SAFE_INTEGER THEN BigInt(t) ELSE 0

\* The Python port: the digits that count, their length, then the number.
Significant(ds) ==
  LET counts == {i \in DOMAIN ds : ds[i] # "0"}
  IN  IF counts = {} THEN <<"0">> ELSE SubSeq(ds, Min(counts), Len(ds))

\* 10^n.
Tens(n) == Decimal([i \in 1..(n + 1) |-> IF i = 1 THEN "1" ELSE "0"])

MAX_SAFE_INTEGER_DIGITS ==
  CHOOSE n \in 1..MAX_SAFE_INTEGER : Tens(n - 1) <= MAX_SAFE_INTEGER /\ MAX_SAFE_INTEGER < Tens(n)

parsePy(t) ==
  LET ds == Significant(Digits(t))
  IN  IF ~Plain(t) \/ Len(ds) > MAX_SAFE_INTEGER_DIGITS THEN 0
      ELSE LET n == Signum(t) * Decimal(ds)
           IN  IF n <= 0 \/ n > MAX_SAFE_INTEGER THEN 0 ELSE n
================================================================================
