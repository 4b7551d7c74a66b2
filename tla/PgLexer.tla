-------------------------------- MODULE PgLexer --------------------------------
(***************************************************************************)
(* The lexer of the PostgreSQL server (scan.l), as far as the SQL guard    *)
(* has to know it: start conditions, and at each place the rule that       *)
(* matches.  A text is a sequence of characters, except that the words S   *)
(* and K count as one letter each.                                         *)
(***************************************************************************)
EXTENDS Naturals, Sequences, SequencesExt, FiniteSetsExt

Letters == {"S", "K", "E", "x"}
Space   == {"space", "newline"}

At(s, i)    == IF i \in DOMAIN s THEN s[i] ELSE "end"
Pair(s, i)  == <<At(s, i), At(s, i + 1)>>
LineStart   == <<"dash", "dash">>
BlockStart  == <<"slash", "star">>
BlockStop   == <<"star", "slash">>
Least(S, d) == IF S = {} THEN d ELSE Min(S)

Error == <<[type |-> "error"]>>

Initial     == [in |-> "initial"]
Comment(n)  == IF n = 0 THEN Initial ELSE [in |-> "comment", depth |-> n]
String(e)   == [in |-> "string", escapes |-> e]
Stop(e)     == [in |-> "stop", escapes |-> e]
Name(w)     == [in |-> "name", word |-> w]
Dollar(t)   == [in |-> "dollar", tag |-> t]

Word(w)     == <<[type |-> "word", word |-> w]>>
Literal1    == <<[type |-> "literal"]>>
Sign(c)     == <<[type |-> c]>>

\* quotecontinue: blanks and comments up to a quote, with a newline among them
\* and one after each comment.
Continues(s, i, q) ==
  /\ s[q] = "quote"
  /\ \E n \in i..(q - 1) : s[n] = "newline"
  /\ \A j \in i..(q - 1) :
       \/ s[j] \in Space
       \/ /\ \E c \in i..j : Pair(s, c) = LineStart /\ \A m \in c..j : s[m] # "newline"
          /\ \E n \in j..(q - 1) : s[n] = "newline"

\* A delimiter $tag$ at i, as the index of its last character, or 0.
Delimiter(s, i) ==
  LET j == Least({ k \in (i + 1)..Len(s) : s[k] \notin Letters }, 0)
  IN IF s[i] = "dollar" /\ At(s, j) = "dollar" THEN j ELSE 0

WordEnd(s, i) == Least({ k \in i..Len(s) : s[k] \notin Letters \cup {"dollar"} }, Len(s) + 1)
LineEnd(s, i) == Least({ k \in i..Len(s) : s[k] = "newline" }, Len(s) + 1)

Rule(s, st) ==
  LET i == st.at
      c == st.cond
      Go(n, cond, toks) == [at |-> n, cond |-> cond, toks |-> st.toks \o toks]
  IN CASE c.in = "initial" ->
            (CASE s[i] \in Space              -> Go(i + 1, c, <<>>)
               [] Pair(s, i) = LineStart      -> Go(LineEnd(s, i), c, <<>>)
               [] Pair(s, i) = BlockStart     -> Go(i + 2, Comment(1), <<>>)
               [] s[i] = "quote"              -> Go(i + 1, String(FALSE), Literal1)
               [] Pair(s, i) = <<"E", "quote">> -> Go(i + 2, String(TRUE), Literal1)
               [] s[i] \in Letters /\ Pair(s, i) # <<"E", "quote">> ->
                    Go(WordEnd(s, i), c, Word(SubSeq(s, i, WordEnd(s, i) - 1)))
               [] s[i] = "double"             -> Go(i + 1, Name(<<>>), <<>>)
               [] s[i] = "dollar"             ->
                    IF Delimiter(s, i) = 0 THEN Go(i + 1, c, Error)
                    ELSE Go(Delimiter(s, i) + 1, Dollar(SubSeq(s, i, Delimiter(s, i))), Literal1)
               [] OTHER                       -> Go(i + 1, c, Sign(s[i])))
       [] c.in = "comment" ->
            (CASE Pair(s, i) = BlockStart -> Go(i + 2, Comment(c.depth + 1), <<>>)
               [] Pair(s, i) = BlockStop  -> Go(i + 2, Comment(c.depth - 1), <<>>)
               [] OTHER                   -> Go(i + 1, c, <<>>))
       [] c.in = "string" ->
            (CASE c.escapes /\ s[i] = "backslash" -> Go(i + 2, c, <<>>)
               [] s[i] = "quote"                  ->
                    IF At(s, i + 1) = "quote" THEN Go(i + 2, c, <<>>) ELSE Go(i + 1, Stop(c.escapes), <<>>)
               [] OTHER                           -> Go(i + 1, c, <<>>))
       [] c.in = "stop" ->
            LET q == Least({ k \in i..Len(s) : Continues(s, i, k) }, 0)
            IN IF q = 0 THEN Go(i, Initial, <<>>) ELSE Go(q + 1, String(c.escapes), <<>>)
       [] c.in = "name" ->
            (CASE Pair(s, i) = <<"double", "double">> -> Go(i + 2, Name(Append(c.word, "double")), <<>>)
               [] s[i] = "double" /\ At(s, i + 1) # "double" -> Go(i + 1, Initial, Word(c.word))
               [] OTHER -> Go(i + 1, Name(Append(c.word, s[i])), <<>>))
       [] c.in = "dollar" ->
            LET last == i + Len(c.tag) - 1
            IN IF last <= Len(s) /\ SubSeq(s, i, last) = c.tag THEN Go(last + 1, Initial, <<>>)
               ELSE Go(i + 1, c, <<>>)

RECURSIVE Lex(_, _)
Lex(s, st) ==
  IF st.at <= Len(s) THEN Lex(s, Rule(s, st))
  ELSE IF st.cond.in \in {"initial", "stop"} THEN st.toks ELSE st.toks \o Error

Tokens(s) == Lex(s, [at |-> 1, cond |-> Initial, toks |-> <<>>])
================================================================================
