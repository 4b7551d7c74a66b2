-------------------------------- MODULE SqlGuard --------------------------------
(***************************************************************************)
(* guardQuery and subqueryBody of postgres-readonly beside the lexer of    *)
(* the server that runs what they let through.  A text is a sequence of    *)
(* characters, except that a word a test is about (S for an allowed        *)
(* leading keyword, K for a forbidden one) is one; it grows chunk by chunk *)
(* and every text is judged.  U&"..." identifiers are left out.            *)
(***************************************************************************)
EXTENDS PgLexer

CONSTANTS
  Families   \* sets of chunks that texts are put together from
ASSUME FamiliesAssumption == \A f \in Families : f.max \in Nat

VARIABLES family, text, size

vars == <<family, text, size>>

Init == family \in Families /\ size = 0 /\ \E s \in family.seeds : text = <<"S", "space">> \o s
Next ==
  /\ size < family.max
  /\ \E c \in family.chunks : text' = text \o c
  /\ size' = size + 1
  /\ UNCHANGED family
Spec == Init /\ [][Next]_vars

--------------------------------------------------------------------------------
(* Where things end: an index just past them, 0 for never.                 *)

startsToken(s, i) == i = 1 \/ s[i - 1] \notin Letters \cup {"dollar"}

isEscapeStringStart(s, i) == Pair(s, i) = <<"E", "quote">> /\ startsToken(s, i)

\* A body closed by q, in which q q stands for q.
RECURSIVE quotedEnd(_, _, _)
quotedEnd(s, i, q) ==
  IF i > Len(s) THEN 0
  ELSE IF s[i] # q THEN quotedEnd(s, i + 1, q)
  ELSE IF At(s, i + 1) = q THEN quotedEnd(s, i + 2, q) ELSE i + 1

\* The same with backslash escapes.
RECURSIVE escapeBodyEnd(_, _)
escapeBodyEnd(s, i) ==
  IF i > Len(s) THEN 0
  ELSE IF s[i] = "backslash" \/ Pair(s, i) = <<"quote", "quote">> THEN escapeBodyEnd(s, i + 2)
  ELSE IF s[i] = "quote" THEN i + 1
  ELSE escapeBodyEnd(s, i + 1)

lineCommentEnd(s, i) == Least({ j \in i..Len(s) : s[j] = "newline" }, Len(s) + 1)

RECURSIVE blockCommentEnd(_, _, _)
blockCommentEnd(s, i, depth) ==
  IF depth = 0 THEN i
  ELSE IF i > Len(s) THEN 0
  ELSE IF Pair(s, i) = BlockStart THEN blockCommentEnd(s, i + 2, depth + 1)
  ELSE IF Pair(s, i) = BlockStop THEN blockCommentEnd(s, i + 2, depth - 1)
  ELSE blockCommentEnd(s, i + 1, depth)

\* Mutant: a line comment is no separator.
RECURSIVE continuationBlank(_, _, _)
continuationBlank(s, i, newline) ==
  IF At(s, i) \in Space THEN continuationBlank(s, i + 1, newline \/ s[i] = "newline")
  ELSE IF newline /\ At(s, i) = "quote" THEN i ELSE 0

\* stringContinuationQuote: the quote that continues a string ended before i.
RECURSIVE continuation(_, _, _)
continuation(s, i, newline) ==
  IF Pair(s, i) = LineStart THEN continuation(s, lineCommentEnd(s, i), newline)
  ELSE IF At(s, i) \in Space THEN continuation(s, i + 1, newline \/ s[i] = "newline")
  ELSE IF newline /\ At(s, i) = "quote" THEN i ELSE 0

\* i is past an opening quote.
RECURSIVE escapeStringEnd(_, _)
escapeStringEnd(s, i) ==
  LET end  == escapeBodyEnd(s, i)
      next == continuation(s, end, FALSE)
  IN IF end = 0 \/ next = 0 THEN end ELSE escapeStringEnd(s, next + 1)

\* The opener of a dollar quote at i, or <<>>.
dollarQuoteOpenAt(s, i) ==
  LET last == Least({ j \in (i + 1)..Len(s) : s[j] \notin Letters }, 0)
  IN IF s[i] = "dollar" /\ startsToken(s, i) /\ At(s, last) = "dollar" THEN SubSeq(s, i, last) ELSE <<>>

dollarQuoteEnd(s, i, tag) ==
  LET n == Len(tag)
      starts == { j \in (i + n)..(Len(s) - n + 1) : SubSeq(s, j, j + n - 1) = tag }
  IN Least({ j + n : j \in starts }, 0)

--------------------------------------------------------------------------------
(* The four scanners step over literals alike.                             *)

\* The literal or quoted identifier that starts at i, or None.
None == [kind |-> "none"]
Literal(s, i) ==
  LET tag == dollarQuoteOpenAt(s, i) IN
  CASE tag # <<>>                -> [kind |-> "dollar", end |-> dollarQuoteEnd(s, i, tag)]
    [] isEscapeStringStart(s, i) -> [kind |-> "escape", end |-> escapeStringEnd(s, i + 2)]
    [] s[i] = "quote"            -> [kind |-> "string", end |-> quotedEnd(s, i + 1, "quote")]
    [] s[i] = "double"           -> [kind |-> "name",   end |-> quotedEnd(s, i + 1, "double")]
    [] OTHER -> None

Past(s, end) == IF end = 0 THEN Len(s) + 1 ELSE end

\* Comments become spaces.  st.e is just past the last E-string copied, until
\* the next string; `split` tells of a string that only then continues it.
RECURSIVE stripComments(_, _, _)
stripComments(s, i, st) ==
  IF i > Len(s) THEN st ELSE
  LET lit  == Literal(s, i)
      copy == st.out \o SubSeq(s, i, Past(s, lit.end) - 1)
      space(end) == stripComments(s, Past(s, end), [st EXCEPT !.out = Append(@, "space")])
  IN CASE lit.kind = "escape" -> stripComments(s, Past(s, lit.end), [st EXCEPT !.out = copy, !.e = Len(copy) + 1])
       [] lit.kind = "string" ->
            stripComments(s, Past(s, lit.end),
              [out |-> copy, e |-> 0,
               split |-> st.split \/ (st.e # 0 /\ continuation(Append(st.out, "quote"), st.e, FALSE) = Len(st.out) + 1)])
       [] lit.kind \in {"dollar", "name"} -> stripComments(s, Past(s, lit.end), [st EXCEPT !.out = copy])
       [] Pair(s, i) = LineStart  -> space(lineCommentEnd(s, i))
       [] Pair(s, i) = BlockStart -> space(blockCommentEnd(s, i + 2, 1))
       [] OTHER -> stripComments(s, i + 1, [st EXCEPT !.out = Append(@, s[i])])

Trim(s) ==
  LET solid == { i \in DOMAIN s : s[i] \notin Space }
  IN IF solid = {} THEN <<>> ELSE SubSeq(s, Min(solid), Max(solid))

\* The statements of s from i on; buf is what the first has so far.
RECURSIVE splitStatements(_, _, _)
splitStatements(s, i, buf) ==
  IF i > Len(s) THEN IF Trim(buf) = <<>> THEN <<>> ELSE <<Trim(buf)>> ELSE
  LET lit == Literal(s, i)
      end == IF lit = None THEN i + 1 ELSE Past(s, lit.end)
  IN IF s[i] # "semicolon" THEN splitStatements(s, end, buf \o SubSeq(s, i, end - 1))
     ELSE (IF Trim(buf) = <<>> THEN <<>> ELSE <<Trim(buf)>>) \o splitStatements(s, i + 1, <<>>)

\* Literals become spaces, names stay; <<"unterminated">> for a text that ends
\* inside one.
RECURSIVE stripStringLiterals(_, _, _)
stripStringLiterals(s, i, out) ==
  IF i > Len(s) THEN out ELSE
  LET lit == Literal(s, i) IN
  CASE lit = None -> stripStringLiterals(s, i + 1, Append(out, s[i]))
    [] lit # None /\ lit.end = 0 -> <<"unterminated">>
    [] lit # None /\ lit.end # 0 /\ lit.kind = "name" -> stripStringLiterals(s, lit.end, out \o SubSeq(s, i, lit.end - 1))
    [] OTHER -> stripStringLiterals(s, lit.end, Append(out, "space"))

containsKeyword(s) ==
  \E i \in DOMAIN s : s[i] = "K" /\ At(s, i - 1) \notin Letters /\ At(s, i + 1) \notin Letters

Reading(s) == stripComments(s, 1, [out |-> <<>>, e |-> 0, split |-> FALSE])

guardQuery(s) ==
  LET read == Reading(s)
      statements == splitStatements(read.out, 1, <<>>)
      stmt == statements[1]
      scan == stripStringLiterals(stmt, 1, <<>>)
  IN /\ ~read.split
     /\ Len(statements) = 1
     /\ stmt[1] = "S" /\ At(stmt, 2) \notin Letters
     /\ scan # <<"unterminated">>
     /\ ~containsKeyword(scan)

\* The text as the inside of a subquery, or <<"null">>.
RECURSIVE subqueryBody(_, _, _)
subqueryBody(s, i, depth) ==
  LET lit  == Literal(s, i)
      then(end, d) == IF end = 0 \/ d < 0 THEN <<"null">> ELSE subqueryBody(s, end, d)
  IN CASE i > Len(s) -> IF depth = 0 THEN s ELSE <<"null">>
       [] i <= Len(s) /\ lit # None -> then(lit.end, depth)
       [] Pair(s, i) = LineStart  -> then(lineCommentEnd(s, i), depth)
       [] Pair(s, i) = BlockStart -> then(blockCommentEnd(s, i + 2, 1), depth)
       [] At(s, i) = "semicolon"  -> IF depth = 0 THEN SubSeq(s, 1, i - 1) ELSE <<"null">>
       [] At(s, i) = "(" -> then(i + 1, depth + 1)
       [] At(s, i) = ")" -> then(i + 1, depth - 1)
       [] OTHER -> subqueryBody(s, i + 1, depth)

\* Mutant: the body is not on a line of its own.
EmbeddedInline(body) == <<"(">> \o body \o <<")">>

\* byteCappedQuery puts the body on lines of its own between parentheses.
Embedded(body) == <<"(", "newline">> \o body \o <<"newline", ")">>

--------------------------------------------------------------------------------
(* Properties.                                                             *)

\* A text the server would not even read runs nothing.
Readable(toks) == \A i \in DOMAIN toks : toks[i].type # "error"
Types(toks)    == [i \in DOMAIN toks |-> toks[i].type]

\* One statement, and no forbidden word as a keyword or as a quoted name.
ReadOnly(toks) ==
  /\ \A i \in DOMAIN toks : toks[i] # Word(<<"K">>)[1]
  /\ \A i, j \in DOMAIN toks : i < j /\ toks[i].type = "semicolon" => toks[j].type = "semicolon"

\* Readable text that no K is in, of one statement, no literal beside another.
Plain(toks) ==
  /\ Readable(toks) /\ "K" \notin ToSet(text)
  /\ \A i \in 1..(Len(toks) - 1) : <<"literal", "literal">> # SubSeq(Types(toks), i, i + 1)
  /\ toks[1] = Word(<<"S">>)[1] /\ ReadOnly(toks)

\* Whatever guardQuery lets through is, as the server reads it, one statement
\* without a forbidden word, and it lets plain text through: the scanners and
\* the server agree where literals, names and comments end.
GuardTrue ==
  LET toks == Tokens(text) IN
  /\ guardQuery(text) /\ Readable(toks) => ReadOnly(toks)
  /\ Plain(toks) => guardQuery(text)

\* A query that run_select embeds stays inside its parentheses: the size cap
\* around it can be neither closed early nor commented out.
EmbedsClosed ==
  LET body == subqueryBody(text, 1, 0)
      types == Types(Tokens(Embedded(body)))
      Depth(n) == Cardinality({ i \in 1..n : types[i] = "(" }) - Cardinality({ i \in 1..n : types[i] = ")" })
  IN guardQuery(text) /\ body # <<"null">> =>
       \/ "error" \in ToSet(types)
       \/ /\ \A n \in 1..(Len(types) - 1) : Depth(n) > 0
          /\ Depth(Len(types)) = 0 /\ "semicolon" \notin ToSet(types)
================================================================================
