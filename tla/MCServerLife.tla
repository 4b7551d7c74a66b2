------------------------------ MODULE MCServerLife ------------------------------
(***************************************************************************)
(* One variable of the environment varies at a time, the others are unset  *)
(* (a required one is "p"): texts of up to MaxText characters, or of up to *)
(* MaxUrl after the scheme and host.                                       *)
(***************************************************************************)
EXTENDS ServerLife

CONSTANTS
  MaxText,   \* bound: characters of a number, a token, a list
  MaxUrl     \* bound: pieces of a base URL's path

\* The sequences of up to n of chars.
UpTo(chars, n) == {SelectSeq(f, LAMBDA c : c # "none") : f \in [1..n -> chars \cup {"none"}]}

Numbers == {Unset} \cup UpTo({"0", "1", "2", "+", "-", "e", "_", " ", "NEL", "BOM"}, MaxText)
Sizes   == {Unset} \cup UpTo({"0", "1", "2", "e", " "}, MaxText)
Headers == {Unset} \cup UpTo({" ", "a", "TAB", "LF", "NUL", "wide", "BOM", "NEL"}, MaxText)
Lists   == {Unset} \cup UpTo({":", "p", " ", "NEL", "BOM", "ZWSP"}, MaxText)

Urls ==
  LET paths == UpTo({"/", "\\", "a", ".", "%2e", "?", "#", "TAB", " ", "@"}, MaxUrl)
      short == UpTo({"/", "\\", "a", ".", " ", "@"}, 2)
  IN  {Unset} \cup {<<"http://", "h">> \o p : p \in paths}
        \cup {pad \o <<"http://">> \o p : pad \in {<<>>, <<" ">>, <<"BOM">>, <<"NEL">>}, p \in short}
        \cup short

Pads == {<<>>, <<" ">>, <<"NEL">>, <<"BOM">>, <<"ZWSP">>}

Padded(words) == {Unset} \cup {p \o <<w>> \o q : p \in Pads, q \in Pads, w \in words} \cup Pads

SomeBase == [
  s \in Servers |->
    CASE s = "filesystem-sandbox" -> [ALLOWLIST |-> <<"p">>, MAX_BYTES |-> Unset, READ_ONLY |-> Unset]
      [] s = "github-gists" ->
           [GITHUB_TOKEN |-> Unset, BASE_URL |-> Unset, USER_AGENT |-> Unset, TIMEOUT_MS |-> Unset]
      [] s = "postgres-readonly" ->
           [DATABASE_URL |-> <<"p">>, MAX_ROWS |-> Unset, STATEMENT_TIMEOUT_MS |-> Unset,
            MAX_RESULT_BYTES |-> Unset]
      [] OTHER -> [CWD |-> Unset]]

SomeSettings == [
  s \in Servers |->
    CASE s = "filesystem-sandbox" ->
           [ALLOWLIST |-> Lists, MAX_BYTES |-> Numbers, READ_ONLY |-> Padded({"1", "yes", "YES", "on"})]
      [] s = "github-gists" ->
           [GITHUB_TOKEN |-> Headers, BASE_URL |-> Urls, USER_AGENT |-> Headers, TIMEOUT_MS |-> Numbers]
      [] s = "postgres-readonly" ->
           [DATABASE_URL |-> Padded({"p"}), MAX_ROWS |-> Numbers, STATEMENT_TIMEOUT_MS |-> Sizes,
            MAX_RESULT_BYTES |-> Sizes]
      [] OTHER -> [CWD |-> Padded({"directory", "file", "missing", "relative"})]]

SomeDefaults == [TIMEOUT_MS |-> 10, MAX_BYTES |-> 12, MAX_ROWS |-> 10,
                 STATEMENT_TIMEOUT_MS |-> 5, MAX_RESULT_BYTES |-> 16]

\* Every limit, and the numbers around it.
Edges == {n + i : n \in {0, MAX_TIMEOUT_MS, MAX_TIMEOUT_MS - QueryBackstop, MAX_MAX_RESULT_BYTES}, i \in -1..1}

SomeConfigs == [
  s \in Servers |->
    CASE s = "github-gists" ->
           {[token |-> t, baseUrl |-> <<"http://", "h">>, userAgent |-> u, timeoutMs |-> n] :
              t \in {Unset} \cup UpTo({" ", "a", "LF", "wide"}, 2), u \in {<<>>, <<"a">>, <<"LF">>}, n \in Edges}
             \cup {[token |-> Unset, baseUrl |-> b, userAgent |-> <<"a">>, timeoutMs |-> 10] :
                     b \in UpTo({"http://", "h", "/", ".", " ", "?"}, 4)}
      [] s = "postgres-readonly" ->
           {[database |-> d, maxRows |-> r, statementTimeoutMs |-> n, maxResultBytes |-> b] :
              d \in {<<"p">>, <<>>, <<" ">>}, r \in Edges, n \in Edges, b \in Edges}
      [] s = "internal-tools-bridge" ->
           {[cwd |-> <<d>>, allowlist |-> a, timeoutMs |-> n, maxOutputBytes |-> b] :
              d \in {"directory", "file", "missing", "relative"},
              a \in UpTo({"absolute", "relative"}, 2), n \in Edges, b \in Edges}
      [] OTHER -> {}]

\* The arguments of a tool: any of its fields and two more, of any kind.
Objects(keys) ==
  LET kinds == [keys -> {"none", "string", "integer", "fraction", "null"}]
  IN  {Json("object", [f \in {g \in keys : k[g] # "none"} |-> Json(k[f], 0)]) : k \in kinds}

Others == {Json(k, Nil) : k \in {"absent", "null", "string", "array"}}

ArgumentsOf(tools) ==
  [t \in DOMAIN tools |-> Objects(DOMAIN tools[t].properties \cup {"toString", "z"}) \cup Others]

SomeArguments ==
  ArgumentsOf(fsTools) @@ ArgumentsOf(gistsTools) @@ ArgumentsOf(pgTools) @@ [toString |-> Others]

SomeIds == {p \o i : p \in {<<>>, <<" ">>}, i \in UpTo({".", "/", "a", "%2e"}, 2)}

--------------------------------------------------------------------------------
(* Results of postgres-readonly: a column of every type with two rows, and *)
(* rows of two columns with every pair of names.                           *)

Value(kind, text, items) == [kind |-> kind, text |-> text, items |-> items]
Null      == Value("null", <<>>, <<>>)
Str(text) == Value("string", text, <<>>)

TextsOf == [
  int4        |-> {<<"1">>, <<"2">>},
  int8        |-> {<<"9007199254740992">>, <<"9007199254740993">>},
  float8      |-> {<<"1.5">>, <<"NaN">>, <<"infinity">>},
  text        |-> {<<>>, <<"a">>, <<"null">>, <<"[">>},
  numeric     |-> {<<"1.1">>, <<"1.10">>, <<"NaN">>},
  date        |-> {<<"day">>, <<"infinity">>},
  timestamptz |-> {<<s>> \o d : s \in {"-1s", "0s"}, d \in {<<>>, <<"5">>, <<"5", "0", "0", "1">>, <<"5", "0", "0", "5">>}}
                    \cup {<<"far">>, <<"far", "5">>, <<"infinity">>},
  interval    |-> {<<"00:00">>, <<"1 day">>, <<"infinity">>},
  json        |-> {<<"null">>, <<"{", "}">>, <<"[", "1", "]">>, <<"9007199254740993">>},
  bytea       |-> {<<"\\x01">>, <<"\\x">>},
  enum        |-> {<<"happy">>, <<"sad">>},
  box         |-> {<<"(1", ",", "1)">>, <<"(0", ",", "0)">>}]

\* The literal of an array, and what text[]'s parser finds in it: the comma splits
\* a box.
Literal(head, elem, items) ==
  Value("string",
    <<head>> \o FlattenSeq([i \in DOMAIN items |-> items[i].text \o <<IF elem = "box" THEN ";" ELSE ",">>]) \o <<"}">>,
    items)

Scalars(elem) == {Str(t) : t \in TextsOf[elem]} \cup
  IF elem = "text" THEN {Value("string", <<"{", "a", ",", "}">>, <<Str(<<"a">>)>>)} ELSE {}

ArraysOf(elem) ==
  LET some  == {Str(t) : t \in TextsOf[elem]}
      lists == {<<>>} \cup {<<v>> : v \in some \cup {Null}}
                 \cup {<<v, w>> : v \in {Null, CHOOSE s \in some : TRUE}, w \in some}
  IN  {Literal(h, elem, l) : h \in {"{", "["}, l \in lists}
        \cup IF elem \in {"json", "box"} THEN {}
             ELSE {Literal("{", elem, <<Value("array", <<>>, <<v>>)>>) : v \in some}

ValuesOf(type) == {Null} \cup IF type.array THEN ArraysOf(type.elem) ELSE Scalars(type.elem)

SomeTypes == [elem : DOMAIN TextsOf, array : BOOLEAN]

Columns == {[name |-> n, type |-> [elem |-> e, array |-> a]] :
              n \in {"id", "__proto__"}, e \in {"json", "enum"}, a \in BOOLEAN}

\* One of each pair of values: which of two rows comes first tells nothing more.
Pairs(S) ==
  { LET v == CHOOSE x \in p : TRUE IN <<<<v>>, <<CHOOSE w \in p : p = {v, w}>>>> :
      p \in {{v, w} : v, w \in S} }

SomeResults ==
  {{[fields |-> <<[name |-> "id", type |-> t]>>, rows |-> p] : p \in Pairs(ValuesOf(t))} : t \in SomeTypes}
    \cup {{[fields |-> <<c, d>>, rows |-> <<<<v, w>>>>] : v \in ValuesOf(c.type), w \in ValuesOf(d.type)} :
            c \in Columns, d \in {c \in Columns : c.type.array = (c.type.elem = "enum")}}
    \cup {{[fields |-> <<>>, rows |-> <<>>]}}
================================================================================
