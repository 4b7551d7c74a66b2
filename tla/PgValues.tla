-------------------------------- MODULE PgValues --------------------------------
(***************************************************************************)
(* What postgres-readonly makes of the values a query returns: the parser  *)
(* of each type, the look-up of array types that node-postgres does not    *)
(* know, and the JSON a client receives.  A text is a sequence of tokens.  *)
(***************************************************************************)
EXTENDS Integers, SequencesExt

CONSTANT Results   \* what a query returns: its columns and its rows as the server sends
                   \* them, in families

VARIABLES
  fields,   \* the columns of the result: a name, and [elem |-> a type, array |-> BOOLEAN]
  sent,     \* the rows as the server sent them (history)
  rows,     \* the rows as they are parsed
  payload   \* the answer

valueVars == <<fields, sent, rows, payload>>

\* A value in the process, or on its way: a string comes with what the parser of
\* text[] finds in it.
Value(kind, text, items) == [kind |-> kind, text |-> text, items |-> items]

Null == Value("null", <<>>, <<>>)

Payload(state, cells) == [state |-> state, cells |-> cells]

--------------------------------------------------------------------------------
(* timestamptz.ts.                                                         *)

Second == [t \in {"-1s", "0s"} |-> IF t = "0s" THEN 0 ELSE -1]
Milli  == [d \in {"0", "1", "5"} |-> CASE d = "0" -> 0 [] d = "1" -> 1 [] OTHER -> 5]

\* The text is a second and the digits after it; Date holds three of them, and no
\* second past its range ("far").
Padded3(digits) == digits \o SubSeq(<<"0", "0", "0">>, 1, 3 - Len(digits))

getTime(text) ==
  LET d == Padded3(Tail(text))
  IN  Second[text[1]] * 1000 + 100 * Milli[d[1]] + 10 * Milli[d[2]] + Milli[d[3]]

Iso(ms) == CHOOSE t \in DOMAIN Second : Second[t] * 1000 = ms

parseTimestamptz(v) ==
  CASE v.text = <<"infinity">> -> [v EXCEPT !.kind = "number"]
    [] v.text[1] = "far"       -> v
    [] OTHER -> [v EXCEPT !.text = <<Iso((getTime(v.text) \div 1000) * 1000)>>
                                     \o Padded3(Tail(v.text)) \o <<"Z">>]

--------------------------------------------------------------------------------
(* SELECT_TYPES.                                                           *)

intervalParser(v) == IF v.text = <<"infinity">> THEN v ELSE [v EXCEPT !.kind = "object"]

\* What node-postgres parses to a number, and what it knows no array of.
Numbers       == {"int4", "float8"}
NoArrayParser == {"enum", "box"}

parseElement(elem, v) ==
  CASE v.kind # "string"     -> v
    [] elem = "json"         -> [v EXCEPT !.kind = "raw"]
    [] elem = "interval"     -> intervalParser(v)
    [] elem = "timestamptz"  -> parseTimestamptz(v)
    [] elem \in Numbers      -> [v EXCEPT !.kind = "number"]
    [] OTHER                 -> v

\* Arrays nest twice at most here.
parseTextArray(v) == [v EXCEPT !.kind = "array"]

Inside(elem, v) ==
  IF v.kind = "array"
  THEN Value("array", v.text, [i \in DOMAIN v.items |-> parseElement(elem, v.items[i])])
  ELSE parseElement(elem, v)

mapElements(elem, v) ==
  Value(v.kind, v.text, [i \in DOMAIN v.items |-> Inside(elem, v.items[i])])

getTypeParser(type, v) ==
  CASE v.kind # "string" -> v
    [] ~type.array       -> parseElement(type.elem, v)
    [] type.elem \in NoArrayParser -> v
    [] OTHER             -> mapElements(type.elem, parseTextArray(v))

--------------------------------------------------------------------------------
(* The array types that only the catalog knows.                            *)

\* "[" starts an array with another lower bound.
ArrayLiteral(v) == v.kind = "string" /\ v.text # <<>> /\ v.text[1] \in {"{", "["}

NoParser(type) == type.elem \in NoArrayParser \/ (~type.array /\ type.elem \in {"text", "numeric"})

candidates ==
  { fields[i].type : i \in { j \in DOMAIN fields :
      NoParser(fields[j].type) /\ \E r \in DOMAIN rows : ArrayLiteral(rows[r][j]) } }

typdelim(type) == IF type.elem = "box" THEN ";" ELSE ","

\* pg_type: the types that are some type's typarray.
arrayOids == { type \in candidates : type.array /\ typdelim(type) = "," }

parseUnregisteredArrays ==
  [r \in DOMAIN rows |->
    [i \in DOMAIN rows[r] |->
      IF fields[i].type \in arrayOids /\ rows[r][i].kind = "string"
      THEN parseTextArray(rows[r][i]) ELSE rows[r][i]]]

--------------------------------------------------------------------------------
(* The payload.                                                            *)

ByteColumn == [name |-> "mcp_bytes", type |-> [elem |-> "text", array |-> FALSE]]

withoutByteColumn(list, table) ==
  IF list = <<>> \/ Last(list) # ByteColumn THEN [fields |-> list, rows |-> table]
  ELSE [fields |-> Front(list), rows |-> [r \in DOMAIN table |-> Front(table[r])]]

duplicateColumnNames ==
  { fields[i].name : i \in { j \in DOMAIN fields : \E k \in 1..(j - 1) : fields[k].name = fields[j].name } }

\* Mutant: assigned, as node-postgres does it; one name is no key then.
rowsByNameAssigned(row) ==
  [n \in { fields[i].name : i \in DOMAIN fields } \ {"__proto__"} |->
     row[CHOOSE i \in DOMAIN fields : fields[i].name = n]]

rowsByName(row) ==
  [n \in { fields[i].name : i \in DOMAIN fields } |->
     row[CHOOSE i \in DOMAIN fields : fields[i].name = n]]

\* A nonce that no value holds.
Placeholder(i) == "nonce:" \o ToString(i)

Quoted(text) == <<"\"">> \o text \o <<"\"">>

\* JSON.stringify would write null for these: they are written as their names.
NonFinite(v) == v.kind = "number" /\ v.text[1] \in {"NaN", "infinity"}

nonFiniteAsString(v) == IF NonFinite(v) THEN [v EXCEPT !.kind = "string"] ELSE v

\* JSON.stringify takes a value apart, an array element by element.
Mark(t)    == Value("mark", <<t>>, <<>>)
Inner(v)   == IF v.kind = "array"
              THEN <<Mark("[")>> \o FlattenSeq([i \in DOMAIN v.items |-> <<v.items[i], Mark(",")>>]) \o <<Mark("]")>>
              ELSE <<v>>
Pieces(v)  == IF v.kind = "array"
              THEN <<Mark("[")>> \o FlattenSeq([i \in DOMAIN v.items |-> Append(Inner(v.items[i]), Mark(","))])
                     \o <<Mark("]")>>
              ELSE <<v>>

Written(v) ==
  CASE v.kind = "null" \/ NonFinite(v) -> <<"null">>
    [] v.kind = "string" -> Quoted(v.text)
    [] v.kind = "object" -> <<"{">> \o v.text \o <<"}">>
    [] OTHER             -> v.text

\* Its text, after what precedes it (so), with every RawJson set aside.
stringified(v, so) ==
  FoldLeft(LAMBDA s, piece :
             IF piece.kind = "raw"
             THEN [text |-> Append(s.text, Placeholder(Len(s.raws))), raws |-> Append(s.raws, piece.text)]
             ELSE [s EXCEPT !.text = @ \o Written(nonFiniteAsString(piece))],
           so, Pieces(v))

Verbatim(text, raws) ==
  FlattenSeq([k \in DOMAIN text |->
    LET index == { i \in DOMAIN raws : text[k] = Placeholder(i - 1) }
    IN  IF index = {} THEN <<text[k]>> ELSE raws[CHOOSE i \in index : TRUE]])

\* The cells of the rows by name, in one document: a cell is its piece of it.
stringifyPayload ==
  LET names == { fields[i].name : i \in DOMAIN fields }
      keys  == FlattenSeq([r \in DOMAIN rows |->
                 [i \in DOMAIN fields |-> [row |-> r, name |-> fields[i].name]]])
      kept  == SelectSeq(keys, LAMBDA k : k.name \in DOMAIN rowsByName(rows[k.row]))
      pass  == FoldLeft(LAMBDA s, k :
                 LET t == stringified(rowsByName(rows[k.row])[k.name], [text |-> <<>>, raws |-> s.raws])
                 IN  [texts |-> Append(s.texts, t.text), raws |-> t.raws],
                 [texts |-> <<>>, raws |-> <<>>], kept)
  IN  [r \in DOMAIN rows |->
        [n \in { k.name : k \in { kept[i] : i \in DOMAIN kept } } |->
          Verbatim(pass.texts[CHOOSE i \in DOMAIN kept : kept[i] = [row |-> r, name |-> n]], pass.raws)]]

--------------------------------------------------------------------------------
ValuesInit == fields = <<>> /\ sent = <<>> /\ rows = <<>> /\ payload = Payload("none", <<>>)

\* The result arrives, with the column of the byte cap unless it is a plan; the
\* columns of a table have a name each.
Fetch(tool) ==
  /\ payload.state = "none"
  /\ \E family \in Results, capped \in BOOLEAN : \E result \in family :
       LET dups == { i \in DOMAIN result.fields : \E j \in 1..(i - 1) : result.fields[j].name = result.fields[i].name }
           got == IF capped
                  THEN withoutByteColumn(Append(result.fields, ByteColumn),
                         [r \in DOMAIN result.rows |-> Append(result.rows[r], Value("string", <<"9">>, <<>>))])
                  ELSE withoutByteColumn(result.fields, result.rows)
       IN  /\ tool = "sample_rows" => capped /\ dups = {}
           /\ fields' = got.fields
           /\ rows' = [r \in DOMAIN got.rows |->
                         [i \in DOMAIN got.rows[r] |-> getTypeParser(got.fields[i].type, got.rows[r][i])]]
           /\ sent' = result.rows
  /\ payload' = Payload("fetched", <<>>)

\* The catalog is asked, unless no column can need it, and may not answer.
LookUp ==
  /\ payload.state = "fetched"
  /\ \/ rows' = parseUnregisteredArrays /\ payload' = Payload("parsed", <<>>)
     \/ candidates # {} /\ rows' = rows /\ payload' = Payload("execution error", <<>>)
  /\ UNCHANGED <<fields, sent>>

\* run_select refuses a name that comes twice.
Answer(tool) ==
  /\ payload.state = "parsed"
  /\ payload' = IF tool = "run_select" /\ duplicateColumnNames # {} THEN Payload("duplicate", <<>>)
                ELSE Payload("rows", stringifyPayload)
  /\ UNCHANGED <<fields, sent, rows>>

--------------------------------------------------------------------------------
(* Properties.                                                             *)

Splits(type) == type.array /\ typdelim(type) = ","

\* Two values are one, but for the lower bounds of an array, which no JSON has,
\* and a null element of json[], which no JSON tells from NULL.
Elements(type, v) ==
  [i \in DOMAIN v.items |->
    IF type.elem = "json" /\ v.items[i] = Null THEN Value("string", <<"null">>, <<>>) ELSE v.items[i]]

Same(type, v, w) ==
  v.kind = w.kind /\ IF Splits(type) THEN Elements(type, v) = Elements(type, w) ELSE v.text = w.text

Cell(r, i) == payload.cells[r][fields[i].name]

\* A client can tell from an answer what the database holds: every column is a
\* key of every row, two cells of a column are equal exactly if their values are,
\* null is NULL, an array type gives an array and nothing else does, and what the
\* database spells out is kept to the last character.  A json cell is the
\* database's own text, its null included.  An answer is refused for a name only
\* if it comes twice.
PayloadTrue ==
  /\ payload.state = "duplicate" => \E i, j \in DOMAIN fields : i < j /\ fields[i].name = fields[j].name
  /\ payload.state = "rows" => \A i \in DOMAIN fields : \A r \in DOMAIN sent :
       LET type == fields[i].type
           v    == sent[r][i]
           json == ~type.array /\ type.elem = "json"
       IN  /\ DOMAIN payload.cells[r] = { fields[j].name : j \in DOMAIN fields }
           /\ \A j \in DOMAIN fields : fields[j].name = fields[i].name => j = i
           /\ json /\ v # Null => Cell(r, i) = v.text
           /\ ~json =>
                /\ \A s \in DOMAIN sent : Cell(r, i) = Cell(s, i) <=> Same(type, v, sent[s][i])
                /\ Cell(r, i) = <<"null">> <=> v = Null
                /\ v # Null => (Cell(r, i)[1] = "[" <=> Splits(type))
           /\ ~type.array /\ v # Null /\ type.elem \in {"text", "numeric", "date", "bytea", "int8", "box"} =>
                Cell(r, i) = Quoted(v.text)
================================================================================
