------------------------------ MODULE ServerLifeProofs ------------------------------
(***************************************************************************)
(* What holds of the start of every server and of a call's arguments and   *)
(* response, for every environment, configuration, argument and body, and  *)
(* of the calls of the github-gists client, for any number of concurrent   *)
(* ones.  The two specifications share no variable.                        *)
(***************************************************************************)
EXTENDS ServerLife, GistsClient, NaturalsInduction, WellFoundedInduction, FiniteSetTheorems, TLAPS

--------------------------------------------------------------------------------
(* Arguments: what a handler reads of a call that its schema lets through. *)

Describes(tools, reads) ==
  \A t \in DOMAIN tools :
    /\ reads[t] = DOMAIN tools[t].properties
    /\ \A f \in DOMAIN tools[t].properties : tools[t].properties[f] \in {"string", "integer"}

\* Each handler reads the arguments its tool describes, all texts or integers.
LEMMA Tables == Describes(fsTools, fsReads) /\ Describes(gistsTools, gistsReads) /\ Describes(pgTools, pgReads)
<1>1. Describes(fsTools, fsReads)
  BY DEF Describes, fsTools, fsReads, Tool, Nil
<1>2. Describes(gistsTools, gistsReads)
  BY DEF Describes, gistsTools, gistsReads, Tool, Nil
<1>3. Describes(pgTools, pgReads)
  BY DEF Describes, pgTools, pgReads, Tool, Nil
<1> QED
  BY <1>1, <1>2, <1>3

\* What checkToolArgs lets through: an object with every required argument and
\* no other than the schema's, each of its type, or no arguments at all.
LEMMA Checked ==
  ASSUME NEW schema, NEW given, checkToolArgs(schema, given) = "null",
         \A f \in DOMAIN schema.properties : schema.properties[f] \in {"string", "integer"}
  PROVE  \/ given.kind \in {"absent", "null"} /\ schema.required \subseteq {}
         \/ /\ given.kind = "object"
            /\ schema.required \subseteq DOMAIN given.value
            /\ DOMAIN given.value \subseteq DOMAIN schema.properties
            /\ \A f \in DOMAIN given.value : given.value[f].kind = schema.properties[f]
<1>1. CASE given.kind \in {"absent", "null"}
  <2> DEFINE a == Json("object", <<>>)
  <2>1. DOMAIN a.value = {}
    BY DEF Json
  <2>2. schema.required \subseteq DOMAIN a.value
    BY <1>1 DEF checkToolArgs
  <2> QED
    BY <1>1, <2>1, <2>2
<1>2. CASE given.kind \notin {"absent", "null"}
  <2>1. /\ matchesType(given, "object")
        /\ schema.required \subseteq DOMAIN given.value
        /\ DOMAIN given.value \subseteq DOMAIN schema.properties
        /\ \A f \in DOMAIN given.value : matchesType(given.value[f], schema.properties[f])
    BY <1>2 DEF checkToolArgs
  <2>2. given.kind = "object"
    BY <2>1 DEF matchesType
  <2>3. ASSUME NEW f \in DOMAIN given.value PROVE given.value[f].kind = schema.properties[f]
    <3>1. schema.properties[f] \in {"string", "integer"} /\ matchesType(given.value[f], schema.properties[f])
      BY <2>1
    <3> QED
      BY <3>1 DEF matchesType
  <2> QED
    BY <2>1, <2>2, <2>3
<1> QED
  BY <1>1, <1>2

\* A handler that runs reads every argument that was given, each of its type,
\* and nothing else but what the schema lets be left out.
LEMMA ReadsChecked ==
  ASSUME NEW tools, NEW reads, Describes(tools, reads), NEW c, NEW r, r = Reads(tools, reads, c), r # Nil
  PROVE  LET tool == tools[c.tool] IN
         /\ (IF c.args.kind = "object" THEN DOMAIN c.args.value ELSE {}) \subseteq DOMAIN r
         /\ \A f \in DOMAIN r : \/ r[f] = tool.properties[f]
                                \/ r[f] = "undefined" /\ f \notin tool.required
<1> DEFINE tool == tools[c.tool]
           a    == c.args
<1>1. /\ c.tool \in DOMAIN tools /\ checkToolArgs(tool, a) = "null"
      /\ r = [f \in reads[c.tool] |-> Field(a, f)]
  BY DEF Reads
<1>2. /\ reads[c.tool] = DOMAIN tool.properties
      /\ \A f \in DOMAIN tool.properties : tool.properties[f] \in {"string", "integer"}
  BY <1>1 DEF Describes
<1>3. DOMAIN r = DOMAIN tool.properties /\ \A f \in DOMAIN r : r[f] = Field(a, f)
  BY <1>1, <1>2
<1> HIDE DEF tool, a
<1>4. \/ a.kind \in {"absent", "null"} /\ tool.required \subseteq {}
      \/ /\ a.kind = "object"
         /\ tool.required \subseteq DOMAIN a.value
         /\ DOMAIN a.value \subseteq DOMAIN tool.properties
         /\ \A f \in DOMAIN a.value : a.value[f].kind = tool.properties[f]
  BY <1>1, <1>2, Checked
<1>5. (IF a.kind = "object" THEN DOMAIN a.value ELSE {}) \subseteq DOMAIN r
  BY <1>3, <1>4
<1>6. ASSUME NEW f \in DOMAIN r
      PROVE  r[f] = tool.properties[f] \/ (r[f] = "undefined" /\ f \notin tool.required)
  <2>1. r[f] = IF a.kind = "object" /\ f \in DOMAIN a.value THEN a.value[f].kind ELSE "undefined"
    BY <1>3 DEF Field
  <2> QED
    BY <1>4, <2>1
<1> QED
  BY <1>5, <1>6 DEF tool, a

\* What a handler reads is what its call brings.
Handled == read # Nil => server \in {"filesystem-sandbox", "github-gists", "postgres-readonly"} /\ read = Handle(call)

\* No call has been made before the first one.
LEMMA HandledInit == BootInit => Handled
BY DEF BootInit, Handled

\* A step that boots or calls keeps what was read in agreement with the schema.
LEMMA HandledStep == ASSUME Handled, server \in Servers, [BootNext]_bootVars PROVE Handled'
<1>1. CASE Start \/ Build \/ UNCHANGED bootVars
  <2>1. UNCHANGED <<server, call, read>>
    BY <1>1 DEF Start, Build, bootVars
  <2> QED
    BY <2>1 DEF Handled, Handle
<1>2. CASE CallTool
  <2>1. UNCHANGED server /\ read' = Handle(call')
    BY <1>2 DEF CallTool
  <2>2. server \notin {"filesystem-sandbox", "github-gists", "postgres-readonly"} => read' = Nil
    BY <2>1 DEF Handle
  <2> QED
    BY <2>1, <2>2 DEF Handled, Handle
<1> QED
  BY <1>1, <1>2 DEF BootNext

\* What was read so is what ArgsTyped asks for.
LEMMA HandledTyped == Handled => ArgsTyped
<1> SUFFICES ASSUME Handled, read # Nil PROVE ArgsTyped
  BY DEF ArgsTyped
<1>1. CASE server = "filesystem-sandbox"
  <2>1. read = Reads(fsTools, fsReads, call)
    BY <1>1 DEF Handled, Handle, fsHandler
  <2> QED
    BY <1>1, <2>1, Tables, ReadsChecked DEF ArgsTyped
<1>2. CASE server = "github-gists"
  <2>1. read = Reads(gistsTools, gistsReads, call)
    BY <1>2 DEF Handled, Handle, gistsHandler
  <2> QED
    BY <1>2, <2>1, Tables, ReadsChecked DEF ArgsTyped
<1>3. CASE server = "postgres-readonly"
  <2>1. read = Reads(pgTools, pgReads, call)
    BY <1>3 DEF Handled, Handle, pgHandler
  <2> QED
    BY <1>3, <2>1, Tables, ReadsChecked DEF ArgsTyped
<1> QED
  BY <1>1, <1>2, <1>3 DEF Handled

\* So it is in every behaviour of a server that boots and is called.
LEMMA ArgumentsInvariant == BootSpec => [](server \in Servers /\ Handled)
<1>1. BootInit => server \in Servers
  BY DEF BootInit
<1>2. server \in Servers /\ [BootNext]_bootVars => (server \in Servers)'
  BY DEF BootNext, Start, Build, CallTool, bootVars
<1>3. (server \in Servers /\ Handled) /\ [BootNext]_bootVars => (server \in Servers /\ Handled)'
  BY <1>2, HandledStep
<1> QED
  BY <1>1, <1>3, HandledInit, PTL DEF BootSpec

\* The life of a server is a boot and calls, followed by responses.
LEMMA LifeBoots == LifeSpec => BootSpec
<1>1. LifeInit => BootInit
  BY DEF LifeInit
<1>2. [LifeNext]_<<bootVars, gistVars, pgVars>> => [BootNext]_bootVars
  BY DEF LifeNext, Receive, Respond, Query, bootVars, gistVars, pgVars
<1> QED
  BY <1>1, <1>2, PTL DEF LifeSpec, BootSpec

\* A handler reads all that a call gives and no argument of another type, for
\* every tool and every call: checkToolArgs refuses the rest (toolArgs.ts).
THEOREM ArgumentsTyped == LifeSpec => []ArgsTyped
BY ArgumentsInvariant, LifeBoots, HandledTyped, PTL

--------------------------------------------------------------------------------
(* The response of github-gists: what readGist and projectGist make of a   *)
(* body.                                                                   *)

Verdict ==
  IF Response!gistShapeProblem = "" THEN [Response!Nothing EXCEPT !.gist = Response!projectGist]
  ELSE [Response!Nothing EXCEPT !.refused = Response!gistShapeProblem]

Judged == failure = Response!None /\ result # Response!Nothing => result = Verdict

Shaped == DOMAIN body = Response!GistFields \cup Response!FileFields \cup {"body"}

\* What was shown stays what projectGist makes of the body that was judged.
LEMMA ReplyStep ==
  ASSUME Shaped, Judged, [LifeNext]_<<bootVars, gistVars, pgVars>>
  PROVE  Shaped' /\ Judged'
<1>1. CASE (BootNext /\ UNCHANGED <<gistVars, pgVars>>) \/ Query \/ UNCHANGED <<bootVars, gistVars, pgVars>>
  <2>1. UNCHANGED <<body, failure, result>>
    BY <1>1 DEF Query, gistVars
  <2>2. Verdict' = Verdict
    BY <2>1 DEF Verdict, Response!gistShapeProblem, Response!projectGist,
       Response!Checks, Response!OptionalText, Response!OptionalBoolean, Response!Partial, Response!OverCap
  <2>3. Response!Nothing' = Response!Nothing /\ Response!None' = Response!None
    BY DEF Response!Nothing, Response!Github, Response!None
  <2> QED
    BY <2>1, <2>2, <2>3 DEF Shaped, Judged
<1>2. CASE Receive
  <2>1. result' = Response!Nothing /\ (body' = body \/ body' \in Response!Bodies)
    BY <1>2 DEF Receive
  <2>2. ASSUME body' \in Response!Bodies PROVE Shaped'
    BY <2>2 DEF Shaped, Response!Bodies, Response!Github
  <2>3. Response!Nothing' = Response!Nothing
    BY DEF Response!Nothing, Response!Github
  <2> QED
    BY <2>1, <2>2, <2>3 DEF Shaped, Judged
<1>3. CASE Respond
  <2>1. UNCHANGED <<body, failure>> /\ result = Response!Nothing
    BY <1>3 DEF Respond, Response!Next, Response!readGist, Response!errorMessage
  <2>2. Verdict' = Verdict
    BY <2>1 DEF Verdict, Response!gistShapeProblem, Response!projectGist,
       Response!Checks, Response!OptionalText, Response!OptionalBoolean, Response!Partial, Response!OverCap
  <2>3. failure = Response!None => result' = Verdict
    BY <1>3 DEF Respond, Response!Next, Response!readGist, Response!errorMessage, Verdict
  <2> QED
    BY <2>1, <2>2, <2>3 DEF Shaped, Judged
<1> QED
  BY <1>1, <1>2, <1>3 DEF LifeNext

\* Nothing is shown before a body has come.
LEMMA ReplyInit == LifeInit => Shaped /\ Judged
BY DEF LifeInit, Shaped, Judged, Response!Github

\* The first of the checks that fail is one of them.
LEMMA FirstOfTwelve ==
  ASSUME NEW S, S \subseteq 1..12, S # {}
  PROVE  \E i \in S : \A j \in S : i <= j
<1> DEFINE First(k) == \A j \in S : k <= j
<1>1. PICK a \in S : TRUE
  OBVIOUS
<1>2. \A k \in 1..12 : First(k) /\ k \notin S => First(k + 1)
  OBVIOUS
<1>3. First(1) /\ ~First(13)
  BY <1>1
<1> HIDE DEF First
<1>4. \E k \in 1..12 : First(k) /\ k \in S
  <2>1. (1 \in S /\ First(1)) \/ First(2)
    BY <1>2, <1>3
  <2> QED
    BY <1>2, <1>3
<1> QED
  BY <1>4 DEF First

\* Each of the twelve checks names its problem.
LEMMA ProblemNames ==
  /\ DOMAIN Response!Checks = 1..12
  /\ \A i \in 1..12 : Response!Checks[i].problem # ""
<1>1. DOMAIN Response!Checks = 1..12
  BY DEF Response!Checks
<1>2. /\ Response!Checks[1].problem = "not an object"
      /\ Response!Checks[2].problem = "no string id"
      /\ Response!Checks[3].problem = "no files object"
      /\ Response!Checks[4].problem = "file not an object"
      /\ Response!Checks[5].problem = "language"
      /\ Response!Checks[6].problem = "no string html_url"
      /\ Response!Checks[7].problem = "description"
      /\ Response!Checks[8].problem = "public"
      /\ Response!Checks[9].problem = "truncated"
      /\ Response!Checks[10].problem = "file truncated"
      /\ Response!Checks[11].problem = "file size"
      /\ Response!Checks[12].problem = "file content"
  BY DEF Response!Checks
<1>3. ASSUME NEW i \in 1..12 PROVE Response!Checks[i].problem # ""
  <2>1. \/ i = 1 \/ i = 2 \/ i = 3 \/ i = 4 \/ i = 5 \/ i = 6
        \/ i = 7 \/ i = 8 \/ i = 9 \/ i = 10 \/ i = 11 \/ i = 12
    OBVIOUS
  <2> QED
    BY <1>2, <2>1
<1> QED
  BY <1>1, <1>3

\* gistShapeProblem finds none exactly when every check passes.
LEMMA NoProblem == (Response!gistShapeProblem = "") <=> (\A i \in 1..12 : Response!Checks[i].ok)
<1> DEFINE failing == {i \in DOMAIN Response!Checks : ~Response!Checks[i].ok}
           first   == CHOOSE i \in failing : \A j \in failing : i <= j
<1>1. failing \subseteq 1..12
  BY ProblemNames
<1>2. CASE failing = {}
  BY <1>2, ProblemNames DEF Response!gistShapeProblem
<1>3. CASE failing # {}
  <2>1. first \in failing
    <3> HIDE DEF failing
    <3>1. \E i \in failing : \A j \in failing : i <= j
      BY <1>1, <1>3, FirstOfTwelve
    <3> QED
      BY <3>1
  <2>2. Response!gistShapeProblem = Response!Checks[first].problem
    BY <1>3 DEF Response!gistShapeProblem
  <2> QED
    BY <1>1, <2>1, <2>2, ProblemNames
<1> QED
  BY <1>2, <1>3

\* What a body is whose shape has no problem.
LEMMA ChecksMean ==
  (Response!gistShapeProblem = "") <=>
    /\ body["body"] = "object" /\ body["files"] = "object" /\ body["entry"] = "object"
    /\ body["id"] \in {"text", "long"} /\ body["html_url"] \in {"text", "long"}
    /\ Response!OptionalText(body["language"]) /\ Response!OptionalText(body["description"])
    /\ Response!OptionalText(body["content"])
    /\ body["public"] \in {"true", "false"}
    /\ Response!OptionalBoolean(body["truncated"]) /\ Response!OptionalBoolean(body["partial"])
    /\ body["size"] \in {"absent", "count"}
<1>1. /\ Response!Checks[1].ok = (body["body"] = "object")
      /\ Response!Checks[2].ok = (body["id"] \in {"text", "long"})
      /\ Response!Checks[3].ok = (body["files"] = "object")
      /\ Response!Checks[4].ok = (body["entry"] = "object")
      /\ Response!Checks[5].ok = Response!OptionalText(body["language"])
      /\ Response!Checks[6].ok = (body["html_url"] \in {"text", "long"})
      /\ Response!Checks[7].ok = Response!OptionalText(body["description"])
      /\ Response!Checks[8].ok = (body["public"] \in {"true", "false"})
      /\ Response!Checks[9].ok = Response!OptionalBoolean(body["truncated"])
      /\ Response!Checks[10].ok = Response!OptionalBoolean(body["partial"])
      /\ Response!Checks[11].ok = (body["size"] \in {"absent", "count"})
      /\ Response!Checks[12].ok = Response!OptionalText(body["content"])
  BY DEF Response!Checks
<1>2. (\A i \in 1..12 : Response!Checks[i].ok) <=>
        /\ Response!Checks[1].ok /\ Response!Checks[2].ok /\ Response!Checks[3].ok /\ Response!Checks[4].ok
        /\ Response!Checks[5].ok /\ Response!Checks[6].ok /\ Response!Checks[7].ok /\ Response!Checks[8].ok
        /\ Response!Checks[9].ok /\ Response!Checks[10].ok /\ Response!Checks[11].ok /\ Response!Checks[12].ok
  OBVIOUS
<1> QED
  BY <1>1, <1>2, NoProblem

\* What is shown of a body that passes is what the body says.
LEMMA JudgedTrue == Shaped /\ Judged => ProjectionTrue
<1> SUFFICES ASSUME Shaped, Judged, failure = Response!None, result # Response!Nothing
             PROVE  ProjectionTrue
  BY DEF ProjectionTrue, Response!ProjectionTrue
<1> DEFINE g == Response!projectGist
<1>1. result = Verdict
  BY DEF Judged
<1>2. Response!Projected <=> Response!gistShapeProblem = ""
  BY <1>1 DEF Response!Projected, Verdict, Response!Nothing
<1>3. ASSUME Response!Upstream PROVE Response!gistShapeProblem = ""
  <2>1. Response!Upstream
    BY <1>3
  <2> QED
    BY <2>1, ChecksMean DEF Response!Upstream, Response!OptionalText, Response!OptionalBoolean, Response!Strings
<1>4. ASSUME Response!gistShapeProblem = ""
      PROVE  /\ Response!Typed(result.gist)
             /\ result.gist["public"] = body["public"]
             /\ \A f \in {"truncated", "partial"} : body[f] = "true" => result.gist[f] = "true"
             /\ result.gist["content"] = "null" /\ result.gist["partial"] = "false" =>
                  body["content"] \in {"absent", "null"}
  <2>1. result.gist = g
    BY <1>1, <1>4 DEF Verdict, Response!Nothing
  <2>2. /\ g["id"] = body["id"] /\ g["html_url"] = body["html_url"] /\ g["public"] = body["public"]
        /\ g["description"] = Response!OrNull(body["description"])
        /\ g["truncated"] = Response!Flag(body["truncated"] = "true")
        /\ g["language"] = Response!OrNull(body["language"])
        /\ g["size"] = (IF Response!OrNull(body["size"]) # "null" THEN body["size"]
                        ELSE IF Response!OrNull(body["content"]) = "null" THEN "null" ELSE "count")
        /\ g["partial"] = Response!Partial
        /\ g["content"] = (IF Response!OverCap THEN "null" ELSE Response!OrNull(body["content"]))
    BY DEF Shaped, Response!projectGist, Response!GistFields, Response!FileFields
  <2> HIDE DEF g
  <2>3. /\ body["id"] \in {"text", "long"} /\ body["html_url"] \in {"text", "long"}
        /\ Response!OptionalText(body["language"]) /\ Response!OptionalText(body["description"])
        /\ Response!OptionalText(body["content"])
        /\ body["public"] \in {"true", "false"}
        /\ body["size"] \in {"absent", "count"}
    BY <1>4, ChecksMean
  <2>4. Response!Typed(g)
    BY <2>2, <2>3 DEF Response!Typed, Response!OptionalText, Response!Strings, Response!OrNull, Response!Flag,
       Response!Partial, Response!OverCap
  <2>5. \A f \in {"truncated", "partial"} : body[f] = "true" => g[f] = "true"
    BY <2>2 DEF Response!Flag, Response!Partial
  <2>6. g["content"] = "null" /\ g["partial"] = "false" => body["content"] \in {"absent", "null"}
    BY <2>2, <2>3 DEF Response!Flag, Response!Partial, Response!OverCap, Response!OrNull
  <2> QED
    BY <2>1, <2>2, <2>4, <2>5, <2>6
<1> QED
  BY <1>2, <1>3, <1>4 DEF ProjectionTrue, Response!ProjectionTrue

\* A gist is shown as GitHub sent it, flags, size and partial content included,
\* and a body of another shape is refused, never coerced (readGist, projectGist).
THEOREM ProjectionKept == LifeSpec => []ProjectionTrue
<1>1. Shaped /\ Judged /\ [LifeNext]_<<bootVars, gistVars, pgVars>> => (Shaped /\ Judged)'
  BY ReplyStep
<1> QED
  BY <1>1, ReplyInit, JudgedTrue, PTL DEF LifeSpec

--------------------------------------------------------------------------------
(* Least elements, and texts without what is trimmed off their ends.       *)

\* Every set of naturals that is not empty has a least element.
LEMMA LeastElement ==
  ASSUME NEW T, T \subseteq Nat, T # {}
  PROVE  \E x \in T : \A y \in T : x <= y
<1> DEFINE R == {ss \in Nat \X Nat : ss[1] < ss[2]}
<1>1. R = OpToRel(<, Nat)
  BY DEF OpToRel
<1>2. IsWellFoundedOn(R, Nat)
  BY <1>1, NatLessThanWellFounded
<1>3. PICK x \in T : \A y \in T : ~(<<y, x>> \in R)
  <2> HIDE DEF R
  <2> QED
    BY <1>2, WFMin
<1>4. ASSUME NEW y \in T PROVE x <= y
  <2>1. x \in Nat /\ y \in Nat
    OBVIOUS
  <2>2. <<y, x>> \in R <=> y < x
    BY <2>1
  <2>3. ~(y < x)
    <3> HIDE DEF R
    <3> QED
      BY <1>3, <2>2
  <2> QED
    BY <2>1, <2>3
<1> QED
  BY <1>4


\* The characters of a text, those of the defaults and of an endpoint among them.
Chars == STRING \cup {"http://", "h", "/", "gists", "encoded", "a"}

\* So has every set of positions its first and its last.
LEMMA Ends ==
  ASSUME NEW n \in Nat, NEW S, S \subseteq 1..n, S # {}
  PROVE  /\ Min(S) \in S /\ \A y \in S : Min(S) <= y
         /\ Max(S) \in S /\ \A y \in S : y <= Max(S)
<1>1. \E x \in S : \A y \in S : x <= y
  <2>1. S \subseteq Nat
    OBVIOUS
  <2> QED
    BY <2>1, LeastElement
<1>2. \E x \in S : \A y \in S : x >= y
  <2> DEFINE T == {n - k : k \in S}
  <2>1. T \subseteq Nat /\ T # {}
    <3>1. \A k \in S : n - k \in Nat
      OBVIOUS
    <3> QED
      BY <3>1
  <2>2. PICK m \in T : \A y \in T : m <= y
    <3> HIDE DEF T
    <3> QED
      BY <2>1, LeastElement
  <2>3. PICK x \in S : m = n - x
    OBVIOUS
  <2>4. ASSUME NEW y \in S PROVE x >= y
    <3>1. n - y \in T
      OBVIOUS
    <3>2. n - x <= n - y
      BY <2>2, <2>3, <3>1
    <3> QED
      BY <3>2
  <2> QED
    BY <2>4
<1> QED
  BY <1>1, <1>2 DEF Min, Max

\* Trimming keeps what lies between the first and the last character kept.
LEMMA TrimmedIs ==
  ASSUME NEW t \in Seq(Chars), NEW chars, NEW a \in 1..Len(t), NEW b \in 1..Len(t), a <= b,
         t[a] \notin chars, t[b] \notin chars,
         \A i \in 1..Len(t) : i < a \/ i > b => t[i] \in chars
  PROVE  Trimmed(t, chars) = SubSeq(t, a, b)
<1> DEFINE kept == {i \in DOMAIN t : t[i] \notin chars}
<1>1. kept \subseteq 1..Len(t) /\ a \in kept /\ b \in kept /\ \A i \in kept : a <= i /\ i <= b
  OBVIOUS
<1>2. Min(kept) = a /\ Max(kept) = b
  <2> HIDE DEF kept
  <2>1. Len(t) \in Nat /\ kept # {}
    BY <1>1
  <2>2. /\ Min(kept) \in kept /\ \A y \in kept : Min(kept) <= y
        /\ Max(kept) \in kept /\ \A y \in kept : y <= Max(kept)
    BY <1>1, <2>1, Ends
  <2>3. Min(kept) <= a /\ b <= Max(kept) /\ a <= Min(kept) /\ Max(kept) <= b
    BY <1>1, <2>2
  <2>4. \A x \in kept : x \in Nat
    BY <1>1, <2>1
  <2>5. Min(kept) \in Nat /\ Max(kept) \in Nat /\ a \in Nat /\ b \in Nat
    BY <2>2, <2>4, <1>1
  <2> QED
    BY <2>3, <2>5
<1> QED
  BY <1>1, <1>2 DEF Trimmed

\* Either all of a text is trimmed or what is left begins and ends with what is kept.
LEMMA TrimmedCases ==
  ASSUME NEW t \in Seq(Chars), NEW chars
  PROVE  \/ Trimmed(t, chars) = <<>> /\ \A i \in 1..Len(t) : t[i] \in chars
         \/ \E a, b \in 1..Len(t) :
              /\ a <= b /\ t[a] \notin chars /\ t[b] \notin chars
              /\ \A i \in 1..Len(t) : i < a \/ i > b => t[i] \in chars
              /\ Trimmed(t, chars) = SubSeq(t, a, b)
<1> DEFINE kept == {i \in DOMAIN t : t[i] \notin chars}
<1>1. CASE kept = {}
  BY <1>1 DEF Trimmed
<1>2. CASE kept # {}
  <2>1. kept \subseteq 1..Len(t)
    OBVIOUS
  <2>2. PICK a \in kept, b \in kept : \A y \in kept : a <= y /\ y <= b
    <3> HIDE DEF kept
    <3>1. Len(t) \in Nat
      OBVIOUS
    <3>2. /\ Min(kept) \in kept /\ \A y \in kept : Min(kept) <= y
          /\ Max(kept) \in kept /\ \A y \in kept : y <= Max(kept)
      BY <1>2, <2>1, <3>1, Ends
    <3> QED
      BY <3>2
  <2>3. /\ a \in 1..Len(t) /\ b \in 1..Len(t) /\ a <= b /\ t[a] \notin chars /\ t[b] \notin chars
        /\ \A i \in 1..Len(t) : i < a \/ i > b => t[i] \in chars
    BY <2>2
  <2>4. Trimmed(t, chars) = SubSeq(t, a, b)
    BY <2>3, TrimmedIs
  <2> QED
    BY <2>3, <2>4
<1> QED
  BY <1>1, <1>2

\* What is left of a text is a text.
LEMMA TrimmedSeq ==
  ASSUME NEW t \in Seq(Chars), NEW chars
  PROVE  Trimmed(t, chars) \in Seq(Chars)
<1>1. CASE Trimmed(t, chars) = <<>>
  BY <1>1
<1>2. ASSUME NEW a \in 1..Len(t), NEW b \in 1..Len(t), Trimmed(t, chars) = SubSeq(t, a, b)
      PROVE  Trimmed(t, chars) \in Seq(Chars)
  BY <1>2
<1> QED
  BY <1>1, <1>2, TrimmedCases

\* A text that begins and ends with what is kept is left as it is.
LEMMA TrimmedWhole ==
  ASSUME NEW t \in Seq(Chars), NEW chars, t # <<>>, t[1] \notin chars, t[Len(t)] \notin chars
  PROVE  Trimmed(t, chars) = t
<1>1. 1 \in 1..Len(t) /\ Len(t) \in 1..Len(t)
  OBVIOUS
<1>2. Trimmed(t, chars) = SubSeq(t, 1, Len(t))
  BY <1>1, TrimmedIs
<1> QED
  BY <1>2

\* What is trimmed stays so.
LEMMA TrimmedTwice ==
  ASSUME NEW t \in Seq(Chars), NEW chars
  PROVE  Trimmed(Trimmed(t, chars), chars) = Trimmed(t, chars)
<1> DEFINE u == Trimmed(t, chars)
<1>1. CASE u = <<>>
  <2>1. \A i \in DOMAIN u : FALSE
    BY <1>1
  <2>2. {i \in DOMAIN u : u[i] \notin chars} = {}
    BY <2>1
  <2> QED
    BY <1>1, <2>2 DEF Trimmed
<1>2. ASSUME NEW a \in 1..Len(t), NEW b \in 1..Len(t), a <= b,
             t[a] \notin chars, t[b] \notin chars, u = SubSeq(t, a, b)
      PROVE  Trimmed(u, chars) = u
  <2>1. u \in Seq(Chars) /\ Len(u) = b - a + 1 /\ u[1] = t[a] /\ u[Len(u)] = t[b]
    BY <1>2
  <2> HIDE DEF u
  <2>2. u # <<>> /\ u[1] \notin chars /\ u[Len(u)] \notin chars
    BY <1>2, <2>1
  <2> QED
    BY <2>1, <2>2, TrimmedWhole
<1> QED
  BY <1>1, <1>2, TrimmedCases

--------------------------------------------------------------------------------
(* Numbers as they are written and read, and what the environment holds.   *)

\* A plain number begins with a sign or a digit and ends with a digit.
LEMMA PlainEnds ==
  ASSUME NEW u \in Seq(Chars), Plain(u)
  PROVE  u # <<>> /\ u[1] \in DigitChars \cup {"+", "-"} /\ u[Len(u)] \in DigitChars
<1>1. CASE Signed(u)
  <2>1. u # <<>> /\ u[1] \in {"+", "-"}
    BY <1>1 DEF Signed
  <2>2. Digits(u) = Tail(u) /\ Tail(u) # <<>>
    BY <1>1 DEF Plain, Digits
  <2>3. Len(u) >= 2 /\ Len(Tail(u)) = Len(u) - 1 /\ Tail(u)[Len(u) - 1] = u[Len(u)]
    BY <2>1, <2>2
  <2>4. Len(u) - 1 \in DOMAIN Tail(u)
    BY <2>1, <2>3
  <2>5. Tail(u)[Len(u) - 1] \in DigitChars
    BY <2>2, <2>4 DEF Plain
  <2> QED
    BY <2>1, <2>3, <2>5
<1>2. CASE ~Signed(u)
  <2>1. u # <<>> /\ \A i \in DOMAIN u : u[i] \in DigitChars
    BY <1>2 DEF Plain, Digits
  <2>2. 1 \in DOMAIN u /\ Len(u) \in DOMAIN u
    BY <2>1
  <2> QED
    BY <2>1, <2>2
<1> QED
  BY <1>1, <1>2

\* What JavaScript trims off a number is what anyone would.
LEMMA PlainTrim ==
  ASSUME NEW t \in Seq(Chars), Plain(trim(t))
  PROVE  Trimmed(t, CONFIG_TRIM) = trim(t) /\ trim(t) # <<>>
<1>1. trim(t) \in Seq(Chars)
  BY TrimmedSeq DEF trim
<1>2. trim(t) # <<>>
  BY <1>1, PlainEnds
<1>3. PICK a \in 1..Len(t), b \in 1..Len(t) :
        /\ a <= b /\ \A i \in 1..Len(t) : i < a \/ i > b => t[i] \in JsSpace
        /\ trim(t) = SubSeq(t, a, b)
  BY <1>2, TrimmedCases DEF trim
<1>4. trim(t)[1] = t[a] /\ trim(t)[Len(trim(t))] = t[b]
  BY <1>3
<1>5. t[a] \in DigitChars \cup {"+", "-"} /\ t[b] \in DigitChars
  BY <1>1, <1>4, PlainEnds
<1>6. t[a] \notin CONFIG_TRIM /\ t[b] \notin CONFIG_TRIM
  BY <1>5 DEF DigitChars, CONFIG_TRIM, JsSpace, PySpace
<1>7. \A i \in 1..Len(t) : i < a \/ i > b => t[i] \in CONFIG_TRIM
  BY <1>3 DEF CONFIG_TRIM
<1>8. Trimmed(t, CONFIG_TRIM) = SubSeq(t, a, b)
  BY <1>3, <1>6, <1>7, TrimmedIs
<1> QED
  BY <1>2, <1>3, <1>8

\* parsePlain takes only a plain number within the safe integers, as it is.
LEMMA Parsed ==
  ASSUME NEW t
  PROVE  /\ parsePlain(t) # 0 => Plain(t) /\ parsePlain(t) = BigInt(t) /\ parsePlain(t) \in 1..MAX_SAFE_INTEGER
BY DEF parsePlain

\* A number that is taken is the one that is seen.
LEMMA TakenIsSeen ==
  ASSUME NEW raw \in Seq(Chars) \cup {Unset}, raw # Unset
  PROVE  /\ OrEmpty(raw) = raw
         /\ parsePlain(trim(raw)) # 0 =>
              Trimmed(OrEmpty(raw), CONFIG_TRIM) # <<>> /\ parsePlain(trim(raw)) = Seen(raw)
         /\ parsePlain(configTrim(raw)) # 0 => parsePlain(configTrim(raw)) = Seen(raw)
<1>1. OrEmpty(raw) = raw
  BY DEF OrEmpty
<1>2. ASSUME parsePlain(trim(raw)) # 0
      PROVE  Trimmed(raw, CONFIG_TRIM) # <<>> /\ parsePlain(trim(raw)) = Seen(raw)
  <2>1. Plain(trim(raw)) /\ parsePlain(trim(raw)) = BigInt(trim(raw))
    BY <1>2, Parsed
  <2>2. Trimmed(raw, CONFIG_TRIM) = trim(raw) /\ trim(raw) # <<>>
    BY <2>1, PlainTrim
  <2> QED
    BY <2>1, <2>2 DEF Seen
<1>3. ASSUME parsePlain(configTrim(raw)) # 0
      PROVE  parsePlain(configTrim(raw)) = Seen(raw)
  <2>1. Plain(configTrim(raw)) /\ parsePlain(configTrim(raw)) = BigInt(configTrim(raw))
    BY <1>3, Parsed
  <2> QED
    BY <2>1 DEF Seen, configTrim
<1> QED
  BY <1>1, <1>2, <1>3

\* Nothing is left of nothing.
LEMMA NothingTrimmed == ASSUME NEW chars PROVE Trimmed(<<>>, chars) = <<>>
<1>1. {i \in DOMAIN <<>> : <<>>[i] \notin chars} = {}
  OBVIOUS
<1> QED
  BY <1>1 DEF Trimmed

Configured ==
  /\ server \in Servers
  /\ env # Nil => /\ DOMAIN env = Vars[server]
                  /\ \A v \in Vars[server] : env[v] \in Seq(Chars) \cup {Unset}
  /\ \/ env # Nil /\ config = Starting
     \/ env # Nil /\ config = Read(server)
     \/ env = Nil /\ \E c \in Configs[server] : config = [built |-> c]
     \/ env = Nil /\ config \in Configs[server] /\ Valid(server, config)
     \/ env = Nil /\ config = Refused("built")

\* A server starts from an environment or a configuration of its kind.
LEMMA ConfiguredInit == BootInit => Configured
<1> SUFFICES ASSUME BootInit PROVE Configured
  OBVIOUS
<1>1. server \in Servers
  BY DEF BootInit
<1>2. CASE env = Nil /\ config \in {[built |-> c] : c \in Configs[server]}
  BY <1>1, <1>2 DEF Configured
<1>3. CASE /\ \E v \in DOMAIN Base[server] : \E t \in Settings[server][v] : env = [Base[server] EXCEPT ![v] = t]
           /\ config = Starting
  <2>0. PICK v \in DOMAIN Base[server] : \E t \in Settings[server][v] : env = [Base[server] EXCEPT ![v] = t]
    BY <1>3
  <2>1. PICK t \in Settings[server][v] : env = [Base[server] EXCEPT ![v] = t]
    BY <2>0
  <2>2. DOMAIN Base[server] = Vars[server] /\ \A w \in Vars[server] :
          {Base[server][w]} \cup Settings[server][w] \subseteq Seq(Chars) \cup {Unset}
    <3>1. \A w \in Seq(STRING) : w \in Seq(Chars)
      BY DEF Chars
    <3> QED
      BY <1>1, <3>1, StartsAssumption
  <2>3. DOMAIN env = Vars[server] /\ \A w \in Vars[server] : env[w] = IF w = v THEN t ELSE Base[server][w]
    BY <2>1, <2>2
  <2>4. \A w \in Vars[server] : env[w] \in Seq(Chars) \cup {Unset}
    BY <2>1, <2>2, <2>3
  <2>5. Vars[server] # {}
    BY <1>1 DEF Servers, Vars
  <2>6. env # Nil
    BY <2>3, <2>5 DEF Nil
  <2> QED
    BY <1>1, <1>3, <2>3, <2>4, <2>6 DEF Configured
<1> QED
  BY <1>2, <1>3 DEF BootInit

\* A configuration that is read from the environment was not built by a caller.
LEMMA ReadIsNotBuilt == server \in Servers => "built" \notin DOMAIN Read(server)
<1>1. "built" \notin DOMAIN readSandboxConfigFromEnv(env)
  BY DEF readSandboxConfigFromEnv, Refused
<1>2. "built" \notin DOMAIN readGistsConfigFromEnv(env)
  BY DEF readGistsConfigFromEnv, Refused
<1>3. "built" \notin DOMAIN readDbConfigFromEnv(env)
  BY DEF readDbConfigFromEnv, Refused
<1>4. "built" \notin DOMAIN Validated(readBridgeConfig(env), validateBridgeConfig(readBridgeConfig(env)))
  BY DEF Validated, readBridgeConfig, Refused
<1> QED
  BY <1>1, <1>2, <1>3, <1>4 DEF Read, Servers

\* The environment never changes, and a configuration is read from it once.
LEMMA ConfiguredStep == ASSUME Configured, [BootNext]_bootVars PROVE Configured'
<1>1. CASE Start
  <2>1. config = Starting /\ config' = Read(server) /\ UNCHANGED <<server, env>>
    BY <1>1 DEF Start
  <2>2. env # Nil
    <3>1. \A c : DOMAIN [built |-> c] # DOMAIN Starting
      BY DEF Starting, Refused
    <3>2. server \in Servers => "refused" \notin Fields[server]
      BY DEF Servers, Fields
    <3>3. config \notin Configs[server]
      BY <2>1, <3>2, StartsAssumption DEF Configured, Starting, Refused
    <3>4. Starting # Refused("built")
      BY DEF Starting, Refused
    <3> QED
      BY <2>1, <3>1, <3>3, <3>4 DEF Configured
  <2>3. Read(server)' = Read(server)
    BY <2>1 DEF Read
  <2> QED
    BY <2>1, <2>2, <2>3 DEF Configured
<1>2. CASE Build
  <2>1. /\ "built" \in DOMAIN config /\ UNCHANGED <<server, env>>
        /\ config' = Validated(config.built, Valid(server, config.built))
    BY <1>2 DEF Build
  <2>2. server \in Servers => "built" \notin Fields[server]
    BY DEF Servers, Fields
  <2>3. config \notin Configs[server]
    BY <2>1, <2>2, StartsAssumption DEF Configured
  <2>4. config # Read(server) /\ config # Starting /\ config # Refused("built")
    BY <2>1, ReadIsNotBuilt DEF Configured, Starting, Refused
  <2>5. PICK c \in Configs[server] : env = Nil /\ config = [built |-> c]
    BY <2>3, <2>4 DEF Configured
  <2>6. config' = Refused("built") \/ (config' = c /\ Valid(server, c))
    BY <2>1, <2>5 DEF Validated
  <2>7. config' = c /\ Valid(server, c) => Valid(server, config)'
    BY <2>1 DEF Valid
  <2> QED
    BY <2>1, <2>5, <2>6, <2>7 DEF Configured
<1>3. CASE CallTool \/ UNCHANGED bootVars
  <2>1. UNCHANGED <<server, env, config>>
    BY <1>3 DEF CallTool, bootVars
  <2>2. Read(server)' = Read(server) /\ Valid(server, config)' = Valid(server, config)
    BY <2>1 DEF Read, Valid
  <2> QED
    BY <2>1, <2>2 DEF Configured
<1> QED
  BY <1>1, <1>2, <1>3 DEF BootNext

--------------------------------------------------------------------------------
(* The configurations of filesystem-sandbox and postgres-readonly.         *)

Blank(v) == Trimmed(OrEmpty(env[v]), CONFIG_TRIM) = Nil

\* A variable that is unset or empty is blank.
LEMMA UnsetIsBlank ==
  /\ OrEmpty(Unset) = <<>>
  /\ \A v : env[v] = Unset \/ env[v] = <<>> => Blank(v)
<1>1. OrEmpty(Unset) = <<>>
  BY DEF OrEmpty
<1>2. OrEmpty(<<>>) = <<>>
  BY DEF OrEmpty
<1> QED
  BY <1>1, <1>2, NothingTrimmed DEF Blank, Nil

\* What filesystem-sandbox takes for its byte cap is the default or what is seen.
LEMMA FsNumber ==
  ASSUME Configured, server = "filesystem-sandbox", env # Nil,
         config = readSandboxConfigFromEnv(env), Serves(config)
  PROVE  /\ DOMAIN config = {"roots", "maxBytes", "readOnly"}
         /\ config.maxBytes = IF Blank("MAX_BYTES") THEN DEFAULT["MAX_BYTES"] ELSE Seen(env["MAX_BYTES"])
         /\ config.maxBytes \in 1..MAX_SAFE_INTEGER
<1> DEFINE raw   == env["MAX_BYTES"]
           bytes == configTrimTs(OrEmpty(raw))
           n     == IF bytes = <<>> THEN DEFAULT["MAX_BYTES"] ELSE parsePlain(bytes)
<1>1. /\ DOMAIN config = {"roots", "maxBytes", "readOnly"}
      /\ config.maxBytes = n /\ n # 0
  BY DEF readSandboxConfigFromEnv, Serves, Refused
<1>2. raw \in Seq(Chars) \cup {Unset}
  BY DEF Configured, Vars, Servers
<1>3. bytes = <<>> <=> Blank("MAX_BYTES")
  BY DEF configTrimTs, configTrim, Blank, Nil
<1>4. DEFAULT["MAX_BYTES"] \in 1..MAX_SAFE_INTEGER
  BY StartsAssumption
<1>5. CASE bytes = <<>>
  BY <1>1, <1>3, <1>4, <1>5
<1>6. CASE bytes # <<>>
  <2>1. raw # Unset
    BY <1>3, <1>6, UnsetIsBlank
  <2>2. n = parsePlain(configTrim(raw)) /\ n # 0
    BY <1>1, <1>2, <1>6, <2>1, TakenIsSeen DEF configTrimTs
  <2>3. n = Seen(raw)
    BY <1>2, <2>1, <2>2, TakenIsSeen
  <2>4. n \in 1..MAX_SAFE_INTEGER
    BY <2>2, Parsed
  <2> HIDE DEF n, bytes
  <2> QED
    BY <1>1, <1>3, <1>6, <2>3, <2>4
<1> QED
  BY <1>5, <1>6

\* A variable that parseIntEnv read.
LEMMA IntEnv ==
  ASSUME NEW v, env[v] \in Seq(Chars) \cup {Unset}, NEW M \in Nat, DEFAULT[v] \in 1..M,
         parseIntEnv(env, v) # 0
  PROVE  /\ parseIntEnv(env, v) = IF Blank(v) THEN DEFAULT[v] ELSE Seen(env[v])
         /\ parseIntEnv(env, v) \in Nat \ {0}
<1>1. CASE env[v] = Unset
  <2>1. parseIntEnv(env, v) = DEFAULT[v] /\ Blank(v)
    BY <1>1, UnsetIsBlank DEF parseIntEnv
  <2> QED
    BY <2>1
<1>2. CASE env[v] # Unset
  <2>1. parseIntEnv(env, v) = parsePlain(trim(env[v]))
    BY <1>2 DEF parseIntEnv
  <2>2. ~Blank(v) /\ parsePlain(trim(env[v])) = Seen(env[v])
    BY <1>2, <2>1, TakenIsSeen DEF Blank, Nil
  <2>3. parsePlain(trim(env[v])) \in 1..MAX_SAFE_INTEGER
    BY <2>1, Parsed
  <2> QED
    BY <2>1, <2>2, <2>3
<1> QED
  BY <1>1, <1>2

\* The limits of node timers and of what postgres-readonly adds to them.
LEMMA Limits ==
  /\ MAX_TIMEOUT_MS \in Nat \ {0} /\ QueryBackstop \in 1..MAX_TIMEOUT_MS /\ ConnectFloor \in 1..MAX_TIMEOUT_MS
  /\ MAX_STATEMENT_TIMEOUT_MS = MAX_TIMEOUT_MS - QueryBackstop /\ MAX_MAX_ROWS = MAX_TIMEOUT_MS - 1
  /\ MAX_STATEMENT_TIMEOUT_MS \in Nat /\ MAX_MAX_ROWS \in Nat
BY LimitsAssumption DEF MAX_STATEMENT_TIMEOUT_MS, MAX_MAX_ROWS

\* The three numbers postgres-readonly reads are defaults or what is seen.
LEMMA PgNumbers ==
  ASSUME Configured, server = "postgres-readonly", env # Nil,
         config = readDbConfigFromEnv(env), Serves(config)
  PROVE  /\ DOMAIN config = {"database", "maxRows", "statementTimeoutMs", "maxResultBytes"}
         /\ config.maxRows = IF Blank("MAX_ROWS") THEN DEFAULT["MAX_ROWS"] ELSE Seen(env["MAX_ROWS"])
         /\ config.statementTimeoutMs =
              IF Blank("STATEMENT_TIMEOUT_MS") THEN DEFAULT["STATEMENT_TIMEOUT_MS"] ELSE Seen(env["STATEMENT_TIMEOUT_MS"])
         /\ config.maxResultBytes =
              IF Blank("MAX_RESULT_BYTES") THEN DEFAULT["MAX_RESULT_BYTES"] ELSE Seen(env["MAX_RESULT_BYTES"])
         /\ validateDbConfig(config)
<1> DEFINE database == trim(OrEmpty(env["DATABASE_URL"]))
           cap     == boundMaxRows(parseIntEnv(env, "MAX_ROWS"))
           timeout  == parseIntEnv(env, "STATEMENT_TIMEOUT_MS")
           bytes    == parseIntEnv(env, "MAX_RESULT_BYTES")
<1>1. /\ DOMAIN config = {"database", "maxRows", "statementTimeoutMs", "maxResultBytes"}
      /\ config.database = database /\ config.maxRows = cap
      /\ config.statementTimeoutMs = timeout /\ config.maxResultBytes = bytes
      /\ database # <<>> /\ cap # 0
      /\ timeout # 0 /\ ~(timeout > MAX_STATEMENT_TIMEOUT_MS)
      /\ bytes # 0 /\ ~(bytes > MAX_MAX_RESULT_BYTES)
  BY DEF readDbConfigFromEnv, Serves, Refused
<1>2. \A v \in {"DATABASE_URL", "MAX_ROWS", "STATEMENT_TIMEOUT_MS", "MAX_RESULT_BYTES"} :
        env[v] \in Seq(Chars) \cup {Unset}
  BY DEF Configured, Vars, Servers
<1>3. cap = parseIntEnv(env, "MAX_ROWS") /\ parseIntEnv(env, "MAX_ROWS") <= MAX_MAX_ROWS
  BY <1>1 DEF boundMaxRows
<1>4. /\ parseIntEnv(env, "MAX_ROWS") = IF Blank("MAX_ROWS") THEN DEFAULT["MAX_ROWS"] ELSE Seen(env["MAX_ROWS"])
      /\ parseIntEnv(env, "MAX_ROWS") \in Nat \ {0}
  BY <1>1, <1>2, <1>3, Limits, StartsAssumption, IntEnv
<1>5. /\ timeout = IF Blank("STATEMENT_TIMEOUT_MS") THEN DEFAULT["STATEMENT_TIMEOUT_MS"] ELSE Seen(env["STATEMENT_TIMEOUT_MS"])
      /\ timeout \in Nat \ {0}
  BY <1>1, <1>2, Limits, StartsAssumption, IntEnv
<1>6. MAX_MAX_RESULT_BYTES \in Nat
  BY LimitsAssumption
<1>7. /\ bytes = IF Blank("MAX_RESULT_BYTES") THEN DEFAULT["MAX_RESULT_BYTES"] ELSE Seen(env["MAX_RESULT_BYTES"])
      /\ bytes \in Nat \ {0}
  BY <1>1, <1>2, <1>6, StartsAssumption, IntEnv
<1>8. trim(database) # <<>>
  <2>1. OrEmpty(env["DATABASE_URL"]) \in Seq(Chars)
    <3>1. env["DATABASE_URL"] \in Seq(Chars) \cup {Unset} /\ <<>> \in Seq(Chars)
      BY <1>2
    <3> QED
      BY <3>1 DEF OrEmpty
  <2>2. trim(database) = database
    BY <2>1, TrimmedTwice DEF trim
  <2> QED
    BY <1>1, <2>2
<1> HIDE DEF database, cap, timeout, bytes
<1>9. validateDbConfig(config)
  BY <1>1, <1>3, <1>4, <1>5, <1>6, <1>7, <1>8, Limits DEF validateDbConfig
<1> QED
  BY <1>1, <1>3, <1>4, <1>5, <1>7, <1>9

--------------------------------------------------------------------------------
(* The host of a base URL, with a slash after it or without.               *)

\* A least element of a set is its minimum.
LEMMA MinIs ==
  ASSUME NEW S, S \subseteq Nat, NEW a \in S, \A y \in S : a <= y
  PROVE  Min(S) = a
<1>1. Min(S) \in S /\ \A y \in S : Min(S) <= y
  BY DEF Min
<1>2. Min(S) <= a /\ a <= Min(S) /\ Min(S) \in Nat /\ a \in Nat
  BY <1>1
<1> QED
  BY <1>2

Stops == Slashes \cup {"?", "#"}

\* The authority lies between the slashes after the scheme and the next one.
LEMMA AuthorityOf ==
  ASSUME NEW t \in Seq(Chars), NEW b \in 2..Len(t), NEW s \in 2..b, NEW e \in s..(b + 1),
         \A i \in 1..Len(t) : t[i] \notin {"TAB", "LF"},
         t[1] \notin Outer, t[b] \notin Outer,
         \A i \in (b + 1)..Len(t) : t[i] \in Outer,
         t[s] \notin Slashes, \A i \in 2..(s - 1) : t[i] \in Slashes,
         \A i \in s..(e - 1) : t[i] \notin Stops,
         e = b + 1 \/ t[e] \in Stops
  PROVE  Authority(t) = SubSeq(t, s, e - 1)
<1> DEFINE u == SubSeq(t, 2, b)
           r == SubSeq(t, s, b)
<1>1. OneLine(t) = t
  BY DEF OneLine
<1>2. Trimmed(t, Outer) = SubSeq(t, 1, b)
  <2>1. 1 \in 1..Len(t) /\ b \in 1..Len(t) /\ 1 <= b
    OBVIOUS
  <2>2. \A i \in 1..Len(t) : i < 1 \/ i > b => t[i] \in Outer
    OBVIOUS
  <2> QED
    BY <2>1, <2>2, TrimmedIs
<1>3. Tail(SubSeq(t, 1, b)) = u
  OBVIOUS
<1>4. Len(u) = b - 1 /\ u \in Seq(Chars) /\ \A i \in 1..(b - 1) : u[i] = t[i + 1]
  OBVIOUS
<1>5. Rest(t) = r
  <2> DEFINE starts == {i \in DOMAIN u : u[i] \notin Slashes}
  <2>1. starts \subseteq Nat /\ s - 1 \in starts
    <3>1. s - 1 \in 1..(b - 1) /\ u[s - 1] = t[s]
      BY <1>4
    <3> QED
      BY <1>4, <3>1
  <2>2. \A y \in starts : s - 1 <= y
    <3>1. ASSUME NEW y \in 1..(b - 1), y < s - 1 PROVE u[y] \in Slashes
      <4>1. y + 1 \in 2..(s - 1) /\ u[y] = t[y + 1]
        BY <1>4, <3>1
      <4> QED
        BY <4>1
    <3>2. DOMAIN u = 1..(b - 1)
      BY <1>4
    <3> QED
      BY <3>1, <3>2
  <2>3. Min(starts) = s - 1
    <3> HIDE DEF starts
    <3> QED
      BY <2>1, <2>2, MinIs
  <2>4. starts # {}
    BY <2>1
  <2>5. Rest(t) = SubSeq(u, s - 1, Len(u))
    BY <1>1, <1>2, <1>3, <2>3, <2>4 DEF Rest
  <2>6. SubSeq(u, s - 1, b - 1) = SubSeq(t, s, b)
    OBVIOUS
  <2> QED
    BY <1>4, <2>5, <2>6
<1>6. Len(r) = b - s + 1 /\ r \in Seq(Chars) /\ \A i \in 1..(b - s + 1) : r[i] = t[s + i - 1]
  OBVIOUS
<1>7. Until(r, Stops) = SubSeq(t, s, e - 1)
  <2> DEFINE ends == {i \in DOMAIN r : r[i] \in Stops}
  <2>1. DOMAIN r = 1..(b - s + 1)
    BY <1>6
  <2>2. ASSUME NEW y \in 1..(b - s + 1), y < e - s + 1 PROVE r[y] \notin Stops
    <3>1. s + y - 1 \in s..(e - 1) /\ r[y] = t[s + y - 1]
      BY <1>6, <2>2
    <3> QED
      BY <3>1
  <2>3. CASE e = b + 1
    <3>1. ends = {}
      BY <2>1, <2>2, <2>3
    <3>2. Until(r, Stops) = r
      BY <3>1 DEF Until
    <3> QED
      BY <2>3, <3>2
  <2>4. CASE e # b + 1
    <3>1. e - s + 1 \in 1..(b - s + 1) /\ r[e - s + 1] = t[e]
      BY <1>6, <2>4
    <3>2. e - s + 1 \in ends /\ ends \subseteq Nat /\ \A y \in ends : e - s + 1 <= y
      BY <2>1, <2>2, <2>4, <3>1
    <3>3. Min(ends) = e - s + 1
      <4> HIDE DEF ends
      <4> QED
        BY <3>2, MinIs
    <3>4. Until(r, Stops) = SubSeq(r, 1, (e - s + 1) - 1)
      <4>1. ends # {}
        BY <3>2
      <4> QED
        BY <3>3, <4>1 DEF Until
    <3>5. SubSeq(r, 1, (e - s + 1) - 1) = SubSeq(t, s, e - 1)
      OBVIOUS
    <3> QED
      BY <3>4, <3>5
  <2> QED
    BY <2>3, <2>4
<1> HIDE DEF r
<1> QED
  BY <1>5, <1>7 DEF Authority, Stops

\* A base URL of nothing but slashes after its scheme names no host.
LEMMA NoAuthority ==
  ASSUME NEW t \in Seq(Chars), t # <<>>, \A i \in 1..Len(t) : t[i] \notin {"TAB", "LF"},
         t[1] \notin Outer, \A i \in 2..Len(t) : t[i] \in Slashes
  PROVE  Authority(t) = <<>>
<1>1. OneLine(t) = t
  BY DEF OneLine
<1>2. t[Len(t)] \notin Outer
  <2>1. Len(t) \in 1..Len(t)
    OBVIOUS
  <2>2. \A c \in Slashes : c \notin Outer
    BY DEF Slashes, Outer
  <2> QED
    BY <2>1, <2>2
<1>3. Trimmed(t, Outer) = t
  BY <1>2, TrimmedWhole
<1>4. {i \in DOMAIN Tail(t) : Tail(t)[i] \notin Slashes} = {}
  <2>1. Len(Tail(t)) = Len(t) - 1 /\ \A i \in 1..(Len(t) - 1) : Tail(t)[i] = t[i + 1] /\ i + 1 \in 2..Len(t)
    OBVIOUS
  <2>2. DOMAIN Tail(t) = 1..(Len(t) - 1)
    BY <2>1
  <2> QED
    BY <2>1, <2>2
<1>5. Rest(t) = <<>>
  BY <1>1, <1>3, <1>4 DEF Rest
<1>6. Until(<<>>, Stops) = <<>>
  <2>1. {i \in DOMAIN <<>> : <<>>[i] \in Stops} = {}
    OBVIOUS
  <2> QED
    BY <2>1 DEF Until
<1> QED
  BY <1>5, <1>6 DEF Authority, Stops

\* The host holds no space and no NUL, and neither does what is before it.
LEMMA AuthorityPlain ==
  ASSUME NEW t, Authority(t) \in Seq(Chars), assertBaseUrlIsFetchable(t)
  PROVE  /\ Authority(t) # <<>>
         /\ \A i \in DOMAIN Authority(t) : Authority(t)[i] \notin Outer
<1> DEFINE a == Authority(t)
           host == Without(a, IF Until(a, {"@"}) = <<>> THEN <<"@">> ELSE <<>>)
           ends == {i \in DOMAIN a : a[i] \in {"@"}}
<1>1. a # <<>> /\ \A i \in DOMAIN host : host[i] \notin {"@"} \cup Outer
  BY DEF assertBaseUrlIsFetchable
<1> HIDE DEF a
<1>2. a \in Seq(Chars)
  BY DEF a
<1>3. CASE Until(a, {"@"}) = <<>>
  <2>1. ends # {} /\ SubSeq(a, 1, Min(ends) - 1) = <<>>
    BY <1>1, <1>3 DEF Until
  <2>2. Min(ends) \in ends
    <3>1. ends \subseteq 1..Len(a) /\ Len(a) \in Nat
      BY <1>2
    <3> HIDE DEF ends
    <3> QED
      BY <2>1, <3>1, Ends
  <2>3. Min(ends) \in 1..Len(a)
    BY <1>2, <2>2
  <2>4. Min(ends) = 1
    <3>1. ASSUME NEW m \in 1..Len(a), SubSeq(a, 1, m - 1) = <<>> PROVE m = 1
      <4>1. Len(SubSeq(a, 1, m - 1)) = m - 1
        BY <1>2
      <4> QED
        BY <3>1, <4>1
    <3> HIDE DEF ends
    <3> QED
      BY <2>1, <2>3, <3>1
  <2>5. a[1] = "@"
    BY <2>2, <2>4
  <2>6. host = SubSeq(a, 2, Len(a))
    BY <1>3 DEF Without
  <2>7. ASSUME NEW i \in 2..Len(a) PROVE a[i] \notin Outer
    <3>1. i - 1 \in DOMAIN host /\ host[i - 1] = a[i]
      BY <1>2, <2>6
    <3> QED
      BY <1>1, <3>1
  <2>8. \A i \in DOMAIN a : i = 1 \/ i \in 2..Len(a)
    BY <1>2
  <2>9. "@" \notin Outer
    BY DEF Outer
  <2> QED
    BY <1>1, <2>5, <2>7, <2>8, <2>9 DEF a
<1>4. CASE Until(a, {"@"}) # <<>>
  <2>1. host = SubSeq(a, 1, Len(a))
    BY <1>4 DEF Without
  <2>2. host = a
    BY <1>2, <2>1
  <2> QED
    BY <1>1, <2>2 DEF a
<1> QED
  BY <1>3, <1>4

\* A slash at the end changes nothing of the host.
LEMMA SlashCut ==
  ASSUME NEW base \in Seq(Chars), NEW j, base # <<>>, base[1] = "http://",
         assertBaseUrlIsFetchable(base),
         j = IF Last(base) = "/" THEN Front(base) ELSE base,
         assertBaseUrlJoinsCleanly(j)
  PROVE  /\ j \in Seq(Chars) /\ j # <<>> /\ j[1] = "http://"
         /\ assertBaseUrlIsFetchable(j)
<1>1. CASE Last(base) # "/"
  BY <1>1
<1>2. CASE Last(base) = "/"
  <2> DEFINE n == Len(base) - 1
  <2>1. n + 1 = Len(base) /\ n \in Nat /\ base[n + 1] = "/" /\ j = SubSeq(base, 1, n)
    BY <1>2 DEF Last, Front
  <2> HIDE DEF n
  <2>2. n # 0
    BY <2>1
  <2>3. /\ j \in Seq(Chars) /\ Len(j) = n /\ j # <<>> /\ j[1] = "http://"
        /\ \A i \in 1..n : j[i] = base[i]
    <3>1. j \in Seq(Chars) /\ Len(j) = n /\ \A i \in 1..n : j[i] = base[i]
      BY <2>1
    <3>2. 1 \in 1..n
      BY <2>1, <2>2
    <3>3. j # <<>>
      BY <2>2, <3>1
    <3> QED
      BY <3>1, <3>2, <3>3
  <2>4. \A i \in DOMAIN j : j[i] \notin {"TAB", "LF"}
    <3>1. \A i \in DOMAIN j : j[i] \notin {"TAB", "LF", "?", "#"}
      BY DEF assertBaseUrlJoinsCleanly
    <3> QED
      BY <3>1
  <2>5. \A i \in 1..n : j[i] \notin {"TAB", "LF"} /\ base[i] \notin {"TAB", "LF"}
    <3>1. DOMAIN j = 1..n
      BY <2>3
    <3> QED
      BY <2>3, <2>4, <3>1
  <2>6. \A i \in 1..(n + 1) : base[i] \notin {"TAB", "LF"}
    <3>1. base[n + 1] \notin {"TAB", "LF"}
      BY <2>1
    <3>2. \A i \in 1..(n + 1) : i \in 1..n \/ i = n + 1
      BY <2>1
    <3> QED
      BY <2>5, <3>1, <3>2
  <2>7. /\ "http://" \notin Outer /\ "/" \notin Outer /\ "/" \in Slashes /\ "/" \in Stops
        /\ \A c \in Slashes : c \in Stops
    BY DEF Outer, Slashes, Stops
  <2> DEFINE named == {i \in 2..n : j[i] \notin Slashes}
  <2>8. named # {}
    <3> SUFFICES ASSUME named = {} PROVE FALSE
      OBVIOUS
    <3>1. \A i \in 2..n : base[i] \in Slashes
      <4>1. \A i \in 2..n : i \in 1..n
        BY <2>1
      <4> QED
        BY <2>3, <4>1
    <3>2. \A i \in 2..(n + 1) : base[i] \in Slashes
      <4>1. \A i \in 2..(n + 1) : i \in 2..n \/ i = n + 1
        BY <2>1
      <4> QED
        BY <2>1, <2>7, <3>1, <4>1
    <3>3. Authority(base) = <<>>
      BY <2>1, <2>6, <2>7, <3>2, NoAuthority
    <3> QED
      BY <3>3 DEF assertBaseUrlIsFetchable
  <2>9. PICK s \in named : \A y \in named : s <= y
    <3>1. named \subseteq 1..n
      BY <2>1
    <3> HIDE DEF named
    <3>2. Min(named) \in named /\ \A y \in named : Min(named) <= y
      BY <2>1, <2>8, <3>1, Ends
    <3> QED
      BY <3>2
  <2>10. s \in 2..n /\ j[s] \notin Slashes /\ \A i \in 2..(s - 1) : j[i] \in Slashes
    BY <2>9, <2>1
  <2> HIDE DEF named
  <2> DEFINE ends == {i \in s..(n + 1) : base[i] \in Stops}
  <2>11. PICK e \in ends : \A y \in ends : e <= y
    <3>1. ends \subseteq 1..(n + 1) /\ n + 1 \in Nat /\ n + 1 \in ends
      BY <2>1, <2>7, <2>10
    <3> HIDE DEF ends
    <3>2. Min(ends) \in ends /\ \A y \in ends : Min(ends) <= y
      BY <3>1, Ends
    <3> QED
      BY <3>2
  <2>12. e \in s..(n + 1) /\ base[e] \in Stops /\ \A i \in s..(e - 1) : base[i] \notin Stops
    BY <2>11, <2>10, <2>1
  <2> HIDE DEF ends
  <2>13. Authority(base) = SubSeq(base, s, e - 1)
    <3>1. n + 1 \in 2..Len(base) /\ s \in 2..(n + 1) /\ e \in s..((n + 1) + 1)
      BY <2>1, <2>2, <2>10, <2>12
    <3>2. base[s] \notin Slashes /\ \A i \in 2..(s - 1) : base[i] \in Slashes
      <4>1. \A i \in 2..(s - 1) : i \in 1..n
        BY <2>1, <2>10
      <4>2. s \in 1..n
        BY <2>1, <2>10
      <4> QED
        BY <2>3, <2>10, <4>1, <4>2
    <3>3. \A i \in ((n + 1) + 1)..Len(base) : base[i] \in Outer
      BY <2>1
    <3> QED
      BY <2>1, <2>6, <2>7, <2>12, <3>1, <3>2, <3>3, AuthorityOf
  <2>14. \A i \in s..(e - 1) : base[i] \notin Outer
    <3>1. SubSeq(base, s, e - 1) \in Seq(Chars)
      BY <2>1, <2>10, <2>12
    <3>2. \A k \in DOMAIN Authority(base) : Authority(base)[k] \notin Outer
      BY <2>13, <3>1, AuthorityPlain
    <3>3. ASSUME NEW i \in s..(e - 1) PROVE base[i] \notin Outer
      <4>1. i - s + 1 \in DOMAIN SubSeq(base, s, e - 1) /\ SubSeq(base, s, e - 1)[i - s + 1] = base[i]
        BY <2>1, <2>10, <2>12
      <4> QED
        BY <2>13, <3>2, <4>1
    <3> QED
      BY <3>3
  <2>15. e # s
    <3> SUFFICES ASSUME e = s PROVE FALSE
      OBVIOUS
    <3>1. SubSeq(base, s, e - 1) = <<>>
      BY <2>1, <2>10
    <3> QED
      BY <2>13, <3>1 DEF assertBaseUrlIsFetchable
  <2> DEFINE inner == {i \in 1..n : j[i] \notin Outer}
  <2>16. e - 1 \in inner
    <3>1. e - 1 \in s..(e - 1) /\ e - 1 \in 1..n
      BY <2>1, <2>10, <2>12, <2>15
    <3> QED
      BY <2>3, <2>14, <3>1
  <2>17. PICK b \in inner : \A y \in inner : y <= b
    <3>1. inner \subseteq 1..n /\ inner # {}
      BY <2>16
    <3> HIDE DEF inner
    <3>2. Max(inner) \in inner /\ \A y \in inner : y <= Max(inner)
      BY <2>1, <3>1, Ends
    <3> QED
      BY <3>2
  <2>18. /\ b \in 1..n /\ e - 1 <= b /\ j[b] \notin Outer
         /\ \A i \in (b + 1)..n : j[i] \in Outer
    BY <2>1, <2>16, <2>17
  <2> HIDE DEF inner
  <2>19. Authority(j) = SubSeq(j, s, e - 1)
    <3>1. b \in 2..Len(j) /\ s \in 2..b /\ e \in s..(b + 1)
      BY <2>1, <2>3, <2>10, <2>12, <2>15, <2>18
    <3>2. \A i \in s..(e - 1) : j[i] \notin Stops
      <4>1. \A i \in s..(e - 1) : i \in 1..n
        BY <2>1, <2>10, <2>12
      <4> QED
        BY <2>3, <2>12, <4>1
    <3>3. e = b + 1 \/ j[e] \in Stops
      <4>1. CASE e # b + 1
        <5>1. e \in 1..n
          BY <2>1, <2>10, <2>12, <2>18, <4>1
        <5> QED
          BY <2>3, <2>12, <5>1
      <4> QED
        BY <4>1
    <3>4. /\ \A i \in 1..Len(j) : j[i] \notin {"TAB", "LF"}
          /\ \A i \in (b + 1)..Len(j) : j[i] \in Outer
      BY <2>3, <2>5, <2>18
    <3>5. j[1] \notin Outer
      BY <2>3, <2>7
    <3>6. j \in Seq(Chars) /\ j[b] \notin Outer
      BY <2>3, <2>18
    <3> QED
      BY <2>10, <3>1, <3>2, <3>3, <3>4, <3>5, <3>6, AuthorityOf
  <2>20. SubSeq(j, s, e - 1) = SubSeq(base, s, e - 1)
    BY <2>1, <2>10, <2>12
  <2> QED
    BY <2>3, <2>13, <2>19, <2>20 DEF assertBaseUrlIsFetchable
<1> QED
  BY <1>1, <1>2

--------------------------------------------------------------------------------
(* The configurations of github-gists and of the bridge, and the numbers   *)
(* of all.                                                                 *)

\* The timer of github-gists is the default or what is seen, and within a timer's range.
LEMMA GistsTimer ==
  ASSUME NEW v, v = "TIMEOUT_MS", env[v] \in Seq(Chars) \cup {Unset}, gistsTimeout(env[v]) # 0
  PROVE  /\ gistsTimeout(env[v]) = IF Blank(v) THEN DEFAULT[v] ELSE Seen(env[v])
         /\ gistsTimeout(env[v]) \in 1..MAX_TIMEOUT_MS
<1>1. CASE env[v] = Unset \/ env[v] = <<>>
  <2>1. gistsTimeout(env[v]) = DEFAULT[v] /\ Blank(v)
    BY <1>1, UnsetIsBlank DEF gistsTimeout
  <2> QED
    BY <2>1, StartsAssumption
<1>2. CASE ~(env[v] = Unset \/ env[v] = <<>>)
  <2> DEFINE n == parsePlain(trim(env[v]))
  <2>1. gistsTimeout(env[v]) = n /\ n # 0 /\ n <= MAX_TIMEOUT_MS
    BY <1>2 DEF gistsTimeout
  <2>2. ~Blank(v) /\ n = Seen(env[v])
    BY <1>2, <2>1, TakenIsSeen DEF Blank, Nil
  <2>3. n \in 1..MAX_SAFE_INTEGER
    BY <2>1, Parsed
  <2> HIDE DEF n
  <2> QED
    BY <2>1, <2>2, <2>3, Limits
<1> QED
  BY <1>1, <1>2

\* The number github-gists reads, and that its own check accepts what it read:
\* the slash it cuts off the base URL changes no verdict.
LEMMA GistsNumber ==
  ASSUME Configured, server = "github-gists", env # Nil,
         config = readGistsConfigFromEnv(env), Serves(config)
  PROVE  /\ DOMAIN config = {"token", "baseUrl", "userAgent", "timeoutMs"}
         /\ config.timeoutMs = IF Blank("TIMEOUT_MS") THEN DEFAULT["TIMEOUT_MS"] ELSE Seen(env["TIMEOUT_MS"])
         /\ validateGistsConfig(config)
<1> DEFINE tok       == trim(OrEmpty(env["GITHUB_TOKEN"]))
           base      == OrDefault(trim(OrEmpty(env["BASE_URL"])), <<"http://", "h">>)
           joinable  == IF Last(base) = "/" THEN Front(base) ELSE base
           userAgent == OrDefault(trim(OrEmpty(env["USER_AGENT"])), <<"a">>)
           timeout   == gistsTimeout(env["TIMEOUT_MS"])
<1>1. /\ DOMAIN config = {"token", "baseUrl", "userAgent", "timeoutMs"}
      /\ config.token = (IF tok = <<>> THEN Unset ELSE tok) /\ config.baseUrl = joinable
      /\ config.userAgent = userAgent /\ config.timeoutMs = timeout
      /\ assertTokenIsHeaderSafe(tok) /\ base[1] = "http://"
      /\ assertBaseUrlIsFetchable(base) /\ assertBaseUrlJoinsCleanly(joinable)
      /\ assertUserAgentIsHeaderSafe(userAgent) /\ timeout # 0
  BY DEF readGistsConfigFromEnv, Serves, Refused
<1>2. \A v \in {"GITHUB_TOKEN", "BASE_URL", "USER_AGENT", "TIMEOUT_MS"} :
        env[v] \in Seq(Chars) \cup {Unset}
  BY DEF Configured, Vars, Servers
<1>3. \A v \in {"GITHUB_TOKEN", "BASE_URL", "USER_AGENT", "TIMEOUT_MS"} :
        OrEmpty(env[v]) \in Seq(Chars)
  <2>1. <<>> \in Seq(Chars)
    OBVIOUS
  <2> QED
    BY <1>2, <2>1 DEF OrEmpty
<1>4. /\ timeout = IF Blank("TIMEOUT_MS") THEN DEFAULT["TIMEOUT_MS"] ELSE Seen(env["TIMEOUT_MS"])
      /\ timeout \in 1..MAX_TIMEOUT_MS
  BY <1>1, <1>2, GistsTimer
<1>5. tok = trim(tok)
  BY <1>3, TrimmedTwice DEF trim
<1>6. base \in Seq(Chars) /\ base # <<>>
  <2>1. trim(OrEmpty(env["BASE_URL"])) \in Seq(Chars)
    BY <1>3, TrimmedSeq DEF trim
  <2>2. <<"http://", "h">> \in Seq(Chars) /\ <<"http://", "h">> # <<>>
    <3>1. \A x, y \in Chars : <<x, y>> \in Seq(Chars) /\ <<x, y>> # <<>>
      OBVIOUS
    <3>2. "http://" \in Chars /\ "h" \in Chars
      BY DEF Chars
    <3> QED
      BY <3>1, <3>2
  <2> QED
    BY <2>1, <2>2 DEF OrDefault
<1>7. userAgent # <<>>
  BY DEF OrDefault
<1> HIDE DEF tok, base, userAgent, timeout
<1>8. joinable # <<>> /\ joinable[1] = "http://" /\ assertBaseUrlIsFetchable(joinable)
  BY <1>1, <1>6, SlashCut
<1> HIDE DEF joinable
<1>9. validateGistsConfig(config)
  BY <1>1, <1>4, <1>5, <1>7, <1>8 DEF validateGistsConfig
<1> QED
  BY <1>1, <1>4, <1>9

\* internal-tools-bridge takes its own configuration through its own check.
LEMMA BridgeNumber ==
  ASSUME server = "internal-tools-bridge", Configured, env # Nil, config = Read(server), Serves(config)
  PROVE  DOMAIN config = {"cwd", "allowlist", "timeoutMs", "maxOutputBytes"} /\ validateBridgeConfig(config)
<1> DEFINE c == readBridgeConfig(env)
<1>1. config = Validated(c, validateBridgeConfig(c))
  BY DEF Read
<1>2. DOMAIN c = {"cwd", "allowlist", "timeoutMs", "maxOutputBytes"}
  BY DEF readBridgeConfig
<1> HIDE DEF c
<1>3. config = c /\ validateBridgeConfig(c)
  BY <1>1 DEF Validated, Serves, Refused
<1> QED
  BY <1>2, <1>3

\* Numbers a server runs with that its own check accepts suit what they are used for.
LEMMA Suits ==
  ASSUME Up, server \in Servers, Valid(server, config), DOMAIN config = Fields[server],
         server # "filesystem-sandbox"
  PROVE  LimitsHold
<1>1. CASE server = "github-gists"
  <2>1. DOMAIN config = {"token", "baseUrl", "userAgent", "timeoutMs"}
    BY <1>1 DEF Fields, Servers
  <2>2. config.timeoutMs \in 1..MAX_TIMEOUT_MS
    BY <1>1 DEF Valid, validateGistsConfig
  <2> QED
    BY <2>1, <2>2 DEF LimitsHold, Has, Delay
<1>2. CASE server = "postgres-readonly"
  <2>1. DOMAIN config = {"database", "maxRows", "statementTimeoutMs", "maxResultBytes"}
    BY <1>2 DEF Fields, Servers
  <2> DEFINE n == config.statementTimeoutMs
  <2>2. /\ n \in 1..MAX_STATEMENT_TIMEOUT_MS /\ config.maxRows \in 1..MAX_MAX_ROWS
        /\ config.maxResultBytes \in 1..MAX_MAX_RESULT_BYTES
    BY <1>2 DEF Valid, validateDbConfig
  <2> HIDE DEF n
  <2>3. /\ n > 0 /\ Delay(n + QueryBackstop) = n + QueryBackstop
        /\ Delay(Larger(n, ConnectFloor)) = Larger(n, ConnectFloor)
    BY <2>2, Limits DEF Delay, Larger
  <2>4. config.maxRows > 0 /\ config.maxRows + 1 <= MAX_TIMEOUT_MS
    BY <2>2, Limits
  <2> QED
    BY <2>1, <2>2, <2>3, <2>4 DEF LimitsHold, Has, n
<1>3. CASE server = "internal-tools-bridge"
  <2>1. DOMAIN config = {"cwd", "allowlist", "timeoutMs", "maxOutputBytes"}
    BY <1>3 DEF Fields, Servers
  <2>2. config.timeoutMs \in 1..MAX_TIMEOUT_MS
    BY <1>3 DEF Valid, validateBridgeConfig
  <2> QED
    BY <2>1, <2>2 DEF LimitsHold, Has, Delay
<1> QED
  BY <1>1, <1>2, <1>3 DEF Servers

\* What was read or built so holds the numbers that were meant.
LEMMA NumbersTrue == Configured => NumbersHold
<1> SUFFICES ASSUME Configured, Up PROVE NumberTrue /\ LimitsHold
  BY DEF NumbersHold, NumberTrue, LimitsHold
<1>1. server \in Servers
  BY DEF Configured
<1>2. CASE env = Nil
  <2>1. config \in Configs[server] /\ Valid(server, config)
    BY <1>2 DEF Configured, Up, Serves, Refused
  <2>2. server # "filesystem-sandbox" /\ DOMAIN config = Fields[server]
    BY <1>1, <2>1, StartsAssumption
  <2> QED
    BY <1>1, <1>2, <2>1, <2>2, Suits DEF NumberTrue
<1>3. CASE env # Nil
  <2>1. config = Read(server) /\ Serves(config)
    BY <1>3 DEF Configured, Up, Starting, Refused, Serves
  <2>2. DOMAIN env = Vars[server]
    BY <1>3 DEF Configured
  <2>3. CASE server = "filesystem-sandbox"
    <3>1. /\ DOMAIN config = {"roots", "maxBytes", "readOnly"}
          /\ config.maxBytes = IF Blank("MAX_BYTES") THEN DEFAULT["MAX_BYTES"] ELSE Seen(env["MAX_BYTES"])
          /\ config.maxBytes \in 1..MAX_SAFE_INTEGER
      BY <1>3, <2>1, <2>3, FsNumber DEF Read
    <3>2. DOMAIN env = {"ALLOWLIST", "MAX_BYTES", "READ_ONLY"}
      BY <2>2, <2>3 DEF Vars, Servers
    <3>3. NumberTrue
      BY <3>1, <3>2 DEF NumberTrue, Blank
    <3>4. LimitsHold
      BY <2>3, <3>1 DEF LimitsHold, Has, Valid
    <3> QED
      BY <3>3, <3>4
  <2>4. CASE server = "github-gists"
    <3>1. /\ DOMAIN config = {"token", "baseUrl", "userAgent", "timeoutMs"}
          /\ config.timeoutMs = IF Blank("TIMEOUT_MS") THEN DEFAULT["TIMEOUT_MS"] ELSE Seen(env["TIMEOUT_MS"])
          /\ validateGistsConfig(config)
      BY <1>3, <2>1, <2>4, GistsNumber DEF Read
    <3>2. /\ DOMAIN env = {"GITHUB_TOKEN", "BASE_URL", "USER_AGENT", "TIMEOUT_MS"}
          /\ Fields[server] = {"token", "baseUrl", "userAgent", "timeoutMs"}
      BY <2>2, <2>4 DEF Vars, Fields, Servers
    <3>3. NumberTrue
      BY <3>1, <3>2 DEF NumberTrue, Blank
    <3>4. Valid(server, config)
      BY <2>4, <3>1 DEF Valid
    <3> QED
      BY <1>1, <2>4, <3>1, <3>2, <3>3, <3>4, Suits
  <2>5. CASE server = "postgres-readonly"
    <3>1. /\ DOMAIN config = {"database", "maxRows", "statementTimeoutMs", "maxResultBytes"}
          /\ config.maxRows = IF Blank("MAX_ROWS") THEN DEFAULT["MAX_ROWS"] ELSE Seen(env["MAX_ROWS"])
          /\ config.statementTimeoutMs =
               IF Blank("STATEMENT_TIMEOUT_MS") THEN DEFAULT["STATEMENT_TIMEOUT_MS"] ELSE Seen(env["STATEMENT_TIMEOUT_MS"])
          /\ config.maxResultBytes =
               IF Blank("MAX_RESULT_BYTES") THEN DEFAULT["MAX_RESULT_BYTES"] ELSE Seen(env["MAX_RESULT_BYTES"])
          /\ validateDbConfig(config)
      BY <1>3, <2>1, <2>5, PgNumbers DEF Read
    <3>2. /\ DOMAIN env = {"DATABASE_URL", "MAX_ROWS", "STATEMENT_TIMEOUT_MS", "MAX_RESULT_BYTES"}
          /\ Fields[server] = {"database", "maxRows", "statementTimeoutMs", "maxResultBytes"}
      BY <2>2, <2>5 DEF Vars, Fields, Servers
    <3>3. NumberTrue
      BY <3>1, <3>2 DEF NumberTrue, Blank
    <3>4. Valid(server, config)
      BY <2>5, <3>1 DEF Valid
    <3> QED
      BY <1>1, <2>5, <3>1, <3>2, <3>3, <3>4, Suits
  <2>6. CASE server = "internal-tools-bridge"
    <3>1. DOMAIN config = {"cwd", "allowlist", "timeoutMs", "maxOutputBytes"} /\ validateBridgeConfig(config)
      BY <1>3, <2>1, <2>6, BridgeNumber
    <3>2. DOMAIN env = {"CWD"} /\ Fields[server] = {"cwd", "allowlist", "timeoutMs", "maxOutputBytes"}
      BY <2>2, <2>6 DEF Vars, Fields, Servers
    <3>3. NumberTrue
      BY <3>2 DEF NumberTrue
    <3>4. Valid(server, config)
      BY <2>6, <3>1 DEF Valid
    <3> QED
      BY <1>1, <2>6, <3>1, <3>2, <3>3, <3>4, Suits
  <2> QED
    BY <1>1, <2>3, <2>4, <2>5, <2>6 DEF Servers
<1> QED
  BY <1>2, <1>3

\* A server that serves runs with the number each variable shows, or with the
\* default where it is blank, and with none past what its timers, LIMIT and
\* buffers take, whoever built its configuration (parseIntEnv, validateDbConfig,
\* validateGistsConfig, validateBridgeConfig, readSandboxConfigFromEnv).
THEOREM NumbersKept == LifeSpec => []NumbersHold
<1>1. BootSpec => []Configured
  BY ConfiguredInit, ConfiguredStep, PTL DEF BootSpec
<1> QED
  BY <1>1, LifeBoots, NumbersTrue, PTL

--------------------------------------------------------------------------------
(* Decimal numbers: the two ports of filesystem-sandbox read the same.     *)

\* So a set that holds 0, and n + 1 whenever it holds n, holds all up to N.
LEMMA UpToInduction ==
  ASSUME NEW N \in Nat, NEW S, 0 \in S,
         \A n \in 0 .. N - 1 : n \in S => n + 1 \in S
  PROVE  \A n \in 0 .. N : n \in S
<1> DEFINE T == {n \in 0 .. N : n \notin S}
<1> SUFFICES ASSUME T # {} PROVE FALSE
  OBVIOUS
<1>1. PICK x \in T : \A y \in T : x <= y
  <2>1. T \subseteq Nat
    OBVIOUS
  <2> HIDE DEF T
  <2> QED
    BY <2>1, LeastElement
<1>2. x \in 0 .. N /\ x \notin S /\ x # 0
  OBVIOUS
<1>3. x - 1 \in 0 .. N - 1 /\ x - 1 \notin T
  BY <1>1, <1>2
<1>4. x - 1 \in S
  BY <1>3
<1>5. (x - 1) + 1 \in S
  BY <1>3, <1>4
<1> QED
  BY <1>2, <1>5


\* The number read up to each digit.
Reading(ds) ==
  CHOOSE value : value = [i \in 0..Len(ds) |-> IF i = 0 THEN 0 ELSE 10 * value[i - 1] + Digit[ds[i]]]

Extends(ds, k, g) ==
  /\ g \in [0..k -> Nat]
  /\ g[0] = 0
  /\ \A i \in 1..k : g[i] = 10 * g[i - 1] + Digit[ds[i]]

\* What the digits count.
LEMMA DigitsCount ==
  /\ \A c \in DigitChars : Digit[c] \in Nat
  /\ \A c \in DigitChars : c # "0" => Digit[c] >= 1
  /\ Digit["0"] = 0 /\ Digit["1"] = 1 /\ "0" \in DigitChars /\ "1" \in DigitChars
BY DEF DigitChars, Digit

\* Decimal reads a text digit by digit.
LEMMA Readable ==
  ASSUME NEW ds \in Seq(DigitChars)
  PROVE  Extends(ds, Len(ds), Reading(ds)) /\ Decimal(ds) = Reading(ds)[Len(ds)]
<1> DEFINE N == Len(ds)
           S == {k \in 0..N : \E g \in [0..k -> Nat] : Extends(ds, k, g)}
<1>1. N \in Nat /\ \A i \in 1..N : Digit[ds[i]] \in Nat
  BY DigitsCount
<1> HIDE DEF N
<1>2. 0 \in S
  <2> DEFINE g == [i \in 0..0 |-> 0]
  <2>1. Extends(ds, 0, g) /\ g \in [0..0 -> Nat]
    BY DEF Extends
  <2> QED
    BY <1>1, <2>1
<1>3. ASSUME NEW k \in 0..(N - 1), k \in S PROVE k + 1 \in S
  <2>1. PICK g \in [0..k -> Nat] : Extends(ds, k, g)
    BY <1>3
  <2> DEFINE h == [i \in 0..(k + 1) |-> IF i = k + 1 THEN 10 * g[k] + Digit[ds[k + 1]] ELSE g[i]]
  <2>2. g[k] \in Nat /\ Digit[ds[k + 1]] \in Nat
    BY <1>1
  <2>3. h \in [0..(k + 1) -> Nat]
    BY <1>1, <2>2
  <2>4. h[0] = 0
    BY <1>1, <2>1 DEF Extends
  <2>5. ASSUME NEW i \in 1..(k + 1) PROVE h[i] = 10 * h[i - 1] + Digit[ds[i]]
    <3>1. CASE i = k + 1
      BY <1>1, <3>1
    <3>2. CASE i # k + 1
      <4>1. i \in 1..k /\ i - 1 \in 0..k /\ i - 1 # k + 1
        BY <1>1, <3>2
      <4>2. h[i] = g[i] /\ h[i - 1] = g[i - 1]
        BY <1>1, <4>1
      <4> QED
        BY <2>1, <4>1, <4>2 DEF Extends
    <3> QED
      BY <3>1, <3>2
  <2>6. Extends(ds, k + 1, h)
    BY <2>3, <2>4, <2>5 DEF Extends
  <2> HIDE DEF h
  <2>7. \E w \in [0..(k + 1) -> Nat] : Extends(ds, k + 1, w)
    BY <2>3, <2>6
  <2> QED
    BY <1>1, <2>7
<1>4. N \in S
  <2>1. \A n \in 0..N - 1 : n \in S => n + 1 \in S
    BY <1>3
  <2> HIDE DEF S
  <2>2. \A n \in 0..N : n \in S
    BY <1>1, <1>2, <2>1, UpToInduction
  <2> QED
    BY <1>1, <2>2
<1>5. PICK g \in [0..N -> Nat] : Extends(ds, N, g)
  BY <1>4
<1> DEFINE P(v) == v = [i \in 0..N |-> IF i = 0 THEN 0 ELSE 10 * v[i - 1] + Digit[ds[i]]]
<1>6. P(g)
  <2>1. \A i \in 0..N : g[i] = IF i = 0 THEN 0 ELSE 10 * g[i - 1] + Digit[ds[i]]
    BY <1>1, <1>5 DEF Extends
  <2> QED
    BY <2>1
<1> DEFINE v == Reading(ds)
<1>7. P(v)
  <2>1. v = CHOOSE w : P(w)
    BY DEF Reading, N
  <2> HIDE DEF P, v
  <2> QED
    BY <1>6, <2>1
<1>8. v[0] = 0 /\ \A i \in 1..N : v[i] = 10 * v[i - 1] + Digit[ds[i]]
  <2> HIDE DEF v
  <2>1. \A i \in 0..N : v[i] = IF i = 0 THEN 0 ELSE 10 * v[i - 1] + Digit[ds[i]]
    BY <1>7
  <2> QED
    BY <1>1, <2>1
<1> HIDE DEF P
<1>9. \A i \in 0..N : v[i] \in Nat
  <2> DEFINE T == {k \in 0..N : v[k] \in Nat}
  <2>1. 0 \in T
    BY <1>1, <1>8
  <2>2. ASSUME NEW k \in 0..(N - 1), k \in T PROVE k + 1 \in T
    <3>1. k + 1 \in 1..N /\ (k + 1) - 1 = k
      BY <1>1
    <3>2. v[k + 1] = 10 * v[k] + Digit[ds[k + 1]] /\ v[k] \in Nat /\ Digit[ds[k + 1]] \in Nat
      BY <1>1, <1>8, <2>2, <3>1
    <3> HIDE DEF v
    <3> QED
      BY <1>1, <3>1, <3>2
  <2>3. \A n \in 0..N - 1 : n \in T => n + 1 \in T
    BY <2>2
  <2> HIDE DEF T
  <2>4. \A n \in 0..N : n \in T
    BY <1>1, <2>1, <2>3, UpToInduction
  <2> QED
    BY <2>4 DEF T
<1>10. v = [i \in 0..N |-> v[i]]
  <2> HIDE DEF v
  <2> QED
    BY <1>7 DEF P
<1>11. Extends(ds, N, v)
  <2> HIDE DEF v
  <2> QED
    BY <1>8, <1>9, <1>10 DEF Extends
<1>12. Decimal(ds) = v[N]
  BY DEF Decimal, Reading, N
<1> QED
  BY <1>11, <1>12 DEF N

\* What comes first counts no less later.
LEMMA ReadingGrows ==
  ASSUME NEW ds \in Seq(DigitChars), NEW m \in 0..Len(ds)
  PROVE  Reading(ds)[m] <= Decimal(ds) /\ Reading(ds)[m] \in Nat
<1> DEFINE v == Reading(ds)
           N == Len(ds)
           S == {k \in 0..(N - m) : v[m] <= v[m + k]}
<1>1. Extends(ds, N, v) /\ Decimal(ds) = v[N] /\ N \in Nat
  BY Readable
<1> HIDE DEF v, N
<1>2. m \in 0..N
  BY DEF N
<1>3. \A i \in 0..N : v[i] \in Nat
  BY <1>1 DEF Extends
<1>4. 0 \in S
  BY <1>1, <1>2, <1>3
<1>5. ASSUME NEW k \in 0..((N - m) - 1), k \in S PROVE k + 1 \in S
  <2> DEFINE i == m + k + 1
  <2>1. i \in 1..N /\ i - 1 = m + k /\ m + k \in 0..N
    BY <1>1, <1>2
  <2>2. Digit[ds[i]] \in Nat
    BY <2>1, DigitsCount DEF N
  <2>3. v[i] = 10 * v[m + k] + Digit[ds[i]]
    BY <1>1, <2>1 DEF Extends
  <2>4. v[m] <= v[m + k] /\ v[m + k] \in Nat /\ v[m] \in Nat
    BY <1>2, <1>3, <1>5, <2>1
  <2>5. v[m] <= v[i]
    BY <2>2, <2>3, <2>4
  <2> QED
    BY <1>1, <1>2, <2>1, <2>5
<1>6. \A n \in 0..((N - m) - 1) : n \in S => n + 1 \in S
  BY <1>5
<1>7. N - m \in Nat
  BY <1>1, <1>2
<1>8. N - m \in S
  <2> HIDE DEF S
  <2>1. \A n \in 0..(N - m) : n \in S
    BY <1>4, <1>6, <1>7, UpToInduction
  <2> QED
    BY <1>7, <2>1
<1>9. v[m] <= v[N]
  <2>1. m + (N - m) = N
    BY <1>1, <1>2
  <2> QED
    BY <1>8, <2>1
<1> QED
  BY <1>1, <1>2, <1>3, <1>9 DEF v

One(m) == [i \in 1..(m + 1) |-> IF i = 1 THEN "1" ELSE "0"]

\* 10^m is what a one and m zeros read as.
LEMMA OneReading ==
  ASSUME NEW m \in Nat
  PROVE  /\ One(m) \in Seq(DigitChars) /\ Len(One(m)) = m + 1
         /\ Tens(m) = Reading(One(m))[m + 1]
         /\ Extends(One(m), m + 1, Reading(One(m)))
         /\ Digit[One(m)[1]] = 1 /\ \A i \in 2..(m + 1) : Digit[One(m)[i]] = 0
<1>1. One(m) \in Seq(DigitChars) /\ Len(One(m)) = m + 1
  BY DigitsCount DEF One
<1>2. Tens(m) = Decimal(One(m))
  BY DEF Tens, One
<1>3. One(m)[1] = "1" /\ \A i \in 2..(m + 1) : One(m)[i] = "0"
  BY DEF One
<1> QED
  BY <1>1, <1>2, <1>3, Readable, DigitsCount

\* A number of more than m digits is no less than 10^m.
LEMMA Longer ==
  ASSUME NEW ds \in Seq(DigitChars), NEW m \in Nat, m < Len(ds), ds[1] # "0"
  PROVE  Tens(m) <= Decimal(ds)
<1> DEFINE v == Reading(ds)
           w == Reading(One(m))
           S == {k \in 0..m : w[k + 1] <= v[k + 1]}
<1>1. Extends(ds, Len(ds), v) /\ Extends(One(m), m + 1, w) /\ Tens(m) = w[m + 1]
  BY Readable, OneReading
<1>2. /\ \A i \in 1..Len(ds) : Digit[ds[i]] \in Nat
      /\ Digit[ds[1]] >= 1 /\ Len(ds) \in Nat
  BY DigitsCount
<1> HIDE DEF v, w
<1>3. 0 \in S
  <2>1. v[1] = 10 * v[0] + Digit[ds[1]] /\ v[0] = 0 /\ w[1] = 10 * w[0] + Digit[One(m)[1]] /\ w[0] = 0
    <3>1. 1 \in 1..Len(ds) /\ 1 \in 1..(m + 1) /\ 1 - 1 = 0
      BY <1>2
    <3> QED
      BY <1>1, <3>1 DEF Extends
  <2>2. Digit[One(m)[1]] = 1 /\ Digit[ds[1]] \in Nat
    BY <1>2, OneReading
  <2>3. w[1] <= v[1]
    BY <1>2, <2>1, <2>2
  <2> QED
    BY <2>3
<1>4. ASSUME NEW k \in 0..(m - 1), k \in S PROVE k + 1 \in S
  <2>1. k + 2 \in 1..(m + 1) /\ k + 2 \in 2..(m + 1) /\ k + 2 \in 1..Len(ds) /\ (k + 2) - 1 = k + 1
        /\ k + 1 \in 0..(m + 1) /\ k + 1 \in 0..Len(ds)
    BY <1>2
  <2>2. w[k + 2] = 10 * w[k + 1] + Digit[One(m)[k + 2]] /\ w[k + 1] \in Nat
    BY <1>1, <2>1 DEF Extends
  <2>3. v[k + 2] = 10 * v[k + 1] + Digit[ds[k + 2]] /\ v[k + 1] \in Nat
    BY <1>1, <2>1 DEF Extends
  <2>4. Digit[One(m)[k + 2]] = 0 /\ Digit[ds[k + 2]] \in Nat
    BY <1>2, <2>1, OneReading
  <2>5. w[k + 1] <= v[k + 1]
    BY <1>4
  <2>6. w[k + 2] <= v[k + 2]
    BY <2>2, <2>3, <2>4, <2>5
  <2>7. k + 1 \in 0..m /\ (k + 1) + 1 = k + 2
    OBVIOUS
  <2> QED
    BY <2>6, <2>7
<1>5. m \in S
  <2>1. \A n \in 0..m - 1 : n \in S => n + 1 \in S
    BY <1>4
  <2> HIDE DEF S
  <2>2. \A n \in 0..m : n \in S
    BY <1>3, <2>1, UpToInduction
  <2> QED
    BY <2>2
<1>6. w[m + 1] <= v[m + 1]
  BY <1>5
<1>7. m + 1 \in 0..Len(ds) /\ m + 1 \in 0..(m + 1)
  BY <1>2
<1>8. v[m + 1] <= Decimal(ds) /\ v[m + 1] \in Nat
  BY <1>7, ReadingGrows DEF v
<1>9. w[m + 1] \in Nat /\ Decimal(ds) \in Nat
  <2>1. Decimal(ds) = v[Len(ds)] /\ Len(ds) \in 0..Len(ds)
    BY <1>2, Readable DEF v
  <2> QED
    BY <1>1, <1>7, <2>1 DEF Extends
<1> QED
  BY <1>1, <1>6, <1>8, <1>9

\* 10^m is past m.
LEMMA TensPast ==
  ASSUME NEW m \in Nat
  PROVE  Tens(m) \in Nat /\ m < Tens(m) /\ Tens(0) = 1
<1> DEFINE w == Reading(One(m))
           S == {k \in 0..m : w[k + 1] >= k + 1}
<1>1. Extends(One(m), m + 1, w) /\ Tens(m) = w[m + 1]
  BY OneReading
<1> HIDE DEF w
<1>2. w[1] = 1
  <2>1. 1 \in 1..(m + 1) /\ 1 - 1 = 0
    OBVIOUS
  <2>2. w[1] = 10 * w[0] + Digit[One(m)[1]] /\ w[0] = 0
    BY <1>1, <2>1 DEF Extends
  <2> QED
    BY <2>2, OneReading
<1>3. 0 \in S
  BY <1>2
<1>4. ASSUME NEW k \in 0..(m - 1), k \in S PROVE k + 1 \in S
  <2>1. k + 2 \in 1..(m + 1) /\ k + 2 \in 2..(m + 1) /\ (k + 2) - 1 = k + 1 /\ k + 1 \in 0..(m + 1)
    OBVIOUS
  <2>2. w[k + 2] = 10 * w[k + 1] + Digit[One(m)[k + 2]] /\ w[k + 1] \in Nat
    BY <1>1, <2>1 DEF Extends
  <2>3. Digit[One(m)[k + 2]] = 0
    BY <2>1, OneReading
  <2>4. w[k + 1] >= k + 1
    BY <1>4
  <2>5. w[k + 2] >= k + 2
    BY <2>2, <2>3, <2>4
  <2>6. k + 1 \in 0..m /\ (k + 1) + 1 = k + 2
    OBVIOUS
  <2> QED
    BY <2>5, <2>6
<1>5. m \in S
  <2>1. \A n \in 0..m - 1 : n \in S => n + 1 \in S
    BY <1>4
  <2> HIDE DEF S
  <2>2. \A n \in 0..m : n \in S
    BY <1>3, <2>1, UpToInduction
  <2> QED
    BY <2>2
<1>6. w[m + 1] >= m + 1
  BY <1>5
<1>7. w[m + 1] \in Nat
  <2>1. m + 1 \in 0..(m + 1)
    OBVIOUS
  <2> QED
    BY <1>1, <2>1 DEF Extends
<1>8. Tens(0) = 1
  <2>1. 0 \in Nat /\ 0 + 1 = 1 /\ 1 \in 1..(0 + 1) /\ 1 - 1 = 0
    OBVIOUS
  <2>2. Extends(One(0), 0 + 1, Reading(One(0))) /\ Tens(0) = Reading(One(0))[1] /\ Digit[One(0)[1]] = 1
    BY <2>1, OneReading
  <2>3. Reading(One(0))[1] = 10 * Reading(One(0))[0] + Digit[One(0)[1]] /\ Reading(One(0))[0] = 0
    BY <2>1, <2>2 DEF Extends
  <2> QED
    BY <2>2, <2>3
<1> QED
  BY <1>1, <1>6, <1>7, <1>8

\* A safe integer has no more digits than MAX_SAFE_INTEGER_DIGITS.
LEMMA DigitsLimit ==
  /\ MAX_SAFE_INTEGER_DIGITS \in Nat \ {0}
  /\ MAX_SAFE_INTEGER < Tens(MAX_SAFE_INTEGER_DIGITS)
<1> DEFINE M == MAX_SAFE_INTEGER
           T == {n \in Nat : M < Tens(n)}
<1>1. M \in Nat /\ M >= 1
  BY LimitsAssumption, StartsAssumption
<1> HIDE DEF M
<1>2. \A n \in Nat : Tens(n) \in Nat /\ n < Tens(n)
  BY TensPast
<1>3. Tens(0) = 1
  BY TensPast
<1>4. M \in T /\ T \subseteq Nat
  BY <1>1, <1>2
<1>5. PICK n \in T : \A y \in T : n <= y
  <2> HIDE DEF T
  <2> QED
    BY <1>4, LeastElement
<1>6. n \in Nat /\ M < Tens(n) /\ n <= M
  BY <1>4, <1>5
<1>7. n # 0
  BY <1>1, <1>3, <1>6
<1>8. n - 1 \in Nat /\ n - 1 \notin T
  BY <1>5, <1>6, <1>7
<1>9. Tens(n - 1) <= M
  <2>1. ~(M < Tens(n - 1)) /\ Tens(n - 1) \in Nat
    BY <1>2, <1>8
  <2> QED
    BY <1>1, <2>1
<1>10. n \in 1..M
  BY <1>1, <1>6, <1>7
<1>11. \E k \in 1..M : Tens(k - 1) <= M /\ M < Tens(k)
  BY <1>6, <1>9, <1>10
<1>12. MAX_SAFE_INTEGER_DIGITS \in 1..M /\ M < Tens(MAX_SAFE_INTEGER_DIGITS)
  BY <1>11 DEF MAX_SAFE_INTEGER_DIGITS, M
<1> QED
  BY <1>1, <1>12 DEF M

\* Zeros read as zero.
LEMMA ZerosRead ==
  ASSUME NEW ds \in Seq(DigitChars), NEW z \in 0..Len(ds), \A i \in 1..z : ds[i] = "0"
  PROVE  Reading(ds)[z] = 0
<1> DEFINE v == Reading(ds)
           S == {k \in 0..z : v[k] = 0}
<1>1. Extends(ds, Len(ds), v) /\ z \in Nat
  BY Readable
<1> HIDE DEF v
<1>2. 0 \in S
  BY <1>1 DEF Extends
<1>3. ASSUME NEW k \in 0..(z - 1), k \in S PROVE k + 1 \in S
  <2>1. k + 1 \in 1..Len(ds) /\ k + 1 \in 1..z /\ (k + 1) - 1 = k
    BY <1>1
  <2>2. v[k + 1] = 10 * v[k] + Digit[ds[k + 1]] /\ v[k] = 0
    BY <1>1, <1>3, <2>1 DEF Extends
  <2>3. Digit[ds[k + 1]] = 0
    BY <2>1, DigitsCount
  <2>4. v[k + 1] = 0
    BY <2>2, <2>3
  <2> QED
    BY <1>1, <2>1, <2>4
<1>4. \A n \in 0..z - 1 : n \in S => n + 1 \in S
  BY <1>3
<1>5. z \in S
  <2> HIDE DEF S
  <2>1. \A n \in 0..z : n \in S
    BY <1>1, <1>2, <1>4, UpToInduction
  <2> QED
    BY <1>1, <2>1
<1> QED
  BY <1>5 DEF v

\* The zeros before the first digit that counts add nothing.
LEMMA TailRead ==
  ASSUME NEW ds \in Seq(DigitChars), NEW z \in 0..(Len(ds) - 1), \A i \in 1..z : ds[i] = "0"
  PROVE  Decimal(SubSeq(ds, z + 1, Len(ds))) = Decimal(ds)
<1> DEFINE s == SubSeq(ds, z + 1, Len(ds))
           N == Len(ds)
           v == Reading(ds)
           u == Reading(s)
           S == {k \in 0..(N - z) : v[z + k] = u[k]}
<1>1. /\ s \in Seq(DigitChars) /\ Len(s) = N - z /\ \A i \in 1..(N - z) : s[i] = ds[z + i]
      /\ N \in Nat /\ z \in 0..N /\ N - z \in Nat
  OBVIOUS
<1> HIDE DEF s, N
<1>2. Extends(ds, N, v) /\ Decimal(ds) = v[N]
  BY Readable DEF N
<1>3. Extends(s, N - z, u) /\ Decimal(s) = u[N - z]
  BY <1>1, Readable
<1>4. v[z] = 0
  BY ZerosRead
<1> HIDE DEF v, u
<1>5. 0 \in S
  BY <1>1, <1>3, <1>4 DEF Extends
<1>6. ASSUME NEW k \in 0..((N - z) - 1), k \in S PROVE k + 1 \in S
  <2>1. k + 1 \in 1..(N - z) /\ (k + 1) - 1 = k /\ z + k + 1 \in 1..N /\ (z + k + 1) - 1 = z + k
        /\ z + (k + 1) = z + k + 1
    BY <1>1
  <2>2. u[k + 1] = 10 * u[k] + Digit[s[k + 1]]
    BY <1>3, <2>1 DEF Extends
  <2>3. v[z + k + 1] = 10 * v[z + k] + Digit[ds[z + k + 1]]
    BY <1>2, <2>1 DEF Extends
  <2>4. s[k + 1] = ds[z + k + 1] /\ v[z + k] = u[k]
    BY <1>1, <1>6, <2>1
  <2>5. v[z + (k + 1)] = u[k + 1]
    BY <2>1, <2>2, <2>3, <2>4
  <2> QED
    BY <1>1, <2>1, <2>5
<1>7. \A n \in 0..((N - z) - 1) : n \in S => n + 1 \in S
  BY <1>6
<1>8. N - z \in S
  <2> HIDE DEF S
  <2>1. \A n \in 0..(N - z) : n \in S
    BY <1>1, <1>5, <1>7, UpToInduction
  <2> QED
    BY <1>1, <2>1
<1>9. v[N] = u[N - z]
  <2>1. z + (N - z) = N
    BY <1>1
  <2> QED
    BY <1>8, <2>1
<1> QED
  BY <1>2, <1>3, <1>9 DEF s, N

\* The digits Python keeps read as the number they were cut from.
LEMMA SignificantReads ==
  ASSUME NEW ds \in Seq(DigitChars), ds # <<>>
  PROVE  /\ Significant(ds) \in Seq(DigitChars)
         /\ Decimal(Significant(ds)) = Decimal(ds)
         /\ Significant(ds)[1] # "0" \/ Len(Significant(ds)) = 1
<1> DEFINE counts == {i \in DOMAIN ds : ds[i] # "0"}
<1>1. CASE counts = {}
  <2>1. Significant(ds) = <<"0">>
    BY <1>1 DEF Significant
  <2>2. <<"0">> \in Seq(DigitChars) /\ Len(<<"0">>) = 1 /\ <<"0">>[1] = "0"
    BY DigitsCount
  <2>3. Decimal(<<"0">>) = 0
    <3>1. 1 \in 0..Len(<<"0">>) /\ \A i \in 1..1 : <<"0">>[i] = "0"
      OBVIOUS
    <3> QED
      BY <2>2, <3>1, ZerosRead, Readable
  <2>4. Decimal(ds) = 0
    <3>1. Len(ds) \in 0..Len(ds) /\ \A i \in 1..Len(ds) : ds[i] = "0"
      BY <1>1
    <3> QED
      BY <3>1, ZerosRead, Readable
  <2> QED
    BY <2>1, <2>2, <2>3, <2>4
<1>2. CASE counts # {}
  <2> DEFINE m == Min(counts)
  <2>1. counts \subseteq 1..Len(ds) /\ Len(ds) \in Nat
    OBVIOUS
  <2>2. m \in counts /\ \A y \in counts : m <= y
    <3> HIDE DEF counts
    <3> QED
      BY <1>2, <2>1, Ends
  <2>3. Significant(ds) = SubSeq(ds, m, Len(ds))
    BY <1>2 DEF Significant
  <2> HIDE DEF m
  <2>4. m \in 1..Len(ds) /\ ds[m] # "0" /\ \A i \in 1..(m - 1) : ds[i] = "0"
    BY <2>1, <2>2
  <2>5. m - 1 \in 0..(Len(ds) - 1) /\ (m - 1) + 1 = m
    BY <2>1, <2>4
  <2>6. Decimal(SubSeq(ds, m, Len(ds))) = Decimal(ds)
    BY <2>4, <2>5, TailRead
  <2>7. SubSeq(ds, m, Len(ds)) \in Seq(DigitChars) /\ SubSeq(ds, m, Len(ds))[1] = ds[m]
    BY <2>4
  <2> QED
    BY <2>3, <2>4, <2>6, <2>7
<1> QED
  BY <1>1, <1>2

\* The two parsers read one number in a text, or refuse it both.
LEMMA ParsersAgree ==
  ASSUME NEW t \in Seq(Chars)
  PROVE  parsePlain(t) = parsePy(t)
<1>1. CASE ~Plain(t)
  BY <1>1 DEF parsePlain, parsePy
<1>2. CASE Plain(t)
  <2> DEFINE dg == Digits(t)
             ds == Significant(dg)
             d  == Decimal(dg)
             M  == MAX_SAFE_INTEGER
             D  == MAX_SAFE_INTEGER_DIGITS
             sg == Signum(t)
  <2>1. dg \in Seq(DigitChars) /\ dg # <<>>
    <3>1. dg # <<>> /\ \A i \in DOMAIN dg : dg[i] \in DigitChars
      BY <1>2 DEF Plain
    <3>2. dg \in Seq(Chars)
      <4>1. Signed(t) => t # <<>>
        BY DEF Signed
      <4> QED
        BY <4>1 DEF Digits
    <3> HIDE DEF dg
    <3> QED
      BY <3>1, <3>2
  <2> HIDE DEF dg
  <2>2. ds \in Seq(DigitChars) /\ Decimal(ds) = d /\ (ds[1] # "0" \/ Len(ds) = 1)
    BY <2>1, SignificantReads
  <2>3. d \in Nat
    <3>1. Len(dg) \in 0..Len(dg)
      BY <2>1
    <3> QED
      BY <2>1, <3>1, Readable DEF Extends
  <2>4. M \in Nat /\ D \in Nat \ {0} /\ M < Tens(D) /\ Tens(D) \in Nat
    BY LimitsAssumption, DigitsLimit, TensPast
  <2>5. sg \in {1, -1}
    BY DEF Signum
  <2>6. parsePlain(t) = IF sg * d \in 1..M THEN sg * d ELSE 0
    BY <1>2 DEF parsePlain, BigInt, dg
  <2>7. parsePy(t) = IF Len(ds) > D THEN 0 ELSE IF sg * d <= 0 \/ sg * d > M THEN 0 ELSE sg * d
    BY <1>2, <2>2 DEF parsePy, dg
  <2> HIDE DEF ds, d, M, D, sg
  <2>8. sg * d \in Int /\ sg * d <= d
    BY <2>3, <2>5
  <2>9. CASE Len(ds) > D
    <3>0. Len(ds) \in Nat /\ Len(ds) # 1
      <4>1. Len(ds) \in Nat
        BY <2>2
      <4>2. D \in Nat /\ D # 0
        BY <2>4
      <4> DEFINE l == Len(ds)
      <4>3. l \in Nat /\ l > D
        BY <2>9, <4>1
      <4> HIDE DEF l
      <4>4. l # 1
        BY <4>2, <4>3
      <4> QED
        BY <4>1, <4>4 DEF l
    <3>1. Len(ds) \in Nat /\ ds[1] # "0"
      BY <2>2, <3>0
    <3>2. Tens(D) <= d
      BY <2>2, <2>4, <2>9, <3>1, Longer
    <3>3. d > M
      BY <2>3, <2>4, <3>2
    <3>4. sg * d \notin 1..M
      <4>1. CASE sg = 1
        BY <2>3, <2>4, <3>3, <4>1
      <4>2. CASE sg = -1
        BY <2>3, <2>4, <4>2
      <4> QED
        BY <2>5, <4>1, <4>2
    <3> QED
      BY <2>6, <2>7, <2>9, <3>4
  <2>10. CASE ~(Len(ds) > D)
    <3> DEFINE n == sg * d
    <3>1. n \in Int
      BY <2>8
    <3> HIDE DEF n
    <3>2. (n \in 1..M) <=> ~(n <= 0 \/ n > M)
      BY <2>4, <3>1
    <3>3. parsePlain(t) = IF n \in 1..M THEN n ELSE 0
      BY <2>6 DEF n
    <3>4. parsePy(t) = IF n <= 0 \/ n > M THEN 0 ELSE n
      BY <2>7, <2>10 DEF n
    <3> QED
      BY <3>2, <3>3, <3>4
  <2> QED
    BY <2>9, <2>10
<1> QED
  BY <1>1, <1>2

\* So the two ports read one configuration of one environment.
LEMMA PortsTrue == Configured => PortsAgree
<1> SUFFICES ASSUME Configured, server = "filesystem-sandbox", env # Nil, config # Starting
             PROVE  config = read_sandbox_config_from_env(env)
  BY DEF PortsAgree
<1> DEFINE bytes == configTrim(OrEmpty(env["MAX_BYTES"]))
<1>1. config = readSandboxConfigFromEnv(env)
  BY DEF Configured, Read
<1>2. env["MAX_BYTES"] \in Seq(Chars) \cup {Unset} /\ <<>> \in Seq(Chars)
  BY DEF Configured, Vars, Servers
<1>3. bytes \in Seq(Chars)
  <2>1. OrEmpty(env["MAX_BYTES"]) \in Seq(Chars)
    BY <1>2 DEF OrEmpty
  <2> QED
    BY <2>1, TrimmedSeq DEF configTrim
<1>4. parsePlain(bytes) = parsePy(bytes)
  BY <1>3, ParsersAgree
<1>5. \A x : configTrimTs(x) = configTrim(x)
  BY DEF configTrimTs
<1>6. readSandboxConfigFromEnv(env) = read_sandbox_config_from_env(env)
  BY <1>4 DEF readSandboxConfigFromEnv, read_sandbox_config_from_env, configTrimTs
<1> QED
  BY <1>1, <1>6

\* The two ports of the sandbox take one environment for one configuration, or
\* both refuse it: neither what they trim nor how they bound a number's digits
\* tells them apart (config.ts readSandboxConfigFromEnv, config.py).
THEOREM PortsAgreeing == LifeSpec => []PortsAgree
<1>1. BootSpec => []Configured
  BY ConfiguredInit, ConfiguredStep, PTL DEF BootSpec
<1> QED
  BY <1>1, LifeBoots, PortsTrue, PTL

--------------------------------------------------------------------------------
(* The segments of a path lie between one cut and the next.                *)

\* The elements of S before i.
Before(S, i) == {j \in S : j < i}

\* As many elements come before the k-th as its place says, and every place is one's.
LEMMA Ranks ==
  ASSUME NEW N \in Nat, NEW S, S \subseteq 0..N
  PROVE  /\ IsFiniteSet(S) /\ Cardinality(S) \in Nat
         /\ \A i \in S : IsFiniteSet(Before(S, i)) /\ Cardinality(Before(S, i)) \in 0..(Cardinality(S) - 1)
         /\ \A i, j \in S : i < j => Cardinality(Before(S, i)) < Cardinality(Before(S, j))
         /\ \A k \in 1..Cardinality(S) : \E i \in S : Cardinality(Before(S, i)) = k - 1
<1> DEFINE rank == [i \in S |-> Cardinality(Before(S, i))]
<1>1. IsFiniteSet(S)
  <2>1. IsFiniteSet(0..N)
    BY FS_Interval
  <2> QED
    BY <2>1, FS_Subset
<1>2. Cardinality(S) \in Nat
  BY <1>1, FS_CardinalityType
<1>3. ASSUME NEW T, NEW U, IsFiniteSet(U), T \subseteq U, NEW x \in U, x \notin T
      PROVE  IsFiniteSet(T) /\ Cardinality(T) \in Nat /\ Cardinality(T) < Cardinality(U)
  <2>1. IsFiniteSet(T) /\ Cardinality(T) <= Cardinality(U) /\ Cardinality(T) # Cardinality(U)
    <3>1. T \in SUBSET U /\ U # T
      BY <1>3
    <3> QED
      BY <1>3, <3>1, FS_Subset
  <2>2. Cardinality(T) \in Nat /\ Cardinality(U) \in Nat
    BY <1>3, <2>1, FS_CardinalityType
  <2> QED
    BY <2>1, <2>2
<1>4. ASSUME NEW i \in S
      PROVE  IsFiniteSet(Before(S, i)) /\ Cardinality(Before(S, i)) \in 0..(Cardinality(S) - 1)
  <2>1. Before(S, i) \subseteq S /\ i \notin Before(S, i)
    BY DEF Before
  <2>2. /\ IsFiniteSet(Before(S, i)) /\ Cardinality(Before(S, i)) \in Nat
        /\ Cardinality(Before(S, i)) < Cardinality(S)
    BY <1>1, <1>3, <2>1
  <2> QED
    BY <1>2, <2>2
<1>5. ASSUME NEW i \in S, NEW j \in S, i < j
      PROVE  Cardinality(Before(S, i)) < Cardinality(Before(S, j))
  <2>1. Before(S, i) \subseteq Before(S, j) /\ i \in Before(S, j) /\ i \notin Before(S, i)
    <3>1. \A x \in S : x \in Int
      OBVIOUS
    <3>2. \A x \in S : x < i => x < j
      BY <1>5, <3>1
    <3>3. ~(i < i)
      BY <3>1
    <3> QED
      BY <1>5, <3>2, <3>3 DEF Before
  <2> QED
    BY <1>3, <1>4, <2>1
<1>6. rank \in Injection(S, 0..(Cardinality(S) - 1))
  <2>1. rank \in [S -> 0..(Cardinality(S) - 1)]
    BY <1>4
  <2>2. ASSUME NEW i \in S, NEW j \in S, rank[i] = rank[j] PROVE i = j
    <3>1. rank[i] \in Nat /\ i \in Int /\ j \in Int
      BY <1>4
    <3>2. ~(i < j) /\ ~(j < i)
      BY <1>5, <2>2, <3>1
    <3> QED
      BY <3>1, <3>2
  <2> QED
    BY <2>1, <2>2 DEF Injection, IsInjective
<1>7. rank \in Surjection(S, 0..(Cardinality(S) - 1))
  <2>1. IsFiniteSet(0..(Cardinality(S) - 1)) /\ Cardinality(0..(Cardinality(S) - 1)) = Cardinality(S)
    BY <1>2, FS_Interval
  <2> HIDE DEF rank
  <2> QED
    BY <1>6, <2>1, FS_Injection
<1>8. ASSUME NEW k \in 1..Cardinality(S) PROVE \E i \in S : Cardinality(Before(S, i)) = k - 1
  <2>1. k - 1 \in 0..(Cardinality(S) - 1)
    BY <1>2
  <2> QED
    BY <1>7, <2>1 DEF Surjection
<1> QED
  BY <1>1, <1>2, <1>4, <1>5, <1>8

Cuts(path, slashes) == {0, Len(path) + 1} \cup {i \in DOMAIN path : path[i] \in slashes}

\* From one cut to the next.
Adjacent(cuts, a, b) == a \in cuts /\ b \in cuts /\ a < b /\ \A c \in cuts : c <= a \/ b <= c

\* A segment is what lies from one cut to the next, and all that does is one.
LEMMA SegmentsAre ==
  ASSUME NEW path \in Seq(Chars), NEW slashes
  PROVE  LET cuts == Cuts(path, slashes)
             s    == Segments(path, slashes)
         IN  /\ s \in Seq(Seq(Chars))
             /\ \A k \in 1..Len(s) : \E a, b \in cuts : Adjacent(cuts, a, b) /\ s[k] = SubSeq(path, a + 1, b - 1)
             /\ \A a, b \in cuts : Adjacent(cuts, a, b) =>
                  \E k \in 1..Len(s) : s[k] = SubSeq(path, a + 1, b - 1)
<1> DEFINE cuts == Cuts(path, slashes)
           n    == Cardinality(cuts)
           r(i) == Cardinality(Before(cuts, i))
           cut  == [k \in 1..n |-> CHOOSE i \in cuts : r(i) = k - 1]
           s    == Segments(path, slashes)
<1>1. cuts \subseteq 0..(Len(path) + 1) /\ Len(path) \in Nat
  BY DEF Cuts
<1>2. s = [k \in 1..(n - 1) |-> SubSeq(path, cut[k] + 1, cut[k + 1] - 1)]
  BY DEF Segments, Cuts, Before
<1> HIDE DEF cuts, s
<1>3. /\ n \in Nat /\ \A i \in cuts : r(i) \in 0..(n - 1)
      /\ \A i, j \in cuts : i < j => r(i) < r(j)
      /\ \A k \in 1..n : \E i \in cuts : r(i) = k - 1
  <2>1. Len(path) + 1 \in Nat
    BY <1>1
  <2> QED
    BY <1>1, <2>1, Ranks
<1>4. \A k \in 1..n : cut[k] \in cuts /\ r(cut[k]) = k - 1
  BY <1>3
<1> HIDE DEF r
<1>5. \A i \in cuts : i \in 0..(Len(path) + 1)
  BY <1>1
<1>6. ASSUME NEW i \in cuts PROVE r(i) + 1 \in 1..n /\ cut[r(i) + 1] = i
  <2> DEFINE k == r(i) + 1
  <2>1. k \in 1..n
    BY <1>3
  <2>2. cut[k] \in cuts /\ r(cut[k]) = k - 1
    BY <1>4, <2>1
  <2>3. r(cut[k]) = r(i)
    BY <1>3, <2>2
  <2> HIDE DEF cut
  <2>4. ~(cut[k] < i) /\ ~(i < cut[k])
    BY <1>3, <2>2, <2>3
  <2> QED
    BY <1>5, <2>1, <2>2, <2>4
<1> HIDE DEF cut, n
<1>7. ASSUME NEW k \in 1..(n - 1)
      PROVE  /\ k \in 1..n /\ k + 1 \in 1..n
             /\ Adjacent(cuts, cut[k], cut[k + 1])
             /\ SubSeq(path, cut[k] + 1, cut[k + 1] - 1) \in Seq(Chars)
  <2>1. k \in 1..n /\ k + 1 \in 1..n
    BY <1>3
  <2>2. cut[k] \in cuts /\ cut[k + 1] \in cuts /\ r(cut[k]) = k - 1 /\ r(cut[k + 1]) = k
    BY <1>4, <2>1
  <2>3. ASSUME NEW c \in cuts PROVE c <= cut[k] \/ cut[k + 1] <= c
    <3>1. CASE cut[k] < c /\ c < cut[k + 1]
      <4>1. r(c) \in Int /\ k - 1 < r(c) /\ r(c) < k
        BY <1>3, <2>2, <3>1
      <4> QED
        BY <4>1
    <3> QED
      BY <1>5, <2>2, <3>1
  <2>4. cut[k] < cut[k + 1]
    <3>1. ~(cut[k + 1] < cut[k]) /\ cut[k + 1] # cut[k]
      BY <1>3, <2>2
    <3> QED
      BY <1>5, <2>2, <3>1
  <2>5. Adjacent(cuts, cut[k], cut[k + 1])
    BY <2>2, <2>3, <2>4 DEF Adjacent
  <2>6. cut[k] \in 0..(Len(path) + 1) /\ cut[k + 1] \in 0..(Len(path) + 1)
    BY <1>5, <2>2
  <2>7. SubSeq(path, cut[k] + 1, cut[k + 1] - 1) \in Seq(Chars)
    BY <1>1, <2>6
  <2> QED
    BY <2>1, <2>5, <2>7
<1>8. s \in Seq(Seq(Chars)) /\ Len(s) = n - 1
  <2>1. 0 \in cuts
    BY DEF cuts, Cuts
  <2>2. n - 1 \in Nat
    BY <1>3, <2>1
  <2>3. \A k \in 1..(n - 1) : s[k] \in Seq(Chars)
    BY <1>2, <1>7
  <2>4. \A m \in Nat : \A f : f = [k \in 1..m |-> f[k]] /\ (\A k \in 1..m : f[k] \in Seq(Chars)) =>
          f \in Seq(Seq(Chars)) /\ Len(f) = m
    OBVIOUS
  <2>5. s = [k \in 1..(n - 1) |-> s[k]]
    BY <1>2
  <2> QED
    BY <2>2, <2>3, <2>4, <2>5
<1>9. ASSUME NEW k \in 1..Len(s)
      PROVE  \E a, b \in cuts : Adjacent(cuts, a, b) /\ s[k] = SubSeq(path, a + 1, b - 1)
  <2>1. k \in 1..(n - 1)
    BY <1>8
  <2>2. s[k] = SubSeq(path, cut[k] + 1, cut[k + 1] - 1)
    BY <1>2, <2>1
  <2>3. cut[k] \in cuts /\ cut[k + 1] \in cuts
    BY <1>4, <1>7, <2>1
  <2> QED
    BY <1>7, <2>1, <2>2, <2>3
<1>10. ASSUME NEW a \in cuts, NEW b \in cuts, Adjacent(cuts, a, b)
       PROVE  \E k \in 1..Len(s) : s[k] = SubSeq(path, a + 1, b - 1)
  <2> DEFINE k == r(a) + 1
  <2>1. k \in 1..n /\ cut[k] = a /\ r(b) + 1 \in 1..n /\ cut[r(b) + 1] = b
    BY <1>6
  <2>2. r(a) \in Nat /\ r(b) \in Nat /\ n \in Nat /\ r(a) < r(b)
    BY <1>3, <1>10 DEF Adjacent
  <2>3. k \in 1..(n - 1)
    BY <2>1, <2>2
  <2>4. Adjacent(cuts, cut[k], cut[k + 1]) /\ cut[k + 1] \in cuts
    BY <1>4, <1>7, <2>3
  <2>5. cut[k + 1] = b
    <3>1. a < b /\ b \in cuts /\ a < cut[k + 1]
      BY <1>10, <2>1, <2>4 DEF Adjacent
    <3>2. (cut[k + 1] <= a \/ b <= cut[k + 1]) /\ (b <= a \/ cut[k + 1] <= b)
      BY <1>10, <2>1, <2>4 DEF Adjacent
    <3> QED
      BY <1>5, <2>4, <3>1, <3>2
  <2>6. s[k] = SubSeq(path, a + 1, b - 1)
    BY <1>2, <2>1, <2>3, <2>5
  <2>7. k \in 1..Len(s)
    BY <1>8, <2>3
  <2> QED
    BY <2>6, <2>7
<1> QED
  BY <1>8, <1>9, <1>10 DEF cuts, s

\* Without a dot segment, the URL parser has nothing to resolve.
LEMMA NothingResolved ==
  ASSUME NEW S, NEW s \in Seq(S), \A k \in 1..Len(s) : ~DotSegment(s[k])
  PROVE  Resolve(s) = s
<1> DEFINE N == Len(s)
           next(f) == [n \in 0..N |->
                        IF n = 0 THEN Nil
                        ELSE IF ~DotSegment(s[n]) THEN Append(f[n - 1], s[n])
                        ELSE IF Len(s[n]) = 2 /\ f[n - 1] # Nil THEN Front(f[n - 1]) ELSE f[n - 1]]
           g    == [n \in 0..N |-> SubSeq(s, 1, n)]
           path == CHOOSE f : f = next(f)
<1>1. N \in Nat
  OBVIOUS
<1>2. \A k \in 1..N : SubSeq(s, 1, k) = Append(SubSeq(s, 1, k - 1), s[k])
  <2>1. ASSUME NEW k \in 1..N PROVE SubSeq(s, 1, k) = Append(SubSeq(s, 1, k - 1), s[k])
    OBVIOUS
  <2> QED
    BY <2>1
<1>3. g = next(g)
  <2>1. ASSUME NEW n \in 0..N PROVE g[n] = next(g)[n]
    <3>1. CASE n = 0
      <4>1. SubSeq(s, 1, 0) = <<>>
        OBVIOUS
      <4> QED
        BY <3>1, <4>1 DEF Nil
    <3>2. CASE n # 0
      <4>1. n \in 1..N /\ n - 1 \in 0..N
        BY <1>1, <3>2
      <4>2. g[n] = Append(g[n - 1], s[n])
        BY <1>2, <4>1
      <4>3. ~DotSegment(s[n])
        BY <4>1
      <4> HIDE DEF g
      <4> QED
        BY <3>2, <4>2, <4>3
    <3> QED
      BY <3>1, <3>2
  <2>2. DOMAIN g = 0..N /\ DOMAIN next(g) = 0..N
    OBVIOUS
  <2>3. g = [n \in 0..N |-> g[n]] /\ next(g) = [n \in 0..N |-> next(g)[n]]
    OBVIOUS
  <2> HIDE DEF g, next
  <2> QED
    BY <2>1, <2>3
<1>4. path = next(path)
  <2> HIDE DEF g, next
  <2> QED
    BY <1>3
<1>5. Resolve(s) = path[N]
  BY DEF Resolve
<1> HIDE DEF path
<1>6. path[0] = <<>> /\ \A n \in 1..N : path[n] = Append(path[n - 1], s[n])
  <2>1. \A n \in 0..N : path[n] = next(path)[n]
    <3> HIDE DEF next
    <3> QED
      BY <1>4
  <2>2. path[0] = <<>>
    <3>1. 0 \in 0..N
      BY <1>1
    <3> QED
      BY <2>1, <3>1 DEF Nil
  <2>3. ASSUME NEW n \in 1..N PROVE path[n] = Append(path[n - 1], s[n])
    <3>1. n \in 0..N /\ n # 0 /\ ~DotSegment(s[n])
      BY <1>1
    <3> QED
      BY <2>1, <3>1
  <2> QED
    BY <2>2, <2>3
<1>7. \A n \in 0..N : n \in {m \in 0..N : path[m] = SubSeq(s, 1, m)}
  <2> DEFINE T == {m \in 0..N : path[m] = SubSeq(s, 1, m)}
  <2>1. 0 \in T
    <3>1. SubSeq(s, 1, 0) = <<>>
      OBVIOUS
    <3>2. 0 \in 0..N
      BY <1>1
    <3> HIDE DEF N
    <3> QED
      BY <1>6, <3>1, <3>2
  <2>2. ASSUME NEW n \in 0..N - 1, n \in T PROVE n + 1 \in T
    <3>1. n + 1 \in 1..N /\ n + 1 \in 0..N /\ (n + 1) - 1 = n
      BY <1>1
    <3>2. path[n + 1] = Append(SubSeq(s, 1, n), s[n + 1])
      BY <1>6, <2>2, <3>1
    <3>3. SubSeq(s, 1, n + 1) = Append(SubSeq(s, 1, n), s[n + 1])
      BY <1>2, <3>1
    <3> QED
      BY <3>1, <3>2, <3>3
  <2> HIDE DEF T
  <2>3. \A n \in 0..N : n \in T
    BY <1>1, <2>1, <2>2, UpToInduction
  <2> QED
    BY <2>3 DEF T
<1>8. path[N] = SubSeq(s, 1, N)
  BY <1>1, <1>7
<1> QED
  BY <1>5, <1>8

\* What follows the base: two slashes, and an id that is no dot segment and has nothing that
\* the URL parser takes for anything else.
LEMMA EndpointIs ==
  ASSUME NEW id \in Seq(Chars), GistAllowed(id)
  PROVE  LET e == gistEndpoint(id)
         IN  /\ e \in Seq(Chars) /\ Len(e) >= 4
             /\ e[1] = "/" /\ e[2] = "gists" /\ e[3] = "/"
             /\ \A i \in 4..Len(e) : e[i] \notin Stops \cup Outer \cup {"TAB", "LF"}
             /\ ~DotSegment(SubSeq(e, 4, Len(e)))
<1> DEFINE u == trim(id)
           v == [i \in DOMAIN u |-> IF u[i] \in Unreserved THEN u[i] ELSE "encoded"]
           e == gistEndpoint(id)
<1>1. u \in Seq(Chars)
  BY TrimmedSeq DEF trim
<1>2. u # <<>> /\ u # <<".">> /\ u # <<".", ".">>
  BY DEF GistAllowed
<1>3. e = <<"/", "gists", "/">> \o v
  BY DEF gistEndpoint
<1> HIDE DEF u, e
<1>4. "encoded" \in Chars /\ "/" \in Chars /\ "gists" \in Chars
  BY DEF Chars
<1>5. v \in Seq(Chars) /\ Len(v) = Len(u) /\ Len(u) \in Nat \ {0}
  BY <1>1, <1>2, <1>4
<1>6. \A i \in 1..Len(u) : v[i] \in Unreserved \cup {"encoded"}
  BY <1>1
<1>7. \A i \in 1..Len(u) : v[i] = "." => u[i] = "."
  BY <1>1
<1> HIDE DEF v
<1>8. /\ e \in Seq(Chars) /\ Len(e) = Len(v) + 3
      /\ e[1] = "/" /\ e[2] = "gists" /\ e[3] = "/"
      /\ \A i \in 1..Len(v) : e[i + 3] = v[i]
  <2>1. \A x, y \in Chars : <<x, y, x>> \in Seq(Chars)
    OBVIOUS
  <2>2. <<"/", "gists", "/">> \in Seq(Chars)
    BY <1>4, <2>1
  <2>3. \A w \in Seq(Chars) : LET z == <<"/", "gists", "/">> \o w
                              IN  /\ Len(z) = Len(w) + 3 /\ z[1] = "/" /\ z[2] = "gists" /\ z[3] = "/"
                                  /\ \A i \in 1..Len(w) : z[i + 3] = w[i]
    OBVIOUS
  <2>4. \A w, z \in Seq(Chars) : w \o z \in Seq(Chars)
    OBVIOUS
  <2> QED
    BY <1>3, <1>5, <2>2, <2>3, <2>4
<1>9. ASSUME NEW i \in 4..Len(e)
      PROVE  e[i] \notin Stops \cup Outer \cup {"TAB", "LF"} /\ e[i] = v[i - 3] /\ i - 3 \in 1..Len(v)
  <2>1. i - 3 \in 1..Len(v) /\ (i - 3) + 3 = i
    BY <1>5, <1>8
  <2>2. e[i] \in Unreserved \cup {"encoded"} /\ e[i] = v[i - 3]
    BY <1>5, <1>6, <1>8, <2>1
  <2>3. \A c \in Unreserved \cup {"encoded"} : c \notin Stops \cup Outer \cup {"TAB", "LF"}
    BY DEF Unreserved, DigitChars, Stops, Slashes, Outer
  <2> QED
    BY <2>1, <2>2, <2>3
<1>10. ~DotSegment(SubSeq(e, 4, Len(e)))
  <2> DEFINE d == SubSeq(e, 4, Len(e))
  <2>1. Len(d) = Len(u) /\ \A i \in 1..Len(u) : d[i] = v[i]
    BY <1>5, <1>8
  <2>2. DOMAIN d = 1..Len(u)
    BY <1>5, <1>8
  <2> HIDE DEF d
  <2> SUFFICES ASSUME DotSegment(d) PROVE FALSE
    BY DEF d
  <2>3. Len(u) <= 2 /\ \A i \in 1..Len(u) : v[i] \in {".", "%2e"}
    BY <2>1, <2>2 DEF DotSegment
  <2>4. \A i \in 1..Len(u) : u[i] = "."
    <3>1. "%2e" \notin Unreserved \cup {"encoded"}
      BY DEF Unreserved, DigitChars
    <3> QED
      BY <1>6, <1>7, <2>3, <3>1
  <2>5. \A w \in Seq(Chars) : /\ Len(w) = 1 /\ w[1] = "." => w = <<".">>
                              /\ Len(w) = 2 /\ w[1] = "." /\ w[2] = "." => w = <<".", ".">>
    OBVIOUS
  <2>6. Len(u) = 1 \/ Len(u) = 2
    BY <1>5, <2>3
  <2> QED
    BY <1>1, <1>2, <2>4, <2>5, <2>6
<1> QED
  BY <1>5, <1>8, <1>9, <1>10 DEF e

\* A text up to the first of the stops.
LEMMA UntilIs ==
  ASSUME NEW t \in Seq(Chars), NEW stops, NEW e \in 1..(Len(t) + 1),
         \A i \in 1..(e - 1) : t[i] \notin stops,
         e = Len(t) + 1 \/ t[e] \in stops
  PROVE  Until(t, stops) = SubSeq(t, 1, e - 1)
<1> DEFINE ends == {i \in DOMAIN t : t[i] \in stops}
<1>1. CASE e = Len(t) + 1
  <2>1. ends = {}
    <3>1. \A i \in DOMAIN t : i \in 1..(e - 1)
      BY <1>1
    <3> QED
      BY <3>1
  <2>2. SubSeq(t, 1, e - 1) = t
    BY <1>1
  <2> QED
    BY <2>1, <2>2 DEF Until
<1>2. CASE e # Len(t) + 1
  <2>1. e \in ends /\ ends \subseteq Nat
    BY <1>2
  <2>2. \A y \in ends : e <= y
    OBVIOUS
  <2>3. Min(ends) = e
    <3> HIDE DEF ends
    <3> QED
      BY <2>1, <2>2, MinIs
  <2>4. ends # {}
    BY <2>1
  <2> QED
    BY <2>3, <2>4 DEF Until
<1> QED
  BY <1>1, <1>2

\* The path of a base URL, as its check sees it: it holds no backslash and no
\* dot segment.
LEMMA BasePath ==
  ASSUME NEW base \in Seq(Chars), base # <<>>, assertBaseUrlJoinsCleanly(base),
         NEW f \in 2..Len(base), base[f] \in Slashes, \A i \in 2..(f - 1) : base[i] \notin Slashes
  PROVE  /\ \A i \in f..Len(base) : base[i] # "\\"
         /\ \A a \in f..Len(base), b \in f..(Len(base) + 1) :
              /\ a < b /\ base[a] = "/" /\ (b = Len(base) + 1 \/ base[b] = "/")
              /\ \A i \in (a + 1)..(b - 1) : base[i] # "/"
              => ~Dots(SubSeq(base, a + 1, b - 1))
<1> DEFINE m == Len(base)
           w == Tail(base)
           path == SubSeq(base, f, m)
<1>1. w \in Seq(Chars) /\ Len(w) = m - 1 /\ \A i \in 1..(m - 1) : w[i] = base[i + 1]
  OBVIOUS
<1>2. Until(w, Slashes) = SubSeq(w, 1, (f - 1) - 1)
  <2>1. f - 1 \in 1..(Len(w) + 1) /\ w[f - 1] \in Slashes
    BY <1>1
  <2>2. \A i \in 1..((f - 1) - 1) : w[i] \notin Slashes
    <3>1. ASSUME NEW i \in 1..((f - 1) - 1) PROVE w[i] \notin Slashes
      <4>1. i \in 1..(m - 1) /\ i + 1 \in 2..(f - 1)
        OBVIOUS
      <4> QED
        BY <1>1, <4>1
    <3> QED
      BY <3>1
  <2> HIDE DEF w
  <2> QED
    BY <1>1, <2>1, <2>2, UntilIs
<1>3. Without(w, Until(w, Slashes)) = path
  <2>1. Len(SubSeq(w, 1, (f - 1) - 1)) = f - 2
    BY <1>1
  <2>2. SubSeq(w, f - 1, m - 1) = SubSeq(base, f, m)
    OBVIOUS
  <2> HIDE DEF w
  <2>3. Without(w, Until(w, Slashes)) = SubSeq(w, (f - 2) + 1, m - 1)
    BY <1>1, <1>2, <2>1 DEF Without
  <2>4. (f - 2) + 1 = f - 1
    OBVIOUS
  <2> QED
    BY <2>2, <2>3, <2>4
<1> HIDE DEF w
<1>4. /\ \A i \in DOMAIN path : path[i] # "\\"
      /\ \A k \in DOMAIN Segments(path, {"/"}) : ~Dots(Segments(path, {"/"})[k])
  BY <1>3 DEF assertBaseUrlJoinsCleanly, w
<1>5. /\ path \in Seq(Chars) /\ Len(path) = m - f + 1 /\ DOMAIN path = 1..(m - f + 1)
      /\ \A i \in f..m : path[i - f + 1] = base[i] /\ i - f + 1 \in DOMAIN path
  OBVIOUS
<1>6. m \in Nat /\ f \in Nat /\ f <= m
  OBVIOUS
<1>7. ASSUME NEW a \in f..m, NEW b \in f..(m + 1), a < b, base[a] = "/", b = m + 1 \/ base[b] = "/",
             \A i \in (a + 1)..(b - 1) : base[i] # "/"
      PROVE  ~Dots(SubSeq(base, a + 1, b - 1))
  <2> DEFINE p    == a - f + 1
             q    == b - f + 1
             cuts == Cuts(path, {"/"})
  <2>1. p \in cuts /\ q \in cuts /\ p < q
    <3>1. p \in DOMAIN path /\ path[p] = "/"
      BY <1>5, <1>7
    <3>2. q = Len(path) + 1 \/ (q \in DOMAIN path /\ path[q] = "/")
      <4>1. CASE b = m + 1
        BY <1>5, <1>6, <4>1
      <4>2. CASE b # m + 1
        <5>1. b \in f..m
          BY <1>6, <4>2
        <5> QED
          BY <1>5, <1>7, <4>2, <5>1
      <4> QED
        BY <4>1, <4>2
    <3>3. p < q
      BY <1>6, <1>7
    <3> HIDE DEF path
    <3> QED
      BY <3>1, <3>2, <3>3 DEF Cuts
  <2>2. ASSUME NEW c \in cuts PROVE c <= p \/ q <= c
    <3> SUFFICES ASSUME ~(c <= p \/ q <= c) PROVE FALSE
      OBVIOUS
    <3>1. c \in Int
      <4>1. Len(path) + 1 \in Int /\ DOMAIN path \subseteq Int
        BY <1>5
      <4> HIDE DEF path
      <4> QED
        BY <4>1 DEF Cuts
    <3>2. p < c /\ c < q /\ p >= 1
      BY <1>6, <3>1
    <3>3. c \in DOMAIN path /\ path[c] = "/"
      <4>1. c # 0 /\ c # Len(path) + 1
        BY <1>5, <1>6, <3>1, <3>2
      <4> HIDE DEF path
      <4> QED
        BY <4>1 DEF Cuts
    <3>4. c + f - 1 \in (a + 1)..(b - 1) /\ c + f - 1 \in f..m /\ (c + f - 1) - f + 1 = c
      BY <1>6, <3>1, <3>2
    <3>5. base[c + f - 1] = "/"
      BY <1>5, <3>3, <3>4
    <3> QED
      BY <1>7, <3>4, <3>5
  <2>3. Adjacent(cuts, p, q)
    BY <2>1, <2>2 DEF Adjacent
  <2>4. SubSeq(path, p + 1, q - 1) = SubSeq(base, a + 1, b - 1)
    <3>1. /\ p + 1 \in 1..(m + 1) /\ q - 1 \in 0..(m - f + 1)
          /\ p + 1 + f - 1 = a + 1 /\ q - 1 + f - 1 = b - 1
      BY <1>6
    <3>2. \A x \in 1..(m + 1), y \in 0..(m - f + 1) :
            SubSeq(SubSeq(base, f, m), x, y) = SubSeq(base, x + f - 1, y + f - 1)
      OBVIOUS
    <3> QED
      BY <3>1, <3>2
  <2> HIDE DEF path, p, q, cuts
  <2>5. PICK k \in 1..Len(Segments(path, {"/"})) : Segments(path, {"/"})[k] = SubSeq(path, p + 1, q - 1)
    <3>1. p \in cuts /\ q \in cuts
      BY <2>3 DEF Adjacent
    <3>2. \A x, y \in cuts : Adjacent(cuts, x, y) =>
            \E k \in 1..Len(Segments(path, {"/"})) : Segments(path, {"/"})[k] = SubSeq(path, x + 1, y - 1)
      <4>1. path \in Seq(Chars)
        BY <1>5
      <4> QED
        BY <4>1, SegmentsAre DEF cuts
    <3> QED
      BY <2>3, <3>1, <3>2
  <2>6. k \in DOMAIN Segments(path, {"/"})
    <3>1. Segments(path, {"/"}) \in Seq(Seq(Chars))
      BY <1>5, SegmentsAre
    <3> QED
      BY <2>5, <3>1
  <2> QED
    BY <1>4, <2>4, <2>5, <2>6
<1>8. ASSUME NEW i \in f..m PROVE base[i] # "\\"
  BY <1>4, <1>5
<1> QED
  BY <1>7, <1>8

\* What follows the slashes after the scheme, when there is nothing to trim.
LEMMA RestOf ==
  ASSUME NEW t \in Seq(Chars), NEW s \in 2..Len(t),
         \A i \in 1..Len(t) : t[i] \notin {"TAB", "LF"},
         t[1] \notin Outer, t[Len(t)] \notin Outer,
         t[s] \notin Slashes, \A i \in 2..(s - 1) : t[i] \in Slashes
  PROVE  /\ Rest(t) = SubSeq(t, s, Len(t))
         /\ Min({i \in DOMAIN Tail(t) : Tail(t)[i] \notin Slashes}) = s - 1
<1> DEFINE u == Tail(t)
           starts == {i \in DOMAIN u : u[i] \notin Slashes}
<1>1. OneLine(t) = t
  BY DEF OneLine
<1>2. Trimmed(t, Outer) = t
  <2>1. t # <<>>
    OBVIOUS
  <2> QED
    BY <2>1, TrimmedWhole
<1>3. /\ u \in Seq(Chars) /\ Len(u) = Len(t) - 1 /\ DOMAIN u = 1..(Len(t) - 1)
      /\ \A i \in 1..(Len(t) - 1) : u[i] = t[i + 1]
  OBVIOUS
<1>4. s - 1 \in starts /\ starts \subseteq Nat
  <2>1. s - 1 \in 1..(Len(t) - 1) /\ u[s - 1] = t[s]
    BY <1>3
  <2> QED
    BY <1>3, <2>1
<1>5. \A y \in starts : s - 1 <= y
  <2>1. ASSUME NEW y \in 1..(Len(t) - 1), y < s - 1 PROVE u[y] \in Slashes
    <3>1. y + 1 \in 2..(s - 1) /\ u[y] = t[y + 1]
      BY <1>3, <2>1
    <3> QED
      BY <3>1
  <2> QED
    BY <1>3, <2>1
<1>6. Min(starts) = s - 1
  <2> HIDE DEF starts
  <2> QED
    BY <1>4, <1>5, MinIs
<1>7. starts # {}
  BY <1>4
<1>8. Rest(t) = SubSeq(u, s - 1, Len(u))
  BY <1>1, <1>2, <1>6, <1>7 DEF Rest
<1>9. SubSeq(u, s - 1, Len(t) - 1) = SubSeq(t, s, Len(t))
  OBVIOUS
<1> QED
  BY <1>3, <1>6, <1>8, <1>9

\* The base, then the endpoint.
LEMMA TextIs ==
  ASSUME NEW base \in Seq(Chars), base # <<>>, base[1] = "http://", assertBaseUrlJoinsCleanly(base),
         NEW id \in Seq(Chars), GistAllowed(id)
  PROVE  LET t == base \o gistEndpoint(id)
             m == Len(base)
         IN  /\ t \in Seq(Chars) /\ m \in Nat \ {0} /\ Len(t) \in Nat /\ Len(t) >= m + 4
             /\ t[1] = "http://" /\ t[m + 1] = "/" /\ t[m + 2] = "gists" /\ t[m + 3] = "/"
             /\ \A i \in 1..m : t[i] = base[i]
             /\ \A i \in 1..Len(t) : t[i] \notin {"TAB", "LF", "?", "#"}
             /\ \A i \in (m + 1)..Len(t) : t[i] # "\\" /\ t[i] \notin Outer
             /\ \A i \in (m + 4)..Len(t) : t[i] # "/"
             /\ ~DotSegment(SubSeq(t, m + 4, Len(t)))
<1> DEFINE g == gistEndpoint(id)
           m == Len(base)
           t == base \o g
<1>1. /\ g \in Seq(Chars) /\ Len(g) >= 4
      /\ g[1] = "/" /\ g[2] = "gists" /\ g[3] = "/"
      /\ \A i \in 4..Len(g) : g[i] \notin Stops \cup Outer \cup {"TAB", "LF"}
      /\ ~DotSegment(SubSeq(g, 4, Len(g)))
  BY EndpointIs
<1> HIDE DEF g
<1>2. \A i \in DOMAIN base : base[i] \notin {"TAB", "LF", "?", "#"}
  BY DEF assertBaseUrlJoinsCleanly
<1>3. /\ t \in Seq(Chars) /\ m \in Nat \ {0} /\ Len(t) = m + Len(g) /\ Len(g) \in Nat
      /\ \A i \in 1..m : t[i] = base[i]
      /\ \A i \in 1..Len(g) : t[m + i] = g[i]
  BY <1>1
<1>4. SubSeq(t, m + 4, m + Len(g)) = SubSeq(g, 4, Len(g))
  BY <1>1
<1> HIDE DEF t
<1>5. ASSUME NEW i \in (m + 1)..Len(t) PROVE i - m \in 1..Len(g) /\ t[i] = g[i - m]
  <2>1. i - m \in 1..Len(g) /\ m + (i - m) = i
    BY <1>3
  <2> QED
    BY <1>3, <2>1
<1>6. \A j \in 1..Len(g) : j = 1 \/ j = 2 \/ j = 3 \/ j \in 4..Len(g)
  BY <1>3
<1>7. \A j \in 1..Len(g) : g[j] \notin {"TAB", "LF", "?", "#"} /\ g[j] # "\\" /\ g[j] \notin Outer
  BY <1>1, <1>6 DEF Stops, Slashes, Outer
<1>8. \A i \in 1..Len(t) : t[i] \notin {"TAB", "LF", "?", "#"}
  <2>1. ASSUME NEW i \in 1..Len(t) PROVE t[i] \notin {"TAB", "LF", "?", "#"}
    <3>1. i \in 1..m \/ i \in (m + 1)..Len(t)
      BY <1>3
    <3>2. DOMAIN base = 1..m
      OBVIOUS
    <3> QED
      BY <1>2, <1>3, <1>5, <1>7, <3>1, <3>2
  <2> QED
    BY <2>1
<1>9. t[m + 1] = "/" /\ t[m + 2] = "gists" /\ t[m + 3] = "/" /\ t[1] = "http://"
  BY <1>1, <1>3
<1>10. \A i \in (m + 4)..Len(t) : t[i] # "/"
  <2>1. ASSUME NEW i \in (m + 4)..Len(t) PROVE t[i] # "/"
    <3>1. i \in (m + 1)..Len(t) /\ i - m \in 4..Len(g)
      BY <1>3
    <3> QED
      BY <1>1, <1>5, <3>1 DEF Stops, Slashes
  <2> QED
    BY <2>1
<1>11. \A i \in (m + 1)..Len(t) : t[i] # "\\" /\ t[i] \notin Outer
  BY <1>5, <1>7
<1>12. ~DotSegment(SubSeq(t, m + 4, Len(t)))
  BY <1>1, <1>3, <1>4
<1>13. Len(t) \in Nat /\ Len(t) >= m + 4
  BY <1>1, <1>3
<1> QED
  BY <1>3, <1>8, <1>9, <1>10, <1>11, <1>12, <1>13 DEF t, g

\* The first slash after the scheme.
LEMMA FirstSlash ==
  ASSUME NEW base \in Seq(Chars), NEW e \in 2..Len(base), base[e] \in Slashes
  PROVE  \E f \in 2..e : base[f] \in Slashes /\ \A i \in 2..(f - 1) : base[i] \notin Slashes
<1> DEFINE P == {i \in 2..e : base[i] \in Slashes}
<1>1. P \subseteq Nat /\ e \in P
  OBVIOUS
<1>2. PICK f \in P : \A y \in P : f <= y
  <2> HIDE DEF P
  <2> QED
    BY <1>1, LeastElement
<1>3. ASSUME NEW i \in 2..(f - 1) PROVE base[i] \notin Slashes
  <2>1. f \in 2..e /\ i \in 2..e /\ ~(f <= i)
    BY <1>2
  <2> QED
    BY <1>2, <2>1
<1> QED
  BY <1>2, <1>3

\* The URL parser and a reader see the same path, which begins with a slash.
LEMMA PathIs ==
  ASSUME NEW base \in Seq(Chars), base # <<>>, base[1] = "http://", assertBaseUrlJoinsCleanly(base),
         NEW id \in Seq(Chars), GistAllowed(id)
  PROVE  LET t == base \o gistEndpoint(id)
         IN  \E e \in 3..(Len(base) + 3) :
               /\ t[e] = "/"
               /\ Requested(t) = Resolve(Segments(SubSeq(t, e, Len(t)), {"/"}))
               /\ Written(t) = Segments(SubSeq(t, e, Len(t)), {"/"})
<1> DEFINE m == Len(base)
           t == base \o gistEndpoint(id)
           n == Len(t)
<1>1. /\ t \in Seq(Chars) /\ m \in Nat \ {0} /\ n \in Nat /\ n >= m + 4
      /\ t[1] = "http://" /\ t[m + 1] = "/" /\ t[m + 2] = "gists" /\ t[m + 3] = "/"
      /\ \A i \in 1..m : t[i] = base[i]
      /\ \A i \in 1..n : t[i] \notin {"TAB", "LF", "?", "#"}
      /\ \A i \in (m + 1)..n : t[i] # "\\" /\ t[i] \notin Outer
  BY TextIs
<1> HIDE DEF t
<1>2. PICK s \in 2..(m + 2) : t[s] \notin Slashes /\ \A i \in 2..(s - 1) : t[i] \in Slashes
  <2> DEFINE P == {i \in 2..(m + 2) : t[i] \notin Slashes}
  <2>1. m + 2 \in P /\ P \subseteq Nat
    BY <1>1 DEF Slashes
  <2>2. PICK x \in P : \A y \in P : x <= y
    <3> HIDE DEF P
    <3> QED
      BY <2>1, LeastElement
  <2>3. ASSUME NEW i \in 2..(x - 1) PROVE t[i] \in Slashes
    <3>1. x \in 2..(m + 2) /\ i \in 2..(m + 2) /\ ~(x <= i)
      BY <1>1, <2>2
    <3> QED
      BY <2>2, <3>1
  <2> QED
    BY <2>2, <2>3
<1>3. PICK e \in s..(m + 3) : t[e] \in Stops /\ \A i \in s..(e - 1) : t[i] \notin Stops
  <2> DEFINE P == {i \in s..(m + 3) : t[i] \in Stops}
  <2>1. m + 3 \in P /\ P \subseteq Nat
    BY <1>1 DEF Stops, Slashes
  <2>2. PICK x \in P : \A y \in P : x <= y
    <3> HIDE DEF P
    <3> QED
      BY <2>1, LeastElement
  <2>3. ASSUME NEW i \in s..(x - 1) PROVE t[i] \notin Stops
    <3>1. x \in s..(m + 3) /\ i \in s..(m + 3) /\ ~(x <= i)
      BY <1>1, <2>2
    <3> QED
      BY <2>2, <3>1
  <2> QED
    BY <2>2, <2>3
<1>4. e \in 3..(m + 3) /\ e # s /\ t[e] \in Slashes /\ s \in 2..n /\ e \in 1..n
  <2>1. s \in 1..n /\ e \in 1..n
    BY <1>1
  <2>2. t[s] \notin Stops
    BY <1>1, <1>2, <2>1 DEF Stops
  <2>3. t[e] \in Slashes
    BY <1>1, <1>3, <2>1 DEF Stops
  <2> QED
    BY <1>1, <1>3, <2>1, <2>2, <2>3
<1>5. \A i \in e..n : t[i] # "\\"
  <2>1. CASE e <= m
    <3>1. e \in 2..m /\ base[e] \in Slashes
      BY <1>1, <1>4, <2>1
    <3>2. PICK f \in 2..e : base[f] \in Slashes /\ \A i \in 2..(f - 1) : base[i] \notin Slashes
      BY <3>1, FirstSlash
    <3>3. f \in 2..m
      BY <1>1, <3>1
    <3>4. \A i \in f..m : base[i] # "\\"
      BY <3>2, <3>3, BasePath
    <3>5. ASSUME NEW i \in e..n PROVE t[i] # "\\"
      <4>1. (i \in f..m /\ i \in 1..m) \/ i \in (m + 1)..n
        BY <1>1, <1>4, <3>2
      <4> QED
        BY <1>1, <3>4, <4>1
    <3> QED
      BY <3>5
  <2>2. CASE e > m
    <3>1. \A i \in e..n : i \in (m + 1)..n
      BY <1>1, <1>4, <2>2
    <3> QED
      BY <1>1, <3>1
  <2> QED
    BY <1>1, <1>4, <2>1, <2>2
<1>6. t[e] = "/"
  BY <1>1, <1>4, <1>5 DEF Slashes
<1>7. t[1] \notin Outer /\ t[n] \notin Outer
  <2>1. n \in (m + 1)..n
    BY <1>1
  <2>2. "http://" \notin Outer
    BY DEF Outer
  <2> QED
    BY <1>1, <2>1, <2>2
<1> DEFINE p == SubSeq(t, e, n)
<1>8. Rest(t) = SubSeq(t, s, n) /\ Min({i \in DOMAIN Tail(t) : Tail(t)[i] \notin Slashes}) = s - 1
  <2>1. t[1] \notin Outer /\ t[n] \notin Outer
    BY <1>7
  <2> QED
    BY <1>1, <1>2, <1>4, <2>1, RestOf
<1>9. Authority(t) = SubSeq(t, s, e - 1)
  <2>1. t[1] \notin Outer /\ t[n] \notin Outer
    BY <1>7
  <2>2. n \in 2..n /\ s \in 2..n /\ e \in s..(n + 1)
    BY <1>1, <1>4
  <2>3. \A i \in (n + 1)..n : t[i] \in Outer
    BY <1>1
  <2>4. \A i \in 1..n : t[i] \notin {"TAB", "LF"}
    BY <1>1
  <2>5. t \in Seq(Chars) /\ t[s] \notin Slashes /\ \A i \in 2..(s - 1) : t[i] \in Slashes
    BY <1>1, <1>2
  <2>6. \A i \in s..(e - 1) : t[i] \notin Stops
    BY <1>3
  <2>7. e = n + 1 \/ t[e] \in Stops
    BY <1>3
  <2> QED
    BY <2>1, <2>2, <2>3, <2>4, <2>5, <2>6, <2>7, AuthorityOf
<1>10. Without(SubSeq(t, s, n), SubSeq(t, s, e - 1)) = p
  <2>1. /\ Len(SubSeq(t, s, e - 1)) = e - s /\ Len(SubSeq(t, s, n)) = n - s + 1
        /\ SubSeq(SubSeq(t, s, n), (e - s) + 1, n - s + 1) = SubSeq(t, e, n)
    BY <1>1, <1>4
  <2> QED
    BY <2>1 DEF Without
<1>11. /\ p \in Seq(Chars) /\ Len(p) = n - e + 1 /\ DOMAIN p = 1..Len(p)
       /\ \A i \in 1..Len(p) : p[i] = t[e + i - 1]
  BY <1>1, <1>4
<1>12. \A i \in 1..Len(p) : p[i] \notin {"?", "#"} /\ p[i] # "\\"
  <2>1. ASSUME NEW i \in 1..Len(p) PROVE p[i] \notin {"?", "#"} /\ p[i] # "\\"
    <3>1. e + i - 1 \in e..n /\ e + i - 1 \in 1..n
      BY <1>1, <1>4, <1>11
    <3> QED
      BY <1>1, <1>5, <1>11, <3>1
  <2> QED
    BY <2>1
<1> HIDE DEF p
<1>13. Until(p, {"?", "#"}) = p
  <2>1. {i \in DOMAIN p : p[i] \in {"?", "#"}} = {}
    BY <1>11, <1>12
  <2> QED
    BY <2>1 DEF Until
<1>14. Segments(p, Slashes) = Segments(p, {"/"})
  <2>1. {i \in DOMAIN p : p[i] \in Slashes} = {i \in DOMAIN p : p[i] \in {"/"}}
    BY <1>11, <1>12 DEF Slashes
  <2> DEFINE cut(C) == [k \in 1..Cardinality(C) |-> CHOOSE i \in C : Cardinality({j \in C : j < i}) = k - 1]
             of(C)  == [k \in 1..(Cardinality(C) - 1) |-> SubSeq(p, cut(C)[k] + 1, cut(C)[k + 1] - 1)]
  <2>2. \A slashes : Segments(p, slashes) = of({0, Len(p) + 1} \cup {i \in DOMAIN p : p[i] \in slashes})
    BY DEF Segments
  <2> HIDE DEF of
  <2> QED
    BY <2>1, <2>2
<1>15. Requested(t) = Resolve(Segments(p, {"/"}))
  BY <1>8, <1>9, <1>10, <1>13, <1>14 DEF Requested
<1>16. Written(t) = Segments(p, {"/"})
  <2>1. SubSeq(Tail(t), s - 1, n - 1) = SubSeq(t, s, n)
    BY <1>1, <1>4
  <2> QED
    BY <1>8, <1>9, <1>10, <2>1 DEF Written
<1> QED
  BY <1>4, <1>6, <1>15, <1>16 DEF p, t

\* A text is a base with slashes and an id below it.
Below(t, base) ==
  LET m == Len(base)
  IN  /\ t \in Seq(Chars) /\ Len(t) >= m + 4
      /\ t[m + 1] = "/" /\ t[m + 2] = "gists" /\ t[m + 3] = "/"
      /\ \A i \in 1..m : t[i] = base[i]
      /\ \A i \in (m + 4)..Len(t) : t[i] # "/"
      /\ ~DotSegment(SubSeq(t, m + 4, Len(t)))

\* No segment of its path is a dot segment.
LEMMA NoDots ==
  ASSUME NEW base \in Seq(Chars), base # <<>>, assertBaseUrlJoinsCleanly(base),
         NEW t, Below(t, base), NEW e \in 3..(Len(base) + 3), t[e] = "/"
  PROVE  LET s == Segments(SubSeq(t, e, Len(t)), {"/"})
         IN  \A k \in 1..Len(s) : ~DotSegment(s[k])
<1> DEFINE m == Len(base)
           n == Len(t)
           p == SubSeq(t, e, n)
           cuts == Cuts(p, {"/"})
<1>1. /\ t \in Seq(Chars) /\ m \in Nat \ {0} /\ n \in Nat /\ n >= m + 4
      /\ t[m + 1] = "/" /\ t[m + 2] = "gists" /\ t[m + 3] = "/"
      /\ \A i \in 1..m : t[i] = base[i]
      /\ \A i \in (m + 4)..n : t[i] # "/"
      /\ ~DotSegment(SubSeq(t, m + 4, n))
  BY DEF Below
<1>2. e \in 3..n /\ e \in 3..(m + 3)
  BY <1>1
<1>3. /\ p \in Seq(Chars) /\ Len(p) = n - e + 1 /\ DOMAIN p = 1..(n - e + 1)
      /\ \A i \in 1..(n - e + 1) : p[i] = t[e + i - 1]
  BY <1>1, <1>2
<1>4. \A x \in 1..(n - e + 2), y \in 0..(n - e + 1) :
          SubSeq(p, x, y) = SubSeq(t, e + x - 1, e + y - 1)
  BY <1>1, <1>2
<1> HIDE DEF p
<1> SUFFICES ASSUME NEW k \in 1..Len(Segments(p, {"/"})) PROVE ~DotSegment(Segments(p, {"/"})[k])
  BY DEF p
<1>5. PICK a \in cuts, b \in cuts : Adjacent(cuts, a, b) /\ Segments(p, {"/"})[k] = SubSeq(p, a + 1, b - 1)
  <2>1. p \in Seq(Chars)
    BY <1>3
  <2> HIDE DEF cuts
  <2>2. \A j \in 1..Len(Segments(p, {"/"})) :
          \E a, b \in cuts : Adjacent(cuts, a, b) /\ Segments(p, {"/"})[j] = SubSeq(p, a + 1, b - 1)
    BY <2>1, SegmentsAre DEF cuts
  <2> QED
    BY <2>2
<1>6. \A c : c \in cuts <=> c = 0 \/ c = n - e + 2 \/ (c \in 1..(n - e + 1) /\ t[e + c - 1] = "/")
  <2>1. \A c : c \in cuts <=> c = 0 \/ c = Len(p) + 1 \/ (c \in DOMAIN p /\ p[c] = "/")
    BY DEF Cuts
  <2>2. Len(p) + 1 = n - e + 2
    BY <1>1, <1>3
  <2> HIDE DEF cuts
  <2> QED
    BY <1>3, <2>1, <2>2
<1> HIDE DEF cuts
<1>7. /\ a \in 0..(n - e + 1) /\ b \in 1..(n - e + 2) /\ a < b
      /\ \A c \in cuts : c <= a \/ b <= c
  <2>1. a \in 0..(n - e + 2) /\ b \in 0..(n - e + 2)
    <3>1. a \in cuts /\ b \in cuts /\ n - e + 2 \in Nat /\ n - e + 1 \in Nat
      BY <1>1, <1>2, <1>5
    <3>2. \A c \in cuts : c = 0 \/ c = n - e + 2 \/ c \in 1..(n - e + 1)
      BY <1>6
    <3>3. \A c : c = 0 \/ c = n - e + 2 \/ c \in 1..(n - e + 1) => c \in 0..(n - e + 2)
      BY <1>1, <1>2
    <3> QED
      BY <3>1, <3>2, <3>3
  <2> QED
    BY <1>1, <1>5, <2>1 DEF Adjacent
<1> DEFINE A == e + a - 1
           B == e + b - 1
           d == SubSeq(t, A + 1, B - 1)
<1>8. SubSeq(p, a + 1, b - 1) = d
  <2>2. a + 1 \in 1..(n - e + 2) /\ b - 1 \in 0..(n - e + 1)
    BY <1>1, <1>7
  <2>3. e + (a + 1) - 1 = A + 1 /\ e + (b - 1) - 1 = B - 1
    BY <1>1, <1>7
  <2> QED
    BY <1>4, <2>2, <2>3
\* Between the two cuts there is no slash.
<1>9. /\ A \in (e - 1)..n /\ B \in e..(n + 1) /\ A < B
      /\ a # 0 => A \in e..n /\ t[A] = "/"
      /\ B = n + 1 \/ (B \in e..n /\ t[B] = "/")
      /\ \A i \in (A + 1)..(B - 1) : i \in e..n /\ t[i] # "/"
  <2>1. /\ A \in (e - 1)..n /\ B \in e..(n + 1) /\ A < B
        /\ (a # 0 => A \in e..n) /\ (b # n - e + 2 => B \in e..n)
    <3>1. e \in Nat /\ n \in Nat /\ e <= n /\ a \in Int /\ b \in Int
      BY <1>2, <1>1, <1>7
    <3>2. a >= 0 /\ a <= n - e + 1 /\ b >= 1 /\ b <= n - e + 2 /\ a < b
      BY <1>2, <1>1, <1>7
    <3> HIDE DEF n
    <3> QED
      BY <3>1, <3>2
  <2>2. a # 0 => t[A] = "/"
    <3>1. a # n - e + 2
      BY <1>1, <1>7
    <3> QED
      BY <1>6, <3>1
  <2>3. b = n - e + 2 \/ t[B] = "/"
    <3>1. b # 0
      BY <1>1, <1>7
    <3> QED
      BY <1>6, <3>1
  <2>4. b = n - e + 2 => B = n + 1
    BY <1>1
  <2>5. ASSUME NEW i \in (A + 1)..(B - 1) PROVE i \in e..n /\ t[i] # "/"
    <3>1. i \in e..n /\ i - e + 1 \in 1..(n - e + 1) /\ e + (i - e + 1) - 1 = i
      BY <1>1, <1>7
    <3>2. ~(i - e + 1 <= a \/ b <= i - e + 1)
      BY <1>1, <1>7
    <3>3. i - e + 1 \notin cuts
      BY <1>7, <3>2
    <3> QED
      BY <1>6, <3>1, <3>3
  <2> QED
    BY <2>1, <2>2, <2>3, <2>4, <2>5
<1>10. m \in Nat /\ e \in Nat /\ n \in Nat /\ A \in Int /\ B \in Int
  BY <1>2, <1>1, <1>9
<1> HIDE DEF A, B
<1>11. /\ d \in Seq(Chars) /\ Len(d) = B - A - 1 /\ DOMAIN d = 1..(B - A - 1)
       /\ \A i \in 1..(B - A - 1) : d[i] = t[A + i]
  <2>1. A + 1 \in 1..(n + 1) /\ B - 1 \in 0..n /\ A < B
    BY <1>2, <1>9, <1>10
  <2> QED
    BY <1>1, <1>10, <2>1
<1> SUFFICES ASSUME DotSegment(d) PROVE FALSE
  BY <1>5, <1>8
<1>12. A + 1 # B /\ \A i \in (A + 1)..(B - 1) : t[i] \in {".", "%2e"}
  <2>1. d # <<>> /\ \A i \in 1..(B - A - 1) : d[i] \in {".", "%2e"}
    BY <1>11 DEF DotSegment, Nil
  <2>2. A + 1 # B
    BY <1>11, <1>10, <2>1
  <2>3. ASSUME NEW i \in (A + 1)..(B - 1) PROVE t[i] \in {".", "%2e"}
    <3>1. i - A \in 1..(B - A - 1) /\ A + (i - A) = i
      BY <1>10
    <3> QED
      BY <1>11, <2>1, <3>1
  <2> QED
    BY <2>2, <2>3
<1>13. A + 1 \in (A + 1)..(B - 1) /\ A + 1 \in e..n /\ t[A + 1] # "/"
  BY <1>9, <1>10, <1>12
<1>14. A \in e..n /\ t[A] = "/"
  <2>1. a # 0
    <3> SUFFICES ASSUME a = 0 PROVE FALSE
      OBVIOUS
    <3>1. A + 1 = e
      BY <1>1 DEF A
    <3> QED
      BY <1>13, <3>1
  <2> QED
    BY <1>9, <2>1
<1>15. CASE A <= m
  <2>1. B <= m + 1
    <3> SUFFICES ASSUME B > m + 1 PROVE FALSE
      BY <1>10
    <3>1. m + 1 \in (A + 1)..(B - 1)
      BY <1>10, <1>15
    <3> QED
      BY <1>1, <1>9, <3>1
  <2>2. A \in 2..m /\ base[A] = "/" /\ base[A] \in Slashes
    BY <1>1, <1>10, <1>14, <1>15 DEF Slashes
  <2>3. PICK f \in 2..A : base[f] \in Slashes /\ \A i \in 2..(f - 1) : base[i] \notin Slashes
    BY <2>2, FirstSlash
  <2>4. f \in 2..m /\ A \in f..m /\ B \in f..(m + 1)
    BY <1>9, <1>10, <2>1, <2>2, <2>3
  <2>5. B = m + 1 \/ base[B] = "/"
    <3>1. B # m + 1 => B \in 1..m /\ B # n + 1
      BY <1>1, <1>10, <2>4
    <3> QED
      BY <1>1, <1>9, <3>1
  <2>6. \A i \in (A + 1)..(B - 1) : i \in 1..m /\ base[i] = t[i]
    BY <1>1, <1>10, <2>1, <2>2
  <2>7. \A i \in (A + 1)..(B - 1) : base[i] # "/"
    BY <1>9, <2>6
  <2> DEFINE w == SubSeq(base, A + 1, B - 1)
  <2>8. ~Dots(w)
    BY <1>9, <2>2, <2>3, <2>4, <2>5, <2>7, BasePath
  <2>9. /\ Len(w) = B - A - 1 /\ DOMAIN w = 1..(B - A - 1)
        /\ \A i \in 1..(B - A - 1) : w[i] = base[A + i] /\ A + i \in (A + 1)..(B - 1)
    BY <1>9, <1>10, <2>2, <2>4
  <2> HIDE DEF w
  <2>10. \A i \in 1..(B - A - 1) : w[i] \in {".", "%2e"}
    BY <1>12, <2>6, <2>9
  <2>11. Len(w) \in 1..2
    <3>1. Len(d) <= 2
      BY DEF DotSegment
    <3> QED
      BY <1>9, <1>11, <1>10, <1>12, <2>9, <3>1
  <2> QED
    BY <2>8, <2>9, <2>10, <2>11 DEF Dots
<1>16. CASE A > m
  <2>1. A = m + 1 \/ A = m + 3
    <3>1. A \in Int /\ m \in Nat /\ n \in Nat /\ A <= n /\ A > m
      BY <1>10, <1>14, <1>16
    <3>2. A = m + 1 \/ A = m + 2 \/ A = m + 3 \/ A \in (m + 4)..n
      BY <3>1
    <3>3. A # m + 2
      BY <1>1, <1>14
    <3> QED
      BY <1>1, <1>14, <3>2, <3>3
  <2>2. CASE A = m + 1
    <3>1. t[A + 1] = "gists"
      <4>1. A + 1 = m + 2
        BY <1>10, <2>2
      <4> QED
        BY <1>1, <4>1
    <3> QED
      BY <1>12, <1>13, <3>1
  <2>3. CASE A = m + 3
    <3>1. B = n + 1
      <4> SUFFICES ASSUME B # n + 1 PROVE FALSE
        OBVIOUS
      <4>1. B \in (m + 4)..n /\ t[B] = "/"
        BY <1>9, <1>10, <2>3
      <4> QED
        BY <1>1, <4>1
    <3>2. d = SubSeq(t, m + 4, n)
      <4>1. A + 1 = m + 4 /\ B - 1 = n
        BY <1>1, <1>10, <2>3, <3>1
      <4> QED
        BY <4>1
    <3> QED
      BY <1>1, <3>2
  <2> QED
    BY <2>1, <2>2, <2>3
<1> QED
  BY <1>10, <1>15, <1>16

\* What is requested is what is written.
LEMMA RequestedAsWritten ==
  ASSUME NEW base \in Seq(Chars), base # <<>>, base[1] = "http://", assertBaseUrlJoinsCleanly(base),
         NEW id \in Seq(Chars), GistAllowed(id)
  PROVE  Requested(base \o gistEndpoint(id)) = Written(base \o gistEndpoint(id))
<1> DEFINE t == base \o gistEndpoint(id)
<1>1. PICK e \in 3..(Len(base) + 3) :
        /\ t[e] = "/"
        /\ Requested(t) = Resolve(Segments(SubSeq(t, e, Len(t)), {"/"}))
        /\ Written(t) = Segments(SubSeq(t, e, Len(t)), {"/"})
  BY PathIs
<1> DEFINE p == SubSeq(t, e, Len(t))
           s == Segments(p, {"/"})
<1>2. \A k \in 1..Len(s) : ~DotSegment(s[k])
  <2>1. Below(t, base)
    BY TextIs DEF Below
  <2> HIDE DEF t
  <2> QED
    BY <1>1, <2>1, NoDots
<1>3. s \in Seq(Seq(Chars))
  <2>1. p \in Seq(Chars)
    <3>1. t \in Seq(Chars) /\ Len(base) \in Nat /\ Len(t) \in Nat
      BY TextIs
    <3> HIDE DEF t
    <3> QED
      BY <3>1
  <2> HIDE DEF p
  <2> QED
    BY <2>1, SegmentsAre
<1> HIDE DEF s
<1>4. Resolve(s) = s
  BY <1>2, <1>3, NothingResolved
<1> QED
  BY <1>1, <1>4 DEF s

--------------------------------------------------------------------------------
(* The texts of a github-gists configuration.                              *)

\* What fetch sends of a header holds nothing that the header does not.
LEMMA HeaderSent ==
  ASSUME NEW v \in Seq(Chars), NEW banned, \A i \in DOMAIN v : v[i] \notin banned
  PROVE  \A i \in DOMAIN Sent(v) : Sent(v)[i] \notin banned
<1> DEFINE u == Sent(v)
<1>1. CASE u = <<>>
  <2>1. \A i \in DOMAIN <<>> : FALSE
    OBVIOUS
  <2> HIDE DEF u
  <2>2. \A i \in DOMAIN u : FALSE
    BY <1>1, <2>1
  <2> QED
    BY <2>2 DEF u
<1>2. ASSUME NEW a \in 1..Len(v), NEW b \in 1..Len(v), u = SubSeq(v, a, b)
      PROVE  \A i \in DOMAIN u : u[i] \notin banned
  <2>1. \A i \in DOMAIN SubSeq(v, a, b) : SubSeq(v, a, b)[i] \notin banned
    OBVIOUS
  <2> HIDE DEF u
  <2> QED
    BY <1>2, <2>1
<1>3. u = <<>> \/ \E a, b \in 1..Len(v) : u = SubSeq(v, a, b)
  <2>1. \A chars : Trimmed(v, chars) = <<>> \/ \E a, b \in 1..Len(v) : Trimmed(v, chars) = SubSeq(v, a, b)
    BY TrimmedCases
  <2>2. PICK chars : u = Trimmed(v, chars)
    BY Zenon DEF Sent
  <2> HIDE DEF u
  <2> QED
    BY <2>1, <2>2
<1> QED
  BY <1>1, <1>2, <1>3

\* It is all of a text that is trimmed.
LEMMA TokenSent ==
  ASSUME NEW v \in Seq(Chars), v = trim(v)
  PROVE  Sent(v) = v
<1> DEFINE outer == {" ", "TAB", "LF"}
<1>1. outer \subseteq JsSpace
  BY DEF JsSpace
<1>2. Sent(v) = Trimmed(v, outer)
  BY DEF Sent
<1> HIDE DEF outer
<1>3. CASE v = <<>>
  BY <1>2, <1>3, NothingTrimmed
<1>4. CASE v # <<>>
  <2>1. PICK a \in 1..Len(v), b \in 1..Len(v) :
          a <= b /\ v[a] \notin JsSpace /\ v[b] \notin JsSpace /\ v = SubSeq(v, a, b)
    BY <1>4, TrimmedCases DEF trim
  <2>2. Len(SubSeq(v, a, b)) = b - a + 1
    BY <2>1
  <2>3. a = 1 /\ b = Len(v)
    BY <2>1, <2>2
  <2> QED
    BY <1>1, <1>2, <1>4, <2>1, <2>3, TrimmedWhole
<1> QED
  BY <1>3, <1>4

\* A server with a base URL is github-gists.
LEMMA HasBase ==
  ASSUME Configured, Up, Has("baseUrl")
  PROVE  /\ server = "github-gists" /\ validateGistsConfig(config)
         /\ {OrEmpty(config.token), config.baseUrl, config.userAgent} \subseteq Seq(Chars)
         /\ env # Nil /\ env["BASE_URL"] # Unset =>
              trim(env["BASE_URL"]) \in {<<>>, config.baseUrl, config.baseUrl \o <<"/">>}
<1>1. server \in Servers
  BY DEF Configured
<1>2. CASE env = Nil
  <2>1. config \in Configs[server] /\ Valid(server, config)
    BY <1>2 DEF Configured, Up, Serves, Refused
  <2>2. server # "filesystem-sandbox" /\ DOMAIN config = Fields[server]
    BY <1>1, <2>1, StartsAssumption
  <2>3. server = "github-gists"
    BY <1>1, <2>2 DEF Has, Fields, Servers
  <2>4. {OrEmpty(config.token), config.baseUrl, config.userAgent} \subseteq Seq(STRING)
    BY <2>1, <2>3, StartsAssumption
  <2>5. \A w \in Seq(STRING) : w \in Seq(Chars)
    BY DEF Chars
  <2>6. {OrEmpty(config.token), config.baseUrl, config.userAgent} \subseteq Seq(Chars)
    BY <2>4, <2>5
  <2> QED
    BY <1>2, <2>1, <2>3, <2>6 DEF Valid
<1>3. CASE env # Nil
  <2>1. config = Read(server) /\ Serves(config)
    BY <1>3 DEF Configured, Up, Starting, Refused, Serves
  <2>2. server = "github-gists"
    <3>1. CASE server = "filesystem-sandbox"
      <4>1. DOMAIN config = {"roots", "maxBytes", "readOnly"}
        BY <1>3, <2>1, <3>1, FsNumber DEF Read
      <4> QED
        BY <4>1 DEF Has
    <3>2. CASE server = "postgres-readonly"
      <4>1. DOMAIN config = {"database", "maxRows", "statementTimeoutMs", "maxResultBytes"}
        BY <1>3, <2>1, <3>2, PgNumbers DEF Read
      <4> QED
        BY <4>1 DEF Has
    <3>3. CASE server = "internal-tools-bridge"
      <4>1. DOMAIN config = {"cwd", "allowlist", "timeoutMs", "maxOutputBytes"}
        BY <1>3, <2>1, <3>3, BridgeNumber
      <4> QED
        BY <4>1 DEF Has
    <3> QED
      BY <1>1, <3>1, <3>2, <3>3 DEF Servers
  <2>3. config = readGistsConfigFromEnv(env)
    BY <2>1, <2>2 DEF Read
  <2>4. validateGistsConfig(config)
    BY <1>3, <2>1, <2>2, <2>3, GistsNumber
  <2> DEFINE tok       == trim(OrEmpty(env["GITHUB_TOKEN"]))
             base      == OrDefault(trim(OrEmpty(env["BASE_URL"])), <<"http://", "h">>)
             joinable  == IF Last(base) = "/" THEN Front(base) ELSE base
             userAgent == OrDefault(trim(OrEmpty(env["USER_AGENT"])), <<"a">>)
  <2>5. /\ config.token = (IF tok = <<>> THEN Unset ELSE tok)
        /\ config.baseUrl = joinable /\ config.userAgent = userAgent
        /\ base[1] = "http://" /\ assertBaseUrlIsFetchable(base) /\ assertBaseUrlJoinsCleanly(joinable)
    <3>1. Serves(readGistsConfigFromEnv(env))
      BY <2>1, <2>3
    <3> QED
      BY <2>3, <3>1 DEF readGistsConfigFromEnv, Serves, Refused
  <2>6. \A v \in {"GITHUB_TOKEN", "BASE_URL", "USER_AGENT"} : trim(OrEmpty(env[v])) \in Seq(Chars)
    <3>1. \A v \in {"GITHUB_TOKEN", "BASE_URL", "USER_AGENT"} : env[v] \in Seq(Chars) \cup {Unset}
      BY <1>3, <2>2 DEF Configured, Vars, Servers
    <3>2. <<>> \in Seq(Chars)
      OBVIOUS
    <3>3. \A v \in {"GITHUB_TOKEN", "BASE_URL", "USER_AGENT"} : OrEmpty(env[v]) \in Seq(Chars)
      BY <3>1, <3>2 DEF OrEmpty
    <3> QED
      BY <3>3, TrimmedSeq DEF trim
  <2>7. base \in Seq(Chars) /\ base # <<>> /\ userAgent \in Seq(Chars)
    <3>1. \A x, y \in Chars : <<x, y>> \in Seq(Chars) /\ <<x, y>> # <<>> /\ <<x>> \in Seq(Chars)
      OBVIOUS
    <3>2. "http://" \in Chars /\ "h" \in Chars /\ "a" \in Chars
      BY DEF Chars
    <3>3. <<"http://", "h">> \in Seq(Chars) /\ <<"http://", "h">> # <<>> /\ <<"a">> \in Seq(Chars)
      BY <3>1, <3>2
    <3> QED
      BY <2>6, <3>3 DEF OrDefault
  <2>8. joinable = base \/ base = joinable \o <<"/">>
    <3>1. CASE Last(base) = "/"
      <4>1. joinable = SubSeq(base, 1, Len(base) - 1) /\ base[Len(base)] = "/"
        BY <3>1 DEF Front, Last
      <4>2. base = SubSeq(base, 1, Len(base) - 1) \o <<base[Len(base)]>>
        <5> HIDE DEF base
        <5> QED
          BY <2>7
      <4> QED
        BY <4>1, <4>2
    <3> QED
      BY <3>1
  <2>9. env["BASE_URL"] # Unset => trim(env["BASE_URL"]) = <<>> \/ trim(env["BASE_URL"]) = base
    BY DEF OrEmpty, OrDefault
  <2> HIDE DEF tok, base, userAgent
  <2>10. joinable \in Seq(Chars)
    BY <2>5, <2>7, SlashCut
  <2>11. OrEmpty(config.token) \in Seq(Chars)
    <3>1. tok \in Seq(Chars)
      BY <2>6 DEF tok
    <3>2. OrEmpty(config.token) \in {<<>>, tok}
      BY <2>5 DEF OrEmpty
    <3>3. <<>> \in Seq(Chars)
      OBVIOUS
    <3> QED
      BY <3>1, <3>2, <3>3
  <2> HIDE DEF joinable
  <2> QED
    BY <2>2, <2>4, <2>5, <2>7, <2>8, <2>9, <2>10, <2>11
<1> QED
  BY <1>2, <1>3

\* What was read or built so is what is requested.
LEMMA RequestsTrue == Configured => RequestTrue
<1> SUFFICES ASSUME Configured, Up, Has("baseUrl")
             PROVE  /\ \A id \in Ids : GistAllowed(id) =>
                         Requested(config.baseUrl \o gistEndpoint(id)) = Written(config.baseUrl \o gistEndpoint(id))
                    /\ env # Nil /\ env["BASE_URL"] # Unset =>
                         trim(env["BASE_URL"]) \in {<<>>, config.baseUrl, config.baseUrl \o <<"/">>}
                    /\ \A v \in {OrEmpty(config.token), config.userAgent} :
                         \A i \in DOMAIN Sent(v) : Sent(v)[i] \notin {"LF", "NUL"} \cup Wide
                    /\ config.token # Unset => Sent(config.token) = config.token /\ config.token # Nil
  BY DEF RequestTrue
<1>1. /\ validateGistsConfig(config)
      /\ OrEmpty(config.token) \in Seq(Chars) /\ config.baseUrl \in Seq(Chars) /\ config.userAgent \in Seq(Chars)
      /\ env # Nil /\ env["BASE_URL"] # Unset =>
           trim(env["BASE_URL"]) \in {<<>>, config.baseUrl, config.baseUrl \o <<"/">>}
  BY HasBase
<1>2. ASSUME NEW id \in Ids, GistAllowed(id)
      PROVE  Requested(config.baseUrl \o gistEndpoint(id)) = Written(config.baseUrl \o gistEndpoint(id))
  <2>1. id \in Seq(Chars)
    <3>1. \A w \in Seq(STRING) : w \in Seq(Chars)
      BY DEF Chars
    <3> QED
      BY <3>1, StartsAssumption
  <2>2. config.baseUrl # <<>> /\ config.baseUrl[1] = "http://" /\ assertBaseUrlJoinsCleanly(config.baseUrl)
    BY <1>1 DEF validateGistsConfig
  <2> QED
    BY <1>1, <1>2, <2>1, <2>2, RequestedAsWritten
<1>3. ASSUME NEW v \in {OrEmpty(config.token), config.userAgent}
      PROVE  \A i \in DOMAIN Sent(v) : Sent(v)[i] \notin {"LF", "NUL"} \cup Wide
  <2> DEFINE banned == {"LF", "NUL"} \cup Wide
  <2>1. \A i \in DOMAIN v : v[i] \notin banned
    BY <1>1, <1>3 DEF validateGistsConfig, assertTokenIsHeaderSafe, assertUserAgentIsHeaderSafe, Controls, OrEmpty
  <2> HIDE DEF banned
  <2>2. \A i \in DOMAIN Sent(v) : Sent(v)[i] \notin banned
    BY <1>1, <2>1, HeaderSent
  <2> QED
    BY <2>2 DEF banned
<1>4. ASSUME config.token # Unset PROVE Sent(config.token) = config.token /\ config.token # Nil
  <2>1. config.token \in Seq(Chars) /\ config.token = trim(config.token) /\ config.token # <<>>
    BY <1>1, <1>4 DEF validateGistsConfig, OrEmpty
  <2> QED
    BY <2>1, TokenSent DEF Nil
<1> QED
  BY <1>1, <1>2, <1>3, <1>4

\* A github-gists server that serves asks GitHub for the path that its base URL
\* and an id name, whatever the two hold, and sends the headers that were
\* configured (assertBaseUrlIsFetchable, assertBaseUrlJoinsCleanly, gistEndpoint,
\* assertTokenIsHeaderSafe, assertUserAgentIsHeaderSafe).
THEOREM RequestsKept == LifeSpec => []RequestTrue
<1>1. BootSpec => []Configured
  BY ConfiguredInit, ConfiguredStep, PTL DEF BootSpec
<1> QED
  BY <1>1, LifeBoots, RequestsTrue, PTL

--------------------------------------------------------------------------------
(* The text of an error: texts put together from pieces.                   *)

Chain(p, k, g) == g[0] = <<>> /\ \A i \in 1..k : g[i] = g[i - 1] \o p[i]

\* The pieces up to each one, joined.
Joining(p) ==
  CHOOSE f : f = [i \in 1..Len(p) |-> IF i = 1 THEN p[i] ELSE f[i - 1] \o p[i]]

\* FlattenSeq joins the pieces one by one.
LEMMA FlattenIs ==
  ASSUME NEW p, Len(p) # 0
  PROVE  Response!FlattenSeq(p) = Joining(p)[Len(p)]
BY DEF Response!FlattenSeq, Joining

\* The pieces up to each one are those before it, and it.
LEMMA Joined ==
  ASSUME NEW S, NEW p \in Seq(Seq(S)), Len(p) # 0
  PROVE  /\ Joining(p)[1] = p[1]
         /\ \A i \in 2..Len(p) : Joining(p)[i] = Joining(p)[i - 1] \o p[i]
<1> DEFINE N == Len(p)
           K == {k \in 0..N : \E g \in [0..k -> Seq(S)] : Chain(p, k, g)}
<1>1. N \in Nat \ {0} /\ \A i \in 1..N : p[i] \in Seq(S)
  OBVIOUS
<1> HIDE DEF N
<1>2. 0 \in K
  <2> DEFINE g == [i \in 0..0 |-> <<>>]
  <2>1. Chain(p, 0, g) /\ g \in [0..0 -> Seq(S)]
    BY DEF Chain
  <2> HIDE DEF g
  <2>2. \E w \in [0..0 -> Seq(S)] : Chain(p, 0, w)
    BY <2>1
  <2> QED
    BY <1>1, <2>2
<1>3. ASSUME NEW k \in 0..(N - 1), k \in K PROVE k + 1 \in K
  <2>1. PICK g \in [0..k -> Seq(S)] : Chain(p, k, g)
    BY <1>3
  <2> DEFINE h == [i \in 0..(k + 1) |-> IF i = k + 1 THEN g[k] \o p[k + 1] ELSE g[i]]
  <2>2. g[k] \in Seq(S) /\ p[k + 1] \in Seq(S)
    BY <1>1
  <2>3. h \in [0..(k + 1) -> Seq(S)]
    BY <1>1, <2>2
  <2>4. h[0] = <<>>
    BY <1>1, <2>1 DEF Chain
  <2>5. ASSUME NEW i \in 1..(k + 1) PROVE h[i] = h[i - 1] \o p[i]
    <3>1. CASE i = k + 1
      <4>1. i - 1 = k /\ k \in 0..(k + 1) /\ k # k + 1
        BY <1>1, <3>1
      <4>2. h[i] = g[k] \o p[k + 1] /\ h[k] = g[k]
        BY <1>1, <3>1, <4>1
      <4> QED
        BY <3>1, <4>1, <4>2
    <3>2. CASE i # k + 1
      <4>1. i \in 1..k /\ i - 1 \in 0..k /\ i - 1 # k + 1
        BY <1>1, <3>2
      <4>2. h[i] = g[i] /\ h[i - 1] = g[i - 1]
        BY <1>1, <4>1
      <4> QED
        BY <2>1, <4>1, <4>2 DEF Chain
    <3> QED
      BY <3>1, <3>2
  <2>6. Chain(p, k + 1, h)
    BY <2>4, <2>5 DEF Chain
  <2> HIDE DEF h
  <2>7. \E w \in [0..(k + 1) -> Seq(S)] : Chain(p, k + 1, w)
    BY <2>3, <2>6
  <2> QED
    BY <1>1, <2>7
<1>4. N \in K
  <2>1. \A n \in 0..N - 1 : n \in K => n + 1 \in K
    BY <1>3
  <2> HIDE DEF K
  <2>2. \A n \in 0..N : n \in K
    BY <1>1, <1>2, <2>1, UpToInduction
  <2> QED
    BY <1>1, <2>2
<1>5. PICK g \in [0..N -> Seq(S)] : Chain(p, N, g)
  BY <1>4
<1> DEFINE P(v) == v = [i \in 1..N |-> IF i = 1 THEN p[i] ELSE v[i - 1] \o p[i]]
           w == [i \in 1..N |-> g[i]]
<1>6. P(w)
  <2>1. ASSUME NEW i \in 1..N PROVE w[i] = IF i = 1 THEN p[i] ELSE w[i - 1] \o p[i]
    <3>1. g[i] = g[i - 1] \o p[i] /\ g[0] = <<>> /\ p[i] \in Seq(S)
      BY <1>1, <1>5 DEF Chain
    <3>2. CASE i = 1
      <4>1. <<>> \o p[1] = p[1]
        BY <3>1, <3>2
      <4>2. i - 1 = 0
        BY <3>2
      <4>3. g[i] = g[0] \o p[i]
        BY <3>1, <4>2
      <4> QED
        BY <3>1, <3>2, <4>1, <4>3
    <3>3. CASE i # 1
      <4>1. i - 1 \in 1..N
        BY <1>1, <3>3
      <4> QED
        BY <3>1, <3>3, <4>1
    <3> QED
      BY <3>2, <3>3
  <2> QED
    BY <2>1
<1> DEFINE v == Joining(p)
<1>7. P(v)
  <2>1. v = CHOOSE u : P(u)
    BY DEF Joining, N
  <2> HIDE DEF P, v, w
  <2> QED
    BY <1>6, <2>1
<1>8. \A i \in 1..N : v[i] = IF i = 1 THEN p[i] ELSE v[i - 1] \o p[i]
  <2> HIDE DEF v
  <2> QED
    BY <1>7
<1> HIDE DEF v
<1>9. v[1] = p[1]
  BY <1>1, <1>8
<1>10. ASSUME NEW i \in 2..N PROVE v[i] = v[i - 1] \o p[i]
  <2>1. i \in 1..N /\ i # 1
    BY <1>1
  <2> QED
    BY <1>8, <2>1
<1> QED
  BY <1>9, <1>10 DEF N, v

\* Whatever each piece adds to, the whole has.
LEMMA FlattenKeeps ==
  ASSUME NEW S, NEW p \in Seq(Seq(S)), NEW I,
         <<0, <<>>>> \in I,
         \A k \in 0..Len(p) - 1, u \in Seq(S) : <<k, u>> \in I => <<k + 1, u \o p[k + 1]>> \in I
  PROVE  <<Len(p), Response!FlattenSeq(p)>> \in I
<1> DEFINE N == Len(p)
           v == Joining(p)
<1>1. N \in Nat /\ \A i \in 1..N : p[i] \in Seq(S)
  OBVIOUS
<1>2. CASE N = 0
  <2>1. p = <<>> /\ Response!FlattenSeq(p) = p
    BY <1>2 DEF Response!FlattenSeq
  <2> QED
    BY <1>2, <2>1
<1>3. CASE N # 0
  <2>1. v[1] = p[1] /\ \A i \in 2..N : v[i] = v[i - 1] \o p[i]
    BY <1>3, Joined
  <2> HIDE DEF v, N
  <2> DEFINE T == {k \in 0..N : k = 0 \/ (v[k] \in Seq(S) /\ <<k, v[k]>> \in I)}
  <2>2. 0 \in T
    BY <1>1
  <2>3. ASSUME NEW k \in 0..N - 1, k \in T PROVE k + 1 \in T
    <3>1. k + 1 \in 1..N /\ p[k + 1] \in Seq(S)
      BY <1>1
    <3>2. CASE k = 0
      <4>1. <<0 + 1, <<>> \o p[0 + 1]>> \in I
        <5>1. <<>> \in Seq(S) /\ 0 \in 0..N - 1
          BY <3>2
        <5> QED
          BY <5>1 DEF N
      <4>2. p[1] \in Seq(S)
        BY <3>1, <3>2
      <4>3. <<>> \o p[1] = p[1]
        BY <4>2
      <4>4. 0 + 1 = 1 /\ k + 1 = 1 /\ 1 \in 0..N
        BY <1>1, <3>1, <3>2
      <4>5. <<1, v[1]>> \in I /\ v[1] \in Seq(S)
        BY <2>1, <4>1, <4>2, <4>3, <4>4
      <4> QED
        BY <4>4, <4>5
    <3>3. CASE k # 0
      <4>1. v[k] \in Seq(S) /\ <<k, v[k]>> \in I
        BY <2>3, <3>3
      <4>2. k + 1 \in 2..N /\ (k + 1) - 1 = k
        BY <1>1, <3>3
      <4>3. v[k + 1] = v[k] \o p[k + 1]
        BY <2>1, <4>2
      <4>4. <<k + 1, v[k] \o p[k + 1]>> \in I
        BY <4>1 DEF N
      <4>5. v[k + 1] \in Seq(S)
        BY <3>1, <4>1, <4>3
      <4>6. k + 1 \in 0..N /\ <<k + 1, v[k + 1]>> \in I
        BY <1>1, <4>2, <4>3, <4>4
      <4> QED
        BY <4>5, <4>6
    <3> QED
      BY <3>2, <3>3
  <2>4. \A n \in 0..N : n \in T
    <3>1. \A n \in 0..N - 1 : n \in T => n + 1 \in T
      BY <2>3
    <3> HIDE DEF T
    <3> QED
      BY <1>1, <2>2, <3>1, UpToInduction
  <2>5. <<N, v[N]>> \in I
    BY <1>1, <1>3, <2>4
  <2>6. Response!FlattenSeq(p) = v[N]
    BY <1>3, FlattenIs DEF v, N
  <2> QED
    BY <2>5, <2>6 DEF N
<1> QED
  BY <1>2, <1>3

Raw   == {"x", "high", "low", "t", "k"}
Units == Raw \cup {"[", "r", "]", "...", "s", "f", "b"}

\* No character is cut in two, and no token.
Paired(u) == \A i \in 1..Len(u) : u[i] = "high" => i < Len(u) /\ u[i + 1] = "low"
Tokens(u) == \A i \in 1..Len(u) :
  /\ u[i] = "t" => i < Len(u) /\ u[i + 1] = "k"
  /\ u[i] = "k" => i > 1 /\ u[i - 1] = "t"

Lacks(u, c) == \A i \in 1..Len(u) : u[i] # c

\* What a text is that is put together from two.
LEMMA Appended ==
  ASSUME NEW S, NEW u \in Seq(S), NEW q \in Seq(S)
  PROVE  /\ u \o q \in Seq(S) /\ Len(u \o q) = Len(u) + Len(q)
         /\ Len(u) \in Nat /\ Len(q) \in Nat
         /\ \A i \in 1..Len(u) : (u \o q)[i] = u[i]
         /\ \A i \in 1..Len(q) : (u \o q)[Len(u) + i] = q[i]
         /\ \A i \in 1..(Len(u) + Len(q)) : i \in 1..Len(u) \/ \E j \in 1..Len(q) : i = Len(u) + j
<1>1. \A i \in 1..(Len(u) + Len(q)) : i \in 1..Len(u) \/ \E j \in 1..Len(q) : i = Len(u) + j
  <2> SUFFICES ASSUME NEW i \in 1..(Len(u) + Len(q)), i \notin 1..Len(u) PROVE \E j \in 1..Len(q) : i = Len(u) + j
    OBVIOUS
  <2>1. i - Len(u) \in 1..Len(q) /\ i = Len(u) + (i - Len(u))
    OBVIOUS
  <2> QED
    BY <2>1
<1> QED
  BY <1>1

\* One more piece leaves the characters and tokens whole.
LEMMA PieceKeeps ==
  ASSUME NEW u \in Seq(Raw), Paired(u), Tokens(u), NEW q \in {<<"x">>, <<"high", "low">>, <<"t", "k">>}
  PROVE  u \o q \in Seq(Raw) /\ Paired(u \o q) /\ Tokens(u \o q)
<1> DEFINE w == u \o q
           n == Len(u)
<1>1. q \in Seq(Raw) /\ Len(q) \in 1..2 /\ q[1] \in {"x", "high", "t"} /\ (q[1] = "x" => Len(q) = 1)
      /\ (q[1] = "high" => Len(q) = 2 /\ q[2] = "low") /\ (q[1] = "t" => Len(q) = 2 /\ q[2] = "k")
  <2>1. CASE q = <<"x">>
    BY <2>1 DEF Raw
  <2>2. CASE q = <<"high", "low">>
    BY <2>2 DEF Raw
  <2>3. CASE q = <<"t", "k">>
    BY <2>3 DEF Raw
  <2> QED
    BY <2>1, <2>2, <2>3
<1>2. /\ w \in Seq(Raw) /\ Len(w) = n + Len(q) /\ n \in Nat
      /\ \A i \in 1..n : w[i] = u[i]
      /\ \A i \in 1..Len(q) : w[n + i] = q[i]
      /\ \A i \in 1..(n + Len(q)) : i \in 1..n \/ \E j \in 1..Len(q) : i = n + j
  BY <1>1, Appended
<1> HIDE DEF w, n
<1>3. ASSUME NEW i \in 1..Len(w)
      PROVE  /\ w[i] = "high" => i < Len(w) /\ w[i + 1] = "low"
             /\ w[i] = "t" => i < Len(w) /\ w[i + 1] = "k"
             /\ w[i] = "k" => i > 1 /\ w[i - 1] = "t"
  <2>1. CASE i \in 1..n
    <3>1. w[i] = u[i] /\ (i < n => w[i + 1] = u[i + 1]) /\ (i > 1 => w[i - 1] = u[i - 1]) /\ n < Len(w)
      BY <1>1, <1>2, <2>1
    <3>2. /\ u[i] = "high" => i < n /\ u[i + 1] = "low"
          /\ u[i] = "t" => i < n /\ u[i + 1] = "k"
          /\ u[i] = "k" => i > 1 /\ u[i - 1] = "t"
      BY <2>1 DEF Paired, Tokens, n
    <3> QED
      BY <1>1, <1>2, <2>1, <3>1, <3>2
  <2>2. CASE \E j \in 1..Len(q) : i = n + j
    <3>1. PICK j \in 1..Len(q) : i = n + j
      BY <2>2
    <3>2. w[i] = q[j]
      BY <1>2, <3>1
    <3>3. CASE j = 1
      <4>1. Len(q) = 2 => w[i + 1] = q[2] /\ i < Len(w)
        <5>1. Len(q) = 2 => i + 1 = n + 2 /\ 2 \in 1..Len(q)
          BY <1>1, <1>2, <3>1, <3>3
        <5> QED
          BY <1>1, <1>2, <3>1, <3>3, <5>1
      <4> QED
        BY <1>1, <3>2, <3>3, <4>1
    <3>4. CASE j # 1
      <4>1. j = 2 /\ Len(q) = 2 /\ i - 1 = n + 1 /\ i > 1
        BY <1>1, <1>2, <3>1, <3>4
      <4>2. w[i - 1] = q[1]
        BY <1>2, <4>1
      <4> QED
        BY <1>1, <3>2, <4>1, <4>2
    <3> QED
      BY <3>3, <3>4
  <2> QED
    BY <1>2, <2>1, <2>2
<1> QED
  BY <1>2, <1>3 DEF Paired, Tokens, w

\* An upstream text is put together from whole characters and tokens.
LEMMA TextsWhole ==
  ASSUME MaxPieces \in Nat, NEW t \in Response!Texts
  PROVE  t \in Seq(Raw) /\ Paired(t) /\ Tokens(t)
<1> DEFINE pieces == {<<"x">>, <<"high", "low">>, <<"t", "k">>}
<1>1. PICK p \in Response!SeqOf(pieces, MaxPieces) : t = Response!FlattenSeq(p)
  BY DEF Response!Texts, Response!Pair, Response!Token
<1>2. p \in Seq(pieces)
  <2> HIDE DEF pieces
  <2> QED
    BY DEF Response!SeqOf
<1>3. pieces \subseteq Seq(Raw)
  BY DEF Raw
<1> HIDE DEF pieces
<1>4. p \in Seq(Seq(Raw)) /\ \A i \in 1..Len(p) : p[i] \in pieces
  BY <1>2, <1>3
<1> DEFINE I == {z \in Nat \X Seq(Raw) : Paired(z[2]) /\ Tokens(z[2])}
<1>5. <<0, <<>>>> \in I
  <2>1. <<>> \in Seq(Raw) /\ Paired(<<>>) /\ Tokens(<<>>)
    BY DEF Paired, Tokens
  <2> QED
    BY <2>1
<1>6. ASSUME NEW k \in 0..Len(p) - 1, NEW u \in Seq(Raw), <<k, u>> \in I PROVE <<k + 1, u \o p[k + 1]>> \in I
  <2>1. Paired(u) /\ Tokens(u) /\ k + 1 \in 1..Len(p) /\ k + 1 \in Nat
    BY <1>6
  <2>2. p[k + 1] \in pieces
    BY <1>4, <2>1
  <2>3. u \o p[k + 1] \in Seq(Raw) /\ Paired(u \o p[k + 1]) /\ Tokens(u \o p[k + 1])
    BY <2>1, <2>2, PieceKeeps DEF pieces
  <2> QED
    BY <2>1, <2>3
<1>7. <<Len(p), t>> \in I
  <2> HIDE DEF I
  <2> QED
    BY <1>1, <1>4, <1>5, <1>6, FlattenKeeps
<1> QED
  BY <1>7

\* Without a token in it, a text is left as it is.
LEMMA NothingRedacted ==
  ASSUME NEW S, NEW u \in Seq(S), Lacks(u, "t"), NEW known
  PROVE  Response!redactToken(u, known) = u
<1> DEFINE p == [i \in DOMAIN u |-> CASE Response!Occurs(u, i) -> Response!Redacted
                                      [] Response!Occurs(u, i - 1) -> <<>>
                                      [] OTHER -> <<u[i]>>]
<1>1. Response!redactToken(u, known) = IF known THEN Response!FlattenSeq(p) ELSE u
  BY DEF Response!redactToken
<1>2. \A i : ~Response!Occurs(u, i)
  BY DEF Response!Occurs, Response!Token, Lacks
<1>3. \A i \in DOMAIN u : p[i] = <<u[i]>>
  BY <1>2
<1>4. p = [i \in 1..Len(u) |-> <<u[i]>>]
  BY <1>2
<1> HIDE DEF p
<1>5. p \in Seq(Seq(S)) /\ Len(p) = Len(u)
  BY <1>4
<1> DEFINE I == {z \in Nat \X Seq(S) : z[1] <= Len(u) /\ z[2] = SubSeq(u, 1, z[1])}
<1>6. <<0, <<>>>> \in I
  <2> DEFINE e == SubSeq(u, 1, 0)
  <2>1. <<>> \in Seq(S) /\ e = <<>> /\ 0 <= Len(u)
    OBVIOUS
  <2>2. e \in Seq(S) /\ e = SubSeq(u, 1, 0)
    BY <2>1
  <2> HIDE DEF e
  <2>3. <<0, e>> \in I
    BY <2>1, <2>2
  <2> QED
    BY <2>1, <2>3
<1>7. ASSUME NEW k \in 0..Len(p) - 1, NEW w \in Seq(S), <<k, w>> \in I PROVE <<k + 1, w \o p[k + 1]>> \in I
  <2>1. w = SubSeq(u, 1, k) /\ k + 1 \in 1..Len(u)
    BY <1>5, <1>7
  <2>2. p[k + 1] = <<u[k + 1]>>
    BY <1>4, <2>1
  <2>3. SubSeq(u, 1, k) \o <<u[k + 1]>> = SubSeq(u, 1, k + 1)
    BY <2>1
  <2>4. w \o p[k + 1] = SubSeq(u, 1, k + 1)
    BY <2>1, <2>2, <2>3
  <2>5. SubSeq(u, 1, k + 1) \in Seq(S) /\ k + 1 \in Nat /\ k + 1 <= Len(u)
    BY <2>1
  <2> QED
    BY <2>4, <2>5
<1>8. <<Len(p), Response!FlattenSeq(p)>> \in I
  <2> HIDE DEF I
  <2> QED
    BY <1>5, <1>6, <1>7, FlattenKeeps
<1>9. Response!FlattenSeq(p) = SubSeq(u, 1, Len(u))
  BY <1>5, <1>8
<1>10. SubSeq(u, 1, Len(u)) = u
  OBVIOUS
<1> QED
  BY <1>1, <1>9, <1>10

Safe == {"x", "high", "low", "[", "r", "]"}

\* redactToken leaves nothing of a token, and the characters whole.
LEMMA TokensRedacted ==
  ASSUME NEW t \in Seq(Raw), Paired(t), Tokens(t)
  PROVE  LET r == Response!redactToken(t, TRUE)
         IN  r \in Seq(Safe) /\ Paired(r) /\ (t # <<>> => r # <<>>)
<1> DEFINE p == [i \in DOMAIN t |-> CASE Response!Occurs(t, i) -> Response!Redacted
                                      [] Response!Occurs(t, i - 1) -> <<>>
                                      [] OTHER -> <<t[i]>>]
           N == Len(t)
<1>1. Response!redactToken(t, TRUE) = Response!FlattenSeq(p)
  BY DEF Response!redactToken
<1>2. N \in Nat /\ DOMAIN t = 1..N /\ \A i \in 1..N : t[i] \in Raw
  OBVIOUS
<1>3. \A i \in 1..N : Response!Occurs(t, i) <=> t[i] = "t"
  BY <1>2 DEF Response!Occurs, Response!Token, Tokens
<1>4. \A i \in 1..N : Response!Occurs(t, i - 1) <=> t[i] = "k"
  <2>1. ASSUME NEW i \in 1..N PROVE Response!Occurs(t, i - 1) <=> t[i] = "k"
    <3>1. (i - 1) + 1 = i /\ (i > 1 => i - 1 \in 1..N)
      BY <1>2
    <3>2. t[i] = "k" => i > 1 /\ t[i - 1] = "t"
      BY <1>2 DEF Tokens
    <3>3. Response!Occurs(t, i - 1) => t[i] = "k"
      BY <1>2, <3>1 DEF Response!Occurs, Response!Token
    <3>4. t[i] = "k" => Response!Occurs(t, i - 1)
      BY <1>2, <3>1, <3>2 DEF Response!Occurs, Response!Token
    <3> QED
      BY <3>3, <3>4
  <2> QED
    BY <2>1
<1>5. ASSUME NEW i \in 1..N
      PROVE  p[i] = IF t[i] = "t" THEN Response!Redacted ELSE IF t[i] = "k" THEN <<>> ELSE <<t[i]>>
  <2>1. p[i] = CASE Response!Occurs(t, i) -> Response!Redacted
                 [] Response!Occurs(t, i - 1) -> <<>>
                 [] OTHER -> <<t[i]>>
    BY <1>2
  <2>2. (Response!Occurs(t, i) <=> t[i] = "t") /\ (Response!Occurs(t, i - 1) <=> t[i] = "k")
    BY <1>3, <1>4
  <2>3. CASE t[i] = "t"
    BY <2>1, <2>2, <2>3
  <2>4. CASE t[i] = "k"
    BY <2>1, <2>2, <2>4
  <2>5. CASE t[i] \notin {"t", "k"}
    BY <2>1, <2>2, <2>5
  <2> QED
    BY <2>3, <2>4, <2>5
<1>6. p \in Seq(Seq(Safe)) /\ Len(p) = N
  <2>1. ASSUME NEW i \in 1..N PROVE p[i] \in Seq(Safe)
    <3>1. Response!Redacted \in Seq(Safe) /\ <<>> \in Seq(Safe)
      BY DEF Safe, Response!Redacted
    <3>2. t[i] \in Raw
      BY <1>2
    <3>3. t[i] \notin {"t", "k"} => <<t[i]>> \in Seq(Safe)
      BY <3>2 DEF Raw, Safe
    <3> HIDE DEF p
    <3> QED
      BY <1>5, <3>1, <3>3
  <2>2. p = [i \in 1..N |-> p[i]]
    BY <1>2
  <2> HIDE DEF p
  <2> QED
    BY <1>2, <2>1, <2>2
<1> HIDE DEF p
<1> DEFINE Open(k, u) == /\ \A j \in 1..Len(u) : u[j] = "high" =>
                              \/ j < Len(u) /\ u[j + 1] = "low"
                              \/ j = Len(u) /\ k \in 1..N /\ t[k] = "high"
                         /\ k >= 1 => Len(u) >= 1
           I == {z \in Nat \X Seq(Safe) : Open(z[1], z[2])}
<1>7. <<0, <<>>>> \in I
  <2>1. <<>> \in Seq(Safe) /\ Open(0, <<>>)
    OBVIOUS
  <2> QED
    BY <2>1
<1>8. ASSUME NEW k \in 0..Len(p) - 1, NEW u \in Seq(Safe), <<k, u>> \in I PROVE <<k + 1, u \o p[k + 1]>> \in I
  <2> DEFINE q == p[k + 1]
             w == u \o q
             n == Len(u)
  <2>1. k + 1 \in 1..N /\ k + 1 \in Nat /\ k \in 0..N /\ (k >= 1 => k \in 1..N)
    BY <1>2, <1>6
  <2>2. Open(k, u)
    BY <1>8
  <2>3. q \in Seq(Safe)
    BY <1>6, <2>1
  <2>4. /\ w \in Seq(Safe) /\ Len(w) = n + Len(q) /\ n \in Nat /\ Len(q) \in Nat
        /\ \A i \in 1..n : w[i] = u[i]
        /\ \A i \in 1..Len(q) : w[n + i] = q[i]
        /\ \A i \in 1..(n + Len(q)) : i \in 1..n \/ \E j \in 1..Len(q) : i = n + j
    BY <2>3, Appended
  <2>15. q = IF t[k + 1] = "t" THEN Response!Redacted ELSE IF t[k + 1] = "k" THEN <<>> ELSE <<t[k + 1]>>
    BY <1>5, <2>1
  <2>5. t[k + 1] \notin {"t", "k"} => q = <<t[k + 1]>>
    <3> HIDE DEF q
    <3> QED
      BY <2>15
  <2>6. k \in 1..N /\ t[k] = "high" => t[k + 1] = "low"
    BY <2>1 DEF Paired
  <2>7. t[k + 1] = "low" => q = <<"low">>
    <3> HIDE DEF q
    <3> QED
      BY <2>5
  <2>8. t[k + 1] = "t" => q = Response!Redacted
    <3> HIDE DEF q
    <3> QED
      BY <2>15
  <2>9. t[k + 1] = "k" => q = <<>> /\ k >= 1
    <3>1. t[k + 1] = "k" => k >= 1
      BY <1>2, <2>1 DEF Tokens
    <3> HIDE DEF q
    <3> QED
      BY <2>15, <3>1
  <2> HIDE DEF w, q, n
  <2>10. \A j \in 1..Len(q) : q[j] = "high" => j = Len(q) /\ t[k + 1] = "high"
    <3>1. CASE t[k + 1] = "t"
      <4>1. Len(Response!Redacted) = 3 /\ \A j \in 1..3 : Response!Redacted[j] # "high"
        BY DEF Response!Redacted
      <4> QED
        BY <2>8, <3>1, <4>1
    <3>2. CASE t[k + 1] = "k"
      BY <2>9, <3>2
    <3>3. CASE t[k + 1] \notin {"t", "k"}
      <4>1. q = <<t[k + 1]>>
        BY <2>5, <3>3
      <4>2. Len(q) = 1 /\ q[1] = t[k + 1]
        BY <4>1
      <4> QED
        BY <4>2
    <3> QED
      BY <3>1, <3>2, <3>3
  <2>11. ASSUME NEW j \in 1..Len(w), w[j] = "high"
         PROVE  \/ j < Len(w) /\ w[j + 1] = "low"
                \/ j = Len(w) /\ k + 1 \in 1..N /\ t[k + 1] = "high"
    <3>1. CASE j \in 1..n
      <4>1. u[j] = "high"
        BY <2>4, <2>11, <3>1
      <4>2. CASE j < n /\ u[j + 1] = "low"
        <5>1. j + 1 \in 1..n
          BY <2>4, <4>2
        <5>2. w[j + 1] = u[j + 1] /\ j < Len(w)
          BY <2>4, <5>1
        <5> QED
          BY <4>2, <5>2
      <4>3. CASE j = n /\ k \in 1..N /\ t[k] = "high"
        <5>1. q = <<"low">>
          BY <2>6, <2>7, <4>3
        <5>2. 1 \in 1..Len(q) /\ q[1] = "low" /\ Len(q) = 1
          BY <5>1
        <5>3. w[n + 1] = "low" /\ n < Len(w)
          BY <2>4, <5>2
        <5> QED
          BY <4>3, <5>3
      <4> QED
        BY <2>2, <3>1, <4>1, <4>2, <4>3 DEF n
    <3>2. CASE \E i \in 1..Len(q) : j = n + i
      <4>1. PICK i \in 1..Len(q) : j = n + i
        BY <3>2
      <4>2. q[i] = "high"
        BY <2>4, <2>11, <4>1
      <4>3. i = Len(q) /\ t[k + 1] = "high"
        BY <2>10, <4>2
      <4> QED
        BY <2>1, <2>4, <4>1, <4>3
    <3> QED
      BY <2>4, <3>1, <3>2
  <2>12. Len(w) >= 1
    <3>1. CASE t[k + 1] = "k"
      <4>1. n >= 1
        BY <2>2, <2>9, <3>1 DEF n
      <4> QED
        BY <2>4, <4>1
    <3>2. CASE t[k + 1] # "k"
      <4>1. Len(q) >= 1
        <5>1. CASE t[k + 1] = "t"
          <6>1. Len(Response!Redacted) = 3
            BY DEF Response!Redacted
          <6>2. q = Response!Redacted
            BY <2>8, <5>1
          <6> HIDE DEF Open, I
          <6>3. Len(q) = 3
            BY <6>1, <6>2
          <6> QED
            BY <6>3
        <5>2. CASE t[k + 1] # "t"
          <6>1. q = <<t[k + 1]>>
            BY <2>5, <3>2, <5>2
          <6> QED
            BY <6>1
        <5> QED
          BY <5>1, <5>2
      <4> QED
        BY <2>4, <4>1
    <3> QED
      BY <3>1, <3>2
  <2>13. Open(k + 1, w)
    BY <2>11, <2>12
  <2>14. <<k + 1, w>> \in I
    BY <2>1, <2>4, <2>13
  <2> QED
    BY <2>14 DEF w, q
<1> DEFINE r == Response!FlattenSeq(p)
<1>9. <<N, r>> \in I
  <2>1. <<Len(p), Response!FlattenSeq(p)>> \in I
    <3> HIDE DEF I
    <3> QED
      BY <1>6, <1>7, <1>8, FlattenKeeps
  <2> QED
    BY <1>6, <2>1
<1> HIDE DEF r
<1>10. r \in Seq(Safe) /\ Open(N, r)
  BY <1>9
<1>11. ASSUME NEW j \in 1..Len(r), r[j] = "high" PROVE j < Len(r) /\ r[j + 1] = "low"
  <2>1. ~(N \in 1..N /\ t[N] = "high")
    BY <1>2 DEF Paired
  <2> QED
    BY <1>10, <1>11, <2>1
<1>12. t # <<>> => r # <<>>
  <2>1. t # <<>> => N >= 1
    BY <1>2
  <2> QED
    BY <1>10, <2>1
<1> QED
  BY <1>1, <1>10, <1>11, <1>12 DEF Paired, r

\* A text that may be told: without half a character, without the token.
Sayable(u, known) ==
  /\ u \in Seq(Units) /\ Paired(u)
  /\ known => Lacks(u, "t") /\ Lacks(u, "k")

MarkedLast(u) == \A i \in 1..Len(u) : u[i] = "..." => i = Len(u)

\* With a token or without, redactToken leaves what may be told.
LEMMA RedactedSayable ==
  ASSUME MaxPieces \in Nat, NEW t \in Response!Texts, NEW known \in BOOLEAN
  PROVE  LET r == Response!redactToken(t, known)
         IN  /\ Sayable(r, known) /\ Lacks(r, "...")
             /\ t # <<>> => r # <<>>
             /\ Lacks(t, "t") => r = t
<1> DEFINE r == Response!redactToken(t, known)
<1>1. t \in Seq(Raw) /\ Paired(t) /\ Tokens(t)
  BY TextsWhole
<1>2. Lacks(t, "t") => r = t
  BY <1>1, NothingRedacted
<1>3. CASE known
  <2>1. r = Response!redactToken(t, TRUE)
    BY <1>3
  <2>2. r \in Seq(Safe) /\ Paired(r) /\ (t # <<>> => r # <<>>)
    BY <1>1, <2>1, TokensRedacted
  <2> HIDE DEF r
  <2>3. \A i \in 1..Len(r) : r[i] \in Safe
    BY <2>2
  <2>4. Lacks(r, "t") /\ Lacks(r, "k") /\ Lacks(r, "...")
    BY <2>3 DEF Lacks, Safe
  <2>5. r \in Seq(Units)
    <3>1. Safe \subseteq Units
      BY DEF Safe, Units, Raw
    <3> QED
      BY <2>2, <3>1
  <2> QED
    BY <1>2, <2>2, <2>4, <2>5 DEF Sayable, r
<1>4. CASE ~known
  <2>1. r = t
    BY <1>4 DEF Response!redactToken
  <2>2. \A i \in 1..Len(t) : t[i] \in Raw
    BY <1>1
  <2>3. Lacks(t, "...")
    BY <2>2 DEF Lacks, Raw
  <2>4. t \in Seq(Units)
    BY <1>1 DEF Units
  <2> QED
    BY <1>1, <1>4, <2>1, <2>3, <2>4 DEF Sayable
<1> QED
  BY <1>3, <1>4

\* capErrorText cuts no character, marks the cut at the end, and keeps to its cap.
LEMMA CutSayable ==
  ASSUME NEW known \in BOOLEAN, NEW u, Sayable(u, known), Lacks(u, "..."), NEW M \in Nat \ {0}
  PROVE  LET c == Response!capErrorText(u, M)
         IN  /\ Sayable(c, known) /\ MarkedLast(c) /\ Len(c) <= M + 1
             /\ u # <<>> => c # <<>>
             /\ Len(u) <= M => c = u
<1> DEFINE c == Response!capErrorText(u, M)
<1>1. u \in Seq(Units) /\ Paired(u) /\ Len(u) \in Nat
  BY DEF Sayable
<1>2. CASE Len(u) <= M
  <2>1. c = u
    BY <1>2 DEF Response!capErrorText
  <2>2. MarkedLast(u)
    BY DEF MarkedLast, Lacks
  <2> QED
    BY <1>1, <1>2, <2>1, <2>2
<1>3. CASE ~(Len(u) <= M)
  <2> DEFINE end == IF u[M] = "high" THEN M - 1 ELSE M
             v == SubSeq(u, 1, end)
             q == <<"...">>
  <2>1. c = v \o q
    BY <1>3 DEF Response!capErrorText, Response!Ellipsis
  <2>2. end \in Nat /\ end <= M /\ M < Len(u) /\ M \in 1..Len(u)
    BY <1>1, <1>3
  <2>3. end \in 1..Len(u) => u[end] # "high"
    <3>1. CASE u[M] = "high"
      <4>1. end = M - 1
        BY <3>1
      <4>2. ASSUME M - 1 \in 1..Len(u), u[M - 1] = "high" PROVE FALSE
        <5>1. u[(M - 1) + 1] = "low" /\ (M - 1) + 1 = M
          BY <1>1, <2>2, <4>2 DEF Paired
        <5> QED
          BY <3>1, <5>1
      <4> QED
        BY <4>1, <4>2
    <3>2. CASE u[M] # "high"
      BY <3>2
    <3> QED
      BY <3>1, <3>2
  <2> HIDE DEF end
  <2>4. v \in Seq(Units) /\ Len(v) = end /\ \A i \in 1..end : v[i] = u[i]
    BY <1>1, <2>2
  <2>5. q \in Seq(Units) /\ Len(q) = 1 /\ q[1] = "..."
    BY DEF Units
  <2> HIDE DEF v, q
  <2> DEFINE d == v \o q
  <2>6. /\ d \in Seq(Units) /\ Len(d) = end + 1
        /\ \A i \in 1..end : d[i] = u[i]
        /\ d[end + 1] = "..."
    <3>1. /\ v \o q \in Seq(Units) /\ Len(v \o q) = Len(v) + Len(q)
          /\ \A i \in 1..Len(v) : (v \o q)[i] = v[i]
          /\ \A i \in 1..Len(q) : (v \o q)[Len(v) + i] = q[i]
      <4>1. v \in Seq(Units) /\ q \in Seq(Units)
        BY <2>4, <2>5
      <4> QED
        BY <4>1, Appended
    <3>2. 1 \in 1..Len(q)
      BY <2>5
    <3>3. (v \o q)[Len(v) + 1] = q[1]
      BY <3>1, <3>2
    <3> QED
      BY <2>4, <2>5, <3>1, <3>3
  <2> HIDE DEF d
  <2>7. \A i \in 1..Len(d) : i \in 1..end \/ i = end + 1
    BY <2>2, <2>6
  <2>8. Paired(d)
    <3>1. ASSUME NEW i \in 1..Len(d), d[i] = "high" PROVE i < Len(d) /\ d[i + 1] = "low"
      <4>1. i \in 1..end /\ u[i] = "high" /\ i # end
        BY <2>2, <2>3, <2>6, <2>7, <3>1
      <4>2. i + 1 \in 1..end /\ i \in 1..Len(u)
        BY <2>2, <4>1
      <4>3. u[i + 1] = "low"
        BY <1>1, <4>1, <4>2 DEF Paired
      <4> QED
        BY <2>2, <2>6, <4>2, <4>3
    <3> QED
      BY <3>1 DEF Paired
  <2>9. MarkedLast(d)
    <3>1. \A i \in 1..end : d[i] # "..."
      BY <2>2, <2>6 DEF Lacks
    <3> QED
      BY <2>6, <2>7, <3>1 DEF MarkedLast
  <2>10. known => Lacks(d, "t") /\ Lacks(d, "k")
    <3>1. known => \A i \in 1..end : u[i] # "t" /\ u[i] # "k"
      BY <2>2 DEF Sayable, Lacks
    <3> QED
      BY <2>6, <2>7, <3>1 DEF Lacks
  <2>11. c = d
    BY <2>1 DEF v, q, end, d
  <2> HIDE DEF c
  <2>12. Len(c) <= M + 1 /\ c # <<>>
    <3>1. Len(d) <= M + 1 /\ Len(d) # 0
      BY <2>2, <2>6
    <3> QED
      BY <2>11, <3>1
  <2> QED
    BY <1>3, <2>6, <2>8, <2>9, <2>10, <2>11, <2>12 DEF Sayable, c
<1> QED
  BY <1>2, <1>3

\* The constructor of GithubApiError leaves a text as it is that was redacted
\* and cut before: its cap is larger by the prefix and the mark.
LEMMA AsItIs ==
  ASSUME NEW known \in BOOLEAN, NEW u, Sayable(u, known), Len(u) <= ERROR_TEXT_BACKSTOP_UNITS
  PROVE  Response!GithubApiError(u, known) = u
<1>1. Response!redactToken(u, known) = u
  <2>1. CASE known
    BY <2>1, NothingRedacted DEF Sayable
  <2>2. CASE ~known
    BY <2>2 DEF Response!redactToken
  <2> QED
    BY <2>1, <2>2
<1> QED
  BY <1>1 DEF Response!GithubApiError, Response!capErrorText

Backstop == ERROR_TEXT_BACKSTOP_UNITS

\* What the told text has to be for the text that came.
Honest(told, surface, text, known) ==
  /\ Sayable(told, known) /\ MarkedLast(told)
  /\ told # <<>> \/ text = <<>>
  /\ Len(told) <= Backstop + 1
  /\ Len(text) # 0 /\ Len(text) <= SurfaceCap /\ Lacks(text, "t") /\ surface # "unreadable" =>
       told = text \/ told = Response!ReadFailed \o text

\* The texts the server puts in place of an empty one.
LEMMA ShortTexts ==
  ASSUME NEW c \in {"s", "f", "b"}, NEW known \in BOOLEAN
  PROVE  Sayable(<<c>>, known) /\ Lacks(<<c>>, "...") /\ Lacks(<<c>>, "t") /\ Len(<<c>>) = 1 /\ <<c>> # <<>>
<1>1. Len(<<c>>) = 1 /\ <<c>>[1] = c
  OBVIOUS
<1>2. \A i \in 1..Len(<<c>>) : i = 1
  BY <1>1
<1>3. <<c>> \in Seq(Units)
  BY DEF Units
<1> QED
  BY <1>1, <1>2, <1>3 DEF Sayable, Paired, Lacks

\* What reasonFromResponse and describeFetchFailure cut has nothing of the token,
\* and is not empty.
LEMMA SurfaceText ==
  ASSUME NEW text \in Response!Texts, NEW known \in BOOLEAN, MaxPieces \in Nat,
         NEW surface, surface \in {"reason", "fetch", "read"}
  PROVE  LET y == IF surface = "reason"
                  THEN Response!redactToken(Response!OrElse(text, Response!Status), known)
                  ELSE Response!OrElse(Response!redactToken(text, known), Response!Default)
         IN  /\ Sayable(y, known) /\ Lacks(y, "...") /\ y # <<>>
             /\ Len(text) # 0 /\ Lacks(text, "t") => y = text
<1> DEFINE r == Response!redactToken(text, known)
<1>1. /\ Sayable(r, known) /\ Lacks(r, "...")
      /\ text # <<>> => r # <<>>
      /\ Lacks(text, "t") => r = text
  BY RedactedSayable
<1>2. Len(text) # 0 => text # <<>>
  OBVIOUS
<1>3. CASE surface = "reason"
  <2>1. CASE text = <<>>
    <3>1. Response!OrElse(text, Response!Status) = <<"s">>
      BY <2>1 DEF Response!OrElse, Response!Status
    <3>2. <<"s">> \in Seq(Units)
      BY ShortTexts DEF Sayable
    <3>3. Response!redactToken(<<"s">>, known) = <<"s">>
      BY <3>2, ShortTexts, NothingRedacted
    <3> QED
      BY <1>2, <1>3, <2>1, <3>1, <3>3, ShortTexts
  <2>2. CASE text # <<>>
    <3>1. Response!OrElse(text, Response!Status) = text
      BY <2>2 DEF Response!OrElse
    <3> QED
      BY <1>1, <1>3, <2>2, <3>1
  <2> QED
    BY <2>1, <2>2
<1>4. CASE surface # "reason"
  <2>1. CASE r = <<>>
    <3>1. Response!OrElse(r, Response!Default) = <<"f">>
      BY <2>1 DEF Response!OrElse, Response!Default
    <3>2. Len(text) # 0 => FALSE
      BY <1>1, <1>2, <2>1
    <3> QED
      BY <1>4, <3>1, <3>2, ShortTexts
  <2>2. CASE r # <<>>
    <3>1. Response!OrElse(r, Response!Default) = r
      BY <2>2 DEF Response!OrElse
    <3> QED
      BY <1>1, <1>4, <2>2, <3>1
  <2> QED
    BY <2>1, <2>2
<1> QED
  BY <1>3, <1>4

\* What each surface tells of a text.
LEMMA ToldHonest ==
  ASSUME NEW surface \in Response!Surfaces, NEW text \in Response!Texts, NEW known \in BOOLEAN
  PROVE  Honest(Response!Told(surface, text, known), surface, text, known)
<1> DEFINE told == Response!Told(surface, text, known)
           y == IF surface = "reason"
                THEN Response!redactToken(Response!OrElse(text, Response!Status), known)
                ELSE Response!OrElse(Response!redactToken(text, known), Response!Default)
           c == Response!capErrorText(y, SurfaceCap)
<1>1. /\ SurfaceCap \in Nat \ {0} /\ MaxPieces \in Nat /\ Backstop \in Nat
      /\ Backstop >= SurfaceCap + 2 /\ Backstop \in Nat \ {0}
  BY CapsAssumption DEF Backstop
<1>2. text \in Seq(Raw) /\ Len(text) \in Nat
  BY <1>1, TextsWhole
<1>3. ASSUME surface \in {"reason", "fetch", "read"}
      PROVE  /\ Sayable(c, known) /\ MarkedLast(c) /\ Len(c) <= SurfaceCap + 1 /\ c # <<>>
             /\ Len(text) # 0 /\ Len(text) <= SurfaceCap /\ Lacks(text, "t") => c = text
  <2>1. /\ Sayable(y, known) /\ Lacks(y, "...") /\ y # <<>>
        /\ Len(text) # 0 /\ Lacks(text, "t") => y = text
    BY <1>1, <1>3, SurfaceText
  <2> HIDE DEF y
  <2>2. /\ Sayable(c, known) /\ MarkedLast(c) /\ Len(c) <= SurfaceCap + 1
        /\ y # <<>> => c # <<>>
        /\ Len(y) <= SurfaceCap => c = y
    BY <1>1, <2>1, CutSayable
  <2> HIDE DEF c
  <2> QED
    BY <2>1, <2>2
<1>4. CASE surface = "reason"
  <2>1. told = Response!GithubApiError(c, known)
    BY <1>4 DEF Response!Told, Response!reasonFromResponse
  <2> HIDE DEF c
  <2>2. Len(c) \in Nat /\ Len(c) <= Backstop
    BY <1>1, <1>3, <1>4 DEF Sayable
  <2>3. told = c
    BY <1>3, <1>4, <2>1, <2>2, AsItIs DEF Backstop
  <2> HIDE DEF told
  <2> QED
    BY <1>1, <1>3, <1>4, <2>2, <2>3 DEF Honest, told
<1>5. CASE surface = "fetch"
  <2>1. told = c
    BY <1>5 DEF Response!Told, Response!describeFetchFailure
  <2> HIDE DEF c
  <2>2. Len(c) \in Nat /\ Len(c) <= Backstop
    BY <1>1, <1>3, <1>5 DEF Sayable
  <2> HIDE DEF told
  <2> QED
    BY <1>1, <1>3, <1>5, <2>1, <2>2 DEF Honest, told
<1>6. CASE surface = "read"
  <2> DEFINE w == Response!ReadFailed \o c
  <2>1. told = Response!GithubApiError(w, known)
    BY <1>6 DEF Response!Told, Response!describeFetchFailure
  <2> HIDE DEF c
  <2>2. /\ Sayable(c, known) /\ MarkedLast(c) /\ Len(c) <= SurfaceCap + 1
        /\ Len(text) # 0 /\ Len(text) <= SurfaceCap /\ Lacks(text, "t") => c = text
    BY <1>3, <1>6
  <2>3. /\ Response!ReadFailed \in Seq(Units) /\ Len(Response!ReadFailed) = 1 /\ Response!ReadFailed[1] = "b"
    BY DEF Response!ReadFailed, Units
  <2>4. /\ w \in Seq(Units) /\ Len(w) = 1 + Len(c) /\ Len(c) \in Nat
        /\ w[1] = "b" /\ \A i \in 1..Len(c) : w[1 + i] = c[i]
    <3>1. c \in Seq(Units) /\ Response!ReadFailed \in Seq(Units)
      BY <2>2, <2>3 DEF Sayable
    <3>2. /\ w \in Seq(Units) /\ Len(w) = Len(Response!ReadFailed) + Len(c) /\ Len(c) \in Nat
          /\ \A i \in 1..Len(Response!ReadFailed) : w[i] = Response!ReadFailed[i]
          /\ \A i \in 1..Len(c) : w[Len(Response!ReadFailed) + i] = c[i]
      BY <3>1, Appended
    <3> HIDE DEF w
    <3>3. 1 \in 1..Len(Response!ReadFailed)
      BY <2>3
    <3> QED
      BY <2>3, <3>2, <3>3
  <2> HIDE DEF w
  <2>5. ASSUME NEW i \in 1..Len(w) PROVE i = 1 \/ (i - 1 \in 1..Len(c) /\ w[i] = c[i - 1])
    <3>1. CASE i # 1
      <4>1. i - 1 \in 1..Len(c) /\ 1 + (i - 1) = i
        BY <2>4, <3>1
      <4>2. w[1 + (i - 1)] = c[i - 1]
        BY <2>4, <4>1
      <4> QED
        BY <4>1, <4>2
    <3> QED
      BY <3>1
  <2>6. Paired(w)
    <3>1. ASSUME NEW i \in 1..Len(w), w[i] = "high" PROVE i < Len(w) /\ w[i + 1] = "low"
      <4>1. i - 1 \in 1..Len(c) /\ c[i - 1] = "high"
        BY <2>4, <2>5, <3>1
      <4>2. i - 1 < Len(c) /\ c[(i - 1) + 1] = "low"
        BY <2>2, <4>1 DEF Sayable, Paired
      <4>3. (i - 1) + 1 = i /\ i \in 1..Len(c) /\ 1 + i = i + 1
        BY <2>4, <4>1, <4>2
      <4>4. w[1 + i] = c[i]
        BY <2>4, <4>3
      <4> QED
        BY <2>4, <4>2, <4>3, <4>4
    <3> QED
      BY <3>1 DEF Paired
  <2>7. MarkedLast(w)
    <3>1. ASSUME NEW i \in 1..Len(w), w[i] = "..." PROVE i = Len(w)
      <4>1. i - 1 \in 1..Len(c) /\ c[i - 1] = "..."
        BY <2>4, <2>5, <3>1
      <4>2. i - 1 = Len(c)
        BY <2>2, <4>1 DEF MarkedLast
      <4> QED
        BY <2>4, <4>1, <4>2
    <3> QED
      BY <3>1 DEF MarkedLast
  <2>8. known => Lacks(w, "t") /\ Lacks(w, "k")
    <3>1. known => \A i \in 1..Len(c) : c[i] # "t" /\ c[i] # "k"
      BY <2>2 DEF Sayable, Lacks
    <3>2. w[1] # "t" /\ w[1] # "k"
      BY <2>4
    <3> QED
      BY <2>5, <3>1, <3>2 DEF Lacks
  <2>9. Sayable(w, known)
    BY <2>4, <2>6, <2>8 DEF Sayable
  <2>10. Len(w) <= Backstop
    BY <1>1, <2>2, <2>4
  <2>11. told = w
    BY <2>1, <2>9, <2>10, AsItIs DEF Backstop
  <2>12. w # <<>>
    <3>1. Len(w) # 0
      BY <2>4
    <3> QED
      BY <3>1
  <2>13. c = text => w = Response!ReadFailed \o text
    BY DEF w
  <2> HIDE DEF told
  <2> QED
    BY <1>1, <2>2, <2>4, <2>7, <2>9, <2>10, <2>11, <2>12, <2>13 DEF Honest, told
<1>7. CASE surface = "unreadable"
  <2>1. told = Response!GithubApiError(<<"s">>, known)
    BY <1>7 DEF Response!Told, Response!Status
  <2>2. Sayable(<<"s">>, known) /\ Lacks(<<"s">>, "...") /\ Len(<<"s">>) = 1 /\ <<"s">> # <<>>
    BY ShortTexts
  <2>3. told = <<"s">>
    <3>1. 1 <= ERROR_TEXT_BACKSTOP_UNITS
      BY <1>1 DEF Backstop
    <3> QED
      BY <2>1, <2>2, <3>1, AsItIs
  <2>4. MarkedLast(<<"s">>)
    BY <2>2 DEF MarkedLast, Lacks
  <2> HIDE DEF told
  <2>5. Sayable(told, known) /\ MarkedLast(told) /\ Len(told) <= Backstop + 1 /\ told # <<>>
    BY <1>1, <2>2, <2>3, <2>4
  <2> QED
    BY <1>7, <2>5 DEF Honest, told
<1>8. CASE surface \in {"shape", "requestId"}
  <2> DEFINE r == Response!redactToken(text, known)
             d == Response!capErrorText(r, Backstop)
  <2>1. told = d
    BY <1>8 DEF Response!Told, Response!GithubApiError, Backstop
  <2>2. /\ Sayable(r, known) /\ Lacks(r, "...")
        /\ text # <<>> => r # <<>>
        /\ Lacks(text, "t") => r = text
    BY <1>1, RedactedSayable
  <2> HIDE DEF r
  <2>3. /\ Sayable(d, known) /\ MarkedLast(d) /\ Len(d) <= Backstop + 1
        /\ r # <<>> => d # <<>>
        /\ Len(r) <= Backstop => d = r
    BY <1>1, <2>2, CutSayable
  <2> HIDE DEF d, told
  <2>4. Len(text) <= SurfaceCap => Len(text) <= Backstop
    BY <1>1, <1>2
  <2> QED
    BY <2>1, <2>2, <2>3, <2>4 DEF Honest, told
<1> QED
  BY <1>4, <1>5, <1>6, <1>7, <1>8 DEF Response!Surfaces

\* A failure is one of those that may come, and what is told is its text.
Failing ==
  /\ failure = Response!None \/ failure \in Response!Failures
  /\ failure # Response!None /\ result # Response!Nothing =>
       result.told = Response!Told(failure.surface, failure.text, failure.token)

\* Nothing is told before a failure.
LEMMA FailingInit == LifeInit => Failing
BY DEF LifeInit, Failing

\* What was told stays the text of the failure that came.
LEMMA FailingStep ==
  ASSUME Failing, [LifeNext]_<<bootVars, gistVars, pgVars>>
  PROVE  Failing'
<1>1. Response!Nothing' = Response!Nothing /\ Response!None' = Response!None /\ Response!Failures' = Response!Failures
  BY DEF Response!Nothing, Response!Github, Response!None
<1>2. CASE (BootNext /\ UNCHANGED <<gistVars, pgVars>>) \/ Query \/ UNCHANGED <<bootVars, gistVars, pgVars>>
  <2>1. UNCHANGED <<failure, result>>
    BY <1>2 DEF Query, gistVars
  <2> QED
    BY <1>1, <2>1 DEF Failing
<1>3. CASE Receive
  <2>1. result' = Response!Nothing /\ (failure' = failure \/ failure' \in Response!Failures)
    BY <1>3 DEF Receive
  <2> QED
    BY <1>1, <2>1 DEF Failing
<1>4. CASE Respond
  <2>1. failure' = failure
    BY <1>4 DEF Respond, Response!Next, Response!readGist, Response!errorMessage
  <2>2. failure # Response!None =>
          result'.told = Response!Told(failure.surface, failure.text, failure.token)
    BY <1>4 DEF Respond, Response!Next, Response!readGist, Response!errorMessage, Response!Nothing
  <2> QED
    BY <1>1, <2>1, <2>2 DEF Failing
<1> QED
  BY <1>2, <1>3, <1>4 DEF LifeNext

\* A text ends with itself.
LEMMA SuffixItself ==
  ASSUME NEW S, NEW u \in Seq(S)
  PROVE  Response!IsSuffix(u, u)
<1>1. Len(Response!Reverse(u)) \in Nat
  BY DEF Response!Reverse
<1> QED
  BY <1>1 DEF Response!IsSuffix, Response!IsPrefix

\* So does what precedes it with it.
LEMMA SuffixAfter ==
  ASSUME NEW S, NEW u \in Seq(S), NEW q \in Seq(S)
  PROVE  Response!IsSuffix(u, q \o u)
<1> DEFINE w == q \o u
           a == Response!Reverse(u)
           b == Response!Reverse(w)
           n == Len(u)
           m == Len(q) + Len(u)
<1>1. /\ w \in Seq(S) /\ Len(w) = m /\ n \in Nat /\ m \in Nat /\ n <= m
      /\ \A i \in 1..n : w[(m - n) + i] = u[i]
  <2>1. /\ w \in Seq(S) /\ Len(w) = Len(q) + Len(u) /\ Len(u) \in Nat /\ Len(q) \in Nat
        /\ \A i \in 1..Len(u) : w[Len(q) + i] = u[i]
    BY Appended
  <2> HIDE DEF w
  <2>2. m - n = Len(q)
    BY <2>1
  <2> QED
    BY <2>1, <2>2
<1> HIDE DEF w, m
<1>2. /\ a \in Seq(S) /\ Len(a) = n
      /\ \A i \in 1..n : a[i] = u[(n - i) + 1]
  <2>1. a = [i \in 1..n |-> u[(n - i) + 1]]
    BY DEF Response!Reverse
  <2>2. \A i \in 1..n : (n - i) + 1 \in 1..n
    BY <1>1
  <2>3. \A i \in 1..n : u[i] \in S
    OBVIOUS
  <2>4. n \in Nat
    BY <1>1
  <2> HIDE DEF n, a
  <2>5. a \in [1..n -> S]
    BY <2>1, <2>2, <2>3
  <2>6. a \in Seq(S) /\ Len(a) = n
    BY <2>4, <2>5
  <2> QED
    BY <2>1, <2>6
<1>3. /\ b \in Seq(S) /\ Len(b) = m
      /\ \A i \in 1..m : b[i] = w[(m - i) + 1]
  <2>1. b = [i \in 1..m |-> w[(m - i) + 1]]
    BY <1>1 DEF Response!Reverse
  <2>2. \A i \in 1..m : (m - i) + 1 \in 1..m
    BY <1>1
  <2>3. \A i \in 1..m : w[i] \in S
    BY <1>1
  <2>4. m \in Nat
    BY <1>1
  <2> HIDE DEF n, b
  <2>5. b \in [1..m -> S]
    BY <2>1, <2>2, <2>3
  <2>6. b \in Seq(S) /\ Len(b) = m
    BY <2>4, <2>5
  <2> QED
    BY <2>1, <2>6
<1> HIDE DEF a, b, n
<1>4. ASSUME NEW i \in 1..n PROVE a[i] = b[i]
  <2>1. (n - i) + 1 \in 1..n /\ (m - i) + 1 = (m - n) + ((n - i) + 1) /\ i \in 1..m
    BY <1>1
  <2>2. w[(m - n) + ((n - i) + 1)] = u[(n - i) + 1]
    BY <1>1, <2>1
  <2> QED
    BY <1>2, <1>3, <2>1, <2>2
<1>5. SubSeq(a, 1, n) = SubSeq(b, 1, n)
  <2>1. /\ SubSeq(a, 1, n) \in Seq(S) /\ Len(SubSeq(a, 1, n)) = n
        /\ \A i \in 1..n : SubSeq(a, 1, n)[i] = a[i]
    BY <1>1, <1>2
  <2>2. /\ SubSeq(b, 1, n) \in Seq(S) /\ Len(SubSeq(b, 1, n)) = n
        /\ \A i \in 1..n : SubSeq(b, 1, n)[i] = b[i]
    BY <1>1, <1>3
  <2> QED
    BY <1>4, <2>1, <2>2
<1>6. Len(a) <= Len(b)
  BY <1>1, <1>2, <1>3
<1> QED
  BY <1>2, <1>5, <1>6 DEF Response!IsSuffix, Response!IsPrefix, a, b, w

\* What was told so is what ErrorTextTrue asks for.
LEMMA FailingTrue == Failing => ErrorTextTrue
<1> SUFFICES ASSUME Failing, failure # Response!None, result # Response!Nothing
             PROVE  ErrorTextTrue
  BY DEF ErrorTextTrue, Response!ErrorTextTrue
<1> DEFINE told    == result.told
           surface == failure.surface
           text    == failure.text
<1>1. surface \in Response!Surfaces /\ text \in Response!Texts /\ failure.token \in BOOLEAN
  BY DEF Failing, Response!Failures
<1>2. Honest(told, surface, text, failure.token)
  BY <1>1, ToldHonest DEF Failing
<1>3. text \in Seq(Raw)
  BY <1>1, TextsWhole, CapsAssumption
<1> HIDE DEF told, surface, text
<1>4. told \in Seq(Units) /\ DOMAIN told = 1..Len(told) /\ Len(told) \in Nat
  BY <1>2 DEF Honest, Sayable
<1>5. failure.token => ~Response!Has(told, "t") /\ ~Response!Has(told, "k")
  BY <1>2, <1>4 DEF Honest, Sayable, Lacks, Response!Has
<1>6. told # <<>> \/ text = <<>>
  BY <1>2 DEF Honest
<1>7. Len(told) <= ERROR_TEXT_BACKSTOP_UNITS + 1
  BY <1>2 DEF Honest, Backstop
<1>8. Response!Cardinality({k \in DOMAIN told : told[k] = Response!Ellipsis[1]}) <= 1
  <2> DEFINE M == {k \in DOMAIN told : told[k] = Response!Ellipsis[1]}
  <2>1. Response!Ellipsis[1] = "..."
    BY DEF Response!Ellipsis
  <2>2. M = {} \/ M = {Len(told)}
    <3>1. \A k \in M : k = Len(told)
      BY <1>2, <1>4, <2>1 DEF Honest, MarkedLast
    <3> HIDE DEF M
    <3> QED
      BY <3>1
  <2>3. Cardinality({}) = 0 /\ Cardinality({Len(told)}) = 1
    BY FS_EmptySet, FS_Singleton
  <2> HIDE DEF M
  <2>4. Cardinality(M) <= 1
    <3>1. CASE M = {}
      BY <2>3, <3>1
    <3>2. CASE M = {Len(told)}
      BY <2>3, <3>2
    <3> QED
      BY <2>2, <3>1, <3>2
  <2> QED
    BY <2>4 DEF M, Cardinality, Response!Cardinality
<1>9. \A k \in DOMAIN told : told[k] = "high" => k < Len(told) /\ told[k + 1] = "low"
  BY <1>2, <1>4 DEF Honest, Sayable, Paired
<1>10. /\ 0 < Len(text) /\ Len(text) <= SurfaceCap
       /\ ~Response!Has(text, "t") /\ surface # "unreadable"
       => Response!IsSuffix(text, told)
  <2> SUFFICES ASSUME 0 < Len(text), Len(text) <= SurfaceCap, ~Response!Has(text, "t"), surface # "unreadable"
               PROVE  Response!IsSuffix(text, told)
    OBVIOUS
  <2>1. Lacks(text, "t")
    BY <1>3 DEF Lacks, Response!Has
  <2>2. told = text \/ told = Response!ReadFailed \o text
    BY <1>2, <2>1 DEF Honest
  <2>3. text \in Seq(Units) /\ Response!ReadFailed \in Seq(Units) /\ Len(Response!ReadFailed) = 1
    BY <1>3 DEF Units, Response!ReadFailed
  <2> QED
    BY <2>2, <2>3, SuffixItself, SuffixAfter
<1> QED
  BY <1>5, <1>6, <1>7, <1>8, <1>9, <1>10 DEF ErrorTextTrue, Response!ErrorTextTrue, told, surface, text

\* Whatever an upstream text holds and wherever it comes from, the text of an error
\* has nothing of the token, is bounded, cut at most once and never inside a
\* character, and a short one comes through (redactToken, capErrorText,
\* reasonFromResponse, describeFetchFailure, GithubApiError): redacting comes
\* before every cut.
THEOREM ErrorsTold == LifeSpec => []ErrorTextTrue
<1>1. Failing /\ [LifeNext]_<<bootVars, gistVars, pgVars>> => Failing'
  BY FailingStep
<1> QED
  BY <1>1, FailingInit, FailingTrue, PTL DEF LifeSpec

--------------------------------------------------------------------------------
(* The calls of the github-gists client: a success is a gist, and an       *)
(* update that was applied; a failure is named for what really ended the   *)
(* exchange.                                                               *)

TypeOK ==
  /\ token \in BOOLEAN
  /\ args \in [Calls -> [op : {"GET", "PATCH"}, valid : BOOLEAN]]
  /\ pc \in [Calls -> {"idle", "fetching", "reading", "done"}]
  /\ timer \in [Calls -> {"none", "armed", "fired", "cleared"}]
  /\ exchange \in [Calls -> {"none", "sent", "handled", "headers", "body", "broken", "cut"}]
  /\ response \in [Calls -> Responses \cup {None}]
  /\ applied \subseteq Calls
  /\ answer \in [Calls -> Answers \cup {None}]

\* The timer is armed while the exchange runs and at no other time.
Timed(c) ==
  /\ pc[c] = "idle" => exchange[c] = "none" /\ timer[c] = "none"
  /\ pc[c] \in {"fetching", "reading"} => exchange[c] # "none" /\ timer[c] \in {"armed", "fired"}
  /\ pc[c] = "done" => timer[c] # "armed"
  /\ pc[c] = "done" <=> answer[c] # None

\* What the upstream has done, it did to a request that was sent.
Upstream(c) ==
  /\ exchange[c] # "none" => Allowed(c)
  /\ exchange[c] \in {"none", "sent"} => response[c] = None /\ c \notin applied
  /\ exchange[c] \in {"handled", "headers", "body", "cut"} => response[c] \in Responses
  /\ response[c] = "gist" /\ args[c].op = "PATCH" => c \in applied

\* What was answered is still so.
Told(c) ==
  /\ answer[c] = "ok" => response[c] = "gist" /\ exchange[c] = "body"
  /\ answer[c] = "refused" => exchange[c] = "none"
  /\ answer[c] \in Failures => (answer[c] = "timeout" <=> timer[c] = "fired")

IInv == TypeOK /\ \A c \in Calls : Timed(c) /\ Upstream(c) /\ Told(c)

--------------------------------------------------------------------------------
\* It holds before the first call.
LEMMA InitIInv == Init => IInv
<1> SUFFICES ASSUME Init PROVE IInv
  OBVIOUS
<1>1. TypeOK
  BY DEF Init, TypeOK
<1>2. ASSUME NEW c \in Calls PROVE Timed(c) /\ Upstream(c) /\ Told(c)
  BY NoneAssumption DEF Init, Timed, Upstream, Told, Failures, Answers, Responses
<1> QED
  BY <1>1, <1>2 DEF IInv

\* A step of one call changes nothing of another.
LEMMA OthersKeep ==
  ASSUME IInv, NEW c \in Calls, NEW d \in Calls, d # c,
         UNCHANGED <<token, args>>,
         pc'[d] = pc[d], timer'[d] = timer[d], exchange'[d] = exchange[d],
         response'[d] = response[d], answer'[d] = answer[d],
         d \in applied' <=> d \in applied
  PROVE  (Timed(d) /\ Upstream(d) /\ Told(d))'
  BY DEF IInv, Timed, Upstream, Told, Allowed

\* A call that is refused before it asks anything keeps it.
LEMMA RefuseStep ==
  ASSUME IInv, NEW c \in Calls, Refuse(c)
  PROVE  IInv'
<1>1. TypeOK'
  BY DEF IInv, TypeOK, Refuse, Answers
<1>2. (Timed(c) /\ Upstream(c) /\ Told(c))'
  BY NoneAssumption
  DEF IInv, TypeOK, Refuse, Timed, Upstream, Told, Allowed, Failures, Answers
<1>3. ASSUME NEW d \in Calls, d # c PROVE (Timed(d) /\ Upstream(d) /\ Told(d))'
  BY <1>3, OthersKeep DEF IInv, TypeOK, Refuse
<1> QED
  BY <1>1, <1>2, <1>3 DEF IInv

\* So does a request.
LEMMA RequestStep ==
  ASSUME IInv, NEW c \in Calls, request(c)
  PROVE  IInv'
<1>1. TypeOK'
  BY DEF IInv, TypeOK, request
<1>2. (Timed(c) /\ Upstream(c) /\ Told(c))'
  BY NoneAssumption
  DEF IInv, TypeOK, request, Timed, Upstream, Told, Allowed, Failures, Answers
<1>3. ASSUME NEW d \in Calls, d # c PROVE (Timed(d) /\ Upstream(d) /\ Told(d))'
  BY <1>3, OthersKeep DEF IInv, TypeOK, request
<1> QED
  BY <1>1, <1>2, <1>3 DEF IInv

\* An exchange ends with an answer that fits the timer.
LEMMA SettleStep ==
  ASSUME IInv, NEW c \in Calls, NEW a \in Answers, Settle(c, a),
         pc[c] \in {"fetching", "reading"},
         UNCHANGED <<token, args, exchange, response, applied>>,
         a \notin {"refused"},
         a = "ok" => response[c] = "gist" /\ exchange[c] = "body",
         a # "ok" => (a = "timeout" <=> timer[c] = "fired")
  PROVE  IInv'
<1>1. TypeOK'
  BY DEF IInv, TypeOK, Settle
<1>2. Timed(c)'
  BY NoneAssumption DEF IInv, TypeOK, Settle, Timed
<1>3. Upstream(c)'
  BY DEF IInv, TypeOK, Settle, Upstream, Allowed
<1>4. Told(c)'
  BY DEF IInv, TypeOK, Settle, Timed, Told, Failures
<1>5. ASSUME NEW d \in Calls, d # c PROVE (Timed(d) /\ Upstream(d) /\ Told(d))'
  BY <1>5, OthersKeep DEF IInv, TypeOK, Settle
<1> QED
  BY <1>1, <1>2, <1>3, <1>4, <1>5 DEF IInv

\* So does the arrival of the headers.
LEMMA HeadersStep ==
  ASSUME IInv, NEW c \in Calls, Headers(c)
  PROVE  IInv'
<1>1. TypeOK'
  BY DEF IInv, TypeOK, Headers
<1>2. (Timed(c) /\ Upstream(c) /\ Told(c))'
  BY DEF IInv, TypeOK, Headers, Timed, Upstream, Told, Allowed
<1>3. ASSUME NEW d \in Calls, d # c PROVE (Timed(d) /\ Upstream(d) /\ Told(d))'
  BY <1>3, OthersKeep DEF IInv, TypeOK, Headers
<1> QED
  BY <1>1, <1>2, <1>3 DEF IInv

\* So does a fetch that rejects.
LEMMA FetchRejectsStep ==
  ASSUME IInv, NEW c \in Calls, FetchRejects(c)
  PROVE  IInv'
<1> DEFINE a == IF timer[c] = "fired" THEN "timeout" ELSE "unreachable"
<1>1. a \in Answers /\ a \notin {"ok", "refused"} /\ (a = "timeout" <=> timer[c] = "fired")
  BY DEF Answers
<1>2. Settle(c, a)
  BY DEF FetchRejects, Fail
<1> QED
  BY <1>1, <1>2, SettleStep DEF FetchRejects

\* So does a body that was read.
LEMMA BodyReadStep ==
  ASSUME IInv, NEW c \in Calls, BodyRead(c)
  PROVE  IInv'
<1> DEFINE a == IF timer[c] = "fired" THEN "timeout" ELSE "api"
<1>1. CASE Gist(response[c])
  BY <1>1, SettleStep DEF BodyRead, Gist, Answers
<1>2. CASE ~Gist(response[c])
  <2>1. a \in Answers /\ a \notin {"ok", "refused"} /\ (a = "timeout" <=> timer[c] = "fired")
    BY DEF Answers
  <2>2. Settle(c, a)
    BY <1>2 DEF BodyRead, Fail
  <2> QED
    BY <2>1, <2>2, SettleStep DEF BodyRead
<1> QED
  BY <1>1, <1>2

\* So does a body that breaks off.
LEMMA BodyFailsStep ==
  ASSUME IInv, NEW c \in Calls, BodyFails(c)
  PROVE  IInv'
<1> DEFINE a == IF timer[c] = "fired" THEN "timeout" ELSE "api"
<1>1. a \in Answers /\ a \notin {"ok", "refused"} /\ (a = "timeout" <=> timer[c] = "fired")
  BY DEF Answers
<1>2. Settle(c, a)
  BY DEF BodyFails, Fail
<1> QED
  BY <1>1, <1>2, SettleStep DEF BodyFails

\* A timer that fires belongs to an exchange that is not answered yet.
LEMMA TimeoutStep ==
  ASSUME IInv, NEW c \in Calls, Timeout(c)
  PROVE  IInv'
<1>1. TypeOK'
  BY DEF IInv, TypeOK, Timeout
<1>2. pc[c] \in {"fetching", "reading"} /\ answer[c] = None
  BY DEF IInv, TypeOK, Timeout, Timed
<1>3. (Timed(c) /\ Upstream(c) /\ Told(c))'
  BY <1>2, NoneAssumption
  DEF IInv, TypeOK, Timeout, Timed, Upstream, Told, Allowed, Failures, Answers
<1>4. ASSUME NEW d \in Calls, d # c PROVE (Timed(d) /\ Upstream(d) /\ Told(d))'
  BY <1>4, OthersKeep DEF IInv, TypeOK, Timeout
<1> QED
  BY <1>1, <1>3, <1>4 DEF IInv

\* A request is served once, and its update is applied unless it was refused.
LEMMA ServeStep ==
  ASSUME IInv, NEW c \in Calls, NEW r \in Responses, Serve(c, r)
  PROVE  IInv'
<1>1. /\ applied \subseteq applied' /\ applied' \subseteq applied \cup {c}
      /\ r = "gist" /\ args[c].op = "PATCH" => c \in applied'
  BY DEF IInv, TypeOK, Serve
<1>2. TypeOK'
  BY <1>1 DEF IInv, TypeOK, Serve
<1>3. answer[c] \notin {"ok", "refused"}
  BY DEF IInv, Told, Serve
<1>4. Timed(c)'
  BY DEF IInv, TypeOK, Serve, Timed
<1>5. Upstream(c)'
  BY <1>1 DEF IInv, TypeOK, Serve, Upstream, Allowed
<1>6. Told(c)'
  BY <1>3 DEF IInv, TypeOK, Serve, Told
<1>7. ASSUME NEW d \in Calls, d # c PROVE (Timed(d) /\ Upstream(d) /\ Told(d))'
  BY <1>1, <1>7, OthersKeep DEF IInv, TypeOK, Serve
<1> QED
  BY <1>2, <1>4, <1>5, <1>6, <1>7 DEF IInv

\* So does what the network delivers.
LEMMA ArriveStep ==
  ASSUME IInv, NEW c \in Calls, Arrive(c)
  PROVE  IInv'
<1>1. TypeOK'
  BY DEF IInv, TypeOK, Arrive
<1>2. (Timed(c) /\ Upstream(c) /\ Told(c))'
  BY DEF IInv, TypeOK, Arrive, Timed, Upstream, Told, Allowed
<1>3. ASSUME NEW d \in Calls, d # c PROVE (Timed(d) /\ Upstream(d) /\ Told(d))'
  BY <1>3, OthersKeep DEF IInv, TypeOK, Arrive
<1> QED
  BY <1>1, <1>2, <1>3 DEF IInv

\* So does a connection that breaks.
LEMMA BreakStep ==
  ASSUME IInv, NEW c \in Calls, Break(c)
  PROVE  IInv'
<1>1. TypeOK'
  BY DEF IInv, TypeOK, Break
<1>2. (Timed(c) /\ Upstream(c) /\ Told(c))'
  BY DEF IInv, TypeOK, Break, Timed, Upstream, Told, Allowed
<1>3. ASSUME NEW d \in Calls, d # c PROVE (Timed(d) /\ Upstream(d) /\ Told(d))'
  BY <1>3, OthersKeep DEF IInv, TypeOK, Break
<1> QED
  BY <1>1, <1>2, <1>3 DEF IInv

\* So every step keeps it.
LEMMA NextKeeps == IInv /\ [Next]_vars => IInv'
<1> SUFFICES ASSUME IInv, [Next]_vars PROVE IInv'
  OBVIOUS
<1>1. CASE UNCHANGED vars
  BY <1>1 DEF vars, IInv, TypeOK, Timed, Upstream, Told, Allowed
<1>2. CASE Next
  BY <1>2, RefuseStep, RequestStep, HeadersStep, FetchRejectsStep, BodyReadStep, BodyFailsStep,
     TimeoutStep, ServeStep, ArriveStep, BreakStep DEF Next
<1> QED
  BY <1>1, <1>2

--------------------------------------------------------------------------------
\* The invariant that the two properties follow from.
THEOREM Invariance == Spec => []IInv
  BY InitIInv, NextKeeps, PTL DEF Spec

\* Every variable keeps its type, for any number of calls.
THEOREM TypeCorrect == Spec => []TypeOK
<1>1. IInv => TypeOK
  BY DEF IInv
<1> QED
  BY <1>1, Invariance, PTL

\* A success is a whole gist, and an update that succeeded was applied; what was
\* refused, and an update without a token, never is.
THEOREM SuccessesTrue == Spec => []SuccessTrue
<1>1. IInv => SuccessTrue
  BY DEF IInv, Told, Upstream, Allowed, SuccessTrue
<1> QED
  BY <1>1, Invariance, PTL

\* A failure is a timeout exactly when the timer fired, before or after the
\* headers, and is never the bare error of the transport.
THEOREM FailuresTold == Spec => []FailureTold
<1>1. IInv => FailureTold
  BY DEF IInv, Told, FailureTold
<1> QED
  BY <1>1, Invariance, PTL
==================================================================================
