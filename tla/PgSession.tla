-------------------------------- MODULE PgSession --------------------------------
(***************************************************************************)
(* One tool call of the postgres-readonly server: withClient opens a       *)
(* connection, pins the session's settings, runs the tool's statements one *)
(* after another and ends the connection, whatever happened.  The backend, *)
(* the network and the two client timers interleave with it.  ByteGuard    *)
(* models the guard on the socket byte by byte; here a chunk completes a   *)
(* number of messages and may end after the header of one more.            *)
(***************************************************************************)
EXTENDS Integers, SequencesExt

CONSTANTS
  maxRows, maxResultBytes,
  messageLimit,     \* messageLimitFor(maxResultBytes)
  ChunkBytes,       \* what one read of the socket brings
  RowBytes,         \* the sizes of a row
  MaxResult,        \* bound on the rows a query finds
  Requested,        \* the limits asked of sample_rows
  MaxSample,        \* the largest limit it grants
  None

ASSUME ConstantsAssumption ==
  /\ maxRows \in Nat \ {0} /\ maxResultBytes \in Nat \ {0}
  /\ messageLimit \in Nat /\ maxResultBytes <= messageLimit
  /\ ChunkBytes \in Nat /\ ChunkBytes <= messageLimit
  /\ RowBytes \subseteq Nat /\ MaxResult \in Nat
  /\ Requested \subseteq Nat \ {0} /\ MaxSample \in Nat \ {0}

VARIABLES
  call,      \* the tool, and what the database has for it
  phase,     \* "idle", "connecting", "running", "ending" or "done"
  step,      \* the statement awaited, an index of Script
  got,       \* the rows of its reply parsed so far
  kept,      \* the rows of the tool's query, once it resolved
  limited,   \* limitResponse is in force
  refused,   \* the guard's: the stream was refused
  begun,     \* the guard's: it has read the header of the first message of wire
  answer,    \* what the tool returns, or None
  sock,      \* the client's end: "none", "connecting", "open" or "closed"
  request,   \* a statement on its way to the backend, or None
  wire,      \* messages on their way to the client
  backend,   \* "none", "idle", "busy" or "gone"
  running,   \* the statement the backend executes, or None
  pins       \* the settings in force in its session

toolVars    == <<step, got, kept, limited, refused, begun, answer>>
backendVars == <<backend, running, pins>>
vars        == <<call, phase, toolVars, sock, request, wire, backendVars>>

--------------------------------------------------------------------------------
\* A session is right for user SQL when all of these are in force.
Settings == {"statement_timeout", "default_transaction_read_only",
             "standard_conforming_strings", "DateStyle", "IntervalStyle",
             "bytea_output", "extra_float_digits"}

\* Mutant: the session inherits how it reads string literals.
PinsWithoutStrings == <<"statement_timeout", "default_transaction_read_only",
          "DateStyle", "IntervalStyle", "bytea_output", "extra_float_digits">>

\* Mutant: only the client bounds a query.
PinsWithoutTimeout == <<"default_transaction_read_only",
          "standard_conforming_strings", "DateStyle", "IntervalStyle",
          "bytea_output", "extra_float_digits">>

Pins == <<"statement_timeout", "default_transaction_read_only",
          "standard_conforming_strings", "DateStyle", "IntervalStyle",
          "bytea_output", "extra_float_digits">>

Body == [run_select      |-> <<"BEGIN", "DECLARE", "FETCH", "COMMIT">>,
         explain         |-> <<"EXPLAIN">>,
         sample_rows     |-> <<"SELECT">>,
         describe_schema |-> <<"tables", "columns">>]

UserSQL    == {"DECLARE", "FETCH", "EXPLAIN", "SELECT"}
Main       == {"FETCH", "EXPLAIN", "SELECT", "columns"}
Statements == Settings \cup UserSQL \cup {"BEGIN", "COMMIT", "tables", "columns", "types"}

Rows == BoundedSeq([kind : {"row"}, bytes : RowBytes], MaxResult)

\* arrays: some column may hold arrays that pg has no parser for; dups: two
\* columns have one name; width: what quoting multiplies a listed name by.
Calls ==
  { c \in [tool : DOMAIN Body, rows : Rows, error : {"none", "small", "huge"},
           arrays : BOOLEAN, dups : BOOLEAN, requested : Requested, width : {1, 6}] :
      /\ c.tool = "describe_schema" => ~c.arrays
      /\ c.tool # "run_select" => ~c.dups
      /\ c.tool # "describe_schema" => c.width = 1
      /\ c.tool = "describe_schema" => c.error = "none"
      /\ c.tool # "sample_rows" => c.requested = CHOOSE n \in Requested : TRUE
      /\ c.rows = <<>> => ~c.arrays }

Script == Pins \o Body[call.tool] \o (IF call.arrays THEN <<"types">> ELSE <<>>)

Least(a, b) == IF a <= b THEN a ELSE b
First(n, s) == SubSeq(s, 1, Least(n, Len(s)))

\* The bytes of the messages of s.
Sum(s) ==
  LET total[n \in 0..Len(s)] == IF n = 0 THEN 0 ELSE total[n - 1] + s[n].bytes
  IN  total[Len(s)]

Answer == [kind : {"ok", "tooLarge", "error"}, rows : Rows, truncated : BOOLEAN]
Ok(rows, truncated) == [kind |-> "ok", rows |-> rows, truncated |-> truncated]
TooLarge == [kind |-> "tooLarge", rows |-> <<>>, truncated |-> FALSE]
Error    == [kind |-> "error", rows |-> <<>>, truncated |-> FALSE]

ASSUME NoneAssumption == None \notin Answer /\ None \notin Statements

Ready == [kind |-> "ready", bytes |-> 0]
Failure(n) == [kind |-> "failure", bytes |-> n]
Capped == [kind |-> "capped", bytes |-> 0]      \* the byte cap's failing cast
IsRow(m)   == m.kind = "row"
TooLong(m) == m.bytes > messageLimit

TypeOK ==
  /\ call \in Calls
  /\ phase \in {"idle", "connecting", "running", "ending", "done"}
  /\ step \in 0..Len(Script)
  /\ got \in Rows /\ kept \in Rows
  /\ limited \in BOOLEAN /\ refused \in BOOLEAN /\ begun \in BOOLEAN
  /\ answer \in Answer \cup {None}
  /\ sock \in {"none", "connecting", "open", "closed"}
  /\ request \in Statements \cup {"Terminate", None}
  /\ wire \in Seq([kind : {"row", "ready", "failure", "capped"},
                   bytes : RowBytes \cup {0, messageLimit + 1}])
  /\ backend \in {"none", "idle", "busy", "gone"}
  /\ running \in Statements \cup {None}
  /\ pins \in SUBSET Settings

Init ==
  /\ call \in Calls
  /\ phase = "idle" /\ step = 0
  /\ got = <<>> /\ kept = <<>> /\ limited = FALSE /\ refused = FALSE /\ begun = FALSE
  /\ answer = None
  /\ sock = "none" /\ request = None /\ wire = <<>>
  /\ backend = "none" /\ running = None /\ pins = {}

--------------------------------------------------------------------------------
(* The tool: withClient and what runs inside it.                           *)

\* The arguments, the SQL guard or validateDbConfig refuse the call.
Reject ==
  /\ phase = "idle"
  /\ phase' = "done" /\ answer' = Error
  /\ UNCHANGED <<call, step, got, kept, limited, refused, begun, sock, request, wire, backendVars>>

Connect ==
  /\ phase = "idle"
  /\ phase' = "connecting" /\ sock' = "connecting"
  /\ UNCHANGED <<call, toolVars, request, wire, backendVars>>

\* connect() rejects, or its timer fires: it is outside the try, and pg has
\* destroyed the socket.
ConnectFails ==
  /\ phase = "connecting"
  /\ phase' = "done" /\ answer' = Error
  /\ sock' = "closed"
  /\ UNCHANGED <<call, step, got, kept, limited, refused, begun, request, wire, backendVars>>

Send(n) ==
  /\ phase' = "running"
  /\ step' = n
  /\ request' = Script[n]
  /\ got' = <<>>
  /\ limited' = (Script[n] = "EXPLAIN")
  /\ UNCHANGED answer

Connected ==
  /\ phase = "connecting"
  /\ backend = "idle"
  /\ sock' = "open"
  /\ Send(1)
  /\ UNCHANGED <<call, kept, refused, begun, wire, backendVars>>

\* The tool's body returns or throws, and `finally` calls client.end().
Leave(a) ==
  /\ phase' = "ending" /\ answer' = a
  /\ limited' = FALSE
  /\ request' = IF sock' = "open" THEN "Terminate" ELSE request
  /\ UNCHANGED step

\* So when the query that is awaited has ended, with these rows parsed.
Done(a, rows) == Leave(a) /\ got' = rows

Listing(rows) == call.width * Sum(rows) <= maxResultBytes

\* What the tool makes of its rows after its last statement.
Payload(rows) ==
  CASE call.tool = "describe_schema" -> IF Listing(rows) THEN Ok(rows, FALSE) ELSE TooLarge
    [] call.tool = "sample_rows"     -> Ok(rows, FALSE)
    [] call.dups                     -> Error
    [] OTHER                         -> Ok(First(maxRows, rows), Len(rows) > maxRows)

\* Mutant: only a rejected EXPLAIN is checked against the guard.
ResolveUnchecked(rows) ==
  IF step < Len(Script)
  THEN Send(step + 1) /\ kept' = IF Script[step] \in Main THEN rows ELSE kept
  ELSE /\ kept' = IF Script[step] \in Main THEN rows ELSE kept
       /\ Done(Payload(kept'), rows)

\* The query that is awaited resolves with these rows.
Resolve(rows) ==
  /\ kept' = IF Script[step] \in Main THEN rows ELSE kept
  /\ IF Script[step] = "EXPLAIN" /\ refused' THEN Done(TooLarge, rows)
     ELSE IF Script[step] = "tables" /\ rows = <<>> THEN Done(Ok(<<>>, FALSE), rows)
     ELSE IF step < Len(Script) THEN Send(step + 1)
     ELSE Done(Payload(kept'), rows)

\* It rejects, with these rows parsed.
Throw(a, rows) == Done(a, rows) /\ UNCHANGED kept

\* The guard's total covers the rows of a limited response only, from their
\* headers on.
Over(rows) == limited /\ Sum(rows) > maxResultBytes

\* A chunk that reaches into message k, and completes it when `whole`; the header
\* of the first message may have come before.  The guard reads the chunk first and
\* destroys the stream at the header of a message over a bound, but the parser
\* still gets the chunk; a message over messageLimit is longer than a chunk.  (What
\* follows the end of a reply is left for the next query to meet.)
Receive(k, whole) ==
  /\ phase = "running" /\ sock = "open"
  /\ \A i \in 1..(k - 1) : IsRow(wire[i]) /\ ~TooLong(wire[i])
  /\ whole => ~TooLong(wire[k])
  /\ begun /\ k = 1 => whole
  /\ Sum(SubSeq(wire, IF begun THEN 2 ELSE 1, IF whole THEN k ELSE k - 1)) <= ChunkBytes
  /\ LET Upto(n) == got \o First(n, wire)
         rows == Upto(IF whole /\ IsRow(wire[k]) THEN k ELSE k - 1)
         cut  == TooLong(wire[k]) \/ Over(Upto(IF IsRow(wire[k]) THEN k ELSE k - 1))
         last == IF whole THEN wire[k].kind ELSE "unparsed"
     IN /\ refused' = (refused \/ cut)
        /\ sock' = IF cut THEN "closed" ELSE sock
        /\ wire' = IF cut THEN <<>> ELSE SubSeq(wire, IF whole THEN k + 1 ELSE k, Len(wire))
        /\ begun' = (~whole /\ ~cut)
        /\ CASE last = "ready"   -> Resolve(rows)
             [] last = "capped"  -> Throw(TooLarge, rows)
             [] last = "failure" -> Throw(Error, rows)
             [] OTHER ->
                  IF cut THEN Throw(TooLarge, rows)
                  ELSE got' = rows /\ UNCHANGED <<phase, step, kept, limited, answer, request>>
  /\ UNCHANGED <<call, backendVars>>

\* Mutant: the client trusts the server's timeout.
QueryTimeoutLate ==
  /\ phase = "running"
  /\ wire # <<>>
  /\ sock' = "closed" /\ wire' = <<>> /\ begun' = FALSE
  /\ Throw(Error, got)
  /\ UNCHANGED <<call, refused, backendVars>>

\* pg's query_timeout: the query is still active, so end() destroys the socket.
QueryTimeout ==
  /\ phase = "running"
  /\ sock' = "closed" /\ wire' = <<>> /\ begun' = FALSE
  /\ Throw(Error, got)
  /\ UNCHANGED <<call, refused, backendVars>>

\* The connection is reset, or the backend's end of it arrives.
ConnectionLost ==
  /\ sock = "open"
  /\ sock' = "closed" /\ wire' = <<>> /\ begun' = FALSE
  /\ IF phase = "running" THEN Throw(Error, got)
     ELSE UNCHANGED <<phase, step, got, kept, limited, answer, request>>
  /\ UNCHANGED <<call, refused, backendVars>>

\* client.end() resolves once the socket is closed, and no timer bounds it: a
\* database that takes the Terminate and does not close is waited for.
End ==
  /\ phase = "ending"
  /\ sock = "closed"
  /\ phase' = "done"
  /\ UNCHANGED <<call, toolVars, sock, request, wire, backendVars>>

--------------------------------------------------------------------------------
(* The database.                                                           *)

Accept ==
  /\ sock = "connecting" /\ backend = "none"
  /\ backend' = "idle"
  /\ UNCHANGED <<call, phase, toolVars, sock, request, wire, running, pins>>

Execute ==
  /\ backend = "idle" /\ request # None
  /\ request' = None
  /\ IF request = "Terminate" THEN backend' = "gone" /\ UNCHANGED running
                              ELSE backend' = "busy" /\ running' = request
  /\ UNCHANGED <<call, phase, toolVars, sock, wire, pins>>

\* Mutant: the row that tells of more rows is not fetched.
FetchExact == maxRows

FetchCount == maxRows + 1

Limit(requested) == Least(requested, Least(MaxSample, maxRows))

\* byteCappedQuery: rows are sent until their total passes the cap.
Cap(rows) ==
  LET within == { n \in 0..Len(rows) : Sum(First(n, rows)) <= maxResultBytes }
      most   == CHOOSE n \in within : \A o \in within : o <= n
  IN IF most = Len(rows) THEN Append(rows, Ready) ELSE Append(First(most, rows), Capped)

\* An error of the query itself comes after its rows.
WithError(messages) ==
  CASE call.error = "none"  -> messages
    [] call.error = "small" -> Append(Front(messages), Failure(0))
    [] call.error = "huge"  -> Append(Front(messages), Failure(messageLimit + 1))

Output(statement) ==
  CASE statement = "FETCH"   -> WithError(Cap(First(FetchCount, call.rows)))
    [] statement = "SELECT"  -> WithError(Cap(First(Limit(call.requested), call.rows)))
    [] statement = "EXPLAIN" -> WithError(Append(call.rows, Ready))
    [] statement \in {"tables", "columns"} -> Cap(call.rows)
    [] OTHER -> <<Ready>>

Reply(messages) ==
  /\ backend' = "idle" /\ running' = None
  /\ wire' = IF sock = "open" THEN wire \o messages ELSE wire
  /\ UNCHANGED <<call, phase, toolVars, sock, request>>

Finish ==
  /\ backend = "busy"
  /\ pins' = pins \cup ({running} \cap Settings)
  /\ Reply(Output(running))

\* Any statement can fail or be cancelled.
Fail ==
  /\ backend = "busy"
  /\ Reply(<<Failure(0)>>)
  /\ UNCHANGED pins

\* The backend is killed, and may say so before it goes.
Die ==
  /\ backend \in {"idle", "busy"}
  /\ backend' = "gone" /\ running' = None
  /\ \E last \in {<<>>, <<Failure(0)>>} : wire' = IF sock = "open" THEN wire \o last ELSE wire
  /\ UNCHANGED <<call, phase, toolVars, sock, request, pins>>

\* An idle backend reads the end of the connection.
Notice ==
  /\ sock = "closed" /\ backend = "idle"
  /\ backend' = "gone"
  /\ UNCHANGED <<call, phase, toolVars, sock, request, wire, running, pins>>

Next ==
  \/ Reject \/ Connect \/ ConnectFails \/ Connected
  \/ \E k \in 1..Len(wire), whole \in BOOLEAN : Receive(k, whole)
  \/ QueryTimeout \/ ConnectionLost \/ End
  \/ Accept \/ Execute \/ Finish \/ Fail \/ Die \/ Notice

Spec == Init /\ [][Next]_vars

\* The client's timers fire, and end() resolves once the socket is closed; a
\* backend sees its connection end, cancels at its statement_timeout and sets a
\* setting.  Nothing says that a statement of the user ever finishes, that a reply
\* comes, that a Terminate is read or that the database closes the connection.
Fairness ==
  /\ WF_vars(ConnectFails) /\ WF_vars(QueryTimeout) /\ WF_vars(End)
  /\ WF_vars(Notice)
  /\ WF_vars("statement_timeout" \in pins /\ Fail)
  /\ WF_vars(running \in Settings /\ Finish)

FairSpec == Spec /\ Fairness

--------------------------------------------------------------------------------
(* Properties.                                                             *)

\* No statement of the user runs in a session that lacks one of the settings,
\* whatever failed or was late before it (the SETs of withClient).
PinnedFirst ==
  running \in UserSQL => Settings \subseteq pins

\* A successful answer has exactly the first maxRows of the rows the query
\* finds and says truthfully whether there are more; a sample has what its
\* limit asked for, "capped at min(50, MAX_ROWS)" (server.ts:97).
RowsExact ==
  answer # None /\ answer.kind = "ok" =>
    CASE call.tool \in {"run_select", "explain"} ->
           /\ answer.rows = First(maxRows, call.rows)
           /\ answer.truncated <=> Len(call.rows) > maxRows
      [] call.tool = "sample_rows" ->
           answer.rows = First(Least(call.requested, Least(MaxSample, maxRows)), call.rows)
      [] OTHER -> answer.rows = call.rows

\* No answer blames the size of a result when the rows that were asked for are
\* within the bounds and no error message was over its own.
TooLargeTrue ==
  answer = TooLarge =>
    \/ call.error = "huge"
    \/ LET asked == CASE call.tool = "run_select"  -> maxRows + 1
                      [] call.tool = "sample_rows" -> Least(call.requested, Least(MaxSample, maxRows))
                      [] OTHER -> Len(call.rows)
       IN call.width * Sum(First(asked, call.rows)) > maxResultBytes

\* What run_select, sample_rows and describe_schema answer is true, of the rows
\* they return and of the size they refuse.
AnswerTrue == RowsExact /\ TooLargeTrue

\* A successful answer keeps to MAX_RESULT_BYTES, also an EXPLAIN whose rows
\* arrived whole in the chunk that was refused, and a listing as it is written.
AnswerBounded ==
  answer # None /\ answer.kind = "ok" => call.width * Sum(answer.rows) <= maxResultBytes

\* What the process holds of a reply, the rows parsed and the row whose start has
\* come, keeps to MAX_RESULT_BYTES; the rows of an EXPLAIN may pass it in the chunk
\* that is refused, and then by no more than one read of the socket, also when the
\* query resolved with them.  No more rows are fetched than the one over MAX_ROWS.
MemoryBounded ==
  LET held == IF begun /\ IsRow(wire[1]) THEN Append(got, wire[1]) ELSE got
      most == maxResultBytes + (IF refused THEN ChunkBytes ELSE 0)
  IN  /\ Sum(held) <= most /\ Sum(kept) <= most
      /\ call.tool \in {"run_select", "sample_rows"} => Len(got) <= maxRows + 1

\* Neither an answer nor what is held for it passes the configured bounds.
Bounded == AnswerBounded /\ MemoryBounded

\* The connection is left to the database to close.
Parting == phase = "ending" /\ sock = "open"

\* Every call that began to connect is answered, though the database may never say
\* a word, or else it waits for ever, its answer made, for the database to close
\* the connection after the Terminate (the await of client.end() has no timer).
Answered == (phase = "connecting" ~> phase = "done") \/ <>[]Parting

\* No backend stays behind for good, also when the client gave up on a query
\* that is running.
BackendFreed == phase = "done" ~> backend \in {"none", "gone"}
================================================================================
