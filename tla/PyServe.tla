--------------------------------- MODULE PyServe ---------------------------------
(***************************************************************************)
(* _serve of filesystem-sandbox-py: the loop over stdin that answers the   *)
(* requests which the MCP SDK would drop, beside the SDK's own session.    *)
(* The filter, the forwarder of its answers, the session and one task per  *)
(* request interleave at every await; a tool itself never awaits.  A line  *)
(* is known by what the two parsers find in it, a request by its number.   *)
(***************************************************************************)
EXTENDS Integers, Sequences, SequencesExt

CONSTANTS
  Lines,     \* the lines a client may send
  MaxLines   \* bound: how many it sends

LineFacts == [sdk : BOOLEAN,                          \* the SDK's parser takes it
              form : {"object", "array", "garbage"},
              method : BOOLEAN,                       \* "method" is a string
              id : {"none", "string", "lone", "int", "bool", "huge"},
              strings : {"plain", "lone"},            \* a lone surrogate somewhere
              integers : {"plain", "huge"},           \* past the limit of int()
              depth : {"flat", "deep", "abyss"}]      \* what json can dump and load

ASSUME LinesAssumption == Lines \subseteq LineFacts /\ MaxLines \in Nat

VARIABLES
  sent,       \* the lines the client has written
  eof,        \* the client has closed stdin
  filter,     \* "reading", "yielding" or "closed" (with answers_send)
  read,       \* how many lines the filter has read
  answers,    \* the stream from the filter to the forwarder
  forwarder,  \* "receiving", "sending", "done", or "failed" with an exception
  session,    \* server.run: "running" or "ended", with the stream to stdout closed
  task,       \* task[i]: "none", "started", "returned", "failed" or "over"
  writer,     \* stdout_writer: "idle", or "busy" with a reply it has taken
  stdout      \* the replies the writer has taken, in order

vars == <<sent, eof, filter, read, answers, forwarder, session, task, writer, stdout>>
serverVars == <<filter, read, answers, forwarder, session, task, writer, stdout>>

Ids == 1 .. MaxLines
Codes == {"invalid_request", "invalid_params"}
Replies == [id : Ids, what : Codes \cup {"result", "isError"}]

TypeOK ==
  /\ sent \in Seq(Lines) /\ Len(sent) <= MaxLines
  /\ eof \in BOOLEAN
  /\ filter \in {"reading", "yielding", "closed"}
  /\ read \in 0 .. Len(sent)
  /\ answers \in Seq(Replies)
  /\ forwarder \in {"receiving", "sending", "done", "failed"}
  /\ session \in {"running", "ended"}
  /\ task \in [Ids -> {"none", "started", "returned", "failed", "over"}]
  /\ writer \in {"idle", "busy"}
  /\ stdout \in Seq(Replies)

Init ==
  /\ sent = <<>> /\ eof = FALSE
  /\ filter = "reading" /\ read = 0
  /\ answers = <<>> /\ forwarder = "receiving"
  /\ session = "running" /\ task = [i \in Ids |-> "none"]
  /\ writer = "idle" /\ stdout = <<>>

----------------------------------------------------------------------------
(* _undeliverable_request                                                  *)

\* json.loads with _parse_int reads integers of any length.
Loads(l) == l.form # "garbage" /\ l.depth # "abyss"

\* The id it can answer to: a number it could convert, or a string it can write.
IdReadable(l) == l.id \in {"string", "int"}

\* Mutant: the SDK's parser is not asked first.
UndeliverableUnasked(l) == Loads(l) /\ l.form = "object" /\ l.method /\ IdReadable(l)

Undeliverable(l) ==
  /\ ~l.sdk
  /\ Loads(l) /\ l.form = "object" /\ l.method
  /\ IdReadable(l)

\* json.dumps fails on what is too deep: then no surrogate is looked for.
Code(l) == IF l.depth = "flat" /\ l.strings = "lone" THEN "invalid_params"
           ELSE "invalid_request"

----------------------------------------------------------------------------
(* The client                                                              *)

Send ==
  /\ ~eof /\ Len(sent) < MaxLines
  /\ \E l \in Lines : sent' = Append(sent, l)
  /\ UNCHANGED <<eof, serverVars>>

CloseStdin == ~eof /\ eof' = TRUE /\ UNCHANGED <<sent, serverVars>>

----------------------------------------------------------------------------
(* _answer_undeliverable and forward_answers                               *)

\* The stream to the forwarder has no bound, so sending to it never waits.  A
\* forwarder that waits is handed the answer, and hands it on before the worker
\* thread that reads stdin has the next line: a writer that waits takes it.
Answer(reply) ==
  IF answers = <<>> /\ writer = "idle"
  THEN /\ stdout' = Append(stdout, reply) /\ writer' = "busy"
       /\ UNCHANGED <<answers, forwarder>>
  ELSE /\ answers' = Append(answers, reply)
       /\ forwarder' = IF answers = <<>> THEN "sending" ELSE forwarder
       /\ UNCHANGED <<writer, stdout>>

ReadLine ==
  /\ filter = "reading" /\ read < Len(sent)
  /\ read' = read + 1
  /\ LET l == sent[read'] IN
       \/ /\ Undeliverable(l)
          /\ Answer([id |-> read', what |-> Code(l)])
          /\ UNCHANGED filter
       \/ /\ ~Undeliverable(l)
          /\ filter' = "yielding"
          /\ UNCHANGED <<answers, forwarder, writer, stdout>>
  /\ UNCHANGED <<sent, eof, session, task>>

\* "async with answers" closes the stream behind the last line.
EndOfInput ==
  /\ filter = "reading" /\ eof /\ read = Len(sent)
  /\ filter' = "closed"
  /\ UNCHANGED <<sent, eof, read, answers, forwarder, session, task, writer, stdout>>

\* The next of the answers that have piled up.  The stream to stdout is the one
\* the session has: sending to it fails once the session has closed it.
Receive ==
  /\ forwarder = "receiving" /\ answers # <<>>
  /\ forwarder' = IF session = "running" THEN "sending" ELSE "failed"
  /\ UNCHANGED <<sent, eof, filter, read, answers, session, task, writer, stdout>>

\* The writer of stdout takes what was offered, also when no more can be.
Forward ==
  /\ forwarder = "sending" /\ writer = "idle" /\ writer' = "busy"
  /\ stdout' = Append(stdout, Head(answers))
  /\ answers' = Tail(answers)
  /\ forwarder' = "receiving"
  /\ UNCHANGED <<sent, eof, filter, read, session, task>>

\* Mutant: the forwarder is stopped when the input ends, whatever it still holds.
ForwarderStopped ==
  /\ forwarder \in {"receiving", "sending"} /\ filter = "closed"
  /\ forwarder' = "done"
  /\ UNCHANGED <<sent, eof, filter, read, answers, session, task, writer, stdout>>

ForwarderEnds ==
  /\ forwarder = "receiving" /\ answers = <<>> /\ filter = "closed"
  /\ forwarder' = "done"
  /\ UNCHANGED <<sent, eof, filter, read, answers, session, task, writer, stdout>>

----------------------------------------------------------------------------
(* The SDK's session, and the tools it calls                               *)

\* stdout has the reply: the writer takes the next.
Written ==
  /\ writer = "busy" /\ writer' = "idle"
  /\ UNCHANGED <<sent, eof, filter, read, answers, forwarder, session, task, stdout>>

\* A line the SDK rejects is logged; a notification needs no answer; a request
\* gets a task.
IsRequest(l) == l.sdk /\ l.method /\ l.id # "none"

Deliver ==
  /\ filter = "yielding"
  /\ filter' = "reading"
  /\ task' = [task EXCEPT ![read] = IF IsRequest(sent[read]) THEN "started" ELSE @]
  /\ UNCHANGED <<sent, eof, read, answers, forwarder, session, writer, stdout>>

\* _call_tool and _dispatch_tool: whatever the tool raises becomes an error text.
CallTool(i) ==
  /\ session = "running" /\ task[i] = "started"
  /\ \E end \in {"returned", "failed"} : task' = [task EXCEPT ![i] = end]
  /\ UNCHANGED <<sent, eof, filter, read, answers, forwarder, session, writer, stdout>>

\* _wrap_dispatch_result carries the error decision into the reply.
Respond(i) ==
  /\ session = "running" /\ task[i] \in {"returned", "failed"}
  /\ writer = "idle" /\ writer' = "busy"
  /\ stdout' = Append(stdout, [id |-> i,
                 what |-> IF task[i] = "failed" THEN "isError" ELSE "result"])
  /\ task' = [task EXCEPT ![i] = "over"]
  /\ UNCHANGED <<sent, eof, filter, read, answers, forwarder, session>>

\* When its lines end, server.run closes both its streams, the one to stdout too,
\* cancels the tasks in flight and returns; _serve still waits for the forwarder.
SessionEnds ==
  /\ filter = "closed" /\ session = "running"
  /\ session' = "ended"
  /\ task' = [i \in Ids |-> IF task[i] = "none" THEN "none" ELSE "over"]
  /\ UNCHANGED <<sent, eof, filter, read, answers, forwarder, writer, stdout>>

\* _serve returns when both have ended, or raises what the forwarder raised; a
\* reply the writer has taken is written first.
Exited == session = "ended" /\ forwarder \in {"done", "failed"} /\ writer = "idle"

Next ==
  \/ Send \/ CloseStdin
  \/ ReadLine \/ EndOfInput \/ Receive \/ Forward \/ ForwarderEnds
  \/ Deliver \/ Written \/ SessionEnds
  \/ \E i \in Ids : CallTool(i) \/ Respond(i)
  \/ Exited /\ UNCHANGED vars

Spec == Init /\ [][Next]_vars

\* The event loop runs every task that can go on, and stdout is read; nothing is
\* assumed of the client's sending.
FairSpec ==
  /\ Spec
  /\ WF_vars(ReadLine) /\ WF_vars(EndOfInput) /\ WF_vars(Receive)
  /\ WF_vars(Forward) /\ WF_vars(ForwarderEnds)
  /\ WF_vars(Deliver) /\ WF_vars(Written) /\ WF_vars(SessionEnds)
  /\ \A i \in Ids : WF_vars(CallTool(i)) /\ WF_vars(Respond(i))

----------------------------------------------------------------------------
(* What a client may rely on                                               *)

Replied(i) == \E n \in DOMAIN stdout : stdout[n].id = i

\* A line is answered at most once and by the right party: with the outcome of
\* its tool when the SDK takes the line, with a protocol error ("no tool was
\* called") when no tool can have seen it (server.py:306, 373).
AnswersTrue ==
  /\ IsInjective([n \in DOMAIN stdout |-> stdout[n].id])
  /\ \A n \in DOMAIN stdout :
       LET i == stdout[n].id IN
       IF stdout[n].what \in Codes
       THEN ~sent[i].sdk /\ task[i] = "none"
       ELSE sent[i].sdk

\* A line that holds a request a client could wait for: a method, and an id that
\* can be written back.
Awaited(l) ==
  /\ l.form = "object" /\ l.depth # "abyss" /\ l.method
  /\ l.id \notin {"none", "lone", "bool", "huge"}

\* Its answer was piled up behind an earlier one when the input ended.
PiledUp(i) ==
  forwarder = "failed" /\ \E j \in 1 .. (i - 1) : Undeliverable(sent[j]) /\ Replied(j)

MayBeLost(i) == eof /\ i \in DOMAIN sent /\ (sent[i].sdk \/ PiledUp(i))

\* A client that waits gets its answer, whatever else is in flight, unless the
\* input ends: then a request the SDK has taken may be lost, and of those it
\* rejects the ones whose answers wait behind an earlier one, never the first
\* (the comment at server.py:418 promises the last one too).
Answered ==
  \A i \in Ids : (i \in DOMAIN sent /\ Awaited(sent[i])) ~> (Replied(i) \/ MayBeLost(i))
==================================================================================
