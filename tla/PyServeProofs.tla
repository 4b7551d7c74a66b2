------------------------------ MODULE PyServeProofs ------------------------------
(***************************************************************************)
(* Every reply of the Python port comes once and from the right party, and *)
(* none to a rejected request is forgotten, for every set of lines, every  *)
(* length of a session and every interleaving of its tasks.                *)
(***************************************************************************)
EXTENDS PyServe, TLAPS

\* The two streams of replies together answer a line at most once.
OnceEach(replies) ==
  \A m, n \in DOMAIN replies : replies[m].id = replies[n].id => m = n

Once ==
  /\ OnceEach(answers) /\ OnceEach(stdout)
  /\ \A m \in DOMAIN answers, n \in DOMAIN stdout : answers[m].id # stdout[n].id

\* The filter's answers are to lines it has read and the SDK rejects.
Refusal(r) == r.id <= read /\ r.what \in Codes /\ Undeliverable(sent[r.id])

\* Any other reply ends the task of a line that the SDK has taken.
Outcome(r) == r.id <= read /\ r.what \notin Codes /\ sent[r.id].sdk /\ task[r.id] = "over"

Parties ==
  /\ \A n \in DOMAIN answers : Refusal(answers[n])
  /\ \A n \in DOMAIN stdout : Refusal(stdout[n]) \/ Outcome(stdout[n])

\* A task belongs to a line that was read, taken and handed over.
Tasks ==
  \A i \in Ids : task[i] # "none" =>
     i <= read /\ sent[i].sdk /\ (filter = "yielding" => i # read)

\* Where the filter and the forwarder are.
Places ==
  /\ filter = "yielding" => read \in Ids
  /\ filter = "closed" => eof /\ read = Len(sent)
  /\ forwarder = "sending" => answers # <<>>
  /\ forwarder = "done" => answers = <<>> /\ filter = "closed"
  /\ forwarder = "failed" => filter = "closed"
  /\ session = "ended" => filter = "closed"

\* A rejected request that was read is answered, or waits to be.
Remembered ==
  \A i \in 1 .. read : Undeliverable(sent[i]) =>
     \/ \E n \in DOMAIN answers : answers[n].id = i
     \/ Replied(i)

\* The answers wait in the order of their lines.
Increasing == \A m, n \in DOMAIN answers : m < n => answers[m].id < answers[n].id

\* An answer that is not on offer waits behind one that was written.
Behind ==
  forwarder \in {"receiving", "failed"} =>
    \A n \in DOMAIN answers :
      \E j \in Ids : j < answers[n].id /\ Undeliverable(sent[j]) /\ Replied(j)

IInv == TypeOK /\ Once /\ Parties /\ Tasks /\ Places /\ Remembered /\ Increasing /\ Behind

\* When the server exits, a request that could be answered and has no answer is one
\* the SDK took, or one whose answer waited behind an earlier one when the input
\* ended.
NoneForgotten ==
  Exited => \A i \in DOMAIN sent : Awaited(sent[i]) => Replied(i) \/ MayBeLost(i)

--------------------------------------------------------------------------------
(* One step of a stream.                                                   *)

\* What an appended reply does to a stream.
LEMMA AppendReplies ==
  ASSUME NEW s \in Seq(Replies), NEW r \in Replies
  PROVE  /\ Append(s, r) \in Seq(Replies)
         /\ DOMAIN Append(s, r) = DOMAIN s \cup {Len(s) + 1}
         /\ Len(s) + 1 \notin DOMAIN s
         /\ Append(s, r)[Len(s) + 1] = r
         /\ \A n \in DOMAIN s : Append(s, r)[n] = s[n]
OBVIOUS

\* A reply with a new number may be appended.
LEMMA AppendOnce ==
  ASSUME NEW s \in Seq(Replies), NEW r \in Replies, OnceEach(s),
         \A n \in DOMAIN s : s[n].id # r.id
  PROVE  OnceEach(Append(s, r))
<1>1. /\ DOMAIN Append(s, r) = DOMAIN s \cup {Len(s) + 1}
      /\ Append(s, r)[Len(s) + 1] = r
      /\ \A n \in DOMAIN s : Append(s, r)[n] = s[n]
  BY AppendReplies
<1> QED
  BY <1>1, Zenon DEF OnceEach

\* What is left of a stream when its head is taken.
LEMMA TailReplies ==
  ASSUME NEW s \in Seq(Replies), s # <<>>
  PROVE  /\ Head(s) = s[1] /\ 1 \in DOMAIN s
         /\ Tail(s) \in Seq(Replies)
         /\ \A n \in DOMAIN Tail(s) : n + 1 \in DOMAIN s /\ Tail(s)[n] = s[n + 1]
         /\ \A n \in DOMAIN s : n # 1 => n - 1 \in DOMAIN Tail(s) /\ Tail(s)[n - 1] = s[n]
OBVIOUS

\* A reply is to a line that may be sent.
LEMMA ReplyIds ==
  ASSUME NEW s \in Seq(Replies)
  PROVE  \A n \in DOMAIN s : s[n] \in Replies /\ s[n].id \in Ids /\ s[n].id \in Nat \ {0}
<1>1. \A n \in DOMAIN s : s[n] \in Replies
  OBVIOUS
<1>2. \A r \in Replies : r.id \in Ids
  BY DEF Replies
<1>3. \A i \in Ids : i \in Nat \ {0}
  BY LinesAssumption DEF Ids
<1> QED
  BY <1>1, <1>2, <1>3

LEMMA InitIInv == Init => IInv
<1> SUFFICES ASSUME Init PROVE IInv
  OBVIOUS
<1>1. TypeOK
  <2>1. sent = <<>> /\ answers = <<>> /\ stdout = <<>> /\ read = 0 /\ MaxLines \in Nat
    BY LinesAssumption DEF Init
  <2>2. sent \in Seq(Lines) /\ Len(sent) = 0
    BY <2>1
  <2>3. answers \in Seq(Replies) /\ stdout \in Seq(Replies)
    BY <2>1
  <2>4. task \in [Ids -> {"none", "started", "returned", "failed", "over"}]
    BY DEF Init
  <2>5. Len(sent) <= MaxLines /\ read \in 0 .. Len(sent)
    BY <2>1, <2>2
  <2>6. /\ eof \in BOOLEAN /\ filter \in {"reading", "yielding", "closed"}
        /\ forwarder \in {"receiving", "sending", "done", "failed"}
        /\ session \in {"running", "ended"} /\ writer \in {"idle", "busy"}
    BY DEF Init
  <2> QED
    BY <2>2, <2>3, <2>4, <2>5, <2>6 DEF TypeOK
<1>2. read = 0 /\ answers = <<>> /\ stdout = <<>> /\ filter = "reading" /\ forwarder = "receiving"
  BY DEF Init
<1>3. Once /\ Parties
  BY <1>2 DEF Once, OnceEach, Parties
<1>4. Tasks /\ Places /\ Remembered
  BY <1>2 DEF Tasks, Places, Remembered, Init
<1>5. Increasing /\ Behind
  BY <1>2 DEF Increasing, Behind
<1> QED
  BY <1>1, <1>3, <1>4, <1>5 DEF IInv

--------------------------------------------------------------------------------
(* The client: what it sends changes no line that was read.                *)

LEMMA SendIInv ==
  ASSUME IInv, Send
  PROVE  IInv'
<1> USE LinesAssumption
<1>1. PICK l \in Lines : sent' = Append(sent, l)
  BY DEF Send
<1>2. /\ Len(sent) < MaxLines /\ ~eof
      /\ UNCHANGED <<eof, filter, read, answers, forwarder, session, task, writer, stdout>>
  BY DEF Send, serverVars
<1>3. /\ sent \in Seq(Lines) /\ Len(sent) \in Nat /\ read \in 0 .. Len(sent)
  BY DEF IInv, TypeOK
<1>4. /\ sent' \in Seq(Lines) /\ Len(sent') = Len(sent) + 1
      /\ \A i \in 1 .. Len(sent) : sent'[i] = sent[i]
  BY <1>1, <1>3
<1>5. \A i \in 1 .. read : sent'[i] = sent[i]
  BY <1>3, <1>4
<1>6. TypeOK'
  BY <1>2, <1>3, <1>4 DEF IInv, TypeOK
<1>7. Once'
  BY <1>2, Zenon DEF IInv, Once
<1>8. /\ \A n \in DOMAIN answers : answers[n].id \in Nat \ {0}
      /\ \A n \in DOMAIN stdout : stdout[n].id \in Nat \ {0}
  BY ReplyIds DEF IInv, TypeOK
<1>9. Parties'
  BY <1>2, <1>3, <1>5, <1>8 DEF IInv, Parties, Refusal, Outcome
<1>10. Tasks'
  BY <1>2, <1>3, <1>5 DEF IInv, Tasks, Ids
<1>11. Places'
  BY <1>2 DEF IInv, Places
<1>12. Remembered'
  BY <1>2, <1>5 DEF IInv, Remembered, Replied
<1>13. Increasing' /\ Behind'
  <2>1. \A n \in DOMAIN answers : answers[n].id \in 1 .. read
    BY <1>3, <1>8 DEF IInv, Parties, Refusal
  <2>2. \A j \in Ids, n \in DOMAIN answers : j < answers[n].id => j \in 1 .. read
    BY <1>3, <2>1 DEF Ids
  <2> QED
    BY <1>2, <1>5, <2>2 DEF IInv, Increasing, Behind, Replied
<1> QED
  BY <1>6, <1>7, <1>9, <1>10, <1>11, <1>12, <1>13 DEF IInv

LEMMA CloseStdinIInv ==
  ASSUME IInv, CloseStdin
  PROVE  IInv'
BY DEF IInv, TypeOK, Once, OnceEach, Parties, Refusal, Outcome, Tasks, Places,
   Remembered, Replied, Behind, Increasing, CloseStdin, serverVars

--------------------------------------------------------------------------------
(* The filter and the forwarder.                                           *)

\* A number that was not read yet is in neither stream, and has no task.
LEMMA Fresh ==
  ASSUME IInv
  PROVE  /\ \A n \in DOMAIN answers : answers[n].id # read + 1
         /\ \A n \in DOMAIN stdout : stdout[n].id # read + 1
<1>1. read \in Nat
  BY DEF IInv, TypeOK
<1>2. \A n \in DOMAIN answers : answers[n].id <= read
  BY DEF IInv, Parties, Refusal
<1>3. \A n \in DOMAIN stdout : stdout[n].id <= read
  BY DEF IInv, Parties, Refusal, Outcome
<1>4. ~(read + 1 <= read)
  BY <1>1
<1> QED
  BY <1>2, <1>3, <1>4

\* The answer to the next line goes straight to the writer.
HandedOn == Undeliverable(sent[read + 1]) /\ answers = <<>> /\ writer = "idle"

LEMMA ReadHandedOnIInv ==
  ASSUME IInv, ReadLine, HandedOn
  PROVE  IInv'
<1> USE LinesAssumption
<1> DEFINE r == [id |-> read + 1, what |-> Code(sent[read + 1])]
<1>1. /\ filter = "reading" /\ read < Len(sent) /\ read' = read + 1
      /\ answers = <<>> /\ Undeliverable(sent[read + 1])
      /\ stdout' = Append(stdout, r) /\ writer' = "busy"
      /\ UNCHANGED <<sent, eof, filter, answers, forwarder, session, task>>
  BY DEF ReadLine, Answer, HandedOn
<1>2. /\ sent \in Seq(Lines) /\ Len(sent) \in Nat /\ read \in 0 .. Len(sent)
      /\ Len(sent) <= MaxLines /\ stdout \in Seq(Replies)
  BY DEF IInv, TypeOK
<1>3. read + 1 \in Ids /\ read' \in 0 .. Len(sent)
  BY <1>1, <1>2 DEF Ids
<1>4. Code(sent[read + 1]) \in Codes
  BY DEF Code, Codes
<1>5. r \in Replies /\ r.id = read + 1 /\ r.what \in Codes
  BY <1>3, <1>4 DEF Replies
<1> HIDE DEF r
<1>6. /\ Append(stdout, r) \in Seq(Replies)
      /\ DOMAIN Append(stdout, r) = DOMAIN stdout \cup {Len(stdout) + 1}
      /\ Append(stdout, r)[Len(stdout) + 1] = r
      /\ \A n \in DOMAIN stdout : Append(stdout, r)[n] = stdout[n]
  BY <1>2, <1>5, AppendReplies
<1>7. TypeOK'
  BY <1>1, <1>3, <1>6 DEF IInv, TypeOK
<1>8. Once'
  <2>1. OnceEach(stdout')
    BY <1>1, <1>2, <1>5, Fresh, AppendOnce DEF IInv, Once
  <2> QED
    BY <1>1, <2>1 DEF Once, OnceEach
<1>9. Parties'
  <2>1. \A n \in DOMAIN stdout : stdout[n].id \in Int
    BY <1>2, ReplyIds
  <2>2. \A n \in DOMAIN stdout : (Refusal(stdout[n]) \/ Outcome(stdout[n]))
                                  => (Refusal(stdout[n])' \/ Outcome(stdout[n])')
    BY <1>1, <1>2, <1>6, <2>1 DEF Refusal, Outcome
  <2>3. r.id <= read' /\ r.what \in Codes /\ Undeliverable(sent'[r.id])
    BY <1>1, <1>2, <1>5
  <2>4. ASSUME NEW n \in DOMAIN stdout'
        PROVE  (Refusal(stdout[n]) \/ Outcome(stdout[n]))'
    <3>1. CASE n = Len(stdout) + 1
      BY <1>1, <1>6, <2>3, <3>1 DEF Refusal
    <3>2. CASE n # Len(stdout) + 1
      <4>1. n \in DOMAIN stdout /\ stdout'[n] = stdout[n]
        BY <1>1, <1>6, <3>2
      <4>2. Refusal(stdout[n]) \/ Outcome(stdout[n])
        BY <4>1 DEF IInv, Parties
      <4>3. stdout[n].id <= read'
        BY <1>1, <1>2, <2>1, <4>1, <4>2 DEF Refusal, Outcome
      <4> QED
        BY <1>1, <4>1, <4>2, <4>3 DEF Refusal, Outcome
    <3> QED
      BY <3>1, <3>2
  <2> QED
    BY <1>1, <2>4 DEF Parties
<1>10. Tasks' /\ Places'
  BY <1>1, <1>2 DEF IInv, Tasks, Places, Ids
<1>11. Remembered'
  <2>1. \A i \in 1 .. read' : i = read + 1 \/ i \in 1 .. read
    BY <1>1, <1>2
  <2>2. \E n \in DOMAIN stdout' : stdout'[n].id = read + 1
    BY <1>1, <1>5, <1>6
  <2>3. \A i \in 1 .. read : Undeliverable(sent[i]) => \E n \in DOMAIN stdout' : stdout'[n].id = i
    BY <1>1, <1>6 DEF IInv, Remembered, Replied
  <2> QED
    BY <1>1, <2>1, <2>2, <2>3 DEF Remembered, Replied
<1>12. Increasing' /\ Behind'
  BY <1>1 DEF Increasing, Behind
<1> QED
  BY <1>7, <1>8, <1>9, <1>10, <1>11, <1>12 DEF IInv

LEMMA ReadQueuedIInv ==
  ASSUME IInv, ReadLine, ~HandedOn
  PROVE  IInv'
<1> USE LinesAssumption
<1>1. /\ filter = "reading" /\ read < Len(sent) /\ read' = read + 1
      /\ UNCHANGED <<sent, eof, session, task, writer, stdout>>
  BY DEF ReadLine, Answer, HandedOn
<1>2. /\ sent \in Seq(Lines) /\ Len(sent) \in Nat /\ read \in 0 .. Len(sent)
      /\ Len(sent) <= MaxLines
  BY DEF IInv, TypeOK
<1>3. read' \in Ids /\ read' \in 0 .. Len(sent)
  BY <1>1, <1>2 DEF Ids
<1> DEFINE r == [id |-> read', what |-> Code(sent[read'])]
<1>4. Code(sent[read']) \in Codes
  BY DEF Code, Codes
<1>5. r \in Replies /\ r.id = read' /\ r.what \in Codes
  BY <1>3, <1>4 DEF Replies
<1>6. \/ /\ Undeliverable(sent[read'])
         /\ answers' = Append(answers, r) /\ filter' = filter
         /\ forwarder' = IF answers = <<>> THEN "sending" ELSE forwarder
      \/ /\ ~Undeliverable(sent[read'])
         /\ filter' = "yielding" /\ answers' = answers /\ forwarder' = forwarder
  BY DEF ReadLine, Answer, HandedOn
<1> HIDE DEF r
<1>7. answers \in Seq(Replies)
  BY DEF IInv, TypeOK
<1>8. /\ Append(answers, r) \in Seq(Replies)
      /\ DOMAIN Append(answers, r) = DOMAIN answers \cup {Len(answers) + 1}
      /\ Append(answers, r)[Len(answers) + 1] = r
      /\ \A n \in DOMAIN answers : Append(answers, r)[n] = answers[n]
  BY <1>5, <1>7, AppendReplies
<1>9. TypeOK'
  BY <1>1, <1>3, <1>6, <1>7, <1>8 DEF IInv, TypeOK
<1>10. /\ \A n \in DOMAIN answers : answers[n].id # read'
       /\ \A n \in DOMAIN stdout : stdout[n].id # read'
  BY <1>1, Fresh
<1>11. Once'
  <2>1. CASE answers' = answers
    BY <1>1, <2>1, Zenon DEF IInv, Once
  <2>2. CASE answers' = Append(answers, r)
    <3>1. OnceEach(answers')
      BY <1>5, <1>7, <1>10, <2>2, AppendOnce DEF IInv, Once
    <3>2. \A m \in DOMAIN answers', n \in DOMAIN stdout : answers'[m].id # stdout[n].id
      BY <1>5, <1>8, <1>10, <2>2 DEF IInv, Once
    <3> QED
      BY <1>1, <3>1, <3>2 DEF IInv, Once
  <2> QED
    BY <1>6, <2>1, <2>2
<1>12. Parties'
  <2>1. /\ \A n \in DOMAIN answers : answers[n].id \in Int
        /\ \A n \in DOMAIN stdout : stdout[n].id \in Int
    BY ReplyIds DEF IInv, TypeOK
  <2>2. \A n \in DOMAIN answers : /\ answers[n].id <= read' /\ answers[n].what \in Codes
                                  /\ Undeliverable(sent'[answers[n].id])
    BY <1>1, <1>2, <2>1 DEF IInv, Parties, Refusal
  <2>3. \A n \in DOMAIN answers' : /\ answers'[n].id <= read' /\ answers'[n].what \in Codes
                                   /\ Undeliverable(sent'[answers'[n].id])
    <3>1. CASE answers' = answers
      BY <2>2, <3>1
    <3>2. CASE /\ Undeliverable(sent[read'])
               /\ answers' = Append(answers, r)
      <4> SUFFICES ASSUME NEW n \in DOMAIN answers'
                   PROVE  /\ answers'[n].id <= read' /\ answers'[n].what \in Codes
                          /\ Undeliverable(sent'[answers'[n].id])
        OBVIOUS
      <4>1. n \in DOMAIN answers \/ n = Len(answers) + 1
        BY <1>8, <3>2
      <4>2. n \in DOMAIN answers => answers'[n] = answers[n]
        BY <1>8, <3>2
      <4>3. n = Len(answers) + 1 => answers'[n] = r
        BY <1>8, <3>2
      <4>4. r.id <= read' /\ r.what \in Codes /\ Undeliverable(sent'[r.id])
        BY <1>1, <1>3, <1>5, <3>2 DEF Ids
      <4> QED
        BY <2>2, <4>1, <4>2, <4>3, <4>4, Zenon
    <3> QED
      BY <1>6, <3>1, <3>2
  <2>4. \A n \in DOMAIN stdout' : (Refusal(stdout[n]) \/ Outcome(stdout[n]))'
    BY <1>1, <1>2, <2>1 DEF IInv, Parties, Refusal, Outcome
  <2> QED
    BY <2>3, <2>4 DEF Parties, Refusal
<1>13. Tasks'
  BY <1>1, <1>2 DEF IInv, Tasks, Ids
<1>14. Places'
  <2>1. forwarder \notin {"done", "failed"} /\ session # "ended"
    BY <1>1 DEF IInv, Places
  <2>2. forwarder' = "sending" => answers' # <<>>
    BY <1>6, <1>7, <1>5 DEF IInv, Places
  <2>3. forwarder' \notin {"done", "failed"}
    BY <1>6, <2>1
  <2> QED
    BY <1>1, <1>3, <1>6, <2>1, <2>2, <2>3 DEF IInv, Places
<1>15. Remembered'
  <2> SUFFICES ASSUME NEW i \in 1 .. read', Undeliverable(sent[i])
               PROVE  \/ \E n \in DOMAIN answers' : answers'[n].id = i
                      \/ Replied(i)
    BY <1>1 DEF Remembered, Replied
  <2>1. CASE i = read'
    BY <1>5, <1>6, <1>8, <2>1
  <2>2. CASE i # read'
    <3>1. i \in 1 .. read
      BY <1>1, <1>2, <2>2
    <3> QED
      BY <1>6, <1>8, <3>1 DEF IInv, Remembered
  <2> QED
    BY <2>1, <2>2
<1>16. Increasing' /\ Behind'
  <2>1. CASE answers' = answers /\ forwarder' = forwarder
    BY <1>1, <2>1 DEF IInv, Increasing, Behind, Replied
  <2>2. CASE answers' = Append(answers, r) /\ forwarder' = IF answers = <<>> THEN "sending" ELSE forwarder
    <3>1. \A n \in DOMAIN answers : n \in 1 .. Len(answers) /\ answers[n].id \in Nat /\ answers[n].id < r.id
      BY <1>1, <1>2, <1>5, <1>7, ReplyIds DEF IInv, Parties, Refusal
    <3>2. Len(answers) \in Nat
      BY <1>7
    <3>3. Increasing'
      BY <1>8, <2>2, <3>1, <3>2 DEF IInv, Increasing
    <3>4. ASSUME forwarder' \in {"receiving", "failed"}, NEW n \in DOMAIN answers'
          PROVE  \E j \in Ids : j < answers'[n].id /\ Undeliverable(sent[j]) /\ Replied(j)
      <4>1. answers # <<>> /\ forwarder \in {"receiving", "failed"} /\ 1 \in DOMAIN answers
        BY <1>7, <2>2, <3>4
      <4>2. PICK m \in DOMAIN answers : answers[m].id <= answers'[n].id
        <5>1. CASE n \in DOMAIN answers
          BY <1>8, <2>2, <3>1, <5>1
        <5>2. CASE n \notin DOMAIN answers
          <6>1. answers'[n] = r
            BY <1>8, <2>2, <5>2
          <6>2. answers[1].id < r.id /\ answers[1].id \in Nat /\ r.id \in Nat
            BY <1>2, <1>1, <1>5, <3>1, <4>1
          <6> QED
            BY <4>1, <6>1, <6>2
        <5> QED
          BY <5>1, <5>2
      <4>3. PICK j \in Ids : j < answers[m].id /\ Undeliverable(sent[j]) /\ Replied(j)
        BY <4>1, <4>2 DEF IInv, Behind
      <4>4. j \in Nat /\ answers[m].id \in Nat /\ answers'[n].id \in Nat
        BY <1>2, <1>3, <1>5, <1>8, <2>2, <3>1 DEF Ids
      <4> QED
        BY <4>2, <4>3, <4>4
    <3>5. Behind'
      BY <1>1, <3>4 DEF Behind, Replied
    <3> QED
      BY <3>3, <3>5
  <2> QED
    BY <1>6, <2>1, <2>2
<1> QED
  BY <1>9, <1>11, <1>12, <1>13, <1>14, <1>15, <1>16 DEF IInv

LEMMA ReadLineIInv ==
  ASSUME IInv, ReadLine
  PROVE  IInv'
BY ReadHandedOnIInv, ReadQueuedIInv

LEMMA EndOfInputIInv ==
  ASSUME IInv, EndOfInput
  PROVE  IInv'
BY DEF IInv, TypeOK, Once, OnceEach, Parties, Refusal, Outcome, Tasks, Places,
   Remembered, Replied, Behind, Increasing, EndOfInput

LEMMA ReceiveIInv ==
  ASSUME IInv, Receive
  PROVE  IInv'
BY DEF IInv, TypeOK, Once, OnceEach, Parties, Refusal, Outcome, Tasks, Places,
   Remembered, Replied, Behind, Increasing, Receive

LEMMA ForwardIInv ==
  ASSUME IInv, Forward
  PROVE  IInv'
<1>1. /\ answers \in Seq(Replies) /\ answers # <<>> /\ stdout \in Seq(Replies)
  BY DEF IInv, TypeOK, Places, Forward
<1>2. /\ stdout' = Append(stdout, Head(answers)) /\ answers' = Tail(answers)
      /\ forwarder = "sending" /\ forwarder' = "receiving" /\ writer' = "busy"
      /\ UNCHANGED <<sent, eof, filter, read, session, task>>
  BY DEF Forward
<1> DEFINE r == answers[1]
<1>3. /\ Head(answers) = r /\ 1 \in DOMAIN answers
      /\ Tail(answers) \in Seq(Replies)
      /\ \A n \in DOMAIN Tail(answers) :
            n + 1 \in DOMAIN answers /\ Tail(answers)[n] = answers[n + 1]
      /\ \A n \in DOMAIN answers : n # 1 =>
            n - 1 \in DOMAIN Tail(answers) /\ Tail(answers)[n - 1] = answers[n]
  BY <1>1, TailReplies
<1>4. r \in Replies
  BY <1>1, <1>3
<1>5. /\ Append(stdout, r) \in Seq(Replies)
      /\ DOMAIN Append(stdout, r) = DOMAIN stdout \cup {Len(stdout) + 1}
      /\ Append(stdout, r)[Len(stdout) + 1] = r
      /\ \A n \in DOMAIN stdout : Append(stdout, r)[n] = stdout[n]
  BY <1>1, <1>4, AppendReplies
<1>6. Refusal(r)
  BY <1>3 DEF IInv, Parties
<1>7. \A n \in DOMAIN Tail(answers) :
        n \in Nat /\ n >= 1
  BY <1>3
<1> HIDE DEF r
<1>8. TypeOK'
  BY <1>2, <1>3, <1>5 DEF IInv, TypeOK
<1>9. Once'
  <2>1. OnceEach(answers')
    BY <1>2, <1>3, <1>7 DEF IInv, Once, OnceEach
  <2>2. \A n \in DOMAIN stdout : stdout[n].id # r.id
    BY <1>3 DEF IInv, Once, r
  <2>3. OnceEach(stdout')
    BY <1>1, <1>2, <1>3, <1>4, <2>2, AppendOnce DEF IInv, Once
  <2>4. \A m \in DOMAIN answers' : answers'[m].id # r.id
    BY <1>2, <1>3, <1>7 DEF IInv, Once, OnceEach, r
  <2>5. \A m \in DOMAIN answers', n \in DOMAIN stdout' : answers'[m].id # stdout'[n].id
    BY <1>2, <1>3, <1>5, <2>4 DEF IInv, Once
  <2> QED
    BY <2>1, <2>3, <2>5 DEF Once
<1>10. Parties'
  <2>1. \A n \in DOMAIN answers' : Refusal(answers'[n])
    BY <1>2, <1>3 DEF IInv, Parties
  <2>2. \A n \in DOMAIN stdout' : Refusal(stdout'[n]) \/ Outcome(stdout'[n])
    BY <1>2, <1>3, <1>5, <1>6 DEF IInv, Parties
  <2> QED
    BY <1>2, <2>1, <2>2 DEF Parties, Refusal, Outcome
<1>11. Tasks' /\ Places'
  BY <1>2 DEF IInv, Tasks, Places
<1>13. Increasing'
  BY <1>1, <1>2, <1>3, <1>7 DEF IInv, Increasing
<1>14. Behind'
  <2>1. r.id \in Ids /\ Undeliverable(sent[r.id])
    BY <1>4, <1>6 DEF Refusal, Replies
  <2>2. \E n \in DOMAIN stdout' : stdout'[n].id = r.id
    BY <1>2, <1>3, <1>5
  <2>3. \A n \in DOMAIN answers' : r.id < answers'[n].id
    BY <1>1, <1>2, <1>3, <1>7 DEF IInv, Increasing, r
  <2> QED
    BY <1>2, <2>1, <2>2, <2>3 DEF Behind, Replied
<1>12. Remembered'
  <2> SUFFICES ASSUME NEW i \in 1 .. read, Undeliverable(sent[i])
               PROVE  \/ \E n \in DOMAIN answers' : answers'[n].id = i
                      \/ \E n \in DOMAIN stdout' : stdout'[n].id = i
    BY <1>2 DEF Remembered, Replied
  <2>1. CASE Replied(i)
    BY <1>2, <1>3, <1>5, <2>1 DEF Replied
  <2>2. ASSUME NEW n \in DOMAIN answers, answers[n].id = i
        PROVE  \/ \E k \in DOMAIN answers' : answers'[k].id = i
               \/ \E k \in DOMAIN stdout' : stdout'[k].id = i
    <3>1. CASE n = 1
      BY <1>2, <1>3, <1>5, <2>2, <3>1 DEF r
    <3>2. CASE n # 1
      BY <1>2, <1>3, <2>2, <3>2
    <3> QED
      BY <3>1, <3>2
  <2> QED
    BY <2>1, <2>2 DEF IInv, Remembered
<1> QED
  BY <1>8, <1>9, <1>10, <1>11, <1>12, <1>13, <1>14 DEF IInv

LEMMA ForwarderEndsIInv ==
  ASSUME IInv, ForwarderEnds
  PROVE  IInv'
BY DEF IInv, TypeOK, Once, OnceEach, Parties, Refusal, Outcome, Tasks, Places,
   Remembered, Replied, Behind, Increasing, ForwarderEnds

--------------------------------------------------------------------------------
(* The session and its tasks.                                              *)

LEMMA DeliverIInv ==
  ASSUME IInv, Deliver
  PROVE  IInv'
<1> DEFINE new == IF IsRequest(sent[read]) THEN "started" ELSE task[read]
<1>1. /\ filter = "yielding" /\ filter' = "reading"
      /\ task' = [task EXCEPT ![read] = new]
      /\ UNCHANGED <<sent, eof, read, answers, forwarder, session, writer, stdout>>
  BY DEF Deliver
<1>2. read \in Ids /\ read \in Nat
  BY <1>1 DEF IInv, Places, Ids
<1>3. task \in [Ids -> {"none", "started", "returned", "failed", "over"}]
  BY DEF IInv, TypeOK
<1>4. task[read] = "none"
  BY <1>1, <1>2 DEF IInv, Tasks
<1>5. new \in {"none", "started"} /\ (new # "none" => sent[read].sdk)
  BY <1>4 DEF IsRequest
<1> HIDE DEF new
<1>6. task' \in [Ids -> {"none", "started", "returned", "failed", "over"}]
  BY <1>1, <1>3, <1>5
<1>7. task'[read] = new /\ \A i \in Ids : i # read => task'[i] = task[i]
  BY <1>1, <1>2, <1>3
<1>8. TypeOK'
  BY <1>1, <1>6 DEF IInv, TypeOK
<1>9. Once'
  BY <1>1, Zenon DEF IInv, Once
<1>10. Parties'
  <2>1. \A x : Refusal(x)' <=> Refusal(x)
    BY <1>1 DEF Refusal
  <2>2. ASSUME NEW x \in Replies, Outcome(x)
        PROVE  Outcome(x)'
    BY <1>1, <1>4, <1>7, <2>2 DEF Outcome, Replies
  <2>3. \A n \in DOMAIN stdout : stdout[n] \in Replies
    BY DEF IInv, TypeOK
  <2> QED
    BY <1>1, <2>1, <2>2, <2>3 DEF IInv, Parties
<1>11. Tasks'
  BY <1>1, <1>2, <1>5, <1>7 DEF IInv, Tasks
<1>12. Places'
  BY <1>1 DEF IInv, Places
<1>13. Remembered' /\ Increasing' /\ Behind'
  BY <1>1 DEF IInv, Remembered, Replied, Increasing, Behind
<1> QED
  BY <1>8, <1>9, <1>10, <1>11, <1>12, <1>13 DEF IInv

LEMMA WrittenIInv ==
  ASSUME IInv, Written
  PROVE  IInv'
BY DEF IInv, TypeOK, Once, OnceEach, Parties, Refusal, Outcome, Tasks, Places,
   Remembered, Replied, Behind, Increasing, Written

LEMMA CallToolIInv ==
  ASSUME IInv, NEW i \in Ids, CallTool(i)
  PROVE  IInv'
<1>1. PICK end \in {"returned", "failed"} : task' = [task EXCEPT ![i] = end]
  BY DEF CallTool
<1>2. /\ task[i] = "started"
      /\ UNCHANGED <<sent, eof, filter, read, answers, forwarder, session, writer, stdout>>
  BY DEF CallTool
<1>3. task \in [Ids -> {"none", "started", "returned", "failed", "over"}]
  BY DEF IInv, TypeOK
<1>4. /\ task' \in [Ids -> {"none", "started", "returned", "failed", "over"}]
      /\ task'[i] = end /\ \A j \in Ids : j # i => task'[j] = task[j]
  BY <1>1, <1>3
<1>5. TypeOK'
  BY <1>2, <1>4 DEF IInv, TypeOK
<1>6. Once'
  BY <1>2, Zenon DEF IInv, Once
<1>7. Parties'
  <2>1. \A x : Refusal(x)' <=> Refusal(x)
    BY <1>2 DEF Refusal
  <2>2. ASSUME NEW x \in Replies, Outcome(x)
        PROVE  Outcome(x)'
    BY <1>2, <1>4, <2>2 DEF Outcome, Replies
  <2>3. \A n \in DOMAIN stdout : stdout[n] \in Replies
    BY DEF IInv, TypeOK
  <2> QED
    BY <1>2, <2>1, <2>2, <2>3 DEF IInv, Parties
<1>8. Tasks'
  BY <1>2, <1>4 DEF IInv, Tasks
<1>9. Places' /\ Remembered' /\ Increasing' /\ Behind'
  BY <1>2 DEF IInv, Places, Remembered, Replied, Increasing, Behind
<1> QED
  BY <1>5, <1>6, <1>7, <1>8, <1>9 DEF IInv

LEMMA RespondIInv ==
  ASSUME IInv, NEW i \in Ids, Respond(i)
  PROVE  IInv'
<1> DEFINE r == [id |-> i, what |-> IF task[i] = "failed" THEN "isError" ELSE "result"]
<1>1. /\ task[i] \in {"returned", "failed"}
      /\ stdout' = Append(stdout, r)
      /\ task' = [task EXCEPT ![i] = "over"] /\ writer' = "busy"
      /\ UNCHANGED <<sent, eof, filter, read, answers, forwarder, session>>
  BY DEF Respond
<1>2. r \in Replies /\ r.id = i /\ r.what \notin Codes
  BY DEF Replies, Codes
<1> HIDE DEF r
<1>3. /\ task \in [Ids -> {"none", "started", "returned", "failed", "over"}]
      /\ stdout \in Seq(Replies)
      /\ \A n \in DOMAIN stdout : stdout[n] \in Replies
      /\ \A n \in DOMAIN answers : answers[n] \in Replies
  BY DEF IInv, TypeOK
<1>4. /\ task' \in [Ids -> {"none", "started", "returned", "failed", "over"}]
      /\ task'[i] = "over" /\ \A j \in Ids : j # i => task'[j] = task[j]
  BY <1>1, <1>3
<1>5. /\ Append(stdout, r) \in Seq(Replies)
      /\ DOMAIN Append(stdout, r) = DOMAIN stdout \cup {Len(stdout) + 1}
      /\ Append(stdout, r)[Len(stdout) + 1] = r
      /\ \A n \in DOMAIN stdout : Append(stdout, r)[n] = stdout[n]
  BY <1>2, <1>3, AppendReplies
<1>6. i <= read /\ sent[i].sdk
  BY <1>1 DEF IInv, Tasks
<1>7. /\ \A n \in DOMAIN answers : answers[n].id # i
      /\ \A n \in DOMAIN stdout : stdout[n].id # i
  BY <1>1, <1>6 DEF IInv, Parties, Refusal, Outcome, Undeliverable
<1>8. TypeOK'
  BY <1>1, <1>4, <1>5 DEF IInv, TypeOK
<1>9. Once'
  <2>1. OnceEach(stdout')
    BY <1>1, <1>2, <1>3, <1>7, AppendOnce DEF IInv, Once
  <2>2. \A m \in DOMAIN answers, n \in DOMAIN stdout' : answers[m].id # stdout'[n].id
    BY <1>1, <1>2, <1>5, <1>7 DEF IInv, Once
  <2> QED
    BY <1>1, <2>1, <2>2 DEF IInv, Once
<1>10. Parties'
  <2>1. \A x : Refusal(x)' <=> Refusal(x)
    BY <1>1 DEF Refusal
  <2>2. ASSUME NEW x \in Replies, Outcome(x)
        PROVE  Outcome(x)'
    BY <1>1, <1>4, <2>2 DEF Outcome, Replies
  <2>3. ASSUME NEW x \in Replies, x = r
        PROVE  Outcome(x)'
    BY <1>1, <1>2, <1>4, <1>6, <2>3 DEF Outcome
  <2>4. ASSUME NEW n \in DOMAIN stdout'
        PROVE  (Refusal(stdout[n]) \/ Outcome(stdout[n]))'
    <3>1. CASE n = Len(stdout) + 1
      BY <1>1, <1>2, <1>5, <2>3, <3>1 DEF Outcome
    <3>2. CASE n # Len(stdout) + 1
      <4>1. n \in DOMAIN stdout /\ stdout'[n] = stdout[n] /\ stdout[n] \in Replies
        BY <1>1, <1>3, <1>5, <3>2
      <4>2. Refusal(stdout[n]) \/ Outcome(stdout[n])
        BY <4>1 DEF IInv, Parties
      <4> QED
        BY <1>1, <4>1, <4>2, <2>2 DEF Refusal, Outcome
    <3> QED
      BY <3>1, <3>2
  <2> QED
    BY <1>1, <2>1, <2>4 DEF IInv, Parties, Refusal
<1>11. Tasks'
  BY <1>1, <1>4, <1>6 DEF IInv, Tasks
<1>12. Places'
  BY <1>1 DEF IInv, Places
<1>13. Remembered'
  BY <1>1, <1>5 DEF IInv, Remembered, Replied
<1>14. Increasing' /\ Behind'
  <2>1. \A j \in Ids : Replied(j) => Replied(j)'
    BY <1>1, <1>5 DEF Replied
  <2> QED
    BY <1>1, <2>1 DEF IInv, Increasing, Behind
<1> QED
  BY <1>8, <1>9, <1>10, <1>11, <1>12, <1>13, <1>14 DEF IInv

LEMMA SessionEndsIInv ==
  ASSUME IInv, SessionEnds
  PROVE  IInv'
<1>1. /\ session' = "ended"
      /\ task' = [i \in Ids |-> IF task[i] = "none" THEN "none" ELSE "over"]
      /\ UNCHANGED <<sent, eof, filter, read, answers, forwarder, writer, stdout>>
  BY DEF SessionEnds
<1>8. filter = "closed"
  BY DEF SessionEnds
<1>2. \A i \in Ids : task'[i] = IF task[i] = "none" THEN "none" ELSE "over"
  BY <1>1
<1>3. TypeOK'
  BY <1>1 DEF IInv, TypeOK
<1>4. Once'
  BY <1>1, Zenon DEF IInv, Once
<1>5. Parties'
  <2>1. \A x : Refusal(x)' <=> Refusal(x)
    BY <1>1 DEF Refusal
  <2>2. ASSUME NEW x \in Replies, Outcome(x)
        PROVE  Outcome(x)'
    BY <1>1, <1>2, <2>2 DEF Outcome, Replies
  <2>3. \A n \in DOMAIN stdout : stdout[n] \in Replies
    BY DEF IInv, TypeOK
  <2> QED
    BY <1>1, <2>1, <2>2, <2>3 DEF IInv, Parties
<1>6. Tasks'
  BY <1>1, <1>2 DEF IInv, Tasks
<1>7. Places' /\ Remembered' /\ Increasing' /\ Behind'
  BY <1>1, <1>8 DEF IInv, Places, Remembered, Replied, Increasing, Behind
<1> QED
  BY <1>3, <1>4, <1>5, <1>6, <1>7 DEF IInv

LEMMA StutterIInv ==
  ASSUME IInv, UNCHANGED vars
  PROVE  IInv'
BY DEF vars, IInv, TypeOK, Once, OnceEach, Parties, Refusal, Outcome, Tasks, Places,
   Remembered, Replied, Behind, Increasing

--------------------------------------------------------------------------------
(* The theorems.                                                           *)

\* The parts that make the promises inductive, in every session.
THEOREM Invariance == Spec => []IInv
<1>1. ASSUME IInv, [Next]_vars
      PROVE  IInv'
  BY <1>1, SendIInv, CloseStdinIInv, ReadLineIInv, EndOfInputIInv, ReceiveIInv,
     ForwardIInv, ForwarderEndsIInv, DeliverIInv, WrittenIInv, CallToolIInv, RespondIInv,
     SessionEndsIInv, StutterIInv
     DEF Next
<1> QED
  BY InitIInv, <1>1, PTL DEF Spec

\* Every variable of the loop keeps its type: each reply is to a line that was sent.
THEOREM TypeCorrect == Spec => []TypeOK
BY Invariance, PTL DEF IInv

\* A line is answered at most once: with a protocol error only if the SDK rejects
\* it and no tool saw it, with an outcome only if the SDK took it.
THEOREM RepliesTrue == Spec => []AnswersTrue
<1>1. IInv => AnswersTrue
  <2> SUFFICES ASSUME IInv PROVE AnswersTrue
    OBVIOUS
  <2>1. stdout \in Seq(Replies) /\ \A n \in DOMAIN stdout : stdout[n].id \in Ids
    BY ReplyIds DEF IInv, TypeOK
  <2>2. IsInjective([n \in DOMAIN stdout |-> stdout[n].id])
    BY Zenon DEF IInv, Once, OnceEach, IsInjective
  <2>3. \A n \in DOMAIN stdout : stdout[n].what \in Codes =>
          ~sent[stdout[n].id].sdk /\ task[stdout[n].id] = "none"
    BY <2>1 DEF IInv, Parties, Refusal, Outcome, Undeliverable, Tasks
  <2>4. \A n \in DOMAIN stdout : stdout[n].what \notin Codes => sent[stdout[n].id].sdk
    BY DEF IInv, Parties, Refusal, Outcome
  <2> QED
    BY <2>2, <2>3, <2>4 DEF AnswersTrue
<1> QED
  BY <1>1, Invariance, PTL

\* An exit leaves no rejected request without its answer but those that were piled
\* up behind an answer that was still being written: the first one never.
THEOREM LastLineAnswered == Spec => []NoneForgotten
<1>1. IInv => NoneForgotten
  <2> SUFFICES ASSUME IInv, Exited, NEW i \in DOMAIN sent, Awaited(sent[i]), ~sent[i].sdk
               PROVE  Replied(i) \/ MayBeLost(i)
    <3>1. ASSUME IInv, Exited, NEW i \in DOMAIN sent, Awaited(sent[i]), sent[i].sdk
          PROVE  MayBeLost(i)
      <4>1. eof
        BY <3>1 DEF IInv, Places, Exited
      <4> QED
        BY <3>1, <4>1, Zenon DEF MayBeLost
    <3> QED
      BY <3>1 DEF NoneForgotten
  <2>1. /\ eof /\ read = Len(sent) /\ sent \in Seq(Lines)
        /\ forwarder = "failed" \/ answers = <<>>
    BY DEF IInv, TypeOK, Places, Exited
  <2>2. i \in 1 .. read /\ sent[i] \in LineFacts
    BY <2>1, LinesAssumption
  <2>3. Undeliverable(sent[i])
    BY <2>2 DEF LineFacts, Awaited, Undeliverable, Loads, IdReadable
  <2>4. CASE \E n \in DOMAIN answers : answers[n].id = i
    <3>1. PICK n \in DOMAIN answers : answers[n].id = i
      BY <2>4
    <3>2. forwarder = "failed"
      BY <2>1, <3>1
    <3>3. PICK j \in Ids : j < i /\ Undeliverable(sent[j]) /\ Replied(j)
      BY <3>1, <3>2 DEF IInv, Behind
    <3>4. j \in 1 .. (i - 1)
      BY <2>1, <3>3, LinesAssumption DEF Ids
    <3> QED
      BY <2>1, <3>2, <3>3, <3>4 DEF MayBeLost, PiledUp
  <2> QED
    BY <2>2, <2>3, <2>4 DEF IInv, Remembered
<1> QED
  BY <1>1, Invariance, PTL
================================================================================
