-------------------------- MODULE AgentClientProofs --------------------------
(* Theorems about AgentClient: its types, that nothing of the socket runs once *)
(* stop() has returned, and that a call is given the answer to its own        *)
(* request unless the retry of an earlier one has timed out as well.          *)
EXTENDS AgentClient, FiniteSetTheorems, SequenceTheorems, TLAPS

USE DEF NoConn

\* A step that leaves the variables of a component alone leaves their types.
LEMMA Frames ==
  /\ SocketsOK /\ UNCHANGED socketVars => SocketsOK'
  /\ AcceptorOK /\ UNCHANGED acceptVars => AcceptorOK'
  /\ ThreadsOK /\ UNCHANGED <<clientVars, joining>> => ThreadsOK'
  /\ GuiOK /\ UNCHANGED <<guiVars, gui>> => GuiOK'
  /\ RingOK /\ UNCHANGED ringVars => RingOK'
  /\ CallerOK /\ UNCHANGED callerVars => CallerOK'
  BY DEF SocketsOK, AcceptorOK, ThreadsOK, GuiOK, RingOK, CallerOK, socketVars, acceptVars,
         clientVars, guiVars, ringVars, callerVars, readerVars

\* The query of a ring of numbers returns numbers (log_sink.cpp query).
LEMMA QueryTyped ==
  ASSUME RingOK, NEW req \in Requests
  PROVE  ResultOf(req) \in LogAnswers
<1>1. Matching(req.since) \subseteq Nat /\ req.since \in Nat
  BY DEF RingOK, Matching, Held, Requests
<1>2. Newest(Matching(req.since)) \subseteq Nat
  BY <1>1 DEF Newest
<1>3. Dropped(req.since) \in Nat
  BY <1>1 DEF RingOK, Dropped, WantFrom
<1>4. CASE req.method = "app.logs"
  BY <1>1, <1>2, <1>3, <1>4 DEF ResultOf, Query, LogAnswers, RingOK
<1>5. CASE req.method # "app.logs"
  BY <1>5 DEF ResultOf, NoLogs, LogAnswers
<1> QED BY <1>4, <1>5

\* An answer is typed if its parts are, and so is one that was never given.
LEMMA AnswersTyped ==
  /\ NoLogs \in LogAnswers /\ NoReply \in Answers /\ Idle \in Requests
  /\ \A id \in Nat, outcome \in {"error", "busy", "result"}, logs \in LogAnswers :
       Answer(id, outcome, logs) \in Answers
  BY DEF NoLogs, LogAnswers, NoReply, Answer, Answers, Idle, Requests, Methods

\* Sending an answer keeps the types of the sockets and the threads (server.cpp
\* handleLine, control_socket.cpp clientLoop).
LEMMA SendsTyped ==
  ASSUME SocketsOK, ThreadsOK, NEW c \in Conns, NEW answer \in Answers, Sends(c, answer)
  PROVE  /\ outbox' \in [Conns -> Seq(Answers)]
         /\ thread' \in [Conns -> {"none", "recv", "wait", "finished"}]
<1>1. outbox[c] \in Seq(Answers)
  BY DEF SocketsOK
<1>2. Append(outbox[c], answer) \in Seq(Answers)
  BY <1>1
<1> QED BY <1>2 DEF SocketsOK, ThreadsOK, Sends, Goes

\* So does taking a line off a connection.
LEMMA TakesLineTyped ==
  ASSUME SocketsOK, NEW c \in Conns, NEW methods, Asked(c, methods), TakesLine(c)
  PROVE  inbox' \in [Conns -> Seq(Requests)] /\ Head(inbox[c]) \in Requests
<1>1. inbox[c] \in Seq(Requests) /\ inbox[c] # <<>>
  BY DEF SocketsOK, Asked
<1>2. Tail(inbox[c]) \in Seq(Requests) /\ Head(inbox[c]) \in Requests
  BY <1>1
<1> QED BY <1>2 DEF SocketsOK, TakesLine

LEMMA AcceptorTyped ==
  ASSUME TypeOK, Acceptor \/ Stop, UNCHANGED callerVars
  PROVE  TypeOK'
<1> USE DEF TypeOK
<1>1. CASE Accepts
  <2>1. Head(backlog) \in Conns /\ Tail(backlog) \in Seq(Conns)
    BY <1>1 DEF Accepts, AcceptorOK
  <2>2. AcceptorOK'
    BY <1>1, <2>1, ConnsAssumption DEF Accepts, AcceptorOK
  <2> QED BY <1>1, <2>2, Frames DEF Accepts, stopVars
<1>2. CASE AcceptFails
  <2>1. AcceptorOK'
    BY <1>2 DEF AcceptFails, AcceptorOK
  <2> QED BY <1>2, <2>1, Frames DEF AcceptFails, stopVars
<1>3. CASE AdmitsClient
  <2>1. acceptor.conn \in Conns
    BY <1>3 DEF AdmitsClient, AcceptorOK
  <2>2. ThreadsOK'
    BY <1>3, <2>1 DEF AdmitsClient, ThreadsOK, Goes, stopVars
  <2>3. AcceptorOK'
    BY <1>3 DEF AdmitsClient, AcceptorOK
  <2> QED BY <1>3, <2>2, <2>3, Frames DEF AdmitsClient, stopVars
<1>4. CASE StopBegins
  <2>1. AcceptorOK' /\ GuiOK'
    BY <1>4 DEF StopBegins, AcceptorOK, GuiOK, guiVars
  <2> QED BY <1>4, <2>1, Frames DEF StopBegins
<1>5. CASE StopCloses
  <2>1. backlog' \in Seq(Conns)
    BY <1>5 DEF StopCloses
  <2>2. AcceptorOK'
    BY <1>5, <2>1 DEF StopCloses, AcceptorOK
  <2>3. GuiOK'
    BY <1>5 DEF StopCloses, GuiOK, guiVars
  <2> QED BY <1>5, <2>2, <2>3, Frames DEF StopCloses
<1>6. CASE StopJoinsAcceptor
  <2>1. ThreadsOK' /\ GuiOK'
    BY <1>6 DEF StopJoinsAcceptor, ThreadsOK, GuiOK, guiVars
  <2> QED BY <1>6, <2>1, Frames DEF StopJoinsAcceptor
<1>7. CASE StopJoinsClients
  <2>1. ThreadsOK' /\ GuiOK'
    BY <1>7 DEF StopJoinsClients, ThreadsOK, GuiOK, guiVars, clientVars
  <2> QED BY <1>7, <2>1, Frames DEF StopJoinsClients
<1> QED BY <1>1, <1>2, <1>3, <1>4, <1>5, <1>6, <1>7 DEF Acceptor, Stop

LEMMA ClientThreadTyped ==
  ASSUME TypeOK, NEW c \in Conns, ClientThread(c), UNCHANGED callerVars
  PROVE  TypeOK'
<1> USE DEF TypeOK
<1>1. CASE PostsTask(c)
  <2>1. inbox' \in [Conns -> Seq(Requests)] /\ Head(inbox[c]) \in Requests
    BY <1>1, TakesLineTyped DEF PostsTask
  <2>2. SocketsOK'
    BY <1>1, <2>1 DEF PostsTask, TakesLine, SocketsOK
  <2>3. ThreadsOK'
    BY <1>1, <2>1 DEF PostsTask, TakesLine, ThreadsOK, Goes, stopVars
  <2>4. [conn |-> c, request |-> Head(inbox[c])] \in Tasks
    BY <2>1 DEF Tasks
  <2>5. GuiOK'
    BY <1>1, <2>4 DEF PostsTask, TakesLine, GuiOK, stopVars
  <2> QED BY <1>1, <2>2, <2>3, <2>5, Frames DEF PostsTask, TakesLine
<1>2. CASE RejectsLine(c)
  <2>1. inbox' \in [Conns -> Seq(Requests)] /\ Head(inbox[c]).id \in Nat
    BY <1>2, TakesLineTyped DEF RejectsLine, Requests
  <2>2. Answer(Head(inbox[c]).id, "error", NoLogs) \in Answers
    BY <2>1, AnswersTyped
  <2>3. /\ outbox' \in [Conns -> Seq(Answers)]
        /\ thread' \in [Conns -> {"none", "recv", "wait", "finished"}]
    BY <1>2, <2>2, SendsTyped DEF RejectsLine
  <2>4. SocketsOK' /\ ThreadsOK' /\ GuiOK'
    BY <1>2, <2>1, <2>3 DEF RejectsLine, TakesLine, SocketsOK, ThreadsOK, GuiOK, stopVars
  <2> QED BY <1>2, <2>4, Frames DEF RejectsLine, TakesLine
<1>3. CASE DropsLine(c)
  <2>1. inbox' \in [Conns -> Seq(Requests)]
    BY <1>3, TakesLineTyped DEF DropsLine
  <2>2. SocketsOK' /\ ThreadsOK' /\ GuiOK'
    BY <1>3, <2>1 DEF DropsLine, TakesLine, SocketsOK, ThreadsOK, GuiOK, stopVars
  <2> QED BY <1>3, <2>2, Frames DEF DropsLine, TakesLine
<1>4. ASSUME NEW answer \in Answers, Leaves(c, answer)
      PROVE  TypeOK'
  <2>1. /\ outbox' \in [Conns -> Seq(Answers)]
        /\ thread' \in [Conns -> {"none", "recv", "wait", "finished"}]
    BY <1>4, SendsTyped DEF Leaves
  <2>2. SocketsOK' /\ ThreadsOK' /\ GuiOK'
    BY <1>4, <2>1, AnswersTyped DEF Leaves, SocketsOK, ThreadsOK, GuiOK, stopVars
  <2> QED BY <1>4, <2>2, Frames DEF Leaves
<1>5. CASE TakesResult(c)
  BY <1>4, <1>5 DEF TakesResult, GuiOK
<1>6. CASE TimesOut(c)
  <2>1. request[c].id \in Nat
    BY DEF ThreadsOK, Requests
  <2> QED BY <1>4, <1>6, <2>1, AnswersTyped DEF TimesOut
<1>7. CASE SeesHangUp(c)
  <2>1. ThreadsOK'
    BY <1>7 DEF SeesHangUp, ThreadsOK, Goes, stopVars
  <2> QED BY <1>7, <2>1, Frames DEF SeesHangUp, stopVars
<1> QED BY <1>1, <1>2, <1>3, <1>5, <1>6, <1>7 DEF ClientThread

\* A handler that is called goes on the stack with an answer of the right type.
LEMMA HandlesTyped ==
  ASSUME TypeOK, NEW task \in Tasks, NEW req \in Requests,
         NEW phase \in {"settling", "returning"}, Handles(task, req, phase)
  PROVE  stack' \in Seq(Handlers)
<1>1. ResultOf(req) \in LogAnswers /\ task.request.id \in Nat
  BY QueryTyped DEF TypeOK, Tasks, Requests
<1>2. Answer(task.request.id, "result", ResultOf(req)) \in Answers
  BY <1>1, AnswersTyped
<1>3. [task |-> task, phase |-> phase,
       answer |-> Answer(task.request.id, "result", ResultOf(req))] \in Handlers
  BY <1>2 DEF Handlers
<1> QED BY <1>3 DEF Handles, TypeOK, GuiOK

LEMMA EventLoopTyped ==
  ASSUME TypeOK, EventLoop, UNCHANGED callerVars
  PROVE  TypeOK'
<1> USE DEF TypeOK
<1>1. ASSUME TakesEvent
      PROVE  events' \in Seq(Tasks) /\ Head(events) \in Tasks
  BY <1>1 DEF TakesEvent, GuiOK
<1>2. CASE RunsTask
  <2>1. Head(events).request \in Requests
    BY <1>1, <1>2 DEF RunsTask, Tasks
  <2>2. stack' \in Seq(Handlers)
    BY <1>1, <1>2, <2>1, HandlesTyped DEF RunsTask, PhaseAfter
  <2>3. GuiOK'
    BY <1>1, <1>2, <2>2 DEF RunsTask, TakesEvent, GuiOK
  <2> QED BY <1>2, <2>3, Frames DEF RunsTask, TakesEvent
<1>3. CASE RunsLooseTask
  <2>1. \A req \in Loose(Head(events)) : req \in Requests
    BY <1>1, <1>3 DEF RunsLooseTask, Loose, Tasks, ThreadsOK
  <2>2. stack' \in Seq(Handlers)
    BY <1>1, <1>3, <2>1, HandlesTyped DEF RunsLooseTask, GuiOK
  <2>3. GuiOK'
    BY <1>1, <1>3, <2>2 DEF RunsLooseTask, TakesEvent, GuiOK
  <2> QED BY <1>3, <2>3, Frames DEF RunsLooseTask, TakesEvent
<1>4. CASE FulfilsPromise
  <2>1. Innermost \in Handlers /\ SubSeq(stack, 1, Len(stack) - 1) \in Seq(Handlers)
    BY <1>4 DEF FulfilsPromise, GuiOK, Innermost
  <2>2. GuiOK'
    BY <1>4, <2>1 DEF FulfilsPromise, GuiOK, Handlers, stopVars
  <2> QED BY <1>4, <2>2, Frames DEF FulfilsPromise, stopVars
<1> QED BY <1>2, <1>3, <1>4 DEF EventLoop

LEMMA LoggerTyped ==
  ASSUME TypeOK, Logger, UNCHANGED callerVars
  PROVE  TypeOK'
<1> USE DEF TypeOK
<1>1. \A seq \in Nat : Stored(records, seq) \in Seq(Nat) /\ Len(Stored(records, seq)) <= Capacity
  BY CapacityAssumption DEF RingOK, Stored
<1>2. ASSUME SinkNumbers
      PROVE  RingOK'
  BY <1>2 DEF SinkNumbers, RingOK
<1>3. ASSUME SinkStores
      PROVE  RingOK'
  <2>1. PICK seq \in inHand : records' = Stored(records, seq) /\ inHand' = {} /\ nextSeq' = nextSeq
    BY <1>3 DEF SinkStores
  <2>2. seq \in Nat
    BY <2>1 DEF RingOK
  <2> QED BY <1>1, <2>1, <2>2 DEF RingOK
<1>4. RingOK'
  BY <1>2, <1>3 DEF Logger
<1> QED BY <1>4, Frames DEF Logger, stopVars

LEMMA CallerTyped ==
  ASSUME TypeOK, (\E method \in Methods : Calls(method)) \/ CallSteps \/ Closes
  PROVE  TypeOK'
<1> USE DEF TypeOK
<1>1. ASSUME NEW method \in Methods, Calls(method)
      PROVE  TypeOK'
  <2>1. CallerOK'
    BY <1>1 DEF Calls, CallerOK, readerVars
  <2> QED BY <1>1, <2>1, Frames DEF Calls, serverVars, stopVars
<1>2. CASE Connects
  <2>1. PICK c \in Conns : /\ sock' = c
                           /\ peer' = [peer EXCEPT ![c] = "open"]
                           /\ backlog' = Append(backlog, c)
    BY <1>2 DEF Connects, Unused
  <2>2. SocketsOK' /\ AcceptorOK' /\ CallerOK'
    BY <1>2, <2>1 DEF Connects, SocketsOK, AcceptorOK, CallerOK, readerVars
  <2> QED BY <1>2, <2>2, Frames DEF Connects, stopVars
<1>3. CASE SendsRequest
  <2> DEFINE req == [id |-> nextId, method |-> call.method,
                     since |-> IF call.method = "app.logs" THEN cursor ELSE 0]
  <2>1. req \in Requests /\ sock \in Conns
    BY <1>3 DEF SendsRequest, CallerOK, Requests
  <2>2. Append(inbox[sock], req) \in Seq(Requests)
    BY <2>1 DEF SocketsOK
  <2>3. SocketsOK'
    BY <1>3, <2>2 DEF SendsRequest, SocketsOK
  <2>4. CallerOK'
    <3>1. call' \in [pc : {"idle", "asking", "awaiting"}, method : Methods, attempt : 0..2,
                     id : Nat]
      BY <1>3 DEF SendsRequest, CallerOK
    <3> QED BY <1>3, <3>1 DEF SendsRequest, CallerOK, readerVars
  <2> QED BY <1>3, <2>3, <2>4, Frames DEF SendsRequest, stopVars
<1>4. ASSUME Fails, UNCHANGED <<inbox, nextId, readerVars>>
      PROVE  SocketsOK' /\ CallerOK'
  <2>1. CallerOK'
    <3>1. /\ call' \in [pc : {"idle", "asking", "awaiting"}, method : Methods, attempt : 0..2,
                        id : Nat]
          /\ call'.pc # "awaiting"
      <4>1. CASE call.attempt = 1
        <5>1. call' = [call EXCEPT !.pc = "asking", !.attempt = 2]
          BY <1>4, <4>1 DEF Fails
        <5>2. call \in [pc : {"idle", "asking", "awaiting"}, method : Methods, attempt : 0..2,
                        id : Nat]
          BY DEF CallerOK
        <5>3. call' = [pc |-> "asking", method |-> call.method, attempt |-> 2, id |-> call.id]
          BY <5>1, <5>2
        <5> QED BY <5>2, <5>3
      <4>2. CASE call.attempt # 1
        BY <1>4, <4>2 DEF Fails, NoCall, Methods
      <4> QED BY <4>1, <4>2
    <3>2. sock' \in Conns \union {NoConn}
      BY <1>4 DEF Fails, CallerOK
    <3> QED BY <1>4, <3>1, <3>2 DEF CallerOK, readerVars
  <2>2. <<>> \in Seq(Answers)
    OBVIOUS
  <2>3. SocketsOK'
    BY <1>4, <2>2 DEF Fails, SocketsOK
  <2> QED BY <2>1, <2>3
<1>5. CASE LinkDrops
  BY <1>4, <1>5, Frames DEF LinkDrops, stopVars
<1>6. CASE GivesUp
  BY <1>4, <1>6, Frames DEF GivesUp, stopVars
<1>7. CASE GetsAnswer
  <2>1. sock \in Conns
    BY <1>7 DEF GetsAnswer, CallerOK
  <2>2. outbox[sock] \in Seq(Answers) /\ outbox[sock] # <<>>
    BY <1>7, <2>1 DEF GetsAnswer, SocketsOK
  <2>3. Head(outbox[sock]) \in Answers /\ Tail(outbox[sock]) \in Seq(Answers)
    BY <2>2
  <2>4. SocketsOK'
    BY <1>7, <2>3 DEF GetsAnswer, SocketsOK
  <2>5. Head(outbox[sock]).id \in Nat /\ Head(outbox[sock]).logs \in LogAnswers
    BY <2>3 DEF Answers
  <2>6. CallerOK'
    <3> DEFINE answer == Head(outbox[sock])
    <3>1. handed' \in [asked : Nat, answered : Nat]
      BY <1>7, <2>5 DEF GetsAnswer, CallerOK
    <3>2. cursor' \in Nat /\ missed' \in Nat /\ got' \subseteq Nat
      <4>1. /\ answer.logs.nextSeq \in Nat /\ answer.logs.dropped \in Nat
            /\ answer.logs.records \subseteq Nat
        BY <2>5 DEF LogAnswers
      <4>2. \/ UNCHANGED <<cursor, got, missed>>
            \/ /\ cursor' = answer.logs.nextSeq
               /\ got' = got \union answer.logs.records
               /\ missed' = missed + answer.logs.dropped
        BY <1>7 DEF GetsAnswer
      <4>3. cursor \in Nat /\ missed \in Nat /\ got \subseteq Nat
        BY DEF CallerOK
      <4> HIDE DEF answer
      <4>4. CASE UNCHANGED <<cursor, got, missed>>
        BY <4>3, <4>4
      <4>5. CASE /\ cursor' = answer.logs.nextSeq
                 /\ got' = got \union answer.logs.records
                 /\ missed' = missed + answer.logs.dropped
        <5>1. missed' \in Nat
          BY <4>1, <4>3, <4>5
        <5>2. cursor' \in Nat /\ got' \subseteq Nat
          BY <4>1, <4>3, <4>5
        <5> QED BY <5>1, <5>2
      <4> QED BY <4>2, <4>4, <4>5
    <3>3. NewlyPassed(answer.logs) \subseteq Nat
      BY <2>5 DEF NewlyPassed, LogAnswers
    <3>4. passed' \subseteq Nat
      BY <1>7, <3>3 DEF GetsAnswer, CallerOK
    <3>5. call' = NoCall /\ sock' = sock /\ nextId' = nextId
      BY <1>7 DEF GetsAnswer
    <3> QED BY <3>1, <3>2, <3>4, <3>5 DEF CallerOK, NoCall, Methods
  <2> QED BY <1>7, <2>4, <2>6, Frames DEF GetsAnswer, stopVars
<1>8. CASE Closes
  <2>1. SocketsOK' /\ CallerOK'
    BY <1>8 DEF Closes, SocketsOK, CallerOK, readerVars
  <2> QED BY <1>8, <2>1, Frames DEF Closes, stopVars
<1> QED BY <1>1, <1>2, <1>3, <1>5, <1>6, <1>7, <1>8 DEF CallSteps

\* Every variable keeps its type, for any ring, limit and number of connections.
THEOREM Typing == Spec => []TypeOK
<1>1. Init => TypeOK
  BY AnswersTyped, CapacityAssumption DEF Init, ServerInit, RingInit, NoCall, TypeOK, SocketsOK,
     AcceptorOK, ThreadsOK, GuiOK, RingOK, CallerOK, Methods
<1>2. TypeOK /\ [Next]_vars => TypeOK'
  <2> SUFFICES ASSUME TypeOK, [Next]_vars PROVE TypeOK'
    OBVIOUS
  <2>1. CASE ServerNext /\ UNCHANGED callerVars
    BY <2>1, AcceptorTyped, ClientThreadTyped, EventLoopTyped, LoggerTyped DEF ServerNext
  <2>2. CASE UNCHANGED vars
    BY <2>2, Frames DEF vars, serverVars, stopVars, TypeOK
  <2> QED BY <2>1, <2>2, CallerTyped DEF Next
<1> QED BY <1>1, <1>2, PTL DEF Spec

-----------------------------------------------------------------------------
\* A connection whose thread has started and not finished is one stop() will
\* join: in clients_, or, once stop() has swapped it out, in its own copy.  From
\* then on the accept thread is gone and nothing gets into clients_ any more.
Working == {c \in Conns : thread[c] \in {"recv", "wait"}}

Joinable ==
  /\ Working \subseteq clients \union joining
  /\ gui \in {"draining", "stopped"} => acceptor.pc = "out" /\ clients = {}
  /\ gui # "draining" => joining = {}

\* A connection no thread has started for is in one place at most: not opened,
\* in the backlog, or in the accept thread's hand.
InBacklog(c) == \E i \in DOMAIN backlog : backlog[i] = c

NotStarted ==
  /\ \A c \in Conns : InBacklog(c) \/ acceptor.conn = c \/ peer[c] = "none" => thread[c] = "none"
  /\ \A i \in DOMAIN backlog :
       /\ peer[backlog[i]] # "none"
       /\ acceptor.conn # backlog[i]
       /\ \A j \in DOMAIN backlog : i # j => backlog[i] # backlog[j]
  /\ acceptor.conn # NoConn => peer[acceptor.conn] # "none"
  /\ \A c \in Conns : peer[c] = "none" => inbox[c] = <<>> /\ outbox[c] = <<>>

\* Only the caller's connection is open.
OneOpen == \A c \in Conns : peer[c] = "open" <=> sock = c

\* A promise is set only while its reader waits, and with that reader's id; so is
\* the answer of a handler.
PromiseIsOwn ==
  /\ \A c \in Conns : promise[c] # NoReply => thread[c] = "wait" /\ promise[c].id = request[c].id
  /\ \A i \in DOMAIN stack : stack[i].answer.id = stack[i].task.request.id

\* What the caller's connection holds, on its way there, in work or on its way
\* back, is at most the one line of the call in progress; lines that are over the
\* size limit do not count, for they are not answered, and nothing that is in a
\* connection which was reset counts, for it stays there.
Own(id) == call.pc = "awaiting" /\ call.method # "oversized" /\ id = call.id

OneOutstanding ==
  sock # NoConn =>
    /\ outbox[sock] # <<>> => Len(outbox[sock]) = 1 /\ Own(Head(outbox[sock]).id)
    /\ ~IsReset(sock) =>
         /\ thread[sock] = "wait" => Own(request[sock].id) /\ outbox[sock] = <<>>
         /\ \A i \in DOMAIN inbox[sock] :
              inbox[sock][i].method # "oversized" =>
                /\ Own(inbox[sock][i].id)
                /\ i = Len(inbox[sock])
                /\ thread[sock] # "wait" /\ outbox[sock] = <<>>

OwnInv == NotStarted /\ OneOpen /\ PromiseIsOwn /\ OneOutstanding /\ AnswerIsOwn

\* stop() joins every thread of the socket before it returns, however many
\* connections there are and whenever it comes.
THEOREM QuietOnceStopped == Spec => []StoppedMeansQuiet
<1>1. Init => Joinable
  BY DEF Init, ServerInit, Joinable, Working
<1>2. TypeOK /\ Joinable /\ [Next]_vars => Joinable'
  <2> SUFFICES ASSUME TypeOK, Joinable, [Next]_vars PROVE Joinable'
    OBVIOUS
  <2> USE DEF TypeOK, AcceptorOK, ThreadsOK, Joinable, Working, Goes
  <2>1. CASE Accepts
    BY <2>1 DEF Accepts, Alive, clientVars, stopVars
  <2>2. CASE AcceptFails
    BY <2>2 DEF AcceptFails, clientVars, stopVars
  <2>3. CASE AdmitsClient
    BY <2>3 DEF AdmitsClient, Alive, stopVars
  <2>4. ASSUME NEW c \in Conns, ClientThread(c)
        PROVE  Joinable'
    <3>1. thread[c] \in {"recv", "wait"}
      BY <2>4 DEF ClientThread, PostsTask, RejectsLine, DropsLine, TakesLine, TakesResult, TimesOut,
                  SeesHangUp
    <3>2. \A d \in Conns : d # c => thread'[d] = thread[d]
      BY <2>4 DEF ClientThread, PostsTask, RejectsLine, DropsLine, TakesResult, TimesOut,
                  SeesHangUp, Leaves, Sends
    <3>3. UNCHANGED <<acceptor, clients, gui, joining>>
      BY <2>4 DEF ClientThread, PostsTask, RejectsLine, DropsLine, TakesLine, TakesResult, TimesOut,
                  SeesHangUp, Leaves, acceptVars, stopVars
    <3> QED BY <3>1, <3>2, <3>3
  <2>5. CASE EventLoop
    BY <2>5 DEF EventLoop, RunsTask, RunsLooseTask, FulfilsPromise, TakesEvent, InEventLoop,
                acceptVars, clientVars, stopVars
  <2>6. CASE Stop
    <3>1. CASE StopBegins \/ StopCloses
      BY <3>1 DEF StopBegins, StopCloses, clientVars
    <3>2. CASE StopJoinsAcceptor
      BY <3>2 DEF StopJoinsAcceptor, acceptVars
    <3>3. CASE StopJoinsClients
      <4>1. Working = {} /\ clients = {} /\ acceptor.pc = "out"
        BY <3>3 DEF StopJoinsClients
      <4> QED BY <3>3, <4>1 DEF StopJoinsClients, acceptVars, clientVars
    <3> QED BY <2>6, <3>1, <3>2, <3>3 DEF Stop
  <2>7. CASE UNCHANGED <<acceptor, clientVars, stopVars>>
    BY <2>7 DEF clientVars, stopVars
  <2>8. CASE Logger
    BY <2>7, <2>8 DEF Logger, acceptVars
  <2>9. CASE (\E method \in Methods : Calls(method)) \/ CallSteps \/ Closes \/ UNCHANGED vars
    BY <2>7, <2>9 DEF Calls, CallSteps, Connects, SendsRequest, LinkDrops, GivesUp, GetsAnswer,
                      Closes, vars, serverVars, acceptVars
  <2> QED BY <2>1, <2>2, <2>3, <2>4, <2>5, <2>6, <2>8, <2>9 DEF Next, ServerNext, Acceptor
<1>3. TypeOK /\ Joinable => StoppedMeansQuiet
  BY DEF TypeOK, ThreadsOK, Joinable, Working, StoppedMeansQuiet
<1> QED BY <1>1, <1>2, <1>3, Typing, PTL DEF Spec

\* A connection that was reset stays so: nothing comes back from it.
LEMMA ResetStays ==
  ASSUME TypeOK, ServerNext, NEW c \in Conns, IsReset(c)
  PROVE  IsReset(c)'
<1> USE DEF TypeOK, AcceptorOK, ThreadsOK, GuiOK, IsReset, Alive
<1>1. CASE Accepts
  <2>1. backlog # <<>> /\ Head(backlog) = backlog[1] /\ 1 \in DOMAIN backlog
    BY <1>1 DEF Accepts
  <2>2. \A i \in DOMAIN Tail(backlog) : i + 1 \in DOMAIN backlog /\ Tail(backlog)[i] = backlog[i + 1]
    BY <2>1
  <2> QED BY <1>1, <2>1, <2>2 DEF Accepts, clientVars, stopVars
<1>2. CASE AcceptFails
  BY <1>2 DEF AcceptFails, clientVars, stopVars
<1>3. CASE AdmitsClient
  BY <1>3, ConnsAssumption DEF AdmitsClient, Goes, stopVars
<1>4. ASSUME NEW d \in Conns, ClientThread(d)
      PROVE  IsReset(c)'
  <2>1. thread[d] # "none" /\ UNCHANGED <<acceptor, backlog, gui>> /\ Alive
    BY <1>4 DEF ClientThread, PostsTask, RejectsLine, DropsLine, TakesLine, TakesResult, TimesOut,
                SeesHangUp, Leaves, acceptVars, stopVars
  <2>2. \A e \in Conns : e # d => thread'[e] = thread[e]
    BY <1>4 DEF ClientThread, PostsTask, RejectsLine, DropsLine, TakesResult, TimesOut,
                SeesHangUp, Leaves, Sends, Goes
  <2> QED BY <2>1, <2>2
<1>5. CASE EventLoop
  BY <1>5 DEF EventLoop, RunsTask, RunsLooseTask, FulfilsPromise, TakesEvent, InEventLoop,
              acceptVars, clientVars, stopVars
<1>6. CASE Stop
  <2>1. \A i \in DOMAIN <<>> : FALSE
    OBVIOUS
  <2> QED BY <1>6, <2>1 DEF Stop, StopBegins, StopCloses, StopJoinsAcceptor, StopJoinsClients,
                            acceptVars, clientVars
<1>7. CASE Logger
  BY <1>7 DEF Logger, acceptVars, clientVars, stopVars
<1> QED BY <1>1, <1>2, <1>3, <1>4, <1>5, <1>6, <1>7 DEF ServerNext, Acceptor

LEMMA AcceptorOwn ==
  ASSUME TypeOK, OwnInv, Acceptor, UNCHANGED callerVars
  PROVE  OwnInv'
<1> USE DEF TypeOK, AcceptorOK, ThreadsOK, OwnInv
<1>1. AnswerIsOwn' /\ OneOpen'
  BY DEF Acceptor, Accepts, AcceptFails, AdmitsClient, AnswerIsOwn, OneOpen, callerVars, readerVars,
         socketVars
<1>2. sock' = sock /\ call' = call /\ sock \in Conns \union {NoConn}
  BY DEF callerVars, CallerOK
<1>3. sock \in Conns /\ IsReset(sock) => IsReset(sock)'
  <2>1. \A c \in Conns : IsReset(c) => IsReset(c)'
    BY ResetStays DEF ServerNext
  <2> QED BY <1>2, <2>1 DEF IsReset, Alive
<1>4. CASE Accepts
  <2>1. backlog # <<>> /\ Head(backlog) = backlog[1] /\ 1 \in DOMAIN backlog /\ backlog[1] \in Conns
    BY <1>4 DEF Accepts
  <2>2. \A i \in DOMAIN Tail(backlog) :
          i + 1 \in DOMAIN backlog /\ Tail(backlog)[i] = backlog[i + 1] /\ i \in Nat \ {0}
    BY <2>1
  <2>3. NotStarted'
    BY <1>4, <2>1, <2>2, ConnsAssumption DEF Accepts, NotStarted, InBacklog, clientVars, socketVars
  <2>4. PromiseIsOwn'
    BY <1>4 DEF Accepts, PromiseIsOwn, clientVars, guiVars
  <2>5. OneOutstanding'
    BY <1>3, <1>2, <1>4 DEF Accepts, OneOutstanding, Own, clientVars, socketVars
  <2> QED BY <1>1, <2>3, <2>4, <2>5
<1>5. CASE AcceptFails
  <2>1. acceptor'.conn = acceptor.conn
    BY <1>5 DEF AcceptFails
  <2>2. NotStarted'
    BY <1>5, <2>1 DEF AcceptFails, NotStarted, InBacklog, clientVars, socketVars
  <2>3. PromiseIsOwn'
    BY <1>5 DEF AcceptFails, PromiseIsOwn, clientVars, guiVars
  <2>4. OneOutstanding'
    BY <1>3, <1>2, <1>5 DEF AcceptFails, OneOutstanding, Own, clientVars, socketVars
  <2> QED BY <1>1, <2>2, <2>3, <2>4
<1>6. CASE AdmitsClient
  <2> DEFINE conn == acceptor.conn
  <2>1. /\ conn \in Conns /\ thread[conn] = "none" /\ peer[conn] # "none" /\ ~InBacklog(conn)
        /\ thread' = [thread EXCEPT ![conn] = "recv"] /\ acceptor'.conn = NoConn
    BY <1>6 DEF AdmitsClient, NotStarted, Goes, InBacklog
  <2>2. NotStarted'
    BY <1>6, <2>1, ConnsAssumption DEF AdmitsClient, NotStarted, InBacklog, socketVars
  <2>3. PromiseIsOwn'
    BY <1>6, <2>1 DEF AdmitsClient, PromiseIsOwn, guiVars
  <2>4. OneOutstanding'
    BY <1>3, <1>2, <1>6, <2>1 DEF AdmitsClient, OneOutstanding, Own, socketVars
  <2> QED BY <1>1, <2>2, <2>3, <2>4
<1> QED BY <1>4, <1>5, <1>6 DEF Acceptor

LEMMA EventLoopOwn ==
  ASSUME TypeOK, OwnInv, EventLoop \/ Stop \/ Logger, UNCHANGED callerVars
  PROVE  OwnInv'
<1> USE DEF TypeOK, OwnInv
<1>1. UNCHANGED <<socketVars, acceptor, thread, request, handed, sock, call>>
  BY DEF EventLoop, RunsTask, RunsLooseTask, FulfilsPromise, TakesEvent, Stop, StopBegins,
         StopCloses, StopJoinsAcceptor, StopJoinsClients, Logger, acceptVars, clientVars,
         callerVars, readerVars
<1>2. backlog' = backlog \/ backlog' = <<>>
  BY DEF EventLoop, RunsTask, RunsLooseTask, FulfilsPromise, TakesEvent, Stop, StopBegins,
         StopCloses, StopJoinsAcceptor, StopJoinsClients, Logger, acceptVars
<1>3. NotStarted'
  <2>1. \A i \in DOMAIN <<>> : FALSE
    OBVIOUS
  <2> QED BY <1>1, <1>2, <2>1 DEF NotStarted, InBacklog, socketVars
<1>4. OneOpen' /\ AnswerIsOwn'
  BY <1>1 DEF OneOpen, AnswerIsOwn, socketVars
<1>5. OneOutstanding'
  <2>1. \A c \in Conns : IsReset(c) => IsReset(c)'
    BY ResetStays DEF ServerNext
  <2>2. sock \in Conns \union {NoConn}
    BY DEF CallerOK
  <2>3. sock \in Conns /\ IsReset(sock) => IsReset(sock)'
    BY <1>1, <2>1, <2>2 DEF IsReset, Alive
  <2> QED BY <1>1, <2>2, <2>3 DEF OneOutstanding, Own, socketVars
<1>6. ASSUME NEW task, NEW req, NEW phase, Handles(task, req, phase), UNCHANGED promise
      PROVE  PromiseIsOwn'
  <2>1. stack \in Seq(Handlers)
    BY DEF GuiOK
  <2>2. PICK handler : /\ stack' = Append(stack, handler)
                       /\ handler.answer.id = handler.task.request.id
    BY <1>6 DEF Handles, Answer
  <2>3. \A i \in DOMAIN stack' : \/ i \in DOMAIN stack /\ stack'[i] = stack[i]
                                 \/ stack'[i] = handler
    BY <2>1, <2>2
  <2> QED BY <1>1, <1>6, <2>2, <2>3 DEF PromiseIsOwn
<1>7. PromiseIsOwn'
  <2>1. CASE RunsTask
    BY <1>6, <2>1 DEF RunsTask, TakesEvent
  <2>2. CASE RunsLooseTask
    <3>1. CASE UNCHANGED stack
      BY <1>1, <2>2, <3>1 DEF RunsLooseTask, TakesEvent, PromiseIsOwn
    <3> QED BY <1>6, <2>2, <3>1 DEF RunsLooseTask, TakesEvent
  <2>3. CASE FulfilsPromise
    <3>1. stack \in Seq(Handlers) /\ Len(stack) \in DOMAIN stack
      BY <2>3 DEF FulfilsPromise, GuiOK
    <3>2. \A i \in DOMAIN stack' : i \in DOMAIN stack /\ stack'[i] = stack[i]
      BY <2>3, <3>1 DEF FulfilsPromise
    <3>3. stack[Len(stack)] \in Handlers
      BY <3>1
    <3>4. Innermost.answer.id = Innermost.task.request.id /\ Innermost.task.conn \in Conns
      BY <3>1, <3>3 DEF PromiseIsOwn, Innermost, Handlers, Tasks
    <3>5. \A c \in Conns :
            promise'[c] # NoReply => thread[c] = "wait" /\ promise'[c].id = request[c].id
      BY <2>3, <3>4 DEF FulfilsPromise, FrameAlive, PromiseIsOwn, GuiOK
    <3> QED BY <1>1, <3>2, <3>5 DEF PromiseIsOwn
  <2>4. CASE Stop \/ Logger
    BY <1>1, <2>4 DEF Stop, StopBegins, StopCloses, StopJoinsAcceptor, StopJoinsClients, Logger,
                      guiVars, PromiseIsOwn
  <2> QED BY <2>1, <2>2, <2>3, <2>4 DEF EventLoop
<1> QED BY <1>3, <1>4, <1>5, <1>7

\* The lines that are left once the first is taken.
LEMMA TailOfLines ==
  ASSUME NEW lines \in Seq(Requests), lines # <<>>
  PROVE  /\ Tail(lines) \in Seq(Requests) /\ Len(Tail(lines)) = Len(lines) - 1
         /\ Head(lines) = lines[1] /\ 1 \in DOMAIN lines /\ lines[1] \in Requests
         /\ \A i \in DOMAIN Tail(lines) :
              i \in Nat \ {0} /\ i + 1 \in DOMAIN lines /\ Tail(lines)[i] = lines[i + 1]
  OBVIOUS

LEMMA NothingLeft ==
  ASSUME NEW lines \in Seq(Requests), Len(lines) = 0
  PROVE  lines = <<>>
  BY EmptySeq

\* What a connection's thread does with a line, an answer or a deadline.
LEMMA ClientThreadOwn ==
  ASSUME TypeOK, OwnInv, NEW c \in Conns, ClientThread(c), UNCHANGED callerVars
  PROVE  OwnInv'
<1> USE DEF TypeOK, OwnInv
<1>1. /\ thread[c] \in {"recv", "wait"} /\ Alive
      /\ UNCHANGED <<peer, backlog, acceptor, gui, stack, sock, call, handed>>
  BY DEF ClientThread, PostsTask, RejectsLine, DropsLine, TakesLine, TakesResult, TimesOut,
         SeesHangUp, Leaves, socketVars, acceptVars, guiVars, stopVars, callerVars, readerVars
<1>2. \A d \in Conns : d # c => /\ thread'[d] = thread[d] /\ request'[d] = request[d]
                                /\ promise'[d] = promise[d]
                                /\ inbox'[d] = inbox[d] /\ outbox'[d] = outbox[d]
  BY DEF ClientThread, PostsTask, RejectsLine, DropsLine, TakesLine, TakesResult, TimesOut,
         SeesHangUp, Leaves, Sends, Goes, socketVars, clientVars, guiVars, SocketsOK, ThreadsOK,
         GuiOK
<1>3. ~IsReset(c) /\ peer[c] # "none" /\ ~InBacklog(c) /\ acceptor.conn # c
  BY <1>1 DEF IsReset, NotStarted
<1>4. NotStarted'
  BY <1>1, <1>2, <1>3 DEF NotStarted, InBacklog, AcceptorOK
<1>5. OneOpen' /\ AnswerIsOwn'
  BY <1>1 DEF OneOpen, AnswerIsOwn
<1>6. ASSUME sock # c
      PROVE  OneOutstanding'
  <2>1. sock # NoConn => (IsReset(sock)' => IsReset(sock)) /\ (IsReset(sock) => IsReset(sock)')
    BY <1>1, <1>2, <1>6 DEF CallerOK, IsReset, Alive
  <2> QED BY <1>1, <1>2, <1>6, <2>1 DEF OneOutstanding, Own, CallerOK
<1>7. ASSUME sock = c
      PROVE  OneOutstanding'
  <2>1. /\ outbox[c] # <<>> => Len(outbox[c]) = 1 /\ Own(Head(outbox[c]).id)
        /\ thread[c] = "wait" => Own(request[c].id) /\ outbox[c] = <<>>
        /\ \A i \in DOMAIN inbox[c] :
             inbox[c][i].method # "oversized" =>
               /\ Own(inbox[c][i].id)
               /\ i = Len(inbox[c])
               /\ thread[c] # "wait" /\ outbox[c] = <<>>
    BY <1>3, <1>7, ConnsAssumption DEF OneOutstanding
  <2>2. inbox[c] \in Seq(Requests) /\ outbox[c] \in Seq(Answers)
    BY DEF SocketsOK
  <2>3. SUFFICES /\ outbox'[c] # <<>> => Len(outbox'[c]) = 1 /\ Own(Head(outbox'[c]).id)
                 /\ thread'[c] = "wait" => Own(request'[c].id) /\ outbox'[c] = <<>>
                 /\ \A i \in DOMAIN inbox'[c] :
                      inbox'[c][i].method # "oversized" =>
                        /\ Own(inbox'[c][i].id)
                        /\ i = Len(inbox'[c])
                        /\ thread'[c] # "wait" /\ outbox'[c] = <<>>
    BY <1>1, <1>7 DEF OneOutstanding, Own
  <2>4. ASSUME NEW id, NEW outcome, NEW logs, outbox[c] = <<>>, Own(id)
        PROVE  LET answers == Append(outbox[c], Answer(id, outcome, logs))
               IN  answers # <<>> /\ Len(answers) = 1 /\ Own(Head(answers).id)
    BY <2>4 DEF Answer
  <2>5. ASSUME NEW methods, Asked(c, methods), TakesLine(c), "oversized" \notin methods
        PROVE  /\ Own(Head(inbox[c]).id) /\ inbox'[c] = <<>>
               /\ thread[c] = "recv" /\ outbox[c] = <<>>
    <3>1. /\ inbox[c] # <<>> /\ Head(inbox[c]).method # "oversized"
          /\ inbox'[c] = Tail(inbox[c]) /\ thread[c] = "recv"
      BY <2>5 DEF Asked, TakesLine, SocketsOK
    <3>2. Own(Head(inbox[c]).id) /\ Len(inbox[c]) = 1 /\ outbox[c] = <<>>
      BY <2>1, <2>2, <3>1, TailOfLines
    <3>3. Tail(inbox[c]) \in Seq(Requests) /\ Len(Tail(inbox[c])) = 0
      BY <2>2, <3>1, <3>2, TailOfLines
    <3>4. Tail(inbox[c]) = <<>>
      BY <3>3, NothingLeft
    <3> QED BY <3>1, <3>2, <3>4
  <2>6. \A i \in DOMAIN <<>> : FALSE
    OBVIOUS
  <2>7. CASE PostsTask(c)
    <3>1. /\ Own(Head(inbox[c]).id) /\ inbox'[c] = <<>> /\ outbox'[c] = <<>>
          /\ request'[c] = Head(inbox[c])
      BY <2>5, <2>7 DEF PostsTask, ThreadsOK
    <3> QED BY <2>6, <3>1
  <2>8. CASE RejectsLine(c)
    <3>1. /\ Own(Head(inbox[c]).id) /\ inbox'[c] = <<>> /\ outbox[c] = <<>>
          /\ Sends(c, Answer(Head(inbox[c]).id, "error", NoLogs))
      BY <2>5, <2>8 DEF RejectsLine
    <3>2. \/ outbox'[c] = Append(outbox[c], Answer(Head(inbox[c]).id, "error", NoLogs))
          \/ outbox'[c] = <<>>
      BY <3>1 DEF Sends, SocketsOK
    <3>3. thread'[c] # "wait"
      BY <3>1 DEF Sends, Goes, ThreadsOK
    <3>4. CASE outbox'[c] = Append(outbox[c], Answer(Head(inbox[c]).id, "error", NoLogs))
      <4>1. outbox'[c] = <<Answer(Head(inbox[c]).id, "error", NoLogs)>>
        BY <3>1, <3>4
      <4> QED BY <2>4, <2>6, <3>1, <3>3, <4>1
    <3>5. CASE outbox'[c] = <<>>
      BY <2>6, <3>1, <3>3, <3>5
    <3> QED BY <3>2, <3>4, <3>5
  <2>9. CASE DropsLine(c)
    <3>1. inbox[c] # <<>> /\ Head(inbox[c]).method = "oversized" /\ inbox'[c] = Tail(inbox[c])
      BY <2>9 DEF DropsLine, Asked, TakesLine, SocketsOK
    <3>2. UNCHANGED <<outbox, thread, request>>
      BY <2>9 DEF DropsLine
    <3>3. \A i \in DOMAIN inbox'[c] :
            i + 1 \in DOMAIN inbox[c] /\ inbox'[c][i] = inbox[c][i + 1]
      BY <2>2, <3>1, TailOfLines
    <3>4. Len(inbox'[c]) = Len(inbox[c]) - 1 /\ Len(inbox[c]) \in Nat
      BY <2>2, <3>1, TailOfLines
    <3>5. \A i \in DOMAIN inbox'[c] : i \in Nat
      BY <2>2, <3>1, TailOfLines
    <3>6. ASSUME NEW i \in DOMAIN inbox'[c], inbox'[c][i].method # "oversized"
          PROVE  Own(inbox'[c][i].id) /\ i = Len(inbox'[c]) /\ thread[c] # "wait" /\ outbox[c] = <<>>
      BY <2>1, <3>3, <3>4, <3>5, <3>6
    <3> QED BY <2>1, <3>2, <3>6
  <2>10. ASSUME NEW outcome, NEW logs, thread[c] = "wait",
                Leaves(c, Answer(request[c].id, outcome, logs))
         PROVE  /\ outbox'[c] # <<>> => Len(outbox'[c]) = 1 /\ Own(Head(outbox'[c]).id)
                /\ thread'[c] # "wait"
                /\ \A i \in DOMAIN inbox'[c] : inbox'[c][i].method = "oversized"
    <3>1. Own(request[c].id) /\ outbox[c] = <<>>
      BY <2>1, <2>10
    <3>2. \/ outbox'[c] = Append(outbox[c], Answer(request[c].id, outcome, logs))
          \/ outbox'[c] = <<>>
      BY <2>10, <3>1 DEF Leaves, Sends, SocketsOK
    <3>3. thread'[c] # "wait" /\ inbox' = inbox
      BY <2>10 DEF Leaves, Sends, Goes, ThreadsOK
    <3> QED BY <2>1, <2>4, <2>10, <3>1, <3>2, <3>3
  <2>11. CASE TakesResult(c)
    <3>1. promise[c].id = request[c].id /\ promise[c] \in Answers
      BY <2>11 DEF TakesResult, PromiseIsOwn, GuiOK
    <3>2. promise[c] = Answer(request[c].id, promise[c].outcome, promise[c].logs)
      BY <3>1 DEF Answer, Answers
    <3> QED BY <2>10, <2>11, <3>2 DEF TakesResult
  <2>12. CASE TimesOut(c)
    BY <2>10, <2>12 DEF TimesOut
  <2>13. CASE SeesHangUp(c)
    <3>1. thread'[c] = "finished" /\ UNCHANGED <<inbox, outbox, request>>
      BY <2>13 DEF SeesHangUp, Goes, ThreadsOK, socketVars
    <3> QED BY <2>1, <3>1
  <2> QED BY <2>7, <2>8, <2>9, <2>11, <2>12, <2>13 DEF ClientThread
<1>8. OneOutstanding'
  BY <1>6, <1>7
<1>9. PromiseIsOwn'
  <2>1. SUFFICES promise'[c] # NoReply => thread'[c] = "wait" /\ promise'[c].id = request'[c].id
    BY <1>1, <1>2 DEF PromiseIsOwn
  <2>2. CASE PostsTask(c) \/ RejectsLine(c) \/ DropsLine(c) \/ SeesHangUp(c)
    BY <2>2 DEF PostsTask, RejectsLine, DropsLine, SeesHangUp, TakesLine, PromiseIsOwn, guiVars
  <2>3. CASE TakesResult(c) \/ TimesOut(c)
    BY <2>3 DEF TakesResult, TimesOut, Leaves, GuiOK
  <2> QED BY <2>2, <2>3 DEF ClientThread
<1> QED BY <1>4, <1>5, <1>8, <1>9

LEMMA CallerOwn ==
  ASSUME TypeOK, OwnInv, ~MayFailTwice,
         (\E method \in Methods : Calls(method)) \/ CallSteps \/ Closes
  PROVE  OwnInv'
<1> USE DEF TypeOK, OwnInv
<1>1. UNCHANGED <<acceptor, thread, request, promise, stack, gui>>
  BY DEF Calls, CallSteps, Connects, SendsRequest, LinkDrops, GivesUp, GetsAnswer, Closes,
         serverVars, acceptVars, clientVars, guiVars, stopVars
<1>2. PromiseIsOwn'
  BY <1>1 DEF PromiseIsOwn
<1>3. sock \in Conns \union {NoConn} /\ NoConn \notin Conns
  BY ConnsAssumption DEF CallerOK
<1>4. ASSUME NEW method \in Methods, Calls(method)
      PROVE  OwnInv'
  <2>1. UNCHANGED <<peer, inbox, outbox, backlog, sock, handed>>
    BY <1>4 DEF Calls, serverVars, socketVars, acceptVars, readerVars
  <2>2. call.pc = "idle"
    BY <1>4 DEF Calls
  <2>3. OneOutstanding'
    BY <1>1, <2>1, <2>2 DEF OneOutstanding, Own, IsReset, Alive
  <2> QED BY <1>1, <1>2, <2>1, <2>3 DEF NotStarted, InBacklog, OneOpen, AnswerIsOwn
<1>5. CASE Connects
  <2>1. PICK c \in Conns : /\ peer[c] = "none" /\ sock' = c /\ sock = NoConn
                           /\ peer' = [peer EXCEPT ![c] = "open"]
                           /\ backlog' = Append(backlog, c)
                           /\ UNCHANGED <<inbox, outbox, call, handed>>
    BY <1>5 DEF Connects, Unused, readerVars
  <2>2. /\ \A i \in DOMAIN backlog' :
             \/ i \in DOMAIN backlog /\ backlog'[i] = backlog[i]
             \/ i = Len(backlog) + 1 /\ backlog'[i] = c
        /\ Len(backlog) + 1 \in DOMAIN backlog' /\ Len(backlog) + 1 \notin DOMAIN backlog
        /\ backlog'[Len(backlog) + 1] = c
    BY <2>1 DEF AcceptorOK
  <2>3. ~InBacklog(c) /\ acceptor.conn # c /\ thread[c] = "none" /\ inbox[c] = <<>> /\ outbox[c] = <<>>
    BY <1>3, <2>1 DEF NotStarted, InBacklog
  <2>4. NotStarted'
    BY <1>1, <2>1, <2>2, <2>3 DEF NotStarted, InBacklog, SocketsOK
  <2>5. OneOpen'
    BY <1>3, <2>1 DEF OneOpen, SocketsOK
  <2>6. \A i \in DOMAIN <<>> : FALSE
    OBVIOUS
  <2>7. OneOutstanding'
    BY <1>1, <2>1, <2>3, <2>6 DEF OneOutstanding
  <2> QED BY <1>2, <2>1, <2>4, <2>5, <2>7 DEF AnswerIsOwn
<1>6. CASE SendsRequest
  <2>1. /\ sock \in Conns /\ ~IsReset(sock) /\ call.pc = "asking"
        /\ UNCHANGED <<peer, outbox, backlog, sock, handed>>
    BY <1>3, <1>6 DEF SendsRequest, acceptVars, readerVars
  <2>2. PICK req : /\ req.id = nextId /\ req.method = call.method /\ req \in Requests
                   /\ inbox' = [inbox EXCEPT ![sock] = Append(@, req)]
                   /\ call' = [call EXCEPT !.pc = "awaiting", !.id = nextId]
    <3> DEFINE sent == [id |-> nextId, method |-> call.method,
                        since |-> IF call.method = "app.logs" THEN cursor ELSE 0]
    <3>1. sent \in Requests /\ sent.id = nextId /\ sent.method = call.method
      BY DEF CallerOK, Requests
    <3>2. /\ inbox' = [inbox EXCEPT ![sock] = Append(@, sent)]
          /\ call' = [call EXCEPT !.pc = "awaiting", !.id = nextId]
      BY <1>6 DEF SendsRequest
    <3> HIDE DEF sent
    <3> QED BY <3>1, <3>2
  <2>3. outbox[sock] = <<>> /\ thread[sock] # "wait"
    BY <1>3, <2>1 DEF OneOutstanding, Own
  <2>4. \A i \in DOMAIN inbox[sock] : inbox[sock][i].method = "oversized"
    BY <1>3, <2>1 DEF OneOutstanding, Own
  <2>5. \A i \in DOMAIN inbox'[sock] : \/ inbox'[sock][i].method = "oversized"
                                       \/ i = Len(inbox'[sock]) /\ inbox'[sock][i] = req
    BY <2>1, <2>2, <2>4 DEF SocketsOK
  <2>6. call'.pc = "awaiting" /\ call'.id = nextId /\ call'.method = call.method
    BY <2>2 DEF CallerOK
  <2>7. OneOutstanding'
    BY <1>1, <2>1, <2>2, <2>3, <2>5, <2>6 DEF OneOutstanding, Own
  <2>8. NotStarted'
    <3>1. peer[sock] = "open" 
      BY <2>1 DEF OneOpen
    <3>2. \A c \in Conns : peer[c] = "none" => inbox'[c] = inbox[c]
      BY <2>1, <2>2, <3>1 DEF SocketsOK
    <3> QED BY <1>1, <2>1, <3>2 DEF NotStarted, InBacklog
  <2> QED BY <1>2, <2>1, <2>7, <2>8 DEF OneOpen, AnswerIsOwn
<1>7. ASSUME Fails, UNCHANGED <<inbox, backlog, handed>>,
             call.pc # "idle",
             \/ call.pc = "asking" /\ sock = NoConn
             \/ call.pc = "asking" /\ sock # NoConn /\ IsReset(sock)
             \/ call.pc = "awaiting" /\ outbox[sock] = <<>> /\ IsReset(sock)
             \/ call.pc = "awaiting" /\ outbox[sock] = <<>> /\ call.attempt = 1
             \/ call.pc = "awaiting" /\ outbox[sock] = <<>> /\ call.method = "oversized"
      PROVE  OwnInv'
  <2>1. CASE call.attempt = 1
    <3>1. /\ peer' = [c \in Conns |-> IF c = sock THEN "closed" ELSE peer[c]]
          /\ outbox' = [c \in Conns |-> IF c = sock THEN <<>> ELSE outbox[c]]
          /\ sock' = NoConn
      BY <1>7, <2>1 DEF Fails
    <3>2. \A c \in Conns : peer'[c] = "none" <=> peer[c] = "none"
      BY <3>1 DEF OneOpen
    <3>3. NotStarted'
      BY <1>1, <1>3, <1>7, <3>1, <3>2 DEF NotStarted, InBacklog, AcceptorOK
    <3>4. OneOpen' /\ OneOutstanding'
      BY <1>3, <3>1 DEF OneOpen, OneOutstanding
    <3> QED BY <1>2, <1>7, <3>3, <3>4 DEF AnswerIsOwn
  <2>2. CASE call.attempt # 1
    <3>1. call'.pc = "idle" /\ UNCHANGED <<peer, outbox, sock>>
      BY <1>7, <2>2 DEF Fails, NoCall
    <3>2. NotStarted' /\ OneOpen'
      BY <1>1, <1>7, <3>1 DEF NotStarted, InBacklog, OneOpen
    <3>3. OneOutstanding'
      BY <1>1, <1>3, <1>7, <2>2, <3>1 DEF OneOutstanding, Own, IsReset, Alive
    <3> QED BY <1>2, <1>7, <3>2, <3>3 DEF AnswerIsOwn
  <2> QED BY <2>1, <2>2
<1>8. CASE LinkDrops
  BY <1>7, <1>8 DEF LinkDrops, acceptVars, readerVars
<1>9. CASE GivesUp
  BY <1>7, <1>9 DEF GivesUp, acceptVars, readerVars
<1>10. CASE GetsAnswer
  <2>1. /\ sock \in Conns /\ outbox[sock] # <<>> /\ call'.pc = "idle"
        /\ outbox' = [outbox EXCEPT ![sock] = Tail(@)]
        /\ handed' = [asked |-> call.id, answered |-> Head(outbox[sock]).id]
        /\ UNCHANGED <<peer, inbox, backlog, sock>>
    BY <1>3, <1>10 DEF GetsAnswer, CallerOK, acceptVars, NoCall
  <2>2. Own(Head(outbox[sock]).id) /\ Len(outbox[sock]) = 1
    BY <1>3, <2>1 DEF OneOutstanding
  <2>3. outbox[sock] \in Seq(Answers) /\ Tail(outbox[sock]) \in Seq(Answers)
    BY <2>1 DEF SocketsOK
  <2>4. Len(Tail(outbox[sock])) = 0
    BY <2>1, <2>2, <2>3
  <2>5. outbox'[sock] = <<>>
    BY <2>1, <2>3, <2>4 DEF SocketsOK
  <2>6. AnswerIsOwn'
    BY <2>1, <2>2 DEF AnswerIsOwn, Own
  <2>7. OneOutstanding'
    BY <1>1, <1>3, <2>1, <2>5 DEF OneOutstanding, IsReset, Alive
  <2>8. \A c \in Conns : outbox[c] = <<>> => outbox'[c] = <<>>
    BY <2>1, <2>5 DEF SocketsOK
  <2>9. NotStarted' /\ OneOpen'
    BY <1>1, <2>1, <2>8 DEF NotStarted, InBacklog, OneOpen
  <2> QED BY <1>2, <2>6, <2>7, <2>9
<1>11. CASE Closes
  <2>1. /\ sock \in Conns /\ sock' = NoConn
        /\ peer' = [peer EXCEPT ![sock] = "closed"]
        /\ outbox' = [outbox EXCEPT ![sock] = <<>>]
        /\ UNCHANGED <<inbox, backlog, handed>>
    BY <1>3, <1>11 DEF Closes, acceptVars, readerVars
  <2>2. \A c \in Conns : /\ peer'[c] = "none" <=> peer[c] = "none"
                         /\ outbox[c] = <<>> => outbox'[c] = <<>>
    BY <2>1 DEF OneOpen, SocketsOK
  <2>3. NotStarted'
    BY <1>1, <1>3, <2>1, <2>2 DEF NotStarted, InBacklog, AcceptorOK
  <2>4. OneOpen' /\ OneOutstanding'
    BY <1>3, <2>1 DEF OneOpen, OneOutstanding, SocketsOK
  <2> QED BY <1>2, <2>1, <2>3, <2>4 DEF AnswerIsOwn
<1> QED BY <1>4, <1>5, <1>6, <1>8, <1>9, <1>10, <1>11 DEF CallSteps

\* A call returns the answer to its own request, on any number of connections,
\* though nobody compares ids, as long as no retry times out.
THEOREM AnswersAreOwn ==
  ASSUME ~MayFailTwice
  PROVE  Spec => []AnswerIsOwn
<1>1. Init => OwnInv
  BY ConnsAssumption DEF Init, ServerInit, OwnInv, NotStarted, InBacklog, OneOpen, PromiseIsOwn,
     OneOutstanding, AnswerIsOwn
<1>2. TypeOK /\ OwnInv /\ [Next]_vars => OwnInv'
  <2> SUFFICES ASSUME TypeOK, OwnInv, [Next]_vars PROVE OwnInv'
    OBVIOUS
  <2>1. CASE ServerNext /\ UNCHANGED callerVars
    BY <2>1, AcceptorOwn, ClientThreadOwn, EventLoopOwn DEF ServerNext
  <2>2. CASE UNCHANGED vars
    BY <2>2 DEF vars, serverVars, socketVars, acceptVars, clientVars, guiVars, stopVars, callerVars,
       readerVars, OwnInv, NotStarted, InBacklog, OneOpen, PromiseIsOwn, OneOutstanding, Own,
       IsReset, Alive, AnswerIsOwn
  <2> QED BY <2>1, <2>2, CallerOwn DEF Next
<1>3. OwnInv => AnswerIsOwn
  BY DEF OwnInv
<1> QED BY <1>1, <1>2, <1>3, Typing, PTL DEF Spec
-----------------------------------------------------------------------------
(* A caller that polls app.logs with the next_seq of its last poll loses no   *)
(* log record unknowingly, for any ring, any limit and any number of          *)
(* connections: every record before its cursor was returned, reported as      *)
(* dropped, or passed over by a poll.                                         *)


\* The number of the next record to be stored: one that is in its logger's hand
\* is missing from the ring.
NextStored == IF inHand = {} THEN nextSeq ELSE nextSeq - 1

\* The ring holds the latest records that were stored, without a gap.
RingIsLatest ==
  /\ nextSeq >= 1 /\ inHand \in {{}, {nextSeq - 1}}
  /\ NextStored - Len(records) >= 1
  /\ records = <<>> => NextStored = 1
  /\ \A i \in DOMAIN records : records[i] = NextStored - Len(records) + i - 1

\* The answer to a poll accounts for all from its cursor to its next_seq, which
\* is one that the ring has had.
Accounts(logs, since, reached) ==
  /\ logs.since = since /\ since <= logs.nextSeq /\ 1 <= logs.nextSeq /\ logs.nextSeq <= reached
  /\ logs.records \union NewlyPassed(logs) \subseteq WantFrom(since) .. logs.nextSeq - 1
  /\ logs.records \intersect NewlyPassed(logs) = {}
  /\ logs.nextSeq - WantFrom(since)
       = Cardinality(logs.records) + logs.dropped + Cardinality(NewlyPassed(logs))

Good(answer, req, reached) ==
  answer.outcome = "result" /\ req.method = "app.logs" => Accounts(answer.logs, req.since, reached)

\* What the polls have accounted for so far.
CursorInv ==
  /\ cursor <= nextSeq
  /\ got \union passed \subseteq 1 .. WantFrom(cursor) - 1 /\ got \intersect passed = {}
  /\ WantFrom(cursor) - 1 = Cardinality(got) + missed + Cardinality(passed)

\* The lines of a connection are in the order of their ids, and a task is of a
\* line that was before them.  Hence a frame that is gone does not come back.
InOrderOfIds(c) ==
  \A i \in DOMAIN inbox[c] : /\ inbox[c][i].id < nextId
                             /\ \A j \in DOMAIN inbox[c] : i < j => inbox[c][i].id < inbox[c][j].id
Past(task) == /\ task.request.id < nextId
              /\ \A i \in DOMAIN inbox[task.conn] : task.request.id < inbox[task.conn][i].id

EventOK(task) ==
  Past(task) /\ (FrameAlive(task) => task.request = request[task.conn])

HandlerOK(h) ==
  Past(h.task) /\ (FrameAlive(h.task) => Good(h.answer, request[h.task.conn], nextSeq))

PromiseOK(c) == promise[c] # NoReply => Good(promise[c], request[c], nextSeq)

Posted  == {events[i] : i \in DOMAIN events}
Running == {stack[i] : i \in DOMAIN stack}

TaskInv == /\ \A c \in Conns : InOrderOfIds(c) /\ PromiseOK(c)
           /\ \A task \in Posted : EventOK(task)
           /\ \A h \in Running : HandlerOK(h)

\* No poll is ahead of the ring.
SinceInv ==
  /\ \A c \in Conns : /\ request[c].since <= nextSeq
                      /\ \A i \in DOMAIN inbox[c] : inbox[c][i].since <= nextSeq
  /\ \A task \in Posted : task.request.since <= nextSeq

\* The request of the call in progress is what the call asks, from its cursor.
AsCalled(req) == req.method = call.method /\ (req.method = "app.logs" => req.since = cursor)

PollInv ==
  sock # NoConn =>
    /\ outbox[sock] # <<>> =>
         Good(Head(outbox[sock]), [method |-> call.method, since |-> cursor], nextSeq)
    /\ ~IsReset(sock) =>
         /\ thread[sock] = "wait" => AsCalled(request[sock])
         /\ \A i \in DOMAIN inbox[sock] :
              inbox[sock][i].method # "oversized" => AsCalled(inbox[sock][i])

LogInv == RingIsLatest /\ CursorInv /\ TaskInv /\ SinceInv /\ PollInv
-----------------------------------------------------------------------------
(* The ring and its queries.                                                  *)

\* A cursor stays within what has been numbered.
LEMMA WantFromBounds ==
  ASSUME NEW since \in Nat, NEW n \in Nat, since <= n, 1 <= n
  PROVE  WantFrom(since) \in 1 .. n /\ (\A k \in Nat : k >= WantFrom(since) => k >= since)
  BY DEF WantFrom

\* What a ring without gaps holds.
LEMMA HeldInterval ==
  ASSUME RingOK, RingIsLatest
  PROVE  /\ NextStored \in Nat /\ Len(records) \in Nat /\ NextStored - Len(records) \in Nat
         /\ Held = NextStored - Len(records) .. NextStored - 1
         /\ records # <<>> => Head(records) = NextStored - Len(records) /\ Len(records) >= 1
         /\ records = <<>> => Len(records) = 0
<1>1. NextStored \in Nat /\ Len(records) \in Nat /\ NextStored - Len(records) \in Nat
  BY DEF RingOK, RingIsLatest, NextStored
<1>2. DOMAIN records = 1 .. Len(records)
  BY DEF RingOK
<1>3. ASSUME NEW seq \in NextStored - Len(records) .. NextStored - 1 PROVE seq \in Held
  <2> DEFINE i == seq - (NextStored - Len(records)) + 1
  <2>1. i \in DOMAIN records
    BY <1>1, <1>2
  <2>2. records[i] = NextStored - Len(records) + i - 1
    BY <2>1 DEF RingIsLatest
  <2>3. records[i] = seq
    BY <1>1, <2>2
  <2> QED BY <2>1, <2>3 DEF Held
<1>4. ASSUME NEW i \in DOMAIN records PROVE records[i] \in NextStored - Len(records) .. NextStored - 1
  <2>1. records[i] = NextStored - Len(records) + i - 1
    BY DEF RingIsLatest
  <2> QED BY <1>1, <1>2, <2>1
<1>5. ASSUME records # <<>>
      PROVE  Head(records) = NextStored - Len(records) /\ Len(records) >= 1
  <2>1. Len(records) >= 1 /\ 1 \in DOMAIN records /\ Head(records) = records[1]
    BY <1>5 DEF RingOK
  <2>2. records[1] = NextStored - Len(records) + 1 - 1
    BY <2>1 DEF RingIsLatest
  <2> QED BY <1>1, <2>1, <2>2
<1> QED BY <1>1, <1>3, <1>4, <1>5 DEF Held

\* A finite set is counted in two parts.
LEMMA InTwoParts ==
  ASSUME NEW S, NEW T, IsFiniteSet(S), IsFiniteSet(T), S \intersect T = {}
  PROVE  /\ IsFiniteSet(S \union T)
         /\ Cardinality(S) \in Nat /\ Cardinality(T) \in Nat
         /\ Cardinality(S \union T) = Cardinality(S) + Cardinality(T)
<1>1. Cardinality(S \union T) = Cardinality(S) + Cardinality(T) - Cardinality(S \intersect T)
  BY FS_Union
<1>2. Cardinality(S \intersect T) = 0
  BY FS_EmptySet
<1> QED BY <1>1, <1>2, FS_Union, FS_CardinalityType

\* The answer to a query returns, counts as dropped, or passes over each record
\* between its cursor and its next_seq, and no other (log_sink.cpp query).
LEMMA QueryAccounts ==
  ASSUME RingOK, RingIsLatest, NEW req \in Requests, req.method = "app.logs", req.since <= nextSeq
  PROVE  Accounts(ResultOf(req), req.since, nextSeq)
<1> DEFINE since == req.since
           w     == WantFrom(since)
           found == Matching(since)
           logs  == ResultOf(req)
           late  == {seq \in inHand : seq >= since}
           low   == NextStored - Len(records)
           first == IF since > low THEN since ELSE low
<1>1. since \in Nat /\ nextSeq \in Nat /\ 1 <= nextSeq
  BY DEF Requests, RingOK, RingIsLatest
<1>2. w \in 1 .. nextSeq /\ (\A k \in Nat : k >= w => k >= since)
  BY <1>1, WantFromBounds
<1>3. /\ logs.since = since /\ logs.records = Newest(found) /\ logs.nextSeq = nextSeq
      /\ logs.dropped = Dropped(since) /\ logs.unstored = inHand
      /\ logs.clipped = found \ Newest(found)
  BY DEF ResultOf, Query
<1>4. Newest(found) \subseteq found
  BY DEF Newest
<1>5. NewlyPassed(logs) = (found \ Newest(found)) \union late
  BY <1>3 DEF NewlyPassed
<1>6. /\ low \in Nat /\ low >= 1 /\ NextStored \in Nat /\ low <= NextStored
      /\ Held = low .. NextStored - 1
      /\ \/ records # <<>> /\ Head(records) = low /\ low < NextStored
         \/ records = <<>> /\ NextStored = 1
  BY HeldInterval DEF RingIsLatest
<1>7. \/ inHand = {} /\ NextStored = nextSeq /\ late = {}
      \/ inHand = {nextSeq - 1} /\ NextStored = nextSeq - 1 /\ late \in {{}, {nextSeq - 1}}
         /\ (late = {} <=> nextSeq - 1 < since)
  <2>1. CASE inHand = {}
    BY <2>1 DEF NextStored
  <2>2. CASE inHand # {}
    <3>1. inHand = {nextSeq - 1} /\ NextStored = nextSeq - 1
      BY <2>2 DEF NextStored, RingIsLatest
    <3> QED BY <1>1, <3>1
  <2> QED BY <2>1, <2>2
<1>8. found = first .. NextStored - 1 /\ first \in Nat
  BY <1>1, <1>6 DEF Matching
<1>9. /\ IsFiniteSet(found) /\ IsFiniteSet(late) /\ found \intersect late = {}
      /\ found \union late \subseteq w .. nextSeq - 1
  <2>1. IsFiniteSet(first .. NextStored - 1)
    <3>1. first \in Int /\ NextStored - 1 \in Int
      BY <1>6, <1>8
    <3> HIDE DEF first
    <3> QED BY <3>1, FS_Interval
  <2>2. IsFiniteSet(late)
    BY <1>7, FS_EmptySet, FS_Singleton
  <2>3. found \intersect late = {}
    BY <1>1, <1>6, <1>7, <1>8
  <2>4. found \union late \subseteq w .. nextSeq - 1
    BY <1>1, <1>6, <1>7, <1>8 DEF WantFrom
  <2> QED BY <1>8, <2>1, <2>2, <2>3, <2>4
<1>10. nextSeq - w = Cardinality(found) + Dropped(since) + Cardinality(late)
  <2>1. Cardinality(late) = IF late = {} THEN 0 ELSE 1
    BY <1>7, FS_EmptySet, FS_Singleton
  <2>2. Cardinality(found) = IF first > NextStored - 1 THEN 0 ELSE NextStored - first
    <3>1. first \in Int /\ NextStored - 1 \in Int
      BY <1>6, <1>8
    <3> HIDE DEF first, found
    <3>2. Cardinality(first .. NextStored - 1)
            = IF first > NextStored - 1 THEN 0 ELSE (NextStored - 1) - first + 1
      BY <3>1, FS_Interval
    <3> QED BY <1>6, <1>8, <3>1, <3>2
  <2>3. Dropped(since) = IF records # <<>> /\ w < low THEN low - w ELSE 0
    BY <1>6 DEF Dropped
  <2>4. w = IF since > 1 THEN since ELSE 1
    BY DEF WantFrom
  <2> HIDE DEF late, w, low, found, since
  <2> QED BY <1>1, <1>2, <1>6, <1>7, <2>1, <2>2, <2>3, <2>4
<1>11. /\ IsFiniteSet(Newest(found)) /\ IsFiniteSet(found \ Newest(found))
       /\ Cardinality(found) = Cardinality(Newest(found)) + Cardinality(found \ Newest(found))
  <2>1. IsFiniteSet(Newest(found)) /\ IsFiniteSet(found \ Newest(found))
    BY <1>4, <1>9, FS_Subset
  <2>2. found = Newest(found) \union (found \ Newest(found))
    BY <1>4
  <2> QED BY <2>1, <2>2, InTwoParts
<1>12. Cardinality(NewlyPassed(logs)) = Cardinality(found \ Newest(found)) + Cardinality(late)
  BY <1>5, <1>9, <1>11, InTwoParts
<1>13. Dropped(since) \in Nat /\ Cardinality(Newest(found)) \in Nat
       /\ Cardinality(found \ Newest(found)) \in Nat /\ Cardinality(late) \in Nat
  BY <1>1, <1>2, <1>6, <1>9, <1>11, FS_CardinalityType DEF Dropped
<1>14. nextSeq - w = Cardinality(Newest(found)) + Dropped(since) + Cardinality(NewlyPassed(logs))
  BY <1>10, <1>11, <1>12, <1>13
<1> HIDE DEF logs, found, late, w, since
<1> QED BY <1>1, <1>3, <1>4, <1>5, <1>9, <1>14 DEF Accounts, w, since, logs

\* Numbering and storing a record keep the ring without gaps (log_sink.cpp sink_it_).
LEMMA RingKept ==
  ASSUME RingOK, RingIsLatest, SinkNumbers \/ SinkStores
  PROVE  RingIsLatest' /\ nextSeq' \in Nat /\ nextSeq <= nextSeq'
<1> USE DEF RingOK
<1>1. CASE SinkNumbers
  BY <1>1 DEF SinkNumbers, RingIsLatest, NextStored
<1>2. CASE SinkStores
  <2>1. /\ inHand = {nextSeq - 1} /\ inHand' = {} /\ nextSeq' = nextSeq
        /\ records' = Stored(records, nextSeq - 1)
    BY <1>2 DEF SinkStores, RingIsLatest
  <2>2. NextStored = nextSeq - 1 /\ NextStored' = nextSeq /\ nextSeq - 1 >= 1
    BY <2>1 DEF NextStored, RingIsLatest
  <2> DEFINE grown == Append(records, nextSeq - 1)
  <2>3. /\ grown \in Seq(Nat) /\ Len(grown) = Len(records) + 1 /\ Len(records) \in Nat
        /\ \A i \in 1 .. Len(records) + 1 : grown[i] = nextSeq - Len(grown) + i - 1
    BY <2>1, <2>2 DEF RingIsLatest
  <2>4. records' = IF Len(grown) > Capacity THEN Tail(grown) ELSE grown
    BY <2>1 DEF Stored
  <2> HIDE DEF grown
  <2>5. CASE Len(grown) > Capacity
    <3>1. /\ records' = Tail(grown) /\ Len(records') = Len(records) /\ DOMAIN records' = 1 .. Len(records)
          /\ \A i \in 1 .. Len(records) : records'[i] = grown[i + 1] /\ i + 1 \in 1 .. Len(records) + 1
      BY <2>3, <2>4, <2>5
    <3>2. Len(records) >= 1
      BY <2>3, <2>5, CapacityAssumption
    <3>3. records' # <<>>
      BY <3>1, <3>2
    <3>4. \A i \in DOMAIN records' : records'[i] = NextStored' - Len(records') + i - 1
      <4> SUFFICES ASSUME NEW i \in 1 .. Len(records) PROVE records'[i] = NextStored' - Len(records') + i - 1
        BY <3>1
      <4>1. records'[i] = nextSeq - Len(grown) + (i + 1) - 1
        BY <2>3, <3>1
      <4>2. nextSeq \in Nat /\ Len(records') = Len(grown) - 1 /\ Len(grown) \in Nat /\ i \in Nat
        BY <2>3, <3>1
      <4>3. nextSeq - Len(grown) + (i + 1) - 1 = nextSeq - Len(records') + i - 1
        BY <4>2
      <4> QED BY <2>2, <4>1, <4>3
    <3>5. NextStored' - Len(records') >= 1
      BY <2>1, <2>2, <2>3, <3>1 DEF RingIsLatest
    <3> QED BY <2>1, <3>3, <3>4, <3>5 DEF RingIsLatest
  <2>6. CASE ~(Len(grown) > Capacity)
    <3>1. records' = grown /\ DOMAIN records' = 1 .. Len(records) + 1 /\ records' # <<>>
      BY <2>3, <2>4, <2>6
    <3>2. NextStored' - Len(records') >= 1
      BY <2>1, <2>2, <2>3, <3>1 DEF RingIsLatest
    <3>3. \A i \in DOMAIN records' : records'[i] = NextStored' - Len(records') + i - 1
      BY <2>2, <2>3, <3>1
    <3> QED BY <2>1, <3>1, <3>2, <3>3 DEF RingIsLatest
  <2> QED BY <2>1, <2>5, <2>6
<1> QED BY <1>1, <1>2

\* What was accounted for stays so while the ring goes on.
LEMMA GoodStays ==
  ASSUME NEW answer \in Answers, NEW req, NEW n \in Nat, NEW m \in Nat, n <= m, Good(answer, req, n)
  PROVE  Good(answer, req, m)
  BY DEF Good, Accounts, Answers, LogAnswers
-----------------------------------------------------------------------------
(* The steps.                                                                 *)

\* What waits for the GUI thread, or runs on it, is of a connection.
LEMMA TasksAreOfConns ==
  ASSUME GuiOK
  PROVE  Posted \subseteq Tasks /\ Running \subseteq Handlers
  BY DEF GuiOK, Posted, Running

\* Tasks keep what they have while nothing that concerns them changes.
LEMMA TasksLeftAlone ==
  ASSUME TypeOK, TaskInv, UNCHANGED <<inbox, nextId, guiVars, request, nextSeq>>,
         \A c \in Conns : thread'[c] = "wait" <=> thread[c] = "wait"
  PROVE  TaskInv'
<1>1. Posted' = Posted /\ Running' = Running /\ promise' = promise
  BY DEF guiVars, Posted, Running
<1>2. Posted \subseteq Tasks /\ Running \subseteq Handlers
  BY TasksAreOfConns DEF TypeOK
<1>3. \A task \in Tasks : /\ FrameAlive(task)' <=> FrameAlive(task)
                         /\ Past(task)' <=> Past(task)
  BY DEF FrameAlive, Past, Tasks
<1>4. \A task \in Posted : EventOK(task)'
  BY <1>2, <1>3 DEF TaskInv, EventOK
<1>5. \A h \in Running : HandlerOK(h)'
  BY <1>2, <1>3 DEF TaskInv, HandlerOK, Handlers
<1>6. \A c \in Conns : InOrderOfIds(c)' /\ PromiseOK(c)'
  BY <1>1 DEF TaskInv, InOrderOfIds, PromiseOK
<1> QED BY <1>1, <1>4, <1>5, <1>6 DEF TaskInv

\* None of the invariant is about the sockets and the threads of a connection
\* that is only being made.
LEMMA AcceptorLogs ==
  ASSUME TypeOK, OwnInv, LogInv, Acceptor, UNCHANGED callerVars
  PROVE  LogInv'
<1> USE DEF TypeOK, ThreadsOK, AcceptorOK, LogInv
<1>1. UNCHANGED <<socketVars, guiVars, ringVars, request, callerVars>>
  BY DEF Acceptor, Accepts, AcceptFails, AdmitsClient, clientVars
<1>2. \A c \in Conns : thread'[c] = "wait" <=> thread[c] = "wait"
  <2>1. CASE AdmitsClient
    <3>1. acceptor.conn \in Conns /\ thread[acceptor.conn] = "none"
      BY <2>1 DEF AdmitsClient, OwnInv, NotStarted
    <3> QED BY <2>1, <3>1 DEF AdmitsClient, Goes
  <2> QED BY <2>1 DEF Acceptor, Accepts, AcceptFails, clientVars
<1>3. RingIsLatest' /\ CursorInv' /\ SinceInv'
  BY <1>1 DEF RingIsLatest, NextStored, CursorInv, SinceInv, Posted, ringVars, callerVars, readerVars,
              socketVars, guiVars
<1>4. TaskInv'
  BY <1>1, <1>2, TasksLeftAlone DEF ringVars, callerVars, socketVars
<1>5. PollInv'
  <2>1. sock \in Conns \union {NoConn} /\ sock' = sock
    BY <1>1 DEF CallerOK, callerVars
  <2>2. sock # NoConn /\ IsReset(sock) => IsReset(sock)'
    <3>1. \A c \in Conns : IsReset(c) => IsReset(c)'
      BY ResetStays DEF ServerNext
    <3> QED BY <2>1, <3>1 DEF IsReset, Alive
  <2> QED BY <1>1, <1>2, <2>1, <2>2 DEF PollInv, AsCalled, ringVars, callerVars, readerVars, socketVars
<1> QED BY <1>3, <1>4, <1>5
\* A connection's thread gives a poll what its handler found, and a frame that
\* it has left never becomes that of an older task.
LEMMA ClientThreadLogs ==
  ASSUME TypeOK, OwnInv, LogInv, NEW c \in Conns, ClientThread(c), UNCHANGED callerVars
  PROVE  LogInv'
<1> USE DEF TypeOK, LogInv
<1>0. PICK line : line = Head(inbox[c])
  OBVIOUS
<1> DEFINE task == [conn |-> c, request |-> line]
<1>1. /\ thread[c] \in {"recv", "wait"} /\ Alive
      /\ UNCHANGED <<peer, backlog, acceptor, gui, stack, ringVars, callerVars>>
  BY DEF ClientThread, PostsTask, RejectsLine, DropsLine, TakesLine, TakesResult, TimesOut,
         SeesHangUp, Leaves, socketVars, acceptVars, guiVars, stopVars
<1>2. \A d \in Conns : d # c => /\ thread'[d] = thread[d] /\ request'[d] = request[d]
                                /\ promise'[d] = promise[d]
                                /\ inbox'[d] = inbox[d] /\ outbox'[d] = outbox[d]
  BY DEF ClientThread, PostsTask, RejectsLine, DropsLine, TakesLine, TakesResult, TimesOut,
         SeesHangUp, Leaves, Sends, Goes, socketVars, clientVars, guiVars, SocketsOK, ThreadsOK,
         GuiOK
<1>3. inbox[c] \in Seq(Requests) /\ outbox[c] \in Seq(Answers)
  BY DEF SocketsOK
<1>4. \/ inbox'[c] = inbox[c]
      \/ inbox'[c] = Tail(inbox[c]) /\ inbox[c] # <<>> /\ thread[c] = "recv"
  BY DEF ClientThread, PostsTask, RejectsLine, DropsLine, TakesLine, TakesResult, TimesOut, Asked,
         SeesHangUp, Leaves, socketVars, SocketsOK
<1>5. inbox[c] # <<>> => /\ line \in Requests /\ 1 \in DOMAIN inbox[c] /\ inbox[c][1] = line
  BY <1>0, <1>3, TailOfLines
<1>6. \A i \in DOMAIN inbox'[c] :
        \E j \in DOMAIN inbox[c] : /\ inbox'[c][i] = inbox[c][j] /\ j >= i
                                   /\ inbox'[c] # inbox[c] => j = i + 1
  <2>1. ASSUME inbox'[c] = Tail(inbox[c]), inbox[c] # <<>>, NEW i \in DOMAIN inbox'[c]
        PROVE  i + 1 \in DOMAIN inbox[c] /\ inbox'[c][i] = inbox[c][i + 1] /\ i + 1 >= i
    BY <1>3, <2>1, TailOfLines
  <2>2. ASSUME NEW i \in DOMAIN inbox[c] PROVE i >= i
    BY <1>3
  <2> QED BY <1>4, <2>1, <2>2
<1>7. \/ /\ PostsTask(c) /\ request'[c] = line /\ thread'[c] = "wait" /\ thread[c] = "recv"
         /\ inbox[c] # <<>> /\ inbox'[c] = Tail(inbox[c]) /\ events' = Append(events, task)
         /\ UNCHANGED <<promise, outbox>>
      \/ /\ events' = events
         /\ promise'[c] = NoReply \/ (promise'[c] = promise[c] /\ request'[c] = request[c])
         /\ thread'[c] = "wait" => thread[c] = "wait" /\ request'[c] = request[c]
         /\ request'[c] \in {request[c], Idle}
  <2>1. CASE PostsTask(c)
    BY <1>0, <2>1 DEF PostsTask, TakesLine, Asked, Goes, ThreadsOK, SocketsOK
  <2>2. CASE RejectsLine(c) \/ DropsLine(c)
    <3>1. UNCHANGED <<request, events, promise>>
      BY <2>2 DEF RejectsLine, DropsLine, TakesLine
    <3>2. thread'[c] = "wait" => thread[c] = "wait"
      BY <2>2 DEF RejectsLine, DropsLine, Sends, Goes, ThreadsOK
    <3> QED BY <3>1, <3>2
  <2>3. CASE TakesResult(c) \/ TimesOut(c)
    BY <2>3 DEF TakesResult, TimesOut, Leaves, Sends, Goes, ThreadsOK, GuiOK
  <2>4. CASE SeesHangUp(c)
    BY <2>4 DEF SeesHangUp, Goes, guiVars, ThreadsOK
  <2> QED BY <2>1, <2>2, <2>3, <2>4 DEF ClientThread
<1>8. Posted' \subseteq Posted \union {task} /\ (events' = events => Posted' = Posted) /\ Running' = Running
  <2>1. events' = Append(events, task) =>
          \A i \in DOMAIN events' : \/ i \in DOMAIN events /\ events'[i] = events[i]
                                  \/ events'[i] = task
    BY DEF GuiOK
  <2> QED BY <1>1, <1>7, <2>1 DEF Posted, Running
<1>9. RingIsLatest' /\ CursorInv'
  BY <1>1 DEF RingIsLatest, NextStored, CursorInv, ringVars, callerVars, readerVars
<1>10. nextSeq \in Nat /\ nextId \in Nat /\ nextSeq' = nextSeq /\ nextId' = nextId
  BY <1>1 DEF RingOK, CallerOK, ringVars, callerVars
<1>11. SinceInv'
  <2>1. line.since <= nextSeq \/ inbox[c] = <<>>
    BY <1>5 DEF SinceInv
  <2>2. Idle.since <= nextSeq
    BY <1>10 DEF Idle
  <2>3. \A d \in Conns : request'[d].since <= nextSeq
    BY <1>2, <1>7, <2>1, <2>2 DEF SinceInv
  <2>4. \A d \in Conns : \A i \in DOMAIN inbox'[d] : inbox'[d][i].since <= nextSeq
    BY <1>2, <1>6 DEF SinceInv
  <2>5. \A t \in Posted' : t.request.since <= nextSeq
    BY <1>7, <1>8, <2>1 DEF SinceInv
  <2> QED BY <1>10, <2>3, <2>4, <2>5 DEF SinceInv
<1>12. \A d \in Conns : InOrderOfIds(d)'
  <2>1. \A i \in DOMAIN inbox'[c] :
          /\ inbox'[c][i].id < nextId
          /\ \A j \in DOMAIN inbox'[c] : i < j => inbox'[c][i].id < inbox'[c][j].id
    <3>1. CASE inbox'[c] = inbox[c]
      BY <3>1 DEF TaskInv, InOrderOfIds
    <3>2. CASE inbox'[c] # inbox[c]
      <4>1. \A i \in DOMAIN inbox'[c] : i + 1 \in DOMAIN inbox[c] /\ inbox'[c][i] = inbox[c][i + 1]
        BY <1>6, <3>2
      <4>2. \A i, j \in DOMAIN inbox'[c] : i < j => i + 1 < j + 1
        BY <1>3, <1>4, <3>2, TailOfLines
      <4> QED BY <4>1, <4>2 DEF TaskInv, InOrderOfIds
    <3> QED BY <3>1, <3>2
  <2> QED BY <1>2, <1>10, <2>1 DEF TaskInv, InOrderOfIds
<1>13. \A t \in Tasks : Past(t) => Past(t)'
  BY <1>2, <1>6, <1>10 DEF Past, Tasks
<1>14. \A t \in Tasks : Past(t) /\ FrameAlive(t)' => FrameAlive(t) /\ request'[t.conn] = request[t.conn]
  <2> SUFFICES ASSUME NEW t \in Tasks, Past(t), FrameAlive(t)'
               PROVE  FrameAlive(t) /\ request'[t.conn] = request[t.conn]
    OBVIOUS
  <2>1. thread'[t.conn] = "wait" /\ request'[t.conn].id = t.request.id /\ t.conn \in Conns
        /\ t.request.id \in Nat
    BY DEF FrameAlive, Tasks, Requests
  <2>2. CASE t.conn = c /\ PostsTask(c) /\ request'[c] = line /\ inbox[c] # <<>>
    <3>1. t.request.id < line.id
      BY <1>5, <2>2 DEF Past
    <3> QED BY <2>1, <2>2, <3>1
  <2> QED BY <1>2, <1>7, <2>1, <2>2 DEF FrameAlive
<1>15. Posted \subseteq Tasks /\ Running \subseteq Handlers
  BY TasksAreOfConns
<1>16. events' # events => EventOK(task)'
  <2> SUFFICES ASSUME events' # events PROVE EventOK(task)'
    OBVIOUS
  <2>1. /\ request'[c] = line /\ inbox[c] # <<>> /\ inbox'[c] = Tail(inbox[c])
        /\ task.conn = c /\ task.request = line
    BY <1>7
  <2>2. line.id < nextId
    BY <1>5, <2>1 DEF TaskInv, InOrderOfIds
  <2>3. \A i \in DOMAIN inbox'[c] : line.id < inbox'[c][i].id
    <3>1. \A i \in DOMAIN inbox'[c] :
            i + 1 \in DOMAIN inbox[c] /\ inbox'[c][i] = inbox[c][i + 1] /\ 1 < i + 1
      BY <1>3, <2>1, TailOfLines
    <3> QED BY <1>5, <2>1, <3>1 DEF TaskInv, InOrderOfIds
  <2> HIDE DEF task
  <2> QED BY <1>10, <2>1, <2>2, <2>3 DEF EventOK, Past
<1>17. \A t \in Posted' : EventOK(t)'
  <2>1. \A t \in Posted : EventOK(t)'
    BY <1>13, <1>14, <1>15 DEF TaskInv, EventOK
  <2> QED BY <1>8, <1>16, <2>1
<1>18. \A h \in Running' : HandlerOK(h)'
  BY <1>8, <1>10, <1>13, <1>14, <1>15 DEF TaskInv, HandlerOK, Handlers
<1>19. \A d \in Conns : PromiseOK(d)'
  <2>1. promise[c] # NoReply => thread[c] = "wait"
    BY DEF OwnInv, PromiseIsOwn
  <2>2. promise'[c] # NoReply => promise'[c] = promise[c] /\ request'[c] = request[c]
    BY <1>7, <2>1
  <2> QED BY <1>2, <1>10, <2>2 DEF TaskInv, PromiseOK
<1>20. TaskInv'
  BY <1>12, <1>17, <1>18, <1>19 DEF TaskInv
<1>21. ASSUME sock # c
       PROVE  PollInv'
  <2>1. UNCHANGED <<sock, call, cursor>> /\ sock \in Conns \union {NoConn}
    BY <1>1 DEF callerVars, readerVars, CallerOK
  <2>2. sock # NoConn => (IsReset(sock)' <=> IsReset(sock))
    BY <1>1, <1>2, <1>21, <2>1 DEF IsReset, Alive
  <2>3. sock # NoConn => /\ inbox'[sock] = inbox[sock] /\ outbox'[sock] = outbox[sock]
                         /\ thread'[sock] = thread[sock] /\ request'[sock] = request[sock]
    BY <1>2, <1>21, <2>1
  <2> QED BY <1>10, <2>1, <2>2, <2>3 DEF PollInv, AsCalled
<1>22. ASSUME sock = c
       PROVE  PollInv'
  <2>1. UNCHANGED <<sock, call, cursor>> /\ c # NoConn
    BY <1>1, ConnsAssumption DEF callerVars, readerVars
  <2>2. ~IsReset(c)
    BY <1>1 DEF IsReset, OwnInv, NotStarted
  <2>3. /\ thread[c] = "wait" => AsCalled(request[c]) /\ outbox[c] = <<>>
        /\ \A i \in DOMAIN inbox[c] :
             inbox[c][i].method # "oversized" => AsCalled(inbox[c][i]) /\ outbox[c] = <<>>
        /\ outbox[c] # <<>> => Good(Head(outbox[c]), [method |-> call.method, since |-> cursor], nextSeq)
    BY <1>22, <2>1, <2>2 DEF PollInv, OwnInv, OneOutstanding
  <2>4. \A i \in DOMAIN inbox'[c] : inbox'[c][i].method # "oversized" => AsCalled(inbox'[c][i])
    BY <1>6, <2>3
  <2>5. thread'[c] = "wait" => AsCalled(request'[c])
    <3>1. CASE PostsTask(c) /\ inbox[c] # <<>> /\ request'[c] = line
      <4>1. line.method # "oversized"
        BY <1>0, <3>1 DEF PostsTask, Asked
      <4> QED BY <1>5, <2>3, <3>1, <4>1
    <3> QED BY <1>7, <2>3, <3>1
  <2>6. ASSUME NEW answer, outbox[c] = <<>>, Sends(c, answer),
               Good(answer, [method |-> call.method, since |-> cursor], nextSeq)
        PROVE  outbox'[c] # <<>> =>
                 Good(Head(outbox'[c]), [method |-> call.method, since |-> cursor], nextSeq)
    BY <2>6 DEF Sends, SocketsOK
  <2>7. outbox'[c] # <<>> => Good(Head(outbox'[c]), [method |-> call.method, since |-> cursor], nextSeq)
    <3>1. CASE RejectsLine(c)
      <4>1. outbox[c] = <<>>
        BY <1>0, <1>3, <1>5, <2>3, <3>1 DEF RejectsLine, Asked
      <4> QED BY <2>6, <3>1, <4>1 DEF RejectsLine, Good, Answer
    <3>2. CASE TimesOut(c)
      BY <2>3, <2>6, <3>2 DEF TimesOut, Leaves, Good, Answer
    <3>3. CASE TakesResult(c)
      <4>1. Good(promise[c], request[c], nextSeq) /\ AsCalled(request[c])
        BY <2>3, <3>3 DEF TakesResult, TaskInv, PromiseOK
      <4>2. Good(promise[c], [method |-> call.method, since |-> cursor], nextSeq)
        BY <4>1 DEF Good, AsCalled
      <4> QED BY <2>3, <2>6, <3>3, <4>2 DEF TakesResult, Leaves
    <3>4. CASE PostsTask(c) \/ DropsLine(c) \/ SeesHangUp(c)
      BY <2>3, <3>4 DEF PostsTask, DropsLine, SeesHangUp, socketVars
    <3> QED BY <3>1, <3>2, <3>3, <3>4 DEF ClientThread
  <2> QED BY <1>10, <1>22, <2>1, <2>4, <2>5, <2>7 DEF PollInv, AsCalled
<1> QED BY <1>9, <1>11, <1>20, <1>21, <1>22
\* The GUI thread answers a poll out of the ring, and the answer accounts for
\* what the ring has; what a task without a frame finds reaches nobody.
LEMMA EventLoopLogs ==
  ASSUME TypeOK, OwnInv, LogInv, EventLoop \/ Stop \/ Logger, UNCHANGED callerVars
  PROVE  LogInv'
<1> USE DEF TypeOK, LogInv
<1>1. UNCHANGED <<socketVars, acceptor, thread, request, callerVars>>
  BY DEF EventLoop, RunsTask, RunsLooseTask, FulfilsPromise, TakesEvent, Stop, StopBegins,
         StopCloses, StopJoinsAcceptor, StopJoinsClients, Logger, acceptVars, clientVars
<1>2. /\ RingIsLatest' /\ nextSeq \in Nat /\ nextSeq' \in Nat /\ nextSeq <= nextSeq'
      /\ Logger \/ UNCHANGED ringVars
  <2>1. CASE Logger
    BY <2>1, RingKept DEF Logger, RingOK
  <2>2. CASE UNCHANGED ringVars
    BY <2>2 DEF RingIsLatest, NextStored, ringVars, RingOK
  <2> QED BY <2>1, <2>2 DEF EventLoop, RunsTask, RunsLooseTask, FulfilsPromise, TakesEvent, Stop,
                            StopBegins, StopCloses, StopJoinsAcceptor, StopJoinsClients
<1>3. ASSUME NEW answer \in Answers, NEW req, Good(answer, req, nextSeq)
      PROVE  Good(answer, req, nextSeq')
  BY <1>2, <1>3, GoodStays
<1>4. Posted \subseteq Tasks /\ Running \subseteq Handlers /\ events \in Seq(Tasks) /\ stack \in Seq(Handlers)
  BY TasksAreOfConns DEF GuiOK
<1>5. Posted' \subseteq Posted
  <2>1. CASE events' = events
    BY <2>1 DEF Posted
  <2>2. CASE events' = Tail(events) /\ events # <<>>
    <3>1. \A i \in DOMAIN events' : i + 1 \in DOMAIN events /\ events'[i] = events[i + 1]
      BY <1>4, <2>2
    <3> QED BY <3>1 DEF Posted
  <2> QED BY <2>1, <2>2 DEF EventLoop, RunsTask, RunsLooseTask, FulfilsPromise, TakesEvent, Stop,
                            StopBegins, StopCloses, StopJoinsAcceptor, StopJoinsClients, Logger, guiVars
<1>6. CursorInv'
  <2>1. cursor \in Nat
    BY DEF CallerOK
  <2> QED BY <1>1, <1>2, <2>1 DEF CursorInv, callerVars, readerVars
<1>7. SinceInv'
  <2>1. \A c \in Conns : /\ request[c].since <= nextSeq'
                         /\ \A i \in DOMAIN inbox[c] : inbox[c][i].since <= nextSeq'
    <3> SUFFICES ASSUME NEW c \in Conns
                 PROVE  /\ request[c].since <= nextSeq'
                        /\ \A i \in DOMAIN inbox[c] : inbox[c][i].since <= nextSeq'
      OBVIOUS
    <3>1. request[c] \in Requests /\ \A i \in DOMAIN inbox[c] : inbox[c][i] \in Requests
      BY DEF ThreadsOK, SocketsOK
    <3>2. \A req \in Requests : req.since \in Nat
      BY DEF Requests
    <3> QED BY <1>2, <3>1, <3>2 DEF SinceInv
  <2>2. \A task \in Posted : task.request.since <= nextSeq'
    <3>1. \A task \in Tasks : task.request.since \in Nat
      BY DEF Tasks, Requests
    <3> QED BY <1>2, <1>4, <3>1 DEF SinceInv
  <2> QED BY <1>1, <1>5, <2>1, <2>2 DEF SinceInv, socketVars
<1>8. PollInv'
  <2>1. sock \in Conns \union {NoConn} /\ sock' = sock
    BY <1>1 DEF CallerOK, callerVars
  <2>2. sock # NoConn /\ IsReset(sock) => IsReset(sock)'
    <3>1. \A c \in Conns : IsReset(c) => IsReset(c)'
      BY ResetStays DEF ServerNext
    <3> QED BY <1>1, <2>1, <3>1 DEF IsReset, Alive
  <2>3. sock # NoConn /\ outbox[sock] # <<>> => Head(outbox[sock]) \in Answers
    BY <2>1 DEF SocketsOK
  <2> QED BY <1>1, <1>3, <2>1, <2>2, <2>3 DEF PollInv, AsCalled, callerVars, readerVars, socketVars
<1>9. \A t \in Tasks : /\ FrameAlive(t)' <=> FrameAlive(t)
                       /\ Past(t)' <=> Past(t)
  BY <1>1 DEF FrameAlive, Past, Tasks, socketVars, callerVars
<1>10. \A t \in Posted' : EventOK(t)'
  BY <1>1, <1>4, <1>5, <1>9 DEF TaskInv, EventOK
<1>11. \A h \in Running : HandlerOK(h)'
  <2> SUFFICES ASSUME NEW h \in Running PROVE HandlerOK(h)'
    OBVIOUS
  <2>1. h.task \in Tasks /\ h.answer \in Answers
    BY <1>4 DEF Handlers
  <2> QED BY <1>1, <1>3, <1>9, <2>1 DEF TaskInv, HandlerOK
<1>12. ASSUME NEW task \in Posted, NEW req \in Requests, NEW phase, Handles(task, req, phase),
              FrameAlive(task) => req = task.request, UNCHANGED ringVars
       PROVE  \A h \in Running' : HandlerOK(h)'
  <2>1. PICK h : /\ stack' = Append(stack, h) /\ h.task = task
                 /\ h.answer = Answer(task.request.id, "result", ResultOf(req))
    BY <1>12 DEF Handles
  <2>2. Running' \subseteq Running \union {h}
    <3>1. \A i \in DOMAIN stack' : \/ i \in DOMAIN stack /\ stack'[i] = stack[i]
                                   \/ stack'[i] = h
      BY <1>4, <2>1
    <3> QED BY <3>1 DEF Running
  <2>3. Past(task) /\ (FrameAlive(task) => task.request = request[task.conn])
    BY DEF TaskInv, EventOK
  <2>4. FrameAlive(task) => Good(h.answer, request[task.conn], nextSeq)
    <3> SUFFICES ASSUME FrameAlive(task), req.method = "app.logs"
                 PROVE  Accounts(ResultOf(req), req.since, nextSeq)
      BY <1>12, <2>1, <2>3 DEF Good, Answer
    <3>1. req.since <= nextSeq
      BY <1>12 DEF SinceInv
    <3> QED BY <3>1, QueryAccounts
  <2>5. HandlerOK(h)'
    BY <1>1, <1>4, <1>9, <1>12, <2>1, <2>3, <2>4 DEF HandlerOK, ringVars
  <2> QED BY <1>11, <2>2, <2>5
<1>13. CASE RunsTask
  <2>1. Head(events) \in Posted
    BY <1>4, <1>13 DEF RunsTask, TakesEvent, Posted
  <2>2. UNCHANGED <<ringVars, promise>> /\ Head(events).request \in Requests
    BY <1>4, <1>13, <2>1 DEF RunsTask, TakesEvent, Tasks
  <2>3. \A h \in Running' : HandlerOK(h)'
    BY <1>12, <1>13, <2>1, <2>2 DEF RunsTask
  <2>4. \A c \in Conns : InOrderOfIds(c)' /\ PromiseOK(c)'
    BY <1>1, <2>2 DEF TaskInv, InOrderOfIds, PromiseOK, ringVars, socketVars, callerVars
  <2> QED BY <1>2, <1>6, <1>7, <1>8, <1>10, <2>3, <2>4 DEF TaskInv
<1>14. CASE RunsLooseTask
  <2>1. Head(events) \in Posted
    BY <1>4, <1>14 DEF RunsLooseTask, TakesEvent, Posted
  <2>2. UNCHANGED <<ringVars, promise>> /\ Head(events).request \in Requests
        /\ ~FrameAlive(Head(events))
    BY <1>4, <1>14, <2>1 DEF RunsLooseTask, TakesEvent, Tasks
  <2>3. Loose(Head(events)) \subseteq Requests
    BY <1>4, <2>1, <2>2 DEF Loose, Tasks, ThreadsOK
  <2>4. \A h \in Running' : HandlerOK(h)'
    <3>1. CASE UNCHANGED stack
      BY <1>11, <3>1 DEF Running
    <3> QED BY <1>12, <1>14, <2>1, <2>2, <2>3, <3>1 DEF RunsLooseTask
  <2>5. \A c \in Conns : InOrderOfIds(c)' /\ PromiseOK(c)'
    BY <1>1, <2>2 DEF TaskInv, InOrderOfIds, PromiseOK, ringVars, socketVars, callerVars
  <2> QED BY <1>2, <1>6, <1>7, <1>8, <1>10, <2>4, <2>5 DEF TaskInv
<1>15. CASE FulfilsPromise
  <2>1. Len(stack) \in DOMAIN stack /\ Innermost \in Running
    BY <1>4, <1>15 DEF FulfilsPromise, Innermost, Running
  <2>2. Running' \subseteq Running
    <3>1. \A i \in DOMAIN stack' : i \in DOMAIN stack /\ stack'[i] = stack[i]
      BY <1>4, <1>15, <2>1 DEF FulfilsPromise
    <3> QED BY <3>1 DEF Running
  <2>3. nextSeq' = nextSeq /\ Innermost.task.conn \in Conns
    BY <1>4, <1>15, <2>1 DEF FulfilsPromise, ringVars, Handlers, Tasks
  <2>4. \A c \in Conns : PromiseOK(c)'
    <3>1. FrameAlive(Innermost.task) =>
            Good(Innermost.answer, request[Innermost.task.conn], nextSeq)
      BY <2>1 DEF TaskInv, HandlerOK
    <3>2. \A c \in Conns : \/ promise'[c] = promise[c]
                           \/ c = Innermost.task.conn /\ FrameAlive(Innermost.task)
                              /\ promise'[c] = Innermost.answer
      BY <1>15, <2>3 DEF FulfilsPromise, GuiOK
    <3> QED BY <1>1, <2>3, <3>1, <3>2 DEF TaskInv, PromiseOK
  <2>5. \A c \in Conns : InOrderOfIds(c)'
    BY <1>1 DEF TaskInv, InOrderOfIds, socketVars, callerVars
  <2> QED BY <1>2, <1>6, <1>7, <1>8, <1>10, <1>11, <2>2, <2>4, <2>5 DEF TaskInv
<1>16. CASE Stop \/ Logger
  <2>1. UNCHANGED guiVars
    BY <1>16 DEF Stop, StopBegins, StopCloses, StopJoinsAcceptor, StopJoinsClients, Logger
  <2>2. \A c \in Conns : InOrderOfIds(c)'
    BY <1>1 DEF TaskInv, InOrderOfIds, socketVars, callerVars
  <2>3. \A c \in Conns : PromiseOK(c)'
    BY <1>1, <1>3, <2>1 DEF TaskInv, PromiseOK, GuiOK, guiVars
  <2> QED BY <1>2, <1>6, <1>7, <1>8, <1>10, <1>11, <2>1, <2>2, <2>3 DEF TaskInv, Running, guiVars
<1> QED BY <1>13, <1>14, <1>15, <1>16 DEF EventLoop
\* A poll adds what its answer accounts for to what the earlier ones have.
LEMMA PollAddsUp ==
  ASSUME CallerOK, nextSeq \in Nat, CursorInv, NEW logs \in LogAnswers, Accounts(logs, cursor, nextSeq),
         cursor' = logs.nextSeq, got' = got \union logs.records,
         missed' = missed + logs.dropped, passed' = passed \union NewlyPassed(logs), nextSeq' = nextSeq
  PROVE  CursorInv'
<1> DEFINE w == WantFrom(cursor)
           n == logs.nextSeq
           more == NewlyPassed(logs)
<1>1. cursor \in Nat /\ missed \in Nat /\ n \in Nat /\ logs.dropped \in Nat /\ 1 <= n /\ cursor <= n
      /\ n <= nextSeq
  BY DEF CallerOK, LogAnswers, Accounts
<1>2. w \in 1 .. n /\ WantFrom(n) = n
  BY <1>1 DEF WantFrom
<1>3. /\ got \subseteq 1 .. w - 1 /\ passed \subseteq 1 .. w - 1 /\ got \intersect passed = {}
      /\ logs.records \subseteq w .. n - 1 /\ more \subseteq w .. n - 1 /\ logs.records \intersect more = {}
  BY DEF CursorInv, Accounts
<1>4. IsFiniteSet(1 .. w - 1) /\ IsFiniteSet(w .. n - 1)
  <2>1. w \in Int /\ n - 1 \in Int /\ w - 1 \in Int /\ 1 \in Int
    BY <1>1, <1>2
  <2> HIDE DEF w, n
  <2> QED BY <2>1, FS_Interval
<1>5. IsFiniteSet(got) /\ IsFiniteSet(passed) /\ IsFiniteSet(logs.records) /\ IsFiniteSet(more)
  BY <1>3, <1>4, FS_Subset
<1>6. got \intersect logs.records = {} /\ passed \intersect more = {}
  <2>1. \A i \in 1 .. w - 1 : i \notin w .. n - 1
    BY <1>1, <1>2
  <2> QED BY <1>3, <2>1
<1>7. /\ Cardinality(got \union logs.records) = Cardinality(got) + Cardinality(logs.records)
      /\ Cardinality(passed \union more) = Cardinality(passed) + Cardinality(more)
      /\ Cardinality(got) \in Nat /\ Cardinality(logs.records) \in Nat
      /\ Cardinality(passed) \in Nat /\ Cardinality(more) \in Nat
  BY <1>5, <1>6, InTwoParts
<1>8. w - 1 = Cardinality(got) + missed + Cardinality(passed)
      /\ n - w = Cardinality(logs.records) + logs.dropped + Cardinality(more)
  BY DEF CursorInv, Accounts
<1>9. n - 1 = Cardinality(got') + missed' + Cardinality(passed')
  <2> HIDE DEF w, n, more
  <2>1. n - 1 = (w - 1) + (n - w)
    BY <1>1, <1>2
  <2>2. more = NewlyPassed(logs)
    BY DEF more
  <2> QED BY <1>1, <1>7, <1>8, <2>1, <2>2
<1>10. got' \union passed' \subseteq 1 .. n - 1 /\ got' \intersect passed' = {}
  <2>1. 1 .. w - 1 \subseteq 1 .. n - 1 /\ w .. n - 1 \subseteq 1 .. n - 1
    BY <1>1, <1>2
  <2>2. \A i \in 1 .. w - 1 : i \notin w .. n - 1
    BY <1>1, <1>2
  <2> QED BY <1>3, <2>1, <2>2
<1> QED BY <1>1, <1>2, <1>9, <1>10 DEF CursorInv

\* Every line has an id.
LEMMA LinesHaveIds ==
  ASSUME SocketsOK, NEW c \in Conns
  PROVE  \A i \in DOMAIN inbox[c] : inbox[c][i].id \in Nat
<1>1. \A i \in DOMAIN inbox[c] : inbox[c][i] \in Requests
  BY DEF SocketsOK
<1>2. \A req \in Requests : req.id \in Nat
  BY DEF Requests
<1> QED BY <1>1, <1>2

\* The caller asks from its cursor, and no answer but that one reaches it.
LEMMA CallerLogs ==
  ASSUME TypeOK, OwnInv, LogInv, ~MayFailTwice,
         (\E method \in Methods : Calls(method)) \/ CallSteps \/ Closes
  PROVE  LogInv'
<1> USE DEF TypeOK, LogInv
<1>1. UNCHANGED <<acceptor, thread, request, guiVars, gui, ringVars>>
  BY DEF Calls, CallSteps, Connects, SendsRequest, LinkDrops, GivesUp, GetsAnswer, Closes,
         serverVars, acceptVars, clientVars, stopVars
<1>2. sock \in Conns \union {NoConn} /\ NoConn \notin Conns
  BY ConnsAssumption DEF CallerOK
<1>3. RingIsLatest' /\ nextSeq' = nextSeq /\ nextSeq \in Nat
  BY <1>1 DEF RingIsLatest, NextStored, ringVars, RingOK
<1>4. Posted' = Posted /\ Running' = Running /\ promise' = promise
  BY <1>1 DEF Posted, Running, guiVars
<1>5. ASSUME UNCHANGED <<inbox, nextId>>
      PROVE  TaskInv' /\ SinceInv'
  <2>1. TaskInv'
    BY <1>1, <1>3, <1>5, TasksLeftAlone
  <2> QED BY <1>1, <1>3, <1>4, <1>5, <2>1 DEF SinceInv
<1>6. UNCHANGED <<cursor, got, missed, passed>> => CursorInv'
  BY <1>3 DEF CursorInv
<1>7. call.pc # "awaiting" \/ call.method = "oversized" =>
        /\ sock # NoConn => outbox[sock] = <<>>
        /\ sock # NoConn /\ ~IsReset(sock) =>
             /\ thread[sock] # "wait"
             /\ \A i \in DOMAIN inbox[sock] : inbox[sock][i].method = "oversized"
  BY DEF OwnInv, OneOutstanding, Own
<1>8. ASSUME sock' = sock, inbox' = inbox, backlog' = backlog,
             sock # NoConn =>
               /\ outbox'[sock] = <<>>
               /\ ~IsReset(sock) =>
                    /\ thread[sock] # "wait"
                    /\ \A i \in DOMAIN inbox[sock] : inbox[sock][i].method = "oversized"
      PROVE  PollInv'
  <2>1. sock # NoConn => (IsReset(sock)' <=> IsReset(sock))
    BY <1>1, <1>8 DEF IsReset, Alive
  <2> QED BY <1>1, <1>8, <2>1 DEF PollInv
<1>9. CASE \E method \in Methods : Calls(method)
  <2>1. UNCHANGED <<inbox, outbox, backlog, sock, nextId, readerVars>> /\ call.pc = "idle"
    BY <1>9 DEF Calls, serverVars, socketVars, acceptVars
  <2>2. PollInv'
    BY <1>7, <1>8, <2>1
  <2> QED BY <1>3, <1>5, <1>6, <2>1, <2>2 DEF readerVars
<1>10. CASE Connects
  <2>1. PICK c \in Conns : /\ peer[c] = "none" /\ sock' = c
                           /\ UNCHANGED <<inbox, outbox, nextId, readerVars>>
    BY <1>10 DEF Connects, Unused
  <2>2. thread[c] = "none" /\ inbox[c] = <<>> /\ outbox[c] = <<>>
    BY <2>1 DEF OwnInv, NotStarted
  <2>3. \A i \in DOMAIN <<>> : FALSE
    OBVIOUS
  <2>4. PollInv'
    BY <1>1, <2>1, <2>2, <2>3 DEF PollInv
  <2> QED BY <1>3, <1>5, <1>6, <2>1, <2>4 DEF readerVars
<1>11. CASE Closes
  <2>1. sock' = NoConn /\ UNCHANGED <<inbox, nextId, readerVars>>
    BY <1>11 DEF Closes
  <2> QED BY <1>3, <1>5, <1>6, <2>1 DEF PollInv, readerVars
<1>12. CASE LinkDrops \/ GivesUp
  <2>1. UNCHANGED <<inbox, backlog, nextId, readerVars>> /\ Fails
    BY <1>12 DEF LinkDrops, GivesUp, acceptVars
  <2>2. CASE call.attempt = 1
    BY <1>3, <1>5, <1>6, <2>1, <2>2 DEF Fails, PollInv, readerVars
  <2>3. CASE call.attempt # 1
    <3>1. UNCHANGED <<outbox, sock>>
      BY <2>1, <2>3 DEF Fails
    <3>2. sock # NoConn =>
            /\ outbox[sock] = <<>>
            /\ IsReset(sock) \/ call.pc # "awaiting" \/ call.method = "oversized"
      BY <1>7, <1>12, <2>3 DEF LinkDrops, GivesUp
    <3>3. PollInv'
      BY <1>7, <1>8, <2>1, <3>1, <3>2
    <3> QED BY <1>3, <1>5, <1>6, <2>1, <3>3 DEF readerVars
  <2> QED BY <2>2, <2>3
<1>13. CASE GetsAnswer
  <2>1. /\ sock \in Conns /\ outbox[sock] # <<>>
        /\ outbox' = [outbox EXCEPT ![sock] = Tail(@)]
        /\ UNCHANGED <<inbox, backlog, sock, nextId>>
    BY <1>2, <1>13 DEF GetsAnswer, CallerOK, acceptVars
  <2>2. Len(outbox[sock]) = 1 /\ outbox[sock] \in Seq(Answers)
    BY <1>2, <2>1 DEF OwnInv, OneOutstanding, SocketsOK
  <2>3. Tail(outbox[sock]) \in Seq(Answers) /\ Len(Tail(outbox[sock])) = 0
        /\ Head(outbox[sock]) \in Answers
    BY <2>1, <2>2
  <2>4. outbox'[sock] = <<>>
    <3>1. outbox'[sock] = Tail(outbox[sock])
      BY <1>2, <2>1 DEF SocketsOK
    <3>2. Tail(outbox[sock]) = <<>>
      BY <2>3, EmptySeq
    <3> QED BY <3>1, <3>2
  <2>5. PollInv'
    BY <1>2, <1>8, <2>1, <2>4 DEF OwnInv, OneOutstanding
  <2>6. CursorInv'
    <3>1. CASE call.method = "app.logs" /\ Head(outbox[sock]).outcome = "result"
      <4>1. Accounts(Head(outbox[sock]).logs, cursor, nextSeq)
        BY <1>2, <2>1, <3>1 DEF PollInv, Good
      <4>2. Head(outbox[sock]).logs \in LogAnswers
        BY <2>3 DEF Answers
      <4> QED BY <1>3, <1>13, <3>1, <4>1, <4>2, PollAddsUp DEF GetsAnswer
    <3>2. CASE ~(call.method = "app.logs" /\ Head(outbox[sock]).outcome = "result")
      BY <1>6, <1>13, <3>2 DEF GetsAnswer
    <3> QED BY <3>1, <3>2
  <2> QED BY <1>3, <1>5, <2>1, <2>5, <2>6
<1>14. CASE SendsRequest
  <2>1. /\ sock \in Conns /\ ~IsReset(sock) /\ call.pc = "asking"
        /\ UNCHANGED <<outbox, backlog, sock, readerVars>> /\ nextId' = nextId + 1
        /\ cursor \in Nat /\ cursor <= nextSeq /\ nextId \in Nat
    BY <1>2, <1>14 DEF SendsRequest, acceptVars, CallerOK, CursorInv
  <2>2. PICK req \in Requests :
          /\ req.id = nextId /\ req.method = call.method /\ req.since <= nextSeq
          /\ req.method = "app.logs" => req.since = cursor
          /\ inbox' = [inbox EXCEPT ![sock] = Append(@, req)]
          /\ call'.method = call.method
    <3> DEFINE sent == [id |-> nextId, method |-> call.method,
                        since |-> IF call.method = "app.logs" THEN cursor ELSE 0]
    <3>1. /\ sent \in Requests /\ sent.id = nextId /\ sent.method = call.method /\ sent.since <= nextSeq
          /\ sent.method = "app.logs" => sent.since = cursor
      BY <1>3, <2>1 DEF CallerOK, Requests
    <3>2. /\ inbox' = [inbox EXCEPT ![sock] = Append(@, sent)] /\ call'.method = call.method
      BY <1>14 DEF SendsRequest, CallerOK
    <3> HIDE DEF sent
    <3> QED BY <3>1, <3>2
  <2>3. inbox[sock] \in Seq(Requests) /\ \A d \in Conns : d # sock => inbox'[d] = inbox[d]
    BY <2>1, <2>2 DEF SocketsOK
  <2>4. /\ \A i \in DOMAIN inbox'[sock] :
             \/ i \in DOMAIN inbox[sock] /\ inbox'[sock][i] = inbox[sock][i]
             \/ i = Len(inbox[sock]) + 1 /\ inbox'[sock][i] = req
        /\ \A i \in DOMAIN inbox[sock] : i < Len(inbox[sock]) + 1
        /\ Len(inbox[sock]) \in Nat /\ DOMAIN inbox[sock] \subseteq Nat
    BY <2>1, <2>2, <2>3 DEF SocketsOK
  <2>5. PollInv'
    <3>1. IsReset(sock)' <=> IsReset(sock)
      BY <1>1, <2>1 DEF IsReset, Alive
    <3> QED BY <1>1, <1>7, <2>1, <2>2, <2>4, <3>1 DEF PollInv, AsCalled, readerVars
  <2>6. SinceInv'
    <3>1. \A d \in Conns : \A i \in DOMAIN inbox'[d] : inbox'[d][i].since <= nextSeq
      BY <2>2, <2>3, <2>4 DEF SinceInv
    <3> QED BY <1>1, <1>3, <1>4, <3>1 DEF SinceInv
  <2>7. \A c \in Conns : InOrderOfIds(c)'
    <3>1. InOrderOfIds(sock)
      BY <2>1 DEF TaskInv
    <3>2. \A i \in DOMAIN inbox[sock] : inbox[sock][i].id \in Nat
      BY <2>1, LinesHaveIds
    <3>3. \A i \in DOMAIN inbox'[sock] :
            /\ inbox'[sock][i].id < nextId'
            /\ \A j \in DOMAIN inbox'[sock] : i < j => inbox'[sock][i].id < inbox'[sock][j].id
      BY <2>1, <2>2, <2>4, <3>1, <3>2 DEF InOrderOfIds
    <3>4. ASSUME NEW d \in Conns, d # sock
          PROVE  \A i \in DOMAIN inbox[d] :
                   /\ inbox[d][i].id < nextId'
                   /\ \A j \in DOMAIN inbox[d] : i < j => inbox[d][i].id < inbox[d][j].id
      <4>1. \A i \in DOMAIN inbox[d] : inbox[d][i].id \in Nat
        BY LinesHaveIds
      <4> QED BY <2>1, <4>1 DEF TaskInv, InOrderOfIds
    <3> QED BY <2>3, <3>3, <3>4 DEF InOrderOfIds
  <2>8. \A t \in Tasks : Past(t) => Past(t)'
    <3>1. \A t \in Tasks : t.request.id \in Nat /\ t.conn \in Conns
      BY DEF Tasks, Requests
    <3> QED BY <2>1, <2>2, <2>3, <2>4, <3>1 DEF Past
  <2>9. Posted \subseteq Tasks /\ Running \subseteq Handlers
    BY TasksAreOfConns
  <2>10. \A t \in Tasks : FrameAlive(t)' <=> FrameAlive(t)
    BY <1>1 DEF FrameAlive
  <2>11. \A t \in Posted : EventOK(t)'
    BY <1>1, <2>8, <2>9, <2>10 DEF TaskInv, EventOK
  <2>12. \A h \in Running : HandlerOK(h)'
    BY <1>1, <1>3, <2>8, <2>9, <2>10 DEF TaskInv, HandlerOK, Handlers
  <2>13. \A c \in Conns : PromiseOK(c)'
    BY <1>1, <1>3, <1>4 DEF TaskInv, PromiseOK
  <2> QED BY <1>3, <1>4, <1>6, <2>1, <2>5, <2>6, <2>7, <2>11, <2>12, <2>13 DEF TaskInv, readerVars
<1> QED BY <1>9, <1>10, <1>11, <1>12, <1>13, <1>14 DEF CallSteps

\* Polls with next_seq lose no record unknowingly, for any ring and any limit,
\* as long as no retry times out: however records come in between the polls, and
\* whatever stale tasks and answers are about, each record before the cursor was
\* returned, reported as dropped, or passed over (log_sink.cpp query and sink_it_,
\* client.py call).
THEOREM LogsAreAccounted ==
  ASSUME ~MayFailTwice
  PROVE  Spec => []LogsAccounted
<1>1. Init => OwnInv /\ LogInv
  <2> SUFFICES ASSUME Init PROVE OwnInv /\ LogInv
    OBVIOUS
  <2>1. OwnInv
    BY ConnsAssumption DEF Init, ServerInit, OwnInv, NotStarted, InBacklog, OneOpen, PromiseIsOwn,
       OneOutstanding, AnswerIsOwn
  <2>2. \A i \in DOMAIN <<>> : FALSE
    OBVIOUS
  <2>3. RingIsLatest
    BY <2>2 DEF Init, ServerInit, RingInit, RingIsLatest, NextStored
  <2>4. CursorInv
    BY FS_EmptySet DEF Init, ServerInit, RingInit, CursorInv, WantFrom
  <2>5. TaskInv
    BY <2>2 DEF Init, ServerInit, TaskInv, InOrderOfIds, PromiseOK, Posted, Running
  <2>6. SinceInv
    BY <2>2 DEF Init, ServerInit, RingInit, SinceInv, Posted, Idle
  <2>7. PollInv
    BY DEF Init, PollInv
  <2> QED BY <2>1, <2>3, <2>4, <2>5, <2>6, <2>7 DEF LogInv
<1>2. TypeOK /\ OwnInv /\ LogInv /\ [Next]_vars => OwnInv' /\ LogInv'
  <2> SUFFICES ASSUME TypeOK, OwnInv, LogInv, [Next]_vars PROVE OwnInv' /\ LogInv'
    OBVIOUS
  <2>1. CASE ServerNext /\ UNCHANGED callerVars
    BY <2>1, AcceptorOwn, ClientThreadOwn, EventLoopOwn, AcceptorLogs, ClientThreadLogs,
       EventLoopLogs DEF ServerNext
  <2>2. CASE UNCHANGED vars
    <3>1. OwnInv'
      BY <2>2 DEF vars, serverVars, socketVars, acceptVars, clientVars, guiVars, stopVars, callerVars,
         readerVars, OwnInv, NotStarted, InBacklog, OneOpen, PromiseIsOwn, OneOutstanding, Own,
         IsReset, Alive, AnswerIsOwn
    <3>2. TaskInv'
      BY <2>2, TasksLeftAlone DEF vars, serverVars, socketVars, clientVars, ringVars, callerVars, LogInv
    <3>3. RingIsLatest' /\ CursorInv' /\ SinceInv' /\ PollInv'
      BY <2>2 DEF vars, serverVars, socketVars, acceptVars, clientVars, guiVars, stopVars, ringVars,
         callerVars, readerVars, LogInv, RingIsLatest, NextStored, CursorInv, SinceInv, Posted,
         PollInv, AsCalled, IsReset, Alive
    <3> QED BY <3>1, <3>2, <3>3 DEF LogInv
  <2> QED BY <2>1, <2>2, CallerOwn, CallerLogs DEF Next
<1>3. TypeOK /\ LogInv => LogsAccounted
  BY DEF TypeOK, CallerOK, LogInv, CursorInv, LogsAccounted, WantFrom
<1> QED BY <1>1, <1>2, <1>3, Typing, PTL DEF Spec
=============================================================================
