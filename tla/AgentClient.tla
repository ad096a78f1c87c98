----------------------------- MODULE AgentClient -----------------------------
(* tools/mcp_dashboard client.py against AgentControl: one caller at a time   *)
(* (call() holds a lock), one connection kept from call to call, and one      *)
(* retry on a new connection after any OSError, a timeout of its own socket   *)
(* included.  When the retry fails too, the error propagates and the          *)
(* connection of the retry is kept.  An answer is the next line on the        *)
(* connection; its id is not looked at.                                       *)
(*                                                                            *)
(* The caller polls app.logs with the next_seq of its last poll, as the tool  *)
(* tells it to.                                                               *)
EXTENDS AgentControl

CONSTANT
  MayFailTwice \* the retry of a call can run into the client's timeout as well

ASSUME MayFailTwiceAssumption == MayFailTwice \in BOOLEAN

VARIABLES
  sock,    \* _sock
  call,    \* the call in progress
  nextId,  \* _next_id
  handed,  \* the last answer given to a caller, with the id it was asked under
  cursor,  \* next_seq of the last poll
  got,     \* records the polls returned
  missed,  \* the sum of what they reported as dropped
  passed   \* records in their logger's hand at a poll, or over its limit

readerVars == <<handed, cursor, got, missed, passed>>
callerVars == <<sock, call, nextId, readerVars>>
vars == <<serverVars, callerVars>>

NoCall == [pc |-> "idle", method |-> "bad", attempt |-> 0, id |-> 0]

Init ==
  /\ ServerInit
  /\ sock = NoConn /\ call = NoCall /\ nextId = 1
  /\ handed = [asked |-> 0, answered |-> 0]
  /\ cursor = 0 /\ got = {} /\ missed = 0 /\ passed = {}

Unused == {c \in Conns : peer[c] = "none"}

\* Both attempts of a call have an id and a connection left.
Calls(method) ==
  /\ call.pc = "idle" /\ nextId < MaxId
  /\ Cardinality(Unused) >= IF sock = NoConn THEN 2 ELSE 1
  /\ call' = [pc |-> "asking", method |-> method, attempt |-> 1, id |-> 0]
  /\ UNCHANGED <<serverVars, sock, nextId, readerVars>>

Connects ==
  /\ call.pc = "asking" /\ sock = NoConn
  /\ Alive /\ listening
  /\ \E c \in Unused :
       /\ \A d \in Unused : c <= d
       /\ sock' = c
       /\ peer' = [peer EXCEPT ![c] = "open"]
       /\ backlog' = Append(backlog, c)
  /\ UNCHANGED <<inbox, outbox, run, listening, acceptor, clientVars, guiVars, stopVars, ringVars,
                 call, nextId, readerVars>>

\* The process is gone, or closed its listening socket over the connection.
IsReset(c) ==
  \/ ~Alive
  \/ thread[c] = "none" /\ acceptor.conn # c /\ \A i \in DOMAIN backlog : backlog[i] # c

SendsRequest ==
  /\ call.pc = "asking" /\ sock # NoConn /\ ~IsReset(sock)
  /\ inbox' = [inbox EXCEPT ![sock] =
       Append(@, [id |-> nextId, method |-> call.method,
                  since |-> IF call.method = "app.logs" THEN cursor ELSE 0])]
  /\ nextId' = nextId + 1
  /\ call' = [call EXCEPT !.pc = "awaiting", !.id = nextId]
  /\ UNCHANGED <<peer, outbox, acceptVars, clientVars, guiVars, stopVars, ringVars, sock, readerVars>>

\* Wrong on purpose: retries on the connection the first attempt was made on.
Fails_SameConnection ==
  /\ call' = IF call.attempt = 1 THEN [call EXCEPT !.pc = "asking", !.attempt = 2] ELSE NoCall
  /\ UNCHANGED <<peer, outbox, sock>>

\* The first failure closes the connection, the second one leaves it.
Fails ==
  IF call.attempt = 1
    THEN /\ peer' = [c \in Conns |-> IF c = sock THEN "closed" ELSE peer[c]]
         /\ outbox' = [c \in Conns |-> IF c = sock THEN <<>> ELSE outbox[c]]
         /\ sock' = NoConn
         /\ call' = [call EXCEPT !.pc = "asking", !.attempt = 2]
    ELSE /\ call' = NoCall
         /\ UNCHANGED <<peer, outbox, sock>>

LinkDrops ==
  /\ \/ call.pc = "asking" /\ sock = NoConn /\ ~(Alive /\ listening)
     \/ call.pc = "asking" /\ sock # NoConn /\ IsReset(sock)
     \/ call.pc = "awaiting" /\ outbox[sock] = <<>> /\ IsReset(sock)
  /\ Fails
  /\ UNCHANGED <<inbox, acceptVars, clientVars, guiVars, stopVars, ringVars, nextId, readerVars>>

GivesUp ==
  /\ call.pc = "awaiting" /\ outbox[sock] = <<>>
  /\ call.attempt = 1 \/ MayFailTwice \/ call.method = "oversized"
  /\ Fails
  /\ UNCHANGED <<inbox, acceptVars, clientVars, guiVars, stopVars, ringVars, nextId, readerVars>>

NewlyPassed(logs) == logs.clipped \union {seq \in logs.unstored : seq >= logs.since}

GetsAnswer ==
  /\ call.pc = "awaiting" /\ outbox[sock] # <<>>
  /\ LET answer == Head(outbox[sock])
         logs   == answer.logs
     IN  /\ handed' = [asked |-> call.id, answered |-> answer.id]
         /\ IF call.method = "app.logs" /\ answer.outcome = "result"
              THEN /\ cursor' = logs.nextSeq
                   /\ got' = got \union logs.records
                   /\ missed' = missed + logs.dropped
                   /\ passed' = passed \union NewlyPassed(logs)
              ELSE UNCHANGED <<cursor, got, missed, passed>>
  /\ outbox' = [outbox EXCEPT ![sock] = Tail(@)]
  /\ call' = NoCall
  /\ UNCHANGED <<peer, inbox, acceptVars, clientVars, guiVars, stopVars, ringVars, sock, nextId>>

\* close(), when the caller is done with the application.
Closes ==
  /\ call.pc = "idle" /\ sock # NoConn
  /\ peer' = [peer EXCEPT ![sock] = "closed"]
  /\ outbox' = [outbox EXCEPT ![sock] = <<>>]
  /\ sock' = NoConn
  /\ UNCHANGED <<inbox, acceptVars, clientVars, guiVars, stopVars, ringVars, call, nextId, readerVars>>

CallSteps == Connects \/ SendsRequest \/ LinkDrops \/ GivesUp \/ GetsAnswer

Next ==
  \/ ServerNext /\ UNCHANGED callerVars
  \/ \E method \in Methods : Calls(method)
  \/ CallSteps
  \/ Closes

Spec == Init /\ [][Next]_vars

\* Threads run and deadlines pass.  Nothing is asked of the GUI thread before
\* it is in stop(): it may hang in exec() for ever.
FairSpec ==
  /\ Spec
  /\ WF_vars(CallSteps)
  /\ WF_vars(Acceptor /\ UNCHANGED callerVars)
  /\ \A c \in Conns : WF_vars(ClientThread(c) /\ UNCHANGED callerVars)
  /\ WF_vars((StopCloses \/ StopJoinsAcceptor \/ StopJoinsClients) /\ UNCHANGED callerVars)
-----------------------------------------------------------------------------
LogAnswers == [since : Nat, records : SUBSET Nat, nextSeq : Nat, dropped : Nat,
               unstored : SUBSET Nat, clipped : SUBSET Nat]
Answers  == [id : Nat, outcome : {"none", "error", "busy", "result"}, logs : LogAnswers]
Tasks    == [conn : Conns, request : Requests]
Handlers == [task : Tasks, phase : {"settling", "returning"}, answer : Answers]

SocketsOK ==
  /\ peer \in [Conns -> {"none", "open", "closed"}]
  /\ inbox \in [Conns -> Seq(Requests)] /\ outbox \in [Conns -> Seq(Answers)]

AcceptorOK ==
  /\ run \in BOOLEAN /\ listening \in BOOLEAN
  /\ backlog \in Seq(Conns)
  /\ acceptor \in [pc : {"accept", "hold", "out"}, conn : Conns \union {NoConn}]
  /\ acceptor.pc = "hold" <=> acceptor.conn # NoConn

ThreadsOK ==
  /\ clients \subseteq Conns /\ joining \subseteq Conns
  /\ thread \in [Conns -> {"none", "recv", "wait", "finished"}]
  /\ request \in [Conns -> Requests]

GuiOK ==
  /\ promise \in [Conns -> Answers]
  /\ events \in Seq(Tasks) /\ stack \in Seq(Handlers)
  /\ gui \in {"exec", "closing", "joining", "draining", "stopped", "crashed"}

RingOK ==
  /\ records \in Seq(Nat) /\ Len(records) <= Capacity
  /\ nextSeq \in Nat /\ inHand \subseteq Nat

CallerOK ==
  /\ sock \in Conns \union {NoConn} /\ nextId \in Nat
  /\ call \in [pc : {"idle", "asking", "awaiting"}, method : Methods, attempt : 0..2, id : Nat]
  /\ call.pc = "awaiting" => sock # NoConn
  /\ handed \in [asked : Nat, answered : Nat]
  /\ cursor \in Nat /\ missed \in Nat /\ got \subseteq Nat /\ passed \subseteq Nat

\* The variables hold values the code can store in them, and the ring is not
\* over its capacity (log_sink.cpp sink_it_).
TypeOK == SocketsOK /\ AcceptorOK /\ ThreadsOK /\ GuiOK /\ RingOK /\ CallerOK

\* What a call returns answers the request of that call, though nobody compares
\* ids: client.py drops the connection an unanswered request is on, and the
\* server answers the lines of a connection one by one (server.cpp "a client can
\* always correlate").
AnswerIsOwn == handed.asked = handed.answered

\* A caller that polls with next_seq knows of every record before its cursor:
\* the polls returned it or reported it as dropped, or one of them passed over it
\* while its logger held it, or because of the limit (log_sink.cpp query and
\* sink_it_).
LogsAccounted ==
  cursor > 0 => cursor - 1 = Cardinality(got) + missed + Cardinality(passed)

\* When stop() has returned, and the widgets are about to be destroyed, no thread
\* of the socket is left that could call a handler (control_socket.cpp stop).
StoppedMeansQuiet ==
  gui = "stopped" => /\ acceptor.pc = "out"
                     /\ \A c \in Conns : thread[c] \in {"none", "finished"}

\* Every call returns to its caller, also while the GUI thread is blocked, while
\* it stops the socket, and after it is gone (gui_thread.h: a timeout turns "the
\* app is stuck" into a reportable answer).
EveryCallReturns == call.pc # "idle" ~> call.pc = "idle"

\* stop() returns if the peers hang up in the end; it does not make them
\* (control_socket.cpp stop joins threads that are in recv).
StopReturns ==
  <>[](\A c \in Conns : peer[c] # "open") => (gui = "closing" ~> gui = "stopped")
=============================================================================
