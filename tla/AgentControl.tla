---------------------------- MODULE AgentControl ----------------------------
(* libs/agent_control: the control socket an application serves in agent      *)
(* mode.  An accept thread, a thread per connection, and the Qt GUI thread    *)
(* every handler runs on: a connection's thread posts a task to the event     *)
(* queue and waits for its promise up to a deadline.  When exec() returns,    *)
(* the application's main stops the socket on that same GUI thread.           *)
(*                                                                            *)
(* A task holds the stack frame of its caller by reference.  What it does     *)
(* once the caller has left (a handler and parameters that are gone, or       *)
(* those of the caller's next request, which has the same frame) is undefined *)
(* and modelled as a choice, Loose.                                           *)
EXTENDS LogRing

CONSTANTS
  Conns,   \* the connections of a behaviour, numbered in the order they are opened
  MaxId    \* requests of a behaviour, a bound of the model

ASSUME ConnsAssumption == Conns \subseteq Nat \ {0} /\ IsFiniteSet(Conns)
ASSUME MaxIdAssumption == MaxId \in Nat

VARIABLES
  \* the sockets
  peer,      \* the other end of each connection: none, open or closed
  inbox,     \* requests sent and not yet read by the server
  outbox,    \* answers sent and not yet read by the peer
  \* ControlSocket
  run,       \* run_
  listening, \* server_fd_ is open
  backlog,   \* connections the kernel holds for accept()
  acceptor,  \* the accept thread and the connection in its hand
  clients,   \* the connections whose thread is in clients_
  thread,    \* where the thread of each connection is
  request,   \* the request it waits for
  \* AgentServer and the GUI thread
  events,    \* tasks posted to the GUI thread
  stack,     \* the handlers running on it, the innermost last
  promise,   \* what the promise of each connection's request holds
  gui,       \* the GUI thread: in exec(), then in stop(), then out of main
  joining    \* stop()'s own copy of clients_

socketVars == <<peer, inbox, outbox>>
acceptVars == <<run, listening, backlog, acceptor>>
clientVars == <<clients, thread, request>>
guiVars    == <<events, stack, promise>>
stopVars   == <<gui, joining>>
serverVars == <<socketVars, acceptVars, clientVars, guiVars, stopVars, ringVars>>

NoConn == 0

\* A read-only method (app.logs, the one whose answer is looked into), one that
\* mutates, a line that is answered without the GUI thread (malformed, or of an
\* unknown method), and one over the size limit, which is not answered at all.
Methods  == {"app.logs", "mutating", "bad", "oversized"}
Requests == [id : Nat, method : Methods, since : Nat]
Idle     == [id |-> 0, method |-> "bad", since |-> 0]

\* What a query returns is the only result anyone looks into.
NoLogs  == [since |-> 0, records |-> {}, nextSeq |-> 0, dropped |-> 0, unstored |-> {}, clipped |-> {}]
Answer(id, outcome, logs) == [id |-> id, outcome |-> outcome, logs |-> logs]
NoReply == Answer(0, "none", NoLogs)

Alive == gui \notin {"stopped", "crashed"}

ServerInit ==
  /\ peer = [c \in Conns |-> "none"]
  /\ inbox = [c \in Conns |-> <<>>] /\ outbox = [c \in Conns |-> <<>>]
  /\ run = TRUE /\ listening = TRUE /\ backlog = <<>>
  /\ acceptor = [pc |-> "accept", conn |-> NoConn]
  /\ clients = {} /\ thread = [c \in Conns |-> "none"]
  /\ request = [c \in Conns |-> Idle]
  /\ events = <<>> /\ stack = <<>>
  /\ promise = [c \in Conns |-> NoReply]
  /\ gui = "exec" /\ joining = {}
  /\ RingInit

Goes(c, place) == thread' = [thread EXCEPT ![c] = place]
-----------------------------------------------------------------------------
(* acceptLoop *)

Accepts ==
  /\ Alive /\ acceptor.pc = "accept"
  /\ listening /\ backlog # <<>>
  /\ acceptor' = [pc |-> "hold", conn |-> Head(backlog)]
  /\ backlog' = Tail(backlog)
  /\ UNCHANGED <<socketVars, run, listening, clientVars, guiVars, stopVars, ringVars>>

\* accept() on the closed socket fails and run_ is down: the thread returns.
AcceptFails ==
  /\ Alive /\ acceptor.pc = "accept" /\ ~listening
  /\ acceptor' = [acceptor EXCEPT !.pc = "out"]
  /\ UNCHANGED <<socketVars, run, listening, backlog, clientVars, guiVars, stopVars, ringVars>>

\* Joins and drops the threads that have finished (reapFinishedClients), starts
\* the new one in clients_, and looks at run_ again.
AdmitsClient ==
  /\ Alive /\ acceptor.pc = "hold"
  /\ clients' = {c \in clients : thread[c] # "finished"} \union {acceptor.conn}
  /\ Goes(acceptor.conn, "recv")
  /\ acceptor' = [pc |-> IF run THEN "accept" ELSE "out", conn |-> NoConn]
  /\ UNCHANGED <<socketVars, run, listening, backlog, request, guiVars, stopVars, ringVars>>
-----------------------------------------------------------------------------
(* clientLoop, handleLine, dispatch and invoke *)

Asked(c, methods) == inbox[c] # <<>> /\ Head(inbox[c]).method \in methods

TakesLine(c) ==
  /\ Alive /\ thread[c] = "recv"
  /\ inbox' = [inbox EXCEPT ![c] = Tail(@)]
  /\ UNCHANGED <<peer, acceptVars, clients, stack, promise, stopVars, ringVars>>

\* sendAll fails, and the thread ends, if the peer has closed.
Sends(c, answer) ==
  IF peer[c] = "open"
    THEN outbox' = [outbox EXCEPT ![c] = Append(@, answer)] /\ Goes(c, "recv")
    ELSE Goes(c, "finished") /\ UNCHANGED outbox

PostsTask(c) ==
  /\ Asked(c, {"app.logs", "mutating"})
  /\ TakesLine(c)
  /\ request' = [request EXCEPT ![c] = Head(inbox[c])]
  /\ events' = Append(events, [conn |-> c, request |-> Head(inbox[c])])
  /\ Goes(c, "wait")
  /\ UNCHANGED outbox

RejectsLine(c) ==
  /\ Asked(c, {"bad"})
  /\ TakesLine(c)
  /\ Sends(c, Answer(Head(inbox[c]).id, "error", NoLogs))
  /\ UNCHANGED <<request, events>>

DropsLine(c) ==
  /\ Asked(c, {"oversized"})
  /\ TakesLine(c)
  /\ UNCHANGED <<outbox, thread, request, events>>

\* The promise of an answered request has no reader left.
Leaves(c, answer) ==
  /\ Sends(c, answer)
  /\ request' = [request EXCEPT ![c] = Idle]
  /\ promise' = [promise EXCEPT ![c] = NoReply]
  /\ UNCHANGED <<peer, inbox, acceptVars, clients, events, stack, stopVars, ringVars>>

\* wait_for ends with the promise set, or at the deadline.
TakesResult(c) ==
  /\ Alive /\ thread[c] = "wait" /\ promise[c] # NoReply
  /\ Leaves(c, promise[c])

\* Wrong on purpose: a blocking connection, which has no deadline.
TimesOut_Blocking(c) ==
  /\ Alive /\ thread[c] = "wait" /\ promise[c] # NoReply
  /\ Leaves(c, Answer(request[c].id, "busy", NoLogs))

TimesOut(c) ==
  /\ Alive /\ thread[c] = "wait" /\ promise[c] = NoReply
  /\ Leaves(c, Answer(request[c].id, "busy", NoLogs))

\* recv() returns 0 once the peer has closed and everything it sent was read.
SeesHangUp(c) ==
  /\ Alive /\ thread[c] = "recv" /\ inbox[c] = <<>> /\ peer[c] = "closed"
  /\ Goes(c, "finished")
  /\ UNCHANGED <<socketVars, acceptVars, clients, request, guiVars, stopVars, ringVars>>
-----------------------------------------------------------------------------
(* The GUI thread in exec(), or in the nested event loop of settleEventLoop.  *)

Innermost == stack[Len(stack)]
InEventLoop == gui = "exec" /\ (stack # <<>> => Innermost.phase = "settling")

\* The caller is still in wait_for, so that the frame the task refers to exists.
FrameAlive(task) == thread[task.conn] = "wait" /\ request[task.conn].id = task.request.id

\* What the handler of a request returns.
ResultOf(req) ==
  LET found == Query(req.since)
  IN  IF req.method = "app.logs"
        THEN [since |-> found.since, records |-> found.records, nextSeq |-> found.nextSeq,
              dropped |-> found.dropped, unstored |-> inHand,
              clipped |-> Matching(req.since) \ found.records]
        ELSE NoLogs

\* A mutating handler settles the event loop before it returns.
PhaseAfter(req) == IF req.method = "mutating" THEN "settling" ELSE "returning"

TakesEvent ==
  /\ InEventLoop /\ events # <<>>
  /\ events' = Tail(events)
  /\ UNCHANGED <<socketVars, acceptVars, clientVars, promise, joining, ringVars>>

Handles(task, req, phase) ==
  stack' = Append(stack, [task |-> task, phase |-> phase,
                          answer |-> Answer(task.request.id, "result", ResultOf(req))])

RunsTask ==
  /\ TakesEvent
  /\ LET task == Head(events)
     IN  FrameAlive(task) /\ Handles(task, task.request, PhaseAfter(task.request))
  /\ UNCHANGED gui

\* Undefined: the old handler still, the caller's next one, none, or a crash.
Loose(task) == {task.request} \union ({request[task.conn]} \ {Idle})

RunsLooseTask ==
  /\ TakesEvent
  /\ ~FrameAlive(Head(events))
  /\ \/ /\ \E req \in Loose(Head(events)), phase \in {"settling", "returning"} :
             Handles(Head(events), req, phase)
        /\ UNCHANGED gui
     \/ UNCHANGED <<stack, gui>>
     \/ gui' = "crashed" /\ UNCHANGED stack

\* The promise lives as long as the task, its reader perhaps not.
FulfilsPromise ==
  /\ gui = "exec" /\ stack # <<>>
  /\ LET task == Innermost.task
     IN  promise' = [promise EXCEPT ![task.conn] = IF FrameAlive(task) THEN Innermost.answer ELSE @]
  /\ stack' = SubSeq(stack, 1, Len(stack) - 1)
  /\ UNCHANGED <<socketVars, acceptVars, clientVars, events, stopVars, ringVars>>
-----------------------------------------------------------------------------
(* main after exec(): ControlSocket::stop on the GUI thread *)

\* quit() was called, on the timer app.quit arms or on the one that looks for
\* SIGINT, which may come any time; exec() returns when no handler runs.
StopBegins ==
  /\ gui = "exec" /\ stack = <<>>
  /\ run' = FALSE
  /\ gui' = "closing"
  /\ UNCHANGED <<socketVars, listening, backlog, acceptor, clientVars, guiVars, joining, ringVars>>

\* Wrong on purpose: close() alone, which leaves the accept thread in accept().
StopCloses_NoShutdown ==
  /\ gui = "closing"
  /\ backlog' = <<>>
  /\ gui' = "joining"
  /\ UNCHANGED <<socketVars, run, listening, acceptor, clientVars, guiVars, joining, ringVars>>

\* What the kernel held for accept() is reset.
StopCloses ==
  /\ gui = "closing"
  /\ listening' = FALSE /\ backlog' = <<>>
  /\ gui' = "joining"
  /\ UNCHANGED <<socketVars, run, acceptor, clientVars, guiVars, joining, ringVars>>

\* Wrong on purpose: takes clients_ while the accept thread still fills it.
StopJoinsAcceptor_Early ==
  /\ gui = "joining"
  /\ joining' = clients /\ clients' = {}
  /\ gui' = "draining"
  /\ UNCHANGED <<socketVars, acceptVars, thread, request, guiVars, ringVars>>

StopJoinsAcceptor ==
  /\ gui = "joining" /\ acceptor.pc = "out"
  /\ joining' = clients /\ clients' = {}
  /\ gui' = "draining"
  /\ UNCHANGED <<socketVars, acceptVars, thread, request, guiVars, ringVars>>

StopJoinsClients ==
  /\ gui = "draining" /\ \A c \in joining : thread[c] = "finished"
  /\ gui' = "stopped" /\ joining' = {}
  /\ UNCHANGED <<socketVars, acceptVars, clientVars, guiVars, ringVars>>
-----------------------------------------------------------------------------
Acceptor == Accepts \/ AcceptFails \/ AdmitsClient

ClientThread(c) ==
  \/ PostsTask(c) \/ RejectsLine(c) \/ DropsLine(c)
  \/ TakesResult(c) \/ TimesOut(c) \/ SeesHangUp(c)

EventLoop == RunsTask \/ RunsLooseTask \/ FulfilsPromise

Stop == StopBegins \/ StopCloses \/ StopJoinsAcceptor \/ StopJoinsClients

\* Any thread; what is logged after exec() has no reader left.
Logger ==
  /\ gui = "exec"
  /\ SinkNumbers \/ SinkStores
  /\ UNCHANGED <<socketVars, acceptVars, clientVars, guiVars, stopVars>>

ServerNext == Acceptor \/ (\E c \in Conns : ClientThread(c)) \/ EventLoop \/ Stop \/ Logger
=============================================================================
