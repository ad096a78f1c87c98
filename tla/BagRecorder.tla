----------------------------- MODULE BagRecorder -----------------------------
(* nodes/bag/record.cpp: zenoh callbacks push every sample into a bounded     *)
(* queue, one thread drains it into the bag writer, and the main thread       *)
(* notes which topics are advertised until it is told to stop.  The process   *)
(* may be killed between any two steps; bag reindex runs after that.          *)
EXTENDS MessageQueue, BagWriter

CONSTANTS
  None,         \* the writer thread holds no message
  Scenarios,    \* what may go wrong in a behaviour, one set for each: of
                \* "subscribe", "write", "open", "close", "crash", "save" (and the
                \* writer knows) and "flush" (of an index, and nobody knows)
  MaxMessages,  \* messages that arrive, a bound of the model
  MaxParts      \* parts written, a bound of the model

ASSUME NoneAssumption == None \notin [n : Nat, topic : Topics]
ASSUME BoundAssumption == MaxMessages \in Nat /\ MaxParts \in Nat

VARIABLES
  received,    \* `received`, counted by the callbacks
  subscribed,  \* the callbacks are being called
  hand,        \* `message` of the writer thread's loop
  thread,      \* where the writer thread is
  main,        \* where the main thread is
  interrupted, \* cli::interrupted()
  failed,      \* writer_failed
  early,       \* the main thread is on its way out of a failed subscription
  scenario     \* the scenario of this behaviour

mainVars   == <<main, interrupted, early, subscribed>>
threadVars == <<hand, thread, failed>>
vars       == <<queueVars, writerVars, received, mainVars, threadVars, scenario>>

Init == /\ QueueInit /\ WriterInit
        /\ received = 0 /\ subscribed = FALSE
        /\ hand = None /\ thread = "pop" /\ failed = FALSE
        /\ main = "subscribing" /\ interrupted = FALSE /\ early = FALSE
        /\ scenario \in Scenarios

Alive == main \notin {"exited", "killed"}
May(f) == f \in scenario

\* How a save of the index may end.
SaveOutcomes == {"saved"} \union {o \in {"failed"} : May("save")} \union {o \in {"torn"} : May("flush")}
-----------------------------------------------------------------------------
(* The zenoh callbacks.  RX threads, so several at once; each push is atomic. *)
(* ++received comes before the push and decides nothing: the model numbers    *)
(* the messages in the order they were pushed.                                *)
Arrive ==
  \E t \in Topics :
    /\ Alive /\ subscribed
    /\ received < MaxMessages
    /\ received' = received + 1
    /\ Push([n |-> received + 1, topic |-> t])
    /\ UNCHANGED <<writerVars, mainVars, threadVars>>
-----------------------------------------------------------------------------
(* The writer thread.                                                         *)

\* Wrong on purpose: takes the newest message.
WriterPops_Newest ==
  /\ Alive /\ thread = "pop"
  /\ queue # << >>
  /\ queue' = SubSeq(queue, 1, Len(queue) - 1)
  /\ hand' = queue[Len(queue)]
  /\ thread' = "write"
  /\ UNCHANGED <<dropped, stopped, writerVars, received, mainVars, failed>>

WriterPops ==
  /\ Alive /\ thread = "pop"
  /\ Pop
  /\ hand' = Head(queue)
  /\ thread' = "write"
  /\ UNCHANGED <<writerVars, received, mainVars, failed>>

WriterStops ==
  /\ Alive /\ thread = "pop"
  /\ PopEnds
  /\ thread' = "done"
  /\ UNCHANGED <<queueVars, writerVars, received, mainVars, hand, failed>>

\* shouldRoll(): by time at any moment, by size every 256 messages of a part.
WriterFinishesPart ==
  \E complete \in BOOLEAN :
    /\ Alive /\ thread = "write"
    /\ Len(parts) < MaxParts
    /\ complete \/ May("close")
    /\ FinishPart(complete)
    /\ thread' = "save"
    /\ UNCHANGED <<queueVars, received, mainVars, hand, failed>>

WriterSavesIndex ==
  \E outcome \in SaveOutcomes :
    /\ Alive /\ thread = "save"
    /\ SyncAndSave(outcome)
    /\ thread' = "open"
    /\ UNCHANGED <<queueVars, received, mainVars, hand, failed>>

WriterOpensPart ==
  /\ Alive /\ thread = "open"
  /\ OpenPart
  /\ thread' = "append"
  /\ UNCHANGED <<queueVars, received, mainVars, hand, failed>>

WriterAppends ==
  \E flush \in BOOLEAN :
    /\ Alive /\ thread \in {"write", "append"}
    /\ WriteMessage(hand, flush)
    /\ hand' = None
    /\ thread' = "pop"
    /\ UNCHANGED <<queueVars, received, mainVars, failed>>

\* write() returned false: the loop breaks with the message in hand.
WriterFails ==
  /\ Alive
  /\ \/ thread = "open" /\ May("open")
     \/ thread \in {"write", "append"} /\ May("write")
  /\ Invalidate
  /\ failed' = TRUE
  /\ thread' = "done"
  /\ UNCHANGED <<queueVars, received, mainVars, hand>>
-----------------------------------------------------------------------------
(* The main thread.                                                           *)

\* One key expression, and there may be others to come.
Subscribes ==
  /\ main = "subscribing"
  /\ subscribed' = TRUE
  /\ main' \in {"subscribing", "checking"}
  /\ UNCHANGED <<queueVars, writerVars, received, threadVars, interrupted, early>>

\* A key expression could not be subscribed: stop, join, return.  The callbacks
\* of the earlier ones go on until their subscribers are destroyed.
SubscribeFails ==
  /\ main = "subscribing" /\ May("subscribe")
  /\ early' = TRUE
  /\ Stop
  /\ main' = "joining"
  /\ UNCHANGED <<writerVars, received, threadVars, interrupted, subscribed>>

\* A signal, once its handler is installed; before that it is Killed.
Interrupt ==
  /\ Alive /\ ~ interrupted
  /\ main # "subscribing" /\ ~ early
  /\ interrupted' = TRUE
  /\ UNCHANGED <<queueVars, writerVars, received, threadVars, main, early, subscribed>>

\* while (!interrupted && !writer_failed)
ChecksLoop ==
  /\ main = "checking"
  /\ main' = IF interrupted \/ failed THEN "unsubscribing" ELSE "sleeping"
  /\ UNCHANGED <<queueVars, writerVars, received, threadVars, interrupted, early, subscribed>>

\* After the sleep: --duration is over, or the advertised topics are noted.
Wakes ==
  /\ main = "sleeping"
  /\ main' \in {"unsubscribing", "noting"}
  /\ UNCHANGED <<queueVars, writerVars, received, threadVars, interrupted, early, subscribed>>

\* noteAdvertised() for every entry of the directory; what it inserts into the
\* writer's topic map has no message.
NotesAdvertised ==
  /\ main = "noting"
  /\ main' = "checking"
  /\ UNCHANGED <<queueVars, writerVars, received, threadVars, interrupted, early, subscribed>>

\* subscribers.clear(); undeclaring a subscriber waits for its callbacks.
Unsubscribes ==
  /\ main = "unsubscribing"
  /\ subscribed' = FALSE
  /\ main' = "stopping"
  /\ UNCHANGED <<queueVars, writerVars, received, threadVars, interrupted, early>>

StopsQueue ==
  /\ main = "stopping"
  /\ Stop
  /\ main' = "joining"
  /\ UNCHANGED <<writerVars, received, threadVars, interrupted, early, subscribed>>

\* Wrong on purpose: joins a thread that broke out of its loop no more.
Joins_OnlyDrained ==
  /\ main = "joining" /\ thread = "done" /\ queue = << >>
  /\ NoteDropped(dropped)
  /\ subscribed' = FALSE
  /\ main' = "closing"
  /\ UNCHANGED <<queueVars, received, threadVars, interrupted, early>>

\* join(), then noteDropped(); the early return has no noteDropped.
Joins ==
  /\ main = "joining" /\ thread = "done"
  /\ NoteDropped(IF early THEN 0 ELSE dropped)
  /\ subscribed' = FALSE
  /\ main' = "closing"
  /\ UNCHANGED <<queueVars, received, threadVars, interrupted, early>>

ClosesWriter ==
  \E complete \in BOOLEAN :
    /\ main = "closing" /\ valid
    /\ complete \/ May("close")
    /\ FinishPart(complete)
    /\ main' = "indexing"
    /\ UNCHANGED <<queueVars, received, threadVars, interrupted, early, subscribed>>

WritesLastIndex ==
  \E outcome \in SaveOutcomes :
    /\ main = "indexing"
    /\ SyncAndSave(outcome)
    /\ main' = "exited"
    /\ UNCHANGED <<queueVars, received, threadVars, interrupted, early, subscribed>>

ClosesInvalid ==
  \E outcome \in SaveOutcomes :
    /\ main = "closing" /\ ~ valid
    /\ SaveAsIs(outcome)
    /\ main' = "exited"
    /\ UNCHANGED <<queueVars, received, threadVars, interrupted, early, subscribed>>
-----------------------------------------------------------------------------
(* The process is killed; what it had written to its files stays written.     *)
(* Then bag reindex.                                                          *)
Killed ==
  /\ Alive /\ May("crash")
  /\ main' = "killed"
  /\ UNCHANGED <<queueVars, writerVars, received, threadVars, interrupted, early, subscribed>>

\* A part of which nothing reached the disk may not even open.
Readable(p) == p.closed \/ p.flushed > 0

RunsReindex ==
  \E files \in {DOMAIN parts, {i \in DOMAIN parts : Readable(parts[i])}}, outcome \in SaveOutcomes :
    /\ ~ Alive
    /\ Reindex(outcome, files)
    /\ UNCHANGED <<queueVars, parts, memoryVars, received, mainVars, threadVars>>
-----------------------------------------------------------------------------
WriterThread == \/ WriterPops \/ WriterStops \/ WriterFinishesPart \/ WriterSavesIndex
                \/ WriterOpensPart \/ WriterAppends \/ WriterFails

MainThread == \/ Subscribes \/ SubscribeFails \/ ChecksLoop \/ Wakes \/ NotesAdvertised
              \/ Unsubscribes \/ StopsQueue \/ Joins \/ ClosesWriter \/ WritesLastIndex
              \/ ClosesInvalid

Next == /\ Arrive \/ WriterThread \/ MainThread \/ Interrupt \/ Killed \/ RunsReindex
        /\ UNCHANGED scenario

Spec == Init /\ [][Next]_vars

\* Both threads run; nobody has to interrupt, nothing has to fail.
FairSpec == /\ Spec
            /\ WF_vars(WriterThread /\ UNCHANGED scenario)
            /\ WF_vars(MainThread /\ UNCHANGED scenario)
-----------------------------------------------------------------------------
Stamped == [n : Nat, topic : Topics]

\* Each variable keeps its type, and the queue never exceeds its capacity.
TypeOK ==
  /\ queue \in Seq(Stamped) /\ Len(queue) <= Capacity
  /\ dropped \in Nat /\ stopped \in BOOLEAN
  /\ count \in Nat /\ noted \in Nat /\ received \in Nat /\ valid \in BOOLEAN
  /\ hand \in Stamped \union {None}
  /\ thread \in {"pop", "write", "save", "open", "append", "done"}
  /\ main \in {"subscribing", "checking", "sleeping", "noting", "unsubscribing", "stopping",
               "joining", "closing", "indexing", "exited", "killed"}
  /\ subscribed \in BOOLEAN /\ interrupted \in BOOLEAN /\ failed \in BOOLEAN /\ early \in BOOLEAN

\* Every message a callback counted is written, queued, in the writer thread's
\* hand or counted as dropped (queue.h: "says exactly how many").
InHand == IF hand = None THEN 0 ELSE 1
EveryMessageAccountedFor == received = Len(queue) + InHand + count + dropped

\* A recording stopped by its user has nothing left behind: the metadata account
\* for every message received (queue.h:76, "cannot lose a message that was
\* already queued when the recording was told to stop").  So does the index, if
\* it could be saved and every part closed, also after a reindex.
StopLosesNothing ==
  main = "exited" /\ ~ failed /\ ~ early =>
    /\ received = count + noted
    /\ \/ May("save") \/ May("flush") \/ May("close")
       \/ index # NoIndex /\ index.messages + index.dropped = received

\* The newest Capacity messages are never the ones dropped: each is queued, in
\* hand or recorded (queue.h:44, the freshest samples explain most).
Holds(s, n) == \E i \in DOMAIN s : s[i].n = n
FreshestKept ==
  \A n \in 1 .. received :
    n + Capacity > received =>
      \/ Holds(queue, n)
      \/ hand # None /\ hand.n = n
      \/ \E i \in DOMAIN parts : Holds(parts[i].messages, n)

\* Messages are recorded in the order they arrived, each once, across parts.
InArrivalOrder ==
  \A i, j \in DOMAIN parts :
    \A k \in DOMAIN parts[i].messages, l \in DOMAIN parts[j].messages :
      i < j \/ (i = j /\ k < l) => parts[i].messages[k].n < parts[j].messages[l].n

\* An entry that comes after all the others of an index that is not whole.
CutOff(i) == ~ index.whole /\ \A j \in DOMAIN index.parts : j <= i

\* What the index says of a complete part is what the file holds, whenever the
\* process is killed (writer.cpp:238, it "names only the parts that are finished").
\* Of an index whose text was lost in the flush, the last entry may be cut.
IndexDescribesParts ==
  index # NoIndex =>
    \A i \in DOMAIN index.parts :
      index.parts[i].complete /\ ~ CutOff(i) =>
        LET part == parts[index.parts[i].number]
        IN part.closed /\ Len(OnDisk(part)) = index.parts[i].messages

\* The totals of an index are the totals of its parts and of its topics
\* (metadata.h:72, "Total across all parts"), if it is whole and unless mcap
\* refused a message: the index a failed writer saves counts a part that it
\* does not list.
IndexAddsUp ==
  index # NoIndex /\ index.whole /\ ~ May("write") =>
    /\ index.messages = Total(index.parts)
    /\ index.messages = SumFunction(index.topics)

\* Both, also of the index that bag reindex makes of what a kill left.
IndexTellsTheTruth == IndexDescribesParts /\ IndexAddsUp

\* Once a second part exists there is an index (docs/bag.md:218, "a recorder
\* killed after its first roll leaves a readable bag"), if it could be saved.
IndexedOnceRolled == Len(parts) > 1 /\ ~ May("save") /\ ~ May("flush") => index # NoIndex

\* A kill damages the last part at most (docs/bag.md:31): an earlier one that is
\* torn is one whose close failed, and the recorder knows which.
OnlyLastPartTorn ==
  \A i \in 1 .. Len(parts) - 1 :
    \/ parts[i].closed
    \/ /\ May("close")
       /\ \E j \in DOMAIN indexed : indexed[j].number = i /\ ~ indexed[j].complete

\* What a kill leaves can be read, at any moment: both of the above.
KillLeavesReadableBag == IndexedOnceRolled /\ OnlyLastPartTorn

\* A recording that is interrupted, or whose writer failed, ends; whatever the
\* disk does, the main thread does not wait for ever on a writer thread that
\* broke out of its loop with messages still queued.
RecordingEnds == (interrupted \/ failed) ~> ~ Alive
=============================================================================
