-------------------------- MODULE BagRecorderProofs --------------------------
(* Proofs about BagRecorder, for every capacity of the queue, every set of    *)
(* topics and every choice of what may fail.                                  *)
EXTENDS BagRecorder, FiniteSetTheorems, TLAPS

PartType == [number : Nat, messages : Seq(Stamped), flushed : Nat, closed : BOOLEAN]

\* There is always a last part.
PartsOK == parts \in Seq(PartType) /\ parts # << >>

Working == {"write", "save", "open", "append"}

\* The writer thread holds a message from the pop to the end of write(), and for
\* good once a write has failed.
HandOK == /\ hand # None <=> thread \in Working \/ failed
          /\ failed => thread = "done"

Typed == TypeOK /\ PartsOK /\ HandOK

-----------------------------------------------------------------------------
(* The operations of the queue and of the writer.                             *)

\* push() keeps the bound, and adds one message to those queued or dropped.
LEMMA PushBounded ==
  ASSUME NEW m \in Stamped, queue \in Seq(Stamped), Len(queue) <= Capacity, dropped \in Nat,
         Push(m)
  PROVE  /\ queue' \in Seq(Stamped) /\ queue' # << >>
         /\ Len(queue') <= Capacity
         /\ dropped' \in Nat
         /\ Len(queue') + dropped' = Len(queue) + dropped + 1
         /\ queue'[Len(queue')] = m
         /\ stopped' = stopped
  <1>1. CASE Full
    <2>1. /\ queue # << >> /\ queue' = Append(Tail(queue), m) /\ dropped' = dropped + 1
      BY <1>1, CapacityAssumption DEF Push, Full
    <2>2. Tail(queue) \in Seq(Stamped) /\ Len(Tail(queue)) = Len(queue) - 1
      BY <2>1
    <2> QED
      BY <2>1, <2>2 DEF Push
  <1>2. CASE ~ Full
    <2>1. queue' = Append(queue, m) /\ dropped' = dropped
      BY <1>2 DEF Push
    <2> QED
      BY <1>2, <2>1, CapacityAssumption DEF Push, Full
  <1> QED
    BY <1>1, <1>2

\* pop() takes one message off the queue, of the right type.
LEMMA PopTakesOne ==
  ASSUME queue \in Seq(Stamped), Pop
  PROVE  /\ queue' \in Seq(Stamped)
         /\ Len(queue') = Len(queue) - 1
         /\ Head(queue) \in Stamped
         /\ UNCHANGED <<dropped, stopped>>
  BY DEF Pop

\* The three operations that write to a part leave a list of parts.
LEMMA PartsStay ==
  ASSUME PartsOK
  PROVE  /\ OpenPart => PartsOK'
         /\ \A complete \in BOOLEAN : FinishPart(complete) => PartsOK'
         /\ \A m \in Stamped, flush \in BOOLEAN : WriteMessage(m, flush) => PartsOK'
  <1> USE DEF PartsOK
  <1> DEFINE last == Len(parts)
  <1>0. last \in Nat \ {0} /\ parts[last] \in PartType
    OBVIOUS
  <1>1. OpenPart => PartsOK'
    <2>1. Part(Len(parts) + 1) \in PartType
      BY <1>0 DEF Part, PartType
    <2> QED
      BY <2>1 DEF OpenPart
  <1>2. ASSUME NEW complete \in BOOLEAN, FinishPart(complete)
        PROVE  PartsOK'
    <2>0. Len(parts[last].messages) \in Nat
      BY <1>0 DEF PartType
    <2> DEFINE ended == [parts[last] EXCEPT !.closed = complete,
                 !.flushed = IF complete THEN Len(parts[last].messages) ELSE parts[last].flushed]
    <2>1. ended \in PartType
      BY <1>0, <2>0 DEF PartType
    <2>2. parts' = [parts EXCEPT ![last] = ended]
      BY <1>2 DEF FinishPart
    <2> QED
      BY <1>0, <2>1, <2>2
  <1>3. ASSUME NEW m \in Stamped, NEW flush \in BOOLEAN, WriteMessage(m, flush)
        PROVE  PartsOK'
    <2> DEFINE grown == Append(parts[last].messages, m)
               longer == [parts[last] EXCEPT !.messages = grown,
                            !.flushed = IF flush THEN Len(grown) ELSE parts[last].flushed]
    <2>0. grown \in Seq(Stamped) /\ Len(grown) \in Nat
      BY <1>0 DEF PartType
    <2>1. longer \in PartType
      BY <1>0, <2>0 DEF PartType
    <2>2. parts' = [parts EXCEPT ![last] = longer]
      BY <1>3 DEF WriteMessage
    <2> QED
      BY <1>0, <2>1, <2>2
  <1> QED
    BY <1>1, <1>2, <1>3
-----------------------------------------------------------------------------
(* Typing.                                                                    *)

\* The recorder starts well typed, with an open first part and nothing in hand.
LEMMA TypedInit == Init => Typed
  <1> SUFFICES ASSUME Init PROVE Typed
    OBVIOUS
  <1>1. TypeOK
    <2>1. queue \in Seq(Stamped) /\ Len(queue) <= Capacity
      BY CapacityAssumption DEF Init, QueueInit
    <2> QED
      BY <2>1 DEF Init, QueueInit, WriterInit, TypeOK
  <1>2. PartsOK
    BY DEF Init, WriterInit, PartsOK, PartType, Part
  <1>3. HandOK
    BY DEF Init, HandOK, Working
  <1> QED
    BY <1>1, <1>2, <1>3 DEF Typed

\* No step of a callback, of a thread or of the crash breaks the types.
LEMMA TypedStep == Typed /\ [Next]_vars => Typed'
  <1> SUFFICES ASSUME Typed, [Next]_vars PROVE Typed'
    OBVIOUS
  <1> USE DEF Typed
  <1>1. CASE Arrive
    <2>1. PICK t \in Topics : Push([n |-> received + 1, topic |-> t])
      BY <1>1 DEF Arrive
    <2>2. [n |-> received + 1, topic |-> t] \in Stamped
      BY DEF Stamped, TypeOK
    <2>3. TypeOK'
      BY <1>1, <2>1, <2>2, PushBounded
         DEF TypeOK, Arrive, writerVars, memoryVars, mainVars, threadVars
    <2>4. PartsOK' /\ HandOK'
      BY <1>1 DEF Arrive, PartsOK, HandOK, writerVars, threadVars
    <2> QED
      BY <2>3, <2>4
  <1>2. CASE WriterPops
    <2>2. hand' \in Stamped
      BY <1>2, PopTakesOne DEF TypeOK, WriterPops
    <2>5. queue' \in Seq(Stamped) /\ Len(queue') <= Capacity /\ UNCHANGED <<dropped, stopped>>
      BY <1>2, PopTakesOne, CapacityAssumption DEF TypeOK, WriterPops
    <2>1. TypeOK'
      BY <1>2, <2>2, <2>5 DEF TypeOK, WriterPops, writerVars, memoryVars, mainVars
    <2>3. hand' # None
      BY <2>2, NoneAssumption DEF Stamped
    <2>4. PartsOK' /\ HandOK'
      BY <1>2, <2>3 DEF WriterPops, PartsOK, HandOK, Working, writerVars
    <2> QED
      BY <2>1, <2>4
  <1>3. CASE WriterStops
    BY <1>3 DEF WriterStops, TypeOK, PartsOK, HandOK, Working, queueVars, writerVars, memoryVars, mainVars
  <1>4. CASE WriterFinishesPart
    <2>1. PICK complete \in BOOLEAN : FinishPart(complete)
      BY <1>4 DEF WriterFinishesPart
    <2>2. PartsOK'
      BY <2>1, PartsStay
    <2>3. TypeOK' /\ HandOK'
      BY <1>4, <2>1 DEF WriterFinishesPart, FinishPart, TypeOK, HandOK, Working, queueVars, mainVars
    <2> QED
      BY <2>2, <2>3
  <1>5. CASE WriterSavesIndex
    BY <1>5 DEF WriterSavesIndex, SyncAndSave, TypeOK, PartsOK, HandOK, Working, queueVars, mainVars
  <1>6. CASE WriterOpensPart
    <2>1. PartsOK'
      BY <1>6, PartsStay DEF WriterOpensPart
    <2>2. TypeOK' /\ HandOK'
      BY <1>6 DEF WriterOpensPart, OpenPart, TypeOK, HandOK, Working, queueVars, mainVars, memoryVars
    <2> QED
      BY <2>1, <2>2
  <1>7. CASE WriterAppends
    <2>1. PICK flush \in BOOLEAN : WriteMessage(hand, flush)
      BY <1>7 DEF WriterAppends
    <2>2. hand \in Stamped
      BY <1>7 DEF WriterAppends, HandOK, TypeOK, Working
    <2>3. PartsOK'
      BY <2>1, <2>2, PartsStay
    <2>4. TypeOK' /\ HandOK'
      BY <1>7, <2>1 DEF WriterAppends, WriteMessage, TypeOK, HandOK, Working, queueVars, mainVars
    <2> QED
      BY <2>3, <2>4
  <1>8. CASE WriterFails
    BY <1>8 DEF WriterFails, Invalidate, TypeOK, PartsOK, HandOK, Working, queueVars, mainVars
  <1>9. CASE \/ Subscribes \/ SubscribeFails \/ Interrupt \/ ChecksLoop \/ Wakes \/ NotesAdvertised
             \/ Unsubscribes \/ StopsQueue \/ Killed
    <2>1. UNCHANGED <<queue, dropped, writerVars, received, threadVars>> /\ stopped' \in BOOLEAN
      BY <1>9 DEF Subscribes, SubscribeFails, Interrupt, ChecksLoop, Wakes, NotesAdvertised,
                  Unsubscribes, StopsQueue, Killed, Stop, TypeOK, queueVars
    <2>2. /\ main' \in {"checking", "sleeping", "noting", "unsubscribing", "stopping", "joining",
                       "killed", main}
          /\ subscribed' \in BOOLEAN /\ interrupted' \in BOOLEAN /\ early' \in BOOLEAN
      BY <1>9 DEF Subscribes, SubscribeFails, Interrupt, ChecksLoop, Wakes, NotesAdvertised,
                  Unsubscribes, StopsQueue, Killed, TypeOK
    <2> QED
      BY <2>1, <2>2 DEF TypeOK, PartsOK, HandOK, writerVars, memoryVars, threadVars
  <1>10. CASE Joins
    <2>1. noted' \in Nat
      BY <1>10 DEF Joins, NoteDropped, TypeOK
    <2> QED
      BY <1>10, <2>1 DEF Joins, NoteDropped, TypeOK, PartsOK, HandOK, queueVars, threadVars
  <1>11. CASE ClosesWriter
    <2>1. PICK complete \in BOOLEAN : FinishPart(complete)
      BY <1>11 DEF ClosesWriter
    <2>2. PartsOK'
      BY <2>1, PartsStay
    <2>3. TypeOK' /\ HandOK'
      BY <1>11, <2>1 DEF ClosesWriter, FinishPart, TypeOK, HandOK, queueVars, threadVars
    <2> QED
      BY <2>2, <2>3
  <1>12. CASE WritesLastIndex \/ ClosesInvalid
    BY <1>12 DEF WritesLastIndex, ClosesInvalid, SyncAndSave, SaveAsIs, TypeOK, PartsOK, HandOK,
                 queueVars, threadVars, memoryVars
  <1>13. CASE RunsReindex
    BY <1>13 DEF RunsReindex, TypeOK, PartsOK, HandOK, queueVars, memoryVars, mainVars, threadVars
  <1>14. CASE UNCHANGED vars
    BY <1>14 DEF vars, TypeOK, PartsOK, HandOK, queueVars, writerVars, memoryVars, mainVars, threadVars
  <1> QED
    BY <1>1, <1>2, <1>3, <1>4, <1>5, <1>6, <1>7, <1>8, <1>9, <1>10, <1>11, <1>12, <1>13, <1>14
       DEF Next, WriterThread, MainThread

\* The recorder keeps its types and its queue stays within its capacity.
THEOREM Typing == Spec => []TypeOK
  <1>1. Typed => TypeOK
    BY DEF Typed
  <1> QED
    BY <1>1, TypedInit, TypedStep, PTL DEF Spec
-----------------------------------------------------------------------------
(* What a step leaves alone, for the two invariants that count messages.      *)

counters == <<received, queue, dropped, hand, count>>

\* Three actions touch the counters of messages.
LEMMA CountersMove ==
  [Next]_vars => Arrive \/ WriterPops \/ WriterAppends \/ UNCHANGED counters
  <1> SUFFICES ASSUME [Next]_vars, ~ Arrive, ~ WriterPops, ~ WriterAppends
               PROVE  UNCHANGED counters
    OBVIOUS
  <1> USE DEF counters, queueVars, writerVars, memoryVars, threadVars
  <1>1. CASE WriterStops \/ WriterFinishesPart \/ WriterSavesIndex \/ WriterOpensPart \/ WriterFails
    BY <1>1 DEF WriterStops, WriterFinishesPart, WriterSavesIndex, WriterOpensPart, WriterFails,
                FinishPart, SyncAndSave, OpenPart, Invalidate
  <1>2. CASE \/ Subscribes \/ SubscribeFails \/ Interrupt \/ ChecksLoop \/ Wakes \/ NotesAdvertised
             \/ Unsubscribes \/ StopsQueue \/ Killed
    BY <1>2 DEF Subscribes, SubscribeFails, Interrupt, ChecksLoop, Wakes, NotesAdvertised,
                Unsubscribes, StopsQueue, Killed, Stop
  <1>3. CASE Joins \/ ClosesWriter \/ WritesLastIndex \/ ClosesInvalid \/ RunsReindex
    BY <1>3 DEF Joins, ClosesWriter, WritesLastIndex, ClosesInvalid, RunsReindex, NoteDropped,
                FinishPart, SyncAndSave, SaveAsIs
  <1>4. CASE UNCHANGED vars
    BY <1>4 DEF vars
  <1> QED
    BY <1>1, <1>2, <1>3, <1>4 DEF Next, WriterThread, MainThread
-----------------------------------------------------------------------------
(* Every message a callback counted is written, queued, in the writer         *)
(* thread's hand or counted as dropped.                                       *)

\* Nothing has been received when the recorder starts.
LEMMA AccountedInit == Init => EveryMessageAccountedFor
  BY DEF Init, QueueInit, WriterInit, EveryMessageAccountedFor, InHand

\* Each step moves a message from one of the four places to another, or adds one
\* to a place and to the count of those received.
LEMMA AccountedStep ==
  Typed /\ EveryMessageAccountedFor /\ [Next]_vars => EveryMessageAccountedFor'
  <1> SUFFICES ASSUME Typed, EveryMessageAccountedFor, [Next]_vars
               PROVE  EveryMessageAccountedFor'
    OBVIOUS
  <1>0. /\ queue \in Seq(Stamped) /\ Len(queue) <= Capacity
        /\ received \in Nat /\ dropped \in Nat /\ count \in Nat
    BY DEF Typed, TypeOK
  <1>1. CASE Arrive
    <2>1. PICK t \in Topics : Push([n |-> received + 1, topic |-> t])
      BY <1>1 DEF Arrive
    <2>2. [n |-> received + 1, topic |-> t] \in Stamped
      BY <1>0 DEF Stamped
    <2>3. Len(queue') \in Nat /\ dropped' \in Nat /\ Len(queue') + dropped' = Len(queue) + dropped + 1
      BY <1>0, <2>1, <2>2, PushBounded
    <2>4. received' = received + 1 /\ UNCHANGED <<count, hand>>
      BY <1>1 DEF Arrive, writerVars, memoryVars, threadVars
    <2>5. InHand' = InHand /\ InHand \in Nat
      BY <2>4 DEF InHand
    <2> QED
      BY <1>0, <2>3, <2>4, <2>5 DEF EveryMessageAccountedFor
  <1>2. CASE WriterPops
    <2>1. Len(queue') = Len(queue) - 1 /\ UNCHANGED <<dropped, count, received>>
      BY <1>0, <1>2, PopTakesOne DEF WriterPops, writerVars, memoryVars
    <2>2. hand = None /\ hand' # None
      BY <1>0, <1>2, PopTakesOne, NoneAssumption DEF WriterPops, Typed, HandOK, Working, Stamped
    <2> QED
      BY <1>0, <2>1, <2>2 DEF EveryMessageAccountedFor, InHand
  <1>3. CASE WriterAppends
    <2>1. hand # None /\ hand' = None /\ count' = count + 1 /\ UNCHANGED <<queue, dropped, received>>
      BY <1>3 DEF WriterAppends, WriteMessage, Typed, HandOK, Working, queueVars
    <2> QED
      BY <1>0, <2>1 DEF EveryMessageAccountedFor, InHand
  <1>4. CASE UNCHANGED counters
    BY <1>4 DEF EveryMessageAccountedFor, InHand, counters
  <1> QED
    BY <1>1, <1>2, <1>3, <1>4, CountersMove

\* No message disappears uncounted, whatever fails and however full the queue.
THEOREM EveryMessageCounted == Spec => []EveryMessageAccountedFor
  <1> QED
    BY TypedInit, TypedStep, AccountedInit, AccountedStep, PTL DEF Spec
-----------------------------------------------------------------------------
(* A recording stopped by its user: callbacks, queue and thread end in that   *)
(* order, so nothing arrives after the drain and the drops are noted last.    *)

Ending == {"closing", "indexing", "exited"}

DrainedOnce ==
  /\ ~ early /\ (stopped \/ main \in {"stopping", "joining"} \union Ending) => ~ subscribed
  /\ stopped => main \in {"joining", "killed"} \union Ending
  /\ main \in Ending => thread = "done"
  /\ ~ early /\ ~ failed /\ thread = "done" => stopped /\ queue = << >>
  /\ main \notin Ending \union {"killed"} => noted = 0
  /\ ~ early /\ main \in Ending => noted = dropped

\* The recorder starts with the queue running and nothing noted.
LEMMA DrainedOnceInit == Init => DrainedOnce
  BY DEF Init, QueueInit, WriterInit, DrainedOnce, Ending

\* No step reopens what an earlier one of the shutdown has closed.
LEMMA DrainedOnceStep == Typed /\ DrainedOnce /\ [Next]_vars => DrainedOnce'
  <1> SUFFICES ASSUME Typed, DrainedOnce, [Next]_vars PROVE DrainedOnce'
    OBVIOUS
  <1> USE DEF DrainedOnce, Ending
  <1>1. CASE Arrive
    <2>1. subscribed /\ UNCHANGED <<stopped, noted, mainVars, threadVars>>
      BY <1>1 DEF Arrive, Push, writerVars, memoryVars
    <2>2. early \/ (~ stopped /\ main \notin {"stopping", "joining"} \union Ending)
      BY <2>1
    <2> QED
      BY <1>1, <2>1, <2>2 DEF mainVars, threadVars, Arrive, Alive
  <1>2. CASE WriterPops
    BY <1>2 DEF WriterPops, Pop, writerVars, memoryVars, mainVars, Alive
  <1>3. CASE WriterStops
    BY <1>3 DEF WriterStops, PopEnds, queueVars, writerVars, memoryVars, mainVars
  <1>4. CASE WriterFinishesPart \/ WriterSavesIndex \/ WriterOpensPart \/ WriterAppends \/ WriterFails
    <2>1. /\ UNCHANGED <<stopped, queue, dropped, noted, mainVars>>
          /\ thread # "done" /\ (thread' = "done" => failed')
      BY <1>4 DEF WriterFinishesPart, WriterSavesIndex, WriterOpensPart, WriterAppends, WriterFails,
                  FinishPart, SyncAndSave, OpenPart, WriteMessage, Invalidate, queueVars, memoryVars
    <2> QED
      BY <2>1 DEF mainVars
  <1>5. CASE Subscribes \/ SubscribeFails \/ Interrupt \/ ChecksLoop \/ Wakes \/ NotesAdvertised
    BY <1>5 DEF Subscribes, SubscribeFails, Interrupt, ChecksLoop, Wakes, NotesAdvertised, Stop,
                queueVars, writerVars, memoryVars, threadVars
  <1>6. CASE Unsubscribes \/ StopsQueue \/ Killed
    BY <1>6 DEF Unsubscribes, StopsQueue, Killed, Stop, queueVars, writerVars, memoryVars, threadVars
  <1>7. CASE Joins
    BY <1>7 DEF Joins, NoteDropped, queueVars, threadVars, Typed, TypeOK
  <1>8. CASE ClosesWriter \/ WritesLastIndex \/ ClosesInvalid
    <2>1. /\ UNCHANGED <<stopped, queue, dropped, noted, thread, failed, early, subscribed>>
          /\ main \in Ending /\ main' \in Ending
      BY <1>8 DEF ClosesWriter, WritesLastIndex, ClosesInvalid, FinishPart, SyncAndSave, SaveAsIs,
                  queueVars, memoryVars, threadVars
    <2> QED
      BY <2>1
  <1>9. CASE RunsReindex
    BY <1>9 DEF RunsReindex, queueVars, memoryVars, mainVars, threadVars
  <1>10. CASE UNCHANGED vars
    BY <1>10 DEF vars, queueVars, writerVars, memoryVars, mainVars, threadVars
  <1> QED
    BY <1>1, <1>2, <1>3, <1>4, <1>5, <1>6, <1>7, <1>8, <1>9, <1>10
       DEF Next, WriterThread, MainThread

\* An interrupted recording has written or noted as dropped all it received.
LEMMA StoppedHasAll ==
  ASSUME Typed, EveryMessageAccountedFor, DrainedOnce, main = "exited", ~ failed, ~ early
  PROVE  received = count + noted
  <1>1. thread = "done" /\ queue = << >> /\ noted = dropped
    BY DEF DrainedOnce, Ending
  <1>2. hand = None
    BY <1>1 DEF Typed, HandOK, Working
  <1> QED
    BY <1>1, <1>2 DEF EveryMessageAccountedFor, InHand, Typed, TypeOK
-----------------------------------------------------------------------------
(* Which messages there are, and where.                                       *)

SameMessages == /\ DOMAIN parts' = DOMAIN parts
                /\ \A i \in DOMAIN parts : parts'[i].messages = parts[i].messages

\* Closing a part changes none of its messages.
LEMMA FinishKeepsMessages ==
  ASSUME PartsOK, NEW complete \in BOOLEAN, FinishPart(complete)
  PROVE  SameMessages
  <1> DEFINE last == Len(parts)
             ended == [parts[last] EXCEPT !.closed = complete,
               !.flushed = IF complete THEN Len(parts[last].messages) ELSE parts[last].flushed]
  <1>1. last \in DOMAIN parts /\ parts[last] \in PartType
    BY DEF PartsOK
  <1>2. ended.messages = parts[last].messages
    BY <1>1 DEF PartType
  <1>3. parts' = [parts EXCEPT ![last] = ended]
    BY DEF FinishPart
  <1> HIDE DEF ended
  <1> QED
    BY <1>1, <1>2, <1>3 DEF SameMessages, PartsOK

\* A new part is empty and comes last.
LEMMA OpenedIsEmpty ==
  ASSUME PartsOK, OpenPart
  PROVE  /\ DOMAIN parts' = DOMAIN parts \union {Len(parts) + 1}
         /\ \A i \in DOMAIN parts : parts'[i] = parts[i]
         /\ parts'[Len(parts) + 1].messages = << >>
  BY DEF PartsOK, OpenPart, Part

\* A written message comes last in the last part.
LEMMA WrittenComesLast ==
  ASSUME PartsOK, NEW m \in Stamped, NEW flush \in BOOLEAN, WriteMessage(m, flush)
  PROVE  /\ DOMAIN parts' = DOMAIN parts /\ Len(parts) \in DOMAIN parts
         /\ \A i \in DOMAIN parts \ {Len(parts)} : parts'[i] = parts[i]
         /\ parts'[Len(parts)].messages = Append(parts[Len(parts)].messages, m)
  <1> DEFINE last == Len(parts)
             grown == Append(parts[last].messages, m)
             longer == [parts[last] EXCEPT !.messages = grown,
                          !.flushed = IF flush THEN Len(grown) ELSE parts[last].flushed]
  <1>1. last \in DOMAIN parts /\ parts[last] \in PartType
    BY DEF PartsOK
  <1>2. longer.messages = grown
    BY <1>1 DEF PartType
  <1>3. parts' = [parts EXCEPT ![last] = longer]
    BY DEF WriteMessage
  <1> HIDE DEF longer
  <1> QED
    BY <1>1, <1>2, <1>3 DEF PartsOK

\* Two actions touch the messages of the parts.
LEMMA MessagesMove ==
  Typed /\ [Next]_vars => WriterOpensPart \/ WriterAppends \/ SameMessages
  <1> SUFFICES ASSUME Typed, [Next]_vars, ~ WriterOpensPart, ~ WriterAppends
               PROVE  SameMessages
    OBVIOUS
  <1>1. CASE WriterFinishesPart \/ ClosesWriter
    BY <1>1, FinishKeepsMessages DEF WriterFinishesPart, ClosesWriter, Typed
  <1>2. CASE UNCHANGED parts
    BY <1>2 DEF SameMessages
  <1>3. CASE Arrive \/ WriterPops \/ WriterStops \/ WriterSavesIndex \/ WriterFails
    BY <1>2, <1>3 DEF Arrive, WriterPops, WriterStops, WriterSavesIndex, WriterFails, SyncAndSave,
                      Invalidate, writerVars
  <1>4. CASE \/ Subscribes \/ SubscribeFails \/ Interrupt \/ ChecksLoop \/ Wakes \/ NotesAdvertised
             \/ Unsubscribes \/ StopsQueue \/ Killed
    BY <1>2, <1>4 DEF Subscribes, SubscribeFails, Interrupt, ChecksLoop, Wakes, NotesAdvertised,
                      Unsubscribes, StopsQueue, Killed, writerVars
  <1>5. CASE Joins \/ WritesLastIndex \/ ClosesInvalid \/ RunsReindex
    BY <1>2, <1>5 DEF Joins, WritesLastIndex, ClosesInvalid, RunsReindex, NoteDropped, SyncAndSave,
                      SaveAsIs
  <1>6. CASE UNCHANGED vars
    BY <1>2, <1>6 DEF vars, writerVars
  <1> QED
    BY <1>1, <1>3, <1>4, <1>5, <1>6 DEF Next, WriterThread, MainThread
-----------------------------------------------------------------------------
(* The queue holds the latest arrivals, one after the other.                  *)

QueueIsLatest == \A i \in 1 .. Len(queue) : queue[i].n = received - Len(queue) + i

\* What push() does to the positions of the queue.
LEMMA PushShifts ==
  ASSUME NEW m, queue \in Seq(Stamped), Len(queue) <= Capacity, Push(m)
  PROVE  IF Full THEN /\ Len(queue') = Len(queue) /\ Len(queue) = Capacity
                      /\ \A i \in 1 .. Len(queue) - 1 : queue'[i] = queue[i + 1]
                      /\ queue'[Len(queue)] = m
                 ELSE /\ Len(queue') = Len(queue) + 1
                      /\ \A i \in 1 .. Len(queue) : queue'[i] = queue[i]
                      /\ queue'[Len(queue) + 1] = m
  BY CapacityAssumption DEF Push, Full

\* A push, a pop and a drop keep the queue a run of consecutive arrivals.
LEMMA LatestStep == Typed /\ QueueIsLatest /\ [Next]_vars => QueueIsLatest'
  <1> SUFFICES ASSUME Typed, QueueIsLatest, [Next]_vars PROVE QueueIsLatest'
    OBVIOUS
  <1>0. queue \in Seq(Stamped) /\ Len(queue) <= Capacity /\ received \in Nat
    BY DEF Typed, TypeOK
  <1>1. CASE Arrive
    <2>1. PICK t \in Topics : Push([n |-> received + 1, topic |-> t])
      BY <1>1 DEF Arrive
    <2>2. received' = received + 1
      BY <1>1 DEF Arrive
    <2> DEFINE m == [n |-> received + 1, topic |-> t]
    <2>3. m.n = received + 1
      OBVIOUS
    <2>4. Push(m)
      BY <2>1
    <2> HIDE DEF m
    <2>5. Len(queue) \in Nat
      BY <1>0
    <2>6. CASE Full
      <3>1. /\ Len(queue') = Len(queue)
            /\ \A i \in 1 .. Len(queue) - 1 : queue'[i] = queue[i + 1]
            /\ queue'[Len(queue)] = m
        BY <1>0, <2>4, <2>6, PushShifts
      <3>2. ASSUME NEW i \in 1 .. Len(queue')
            PROVE  queue'[i].n = received' - Len(queue') + i
        <4>1. CASE i = Len(queue)
          BY <1>0, <2>2, <2>3, <3>1, <4>1
        <4>2. CASE i # Len(queue)
          <5>1. i + 1 \in 1 .. Len(queue) /\ queue'[i] = queue[i + 1]
            BY <2>5, <3>1, <3>2, <4>2
          <5>2. queue[i + 1].n = received - Len(queue) + (i + 1)
            BY <5>1 DEF QueueIsLatest
          <5> QED
            BY <1>0, <2>2, <2>5, <3>1, <5>1, <5>2
        <4> QED
          BY <4>1, <4>2
      <3> QED
        BY <3>2 DEF QueueIsLatest
    <2>7. CASE ~ Full
      <3>1. /\ Len(queue') = Len(queue) + 1
            /\ \A i \in 1 .. Len(queue) : queue'[i] = queue[i]
            /\ queue'[Len(queue) + 1] = m
        BY <1>0, <2>4, <2>7, PushShifts
      <3>2. ASSUME NEW i \in 1 .. Len(queue')
            PROVE  queue'[i].n = received' - Len(queue') + i
        <4>1. CASE i = Len(queue) + 1
          BY <1>0, <2>2, <2>3, <2>5, <3>1, <4>1
        <4>2. CASE i # Len(queue) + 1
          <5>1. i \in 1 .. Len(queue) /\ queue'[i] = queue[i]
            BY <2>5, <3>1, <3>2, <4>2
          <5>2. queue[i].n = received - Len(queue) + i
            BY <5>1 DEF QueueIsLatest
          <5> QED
            BY <1>0, <2>2, <2>5, <3>1, <5>1, <5>2
        <4> QED
          BY <4>1, <4>2
      <3> QED
        BY <3>2 DEF QueueIsLatest
    <2> QED
      BY <2>6, <2>7
  <1>2. CASE WriterPops
    <2>1. /\ Len(queue') = Len(queue) - 1 /\ received' = received
          /\ \A i \in 1 .. Len(queue) - 1 : queue'[i] = queue[i + 1]
      BY <1>0, <1>2 DEF WriterPops, Pop
    <2> QED
      BY <1>0, <2>1 DEF QueueIsLatest
  <1>3. CASE WriterAppends
    BY <1>3 DEF WriterAppends, QueueIsLatest, queueVars
  <1>4. CASE UNCHANGED counters
    BY <1>4 DEF QueueIsLatest, counters
  <1> QED
    BY <1>1, <1>2, <1>3, <1>4, CountersMove
-----------------------------------------------------------------------------
(* The freshest messages are never the ones dropped.                          *)

Recorded(n) == \E i \in DOMAIN parts : Holds(parts[i].messages, n)
Kept(n) == Holds(queue, n) \/ (hand # None /\ hand.n = n) \/ Recorded(n)

\* A part holds stamped messages.
LEMMA PartHoldsMessages ==
  ASSUME PartsOK, NEW i \in DOMAIN parts
  PROVE  parts[i].messages \in Seq(Stamped)
  <1>1. parts[i] \in PartType
    BY DEF PartsOK
  <1> QED
    BY <1>1 DEF PartType

\* What is recorded stays recorded.
LEMMA RecordedStays ==
  ASSUME Typed, [Next]_vars, NEW n, Recorded(n)
  PROVE  Recorded(n)'
  <1>0. PICK i \in DOMAIN parts : Holds(parts[i].messages, n)
    BY DEF Recorded
  <1>1. CASE WriterOpensPart
    BY <1>0, <1>1, OpenedIsEmpty DEF WriterOpensPart, Typed, Recorded
  <1>2. CASE WriterAppends
    <2>1. PICK flush \in BOOLEAN : WriteMessage(hand, flush)
      BY <1>2 DEF WriterAppends
    <2>2. hand \in Stamped
      BY <1>2 DEF WriterAppends, Typed, HandOK, TypeOK, Working
    <2>3. CASE i # Len(parts)
      BY <1>0, <2>1, <2>2, <2>3, WrittenComesLast DEF Recorded, Typed
    <2>4. CASE i = Len(parts)
      <3>1. parts[i].messages \in Seq(Stamped)
        BY <1>0, PartHoldsMessages DEF Typed
      <3>2. /\ parts'[i].messages = Append(parts[i].messages, hand)
            /\ i \in DOMAIN parts'
        BY <1>0, <2>1, <2>2, <2>4, WrittenComesLast DEF Typed
      <3>3. Holds(parts'[i].messages, n)
        BY <1>0, <3>1, <3>2 DEF Holds
      <3> QED
        BY <3>2, <3>3 DEF Recorded
    <2> QED
      BY <2>3, <2>4
  <1>3. CASE SameMessages
    BY <1>0, <1>3 DEF Recorded, SameMessages
  <1> QED
    BY <1>1, <1>2, <1>3, MessagesMove

\* The message that makes room is Capacity arrivals old; a pop or a write moves
\* one to the next place.
LEMMA FreshestStep ==
  Typed /\ QueueIsLatest /\ FreshestKept /\ [Next]_vars => FreshestKept'
  <1> SUFFICES ASSUME Typed, QueueIsLatest, FreshestKept, [Next]_vars,
                      NEW n \in 1 .. received', n + Capacity > received'
               PROVE  Kept(n)'
    BY DEF FreshestKept, Kept, Recorded
  <1>0. /\ queue \in Seq(Stamped) /\ Len(queue) <= Capacity /\ received \in Nat
        /\ Capacity \in Nat \ {0} /\ received' \in Nat
    BY CapacityAssumption, TypedStep DEF Typed, TypeOK
  <1>1. ASSUME n <= received, received <= received' PROVE Kept(n)
    BY <1>0, <1>1 DEF FreshestKept, Kept, Recorded
  <1>2. CASE Arrive
    <2>1. PICK t \in Topics : Push([n |-> received + 1, topic |-> t])
      BY <1>2 DEF Arrive
    <2>2. received' = received + 1 /\ hand' = hand
      BY <1>2 DEF Arrive, threadVars
    <2> DEFINE m == [n |-> received + 1, topic |-> t]
    <2>3. m.n = received + 1 /\ Push(m)
      BY <2>1
    <2> HIDE DEF m
    <2>4. CASE n = received + 1
      <3>1. Holds(queue', n)
        BY <1>0, <2>3, <2>4, PushShifts DEF Holds
      <3> QED
        BY <3>1 DEF Kept
    <2>5. CASE n <= received /\ Holds(queue, n)
      <3>1. PICK i \in 1 .. Len(queue) : queue[i].n = n /\ n = received - Len(queue) + i
        <4>1. PICK i \in DOMAIN queue : queue[i].n = n
          BY <2>5 DEF Holds
        <4>2. i \in 1 .. Len(queue)
          BY <1>0
        <4>3. queue[i].n = received - Len(queue) + i
          BY <4>2 DEF QueueIsLatest
        <4> QED
          BY <4>1, <4>2, <4>3
      <3>2. CASE Full
        <4>1. i - 1 \in 1 .. Len(queue) - 1 /\ Len(queue') = Len(queue)
          BY <1>0, <2>2, <2>3, <3>1, <3>2, PushShifts
        <4>2. queue'[i - 1] = queue[(i - 1) + 1]
          BY <1>0, <2>3, <3>2, <4>1, PushShifts
        <4>3. (i - 1) + 1 = i
          BY <3>1
        <4>4. DOMAIN queue' = 1 .. Len(queue')
          BY <1>0, <2>3, <3>2 DEF Push
        <4>5. Holds(queue', n)
          BY <3>1, <4>1, <4>2, <4>3, <4>4, <1>0 DEF Holds
        <4> QED
          BY <4>5 DEF Kept
      <3>3. CASE ~ Full
        <4>1. queue'[i] = queue[i] /\ i \in DOMAIN queue'
          BY <1>0, <2>3, <3>1, <3>3 DEF Push
        <4>2. Holds(queue', n)
          BY <3>1, <4>1 DEF Holds
        <4> QED
          BY <4>2 DEF Kept
      <3> QED
        BY <3>2, <3>3
    <2>6. CASE n <= received /\ ~ Holds(queue, n)
      BY <1>0, <1>1, <2>2, <2>6, RecordedStays DEF Kept
    <2> QED
      BY <1>0, <2>2, <2>4, <2>5, <2>6
  <1>3. CASE WriterPops
    <2>1. /\ Len(queue') = Len(queue) - 1 /\ received' = received /\ hand' = Head(queue)
          /\ queue' \in Seq(Stamped) /\ queue # << >>
          /\ \A i \in 1 .. Len(queue) - 1 : queue'[i] = queue[i + 1]
      BY <1>0, <1>3 DEF WriterPops, Pop
    <2>2. hand = None /\ hand' # None
      BY <1>0, <1>3, PopTakesOne, NoneAssumption DEF WriterPops, Typed, HandOK, Working, Stamped
    <2>3. Kept(n)
      BY <1>0, <1>1, <2>1
    <2>4. CASE Holds(queue, n)
      <3>1. PICK i \in 1 .. Len(queue) : queue[i].n = n
        BY <1>0, <2>4 DEF Holds
      <3>2. CASE i = 1
        BY <1>0, <2>1, <2>2, <3>1, <3>2 DEF Kept
      <3>3. CASE i # 1
        <4>1. i - 1 \in DOMAIN queue' /\ queue'[i - 1] = queue[i]
          BY <1>0, <2>1, <3>1, <3>3
        <4>2. Holds(queue', n)
          BY <3>1, <4>1 DEF Holds
        <4> QED
          BY <4>2 DEF Kept
      <3> QED
        BY <3>2, <3>3
    <2>5. CASE ~ Holds(queue, n)
      BY <2>2, <2>3, <2>5, RecordedStays DEF Kept
    <2> QED
      BY <2>4, <2>5
  <1>4. CASE WriterAppends
    <2>1. /\ received' = received /\ queue' = queue /\ hand \in Stamped
          /\ \E flush \in BOOLEAN : WriteMessage(hand, flush)
      BY <1>4 DEF WriterAppends, queueVars, Typed, HandOK, TypeOK, Working
    <2>2. Kept(n)
      BY <1>0, <1>1, <2>1
    <2>3. CASE hand.n = n
      <3>1. /\ Len(parts) \in DOMAIN parts'
            /\ parts'[Len(parts)].messages = Append(parts[Len(parts)].messages, hand)
        BY <2>1, WrittenComesLast DEF Typed
      <3>2. parts[Len(parts)].messages \in Seq(Stamped)
        BY PartHoldsMessages DEF Typed, PartsOK
      <3>3. Holds(Append(parts[Len(parts)].messages, hand), n)
        <4> DEFINE ms == parts[Len(parts)].messages
        <4>1. Len(ms) + 1 \in DOMAIN Append(ms, hand) /\ Append(ms, hand)[Len(ms) + 1] = hand
          BY <2>1, <3>2
        <4> QED
          BY <2>3, <4>1 DEF Holds
      <3> QED
        BY <3>1, <3>3 DEF Kept, Recorded
    <2>4. CASE hand.n # n
      BY <2>1, <2>2, <2>4, RecordedStays DEF Kept
    <2> QED
      BY <2>3, <2>4
  <1>5. CASE UNCHANGED counters
    BY <1>0, <1>1, <1>5, RecordedStays DEF Kept, counters
  <1> QED
    BY <1>2, <1>3, <1>4, <1>5, CountersMove

\* However the drops fall, the newest Capacity messages are queued, in hand or
\* recorded.
THEOREM FreshestAreKept == Spec => []FreshestKept
  <1>1. Init => QueueIsLatest /\ FreshestKept
    BY DEF Init, QueueInit, QueueIsLatest, FreshestKept
  <1> QED
    BY <1>1, TypedInit, TypedStep, LatestStep, FreshestStep, PTL DEF Spec
-----------------------------------------------------------------------------
(* Messages are recorded in the order they arrived.  Everything recorded came *)
(* before what is in hand, and that before everything queued.                 *)

Before(n) == IF hand = None THEN n <= received - Len(queue) ELSE n < hand.n

RecordedBefore ==
  \A i \in DOMAIN parts : \A k \in DOMAIN parts[i].messages : Before(parts[i].messages[k].n)

HandBefore == hand # None => hand.n <= received - Len(queue)

Ordered == RecordedBefore /\ HandBefore /\ InArrivalOrder

\* The boundary between the recorded and the rest only moves up.
LEMMA BoundaryMovesUp ==
  ASSUME Typed, QueueIsLatest, HandBefore, [Next]_vars
  PROVE  HandBefore' /\ \A n \in Nat : Before(n) => Before(n)'
  <1>0. /\ queue \in Seq(Stamped) /\ Len(queue) <= Capacity /\ received \in Nat
        /\ Capacity \in Nat \ {0} /\ hand \in Stamped \union {None}
    BY CapacityAssumption DEF Typed, TypeOK
  <1>a. hand # None => hand.n \in Nat
    BY <1>0 DEF Stamped
  <1>1. CASE Arrive
    <2>1. PICK t \in Topics : Push([n |-> received + 1, topic |-> t])
      BY <1>1 DEF Arrive
    <2>2. received' = received + 1 /\ hand' = hand
      BY <1>1 DEF Arrive, threadVars
    <2>3. Len(queue') \in Nat /\ Len(queue') <= Len(queue) + 1
      <3> DEFINE m == [n |-> received + 1, topic |-> t]
      <3>1. Push(m)
        BY <2>1
      <3> HIDE DEF m
      <3> QED
        BY <1>0, <3>1, PushShifts
    <2> QED
      BY <1>0, <1>a, <2>2, <2>3 DEF Before, HandBefore
  <1>2. CASE WriterPops
    <2>1. /\ Len(queue') = Len(queue) - 1 /\ received' = received /\ hand' = queue[1]
          /\ 1 \in 1 .. Len(queue)
      BY <1>0, <1>2 DEF WriterPops, Pop
    <2>2. hand = None /\ hand' # None
      BY <1>0, <1>2, PopTakesOne, NoneAssumption DEF WriterPops, Typed, HandOK, Working, Stamped
    <2>3. queue[1].n = received - Len(queue) + 1
      BY <2>1 DEF QueueIsLatest
    <2> QED
      BY <1>0, <2>1, <2>2, <2>3 DEF Before, HandBefore
  <1>3. CASE WriterAppends
    <2>1. hand # None /\ hand' = None /\ UNCHANGED <<queue, received>>
      BY <1>3 DEF WriterAppends, queueVars, Typed, HandOK, Working
    <2> QED
      BY <1>0, <1>a, <2>1 DEF Before, HandBefore
  <1>4. CASE UNCHANGED counters
    BY <1>4 DEF Before, HandBefore, counters
  <1> QED
    BY <1>1, <1>2, <1>3, <1>4, CountersMove

\* Messages are numbered.
LEMMA Numbered ==
  ASSUME PartsOK, NEW i \in DOMAIN parts, NEW k \in DOMAIN parts[i].messages
  PROVE  parts[i].messages[k].n \in Nat
  <1>1. parts[i].messages[k] \in Stamped
    BY PartHoldsMessages
  <1> QED
    BY <1>1 DEF Stamped

\* A written message comes after all those recorded; every other step leaves
\* what is recorded alone.
LEMMA OrderedStep == Typed /\ QueueIsLatest /\ Ordered /\ [Next]_vars => Ordered'
  <1> SUFFICES ASSUME Typed, QueueIsLatest, Ordered, [Next]_vars PROVE Ordered'
    OBVIOUS
  <1>0. PartsOK /\ RecordedBefore /\ HandBefore /\ InArrivalOrder
    BY DEF Ordered, Typed
  <1>1. HandBefore' /\ \A n \in Nat : Before(n) => Before(n)'
    BY <1>0, BoundaryMovesUp
  <1>2. ASSUME NEW i \in DOMAIN parts, NEW k \in DOMAIN parts[i].messages,
               NEW n, n = parts[i].messages[k].n
        PROVE  Before(n)'
    BY <1>0, <1>1, <1>2, Numbered DEF RecordedBefore
  <1>3. CASE WriterOpensPart
    <2>1. ASSUME NEW i \in DOMAIN parts', NEW k \in DOMAIN parts'[i].messages
          PROVE  i \in DOMAIN parts /\ parts'[i] = parts[i]
      BY <1>0, <1>3, OpenedIsEmpty DEF WriterOpensPart
    <2>2. RecordedBefore'
      BY <1>2, <2>1 DEF RecordedBefore
    <2>3. InArrivalOrder'
      BY <1>0, <2>1 DEF InArrivalOrder
    <2> QED
      BY <1>1, <2>2, <2>3 DEF Ordered
  <1>4. CASE SameMessages
    <2>1. RecordedBefore'
      BY <1>2, <1>4 DEF RecordedBefore, SameMessages
    <2>2. InArrivalOrder'
      BY <1>0, <1>4 DEF InArrivalOrder, SameMessages
    <2> QED
      BY <1>1, <2>1, <2>2 DEF Ordered
  <1>5. CASE WriterAppends
    <2> DEFINE last == Len(parts)
               top  == Len(parts[last].messages) + 1
    <2>1. /\ hand \in Stamped /\ hand # None /\ hand' = None /\ UNCHANGED <<queue, received>>
          /\ \E flush \in BOOLEAN : WriteMessage(hand, flush)
      BY <1>5 DEF WriterAppends, queueVars, Typed, HandOK, TypeOK, Working
    <2>2. /\ DOMAIN parts' = DOMAIN parts /\ last \in DOMAIN parts
          /\ \A i \in DOMAIN parts \ {last} : parts'[i] = parts[i]
          /\ parts'[last].messages = Append(parts[last].messages, hand)
      BY <1>0, <2>1, WrittenComesLast
    <2>3. /\ DOMAIN parts'[last].messages = DOMAIN parts[last].messages \union {top}
          /\ \A k \in DOMAIN parts[last].messages :
               parts'[last].messages[k] = parts[last].messages[k] /\ k < top
          /\ parts'[last].messages[top] = hand
      BY <1>0, <2>2, PartHoldsMessages
    <2>4. \A i \in DOMAIN parts : i \in Nat /\ i <= last
      BY <1>0 DEF PartsOK
    <2>5. ASSUME NEW i \in DOMAIN parts', NEW k \in DOMAIN parts'[i].messages,
                 ~ (i = last /\ k = top)
          PROVE  /\ i \in DOMAIN parts /\ k \in DOMAIN parts[i].messages
                 /\ parts'[i].messages[k] = parts[i].messages[k]
      BY <2>2, <2>3, <2>5
    <2> HIDE DEF last, top
    <2>6. RecordedBefore'
      <3> SUFFICES ASSUME NEW i \in DOMAIN parts', NEW k \in DOMAIN parts'[i].messages,
                          NEW n, n = parts'[i].messages[k].n
                   PROVE  Before(n)'
        BY DEF RecordedBefore
      <3>1. CASE i = last /\ k = top
        BY <1>0, <2>1, <2>3, <3>1 DEF Before, HandBefore
      <3>2. CASE ~ (i = last /\ k = top)
        BY <1>2, <2>5, <3>2
      <3> QED
        BY <3>1, <3>2
    <2>7. InArrivalOrder'
      <3> SUFFICES ASSUME NEW i \in DOMAIN parts', NEW j \in DOMAIN parts',
                          NEW k \in DOMAIN parts'[i].messages, NEW l \in DOMAIN parts'[j].messages,
                          i < j \/ (i = j /\ k < l)
                   PROVE  parts'[i].messages[k].n < parts'[j].messages[l].n
        BY DEF InArrivalOrder
      <3>1. CASE i = last /\ k = top
        BY <2>2, <2>3, <2>4, <3>1
      <3>2. CASE ~ (i = last /\ k = top) /\ j = last /\ l = top
        <4>1. parts'[i].messages[k].n < hand.n
          BY <1>0, <2>1, <2>5, <3>2 DEF RecordedBefore, Before
        <4> QED
          BY <2>3, <3>2, <4>1
      <3>3. CASE ~ (i = last /\ k = top) /\ ~ (j = last /\ l = top)
        BY <1>0, <2>5, <3>3 DEF InArrivalOrder
      <3> QED
        BY <3>1, <3>2, <3>3
    <2> QED
      BY <1>1, <2>6, <2>7 DEF Ordered
  <1> QED
    BY <1>3, <1>4, <1>5, MessagesMove

\* However often the part rolls, the recording is in the order of arrival.
THEOREM RecordedInOrder == Spec => []InArrivalOrder
  <1>1. Init => QueueIsLatest /\ Ordered
    BY DEF Init, QueueInit, WriterInit, QueueIsLatest, Ordered, RecordedBefore, HandBefore,
           InArrivalOrder, Part
  <1>2. Ordered => InArrivalOrder
    BY DEF Ordered
  <1> QED
    BY <1>1, <1>2, TypedInit, TypedStep, LatestStep, OrderedStep, PTL DEF Spec
-----------------------------------------------------------------------------
(* What the index says of the parts, and what a kill leaves.                  *)

Entry == [number : Nat, messages : Nat, complete : BOOLEAN]

\* The last part is finished, or will not be written to any more.
Finished == thread \in {"save", "open"} \/ ~ valid \/ main \in {"indexing", "exited", "killed"}

PartsInv ==
  /\ indexed \in Seq(Entry)
  /\ failed <=> ~ valid
  /\ \A i \in DOMAIN parts : parts[i].number = i
  /\ \A i \in DOMAIN parts : parts[i].closed => parts[i].flushed = Len(parts[i].messages)
  /\ parts[Len(parts)].closed => Finished

\* An entry for a complete part describes it.
Describes(entry) ==
  entry.complete => /\ entry.number \in DOMAIN parts
                    /\ parts[entry.number].closed
                    /\ Len(OnDisk(parts[entry.number])) = entry.messages

\* The index describes the parts it lists, but for an entry that was cut off.
IndexDescribes ==
  index # NoIndex => \A j \in DOMAIN index.parts : CutOff(j) \/ Describes(index.parts[j])

Described == (\A j \in DOMAIN indexed : Describes(indexed[j])) /\ IndexDescribes

\* A part is closed, or its close failed and the recorder knows.
Known(i) == \/ parts[i].closed
            \/ /\ May("close")
               /\ \E j \in DOMAIN indexed : indexed[j].number = i /\ ~ indexed[j].complete

KillInv ==
  /\ \A i \in 1 .. Len(parts) - 1 : Known(i)
  /\ thread \in {"save", "open"} => Known(Len(parts))
  /\ (thread = "open" \/ Len(parts) > 1) /\ ~ May("save") /\ ~ May("flush") => index # NoIndex

DiskInv == PartsInv /\ Described /\ KillInv

LEMMA DiskInit == Init => DiskInv
  <1> SUFFICES ASSUME Init PROVE DiskInv
    OBVIOUS
  <1>1. /\ parts = <<Part(1)>> /\ Part(1).number = 1 /\ ~ Part(1).closed
        /\ indexed = << >> /\ index = NoIndex /\ thread = "pop" /\ valid /\ ~ failed
    BY DEF Init, WriterInit, Part
  <1>2. Len(parts) = 1 /\ DOMAIN parts = {1} /\ DOMAIN indexed = {}
    BY <1>1
  <1> QED
    BY <1>1, <1>2 DEF DiskInv, PartsInv, Described, IndexDescribes, KillInv

\* What is finished stays finished, until the next part is opened.
LEMMA FinishedStays ==
  ASSUME Typed, DrainedOnce, PartsInv, Finished, [Next]_vars, ~ WriterOpensPart
  PROVE  Finished'
  <1> USE DEF Finished
  <1>1. CASE WriterFinishesPart \/ WriterSavesIndex \/ WriterFails \/ WriterPops \/ WriterStops
    BY <1>1 DEF WriterFinishesPart, WriterSavesIndex, WriterFails, WriterPops, WriterStops, Invalidate,
                SyncAndSave, FinishPart, writerVars, memoryVars, mainVars
  <1>2. CASE WriterAppends
    BY <1>2 DEF WriterAppends, WriteMessage, mainVars, Alive, Typed, HandOK, PartsInv, DrainedOnce, Ending
  <1>3. CASE Arrive \/ RunsReindex
    BY <1>3 DEF Arrive, RunsReindex, writerVars, memoryVars, mainVars, threadVars
  <1>4. CASE \/ Subscribes \/ SubscribeFails \/ Interrupt \/ ChecksLoop \/ Wakes \/ NotesAdvertised
             \/ Unsubscribes \/ StopsQueue \/ Killed
    BY <1>4 DEF Subscribes, SubscribeFails, Interrupt, ChecksLoop, Wakes, NotesAdvertised,
                Unsubscribes, StopsQueue, Killed, writerVars, memoryVars, threadVars
  <1>5. CASE Joins \/ ClosesWriter \/ WritesLastIndex \/ ClosesInvalid
    BY <1>5 DEF Joins, ClosesWriter, WritesLastIndex, ClosesInvalid, NoteDropped, FinishPart,
                SyncAndSave, SaveAsIs, memoryVars, threadVars
  <1>6. CASE UNCHANGED vars
    BY <1>6 DEF vars, writerVars, memoryVars, mainVars, threadVars
  <1> QED
    BY <1>1, <1>2, <1>3, <1>4, <1>5, <1>6 DEF Next, WriterThread, MainThread

\* finishPart() closes a part that was open, and adds what it found to the index.
LEMMA FinishAdds ==
  ASSUME Typed, PartsInv, NEW complete \in BOOLEAN, FinishPart(complete)
  PROVE  LET last  == Len(parts)
             entry == [number |-> last, messages |-> Len(parts[last].messages), complete |-> complete]
         IN  /\ indexed' = Append(indexed, entry) /\ entry \in Entry
             /\ indexed' \in Seq(Entry)
             /\ Len(parts') = last /\ DOMAIN parts' = DOMAIN parts /\ last \in DOMAIN parts
             /\ \A i \in DOMAIN parts \ {last} : parts'[i] = parts[i]
             /\ parts'[last].number = last /\ parts'[last].closed = complete
             /\ parts'[last].messages = parts[last].messages
             /\ complete => parts'[last].flushed = Len(parts[last].messages)
             /\ ~ complete => parts'[last].flushed = parts[last].flushed
             /\ UNCHANGED <<index, valid>>
  <1> DEFINE last == Len(parts)
             entry == [number |-> last, messages |-> Len(parts[last].messages), complete |-> complete]
             ended == [parts[last] EXCEPT !.closed = complete,
               !.flushed = IF complete THEN Len(parts[last].messages) ELSE parts[last].flushed]
  <1>1. parts \in Seq(PartType) /\ last \in DOMAIN parts /\ parts[last] \in PartType /\ last \in Nat
    BY DEF Typed, PartsOK
  <1>2. parts[last].number = last /\ Len(parts[last].messages) \in Nat
    BY <1>1 DEF PartsInv, PartType
  <1>3. /\ ended.number = last /\ ended.closed = complete /\ ended.messages = parts[last].messages
        /\ complete => ended.flushed = Len(parts[last].messages)
        /\ ~ complete => ended.flushed = parts[last].flushed
    BY <1>1, <1>2 DEF PartType
  <1>4. parts' = [parts EXCEPT ![last] = ended] /\ indexed' = Append(indexed, entry)
    BY <1>2 DEF FinishPart
  <1>5. entry \in Entry
    BY <1>1, <1>2 DEF Entry
  <1>6. indexed' \in Seq(Entry)
    BY <1>4, <1>5 DEF PartsInv
  <1> HIDE DEF ended, entry
  <1>7. /\ Len(parts') = last /\ DOMAIN parts' = DOMAIN parts
        /\ \A i \in DOMAIN parts \ {last} : parts'[i] = parts[i]
        /\ parts'[last] = ended
    BY <1>1, <1>4
  <1> QED
    BY <1>1, <1>3, <1>4, <1>5, <1>6, <1>7 DEF FinishPart, entry
\* A part is finished once, while it is open.
LEMMA FinishKeepsDisk ==
  ASSUME Typed, DrainedOnce, DiskInv, UNCHANGED scenario, WriterFinishesPart \/ ClosesWriter
  PROVE  DiskInv'
  <1> DEFINE last == Len(parts)
  <1>0. last \in Nat \ {0} /\ DOMAIN parts = 1 .. last /\ parts[last] \in PartType
    BY DEF Typed, PartsOK
  <1>1. PICK complete \in BOOLEAN : FinishPart(complete) /\ (complete \/ May("close"))
    BY DEF WriterFinishesPart, ClosesWriter
  <1>2. /\ indexed' = Append(indexed, [number |-> last, messages |-> Len(parts[last].messages),
                                       complete |-> complete])
        /\ indexed' \in Seq(Entry) /\ indexed \in Seq(Entry)
        /\ Len(parts') = last /\ DOMAIN parts' = DOMAIN parts /\ last \in DOMAIN parts
        /\ \A i \in DOMAIN parts \ {last} : parts'[i] = parts[i]
        /\ parts'[last].number = last /\ parts'[last].closed = complete
        /\ parts'[last].messages = parts[last].messages
        /\ complete => parts'[last].flushed = Len(parts[last].messages)
        /\ UNCHANGED <<index, valid>>
    BY <1>1, FinishAdds DEF DiskInv, PartsInv
  <1>3. ~ Finished
    BY DEF WriterFinishesPart, ClosesWriter, Alive, Finished, DiskInv, PartsInv, DrainedOnce, Ending,
           Typed, HandOK
  <1>4. ~ parts[last].closed
    BY <1>3 DEF DiskInv, PartsInv
  <1>5. Finished' /\ failed' = failed
    BY DEF WriterFinishesPart, ClosesWriter, Finished, threadVars
  <1>6. PartsInv'
    BY <1>2, <1>5 DEF DiskInv, PartsInv
  <1>7. complete => Len(OnDisk(parts'[last])) = Len(parts[last].messages)
    <2>1. parts[last].messages \in Seq(Stamped)
      BY <1>0 DEF PartType
    <2> QED
      BY <1>2, <2>1 DEF OnDisk
  <1> DEFINE DescribesNext(entry) ==
               entry.complete => /\ entry.number \in DOMAIN parts'
                                 /\ parts'[entry.number].closed
                                 /\ Len(OnDisk(parts'[entry.number])) = entry.messages
             KnownNext(i) == \/ parts'[i].closed
                             \/ /\ May("close")
                                /\ \E j \in DOMAIN indexed' : indexed'[j].number = i /\ ~ indexed'[j].complete
  <1>8. \A entry : Describes(entry) => DescribesNext(entry)
    BY <1>2, <1>4 DEF Describes
  <1>9. Described'
    <2>1. \A j \in DOMAIN indexed' :
            \/ j \in DOMAIN indexed /\ indexed'[j] = indexed[j]
            \/ indexed'[j] = [number |-> last, messages |-> Len(parts[last].messages),
                              complete |-> complete]
      BY <1>2
    <2>2. DescribesNext([number |-> last, messages |-> Len(parts[last].messages), complete |-> complete])
      BY <1>2, <1>7
    <2> HIDE DEF DescribesNext
    <2>3. \A j \in DOMAIN indexed' : DescribesNext(indexed'[j])
      BY <1>8, <2>1, <2>2 DEF DiskInv, Described
    <2>4. index' # NoIndex =>
            \A j \in DOMAIN index'.parts : CutOff(j)' \/ DescribesNext(index'.parts[j])
      BY <1>2, <1>8 DEF DiskInv, Described, IndexDescribes, CutOff
    <2> QED
      BY <2>3, <2>4 DEF Described, IndexDescribes, Describes, DescribesNext
  <1>10. (\A i \in 1 .. last - 1 : KnownNext(i)) /\ KnownNext(last)
    <2>1. \A j \in DOMAIN indexed : j \in DOMAIN indexed' /\ indexed'[j] = indexed[j]
      BY <1>2
    <2>2. ASSUME NEW i \in 1 .. last - 1 PROVE KnownNext(i)
      <3>1. Known(i)
        BY DEF DiskInv, KillInv
      <3>2. i \in 1 .. last /\ i # last
        <4> HIDE DEF last
        <4> QED
          BY <1>0
      <3>3. parts'[i] = parts[i]
        BY <1>0, <1>2, <3>2
      <3> QED
        BY <2>1, <3>1, <3>3 DEF Known
    <2>3. KnownNext(last)
      <3>1. Len(indexed) + 1 \in DOMAIN indexed'
            /\ indexed'[Len(indexed) + 1].number = last
            /\ indexed'[Len(indexed) + 1].complete = complete
        BY <1>2
      <3> QED
        BY <1>1, <1>2, <3>1
    <2> QED
      BY <2>2, <2>3
  <1>11. thread' # "open"
    BY <1>3 DEF WriterFinishesPart, ClosesWriter, threadVars, Finished
  <1>12. KillInv'
    <2>1. Len(parts') = last /\ scenario' = scenario
      BY <1>2
    <2>2. (\A i \in 1 .. Len(parts) - 1 : Known(i))' /\ Known(Len(parts))'
      BY <1>10, <2>1 DEF Known, May
    <2>3. (Len(parts) > 1 /\ ~ May("save") /\ ~ May("flush") => index # NoIndex)'
      BY <1>2 DEF DiskInv, KillInv, May
    <2> QED
      BY <1>11, <2>2, <2>3 DEF KillInv
  <1> QED
    BY <1>6, <1>9, <1>12 DEF DiskInv

\* Messages are written to a part that no entry describes.
LEMMA AppendKeepsDisk ==
  ASSUME Typed, DrainedOnce, DiskInv, UNCHANGED scenario, WriterAppends PROVE DiskInv'
  <1> DEFINE last == Len(parts)
  <1>1. PICK flush \in BOOLEAN : WriteMessage(hand, flush)
    BY DEF WriterAppends
  <1>2. hand \in Stamped
    BY DEF WriterAppends, HandOK, TypeOK, Working, Typed
  <1>3. /\ DOMAIN parts' = DOMAIN parts /\ last \in DOMAIN parts
        /\ \A i \in DOMAIN parts \ {last} : parts'[i] = parts[i]
    BY <1>1, <1>2, WrittenComesLast DEF Typed
  <1>4. ~ Finished
    BY DEF WriterAppends, Alive, Finished, DiskInv, PartsInv, DrainedOnce, Ending, Typed, HandOK
  <1>5. ~ parts[last].closed
    BY <1>4 DEF DiskInv, PartsInv
  <1>6. parts \in Seq(PartType) /\ parts[last] \in PartType /\ last \in Nat \ {0}
    BY <1>3 DEF Typed, PartsOK
  <1>7. /\ ~ parts'[last].closed /\ parts'[last].number = parts[last].number
        /\ Len(parts') = last
    BY <1>1, <1>5, <1>6 DEF WriteMessage, PartType
  <1>8. UNCHANGED <<index, indexed, valid, failed, main>> /\ thread' = "pop"
    BY <1>1 DEF WriterAppends, WriteMessage, mainVars
  <1>9. PartsInv'
    BY <1>3, <1>7, <1>8 DEF DiskInv, PartsInv
  <1>10. Described'
    BY <1>3, <1>5, <1>8 DEF DiskInv, Described, IndexDescribes, CutOff, Describes
  <1>11. KillInv'
    BY <1>3, <1>6, <1>7, <1>8 DEF DiskInv, KillInv, Known, May
  <1> QED
    BY <1>9, <1>10, <1>11 DEF DiskInv

\* The next part is opened once the last one is known and the index is saved.
LEMMA OpenKeepsDisk ==
  ASSUME Typed, DiskInv, UNCHANGED scenario, WriterOpensPart PROVE DiskInv'
  <1> DEFINE last == Len(parts)
  <1>1. /\ parts' = Append(parts, Part(last + 1))
        /\ UNCHANGED <<index, indexed, valid, failed>>
        /\ thread = "open" /\ thread' = "append"
    BY DEF WriterOpensPart, OpenPart, memoryVars
  <1>2. parts \in Seq(PartType) /\ last \in Nat \ {0}
    BY DEF Typed, PartsOK
  <1>3. Part(last + 1).number = last + 1 /\ ~ Part(last + 1).closed
    BY DEF Part
  <1>4. /\ Len(parts') = last + 1 /\ DOMAIN parts' = DOMAIN parts \union {last + 1}
        /\ last \in DOMAIN parts /\ DOMAIN parts = 1 .. last
        /\ \A i \in DOMAIN parts : parts'[i] = parts[i]
        /\ parts'[last + 1] = Part(last + 1)
    BY <1>1, <1>2
  <1>5. PartsInv'
    BY <1>1, <1>3, <1>4 DEF DiskInv, PartsInv
  <1>6. Described'
    BY <1>1, <1>4 DEF DiskInv, Described, IndexDescribes, CutOff, Describes
  <1>7. \A i \in 1 .. last : Known(i)'
    BY <1>1, <1>2, <1>4 DEF DiskInv, KillInv, Known, May
  <1>8. KillInv'
    BY <1>1, <1>2, <1>4, <1>7 DEF DiskInv, KillInv, May
  <1> QED
    BY <1>5, <1>6, <1>8 DEF DiskInv
\* An index that was saved is not the absence of one.
LEMMA AnIndexIsSomething ==
  \A a, b, c, d, e :
    [messages |-> a, dropped |-> b, parts |-> c, topics |-> d, whole |-> e] # NoIndex
  <1> SUFFICES ASSUME NEW a, NEW b, NEW c, NEW d, NEW e
               PROVE  [messages |-> a, dropped |-> b, parts |-> c, topics |-> d, whole |-> e] # NoIndex
    OBVIOUS
  <1>1. "messages" \in DOMAIN [messages |-> a, dropped |-> b, parts |-> c, topics |-> d, whole |-> e]
    OBVIOUS
  <1>2. DOMAIN NoIndex = {}
    BY DEF NoIndex
  <1> QED
    BY <1>1, <1>2

\* What can be read of an entry list that is cut is, but for its last entry, as
\* it was written.
LEMMA CutPartsKeep ==
  ASSUME NEW text, NEW i \in DOMAIN text, NEW some \in CutParts(text, i), NEW j \in DOMAIN some
  PROVE  \/ \A k \in DOMAIN some : k <= j
         \/ j \in DOMAIN text /\ some[j] = text[j]
  <1>1. PICK e : some = [k \in {k \in DOMAIN text : k <= i} |-> IF k = i THEN e ELSE text[k]]
    BY DEF CutParts
  <1> QED
    BY <1>1

\* A text that was cut is nothing, or is not whole and ends in a cut entry.
LEMMA TornKeeps ==
  ASSUME NEW text, index' \in Torn(text), index' # NoIndex
  PROVE  /\ ~ index'.whole
         /\ \A j \in DOMAIN index'.parts :
              CutOff(j)' \/ (j \in DOMAIN text.parts /\ index'.parts[j] = text.parts[j])
  <1> DEFINE left(m, d, p, t) ==
               [messages |-> m, dropped |-> d, parts |-> p, topics |-> t, whole |-> FALSE]
             Lists(p) == \/ p = << >> \/ p = text.parts
                         \/ \E i \in DOMAIN text.parts : p \in CutParts(text.parts, i)
  <1>1. \E m, d, p, t : Lists(p) /\ index' = left(m, d, p, t)
    BY Zenon DEF Torn
  <1>2. /\ ~ index'.whole
        /\ Lists(index'.parts)
    <2> HIDE DEF Lists
    <2> QED
      BY <1>1
  <1>3. \/ DOMAIN index'.parts = {}
        \/ \E i \in DOMAIN text.parts : index'.parts \in CutParts(text.parts, i)
        \/ index'.parts = text.parts
    BY <1>2
  <1>4. ASSUME NEW i \in DOMAIN text.parts, index'.parts \in CutParts(text.parts, i),
               NEW j \in DOMAIN index'.parts
        PROVE  CutOff(j)' \/ (j \in DOMAIN text.parts /\ index'.parts[j] = text.parts[j])
    BY <1>2, <1>4, CutPartsKeep DEF CutOff
  <1> QED
    BY <1>2, <1>3, <1>4

\* A save leaves the text, or the old index, or what is left of the text.
LEMMA SaveLeaves ==
  ASSUME NEW outcome \in SaveOutcomes, NEW text, SaveIndex(outcome, text)
  PROVE  \/ index' = text
         \/ index' = index /\ May("save")
         \/ index' = NoIndex /\ May("flush")
         \/ /\ May("flush") /\ index' # NoIndex /\ ~ index'.whole
            /\ \A j \in DOMAIN index'.parts :
                 CutOff(j)' \/ (j \in DOMAIN text.parts /\ index'.parts[j] = text.parts[j])
  BY TornKeeps DEF SaveOutcomes, SaveIndex

\* Whatever a save leaves describes the parts, if the text did.
LEMMA SaveDescribes ==
  ASSUME IndexDescribes, UNCHANGED parts, NEW outcome \in SaveOutcomes, NEW text,
         SaveIndex(outcome, text), \A j \in DOMAIN text.parts : Describes(text.parts[j])
  PROVE  IndexDescribes'
  <1>1. ASSUME NEW entry, Describes(entry) PROVE Describes(entry)'
    BY <1>1 DEF Describes
  <1>2. CASE index' = text
    BY <1>1, <1>2 DEF IndexDescribes, Describes
  <1>3. CASE index' = index
    BY <1>3 DEF IndexDescribes, Describes, CutOff
  <1>4. CASE index' = NoIndex
    BY <1>4 DEF IndexDescribes
  <1>5. CASE /\ index' # NoIndex
             /\ \A j \in DOMAIN index'.parts :
                  CutOff(j)' \/ (j \in DOMAIN text.parts /\ index'.parts[j] = text.parts[j])
    BY <1>5 DEF IndexDescribes, Describes
  <1> QED
    BY <1>2, <1>3, <1>4, <1>5, SaveLeaves

\* A saved index lists what the recorder knows.
LEMMA SaveKeepsDisk ==
  ASSUME DiskInv, UNCHANGED scenario, WriterSavesIndex \/ WritesLastIndex \/ ClosesInvalid
  PROVE  DiskInv'
  <1>1. UNCHANGED <<parts, indexed, valid, failed>>
    BY DEF WriterSavesIndex, WritesLastIndex, ClosesInvalid, SyncAndSave, SaveAsIs, memoryVars,
           threadVars
  <1>2. PICK outcome \in SaveOutcomes, totals \in {topics, synced} :
             SaveIndex(outcome, Metadata(totals))
    BY DEF WriterSavesIndex, WritesLastIndex, ClosesInvalid, SyncAndSave, SaveAsIs
  <1>3. \/ thread = "save" /\ thread' = "open"
        \/ thread' = thread /\ main' = "exited"
    BY DEF WriterSavesIndex, WritesLastIndex, ClosesInvalid, threadVars
  <1>4. PartsInv'
    BY <1>1, <1>3 DEF DiskInv, PartsInv, Finished
  <1>5. Described'
    <2>1. \A j \in DOMAIN Metadata(totals).parts : Describes(Metadata(totals).parts[j])
      BY DEF DiskInv, Described, Metadata
    <2>2. IndexDescribes'
      BY <1>1, <1>2, <2>1, SaveDescribes DEF DiskInv, Described
    <2> QED
      BY <1>1, <2>2 DEF DiskInv, Described, Describes
  <1>6. index' # NoIndex \/ (index' = index /\ May("save")) \/ May("flush")
    BY <1>2, SaveLeaves, AnIndexIsSomething DEF Metadata
  <1>7. KillInv'
    BY <1>1, <1>3, <1>6 DEF DiskInv, KillInv, Known, May
  <1> QED
    BY <1>4, <1>5, <1>7 DEF DiskInv

\* What bag reindex says of a part it has just read.
LEMMA ReindexKeepsDisk ==
  ASSUME Typed, DiskInv, UNCHANGED scenario, RunsReindex PROVE DiskInv'
  <1>1. UNCHANGED <<parts, indexed, valid, failed, thread, main>>
    BY DEF RunsReindex, memoryVars, mainVars, threadVars
  <1>2. PICK files \in {DOMAIN parts, {i \in DOMAIN parts : Readable(parts[i])}},
             outcome \in SaveOutcomes : Reindex(outcome, files)
    BY DEF RunsReindex
  <1>3. files \subseteq DOMAIN parts
    OBVIOUS
  <1>4. index' = index \/ SaveIndex(outcome, Rebuilt(files))
    BY <1>2 DEF Reindex
  <1>5. /\ Rebuilt(files) # NoIndex
        /\ DOMAIN Rebuilt(files).parts = files
        /\ \A i \in files : Rebuilt(files).parts[i] = [number |-> parts[i].number,
             messages |-> Len(OnDisk(parts[i])), complete |-> parts[i].closed]
    BY AnIndexIsSomething DEF Rebuilt
  <1>6. \A i \in files : Describes(Rebuilt(files).parts[i])
    <2> SUFFICES ASSUME NEW i \in files PROVE Describes(Rebuilt(files).parts[i])
      OBVIOUS
    <2> DEFINE entry == Rebuilt(files).parts[i]
    <2>1. i \in DOMAIN parts /\ parts[i].number = i
      BY <1>3 DEF DiskInv, PartsInv
    <2>2. entry = [number |-> parts[i].number, messages |-> Len(OnDisk(parts[i])),
                   complete |-> parts[i].closed]
      BY <1>5
    <2> HIDE DEF entry
    <2>3. /\ entry.number = i /\ entry.messages = Len(OnDisk(parts[i]))
          /\ entry.complete = parts[i].closed
      BY <2>1, <2>2
    <2>4. Describes(entry)
      BY <2>1, <2>3 DEF Describes
    <2> QED
      BY <2>4 DEF entry
  <1>7. PartsInv'
    BY <1>1 DEF DiskInv, PartsInv, Finished
  <1>8. Described'
    <2>1. CASE index' = index
      BY <1>1, <2>1 DEF DiskInv, Described, IndexDescribes, CutOff, Describes
    <2>2. CASE SaveIndex(outcome, Rebuilt(files))
      <3>1. IndexDescribes'
        BY <1>1, <1>5, <1>6, <2>2, SaveDescribes DEF DiskInv, Described
      <3> QED
        BY <1>1, <3>1 DEF DiskInv, Described, Describes
    <2> QED
      BY <1>4, <2>1, <2>2
  <1>9. index' = index \/ index' # NoIndex \/ May("flush")
    BY <1>4, <1>5, SaveLeaves
  <1>10. KillInv'
    BY <1>1, <1>9 DEF DiskInv, KillInv, Known, May
  <1> QED
    BY <1>7, <1>8, <1>10 DEF DiskInv

\* No other step touches the disk.
LEMMA DiskStep == Typed /\ DrainedOnce /\ DiskInv /\ [Next]_vars => DiskInv'
  <1> SUFFICES ASSUME Typed, DrainedOnce, DiskInv, [Next]_vars PROVE DiskInv'
    OBVIOUS
  <1>0. UNCHANGED scenario
    BY DEF Next, vars
  <1> DEFINE Rests == /\ UNCHANGED <<parts, index, indexed>>
                      /\ failed' <=> ~ valid'
                      /\ thread' \in {"save", "open"} => thread' = thread
  <1>1. ASSUME Rests, ~ WriterOpensPart PROVE DiskInv'
    <2>1. Finished => Finished'
      BY <1>1, FinishedStays DEF DiskInv
    <2>2. PartsInv'
      BY <1>1, <2>1 DEF DiskInv, PartsInv
    <2>3. Described'
      BY <1>1 DEF DiskInv, Described, IndexDescribes, CutOff, Describes
    <2>4. KillInv'
      BY <1>0, <1>1 DEF DiskInv, KillInv, Known, May
    <2> QED
      BY <2>2, <2>3, <2>4 DEF DiskInv
  <1>2. CASE WriterFinishesPart \/ ClosesWriter
    BY <1>0, <1>2, FinishKeepsDisk
  <1>3. CASE WriterSavesIndex \/ WritesLastIndex \/ ClosesInvalid
    BY <1>0, <1>3, SaveKeepsDisk
  <1>4. CASE WriterOpensPart
    BY <1>0, <1>4, OpenKeepsDisk
  <1>5. CASE WriterAppends
    BY <1>0, <1>5, AppendKeepsDisk
  <1>6. CASE RunsReindex
    BY <1>0, <1>6, ReindexKeepsDisk
  <1>7. CASE WriterPops \/ WriterStops \/ WriterFails
    <2>1. Rests /\ ~ WriterOpensPart
      BY <1>7 DEF WriterPops, WriterStops, WriterFails, WriterOpensPart, Invalidate, writerVars,
                  memoryVars, DiskInv, PartsInv
    <2> QED
      BY <1>1, <2>1
  <1>8. CASE Arrive \/ Subscribes \/ SubscribeFails \/ Interrupt \/ ChecksLoop \/ Wakes \/ Joins
             \/ NotesAdvertised \/ Unsubscribes \/ StopsQueue \/ Killed \/ UNCHANGED vars
    <2>1. UNCHANGED <<parts, index, indexed, failed, valid, thread>>
      BY <1>8 DEF Arrive, Subscribes, SubscribeFails, Interrupt, ChecksLoop, Wakes, Joins, NoteDropped,
                  NotesAdvertised, Unsubscribes, StopsQueue, Killed, vars, writerVars, memoryVars,
                  threadVars
    <2>2. Rests /\ ~ WriterOpensPart
      BY <2>1 DEF DiskInv, PartsInv, WriterOpensPart
    <2> QED
      BY <1>1, <2>2
  <1> QED
    BY <1>2, <1>3, <1>4, <1>5, <1>6, <1>7, <1>8 DEF Next, WriterThread, MainThread

\* However parts are closed, rolled and reindexed, and whether or not an index is
\* written to the end: where it calls a part complete it says of it what the
\* file holds, except in the last entry of an index that was cut off.
THEOREM PartsAreDescribed == Spec => []IndexDescribesParts
  <1>1. DiskInv => IndexDescribesParts
    BY DEF DiskInv, Described, IndexDescribes, Describes, IndexDescribesParts
  <1> QED
    BY <1>1, TypedInit, TypedStep, DrainedOnceInit, DrainedOnceStep, DiskInit, DiskStep, PTL DEF Spec

\* Killed between any two steps, a recorder that has rolled leaves an index that
\* can be read, if every save succeeded, and torn parts only where it knows of
\* them.
THEOREM KillsLeaveReadableBags == Spec => []KillLeavesReadableBag
  <1>1. DiskInv => KillLeavesReadableBag
    BY DEF DiskInv, KillInv, Known, KillLeavesReadableBag, IndexedOnceRolled, OnlyLastPartTorn
  <1> QED
    BY <1>1, TypedInit, TypedStep, DrainedOnceInit, DrainedOnceStep, DiskInit, DiskStep, PTL DEF Spec
-----------------------------------------------------------------------------
(* Sums, which the index is full of.                                          *)

Plus(a, b) == a + b

Sums == INSTANCE FoldLemmas WITH Op <- Plus, Pick <- LAMBDA s : CHOOSE x \in s : TRUE

SumOver(f, S) == Sums!Fold(0, f, S)

\* The sum of the community modules is a fold over the arguments.
LEMMA SumIsOver == \A f : SumFunction(f) = SumOver(f, DOMAIN f)
  BY DEF SumFunction, SumFunctionOnSet, FoldFunctionOnSet, MapThenFoldSet, SumOver, Sums!Fold,
         Sums!MapThenFoldSet, Plus

LEMMA FiniteAndPicks == \A S : Sums!Picks(S) /\ (IsFiniteSet(S) => Sums!IsFiniteSet(S))
  BY DEF Sums!Picks, IsFiniteSet, Sums!IsFiniteSet

LEMMA SumOfNone == \A f : SumOver(f, {}) = 0
  BY Sums!FoldEmpty DEF SumOver

LEMMA SumNat ==
  ASSUME NEW S, IsFiniteSet(S), NEW f, \A x \in S : f[x] \in Nat
  PROVE  SumOver(f, S) \in Nat
  <1>1. \A x \in S : \A y \in Nat : Plus(f[x], y) \in Nat
    BY DEF Plus
  <1>2. 0 \in Nat
    OBVIOUS
  <1> QED
    BY <1>1, <1>2, FiniteAndPicks, Sums!FoldStays DEF SumOver

LEMMA SumSame ==
  ASSUME NEW S, IsFiniteSet(S), NEW f, NEW g, \A x \in S : g[x] = f[x]
  PROVE  SumOver(g, S) = SumOver(f, S)
  BY FiniteAndPicks, Sums!FoldSame DEF SumOver

LEMMA SumTakes ==
  ASSUME NEW S, IsFiniteSet(S), NEW f, NEW x \in S, NEW V, 0 \in V, \A y \in S : f[y] \in V,
         Sums!Commutes(V)
  PROVE  SumOver(f, S) = Plus(f[x], SumOver(f, S \ {x}))
  <1>1. Sums!IsFiniteSet(S) /\ Sums!Picks(S)
    BY FiniteAndPicks
  <1> QED
    BY <1>1, Sums!FoldAny DEF SumOver

LEMMA SumSplits ==
  ASSUME NEW S, IsFiniteSet(S), NEW f, \A x \in S : f[x] \in Nat, NEW x \in S
  PROVE  /\ SumOver(f, S \ {x}) \in Nat
         /\ SumOver(f, S) = f[x] + SumOver(f, S \ {x})
  <1>1. 0 \in Nat /\ Sums!Commutes(Nat)
    BY DEF Sums!Commutes, Plus
  <1>2. IsFiniteSet(S \ {x})
    BY FS_Subset
  <1>3. SumOver(f, S) = Plus(f[x], SumOver(f, S \ {x}))
    BY <1>1, SumTakes, Zenon
  <1> QED
    BY <1>2, <1>3, SumNat DEF Plus

\* One more of one of them is one more of all.
LEMMA SumMore ==
  ASSUME NEW S, IsFiniteSet(S), NEW f, NEW g, NEW x \in S,
         \A y \in S : f[y] \in Nat, g[x] = f[x] + 1, \A y \in S \ {x} : g[y] = f[y]
  PROVE  SumOver(g, S) = SumOver(f, S) + 1
  <1>1. \A y \in S : g[y] \in Nat
    OBVIOUS
  <1>2. /\ SumOver(f, S) = f[x] + SumOver(f, S \ {x}) /\ SumOver(f, S \ {x}) \in Nat
        /\ SumOver(g, S) = g[x] + SumOver(g, S \ {x})
    BY <1>1, SumSplits
  <1>3. IsFiniteSet(S \ {x})
    BY FS_Subset
  <1>4. SumOver(g, S \ {x}) = SumOver(f, S \ {x})
    BY <1>3, SumSame
  <1> QED
    BY <1>2, <1>4

\* A sum of sums.
LEMMA SumAdds ==
  ASSUME NEW S, IsFiniteSet(S), NEW f, NEW g, NEW h,
         \A x \in S : f[x] \in Nat /\ g[x] \in Nat /\ h[x] = f[x] + g[x]
  PROVE  SumOver(h, S) = SumOver(f, S) + SumOver(g, S)
  <1> DEFINE F == {s \in SUBSET S : SumOver(h, s) = SumOver(f, s) + SumOver(g, s)}
  <1>1. {} \in F
    BY SumOfNone
  <1>2. ASSUME NEW s \in SUBSET S, s # {}, \A x \in s : s \ {x} \in F PROVE s \in F
    <2>1. PICK x \in s : TRUE
      BY <1>2
    <2>2. IsFiniteSet(s) /\ \A y \in s : f[y] \in Nat /\ g[y] \in Nat /\ h[y] \in Nat
      BY FS_Subset
    <2>3. SumOver(f, s) = f[x] + SumOver(f, s \ {x}) /\ SumOver(f, s \ {x}) \in Nat
      BY <2>2, SumSplits
    <2>4. SumOver(g, s) = g[x] + SumOver(g, s \ {x}) /\ SumOver(g, s \ {x}) \in Nat
      BY <2>2, SumSplits
    <2>5. SumOver(h, s) = h[x] + SumOver(h, s \ {x})
      BY <2>2, SumSplits
    <2>6. SumOver(h, s \ {x}) = SumOver(f, s \ {x}) + SumOver(g, s \ {x})
      BY <1>2
    <2>7. h[x] = f[x] + g[x] /\ f[x] \in Nat /\ g[x] \in Nat
      OBVIOUS
    <2> QED
      BY <2>3, <2>4, <2>5, <2>6, <2>7
  <1> HIDE DEF F
  <1>3. \A s \in SUBSET S : s \in F
    BY <1>1, <1>2, FiniteAndPicks, Sums!SubsetsIn
  <1> QED
    BY <1>3 DEF F

LEMMA SumOfZeros ==
  ASSUME NEW S, IsFiniteSet(S), NEW f, \A x \in S : f[x] = 0
  PROVE  SumOver(f, S) = 0
  <1>1. 0 \in {0} /\ \A x \in S : \A y \in {0} : Plus(f[x], y) \in {0}
    BY DEF Plus
  <1>2. SumOver(f, S) \in {0}
    BY <1>1, FiniteAndPicks, Sums!FoldStays DEF SumOver
  <1> QED
    BY <1>2

\* Rows and columns have the same total.
LEMMA SumSwaps ==
  ASSUME NEW S, IsFiniteSet(S), NEW T, IsFiniteSet(T), NEW f,
         \A x \in S : \A y \in T : f[x][y] \in Nat
  PROVE  SumOver([y \in T |-> SumOver([x \in S |-> f[x][y]], S)], T)
           = SumOver([x \in S |-> SumOver(f[x], T)], S)
  <1> DEFINE col(y)  == [x \in S |-> f[x][y]]
             cols(s) == [y \in T |-> SumOver(col(y), s)]
             rows    == [x \in S |-> SumOver(f[x], T)]
             F       == {s \in SUBSET S : SumOver(cols(s), T) = SumOver(rows, s)}
  <1>1. \A x \in S : rows[x] \in Nat /\ rows[x] = SumOver(f[x], T)
    BY SumNat
  <1>2. \A y \in T : \A x \in S : col(y)[x] = f[x][y] /\ col(y)[x] \in Nat
    OBVIOUS
  <1>3. \A s : \A y \in T : cols(s)[y] = SumOver(col(y), s)
    OBVIOUS
  <1> HIDE DEF col, rows, cols
  <1>4. {} \in F
    <2>1. \A y \in T : cols({})[y] = 0
      BY <1>3, SumOfNone
    <2>2. SumOver(cols({}), T) = 0
      BY <2>1, SumOfZeros
    <2> QED
      BY <2>2, SumOfNone
  <1>5. ASSUME NEW s \in SUBSET S, s # {}, \A x \in s : s \ {x} \in F PROVE s \in F
    <2>1. PICK x \in s : TRUE
      BY <1>5
    <2>2. IsFiniteSet(s) /\ IsFiniteSet(s \ {x}) /\ x \in S /\ s \ {x} \in F
      BY <1>5, FS_Subset
    <2>3. SumOver(rows, s) = rows[x] + SumOver(rows, s \ {x})
      BY <1>1, <2>2, SumSplits
    <2>4. ASSUME NEW y \in T
          PROVE  /\ cols(s \ {x})[y] \in Nat /\ f[x][y] \in Nat
                 /\ cols(s)[y] = f[x][y] + cols(s \ {x})[y]
      <3>1. /\ SumOver(col(y), s) = col(y)[x] + SumOver(col(y), s \ {x})
            /\ SumOver(col(y), s \ {x}) \in Nat
        BY <1>2, <2>2, SumSplits
      <3>2. col(y)[x] = f[x][y] /\ f[x][y] \in Nat
        BY <1>2, <2>2
      <3> QED
        BY <1>3, <3>1, <3>2
    <2>5. SumOver(cols(s), T) = SumOver(f[x], T) + SumOver(cols(s \ {x}), T)
      BY <2>4, SumAdds
    <2>6. SumOver(cols(s \ {x}), T) = SumOver(rows, s \ {x})
      BY <2>2
    <2>7. SumOver(f[x], T) = rows[x]
      BY <1>1, <2>2
    <2> HIDE DEF F
    <2>8. SumOver(cols(s), T) = SumOver(rows, s)
      BY <2>3, <2>5, <2>6, <2>7
    <2> QED
      BY <2>8 DEF F
  <1> HIDE DEF F
  <1>6. \A s \in SUBSET S : s \in F
    BY <1>4, <1>5, FiniteAndPicks, Sums!SubsetsIn
  <1> QED
    BY <1>6 DEF F, cols, col, rows

\* Counted by value, the elements of a set are as many as they are.
LEMMA CountedByValue ==
  ASSUME NEW D, IsFiniteSet(D), NEW T, IsFiniteSet(T), NEW f, \A j \in D : f[j] \in T
  PROVE  SumOver([t \in T |-> Cardinality({j \in D : f[j] = t})], T) = Cardinality(D)
  <1> DEFINE by(s) == [t \in T |-> Cardinality({j \in s : f[j] = t})]
             F     == {s \in SUBSET D : SumOver(by(s), T) = Cardinality(s)}
  <1>1. \A s : \A t \in T : by(s)[t] = Cardinality({j \in s : f[j] = t})
    OBVIOUS
  <1> HIDE DEF by
  <1>2. {} \in F
    <2>1. ASSUME NEW t \in T PROVE by({})[t] = 0
      <3>1. {j \in {} : f[j] = t} = {}
        OBVIOUS
      <3> QED
        BY <1>1, <3>1, FS_EmptySet
    <2>2. SumOver(by({}), T) = 0
      BY <2>1, SumOfZeros
    <2> QED
      BY <2>2, FS_EmptySet
  <1>3. ASSUME NEW s \in SUBSET D, s # {}, \A x \in s : s \ {x} \in F PROVE s \in F
    <2>1. PICK x \in s : TRUE
      BY <1>3
    <2> DEFINE rest == s \ {x}
    <2>2. /\ IsFiniteSet(rest) /\ x \notin rest /\ s = rest \union {x} /\ f[x] \in T
          /\ SumOver(by(rest), T) = Cardinality(rest)
      BY <1>3, FS_Subset
    <2> HIDE DEF rest
    <2>3. Cardinality(s) = Cardinality(rest) + 1 /\ Cardinality(rest) \in Nat
      BY <2>2, FS_AddElement, FS_CardinalityType
    <2>4. ASSUME NEW t \in T
          PROVE  /\ by(rest)[t] \in Nat
                 /\ by(s)[t] = by(rest)[t] + (IF t = f[x] THEN 1 ELSE 0)
      <3> DEFINE these == {j \in rest : f[j] = t}
      <3>1. IsFiniteSet(these) /\ x \notin these
        BY <2>2, FS_Subset
      <3>2. {j \in s : f[j] = t} = IF t = f[x] THEN these \union {x} ELSE these
        BY <2>2
      <3>3. by(rest)[t] = Cardinality(these) /\ by(s)[t] = Cardinality({j \in s : f[j] = t})
        BY <1>1
      <3> HIDE DEF these
      <3>4. Cardinality(these \union {x}) = Cardinality(these) + 1 /\ Cardinality(these) \in Nat
        BY <3>1, FS_AddElement, FS_CardinalityType
      <3>5. CASE t = f[x]
        BY <3>2, <3>3, <3>4, <3>5
      <3>6. CASE t # f[x]
        <4>1. by(s)[t] = by(rest)[t]
          BY <3>2, <3>3, <3>6
        <4> QED
          BY <3>3, <3>4, <3>6, <4>1
      <3> QED
        BY <3>5, <3>6
    <2>5. SumOver(by(s), T) = SumOver(by(rest), T) + 1
      <3> DEFINE old == by(rest)
                 new == by(s)
                 v   == f[x]
      <3>1. v \in T /\ \A t \in T : old[t] \in Nat
        BY <2>2, <2>4
      <3>2. new[v] = old[v] + 1 /\ \A t \in T \ {v} : new[t] = old[t] + 0
        BY <2>2, <2>4
      <3> HIDE DEF old, new, v
      <3>3. \A t \in T \ {v} : new[t] = old[t]
        BY <3>1, <3>2
      <3>4. SumOver(new, T) = SumOver(old, T) + 1
        BY <3>1, <3>2, <3>3, SumMore
      <3> QED
        BY <3>4 DEF old, new
    <2> QED
      BY <2>2, <2>3, <2>5
  <1> HIDE DEF F
  <1>4. \A s \in SUBSET D : s \in F
    BY <1>2, <1>3, FiniteAndPicks, Sums!SubsetsIn
  <1> QED
    BY <1>4 DEF F, by
-----------------------------------------------------------------------------
(* What an index counts is what its parts and its topics add up to.           *)

\* The messages of the last part that no entry counts yet.
Listed   == thread \in {"save", "open"} \/ ~ valid \/ main \in {"indexing", "exited"}
Unlisted == IF Listed THEN 0 ELSE Len(parts[Len(parts)].messages)

CountInv ==
  /\ topics \in [Topics -> Nat] /\ count = SumFunction(topics)
  /\ \A i \in DOMAIN parts : parts[i].flushed <= Len(parts[i].messages)
  /\ ~ May("write") /\ main # "killed" =>
       /\ count = Total(indexed) + Unlisted
       /\ thread = "open" \/ ~ valid => synced = topics
  /\ IndexAddsUp

LEMMA TotalOfNone == Total(<< >>) = 0
  <1> DEFINE f == [i \in DOMAIN << >> |-> << >>[i].messages]
  <1>1. DOMAIN f = {} /\ Total(<< >>) = SumFunction(f)
    BY DEF Total
  <1> HIDE DEF f
  <1> QED
    BY <1>1, SumIsOver, SumOfNone

\* The lists of an index are finite.
LEMMA ListIsFinite ==
  ASSUME NEW S, NEW s \in Seq(S) PROVE IsFiniteSet(DOMAIN s)
  <1> DEFINE n == Len(s)
  <1>1. n \in Nat /\ DOMAIN s = 1 .. n
    OBVIOUS
  <1> HIDE DEF n
  <1> QED
    BY <1>1, FS_Interval

\* One more part is that many more messages.
LEMMA TotalGrows ==
  ASSUME NEW entries \in Seq(Entry), NEW entry \in Entry
  PROVE  /\ Total(entries) \in Nat
         /\ Total(Append(entries, entry)) = Total(entries) + entry.messages
  <1> DEFINE all == Append(entries, entry)
             n   == Len(entries) + 1
             f   == [i \in DOMAIN entries |-> entries[i].messages]
             g   == [i \in DOMAIN all |-> all[i].messages]
  <1>1. \A i \in DOMAIN entries : entries[i] \in Entry
    OBVIOUS
  <1>2. \A i \in DOMAIN entries : f[i] \in Nat
    BY <1>1 DEF Entry
  <1>3. /\ n \in DOMAIN all /\ n \notin DOMAIN entries /\ DOMAIN all = DOMAIN entries \union {n}
        /\ \A i \in DOMAIN entries : all[i] = entries[i]
        /\ all[n] = entry /\ all \in Seq(Entry)
    OBVIOUS
  <1>4. entry.messages \in Nat
    BY DEF Entry
  <1>5. DOMAIN f = DOMAIN entries /\ DOMAIN g = DOMAIN all
    OBVIOUS
  <1>6. /\ g[n] = entry.messages /\ DOMAIN all \ {n} = DOMAIN entries
        /\ \A i \in DOMAIN entries : g[i] = f[i]
    BY <1>3
  <1>7. IsFiniteSet(DOMAIN entries) /\ IsFiniteSet(DOMAIN all)
    BY <1>3, ListIsFinite
  <1>8. Total(entries) = SumFunction(f) /\ Total(all) = SumFunction(g)
    BY DEF Total
  <1>9. \A i \in DOMAIN all : g[i] \in Nat
    BY <1>2, <1>3, <1>4, <1>6
  <1> HIDE DEF f, g, all, n
  <1>10. Total(entries) = SumOver(f, DOMAIN entries) /\ Total(all) = SumOver(g, DOMAIN all)
    BY <1>5, <1>8, SumIsOver
  <1>11. SumOver(f, DOMAIN entries) \in Nat
    BY <1>2, <1>7, SumNat
  <1>12. SumOver(g, DOMAIN all) = g[n] + SumOver(g, DOMAIN all \ {n})
    BY <1>3, <1>7, <1>9, SumSplits
  <1>13. SumOver(g, DOMAIN entries) = SumOver(f, DOMAIN entries)
    BY <1>6, <1>7, SumSame
  <1>14. Total(all) = Total(entries) + entry.messages
    BY <1>4, <1>6, <1>10, <1>11, <1>12, <1>13
  <1> QED
    BY <1>10, <1>11, <1>14 DEF all

\* What bag reindex counts by part and by topic is the same messages.
LEMMA RebuiltAddsUp ==
  ASSUME Typed, \A i \in DOMAIN parts : parts[i].flushed <= Len(parts[i].messages),
         NEW files \in SUBSET DOMAIN parts
  PROVE  /\ Rebuilt(files).messages = Total(Rebuilt(files).parts)
         /\ Rebuilt(files).messages = SumFunction(Rebuilt(files).topics)
  <1> DEFINE data(i)  == OnDisk(parts[i])
             found(i) == [t \in Topics |-> Cardinality({j \in DOMAIN data(i) : data(i)[j].topic = t})]
             scanned  == [i \in files |-> [number |-> parts[i].number, messages |-> Len(data(i)),
                                           complete |-> parts[i].closed]]
             size     == [i \in files |-> scanned[i].messages]
             row(t)   == [i \in files |-> found(i)[t]]
             onTopic  == [t \in Topics |-> SumOver(row(t), files)]
             table    == [i \in files |-> found(i)]
  <1>1. IsFiniteSet(files) /\ IsFiniteSet(Topics)
    <2>1. IsFiniteSet(DOMAIN parts)
      BY ListIsFinite DEF Typed, PartsOK
    <2> QED
      BY <2>1, FS_Subset, TopicsAssumption
  <1>2. ASSUME NEW i \in files
        PROVE  /\ Len(data(i)) \in Nat /\ IsFiniteSet(DOMAIN data(i))
               /\ Cardinality(DOMAIN data(i)) = Len(data(i))
               /\ \A j \in DOMAIN data(i) : data(i)[j].topic \in Topics
    <2>1. parts[i] \in PartType /\ i \in DOMAIN parts
      BY DEF Typed, PartsOK
    <2>2. /\ parts[i].messages \in Seq(Stamped) /\ parts[i].flushed \in Nat
          /\ parts[i].flushed <= Len(parts[i].messages)
      BY <2>1 DEF PartType
    <2>3. /\ data(i) \in Seq(Stamped) /\ Len(data(i)) \in Nat
          /\ DOMAIN data(i) = 1 .. Len(data(i))
      BY <2>2 DEF OnDisk
    <2> HIDE DEF data
    <2>4. \A j \in DOMAIN data(i) : data(i)[j] \in Stamped
      BY <2>3
    <2>5. \A j \in DOMAIN data(i) : data(i)[j].topic \in Topics
      BY <2>4 DEF Stamped
    <2>6. IsFiniteSet(DOMAIN data(i)) /\ Cardinality(DOMAIN data(i)) = Len(data(i))
      <3> DEFINE n == Len(data(i))
      <3>1. n \in Nat /\ DOMAIN data(i) = 1 .. n
        BY <2>3
      <3> HIDE DEF n
      <3>2. IsFiniteSet(1 .. n) /\ Cardinality(1 .. n) = n
        BY <3>1, FS_Interval
      <3> QED
        BY <3>1, <3>2 DEF n
    <2> QED
      BY <2>3, <2>5, <2>6
  <1>3. ASSUME NEW i \in files
        PROVE  SumOver(found(i), Topics) = Len(data(i)) /\ \A t \in Topics : found(i)[t] \in Nat
    <2> DEFINE D == DOMAIN data(i)
               topicOf == [j \in D |-> data(i)[j].topic]
    <2>1. IsFiniteSet(D) /\ Cardinality(D) = Len(data(i)) /\ \A j \in D : topicOf[j] \in Topics
      BY <1>2
    <2>2. found(i) = [t \in Topics |-> Cardinality({j \in D : topicOf[j] = t})]
      <3>1. \A t : {j \in D : topicOf[j] = t} = {j \in D : data(i)[j].topic = t}
        OBVIOUS
      <3> QED
        BY <3>1
    <2> HIDE DEF D, topicOf, data, found
    <2>3. SumOver([t \in Topics |-> Cardinality({j \in D : topicOf[j] = t})], Topics) = Cardinality(D)
      BY <1>1, <2>1, CountedByValue
    <2>4. \A t \in Topics : Cardinality({j \in D : topicOf[j] = t}) \in Nat
      BY <2>1, FS_Subset, FS_CardinalityType
    <2> QED
      BY <2>1, <2>2, <2>3, <2>4
  <1>4. /\ Rebuilt(files).parts = scanned
        /\ Rebuilt(files).messages = Total(scanned)
        /\ Rebuilt(files).topics = [t \in Topics |-> SumFunction(row(t))]
    BY DEF Rebuilt
  <1>5. Total(scanned) = SumFunction(size) /\ DOMAIN size = files
    BY DEF Total
  <1>6. \A i \in files : size[i] = Len(data(i))
    OBVIOUS
  <1>7. \A i \in files : table[i] = found(i)
    OBVIOUS
  <1>8. \A t \in Topics : DOMAIN row(t) = files /\ row(t) = [i \in files |-> table[i][t]]
    OBVIOUS
  <1>9. \A t \in Topics : SumFunction(row(t)) = onTopic[t]
    BY <1>8, SumIsOver
  <1> HIDE DEF data, found, scanned, size, row, table
  <1>10. Rebuilt(files).topics = onTopic
    BY <1>4, <1>9
  <1>11. SumFunction(onTopic) = SumOver(onTopic, Topics)
    BY SumIsOver
  <1>12. onTopic = [t \in Topics |-> SumOver([i \in files |-> table[i][t]], files)]
    BY <1>8
  <1>13. \A i \in files : \A t \in Topics : table[i][t] \in Nat
    BY <1>3, <1>7
  <1> HIDE DEF onTopic
  <1>14. SumOver(onTopic, Topics) = SumOver([i \in files |-> SumOver(table[i], Topics)], files)
    BY <1>1, <1>12, <1>13, SumSwaps
  <1>15. SumOver([i \in files |-> SumOver(table[i], Topics)], files) = SumOver(size, files)
    <2>1. \A i \in files : [j \in files |-> SumOver(table[j], Topics)][i] = size[i]
      BY <1>3, <1>6, <1>7
    <2> QED
      BY <1>1, <2>1, SumSame
  <1>16. SumFunction(size) = SumOver(size, files)
    BY <1>5, SumIsOver
  <1> QED
    BY <1>4, <1>5, <1>10, <1>11, <1>14, <1>15, <1>16
LEMMA CountInit == Init => CountInv
  <1> SUFFICES ASSUME Init PROVE CountInv
    OBVIOUS
  <1>1. /\ topics = [t \in Topics |-> 0] /\ count = 0 /\ indexed = << >> /\ index = NoIndex
        /\ parts = <<Part(1)>> /\ thread = "pop" /\ valid /\ main = "subscribing"
    BY DEF Init, WriterInit, NoMessages
  <1>2. SumFunction(topics) = 0
    <2>1. DOMAIN topics = Topics /\ \A t \in Topics : topics[t] = 0
      BY <1>1
    <2>2. SumFunction(topics) = SumOver(topics, Topics)
      BY <2>1, SumIsOver
    <2> QED
      BY <2>1, <2>2, SumOfZeros, TopicsAssumption
  <1>3. \A i \in DOMAIN parts : parts[i] = Part(1)
    BY <1>1
  <1>4. Part(1).flushed = 0 /\ Len(Part(1).messages) = 0
    BY DEF Part
  <1>5. Unlisted = 0
    BY <1>1, <1>4 DEF Unlisted, Listed
  <1>6. Total(indexed) = 0
    BY <1>1, TotalOfNone
  <1>7. IndexAddsUp
    BY <1>1 DEF IndexAddsUp
  <1>8. topics \in [Topics -> Nat]
    BY <1>1
  <1> QED
    BY <1>1, <1>2, <1>3, <1>4, <1>5, <1>6, <1>7, <1>8 DEF CountInv

\* The part that is finished is the one that was not counted.
LEMMA FinishKeepsCount ==
  ASSUME Typed, DrainedOnce, PartsInv, CountInv, UNCHANGED scenario,
         WriterFinishesPart \/ ClosesWriter
  PROVE  CountInv'
  <1> DEFINE last == Len(parts)
             size == Len(parts[last].messages)
  <1>0. size \in Nat /\ last \in DOMAIN parts
    <2>1. last \in DOMAIN parts /\ parts[last] \in PartType
      BY DEF Typed, PartsOK
    <2> QED
      BY <2>1 DEF PartType
  <1>1. PICK complete \in BOOLEAN : FinishPart(complete)
    BY DEF WriterFinishesPart, ClosesWriter
  <1> DEFINE entry == [number |-> last, messages |-> size, complete |-> complete]
  <1>2. /\ indexed' = Append(indexed, entry) /\ entry \in Entry
        /\ DOMAIN parts' = DOMAIN parts
        /\ \A i \in DOMAIN parts \ {last} : parts'[i] = parts[i]
        /\ parts'[last].messages = parts[last].messages
        /\ parts'[last].flushed \in {parts[last].flushed, size}
        /\ UNCHANGED <<index, valid>>
    BY <1>1, FinishAdds
  <1>3. UNCHANGED <<count, topics, synced>> /\ entry.messages = size /\ indexed \in Seq(Entry)
    BY <1>1 DEF FinishPart, PartsInv
  <1>4. ~ Finished
    BY DEF WriterFinishesPart, ClosesWriter, Alive, Finished, PartsInv, DrainedOnce, Ending,
           Typed, HandOK
  <1>5. ~ Listed /\ Listed' /\ valid' /\ thread' # "open" /\ main # "killed"
    BY <1>2, <1>4 DEF WriterFinishesPart, ClosesWriter, Finished, Listed, threadVars
  <1>6. Unlisted = size /\ Unlisted' = 0
    BY <1>5 DEF Unlisted
  <1> HIDE DEF entry, size
  <1>7. Total(indexed') = Total(indexed) + size /\ Total(indexed) \in Nat
    BY <1>2, <1>3, TotalGrows
  <1>8. \A i \in DOMAIN parts' : parts'[i].flushed <= Len(parts'[i].messages)
    BY <1>0, <1>2 DEF CountInv, size
  <1>9. IndexAddsUp'
    BY <1>2 DEF CountInv, IndexAddsUp, May
  <1>10. ~ May("write") => count' = Total(indexed') + Unlisted'
    BY <1>0, <1>3, <1>5, <1>6, <1>7 DEF CountInv
  <1> QED
    BY <1>2, <1>3, <1>5, <1>8, <1>9, <1>10 DEF CountInv, May

\* Whatever a save leaves adds up, or is not whole, if the text did.
LEMMA SaveAddsUp ==
  ASSUME IndexAddsUp, UNCHANGED scenario, NEW outcome \in SaveOutcomes, NEW text,
         SaveIndex(outcome, text),
         ~ May("write") => /\ text.messages = Total(text.parts)
                           /\ text.messages = SumFunction(text.topics)
  PROVE  IndexAddsUp'
  <1>1. CASE index' = text
    BY <1>1 DEF IndexAddsUp, May
  <1>2. CASE index' = index
    BY <1>2 DEF IndexAddsUp, May
  <1>3. CASE index' = NoIndex \/ ~ index'.whole
    BY <1>3 DEF IndexAddsUp
  <1> QED
    BY <1>1, <1>2, <1>3, SaveLeaves

\* The index is saved when every message is counted.
LEMMA SaveKeepsCount ==
  ASSUME Typed, DrainedOnce, PartsInv, CountInv, UNCHANGED scenario,
         WriterSavesIndex \/ WritesLastIndex \/ ClosesInvalid
  PROVE  CountInv'
  <1>1. UNCHANGED <<parts, count, indexed, topics, valid>> /\ Listed /\ Listed' /\ main # "killed"
    BY DEF WriterSavesIndex, WritesLastIndex, ClosesInvalid, SyncAndSave, SaveAsIs, memoryVars,
           threadVars, Listed, Alive
  <1>2. ~ May("write") => count = Total(indexed)
    <2>1. indexed \in Seq(Entry) /\ Total(indexed) \in Nat
      <3>1. [number |-> 0, messages |-> 0, complete |-> FALSE] \in Entry
        BY DEF Entry
      <3> QED
        BY <3>1, TotalGrows DEF PartsInv
    <2> QED
      BY <1>1, <2>1 DEF CountInv, Unlisted
  <1>3. ~ May("write") => synced' = topics
    BY <1>1 DEF WriterSavesIndex, WritesLastIndex, ClosesInvalid, SyncAndSave, SaveAsIs, memoryVars,
           CountInv
  <1>4. PICK outcome \in SaveOutcomes, totals \in {topics, synced} :
          SaveIndex(outcome, Metadata(totals)) /\ (~ May("write") => totals = topics)
    BY DEF WriterSavesIndex, WritesLastIndex, ClosesInvalid, SyncAndSave, SaveAsIs, CountInv
  <1>5. IndexAddsUp'
    <2>1. /\ Metadata(totals).messages = count /\ Metadata(totals).parts = indexed
          /\ Metadata(totals).topics = totals
      BY DEF Metadata
    <2>2. ~ May("write") => /\ Metadata(totals).messages = Total(Metadata(totals).parts)
                            /\ Metadata(totals).messages = SumFunction(Metadata(totals).topics)
      BY <1>2, <1>4, <2>1 DEF CountInv
    <2> QED
      BY <1>4, <2>2, SaveAddsUp DEF CountInv
  <1>6. Unlisted' = Unlisted
    BY <1>1 DEF Unlisted
  <1>7. ~ May("write") => count' = Total(indexed') + Unlisted'
    BY <1>1, <1>6 DEF CountInv
  <1> QED
    BY <1>1, <1>3, <1>5, <1>7 DEF CountInv, May

\* One more message, on its topic and in the part that is not counted.
LEMMA AppendKeepsCount ==
  ASSUME Typed, DrainedOnce, PartsInv, CountInv, UNCHANGED scenario, WriterAppends
  PROVE  CountInv'
  <1> DEFINE last == Len(parts)
             size == Len(parts[last].messages)
  <1>1. PICK flush \in BOOLEAN : WriteMessage(hand, flush)
    BY DEF WriterAppends
  <1>2. hand \in Stamped /\ hand.topic \in Topics
    BY DEF WriterAppends, HandOK, TypeOK, Working, Typed, Stamped
  <1>3. /\ DOMAIN parts' = DOMAIN parts /\ last \in DOMAIN parts
        /\ \A i \in DOMAIN parts \ {last} : parts'[i] = parts[i]
    BY <1>1, <1>2, WrittenComesLast DEF Typed
  <1>4. parts \in Seq(PartType) /\ parts[last] \in PartType /\ last \in Nat \ {0}
    BY <1>3 DEF Typed, PartsOK
  <1>5. parts[last].messages \in Seq(Stamped) /\ size \in Nat /\ parts[last].flushed \in Nat
    BY <1>4 DEF PartType
  <1>6. /\ Len(parts') = last /\ Len(parts'[last].messages) = size + 1
        /\ parts'[last].flushed \in {parts[last].flushed, size + 1}
    BY <1>1, <1>2, <1>4, <1>5 DEF WriteMessage, PartType
  <1>7. ~ Finished
    BY DEF WriterAppends, Alive, Finished, PartsInv, DrainedOnce, Ending, Typed, HandOK
  <1>8. /\ UNCHANGED <<index, indexed, valid, main>> /\ thread' = "pop" /\ count' = count + 1
        /\ topics' = [topics EXCEPT ![hand.topic] = @ + 1] /\ valid
    BY <1>1, <1>7 DEF WriterAppends, WriteMessage, mainVars, Finished
  <1>9. ~ Listed /\ ~ Listed'
    BY <1>7, <1>8 DEF Finished, Listed
  <1>10. Unlisted = size /\ Unlisted' = size + 1
    BY <1>6, <1>9 DEF Unlisted
  <1>11. topics' \in [Topics -> Nat] /\ SumFunction(topics') = SumFunction(topics) + 1
    <2>1. topics \in [Topics -> Nat]
      BY DEF CountInv
    <2>2. /\ topics' \in [Topics -> Nat] /\ topics'[hand.topic] = topics[hand.topic] + 1
          /\ \A t \in Topics \ {hand.topic} : topics'[t] = topics[t]
      BY <1>2, <1>8, <2>1
    <2>3. SumOver(topics', Topics) = SumOver(topics, Topics) + 1
      BY <1>2, <2>1, <2>2, SumMore, TopicsAssumption
    <2>4. DOMAIN topics = Topics /\ DOMAIN topics' = Topics
      BY <2>1, <2>2
    <2> QED
      BY <2>2, <2>3, <2>4, SumIsOver
  <1> HIDE DEF size, last
  <1>12. \A i \in DOMAIN parts' : parts'[i].flushed <= Len(parts'[i].messages)
    <2>1. parts[last].flushed <= size
      BY <1>3 DEF CountInv, size
    <2>2. parts'[last].flushed <= Len(parts'[last].messages)
      BY <1>5, <1>6, <2>1
    <2> QED
      BY <1>3, <2>2 DEF CountInv
  <1>13. IndexAddsUp'
    BY <1>8 DEF CountInv, IndexAddsUp, May
  <1>14. ~ May("write") /\ main # "killed" => count' = Total(indexed') + Unlisted'
    <2>1. Total(indexed) \in Nat
      <3>1. [number |-> 0, messages |-> 0, complete |-> FALSE] \in Entry
        BY DEF Entry
      <3> QED
        BY <3>1, TotalGrows DEF PartsInv
    <2> QED
      BY <1>5, <1>8, <1>10, <2>1 DEF CountInv
  <1>15. count' = SumFunction(topics')
    BY <1>8, <1>11 DEF CountInv
  <1> QED
    BY <1>8, <1>11, <1>12, <1>13, <1>14, <1>15 DEF CountInv, May

\* The next part has no messages yet.
LEMMA OpenKeepsCount ==
  ASSUME Typed, PartsInv, CountInv, UNCHANGED scenario, WriterOpensPart PROVE CountInv'
  <1> DEFINE last == Len(parts)
  <1>1. /\ parts' = Append(parts, Part(last + 1))
        /\ UNCHANGED <<index, indexed, valid, main, count, topics, synced>>
        /\ thread = "open" /\ thread' = "append"
    BY DEF WriterOpensPart, OpenPart, memoryVars, mainVars
  <1>2. parts \in Seq(PartType) /\ last \in Nat \ {0}
    BY DEF Typed, PartsOK
  <1>3. Part(last + 1).flushed = 0 /\ Len(Part(last + 1).messages) = 0
    BY DEF Part
  <1>4. /\ Len(parts') = last + 1 /\ DOMAIN parts' = DOMAIN parts \union {last + 1}
        /\ \A i \in DOMAIN parts : parts'[i] = parts[i]
        /\ parts'[last + 1] = Part(last + 1)
    BY <1>1, <1>2
  <1>5. Unlisted = 0 /\ Unlisted' = 0
    BY <1>1, <1>3, <1>4 DEF Unlisted, Listed
  <1>6. valid'
    BY <1>1 DEF PartsInv, Typed, HandOK
  <1>7. \A i \in DOMAIN parts' : parts'[i].flushed <= Len(parts'[i].messages)
    BY <1>3, <1>4 DEF CountInv
  <1>8. IndexAddsUp'
    BY <1>1 DEF CountInv, IndexAddsUp, May
  <1>9. ~ May("write") /\ main # "killed" => count' = Total(indexed') + Unlisted'
    BY <1>1, <1>5 DEF CountInv
  <1> QED
    BY <1>1, <1>6, <1>7, <1>8, <1>9 DEF CountInv, May

\* A reindex counts what is there.
LEMMA ReindexKeepsCount ==
  ASSUME Typed, CountInv, UNCHANGED scenario, RunsReindex PROVE CountInv'
  <1>1. UNCHANGED <<parts, indexed, valid, thread, main, count, topics, synced>>
    BY DEF RunsReindex, memoryVars, mainVars, threadVars
  <1>2. PICK files \in {DOMAIN parts, {i \in DOMAIN parts : Readable(parts[i])}},
             outcome \in SaveOutcomes : Reindex(outcome, files)
    BY DEF RunsReindex
  <1>3. files \in SUBSET DOMAIN parts
    BY <1>2
  <1>4. index' = index \/ SaveIndex(outcome, Rebuilt(files))
    BY <1>2 DEF Reindex
  <1>5. \A i \in DOMAIN parts : parts[i].flushed <= Len(parts[i].messages)
    BY DEF CountInv
  <1>6. /\ Rebuilt(files).messages = Total(Rebuilt(files).parts)
        /\ Rebuilt(files).messages = SumFunction(Rebuilt(files).topics)
    BY <1>3, <1>5, RebuiltAddsUp
  <1>7. IndexAddsUp'
    <2>1. CASE index' = index
      BY <2>1 DEF CountInv, IndexAddsUp, May
    <2>2. CASE SaveIndex(outcome, Rebuilt(files))
      BY <1>6, <2>2, SaveAddsUp DEF CountInv
    <2> QED
      BY <1>4, <2>1, <2>2
  <1>8. Unlisted' = Unlisted
    BY <1>1 DEF Unlisted, Listed
  <1> QED
    BY <1>1, <1>7, <1>8 DEF CountInv, May

\* No other step counts.
LEMMA CountStep == Typed /\ DrainedOnce /\ PartsInv /\ CountInv /\ [Next]_vars => CountInv'
  <1> SUFFICES ASSUME Typed, DrainedOnce, PartsInv, CountInv, [Next]_vars PROVE CountInv'
    OBVIOUS
  <1>0. UNCHANGED scenario
    BY DEF Next, vars
  <1> DEFINE Rests == /\ UNCHANGED <<parts, index, indexed, count, topics, synced>>
                      /\ \/ May("write") \/ main' = "killed"
                         \/ main # "killed" /\ (Listed' <=> Listed)
                      /\ thread' = "open" => thread = "open"
                      /\ ~ valid' => ~ valid \/ thread = "open" \/ May("write")
  <1>1. ASSUME Rests PROVE CountInv'
    <2>1. ~ May("write") /\ main' # "killed" => main # "killed" /\ Unlisted' = Unlisted
      BY <1>1 DEF Unlisted
    <2>2. IndexAddsUp'
      BY <1>0, <1>1 DEF CountInv, IndexAddsUp, May
    <2> QED
      BY <1>0, <1>1, <2>1, <2>2 DEF CountInv, May
  <1>2. CASE WriterFinishesPart \/ ClosesWriter
    BY <1>0, <1>2, FinishKeepsCount
  <1>3. CASE WriterSavesIndex \/ WritesLastIndex \/ ClosesInvalid
    BY <1>0, <1>3, SaveKeepsCount
  <1>4. CASE WriterOpensPart
    BY <1>0, <1>4, OpenKeepsCount
  <1>5. CASE WriterAppends
    BY <1>0, <1>5, AppendKeepsCount
  <1>6. CASE RunsReindex
    BY <1>0, <1>6, ReindexKeepsCount
  <1>7. CASE WriterPops \/ WriterStops
    <2>1. Rests
      BY <1>7 DEF WriterPops, WriterStops, writerVars, memoryVars, mainVars, Alive, Listed
    <2> QED
      BY <1>1, <2>1
  <1>8. CASE WriterFails
    <2>1. Rests
      BY <1>8 DEF WriterFails, Invalidate, mainVars, Alive, Listed
    <2> QED
      BY <1>1, <2>1
  <1>9. CASE Subscribes \/ SubscribeFails \/ ChecksLoop \/ Wakes \/ NotesAdvertised \/ Unsubscribes
             \/ StopsQueue \/ Joins \/ Killed
    <2>1. /\ UNCHANGED <<parts, index, indexed, count, topics, synced, thread, valid>>
          /\ main \notin {"killed", "exited", "indexing"} \/ main' = "killed"
          /\ main' \notin {"exited", "indexing"}
      BY <1>9 DEF Subscribes, SubscribeFails, ChecksLoop, Wakes, NotesAdvertised, Unsubscribes,
                  StopsQueue, Joins, Killed, NoteDropped, writerVars, memoryVars, threadVars
    <2>2. Rests
      BY <2>1 DEF Listed
    <2> QED
      BY <1>1, <2>2
  <1>10. CASE Arrive \/ Interrupt \/ UNCHANGED vars
    <2>1. UNCHANGED <<parts, index, indexed, count, topics, synced, thread, valid, main>>
      BY <1>10 DEF Arrive, Interrupt, vars, writerVars, memoryVars, mainVars, threadVars
    <2>2. Rests
      BY <2>1 DEF Listed
    <2> QED
      BY <1>1, <2>2
  <1> QED
    BY <1>2, <1>3, <1>4, <1>5, <1>6, <1>7, <1>8, <1>9, <1>10 DEF Next, WriterThread, MainThread

\* Whatever the recorder saved, and whatever bag reindex made of what a kill
\* left: an index that is whole is true of its parts, and its totals are theirs;
\* one that was cut off is true of all parts but the last it lists.
THEOREM IndexesAreTrue == Spec => []IndexTellsTheTruth
  <1>1. DiskInv /\ CountInv => IndexTellsTheTruth
    BY DEF DiskInv, Described, IndexDescribes, Describes, IndexDescribesParts, CountInv,
           IndexTellsTheTruth
  <1>2. DiskInv => PartsInv
    BY DEF DiskInv
  <1> QED
    BY <1>1, <1>2, TypedInit, TypedStep, DrainedOnceInit, DrainedOnceStep, DiskInit, DiskStep,
       CountInit, CountStep, PTL DEF Spec
----------------------------------------------------------------
-----------------------------------------------------------------------------
(* What the last index counts is all that was written.                        *)

Sizes == [i \in DOMAIN parts |-> Len(parts[i].messages)]

\* Every save succeeds and every part closes.
Sound == ~ May("save") /\ ~ May("flush") /\ ~ May("close")

\* The count is that of the messages in the parts, all of them closed at the end.
WrittenInv ==
  /\ count = SumFunction(Sizes)
  /\ main \in {"indexing", "exited"} /\ valid /\ ~ May("close") => parts[Len(parts)].closed
  /\ main = "exited" /\ valid /\ Sound =>
       index # NoIndex /\ index.messages = count /\ index.dropped = noted

LEMMA WrittenInit == Init => WrittenInv
  <1> SUFFICES ASSUME Init PROVE WrittenInv
    OBVIOUS
  <1>1. parts = <<Part(1)>> /\ count = 0 /\ main = "subscribing"
    BY DEF Init, WriterInit
  <1>2. DOMAIN Sizes = {1} /\ \A i \in {1} : Sizes[i] = 0
    BY <1>1 DEF Sizes, Part
  <1>3. SumFunction(Sizes) = 0
    BY <1>2, SumIsOver, SumOfZeros, FS_Singleton
  <1> QED
    BY <1>1, <1>3 DEF WrittenInv

\* The sizes of the parts are numbers.
LEMMA SizesAreNumbers ==
  ASSUME PartsOK
  PROVE  /\ DOMAIN Sizes = DOMAIN parts /\ IsFiniteSet(DOMAIN parts)
         /\ \A i \in DOMAIN parts : Sizes[i] = Len(parts[i].messages) /\ Sizes[i] \in Nat
  <1>1. IsFiniteSet(DOMAIN parts)
    BY ListIsFinite DEF PartsOK
  <1>2. \A i \in DOMAIN parts : Len(parts[i].messages) \in Nat
    BY PartHoldsMessages
  <1> QED
    BY <1>1, <1>2 DEF Sizes

\* A message that is written is one more, in one part.
LEMMA SizesStep ==
  ASSUME Typed, count = SumFunction(Sizes), [Next]_vars
  PROVE  count' = SumFunction(Sizes)'
  <1> DEFINE D == DOMAIN parts
  <1>0. PartsOK /\ PartsOK'
    BY TypedStep DEF Typed
  <1>1. /\ DOMAIN Sizes = D /\ IsFiniteSet(D)
        /\ \A i \in D : Sizes[i] = Len(parts[i].messages) /\ Sizes[i] \in Nat
    BY <1>0, SizesAreNumbers
  <1>2. DOMAIN Sizes' = DOMAIN parts' /\ \A i \in DOMAIN parts' : Sizes'[i] = Len(parts'[i].messages)
    BY DEF Sizes
  <1>3. count = SumOver(Sizes, D) /\ SumFunction(Sizes') = SumOver(Sizes', DOMAIN parts')
    BY <1>1, <1>2, SumIsOver
  <1> HIDE DEF D
  <1>4. CASE WriterAppends
    <2>1. PICK flush \in BOOLEAN : WriteMessage(hand, flush)
      BY <1>4 DEF WriterAppends
    <2>2. hand \in Stamped /\ count' = count + 1
      BY <1>4, <2>1 DEF WriterAppends, WriteMessage, HandOK, TypeOK, Working, Typed
    <2>3. /\ DOMAIN parts' = D /\ Len(parts) \in D
          /\ \A i \in D \ {Len(parts)} : parts'[i] = parts[i]
          /\ parts'[Len(parts)].messages = Append(parts[Len(parts)].messages, hand)
      BY <1>0, <2>1, <2>2, WrittenComesLast DEF D
    <2>4. Sizes'[Len(parts)] = Sizes[Len(parts)] + 1
      <3>1. parts[Len(parts)].messages \in Seq(Stamped)
        BY <1>0, <2>3, PartHoldsMessages DEF D
      <3> QED
        BY <1>1, <1>2, <2>2, <2>3, <3>1
    <2>5. \A i \in D \ {Len(parts)} : Sizes'[i] = Sizes[i]
      BY <1>1, <1>2, <2>3
    <2>6. SumOver(Sizes', D) = SumOver(Sizes, D) + 1
      BY <1>1, <2>3, <2>4, <2>5, SumMore
    <2> QED
      BY <1>3, <2>2, <2>3, <2>6
  <1>5. CASE WriterOpensPart
    <2> DEFINE n == Len(parts) + 1
    <2>1. /\ DOMAIN parts' = D \union {n} /\ n \notin D /\ count' = count
          /\ \A i \in D : parts'[i] = parts[i]
          /\ parts'[n].messages = << >>
      BY <1>0, <1>5, OpenedIsEmpty DEF WriterOpensPart, OpenPart, memoryVars, D, PartsOK
    <2> HIDE DEF n
    <2>2. /\ DOMAIN parts' \ {n} = D /\ Sizes'[n] = 0
          /\ \A i \in D : Sizes'[i] = Sizes[i]
      BY <1>1, <1>2, <2>1
    <2>3. /\ IsFiniteSet(DOMAIN parts') /\ n \in DOMAIN parts'
          /\ \A i \in DOMAIN parts' : Sizes'[i] \in Nat
      BY <1>1, <2>1, <2>2, FS_AddElement
    <2>4. /\ SumOver(Sizes', DOMAIN parts') = 0 + SumOver(Sizes', D)
          /\ SumOver(Sizes', D) \in Nat
      BY <2>2, <2>3, SumSplits
    <2>5. SumOver(Sizes', D) = SumOver(Sizes, D)
      BY <1>1, <2>2, SumSame
    <2> QED
      BY <1>3, <2>1, <2>4, <2>5
  <1>6. CASE SameMessages /\ ~ WriterAppends
    <2>1. DOMAIN parts' = D /\ \A i \in D : Sizes'[i] = Sizes[i]
      BY <1>1, <1>2, <1>6 DEF SameMessages, D
    <2>2. count' = count
      BY <1>6, CountersMove DEF Arrive, WriterPops, writerVars, memoryVars, counters
    <2>3. SumOver(Sizes', D) = SumOver(Sizes, D)
      BY <1>1, <2>1, SumSame
    <2> QED
      BY <1>3, <2>1, <2>2, <2>3
  <1> QED
    BY <1>4, <1>5, <1>6, MessagesMove

\* A reindex of parts that are all closed finds every message.
LEMMA ReindexFindsAll ==
  ASSUME Typed, DiskInv, WrittenInv, main = "exited", valid, ~ May("close"),
         NEW files \in {DOMAIN parts, {i \in DOMAIN parts : Readable(parts[i])}}
  PROVE  Rebuilt(files).messages = count
  <1> DEFINE D == DOMAIN parts
             scanned == [i \in D |-> [number |-> parts[i].number, messages |-> Len(OnDisk(parts[i])),
                                      complete |-> parts[i].closed]]
             size == [i \in D |-> scanned[i].messages]
  <1>1. parts \in Seq(PartType) /\ D = 1 .. Len(parts) /\ Len(parts) \in Nat
    BY DEF Typed, PartsOK
  <1>2. ASSUME NEW i \in D PROVE parts[i].closed /\ Len(OnDisk(parts[i])) = Len(parts[i].messages)
    <2>1. parts[i].closed
      <3>1. CASE i = Len(parts)
        BY <3>1 DEF WrittenInv
      <3>2. CASE i # Len(parts)
        BY <1>1, <3>2 DEF DiskInv, KillInv, Known
      <3> QED
        BY <3>1, <3>2
    <2>2. parts[i].flushed = Len(parts[i].messages)
      BY <2>1 DEF DiskInv, PartsInv
    <2>3. parts[i].messages \in Seq(Stamped)
      BY PartHoldsMessages DEF Typed
    <2> QED
      BY <2>1, <2>2, <2>3 DEF OnDisk
  <1>3. files = D
    BY <1>2 DEF Readable
  <1>4. Rebuilt(files).messages = Total(scanned)
    BY <1>3 DEF Rebuilt
  <1>5. Total(scanned) = SumFunction(size) /\ DOMAIN size = D
    BY DEF Total
  <1>6. \A i \in D : size[i] = Len(OnDisk(parts[i]))
    OBVIOUS
  <1> HIDE DEF scanned, size
  <1>7. /\ DOMAIN Sizes = D /\ IsFiniteSet(D)
        /\ \A i \in D : Sizes[i] = Len(parts[i].messages)
    BY SizesAreNumbers DEF Typed
  <1>8. \A i \in D : size[i] = Sizes[i]
    BY <1>2, <1>6, <1>7
  <1>9. SumOver(size, D) = SumOver(Sizes, D)
    BY <1>7, <1>8, SumSame
  <1> QED
    BY <1>4, <1>5, <1>7, <1>9, SumIsOver DEF WrittenInv

\* The last index is saved when the last part is closed.
LEMMA WrittenStep ==
  Typed /\ DrainedOnce /\ DiskInv /\ WrittenInv /\ [Next]_vars => WrittenInv'
  <1> SUFFICES ASSUME Typed, DrainedOnce, DiskInv, WrittenInv, [Next]_vars PROVE WrittenInv'
    OBVIOUS
  <1>0. UNCHANGED scenario
    BY DEF Next, vars
  <1>1. count' = SumFunction(Sizes)'
    BY SizesStep DEF WrittenInv
  <1>2. SUFFICES /\ (main \in {"indexing", "exited"} /\ valid /\ ~ May("close")
                        => parts[Len(parts)].closed)'
                 /\ (main = "exited" /\ valid /\ Sound
                        => index # NoIndex /\ index.messages = count /\ index.dropped = noted)'
    BY <1>1 DEF WrittenInv
  <1> USE <1>0 DEF May, Sound
  <1>3. CASE ClosesWriter
    <2>1. PICK complete \in BOOLEAN : FinishPart(complete) /\ (complete \/ May("close"))
      BY <1>3 DEF ClosesWriter
    <2>2. main' = "indexing" /\ Len(parts') = Len(parts) /\ parts'[Len(parts)].closed = complete
      BY <1>3, <2>1, FinishAdds DEF ClosesWriter, DiskInv
    <2> QED
      BY <2>1, <2>2
  <1>4. CASE WritesLastIndex
    <2>1. PICK outcome \in SaveOutcomes : SaveIndex(outcome, Metadata(topics))
      BY <1>4 DEF WritesLastIndex, SyncAndSave
    <2>2. main = "indexing" /\ UNCHANGED <<parts, count, noted, valid>>
      BY <1>4 DEF WritesLastIndex, SyncAndSave
    <2>3. Sound => index' = Metadata(topics)
      BY <2>1, SaveLeaves
    <2>4. /\ Metadata(topics) # NoIndex /\ Metadata(topics).messages = count
          /\ Metadata(topics).dropped = noted
      BY AnIndexIsSomething DEF Metadata
    <2> QED
      BY <2>2, <2>3, <2>4 DEF WrittenInv
  <1>5. CASE ClosesInvalid
    BY <1>5 DEF ClosesInvalid, SaveAsIs, memoryVars
  <1>6. CASE RunsReindex
    <2>1. PICK files \in {DOMAIN parts, {i \in DOMAIN parts : Readable(parts[i])}},
               outcome \in SaveOutcomes : Reindex(outcome, files)
      BY <1>6 DEF RunsReindex
    <2>2. UNCHANGED <<parts, count, noted, valid, main>>
      BY <1>6 DEF RunsReindex, memoryVars, mainVars
    <2>3. Sound => index' = index \/ index' = Rebuilt(files)
      BY <2>1, SaveLeaves DEF Reindex
    <2>4. ASSUME main = "exited", valid, Sound
          PROVE  /\ Rebuilt(files) # NoIndex /\ Rebuilt(files).messages = count
                 /\ Rebuilt(files).dropped = noted
      <3>1. Rebuilt(files).messages = count
        BY <2>4, ReindexFindsAll
      <3>2. index # NoIndex /\ index.dropped = noted
        BY <2>4 DEF WrittenInv
      <3>3. Rebuilt(files) # NoIndex /\ Rebuilt(files).dropped = index.dropped
        BY <3>2, AnIndexIsSomething DEF Rebuilt
      <3> QED
        BY <3>1, <3>2, <3>3
    <2> QED
      BY <2>2, <2>3, <2>4 DEF WrittenInv
  <1>7. CASE WriterThread
    <2>1. main \notin {"indexing", "exited"} /\ main' = main
      BY <1>7 DEF WriterThread, WriterPops, WriterStops, WriterFinishesPart, WriterSavesIndex,
                  WriterOpensPart, WriterAppends, WriterFails, Alive, mainVars, DrainedOnce, Ending
    <2> QED
      BY <2>1
  <1>8. CASE \/ Subscribes \/ SubscribeFails \/ ChecksLoop \/ Wakes \/ NotesAdvertised
             \/ Unsubscribes \/ StopsQueue \/ Joins \/ Killed
    BY <1>8 DEF Subscribes, SubscribeFails, ChecksLoop, Wakes, NotesAdvertised, Unsubscribes,
                StopsQueue, Joins, Killed
  <1>9. CASE Arrive \/ Interrupt \/ UNCHANGED vars
    <2>1. UNCHANGED <<parts, index, count, noted, valid, main>>
      BY <1>9 DEF Arrive, Interrupt, vars, writerVars, memoryVars, mainVars
    <2> QED
      BY <2>1 DEF WrittenInv
  <1> QED
    BY <1>3, <1>4, <1>5, <1>6, <1>7, <1>8, <1>9 DEF Next, MainThread

\* A recording that its user stopped has written or noted as dropped all it
\* received; if every save succeeded and every part closed, that is what its
\* index says, and what bag reindex says again.
THEOREM StoppingLosesNothing == Spec => []StopLosesNothing
  <1>1. Typed /\ EveryMessageAccountedFor /\ DrainedOnce /\ DiskInv /\ WrittenInv => StopLosesNothing
    BY StoppedHasAll DEF StopLosesNothing, WrittenInv, Sound, DiskInv, PartsInv
  <1> QED
    BY <1>1, TypedInit, TypedStep, AccountedInit, AccountedStep, DrainedOnceInit, DrainedOnceStep,
       DiskInit, DiskStep, WrittenInit, WrittenStep, PTL DEF Spec
=============================================================================
