---------------------------- MODULE MessageQueue ----------------------------
(* libs/bag/include/bag/queue.h: the bounded queue between the zenoh          *)
(* callbacks and the writer thread.  mutex_ makes push, stop and the end of   *)
(* pop one atomic step each.                                                  *)
EXTENDS Naturals, Sequences

CONSTANTS Capacity  \* capacity_

\* push() on a queue of no capacity takes the front of an empty deque.
ASSUME CapacityAssumption == Capacity \in Nat \ {0}

VARIABLES queue,    \* queue_, oldest first
          dropped,  \* dropped_
          stopped   \* stopped_

queueVars == <<queue, dropped, stopped>>

QueueInit == queue = << >> /\ dropped = 0 /\ stopped = FALSE

Full == Len(queue) >= Capacity

\* Wrong on purpose: a queue without a bound.
Push_Grows(m) == queue' = Append(queue, m) /\ UNCHANGED <<dropped, stopped>>

\* Wrong on purpose: drops the message that does not fit instead of the oldest.
Push_DropsNewest(m) ==
  /\ queue' = IF Full THEN queue ELSE Append(queue, m)
  /\ dropped' = IF Full THEN dropped + 1 ELSE dropped
  /\ UNCHANGED stopped

\* Wrong on purpose: an uncounted drop.
Push_Silent(m) ==
  /\ queue' = Append(IF Full THEN Tail(queue) ELSE queue, m)
  /\ UNCHANGED <<dropped, stopped>>

\* The oldest makes room and is counted.  The queue never holds more than
\* Capacity, so the loop of push() runs at most once.
Push(m) ==
  /\ queue' = Append(IF Full THEN Tail(queue) ELSE queue, m)
  /\ dropped' = IF Full THEN dropped + 1 ELSE dropped
  /\ UNCHANGED stopped

\* pop() with a message; what it returns is Head(queue).
Pop == queue # << >> /\ queue' = Tail(queue) /\ UNCHANGED <<dropped, stopped>>

\* Wrong on purpose: stop() ends the loop with messages still queued.
PopEnds_Undrained == stopped

\* pop() returns nullopt: stopped and drained.
PopEnds == queue = << >> /\ stopped

Stop == stopped' = TRUE /\ UNCHANGED <<queue, dropped>>
=============================================================================
