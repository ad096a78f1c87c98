-------------------------- MODULE TileWorkersProofs --------------------------
(* Why a job outlives its helpers: mActive counts exactly the helpers that    *)
(* have a call to wake for, or have not left the claim loop of it.            *)
EXTENDS TileWorkers, FiniteSetTheorems, TLAPS

\* The part of TypeOK that the argument needs.
Typed == /\ generation \in Nat /\ active \in Int
         /\ job \in Nat \union {NoJob}
         /\ pc \in [Threads -> HelperPlaces \union CallerPlaces]
         /\ pc[Caller] \in CallerPlaces /\ \A h \in Helpers : pc[h] \in HelperPlaces
         /\ seen \in [Helpers -> Nat]
         /\ mine \in [Threads -> [job : Nat \union {NoJob}, count : Nat]]
         /\ count \in Nat

Claiming == {"claim", "run", "ran", "last", "leave"}

\* Helpers the call in progress still has to wait for.
Pending == {h \in Helpers : seen[h] # generation \/ pc[h] \in Claiming}

\* mActive is their number; between calls there are none, and during a call the
\* job is the call's own.
PendingCounted ==
  /\ active = Cardinality(Pending)
  /\ ~ InCall => Pending = {}
  /\ InCall => ~ stopping /\ job = generation

\* A thread in the claim loop holds the job of the call in progress.
OwnJob == /\ \A h \in Helpers : pc[h] \in Claiming => mine[h].job = generation /\ seen[h] = generation
          /\ InCall => mine[Caller].job = generation

IInv == Typed /\ PendingCounted /\ OwnJob /\ NoCallMissed

LEMMA PendingFinite == IsFiniteSet(Pending) /\ Cardinality(Pending) \in Nat
<1>1. Pending \subseteq Helpers
  BY DEF Pending
<1> QED
  BY <1>1, HelpersAssumption, FS_Subset, FS_CardinalityType

LEMMA IInvInit == Init => IInv
<1> SUFFICES ASSUME Init PROVE IInv
  OBVIOUS
<1> USE HelpersAssumption, NoJobAssumption DEF Init, Threads
<1>1. Typed
  BY DEF Typed, HelperPlaces, CallerPlaces
<1>2. Pending = {} /\ ~ InCall
  BY DEF Pending, Claiming, InCall
<1>3. PendingCounted
  BY <1>2, FS_EmptySet DEF PendingCounted
<1>4. OwnJob /\ NoCallMissed
  BY <1>2 DEF OwnJob, NoCallMissed, Claiming
<1> QED
  BY <1>1, <1>3, <1>4 DEF IInv

\* What leaves the bookkeeping alone: who is pending, and who is in the call.
Same == /\ UNCHANGED <<generation, job, active, stopping, seen, mine>>
        /\ pc' \in [Threads -> HelperPlaces \union CallerPlaces]
        /\ pc'[Caller] \in CallerPlaces
        /\ \A h \in Helpers : /\ pc'[h] \in HelperPlaces
                              /\ pc'[h] \in Claiming <=> pc[h] \in Claiming
        /\ InCall' <=> InCall
        /\ count' \in Nat

LEMMA SameKeeps == IInv /\ Same => IInv'
<1> SUFFICES ASSUME IInv, Same PROVE IInv'
  OBVIOUS
<1> USE HelpersAssumption, NoJobAssumption DEF IInv
<1>1. Typed'
  BY DEF Typed, Same
<1>2. Pending' = Pending
  BY DEF Pending, Same, Claiming
<1>3. PendingCounted'
  BY <1>2 DEF PendingCounted, Same
<1>4. OwnJob' /\ NoCallMissed'
  BY DEF OwnJob, NoCallMissed, Same, Claiming
<1> QED
  BY <1>1, <1>3, <1>4

\* The call starts with every helper pending: none was left over.
LEMMA RunAllKeeps == ASSUME IInv, NEW n \in 1 .. MaxCount, RunAll(n) PROVE IInv'
<1> USE HelpersAssumption, NoJobAssumption, CallsAssumption DEF IInv, RunAll, Goes
<1>1. Pending = {}
  BY DEF PendingCounted, InCall
<1>2. \A h \in Helpers : seen[h] = generation /\ pc[h] \notin Claiming
  BY <1>1 DEF Pending
<1>3. Caller \in Threads /\ \A h \in Helpers : h \in Threads /\ h # Caller
  BY DEF Threads
<1>4. Typed'
  <2>1. Cardinality(Helpers) \in Nat
    BY FS_CardinalityType
  <2> QED
    BY <1>3, <2>1 DEF Typed, HelperPlaces, CallerPlaces
<1>5. InCall' /\ mine'[Caller].job = generation'
  BY <1>3 DEF Typed, InCall
<1>6. \A h \in Helpers : seen'[h] # generation' /\ seen'[h] = generation' - 1 /\ pc'[h] \notin Claiming
  BY <1>2, <1>3 DEF Typed
<1>7. Pending' = Helpers
  BY <1>6 DEF Pending
<1>8. PendingCounted'
  BY <1>5, <1>7 DEF PendingCounted
<1>9. OwnJob' /\ NoCallMissed'
  BY <1>5, <1>6 DEF OwnJob, NoCallMissed
<1> QED
  BY <1>4, <1>8, <1>9

\* The caller leaves only when nobody is pending.
LEMMA AwaitKeeps == IInv /\ Await => IInv'
<1> SUFFICES ASSUME IInv, Await PROVE IInv'
  OBVIOUS
<1> USE HelpersAssumption, NoJobAssumption DEF IInv, Goes
<1>1. Caller \in Threads /\ \A h \in Helpers : h \in Threads /\ h # Caller
  BY DEF Threads
<1>2. CASE ~ (remaining = 0 /\ active = 0)
  <2>1. Same
    BY <1>1, <1>2 DEF Same, Await, Typed, InCall, CallerPlaces
  <2> QED
    BY <2>1, SameKeeps
<1>3. CASE remaining = 0 /\ active = 0
  <2>1. Pending = {}
    BY <1>3, PendingFinite, FS_EmptySet DEF PendingCounted
  <2>2. Typed'
    BY <1>1, <1>3 DEF Typed, Await, CallerPlaces
  <2>3. Pending' = Pending
    BY <1>1, <1>3 DEF Pending, Await, Typed
  <2>4. ~ InCall'
    BY <1>1, <1>3 DEF InCall, Await, Typed
  <2>5. PendingCounted'
    BY <1>3, <2>1, <2>3, <2>4, FS_EmptySet DEF PendingCounted, Await
  <2>6. OwnJob' /\ NoCallMissed'
    BY <1>1, <1>3, <2>4 DEF OwnJob, NoCallMissed, Await, Typed
  <2> QED
    BY <2>2, <2>5, <2>6
<1> QED
  BY <1>2, <1>3

\* Leaving is where a helper stops being pending, and is subtracted.
LEMMA LeaveKeeps == ASSUME IInv, NEW h \in Helpers, Leave(h) PROVE IInv'
<1> USE HelpersAssumption, NoJobAssumption DEF IInv, Leave, Goes
<1>1. Caller \in Threads /\ \A g \in Helpers : g \in Threads /\ g # Caller
  BY DEF Threads
<1>2. h \in Pending /\ seen[h] = generation
  BY DEF Pending, OwnJob, Claiming
<1>3. Typed'
  BY <1>1 DEF Typed, HelperPlaces
<1>4. Pending' = Pending \ {h}
  BY <1>1, <1>2 DEF Pending, Typed, Claiming
<1>5. InCall /\ InCall'
  BY <1>1, <1>2 DEF PendingCounted, InCall, Typed
<1>6. Cardinality(Pending') = Cardinality(Pending) - 1
  BY <1>2, <1>4, PendingFinite, FS_RemoveElement
<1>7. PendingCounted'
  BY <1>5, <1>6 DEF PendingCounted
<1>8. OwnJob' /\ NoCallMissed'
  BY <1>1, <1>5 DEF OwnJob, NoCallMissed, Typed, Claiming
<1> QED
  BY <1>3, <1>7, <1>8

\* A helper that finds a new call takes its job, which is alive.
LEMMA CheckKeeps == ASSUME IInv, NEW h \in Helpers, Check(h) PROVE IInv'
<1> USE HelpersAssumption, NoJobAssumption DEF IInv, Goes
<1>1. Caller \in Threads /\ \A g \in Helpers : g \in Threads /\ g # Caller
  BY DEF Threads
<1>2. CASE stopping \/ generation = seen[h]
  <2>1. Same
    BY <1>1, <1>2 DEF Same, Check, Typed, InCall, HelperPlaces, Claiming, batchVars
  <2> QED
    BY <2>1, SameKeeps
<1>3. CASE ~ stopping /\ generation # seen[h]
  <2>1. h \in Pending /\ InCall
    BY <1>3 DEF Pending, PendingCounted
  <2>2. job = generation /\ job # NoJob
    BY <2>1 DEF PendingCounted, Typed
  <2>3. /\ pc' = [pc EXCEPT ![h] = "claim"]
        /\ seen' = [seen EXCEPT ![h] = generation]
        /\ mine' = [mine EXCEPT ![h] = [job |-> job, count |-> count]]
        /\ UNCHANGED <<batchVars, stopping, index>>
    BY <1>3, <2>2 DEF Check
  <2>4. Typed'
    BY <1>1, <2>3 DEF Typed, HelperPlaces, batchVars
  <2>5. Pending' = Pending
    BY <1>1, <2>1, <2>3 DEF Pending, Typed, Claiming, batchVars
  <2>6. InCall'
    BY <1>1, <2>1, <2>3 DEF InCall, Typed
  <2>7. PendingCounted'
    BY <2>1, <2>3, <2>5, <2>6 DEF PendingCounted, batchVars
  <2>8. OwnJob'
    BY <1>1, <2>1, <2>2, <2>3 DEF OwnJob, Typed, batchVars
  <2>9. NoCallMissed'
    BY <2>3 DEF NoCallMissed, Typed, batchVars
  <2> QED
    BY <2>4, <2>7, <2>8, <2>9
<1> QED
  BY <1>2, <1>3

LEMMA ClaimStepKeeps == ASSUME IInv, NEW t \in Threads, ClaimStep(t) PROVE IInv'
<1> USE HelpersAssumption, NoJobAssumption
<1>1. \A h \in Helpers : h \in Threads /\ h # Caller
  BY DEF Threads
<1>2. Same
  <2> USE <1>1 DEF Same, IInv, Typed, Goes, InCall, HelperPlaces, CallerPlaces, Claiming, batchVars
  <2>1. CASE Claim(t)
    BY <2>1 DEF Claim, Threads
  <2>2. CASE Ran(t)
    BY <2>2 DEF Ran, Threads
  <2>3. CASE Finish(t)
    BY <2>3 DEF Finish, Threads
  <2>4. CASE Last(t)
    BY <2>4 DEF Last, WakesCaller, Threads
  <2> QED
    BY <2>1, <2>2, <2>3, <2>4 DEF ClaimStep
<1> QED
  BY <1>2, SameKeeps

LEMMA StopKeeps == IInv /\ (Destroy \/ Stop \/ Join) => IInv'
<1> SUFFICES ASSUME IInv, Destroy \/ Stop \/ Join PROVE IInv'
  OBVIOUS
<1> USE HelpersAssumption, NoJobAssumption DEF IInv, batchVars
<1>1. Caller \in Threads /\ \A h \in Helpers : h \in Threads /\ h # Caller
  BY DEF Threads
<1>2. ~ InCall /\ ~ InCall' /\ pc' \in [Threads -> HelperPlaces \union CallerPlaces]
  BY <1>1 DEF InCall, Destroy, Stop, Join, Typed, WakesHelpers, Goes, HelperPlaces, CallerPlaces
<1>3. /\ pc'[Caller] \in CallerPlaces
      /\ \A h \in Helpers : pc'[h] \in HelperPlaces /\ (pc'[h] \in Claiming <=> pc[h] \in Claiming)
  BY <1>1 DEF Destroy, Stop, Join, Typed, WakesHelpers, Goes, HelperPlaces, CallerPlaces, Claiming
<1>4. UNCHANGED <<generation, job, count, active, seen, mine>>
  BY DEF Destroy, Stop, Join
<1>5. Typed'
  BY <1>2, <1>3, <1>4 DEF Typed
<1>6. Pending' = Pending
  BY <1>3, <1>4 DEF Pending
<1>7. PendingCounted'
  BY <1>2, <1>4, <1>6 DEF PendingCounted
<1>8. OwnJob' /\ NoCallMissed'
  BY <1>2, <1>3, <1>4 DEF OwnJob, NoCallMissed
<1> QED
  BY <1>5, <1>7, <1>8

LEMMA IInvStep == IInv /\ [Next]_vars => IInv'
<1> SUFFICES ASSUME IInv, [Next]_vars PROVE IInv'
  OBVIOUS
<1> USE HelpersAssumption, NoJobAssumption
<1>0. Caller \in Threads /\ \A h \in Helpers : h \in Threads /\ h # Caller
  BY DEF Threads
<1>1. CASE \E n \in 1 .. MaxCount : RunAll(n)
  BY <1>1, RunAllKeeps
<1>2. CASE Destroy \/ Stop \/ Join
  BY <1>2, StopKeeps
<1>3. CASE Wake
  <2>1. Same
    BY <1>0, <1>3 DEF Same, Wake, WakesHelpers, IInv, Typed, InCall, HelperPlaces, CallerPlaces, Claiming, batchVars
  <2> QED
    BY <2>1, SameKeeps
<1>4. CASE Await
  BY <1>4, AwaitKeeps
<1>5. CASE \E h \in Helpers : HelperStep(h)
  <2>1. PICK h \in Helpers : Check(h) \/ Leave(h) \/ Left(h)
    BY <1>5 DEF HelperStep
  <2>2. CASE Left(h)
    <3>1. Same
      BY <1>0, <2>2 DEF Same, Left, WakesCaller, IInv, Typed, InCall, HelperPlaces, CallerPlaces, Claiming, batchVars
    <3> QED
      BY <3>1, SameKeeps
  <2> QED
    BY <2>1, <2>2, CheckKeeps, LeaveKeeps
<1>6. CASE \E t \in Threads : ClaimStep(t)
  BY <1>6, ClaimStepKeeps
<1>7. CASE \E t \in Threads : Spurious(t)
  <2>1. Same
    BY <1>0, <1>7 DEF Same, Spurious, Goes, IInv, Typed, InCall, HelperPlaces, CallerPlaces, Claiming, batchVars, Threads
  <2> QED
    BY <2>1, SameKeeps
<1>8. CASE UNCHANGED vars
  <2>1. Same
    BY <1>8 DEF Same, IInv, Typed, InCall, vars, batchVars
  <2> QED
    BY <2>1, SameKeeps
<1> QED
  BY <1>1, <1>2, <1>3, <1>4, <1>5, <1>6, <1>7, <1>8 DEF Next, CallerStep

\* The inductive invariant holds in every behaviour.
LEMMA SpecIInv == Spec => []IInv
<1> QED
  BY IInvInit, IInvStep, PTL DEF Spec

\* Whatever the helpers and the order they run in, nobody runs a job whose call
\* has returned: JobAlive, what waiting for mActive is for (tile_workers.cpp).
THEOREM JobsOutliveHelpers == Spec => []JobAlive
<1>1. IInv => JobAlive
  <2> SUFFICES ASSUME IInv, NEW t \in Threads, pc[t] \in {"claim", "run"}
               PROVE InCall /\ mine[t].job = generation
    BY DEF JobAlive
  <2>1. CASE t = Caller
    BY <2>1 DEF IInv, OwnJob, InCall
  <2>2. CASE t \in Helpers
    <3>1. t \in Pending
      BY <2>2 DEF Pending, Claiming
    <3> QED
      BY <2>2, <3>1 DEF IInv, PendingCounted, OwnJob, Claiming
  <2> QED
    BY <2>1, <2>2 DEF Threads
<1> QED
  BY <1>1, SpecIInv, PTL

\* No helper misses a call, however late it wakes: mGeneration advances only
\* after every helper has left the call before (tile_workers.cpp).
THEOREM NoCallIsMissed == Spec => []NoCallMissed
<1>1. IInv => NoCallMissed
  BY DEF IInv
<1> QED
  BY <1>1, SpecIInv, PTL

-----------------------------------------------------------------------------
(* Why runAll is a blocking parallel for: mRemaining is the number of indices *)
(* nobody has claimed plus those claimed and not finished, and no two threads *)
(* have the same one.                                                         *)

Busy == {t \in Threads : pc[t] \in {"run", "ran"}}
Unclaimed == IF InCall /\ next < count THEN count - next ELSE 0

Counts == /\ next \in Nat /\ remaining \in Nat /\ index \in [Threads -> Nat]
          /\ remaining = Unclaimed + Cardinality(Busy)

\* A thread in the claim loop has the count of the call in progress.
OwnCount == /\ \A h \in Helpers : pc[h] \in Claiming => mine[h].count = count
            /\ InCall => mine[Caller].count = count

Distinct == \A t, u \in Threads :
  Running(t) => index[t] < next /\ (Running(u) /\ index[u] = index[t] => u = t)

LoopInv == IInv /\ Counts /\ OwnCount /\ Distinct

LEMMA BusyFinite == IsFiniteSet(Busy) /\ Cardinality(Busy) \in Nat
<1>1. IsFiniteSet(Threads)
  BY HelpersAssumption, FS_AddElement DEF Threads
<1>2. Busy \subseteq Threads
  BY DEF Busy
<1> QED
  BY <1>1, <1>2, FS_Subset, FS_CardinalityType

\* Whoever is in the claim loop is in the call.
LEMMA ClaimingInCall ==
  ASSUME IInv
  PROVE  /\ \A h \in Helpers : pc[h] \in Claiming => InCall
         /\ \A t \in Threads : pc[t] \in {"claim", "run", "ran", "last"} => InCall
<1>1. \A h \in Helpers : pc[h] \in Claiming => InCall
  BY DEF IInv, PendingCounted, Pending
<1> QED
  BY <1>1 DEF Claiming, Threads, InCall

LEMMA LoopInvInit == Init => LoopInv
<1> SUFFICES ASSUME Init PROVE LoopInv
  OBVIOUS
<1> USE HelpersAssumption
<1>1. IInv
  BY IInvInit
<1>2. Busy = {} /\ ~ InCall
  BY DEF Init, Busy, InCall, Threads
<1>3. Counts
  BY <1>2, FS_EmptySet DEF Counts, Unclaimed, Init
<1>4. OwnCount /\ Distinct
  BY <1>2 DEF OwnCount, Distinct, Running, Init, Claiming, Threads
<1> QED
  BY <1>1, <1>3, <1>4 DEF LoopInv

\* What neither claims nor finishes an index.
Idles == /\ UNCHANGED <<next, remaining, count, index>>
         /\ \A t \in Threads : pc'[t] \in {"run", "ran"} <=> pc[t] \in {"run", "ran"}
         /\ \A t \in Threads : Running(t)' => Running(t)
         /\ InCall' <=> InCall
         /\ OwnCount'

LEMMA IdlesKeeps == LoopInv /\ IInv' /\ Idles => LoopInv'
<1> SUFFICES ASSUME LoopInv, IInv', Idles PROVE LoopInv'
  OBVIOUS
<1>1. Busy' = Busy
  BY DEF Busy, Idles
<1>2. Counts'
  BY <1>1 DEF Counts, LoopInv, Unclaimed, Idles
<1>3. Distinct'
  BY DEF Distinct, LoopInv, Idles
<1> QED
  BY <1>2, <1>3 DEF LoopInv, Idles

LEMMA RunAllCounts == ASSUME LoopInv, NEW n \in 1 .. MaxCount, RunAll(n) PROVE LoopInv'
<1> USE HelpersAssumption, CallsAssumption DEF RunAll, Goes
<1>1. IInv'
  BY RunAllKeeps DEF LoopInv
<1>2. Caller \in Threads /\ \A h \in Helpers : h \in Threads /\ h # Caller
  BY DEF Threads
<1>3. Pending = {} /\ ~ InCall
  BY DEF LoopInv, IInv, PendingCounted, InCall
<1>4. \A t \in Threads : pc'[t] \notin {"run", "ran"}
  BY <1>2, <1>3 DEF Threads, Pending, Claiming, LoopInv, IInv, Typed
<1>5. Busy' = {}
  BY <1>4 DEF Busy
<1>6. InCall' /\ mine'[Caller].count = count'
  BY <1>2 DEF InCall, LoopInv, IInv, Typed
<1>7. Counts'
  BY <1>5, <1>6, FS_EmptySet DEF Counts, LoopInv, Unclaimed
<1>8. OwnCount'
  BY <1>2, <1>3, <1>6 DEF OwnCount, Pending, Claiming, LoopInv, IInv, Typed
<1>9. Distinct'
  BY <1>4 DEF Distinct, Running
<1> QED
  BY <1>1, <1>7, <1>8, <1>9 DEF LoopInv

LEMMA AwaitCounts == LoopInv /\ Await => LoopInv'
<1> SUFFICES ASSUME LoopInv, Await PROVE LoopInv'
  OBVIOUS
<1> USE HelpersAssumption DEF Goes
<1>1. IInv'
  BY AwaitKeeps DEF LoopInv
<1>2. Caller \in Threads /\ \A h \in Helpers : h \in Threads /\ h # Caller
  BY DEF Threads
<1>3. CASE ~ (remaining = 0 /\ active = 0)
  <2>1. Idles
    BY <1>2, <1>3 DEF Idles, Await, Running, InCall, OwnCount, LoopInv, IInv, Typed, Claiming
  <2> QED
    BY <1>1, <2>1, IdlesKeeps
<1>4. CASE remaining = 0 /\ active = 0
  <2>1. Pending = {}
    BY <1>4, PendingFinite, FS_EmptySet DEF LoopInv, IInv, PendingCounted
  <2>2. /\ ~ InCall'
        /\ \A t \in Threads : pc'[t] \notin {"run", "ran"} /\ (t # Caller => pc'[t] \notin Claiming)
    BY <1>2, <1>4, <2>1 DEF Await, InCall, Threads, Pending, Claiming, LoopInv, IInv, Typed
  <2>3. Busy' = {}
    BY <2>2 DEF Busy
  <2>4. Counts'
    BY <1>4, <2>2, <2>3, FS_EmptySet DEF Counts, LoopInv, Unclaimed, Await
  <2>5. OwnCount' /\ Distinct'
    BY <1>2, <2>2 DEF OwnCount, Distinct, Running
  <2> QED
    BY <1>1, <2>4, <2>5 DEF LoopInv
<1> QED
  BY <1>3, <1>4

\* A helper that starts takes the count along with the job.
LEMMA HelperCounts == ASSUME LoopInv, NEW h \in Helpers, HelperStep(h) PROVE LoopInv'
<1> USE HelpersAssumption DEF Goes, batchVars
<1>1. Caller \in Threads /\ \A g \in Helpers : g \in Threads /\ g # Caller
  BY DEF Threads
<1>2. IInv'
  BY IInvStep DEF LoopInv, Next
<1> USE <1>1 DEF Idles, Running, InCall, OwnCount, LoopInv, IInv, Typed, Claiming
<1>3. CASE Check(h)
  BY <1>2, <1>3, IdlesKeeps DEF Check
<1>4. CASE Leave(h)
  BY <1>2, <1>4, IdlesKeeps DEF Leave
<1>5. CASE Left(h)
  BY <1>2, <1>5, IdlesKeeps DEF Left, WakesCaller
<1> QED
  BY <1>3, <1>4, <1>5 DEF HelperStep

\* One index fewer unclaimed, one more thread busy.
LEMMA ClaimCounts == ASSUME LoopInv, NEW t \in Threads, Claim(t) PROVE LoopInv'
<1> USE HelpersAssumption DEF Claim, Goes
<1>1. IInv'
  BY IInvStep DEF LoopInv, Next, ClaimStep
<1>2. pc \in [Threads -> HelperPlaces \union CallerPlaces] /\ InCall
  BY ClaimingInCall DEF LoopInv, IInv, Typed
<1>3. mine[t].count = count
  BY <1>2 DEF LoopInv, OwnCount, Claiming, Threads
<1>4. t \notin Busy
  BY DEF Busy
<1>5. InCall'
  BY <1>2 DEF InCall, Threads
<1>6. OwnCount'
  BY <1>2, <1>5 DEF LoopInv, OwnCount, Claiming, Threads
<1>7. next \in Nat /\ count \in Nat /\ index \in [Threads -> Nat]
  BY DEF LoopInv, Counts, IInv, Typed
<1>8. CASE next >= count
  <2>1. Busy' = Busy
    BY <1>2, <1>3, <1>8 DEF Busy
  <2>2. Counts'
    BY <1>2, <1>3, <1>5, <1>7, <1>8, <2>1 DEF Counts, LoopInv, Unclaimed
  <2>3. Distinct'
    BY <1>2, <1>3, <1>7, <1>8 DEF Distinct, LoopInv, Running
  <2> QED
    BY <1>1, <1>6, <2>2, <2>3 DEF LoopInv
<1>9. CASE ~ (next >= count)
  <2>1. Busy' = Busy \union {t}
    BY <1>2, <1>3, <1>9 DEF Busy
  <2>2. Cardinality(Busy') = Cardinality(Busy) + 1
    BY <1>4, <2>1, BusyFinite, FS_AddElement
  <2>3. Counts'
    BY <1>2, <1>3, <1>5, <1>7, <1>9, <2>2, BusyFinite DEF Counts, LoopInv, Unclaimed
  <2>4. Distinct'
    BY <1>2, <1>3, <1>7, <1>9 DEF Distinct, LoopInv, Running
  <2> QED
    BY <1>1, <1>6, <2>3, <2>4 DEF LoopInv
<1> QED
  BY <1>7, <1>8, <1>9

\* One thread fewer busy, one index fewer to finish.
LEMMA FinishCounts == ASSUME LoopInv, NEW t \in Threads, Finish(t) PROVE LoopInv'
<1> USE HelpersAssumption DEF Finish, Goes
<1>1. IInv'
  BY IInvStep DEF LoopInv, Next, ClaimStep
<1>2. pc \in [Threads -> HelperPlaces \union CallerPlaces] /\ InCall
  BY ClaimingInCall DEF LoopInv, IInv, Typed
<1>3. t \in Busy
  BY DEF Busy
<1>4. InCall'
  BY <1>2 DEF InCall, Threads
<1>5. OwnCount'
  BY <1>2, <1>4 DEF LoopInv, OwnCount, Claiming, Threads
<1>6. Busy' = Busy \ {t}
  BY <1>2 DEF Busy
<1>7. Cardinality(Busy') = Cardinality(Busy) - 1 /\ Cardinality(Busy') \in Nat
  BY <1>3, <1>6, BusyFinite, FS_RemoveElement, FS_CardinalityType
<1>8. Counts'
  <2>1. Unclaimed' = Unclaimed /\ Unclaimed \in Nat
    BY <1>2, <1>4 DEF Counts, LoopInv, Unclaimed, IInv, Typed
  <2>2. remaining = Unclaimed + Cardinality(Busy)
    BY DEF Counts, LoopInv
  <2>3. remaining' = Unclaimed' + Cardinality(Busy') /\ remaining' \in Nat
    BY <1>7, <2>1, <2>2, BusyFinite
  <2> QED
    BY <2>3 DEF Counts, LoopInv
<1>9. Distinct'
  BY <1>2 DEF Distinct, LoopInv, Running
<1> QED
  BY <1>1, <1>5, <1>8, <1>9 DEF LoopInv

LEMMA LoopInvStep == LoopInv /\ [Next]_vars => LoopInv'
<1> SUFFICES ASSUME LoopInv, [Next]_vars PROVE LoopInv'
  OBVIOUS
<1> USE HelpersAssumption
<1>1. Caller \in Threads /\ \A h \in Helpers : h \in Threads /\ h # Caller
  BY DEF Threads
<1>2. IInv'
  BY IInvStep DEF LoopInv
<1>3. CASE \E n \in 1 .. MaxCount : RunAll(n)
  BY <1>3, RunAllCounts
<1>4. CASE Await
  BY <1>4, AwaitCounts
<1>5. CASE \E h \in Helpers : HelperStep(h)
  BY <1>5, HelperCounts
<1>6. CASE \E t \in Threads : Claim(t) \/ Finish(t)
  BY <1>6, ClaimCounts, FinishCounts
<1>7. CASE \/ Destroy \/ Wake \/ Stop \/ Join
           \/ \E t \in Threads : Ran(t) \/ Last(t) \/ Spurious(t)
  <2> USE <1>1 DEF Idles, Running, InCall, OwnCount, LoopInv, IInv, Typed, Claiming, batchVars, Goes, Threads
  <2>1. CASE Destroy \/ Join
    BY <1>2, <2>1, IdlesKeeps DEF Destroy, Join
  <2>2. CASE Wake \/ Stop
    BY <1>2, <2>2, IdlesKeeps DEF Wake, Stop, WakesHelpers
  <2>3. ASSUME NEW t \in Threads, Ran(t) \/ Spurious(t) PROVE LoopInv'
    BY <1>2, <2>3, IdlesKeeps DEF Ran, Spurious
  <2>4. ASSUME NEW t \in Threads, Last(t) PROVE LoopInv'
    BY <1>2, <2>4, IdlesKeeps DEF Last, WakesCaller
  <2> QED
    BY <1>7, <2>1, <2>2, <2>3, <2>4
<1>8. CASE UNCHANGED vars
  BY <1>2, <1>8, IdlesKeeps DEF Idles, Running, InCall, OwnCount, LoopInv, vars, batchVars
<1> QED
  BY <1>3, <1>4, <1>5, <1>6, <1>7, <1>8 DEF Next, CallerStep, ClaimStep

-----------------------------------------------------------------------------
(* The refinement of ParallelFor.                                             *)

Todo  == IF InCall THEN next .. mine[Caller].count - 1 ELSE {}
Doing == {<<mine[t].job, index[t]>> : t \in {u \in Threads : Running(u)}}

\* What the threads run are indices of the call in progress.
LEMMA DoingIs ==
  ASSUME LoopInv
  PROVE  /\ Doing = {<<generation, index[t]>> : t \in {u \in Threads : Running(u)}}
         /\ Doing # {} => InCall
<1>1. \A t \in Threads : Running(t) => mine[t].job = generation /\ InCall
  BY ClaimingInCall DEF Running, LoopInv, IInv, OwnJob, Claiming, Threads
<1> QED
  BY <1>1 DEF Doing

Hides == UNCHANGED <<generation, Todo, Doing, InCall>>

LEMMA ClaimMaps ==
  ASSUME LoopInv, LoopInv', NEW t \in Threads, Claim(t) PROVE Loop!Begin \/ Hides
<1> USE HelpersAssumption DEF Claim, Goes
<1>1. pc \in [Threads -> HelperPlaces \union CallerPlaces] /\ InCall /\ InCall' /\ t \notin {u \in Threads : Running(u)}
  BY ClaimingInCall DEF LoopInv, IInv, Typed, InCall, Threads, Running
<1>2. mine[t].count = count /\ mine[Caller].count = count
  BY <1>1 DEF LoopInv, OwnCount, Claiming, Threads
<1>3. next \in Nat /\ count \in Nat /\ index \in [Threads -> Nat]
  BY DEF LoopInv, Counts, IInv, Typed
<1>4. CASE next >= count
  <2>1. {u \in Threads : Running(u)}' = {u \in Threads : Running(u)}
    BY <1>1, <1>2, <1>4 DEF Running
  <2>2. Doing' = Doing
    BY <1>2, <1>4, <2>1 DEF Doing
  <2>3. Todo' = Todo
    BY <1>1, <1>2, <1>3, <1>4 DEF Todo
  <2> QED
    BY <1>1, <2>2, <2>3 DEF Hides
<1>5. CASE ~ (next >= count)
  <2>1. {u \in Threads : Running(u)}' = {u \in Threads : Running(u)} \union {t}
    BY <1>1, <1>2, <1>5 DEF Running
  <2>2. index' = [index EXCEPT ![t] = next]
    BY <1>2, <1>5
  <2>3. Doing' = Doing \union {<<generation, next>>}
    BY <1>1, <1>3, <2>1, <2>2, DoingIs DEF Doing, LoopInv, IInv, OwnJob, Claiming, Threads
  <2>4. next \in Todo /\ Todo' = Todo \ {next}
    BY <1>1, <1>2, <1>3, <1>5 DEF Todo
  <2> QED
    BY <1>1, <2>3, <2>4 DEF Loop!Begin, Todo, Doing
<1> QED
  BY <1>3, <1>4, <1>5

LEMMA RanMaps ==
  ASSUME LoopInv, LoopInv', NEW t \in Threads, Ran(t) PROVE Loop!End
<1> USE HelpersAssumption DEF Ran, Goes, batchVars
<1>1. /\ pc \in [Threads -> HelperPlaces \union CallerPlaces] /\ index \in [Threads -> Nat]
      /\ InCall /\ InCall'
  BY ClaimingInCall DEF LoopInv, Counts, IInv, Typed, InCall, Threads
<1>2. {u \in Threads : Running(u)}' = {u \in Threads : Running(u)} \ {t} /\ Running(t)
  BY <1>1 DEF Running
<1>3. Doing' = {<<generation, index[u]>> : u \in {v \in Threads : Running(v)} \ {t}}
  BY <1>2, DoingIs DEF Doing
<1>4. \A u \in {v \in Threads : Running(v)} \ {t} : index[u] # index[t]
  BY <1>2 DEF LoopInv, Distinct
<1>5. Doing' = Doing \ {<<generation, index[t]>>} /\ <<generation, index[t]>> \in Doing
  BY <1>1, <1>2, <1>3, <1>4, DoingIs
<1>6. Todo' = Todo
  BY <1>1 DEF Todo
<1> QED
  BY <1>1, <1>5, <1>6 DEF Loop!End, Todo, Doing

LEMMA RunAllMaps ==
  ASSUME LoopInv, LoopInv', NEW n \in 1 .. MaxCount, RunAll(n) PROVE Loop!Call
<1> USE HelpersAssumption, CallsAssumption DEF RunAll, Goes
<1>1. ~ InCall /\ InCall' /\ mine'[Caller].count = n /\ next' = 0
  BY DEF InCall, LoopInv, IInv, Typed, Threads
<1>2. Todo' = 0 .. n - 1 /\ 0 \in Todo'
  <2>1. Todo' = 0 .. mine'[Caller].count - 1
    BY <1>1 DEF Todo
  <2> QED
    BY <1>1, <2>1
<1>3. \A i \in Todo' : i \in Nat /\ 0 .. i \subseteq Todo'
  BY <1>2
<1>4. Doing = {}
  BY <1>1, DoingIs
<1>5. \A u \in Threads : ~ Running(u)'
  BY <1>1, ClaimingInCall DEF Running, LoopInv, IInv, Typed, Threads
<1>6. Doing' = {}
  BY <1>5 DEF Doing
<1> QED
  BY <1>1, <1>2, <1>3, <1>4, <1>6 DEF Loop!Call, Todo, Doing

\* The caller waits until everything has been claimed and finished.
LEMMA AwaitMaps == LoopInv /\ LoopInv' /\ Await => Loop!Return \/ Hides
<1> SUFFICES ASSUME LoopInv, LoopInv', Await PROVE Loop!Return \/ Hides
  OBVIOUS
<1> USE HelpersAssumption DEF Goes
<1>1. /\ pc \in [Threads -> HelperPlaces \union CallerPlaces] /\ Caller \in Threads
      /\ next \in Nat /\ count \in Nat /\ InCall /\ mine[Caller].count = count
  BY DEF LoopInv, Counts, OwnCount, IInv, Typed, Await, InCall, Threads
<1>2. {u \in Threads : Running(u)}' = {u \in Threads : Running(u)}
  BY <1>1 DEF Await, Running
<1>3. Doing' = Doing
  BY <1>2 DEF Doing, Await
<1>4. CASE remaining = 0 /\ active = 0
  <2>1. Unclaimed \in Nat /\ remaining = Unclaimed + Cardinality(Busy)
    BY <1>1 DEF LoopInv, Counts, Unclaimed
  <2>2. Unclaimed = 0 /\ Cardinality(Busy) = 0
    BY <1>4, <2>1, BusyFinite
  <2>3. Todo = {}
    BY <1>1, <2>2 DEF Unclaimed, Todo
  <2>4. Busy = {}
    BY <2>2, BusyFinite, FS_EmptySet
  <2>5. Doing = {}
    BY <2>4 DEF Doing, Running, Busy
  <2>6. ~ InCall' /\ Todo' = {} /\ generation' = generation
    BY <1>1, <1>4 DEF Await, InCall, Todo
  <2> QED
    BY <1>1, <1>3, <2>3, <2>5, <2>6 DEF Loop!Return, Todo, Doing
<1>5. CASE ~ (remaining = 0 /\ active = 0)
  <2>1. InCall' /\ Todo' = Todo
    BY <1>1, <1>5 DEF Await, InCall, Todo
  <2> QED
    BY <1>1, <1>3, <2>1 DEF Hides, Await
<1> QED
  BY <1>4, <1>5

LEMMA OthersHide ==
  ASSUME LoopInv, LoopInv', UNCHANGED <<generation, next, index>>, InCall' <=> InCall,
         mine'[Caller] = mine[Caller],
         \A t \in Threads : (Running(t)' <=> Running(t)) /\ (Running(t) => mine'[t] = mine[t])
  PROVE  Hides
<1>1. {u \in Threads : Running(u)}' = {u \in Threads : Running(u)}
  OBVIOUS
<1>2. Doing' = Doing
  BY <1>1 DEF Doing
<1>3. Todo' = Todo
  BY DEF Todo
<1> QED
  BY <1>2, <1>3 DEF Hides

LEMMA StepsMap == LoopInv /\ LoopInv' /\ [Next]_vars => Loop!Next \/ Hides
<1> SUFFICES ASSUME LoopInv, LoopInv', [Next]_vars PROVE Loop!Next \/ Hides
  OBVIOUS
<1>1. Caller \in Threads /\ \A h \in Helpers : h \in Threads /\ h # Caller
  BY HelpersAssumption DEF Threads
<1>2. CASE \E n \in 1 .. MaxCount : RunAll(n)
  BY <1>2, RunAllMaps DEF Loop!Next
<1>3. CASE Await
  BY <1>3, AwaitMaps DEF Loop!Next
<1>4. CASE \E t \in Threads : Claim(t) \/ Ran(t)
  BY <1>4, ClaimMaps, RanMaps DEF Loop!Next
<1>5. CASE \/ Destroy \/ Wake \/ Stop \/ Join
           \/ \E h \in Helpers : HelperStep(h)
           \/ \E t \in Threads : Finish(t) \/ Last(t) \/ Spurious(t)
  <2> USE <1>1, OthersHide DEF InCall, Running, LoopInv, IInv, Typed, Goes, batchVars
  <2>1. CASE Destroy \/ Join
    BY <2>1 DEF Destroy, Join
  <2>2. CASE Wake \/ Stop
    BY <2>2 DEF Wake, Stop, WakesHelpers
  <2>3. ASSUME NEW h \in Helpers, HelperStep(h) PROVE Hides
    <3>1. CASE Check(h)
      BY <3>1 DEF Check
    <3>2. CASE Leave(h)
      BY <3>2 DEF Leave
    <3>3. CASE Left(h)
      BY <3>3 DEF Left, WakesCaller
    <3> QED
      BY <2>3, <3>1, <3>2, <3>3 DEF HelperStep
  <2>4. ASSUME NEW t \in Threads, Finish(t) \/ Spurious(t) PROVE Hides
    BY <2>4 DEF Finish, Spurious
  <2>5. ASSUME NEW t \in Threads, Last(t) PROVE Hides
    BY <2>5 DEF Last, WakesCaller
  <2> QED
    BY <1>5, <2>1, <2>2, <2>3, <2>4, <2>5
<1>6. CASE UNCHANGED vars
  BY <1>6 DEF Hides, vars, batchVars, Todo, Doing, Running, InCall
<1> QED
  BY <1>2, <1>3, <1>4, <1>5, <1>6 DEF Next, CallerStep, ClaimStep

LEMMA SpecLoopInv == Spec => []LoopInv
<1> QED
  BY LoopInvInit, LoopInvStep, PTL DEF Spec

\* Type correctness: mRemaining and mActive never go below zero, which the last
\* test of either would turn into a call that never returns (tile_workers.cpp).
THEOREM Typing == Spec => []TypeOK
<1>1. Init => stopping \in BOOLEAN
  BY DEF Init
<1>2. stopping \in BOOLEAN /\ [Next]_vars => (stopping \in BOOLEAN)'
  BY DEF Next, RunAll, Destroy, CallerStep, Wake, Await, Stop, Join, HelperStep, Check, Leave, Left,
         ClaimStep, Claim, Ran, Finish, Last, Spurious, vars
<1>3. Spec => [](stopping \in BOOLEAN)
  BY <1>1, <1>2, PTL DEF Spec
<1>4. LoopInv => active \in Nat
  BY PendingFinite DEF LoopInv, IInv, PendingCounted
<1>5. LoopInv /\ stopping \in BOOLEAN => TypeOK
  BY <1>4 DEF LoopInv, Counts, IInv, Typed, TypeOK
<1> QED
  BY <1>3, <1>5, SpecLoopInv, PTL

\* runAll is a blocking parallel for, for any number of helpers and any counts:
\* each index of a call runs once, none before or after it (tile_workers.h).
THEOREM RunAllIsAParallelFor == Spec => RunsEachOnce
<1>1. Init => Loop!Init
  <2> SUFFICES ASSUME Init PROVE Loop!Init
    OBVIOUS
  <2>1. ~ InCall /\ \A t \in Threads : ~ Running(t)
    BY DEF Init, InCall, Running, Threads
  <2> QED
    BY <2>1 DEF Loop!Init, Init
<1>2. LoopInv /\ LoopInv' /\ [Next]_vars
      => [Loop!Next]_<<generation, Todo, Doing, InCall>>
  BY StepsMap DEF Hides
<1> QED
  BY <1>1, <1>2, SpecLoopInv, PTL DEF Spec, RunsEachOnce, Loop!Spec, Todo, Doing
=============================================================================
