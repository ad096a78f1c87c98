----------------------------- MODULE TileWorkers -----------------------------
(* dashboard/widgets/map/tile_workers.cpp: a fixed pool of helper threads and *)
(* one caller at a time, which runs an indexed job across them and waits.     *)
(* A region under mMutex is one step; mNext and mRemaining are atomics, and   *)
(* what is done to them outside the mutex is a step of its own.  A thread in  *)
(* a condition variable is "asleep" or "dozing" until a notify_all sends it   *)
(* back to its predicate.                                                     *)
(*                                                                            *)
(* The pool has helpers (without any, runAll is a plain loop), and a job is   *)
(* known by the call it belongs to: it lives while that call has not          *)
(* returned.                                                                  *)
EXTENDS Integers, FiniteSets

CONSTANTS
  Helpers,   \* the threads of mThreads
  Caller,    \* the zenoh thread that calls runAll, or destroys the pool
  NoJob,     \* nullptr
  MaxCalls,  \* calls of runAll in a behaviour, a bound of the model
  MaxCount   \* the largest count, a bound of the model

ASSUME HelpersAssumption == IsFiniteSet(Helpers) /\ Helpers # {} /\ Caller \notin Helpers
ASSUME NoJobAssumption == NoJob \notin Nat
ASSUME CallsAssumption == MaxCalls \in Nat /\ MaxCount \in Nat

VARIABLES
  generation, \* mGeneration
  job,        \* mJob, as the number of the call that owns it
  count,      \* mCount
  next,       \* mNext
  remaining,  \* mRemaining
  active,     \* mActive
  stopping,   \* mStopping
  pc,         \* where each thread is
  seen,       \* the local of workerLoop
  mine,       \* each thread's own copy of job and count
  index       \* the index each thread claimed last

batchVars == <<generation, job, count, next, remaining, active>>
vars == <<batchVars, stopping, pc, seen, mine, index>>

Threads == Helpers \union {Caller}

Init == /\ generation = 0 /\ job = NoJob /\ count = 0
        /\ next = 0 /\ remaining = 0 /\ active = 0
        /\ stopping = FALSE
        /\ pc = [t \in Threads |-> IF t = Caller THEN "idle" ELSE "check"]
        /\ seen = [h \in Helpers |-> 0]
        /\ mine = [t \in Threads |-> [job |-> NoJob, count |-> 0]]
        /\ index = [t \in Threads |-> 0]

Goes(t, place) == pc' = [pc EXCEPT ![t] = place]

\* notify_all() on mWake and on mDone: whoever waits looks again.
WakesHelpers(place) ==
  pc' = [t \in Threads |-> IF t = Caller THEN place
                           ELSE IF pc[t] = "asleep" THEN "check" ELSE pc[t]]
WakesCaller(t, place) ==
  pc' = [u \in Threads |-> IF u = t THEN place
                           ELSE IF u = Caller /\ pc[u] = "dozing" THEN "await" ELSE pc[u]]
-----------------------------------------------------------------------------
(* The caller.                                                                *)

\* Wrong on purpose: counts only the helpers that can get an index.
RunAll_AsNeeded(n) ==
  /\ pc[Caller] = "idle" /\ ~ stopping
  /\ generation < MaxCalls
  /\ generation' = generation + 1
  /\ job' = generation + 1
  /\ count' = n
  /\ next' = 0 /\ remaining' = n
  /\ active' = IF n < Cardinality(Helpers) THEN n ELSE Cardinality(Helpers)
  /\ mine' = [mine EXCEPT ![Caller] = [job |-> generation + 1, count |-> n]]
  /\ Goes(Caller, "wake")
  /\ UNCHANGED <<stopping, seen, index>>

RunAll(n) ==
  /\ pc[Caller] = "idle" /\ ~ stopping
  /\ generation < MaxCalls
  /\ generation' = generation + 1
  /\ job' = generation + 1
  /\ count' = n
  /\ next' = 0 /\ remaining' = n
  /\ active' = Cardinality(Helpers)
  /\ mine' = [mine EXCEPT ![Caller] = [job |-> generation + 1, count |-> n]]
  /\ Goes(Caller, "wake")
  /\ UNCHANGED <<stopping, seen, index>>

Wake == /\ pc[Caller] = "wake"
        /\ WakesHelpers("claim")
        /\ UNCHANGED <<batchVars, stopping, seen, mine, index>>

\* Wrong on purpose: waits for the jobs, not for the helpers to be done claiming.
Await_JobsOnly ==
  /\ pc[Caller] = "await"
  /\ IF remaining = 0
     THEN job' = NoJob /\ count' = 0 /\ Goes(Caller, "idle")
     ELSE Goes(Caller, "dozing") /\ UNCHANGED <<job, count>>
  /\ UNCHANGED <<generation, next, remaining, active, stopping, seen, mine, index>>

\* mDone.wait(): every job finished and every helper out of its claim loop.
Await ==
  /\ pc[Caller] = "await"
  /\ IF remaining = 0 /\ active = 0
     THEN job' = NoJob /\ count' = 0 /\ Goes(Caller, "idle")
     ELSE Goes(Caller, "dozing") /\ UNCHANGED <<job, count>>
  /\ UNCHANGED <<generation, next, remaining, active, stopping, seen, mine, index>>

\* The destructor: never during a call (tile_source.h:229).
Destroy == /\ pc[Caller] = "idle" /\ ~ stopping
           /\ stopping' = TRUE
           /\ Goes(Caller, "stop")
           /\ UNCHANGED <<batchVars, seen, mine, index>>

\* Wrong on purpose: wakes nobody.
Stop_Silent == /\ pc[Caller] = "stop"
               /\ Goes(Caller, "join")
               /\ UNCHANGED <<batchVars, stopping, seen, mine, index>>

Stop == /\ pc[Caller] = "stop"
        /\ WakesHelpers("join")
        /\ UNCHANGED <<batchVars, stopping, seen, mine, index>>

Join == /\ pc[Caller] = "join"
        /\ \A h \in Helpers : pc[h] = "exited"
        /\ Goes(Caller, "gone")
        /\ UNCHANGED <<batchVars, stopping, seen, mine, index>>
-----------------------------------------------------------------------------
(* The helpers.                                                               *)

\* mWake.wait() and the snapshot, under the mutex.
Check(h) ==
  /\ pc[h] = "check"
  /\ IF stopping THEN Goes(h, "exited") /\ UNCHANGED <<seen, mine>>
     ELSE IF generation = seen[h] THEN Goes(h, "asleep") /\ UNCHANGED <<seen, mine>>
     ELSE /\ seen' = [seen EXCEPT ![h] = generation]
          /\ mine' = [mine EXCEPT ![h] = [job |-> job, count |-> count]]
          /\ Goes(h, IF job = NoJob THEN "leave" ELSE "claim")
  /\ UNCHANGED <<batchVars, stopping, index>>

Leave(h) ==
  /\ pc[h] = "leave"
  /\ active' = active - 1
  /\ Goes(h, "left")
  /\ UNCHANGED <<generation, job, count, next, remaining, stopping, seen, mine, index>>

\* Wrong on purpose: tells nobody.
Left_Silent(h) ==
  /\ pc[h] = "left"
  /\ Goes(h, "check")
  /\ UNCHANGED <<batchVars, stopping, seen, mine, index>>

Left(h) ==
  /\ pc[h] = "left"
  /\ WakesCaller(h, "check")
  /\ UNCHANGED <<batchVars, stopping, seen, mine, index>>
-----------------------------------------------------------------------------
(* claim(), in the caller and in the helpers.                                 *)

\* Wrong on purpose: load and store, not fetch_add.
Claim_Stale(t) ==
  /\ pc[t] = "claim"
  /\ \E old \in {next, IF next = 0 THEN 0 ELSE next - 1} :
       /\ next' = old + 1
       /\ IF old >= mine[t].count
          THEN Goes(t, IF t = Caller THEN "await" ELSE "leave") /\ UNCHANGED index
          ELSE index' = [index EXCEPT ![t] = old] /\ Goes(t, "run")
  /\ UNCHANGED <<generation, job, count, remaining, active, stopping, seen, mine>>

Claim(t) ==
  /\ pc[t] = "claim"
  /\ next' = next + 1
  /\ IF next >= mine[t].count
     THEN Goes(t, IF t = Caller THEN "await" ELSE "leave") /\ UNCHANGED index
     ELSE index' = [index EXCEPT ![t] = next] /\ Goes(t, "run")
  /\ UNCHANGED <<generation, job, count, remaining, active, stopping, seen, mine>>

\* job(index) returns.
Ran(t) == /\ pc[t] = "run"
          /\ Goes(t, "ran")
          /\ UNCHANGED <<batchVars, stopping, seen, mine, index>>

Finish(t) ==
  /\ pc[t] = "ran"
  /\ remaining' = remaining - 1
  /\ Goes(t, IF remaining = 1 THEN "last" ELSE "claim")
  /\ UNCHANGED <<generation, job, count, next, active, stopping, seen, mine, index>>

\* The thread that finished the last job notifies, under the mutex.
Last(t) == /\ pc[t] = "last"
           /\ WakesCaller(t, "claim")
           /\ UNCHANGED <<batchVars, stopping, seen, mine, index>>
-----------------------------------------------------------------------------
\* A condition variable may wake a thread for nothing.
Spurious(t) == \/ pc[t] = "asleep" /\ Goes(t, "check") /\ UNCHANGED <<batchVars, stopping, seen, mine, index>>
               \/ pc[t] = "dozing" /\ Goes(t, "await") /\ UNCHANGED <<batchVars, stopping, seen, mine, index>>

HelperStep(h) == Check(h) \/ Leave(h) \/ Left(h)
ClaimStep(t)  == Claim(t) \/ Ran(t) \/ Finish(t) \/ Last(t)
CallerStep    == Wake \/ Await \/ Stop \/ Join

Next == \/ \E n \in 1 .. MaxCount : RunAll(n)
        \/ Destroy
        \/ CallerStep
        \/ \E h \in Helpers : HelperStep(h)
        \/ \E t \in Threads : ClaimStep(t) \/ Spurious(t)

Spec == Init /\ [][Next]_vars

\* Threads that can run do; nobody has to call, or to destroy the pool.
Fairness == /\ WF_vars(CallerStep) /\ WF_vars(ClaimStep(Caller))
            /\ \A h \in Helpers : WF_vars(HelperStep(h) \/ ClaimStep(h))

FairSpec == Spec /\ Fairness
-----------------------------------------------------------------------------
InCall == pc[Caller] \in {"wake", "claim", "run", "ran", "last", "await", "dozing"}
HelperPlaces == {"check", "asleep", "claim", "run", "ran", "last", "leave", "left", "exited"}
CallerPlaces == {"idle", "wake", "claim", "run", "ran", "last", "await", "dozing",
                 "stop", "join", "gone"}

\* Every variable keeps its type; the counters do not go below zero.
TypeOK ==
  /\ generation \in Nat /\ next \in Nat /\ count \in Nat
  /\ remaining \in Nat /\ active \in Nat
  /\ job \in Nat \union {NoJob}
  /\ stopping \in BOOLEAN
  /\ pc \in [Threads -> HelperPlaces \union CallerPlaces]
  /\ pc[Caller] \in CallerPlaces /\ \A h \in Helpers : pc[h] \in HelperPlaces
  /\ seen \in [Helpers -> Nat]
  /\ mine \in [Threads -> [job : Nat \union {NoJob}, count : Nat]]
  /\ index \in [Threads -> Nat]

\* A thread about to run a job, or running it, runs the job of the call in
\* progress: no straggler uses a job whose captures died with its call
\* (tile_workers.h:79, "a straggler leaks into the next batch").
JobAlive == \A t \in Threads : pc[t] \in {"claim", "run"} => InCall /\ mine[t].job = generation

\* A helper never misses a call: it wakes for each one, or has yet to.
NoCallMissed == \A h \in Helpers : seen[h] \in {generation, generation - 1}

\* runAll is a blocking parallel for (ParallelFor).
Running(t) == pc[t] = "run"
Loop == INSTANCE ParallelFor WITH
          calls  <- generation,
          todo   <- IF InCall THEN next .. mine[Caller].count - 1 ELSE {},
          doing  <- {<<mine[t].job, index[t]>> : t \in {u \in Threads : Running(u)}},
          inside <- InCall
RunsEachOnce == Loop!Spec

\* A call returns, and a destroyed pool has joined its threads: every wake-up
\* reaches the thread that waits for it.
CallsReturn == InCall ~> ~ InCall
PoolJoins   == stopping ~> pc[Caller] = "gone"
=============================================================================
