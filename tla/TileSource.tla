----------------------------- MODULE TileSource ------------------------------
(* dashboard/widgets/map: one TileSource and the part of MapWidget that       *)
(* drives it.  The paint asks for what the viewport lacks, zenoh threads      *)
(* answer, a coalesced call on the GUI thread drains what arrived into the    *)
(* cache, and one timer wakes the widget for the tiles that failed.           *)
(*                                                                            *)
(* Nothing polls: whether a tile is ever drawn rests on every path leaving    *)
(* some wake-up behind.  The time a region holds mMutex is one step; the      *)
(* mOnTilesReady() that follows it, outside the lock, is another.             *)
EXTENDS Integers, FiniteSets, SequencesExt

CONSTANTS
  Tiles,          \* the tiles of the pyramid
  OutTiles,       \* those at levels the archive does not hold
  Views,          \* camera positions
  Shown,          \* Shown[view][range], the tiles of the viewport, in order
  Ring,           \* Ring[view][range], what is asked for and never drawn
  MaxPerRequest,  \* kMaxTilesPerRequest
  MaxDelay,       \* kMaxRetry, in units of kFirstRetry
  MinTiles, MaxTiles, \* TileCache::kMinTiles, kMaxTiles
  InstantPaint,   \* no retry comes due while a paint is running
  Faults,         \* which requests may go wrong: subset of FaultKinds
  MaxFaults,      \* how often, a bound of the model
  MaxMoves        \* camera moves, a bound of the model

FaultKinds == {"send", "silence", "refusal", "tile"}
Ranges == {"unknown", "archive", "zero"}

ASSUME TilesAssumption == IsFiniteSet(Tiles) /\ OutTiles \subseteq Tiles
ASSUME GridAssumption == /\ Shown \in [Views -> [Ranges -> Seq(Tiles)]]
                         /\ Ring \in [Views -> [Ranges -> Seq(Tiles)]]
\* Once the range is known the walk keeps to it: to levels the archive holds, or,
\* with the 0-0 of an error reply, to level 0, which it holds or does not.
ASSUME LevelsAssumption ==
  \A v \in Views : \A r \in {"archive", "zero"} :
    LET asked == ToSet(Shown[v][r]) \union ToSet(Ring[v][r])
    IN  asked \intersect OutTiles = {} \/ asked \subseteq OutTiles
ASSUME BoundsAssumption ==
  /\ MaxPerRequest \in Nat \ {0} /\ MaxDelay \in Nat \ {0}
  /\ MinTiles \in Nat /\ MaxTiles \in Nat /\ MinTiles <= MaxTiles
  /\ MaxFaults \in Nat /\ MaxMoves \in Nat
ASSUME SwitchesAssumption ==
  InstantPaint \in BOOLEAN /\ Faults \subseteq FaultKinds

VARIABLES
  view,      \* the camera
  range,     \* mArchiveZoom: unset, the archive's, or the 0-0 of an error reply
  learned,   \* mArchiveZoomLearned
  cache,     \* TileCache::mOrder, least recently used first
  inFlight,  \* mInFlight
  mailbox,   \* mMailbox
  failures,  \* mFailures, how often each tile is in it
  backoff,   \* mBackoff: attempts (0 is no entry) and the time left to retryAt
  queries,   \* zenoh queries: the tiles not delivered yet, and how it stands
  owed,      \* mOnTilesReady() calls zenoh threads are about to make
  pending,   \* mDrainPending
  posted,    \* drain invocations in the GUI thread's queue
  phase,     \* what the GUI thread is doing
  list,      \* the request list of the paint under way
  drawn,     \* mVisible, what it draws
  dirty,     \* update() was called and no paint has begun since
  timer,     \* mRetryTimer: time left, or Off
  moves, faults \* how many so far

Off == -1

askVars   == <<inFlight, queries>>
boxVars   == <<mailbox, failures, owed>>
postVars  == <<pending, posted>>
rangeVars == <<range, learned>>
guiVars   == <<cache, backoff>>
bounds    == <<moves, faults>>
vars == <<view, rangeVars, guiVars, askVars, boxVars, postVars, phase, list, drawn, dirty, timer,
          bounds>>

Smaller(a, b) == IF a < b THEN a ELSE b
Cached(t) == \E i \in DOMAIN cache : cache[i] = t
Waits(t)  == backoff[t].left > 0
Delay(attempts) == LET doubled == 2 ^ (attempts - 1)
                   IN  IF doubled \in 1 .. MaxDelay THEN doubled ELSE MaxDelay
NoBackoff == [attempts |-> 0, left |-> 0]

Init == /\ view \in Views /\ range = "unknown" /\ learned = FALSE
        /\ cache = <<>> /\ inFlight = {} /\ mailbox = <<>>
        /\ failures = [t \in Tiles |-> 0]
        /\ backoff = [t \in Tiles |-> NoBackoff]
        /\ queries = {} /\ owed = 0 /\ pending = FALSE /\ posted = 0
        /\ phase = "idle" /\ list = <<>> /\ drawn = <<>> /\ dirty = TRUE /\ timer = Off
        /\ moves = 0 /\ faults = 0

Fault(kind) == kind \in Faults /\ faults < MaxFaults /\ faults' = faults + 1
-----------------------------------------------------------------------------
(* The GUI thread: input, and the paint.                                      *)
MoveCamera(v) == /\ phase = "idle" /\ moves < MaxMoves
                 /\ view' = v /\ dirty' = TRUE /\ moves' = moves + 1
                 /\ UNCHANGED <<rangeVars, guiVars, askVars, boxVars, postVars,
                                phase, list, drawn, timer, faults>>

\* refreshTiles() reads the range the server reported and lays out the walk.
PaintWalks == /\ phase = "idle" /\ dirty
              /\ dirty' = FALSE /\ phase' = "walked"
              /\ list' = Shown[view][range] \o Ring[view][range]
              /\ drawn' = Shown[view][range]
              /\ UNCHANGED <<view, rangeVars, guiVars, askVars, boxVars, postVars,
                             timer, bounds>>

Missing(t) == ~ Cached(t) /\ ~ Waits(t) /\ t \notin inFlight
MissingUpTo(i) == {t \in {list[j] : j \in 1 .. i} : Missing(t)}
Ask == {t \in Tiles : \E i \in DOMAIN list : /\ list[i] = t /\ Missing(t)
                                            /\ Cardinality(MissingUpTo(i)) <= MaxPerRequest}

RequestNothing == /\ Ask = {}
                  /\ UNCHANGED <<inFlight, queries, failures, owed, pending, posted, faults>>

RequestSent == /\ Ask # {}
               /\ inFlight' = inFlight \union Ask
               /\ queries' = queries \union {[left |-> Ask, stands |-> "sent"]}
               /\ UNCHANGED <<failures, owed, pending, posted, faults>>

\* get() failed: the client has called back with Failed, and request() then
\* fails the batch again.  Both on this thread, with their signals.
RequestNotSent == /\ Ask # {} /\ Fault("send")
                  /\ failures' = [t \in Tiles |-> failures[t] + IF t \in Ask THEN 2 ELSE 0]
                  /\ pending' = TRUE
                  /\ posted' = posted + IF pending THEN 0 ELSE 1
                  /\ UNCHANGED <<inFlight, queries, owed>>

PaintRequests == /\ phase = "walked"
                 /\ phase' = "drawing"
                 /\ RequestNothing \/ RequestSent \/ RequestNotSent
                 /\ UNCHANGED <<view, rangeVars, guiVars, mailbox, list, drawn, dirty,
                                timer, moves>>

\* mOrder keeps the tiles by their last use; those of `latest` are used after
\* all others, in its order.
UsedBefore(t, u, latest) ==
  IF t \in ToSet(latest)
  THEN \E i \in DOMAIN latest : latest[i] = u /\ \A j \in i .. Len(latest) : latest[j] # t
  ELSE u \in ToSet(latest) \/ \E i, j \in DOMAIN cache : i < j /\ cache[i] = t /\ cache[j] = u

ByUse(held, latest) ==
  {order \in Bijection(1 .. Cardinality(held), held) :
     \A i, j \in DOMAIN order : i < j => UsedBefore(order[i], order[j], latest)}

\* ready(): what is drawn becomes the most recently used.
Touch(shown) == cache' \in ByUse(ToSet(cache), shown)

\* nextRetryAt(): not what is in flight, not what is already due.
Scheduled == {t \in Tiles : backoff[t].attempts > 0 /\ t \notin inFlight /\ Waits(t)}

\* Wrong on purpose: schedules what is due already as well.
ArmRetryTimer_Due ==
  LET all == {t \in Tiles : backoff[t].attempts > 0 /\ t \notin inFlight}
  IN  timer' = IF all = {} THEN Off
               ELSE CHOOSE n \in {backoff[t].left : t \in all} :
                      \A t \in all : n <= backoff[t].left

ArmRetryTimer == timer' = IF Scheduled = {} THEN Off
                          ELSE CHOOSE n \in {backoff[t].left : t \in Scheduled} :
                                 \A t \in Scheduled : n <= backoff[t].left

PaintEnds == /\ phase = "drawing"
             /\ phase' = "idle"
             /\ Touch(drawn)
             /\ ArmRetryTimer
             /\ list' = <<>> /\ drawn' = <<>>
             /\ UNCHANGED <<view, rangeVars, backoff, askVars, boxVars, postVars,
                            dirty, bounds>>

TimerFires == /\ phase = "idle" /\ timer = 0
              /\ timer' = Off /\ dirty' = TRUE
              /\ UNCHANGED <<view, rangeVars, guiVars, askVars, boxVars, postVars,
                             phase, list, drawn, bounds>>

\* Time passes: every wait, and the timer, gets shorter.
Tick == LET less(n) == IF n > 0 THEN n - 1 ELSE n IN
        /\ InstantPaint => phase \notin {"walked", "drawing"}
        /\ timer > 0 \/ \E t \in Tiles : Waits(t)
        /\ timer' = less(timer)
        /\ backoff' = [t \in Tiles |-> [backoff[t] EXCEPT !.left = less(@)]]
        /\ UNCHANGED <<view, rangeVars, cache, askVars, boxVars, postVars, phase, list, drawn,
                       dirty, bounds>>
-----------------------------------------------------------------------------
(* The GUI thread: the drain.                                                 *)

DrainBegins == /\ phase = "idle" /\ posted > 0
               /\ posted' = posted - 1 /\ pending' = FALSE
               /\ phase' = "draining"
               /\ UNCHANGED <<view, rangeVars, guiVars, askVars, boxVars, list, drawn,
                              dirty, timer, bounds>>

Failed(t)  == failures[t] > 0
Arrived(t) == \E i \in DOMAIN mailbox : mailbox[i] = t

FoldFailures ==
  backoff' = [t \in Tiles |->
                IF Arrived(t) THEN NoBackoff
                ELSE IF ~ Failed(t) THEN backoff[t]
                ELSE LET n == backoff[t].attempts + failures[t]
                     IN  [attempts |-> n, left |-> Delay(n)]]

\* Wrong on purpose: forgets that the tile may be there already.
InsertArrivals_Again ==
  LET fresh == cache \o mailbox
      n     == Len(fresh)
  IN  IF mailbox = <<>> THEN cache' = cache ELSE
      \E keep \in Smaller(n, MinTiles) .. Smaller(n, MaxTiles) :
        cache' = SubSeq(fresh, n - keep + 1, n)

\* TileCache::insert() of each arrival.  How many tiles the byte budget leaves
\* is anybody's guess between the floor and the count bound.
InsertArrivals ==
  IF mailbox = <<>> THEN cache' = cache ELSE
  \E fresh \in ByUse(ToSet(cache) \union ToSet(mailbox), mailbox) :
    LET n == Len(fresh) IN
    \E keep \in Smaller(n, MinTiles) .. Smaller(n, MaxTiles) :
      cache' = SubSeq(fresh, n - keep + 1, n)

\* Wrong on purpose: failures change nothing worth a repaint.
Changed_ByArrivals == mailbox # <<>>

Changed == mailbox # <<>> \/ \E t \in Tiles : Failed(t)

\* drain(), and the repaint: the learned range is asked about only if nothing
\* was drained.
DrainTakes ==
  /\ phase = "draining"
  /\ phase' = "idle"
  /\ mailbox' = <<>> /\ failures' = [t \in Tiles |-> 0]
  /\ FoldFailures
  /\ InsertArrivals
  /\ dirty' = (dirty \/ Changed \/ learned)
  /\ learned' = (learned /\ Changed)
  /\ UNCHANGED <<view, range, askVars, owed, postVars, list, drawn, timer, bounds>>
-----------------------------------------------------------------------------
(* Zenoh threads.                                                             *)
Becomes(q, left, stands) ==
  queries' = (queries \ {q}) \union (IF left = {} THEN {} ELSE {[left |-> left, stands |-> stands]})

\* An answer: the first one teaches the range, whatever its status.  A reply
\* that is an error carries none, and reads as 0-0 (services.cpp:127-143).
Answer(q, status) ==
  /\ q.stands = "sent"
  /\ status = "failing" => Fault("refusal")
  /\ status = "ok" => faults' = faults
  /\ range' = IF range # "unknown" THEN range ELSE IF status = "ok" THEN "archive" ELSE "zero"
  /\ learned' = (learned \/ range = "unknown")
  /\ owed' = owed + IF range = "unknown" THEN 1 ELSE 0
  /\ Becomes(q, q.left, status)
  /\ UNCHANGED <<view, guiVars, inFlight, mailbox, failures, postVars, phase, list, drawn,
                 dirty, timer, moves>>

\* No reply in time, or a malformed one.
NoReply(q) ==
  /\ q.stands = "sent"
  /\ Fault("silence")
  /\ Becomes(q, q.left, "failing")
  /\ UNCHANGED <<view, rangeVars, guiVars, inFlight, boxVars, postVars, phase, list, drawn,
                 dirty, timer, moves>>

\* deliver() of a failed tile.
DeliverFailed(q, t) ==
  /\ t \in q.left
  /\ \/ q.stands = "failing" /\ faults' = faults
     \/ q.stands = "ok" /\ t \notin OutTiles /\ Fault("tile")
  /\ inFlight' = inFlight \ {t}
  /\ failures' = [failures EXCEPT ![t] = @ + 1]
  /\ owed' = owed + 1
  /\ Becomes(q, q.left \ {t}, q.stands)
  /\ UNCHANGED <<view, rangeVars, guiVars, mailbox, postVars, phase, list, drawn, dirty,
                 timer, moves>>

\* deliver() of a decoded tile, or of an absent one: both are cached.
DeliverTile(q, t) ==
  /\ t \in q.left \ OutTiles /\ q.stands = "ok"
  /\ inFlight' = inFlight \ {t}
  /\ mailbox' = Append(mailbox, t)
  /\ owed' = owed + 1
  /\ Becomes(q, q.left \ {t}, "ok")
  /\ UNCHANGED <<view, rangeVars, guiVars, failures, postVars, phase, list, drawn, dirty,
                 timer, bounds>>

\* Wrong on purpose: the tile stays in flight.
DeliverOutOfRange_Leaks(q, t) ==
  /\ t \in q.left \intersect OutTiles /\ q.stands = "ok"
  /\ Becomes(q, q.left \ {t}, "ok")
  /\ UNCHANGED <<view, rangeVars, guiVars, inFlight, boxVars, postVars, phase, list, drawn,
                 dirty, timer, bounds>>

\* A level the archive does not hold: nothing to cache, nobody to wake.
DeliverOutOfRange(q, t) ==
  /\ t \in q.left \intersect OutTiles /\ q.stands = "ok"
  /\ inFlight' = inFlight \ {t}
  /\ Becomes(q, q.left \ {t}, "ok")
  /\ UNCHANGED <<view, rangeVars, guiVars, boxVars, postVars, phase, list, drawn, dirty,
                 timer, bounds>>

\* onArrival: the first of a burst posts the drain, the others see the flag.
Signal == /\ owed > 0
          /\ owed' = owed - 1
          /\ pending' = TRUE
          /\ posted' = posted + IF pending THEN 0 ELSE 1
          /\ UNCHANGED <<view, rangeVars, guiVars, askVars, mailbox, failures, phase, list,
                         drawn, dirty, timer, bounds>>
-----------------------------------------------------------------------------
Callback == \E q \in queries :
              \/ \E status \in {"ok", "failing"} : Answer(q, status)
              \/ NoReply(q)
              \/ \E t \in q.left : DeliverFailed(q, t) \/ DeliverTile(q, t) \/ DeliverOutOfRange(q, t)

Gui == PaintWalks \/ PaintRequests \/ PaintEnds \/ DrainBegins \/ DrainTakes

Next == \/ \E v \in Views : MoveCamera(v)
        \/ Gui \/ TimerFires \/ Tick
        \/ Callback \/ Signal

Spec == Init /\ [][Next]_vars

\* The event loop serves the paint, the drain and the timer; queries end, by
\* their timeout if not before; time passes.  Nobody has to touch the map.
Fairness == /\ WF_vars(PaintWalks \/ PaintRequests \/ PaintEnds)
            /\ WF_vars(DrainBegins \/ DrainTakes) /\ WF_vars(TimerFires)
            /\ WF_vars(Tick) /\ WF_vars(Callback) /\ WF_vars(Signal)

FairSpec == Spec /\ Fairness
-----------------------------------------------------------------------------
\* Every variable keeps its type; no tile is in the cache twice and the cache
\* keeps its bound, although a tile may be fetched twice at once; one drain is
\* queued at most.
TypeOK ==
  /\ view \in Views /\ range \in Ranges /\ learned \in BOOLEAN
  /\ cache \in Seq(Tiles) /\ IsInjective(cache) /\ Len(cache) <= MaxTiles
  /\ inFlight \subseteq Tiles
  /\ mailbox \in Seq(Tiles)
  /\ failures \in [Tiles -> Nat]
  /\ backoff \in [Tiles -> [attempts : Nat, left : 0 .. MaxDelay]]
  /\ queries \subseteq [left : (SUBSET Tiles) \ {{}}, stands : {"sent", "ok", "failing"}]
  /\ owed \in Nat /\ pending \in BOOLEAN /\ posted \in {0, 1}
  /\ phase \in {"idle", "walked", "drawing", "draining"}
  /\ list \in Seq(Tiles) /\ drawn \in Seq(Tiles) /\ dirty \in BOOLEAN
  /\ timer \in {Off} \union 0 .. MaxDelay
  /\ moves \in 0 .. MaxMoves /\ faults \in 0 .. MaxFaults

\* mInFlight is what the open queries have not delivered yet, each tile in one
\* of them: no tile is asked for twice, none is believed asked for for ever.
InFlightIsAsked ==
  /\ inFlight = UNION {q.left : q \in queries}
  /\ \A q, r \in queries : q # r => q.left \intersect r.left = {}

Wanted == (ToSet(Shown[view][range]) \union ToSet(Ring[view][range])) \ OutTiles

\* Nothing is left that could make the widget look at its tiles again.
Quiet == /\ phase = "idle" /\ ~ dirty /\ posted = 0 /\ timer = Off
         /\ queries = {} /\ owed = 0

\* When nothing more will happen by itself, everything the viewport wants has
\* arrived: no lost wake-up (map_widget.cpp:1026, "cannot be caught with a
\* stale view of what is due").
QuietMeansComplete == Quiet => \A t \in Wanted : Cached(t)

\* Once the camera rests and requests succeed, the widget comes to rest too: it
\* neither polls nor repaints for ever (tile_source.h:186).
Settles == <>[]Quiet
=============================================================================
