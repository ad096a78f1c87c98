-------------------------- MODULE TileSourceProofs ---------------------------
(* Theorems about TileSource, for any tiles, camera positions, bounds and     *)
(* faults.                                                                    *)
EXTENDS TileSource, TLAPS, FiniteSetTheorems, SequenceTheorems, WellFoundedInduction

\* A set of naturals has a least one: of the intervals 0 .. n, the one that
\* contains no other.
LEMMA Least ==
  ASSUME NEW S \in SUBSET Nat, S # {}
  PROVE  \E n \in S : \A m \in S : n <= m
<1> DEFINE T == {0 .. n : n \in S}
           R == StrictSubsetOrdering(Nat)
<1>1. T \subseteq FiniteSubsetsOf(Nat) /\ T # {}
  <2>1. ASSUME NEW n \in S PROVE 0 .. n \in FiniteSubsetsOf(Nat)
    <3>1. IsFiniteSet(0 .. n)  BY FS_Interval
    <3> QED  BY <3>1 DEF FiniteSubsetsOf
  <2> QED  BY <2>1
<1>2. \E x \in T : \A y \in T : ~ (<<y, x>> \in R)
  <2> HIDE DEF T, R
  <2>1. IsWellFoundedOn(R, FiniteSubsetsOf(Nat))
    BY FS_StrictSubsetOrderingWellFounded DEF R
  <2> QED  BY <1>1, <2>1, WFMin
<1>3. PICK n \in S : \A m \in S : ~ (<<0 .. m, 0 .. n>> \in R)
  BY <1>2
<1>4. ASSUME NEW m \in S, m < n PROVE <<0 .. m, 0 .. n>> \in R
  <2>1. 0 .. m \subseteq 0 .. n /\ n \in 0 .. n /\ n \notin 0 .. m
    BY <1>4
  <2> QED  BY <2>1 DEF StrictSubsetOrdering
<1>5. \A m \in S : ~ (m < n)
  BY <1>3, <1>4
<1> HIDE DEF T, R
<1> QED  BY <1>5
-----------------------------------------------------------------------------
(* The cache.                                                                 *)

\* What is in use order holds each tile once.
LEMMA ByUseHolds ==
  ASSUME NEW held \in SUBSET Tiles, NEW latest, NEW order \in ByUse(held, latest)
  PROVE  /\ order \in Seq(Tiles) /\ IsInjective(order)
         /\ ToSet(order) = held
         /\ Len(order) = Cardinality(held) /\ Cardinality(held) \in Nat
<1>1. Cardinality(held) \in Nat
  BY TilesAssumption, FS_Subset, FS_CardinalityType
<1>2. order \in Bijection(1 .. Cardinality(held), held)
  BY DEF ByUse
<1>3. /\ order \in [1 .. Cardinality(held) -> held] /\ IsInjective(order)
      /\ \A t \in held : \E i \in 1 .. Cardinality(held) : order[i] = t
  BY <1>2 DEF Bijection, Injection, Surjection
<1>4. order \in Seq(held) /\ Len(order) = Cardinality(held)
  BY <1>1, <1>3
<1>5. ToSet(order) = held
  BY <1>3 DEF ToSet
<1> QED  BY <1>1, <1>3, <1>4, <1>5

\* A tile that is used moves, it does not come or go.
LEMMA TouchKeeps ==
  ASSUME TypeOK, NEW shown, Touch(shown)
  PROVE  /\ ToSet(cache') = ToSet(cache)
         /\ \A t : Cached(t)' <=> Cached(t)
         /\ cache' \in Seq(Tiles) /\ IsInjective(cache') /\ Len(cache') <= MaxTiles
<1>1. ToSet(cache) \in SUBSET Tiles /\ cache \in Seq(Tiles)
  BY DEF TypeOK, ToSet
<1>2. /\ cache' \in Seq(Tiles) /\ IsInjective(cache')
      /\ ToSet(cache') = ToSet(cache) /\ Len(cache') = Cardinality(ToSet(cache))
  BY <1>1, ByUseHolds DEF Touch
<1>3. \A t : Cached(t)' <=> Cached(t)
  BY <1>2 DEF Cached, ToSet
<1>4. Cardinality(ToSet(cache)) = Len(cache)
  <2>1. cache \in Bijection(1 .. Len(cache), ToSet(cache))
    <3>1. cache \in [1 .. Len(cache) -> ToSet(cache)] /\ IsInjective(cache)
      BY <1>1 DEF ToSet, TypeOK
    <3>2. \A t \in ToSet(cache) : \E i \in 1 .. Len(cache) : cache[i] = t
      BY <1>1 DEF ToSet
    <3> QED  BY <3>1, <3>2 DEF Bijection, Injection, Surjection
  <2>2. ExistsBijection(1 .. Len(cache), ToSet(cache))
    BY <2>1 DEF ExistsBijection
  <2>3. Len(cache) \in Nat
    BY <1>1
  <2>4. IsFiniteSet(1 .. Len(cache)) /\ Cardinality(1 .. Len(cache)) = Len(cache)
    <3> DEFINE n == Len(cache)
    <3>1. n \in Int /\ n \in Nat
      BY <2>3
    <3> HIDE DEF n
    <3>2. IsFiniteSet(1 .. n) /\ Cardinality(1 .. n) = IF 1 > n THEN 0 ELSE n - 1 + 1
      BY <3>1, FS_Interval
    <3>3. Cardinality(1 .. n) = n
      BY <3>1, <3>2
    <3> QED  BY <3>2, <3>3 DEF n
  <2>5. Cardinality(1 .. Len(cache)) = Cardinality(ToSet(cache))
    BY <2>2, <2>4, FS_Bijection
  <2> QED  BY <2>4, <2>5
<1> QED  BY <1>2, <1>3, <1>4 DEF TypeOK
\* The mailbox goes into the cache, which keeps its bound.
LEMMA InsertKeeps ==
  ASSUME TypeOK, InsertArrivals
  PROVE  cache' \in Seq(Tiles) /\ IsInjective(cache') /\ Len(cache') <= MaxTiles
<1>1. CASE mailbox = <<>>
  BY <1>1 DEF InsertArrivals, TypeOK
<1>2. CASE mailbox # <<>>
  <2>1. ToSet(cache) \union ToSet(mailbox) \in SUBSET Tiles
    BY DEF TypeOK, ToSet
  <2>2. PICK fresh \in ByUse(ToSet(cache) \union ToSet(mailbox), mailbox) :
          \E keep \in Smaller(Len(fresh), MinTiles) .. Smaller(Len(fresh), MaxTiles) :
            cache' = SubSeq(fresh, Len(fresh) - keep + 1, Len(fresh))
    BY <1>2 DEF InsertArrivals
  <2>3. fresh \in Seq(Tiles) /\ IsInjective(fresh) /\ Len(fresh) \in Nat
    BY <2>1, ByUseHolds
  <2>4. PICK keep \in 0 .. Len(fresh) :
          keep <= MaxTiles /\ cache' = SubSeq(fresh, Len(fresh) - keep + 1, Len(fresh))
    BY <2>2, <2>3, BoundsAssumption DEF Smaller
  <2>5. /\ cache' \in Seq(Tiles) /\ Len(cache') = keep
        /\ \A i \in 1 .. keep : cache'[i] = fresh[Len(fresh) - keep + i]
    BY <2>3, <2>4
  <2>6. IsInjective(cache')
    <3>1. \A i, j \in 1 .. Len(fresh) : fresh[i] = fresh[j] => i = j
      BY <2>3 DEF IsInjective
    <3>2. \A i \in 1 .. keep : Len(fresh) - keep + i \in 1 .. Len(fresh)
      BY <2>3
    <3>3. ASSUME NEW i \in 1 .. keep, NEW j \in 1 .. keep, cache'[i] = cache'[j]
          PROVE  i = j
      <4>1. fresh[Len(fresh) - keep + i] = fresh[Len(fresh) - keep + j]
        BY <2>5, <3>3
      <4>2. Len(fresh) - keep + i = Len(fresh) - keep + j
        BY <3>1, <3>2, <4>1
      <4> QED  BY <2>3, <4>2
    <3>4. DOMAIN cache' = 1 .. keep
      BY <2>5
    <3> QED  BY <3>3, <3>4 DEF IsInjective
  <2> QED  BY <2>4, <2>5, <2>6
<1> QED  BY <1>1, <1>2
-----------------------------------------------------------------------------
(* The timer.                                                                 *)

\* It is armed exactly when something waits that is not in flight.
LEMMA TimerArms ==
  ASSUME TypeOK, ArmRetryTimer
  PROVE  /\ timer' \in {Off} \union 0 .. MaxDelay
         /\ Scheduled # {} => timer' # Off
<1>1. CASE Scheduled = {}
  BY <1>1 DEF ArmRetryTimer
<1>2. CASE Scheduled # {}
  <2> DEFINE lefts == {backoff[t].left : t \in Scheduled}
  <2>1. lefts \in SUBSET Nat /\ lefts # {}
    <3>1. \A t \in Scheduled : backoff[t].left \in Nat
      BY BoundsAssumption DEF Scheduled, TypeOK
    <3> QED  BY <1>2, <3>1
  <2>2. \E n \in lefts : \A m \in lefts : n <= m
    BY <2>1, Least
  <2>3. \E n \in lefts : \A t \in Scheduled : n <= backoff[t].left
    BY <2>2
  <2>4. timer' \in lefts
    BY <1>2, <2>3 DEF ArmRetryTimer
  <2>5. \A t \in Scheduled : backoff[t].left \in 0 .. MaxDelay
    BY DEF Scheduled, TypeOK
  <2> QED  BY <2>4, <2>5, BoundsAssumption DEF Off
<1> QED  BY <1>1, <1>2
-----------------------------------------------------------------------------
(* Types.                                                                     *)

\* One drain is posted at most, and the flag says whether.
Typed == TypeOK /\ (pending <=> posted = 1)

LEMMA TypedInit == Init => Typed
<1> SUFFICES ASSUME Init PROVE Typed
  OBVIOUS
<1>1. cache \in Seq(Tiles) /\ IsInjective(cache) /\ Len(cache) <= MaxTiles
  BY BoundsAssumption DEF Init, IsInjective
<1>2. backoff \in [Tiles -> [attempts : Nat, left : 0 .. MaxDelay]]
  BY BoundsAssumption DEF Init, NoBackoff
<1>3. /\ failures \in [Tiles -> Nat] /\ mailbox \in Seq(Tiles)
      /\ list \in Seq(Tiles) /\ drawn \in Seq(Tiles)
  BY DEF Init
<1>4. pending = FALSE /\ posted = 0 /\ 0 # 1
  BY DEF Init
<1>5. moves \in 0 .. MaxMoves /\ faults \in 0 .. MaxFaults
  BY BoundsAssumption DEF Init
<1> QED  BY <1>1, <1>2, <1>3, <1>4, <1>5 DEF Init, Typed, TypeOK, Ranges

LEMMA TypedGui ==
  ASSUME Typed, Gui \/ TimerFires \/ Tick \/ \E v \in Views : MoveCamera(v)
  PROVE  Typed'
<1> USE DEF Typed
<1>1. CASE \E v \in Views : MoveCamera(v)
  BY <1>1, BoundsAssumption
     DEF MoveCamera, TypeOK, rangeVars, guiVars, askVars, boxVars, postVars
<1>2. CASE PaintWalks
  <2>1. list' \in Seq(Tiles) /\ drawn' \in Seq(Tiles)
    BY <1>2, GridAssumption DEF PaintWalks, TypeOK
  <2> QED  BY <1>2, <2>1
           DEF PaintWalks, TypeOK, rangeVars, guiVars, askVars, boxVars, postVars, bounds
<1>3. CASE PaintRequests
  <2>1. /\ inFlight' \subseteq Tiles /\ failures' \in [Tiles -> Nat]
        /\ queries' \subseteq [left : (SUBSET Tiles) \ {{}}, stands : {"sent", "ok", "failing"}]
        /\ owed' \in Nat /\ pending' \in BOOLEAN /\ posted' \in {0, 1}
        /\ pending' <=> posted' = 1
        /\ faults' \in 0 .. MaxFaults
    <3>1. CASE RequestNothing
      BY <3>1 DEF RequestNothing, TypeOK
    <3>2. CASE RequestSent
      <4>1. Ask \in (SUBSET Tiles) \ {{}}
        BY <3>2 DEF RequestSent, Ask
      <4> QED  BY <3>2, <4>1 DEF RequestSent, TypeOK
    <3>3. CASE RequestNotSent
      BY <3>3, BoundsAssumption DEF RequestNotSent, TypeOK, Fault
    <3> QED  BY <1>3, <3>1, <3>2, <3>3 DEF PaintRequests
  <2> QED  BY <1>3, <2>1 DEF PaintRequests, TypeOK, rangeVars, guiVars
<1>4. CASE PaintEnds
  <2>1. cache' \in Seq(Tiles) /\ IsInjective(cache') /\ Len(cache') <= MaxTiles
    BY <1>4, TouchKeeps DEF PaintEnds
  <2>2. timer' \in {Off} \union 0 .. MaxDelay
    BY <1>4, TimerArms DEF PaintEnds
  <2> QED  BY <1>4, <2>1, <2>2 DEF PaintEnds, TypeOK, rangeVars, askVars, boxVars, postVars, bounds
<1>5. CASE TimerFires
  BY <1>5 DEF TimerFires, TypeOK, rangeVars, guiVars, askVars, boxVars, postVars, bounds
<1>6. CASE Tick
  <2> DEFINE less(n) == IF n > 0 THEN n - 1 ELSE n
  <2>1. \A n \in 0 .. MaxDelay : less(n) \in 0 .. MaxDelay
    BY BoundsAssumption
  <2>2. timer' = less(timer) /\ less(Off) = Off
    BY <1>6 DEF Tick, Off
  <2>3. backoff' = [t \in Tiles |-> [backoff[t] EXCEPT !.left = less(@)]]
    BY <1>6 DEF Tick
  <2> HIDE DEF less
  <2>4. timer' \in {Off} \union 0 .. MaxDelay
    BY <2>1, <2>2 DEF TypeOK
  <2>5. backoff' \in [Tiles -> [attempts : Nat, left : 0 .. MaxDelay]]
    BY <2>1, <2>3 DEF TypeOK
  <2> QED  BY <1>6, <2>4, <2>5 DEF Tick, TypeOK, rangeVars, askVars, boxVars, postVars, bounds
<1>7. CASE DrainBegins
  <2>1. posted' \in {0, 1} /\ pending' = FALSE /\ posted' # 1
    BY <1>7 DEF DrainBegins, TypeOK
  <2> QED  BY <1>7, <2>1
           DEF DrainBegins, TypeOK, rangeVars, guiVars, askVars, boxVars, bounds
<1>8. CASE DrainTakes
  <2>1. cache' \in Seq(Tiles) /\ IsInjective(cache') /\ Len(cache') <= MaxTiles
    BY <1>8, InsertKeeps DEF DrainTakes
  <2>2. \A n : Delay(n) \in 0 .. MaxDelay
    BY BoundsAssumption DEF Delay
  <2>3. backoff' \in [Tiles -> [attempts : Nat, left : 0 .. MaxDelay]]
    <3>1. \A t \in Tiles : backoff[t].attempts + failures[t] \in Nat
      BY DEF TypeOK
    <3>2. backoff \in [Tiles -> [attempts : Nat, left : 0 .. MaxDelay]]
      BY DEF TypeOK
    <3>3. NoBackoff \in [attempts : Nat, left : 0 .. MaxDelay]
      BY BoundsAssumption DEF NoBackoff
    <3>4. FoldFailures
      BY <1>8 DEF DrainTakes
    <3> QED  BY <2>2, <3>1, <3>2, <3>3, <3>4 DEF FoldFailures
  <2>4. dirty' \in BOOLEAN /\ learned' \in BOOLEAN
    BY <1>8 DEF DrainTakes, TypeOK
  <2>5. mailbox' \in Seq(Tiles) /\ failures' \in [Tiles -> Nat]
    BY <1>8 DEF DrainTakes
  <2> QED  BY <1>8, <2>1, <2>3, <2>4, <2>5 DEF DrainTakes, TypeOK, askVars, postVars, bounds
<1> QED  BY <1>1, <1>2, <1>3, <1>4, <1>5, <1>6, <1>7, <1>8 DEF Gui
\* A query that goes on keeps its type, and loses the tiles that it delivered.
LEMMA QueryGoesOn ==
  ASSUME Typed, NEW q \in queries, NEW left \in SUBSET q.left,
         NEW stands \in {"sent", "ok", "failing"}, Becomes(q, left, stands)
  PROVE  /\ queries' \subseteq [left : (SUBSET Tiles) \ {{}}, stands : {"sent", "ok", "failing"}]
         /\ \A r \in queries' : r \in queries \/ r = [left |-> left, stands |-> stands]
         /\ \A r \in queries : r # q => r \in queries'
         /\ left # {} => [left |-> left, stands |-> stands] \in queries'
<1>1. q.left \in SUBSET Tiles
  BY DEF Typed, TypeOK
<1>2. left # {} => [left |-> left, stands |-> stands]
                     \in [left : (SUBSET Tiles) \ {{}}, stands : {"sent", "ok", "failing"}]
  BY <1>1
<1> QED  BY <1>2 DEF Becomes, Typed, TypeOK

LEMMA TypedCallback == Typed /\ (Callback \/ Signal) => Typed'
<1> SUFFICES ASSUME Typed, Callback \/ Signal PROVE Typed'
  OBVIOUS
<1> USE DEF Typed
<1>1. ASSUME NEW q \in queries, NEW status \in {"ok", "failing"}, Answer(q, status)
      PROVE  Typed'
  <2>1. queries' \subseteq [left : (SUBSET Tiles) \ {{}}, stands : {"sent", "ok", "failing"}]
    BY <1>1, QueryGoesOn DEF Answer
  <2>2. faults' \in 0 .. MaxFaults
    BY <1>1, BoundsAssumption DEF Answer, Fault, TypeOK
  <2>3. range' \in Ranges /\ learned' \in BOOLEAN /\ owed' \in Nat
    BY <1>1 DEF Answer, TypeOK, Ranges
  <2> QED  BY <1>1, <2>1, <2>2, <2>3 DEF Answer, TypeOK, guiVars, postVars
<1>2. ASSUME NEW q \in queries, NoReply(q)
      PROVE  Typed'
  <2>1. queries' \subseteq [left : (SUBSET Tiles) \ {{}}, stands : {"sent", "ok", "failing"}]
    BY <1>2, QueryGoesOn DEF NoReply
  <2>2. faults' \in 0 .. MaxFaults
    BY <1>2, BoundsAssumption DEF NoReply, Fault, TypeOK
  <2> QED  BY <1>2, <2>1, <2>2 DEF NoReply, TypeOK, guiVars, postVars, rangeVars, boxVars
<1>3. ASSUME NEW q \in queries, NEW t \in q.left, DeliverFailed(q, t)
      PROVE  Typed'
  <2>1. queries' \subseteq [left : (SUBSET Tiles) \ {{}}, stands : {"sent", "ok", "failing"}]
    <3>1. q.stands \in {"sent", "ok", "failing"}
      BY DEF TypeOK
    <3> QED  BY <1>3, <3>1, QueryGoesOn DEF DeliverFailed
  <2>2. faults' \in 0 .. MaxFaults
    BY <1>3, BoundsAssumption DEF DeliverFailed, Fault, TypeOK
  <2>3. inFlight' \subseteq Tiles /\ failures' \in [Tiles -> Nat] /\ owed' \in Nat
    <3>1. /\ inFlight' = inFlight \ {t} /\ failures' = [failures EXCEPT ![t] = @ + 1]
          /\ owed' = owed + 1
      BY <1>3 DEF DeliverFailed
    <3>2. inFlight \subseteq Tiles /\ failures \in [Tiles -> Nat] /\ owed \in Nat
      BY DEF TypeOK
    <3>3. failures' \in [Tiles -> Nat]
      <4>1. failures' = [u \in Tiles |-> IF u = t THEN failures[u] + 1 ELSE failures[u]]
        BY <3>1, <3>2
      <4>2. \A u \in Tiles : failures[u] \in Nat /\ failures[u] + 1 \in Nat
        BY <3>2
      <4> QED  BY <4>1, <4>2
    <3>4. inFlight' \subseteq Tiles /\ owed' \in Nat
      BY <3>1, <3>2
    <3> QED  BY <3>3, <3>4
  <2>4. UNCHANGED <<view, rangeVars, guiVars, mailbox, postVars, phase, list, drawn, dirty,
                    timer, moves>>
    BY <1>3 DEF DeliverFailed
  <2> QED  BY <2>1, <2>2, <2>3, <2>4 DEF TypeOK, guiVars, postVars, rangeVars
<1>4. ASSUME NEW q \in queries, NEW t \in q.left, DeliverTile(q, t)
      PROVE  Typed'
  <2>1. queries' \subseteq [left : (SUBSET Tiles) \ {{}}, stands : {"sent", "ok", "failing"}]
    BY <1>4, QueryGoesOn DEF DeliverTile
  <2>2. t \in Tiles
    BY DEF TypeOK
  <2>3. inFlight' \subseteq Tiles /\ mailbox' \in Seq(Tiles) /\ owed' \in Nat
    BY <1>4, <2>2 DEF DeliverTile, TypeOK
  <2> QED  BY <1>4, <2>1, <2>3 DEF DeliverTile, TypeOK, guiVars, postVars, rangeVars, bounds
<1>5. ASSUME NEW q \in queries, NEW t \in q.left, DeliverOutOfRange(q, t)
      PROVE  Typed'
  <2>1. queries' \subseteq [left : (SUBSET Tiles) \ {{}}, stands : {"sent", "ok", "failing"}]
    BY <1>5, QueryGoesOn DEF DeliverOutOfRange
  <2> QED  BY <1>5, <2>1
           DEF DeliverOutOfRange, TypeOK, guiVars, postVars, rangeVars, boxVars, bounds
<1>6. CASE Signal
  <2>1. owed' \in Nat /\ posted' = 1 /\ pending' = TRUE
    BY <1>6 DEF Signal, TypeOK
  <2> QED  BY <1>6, <2>1 DEF Signal, TypeOK, guiVars, rangeVars, askVars, bounds
<1> QED  BY <1>1, <1>2, <1>3, <1>4, <1>5, <1>6 DEF Callback

LEMMA TypedStep == Typed /\ [Next]_vars => Typed'
<1> SUFFICES ASSUME Typed, [Next]_vars PROVE Typed'
  OBVIOUS
<1>1. CASE UNCHANGED vars
  BY <1>1 DEF Typed, TypeOK, vars, rangeVars, guiVars, askVars, boxVars, postVars, bounds
<1> QED  BY <1>1, TypedGui, TypedCallback DEF Next

\* Types, the bounds of the cache, and one drain posted at most, whatever fails.
THEOREM Typing == Spec => []TypeOK
<1>1. Typed => TypeOK
  BY DEF Typed
<1> QED  BY <1>1, TypedInit, TypedStep, PTL DEF Spec
-----------------------------------------------------------------------------
(* What is in flight.                                                         *)

\* The tiles that a query delivers leave mInFlight with it.
LEMMA StillAsked ==
  ASSUME Typed, InFlightIsAsked, NEW q \in queries, NEW left \in SUBSET q.left,
         NEW stands \in {"sent", "ok", "failing"}, Becomes(q, left, stands),
         inFlight' = inFlight \ (q.left \ left)
  PROVE  InFlightIsAsked'
<1> DEFINE p == [left |-> left, stands |-> stands]
<1>1. queries' = (queries \ {q}) \union (IF left = {} THEN {} ELSE {p})
  BY DEF Becomes
<1>2. \A r \in queries : r # q => r.left \intersect q.left = {}
  BY DEF InFlightIsAsked
<1>3. p.left = left
  OBVIOUS
<1> HIDE DEF p
<1>4. \A r, s \in queries' : r # s => r.left \intersect s.left = {}
  BY <1>1, <1>2, <1>3 DEF InFlightIsAsked
<1>5. inFlight' = UNION {r.left : r \in queries'}
  <2>1. \A t \in inFlight' : \E r \in queries' : t \in r.left
    <3> SUFFICES ASSUME NEW t \in inFlight' PROVE \E r \in queries' : t \in r.left
      OBVIOUS
    <3>1. PICK r \in queries : t \in r.left
      BY DEF InFlightIsAsked
    <3>2. CASE r # q
      BY <1>1, <3>1, <3>2
    <3>3. CASE r = q
      BY <1>1, <1>3, <3>1, <3>3
    <3> QED  BY <3>2, <3>3
  <2>2. \A r \in queries' : r.left \subseteq inFlight'
    BY <1>1, <1>2, <1>3 DEF InFlightIsAsked
  <2> QED  BY <2>1, <2>2
<1> QED  BY <1>4, <1>5 DEF InFlightIsAsked

LEMMA AskedStep == Typed /\ InFlightIsAsked /\ [Next]_vars => InFlightIsAsked'
<1> SUFFICES ASSUME Typed, InFlightIsAsked, [Next]_vars PROVE InFlightIsAsked'
  OBVIOUS
<1>1. CASE UNCHANGED askVars
  BY <1>1 DEF askVars, InFlightIsAsked
<1>2. CASE RequestSent
  <2> DEFINE p == [left |-> Ask, stands |-> "sent"]
  <2>1. Ask \intersect inFlight = {}
    BY DEF Ask, Missing
  <2>2. queries' = queries \union {p} /\ inFlight' = inFlight \union Ask /\ p.left = Ask
    BY <1>2 DEF RequestSent
  <2> HIDE DEF p
  <2>3. \A r \in queries : r.left \subseteq inFlight
    BY DEF InFlightIsAsked
  <2>4. \A r, s \in queries' : r # s => r.left \intersect s.left = {}
    BY <2>1, <2>2, <2>3 DEF InFlightIsAsked
  <2>5. inFlight' = UNION {r.left : r \in queries'}
    BY <2>2 DEF InFlightIsAsked
  <2> QED  BY <2>4, <2>5 DEF InFlightIsAsked
<1>3. ASSUME NEW q \in queries, NEW status \in {"ok", "failing"}, Answer(q, status)
      PROVE  InFlightIsAsked'
  <2>1. inFlight' = inFlight \ (q.left \ q.left)
    BY <1>3 DEF Answer
  <2> QED  BY <1>3, <2>1, StillAsked DEF Answer
<1>4. ASSUME NEW q \in queries, NoReply(q)
      PROVE  InFlightIsAsked'
  <2>1. inFlight' = inFlight \ (q.left \ q.left)
    BY <1>4 DEF NoReply
  <2> QED  BY <1>4, <2>1, StillAsked DEF NoReply
<1>5. ASSUME NEW q \in queries, NEW t \in q.left,
             DeliverFailed(q, t) \/ DeliverTile(q, t) \/ DeliverOutOfRange(q, t)
      PROVE  InFlightIsAsked'
  <2>1. inFlight' = inFlight \ (q.left \ (q.left \ {t}))
    BY <1>5 DEF DeliverFailed, DeliverTile, DeliverOutOfRange
  <2>2. q.stands \in {"sent", "ok", "failing"}
    BY DEF Typed, TypeOK
  <2>3. Becomes(q, q.left \ {t}, q.stands)
    BY <1>5 DEF DeliverFailed, DeliverTile, DeliverOutOfRange
  <2> QED  BY <2>1, <2>2, <2>3, StillAsked
<1>6. ASSUME PaintRequests PROVE RequestSent \/ UNCHANGED askVars
  BY <1>6 DEF PaintRequests, RequestNothing, RequestNotSent, askVars
<1>7. ASSUME \/ \E v \in Views : MoveCamera(v)
             \/ PaintWalks \/ PaintEnds \/ DrainBegins \/ DrainTakes
             \/ TimerFires \/ Tick \/ Signal \/ UNCHANGED vars
      PROVE  UNCHANGED askVars
  BY <1>7 DEF MoveCamera, PaintWalks, PaintEnds, DrainBegins, DrainTakes, TimerFires, Tick,
              Signal, vars
<1> QED  BY <1>1, <1>2, <1>3, <1>4, <1>5, <1>6, <1>7 DEF Next, Gui, Callback

\* No tile is asked for twice at once, and none is believed asked for for ever.
THEOREM NothingLeaks == Spec => []InFlightIsAsked
<1>1. Init => InFlightIsAsked
  BY DEF Init, InFlightIsAsked
<1> QED  BY <1>1, TypedInit, TypedStep, AskedStep, PTL DEF Spec
-----------------------------------------------------------------------------
(* No lost wake-up.                                                           *)

\* What the widget would ask for now.
Asked == ToSet(Shown[view][range]) \union ToSet(Ring[view][range])

\* A drain is on its way.
DrainToCome == owed > 0 \/ posted = 1 \/ phase = "draining"

\* Something will make the widget look at its tiles again: a drain that finds
\* an arrival, a failure or a range just learned, or a query that ends in one.
Coming == \/ Changed
          \/ learned /\ DrainToCome
          \/ \E q \in queries : q.stands = "failing" \/ ~ (q.left \subseteq OutTiles)
                                \/ range = "unknown"

AnsweredInv == \A q \in queries : q.stands = "ok" => range # "unknown"
WaitInv == \A t \in Tiles : Waits(t) => backoff[t].attempts > 0

\* A paint has looked at all there is, unless something is coming; and so has
\* a widget at rest, unless its timer is running.
PaintInv ==
  /\ phase \in {"walked", "drawing"} => ~ dirty
  /\ phase = "walked" => ToSet(list) = Asked \/ (learned /\ DrainToCome)
  /\ phase = "drawing" => Coming \/ \A t \in Wanted : Cached(t) \/ t \in Scheduled
RestInv ==
  phase \in {"idle", "draining"} /\ ~ dirty /\ timer = Off
    => Coming \/ \A t \in Wanted : Cached(t)

WakeInv == /\ AnsweredInv /\ WaitInv
           /\ Changed => DrainToCome
           /\ PaintInv /\ RestInv

LEMMA ConcatenatedTiles ==
  ASSUME NEW r \in Seq(Tiles), NEW s \in Seq(Tiles)
  PROVE  ToSet(r \o s) = ToSet(r) \union ToSet(s)
<1>1. \A q \in Seq(Tiles) : ToSet(q) = Range(q)
  BY DEF ToSet, Range
<1>2. r \o s \in Seq(Tiles) /\ Range(r \o s) = Range(r) \union Range(s)
  BY RangeConcatenation
<1> QED  BY <1>1, <1>2

\* If nothing is asked for, nothing is missing: the cap alone leaves no tile out.
LEMMA NothingMissing ==
  ASSUME Typed, Ask = {}
  PROVE  \A t \in ToSet(list) : ~ Missing(t)
<1> DEFINE S == {i \in DOMAIN list : Missing(list[i])}
<1>0. SUFFICES ASSUME S # {} PROVE FALSE
  <2>1. S = {} => \A i \in DOMAIN list : ~ Missing(list[i])
    OBVIOUS
  <2> HIDE DEF S
  <2> QED  BY <2>1 DEF ToSet
<1>1. list \in Seq(Tiles) /\ S \in SUBSET Nat
  BY DEF Typed, TypeOK
<1>2. PICK n \in S : \A m \in S : n <= m
  <2> HIDE DEF S
  <2> QED  BY <1>0, <1>1, Least
<1>3. MissingUpTo(n) = {list[n]}
  <2>1. n \in DOMAIN list /\ n \in Nat /\ n \in 1 .. n /\ Missing(list[n])
    BY <1>1, <1>2
  <2>2. \A j \in 1 .. n : j \in DOMAIN list /\ (Missing(list[j]) => n <= j)
    BY <1>1, <1>2, <2>1
  <2>3. \A j \in 1 .. n : Missing(list[j]) => j = n
    BY <2>1, <2>2
  <2> HIDE DEF S
  <2> QED  BY <2>1, <2>3 DEF MissingUpTo
<1>4. Cardinality(MissingUpTo(n)) = 1
  BY <1>3, FS_Singleton
<1>5. list[n] \in Ask
  BY <1>1, <1>2, <1>4, BoundsAssumption DEF Ask
<1> QED  BY <1>5

\* What is coming keeps coming, until the GUI thread takes it.
LEMMA KeepsComing ==
  ASSUME Typed, WakeInv, Callback \/ Signal
  PROVE  /\ Coming => Coming'
         /\ learned /\ DrainToCome => learned' /\ DrainToCome'
         /\ range' = range \/ (learned' /\ DrainToCome')
         /\ Changed' => DrainToCome'
<1>0. Changed => DrainToCome
  BY DEF WakeInv
<1>1. CASE Signal
  <2>1. posted' = 1
    BY <1>1 DEF Signal, Typed, TypeOK
  <2>2. UNCHANGED <<mailbox, failures, learned, queries, range>>
    BY <1>1 DEF Signal, rangeVars, askVars
  <2> QED  BY <2>1, <2>2 DEF Coming, DrainToCome, Changed, Failed
<1>2. ASSUME NEW q \in queries, NEW status \in {"ok", "failing"}, Answer(q, status)
      PROVE  /\ Coming => Coming'
             /\ learned /\ DrainToCome => learned' /\ DrainToCome'
             /\ range' = range \/ (learned' /\ DrainToCome')
             /\ Changed' => DrainToCome'
  <2>1. /\ UNCHANGED <<mailbox, failures, posted, phase>>
        /\ owed' \in Nat /\ owed' >= owed
        /\ q.stands = "sent" /\ q.left # {}
    BY <1>2 DEF Answer, postVars, Typed, TypeOK
  <2>2. range = "unknown" => learned' /\ owed' > 0
    <3>1. range = "unknown" => learned'
      BY <1>2 DEF Answer
    <3>2. owed' = owed + IF range = "unknown" THEN 1 ELSE 0
      BY <1>2 DEF Answer
    <3> QED  BY <3>1, <3>2 DEF Typed, TypeOK
  <2>3. range # "unknown" => range' = range
    BY <1>2 DEF Answer
  <2>4. learned => learned'
    BY <1>2 DEF Answer
  <2>5. /\ \A r \in queries : r # q => r \in queries'
        /\ [left |-> q.left, stands |-> status] \in queries'
    <3>1. Becomes(q, q.left, status) /\ q.left \in SUBSET q.left
      BY <1>2 DEF Answer
    <3>2. status \in {"sent", "ok", "failing"} /\ q.left # {}
      BY <2>1
    <3> QED  BY <3>1, <3>2, QueryGoesOn
  <2>6. DrainToCome => DrainToCome'
    BY <2>1 DEF DrainToCome, Typed, TypeOK
  <2>7. Changed' <=> Changed
    BY <2>1 DEF Changed, Failed
  <2>8. ASSUME range # "unknown", NEW r \in queries,
               r.stands = "failing" \/ ~ (r.left \subseteq OutTiles)
        PROVE  Coming'
    <3>1. CASE r = q
      BY <2>1, <2>5, <2>8, <3>1 DEF Coming
    <3>2. CASE r # q
      BY <2>5, <2>8, <3>2 DEF Coming
    <3> QED  BY <3>1, <3>2
  <2>9. range = "unknown" => learned' /\ DrainToCome'
    BY <2>2 DEF DrainToCome
  <2>10. Changed => Coming'
    BY <2>7 DEF Coming
  <2>11. learned' /\ DrainToCome' => Coming'
    BY DEF Coming
  <2>12. Coming => Coming'
    BY <2>4, <2>6, <2>8, <2>9, <2>10, <2>11 DEF Coming
  <2> QED  BY <1>0, <2>3, <2>4, <2>6, <2>7, <2>9, <2>12
<1>3. ASSUME NEW q \in queries, NoReply(q)
      PROVE  /\ Coming => Coming'
             /\ learned /\ DrainToCome => learned' /\ DrainToCome'
             /\ range' = range \/ (learned' /\ DrainToCome')
             /\ Changed' => DrainToCome'
  <2>1. UNCHANGED <<mailbox, failures, posted, phase, owed, range, learned>>
    BY <1>3 DEF NoReply, postVars, boxVars, rangeVars
  <2>2. [left |-> q.left, stands |-> "failing"] \in queries'
    BY <1>3, QueryGoesOn DEF NoReply, Typed, TypeOK
  <2>3. Coming'
    BY <2>2 DEF Coming
  <2>4. DrainToCome' <=> DrainToCome
    BY <2>1 DEF DrainToCome
  <2>5. Changed' <=> Changed
    BY <2>1 DEF Changed, Failed
  <2>6. range' = range /\ learned' = learned
    BY <2>1
  <2> QED  BY <1>0, <2>3, <2>4, <2>5, <2>6
<1>4. ASSUME NEW q \in queries, NEW t \in q.left, DeliverFailed(q, t) \/ DeliverTile(q, t)
      PROVE  /\ Coming => Coming'
             /\ learned /\ DrainToCome => learned' /\ DrainToCome'
             /\ range' = range \/ (learned' /\ DrainToCome')
             /\ Changed' => DrainToCome'
  <2>1. UNCHANGED <<range, learned>> /\ owed' > 0
    BY <1>4 DEF DeliverFailed, DeliverTile, rangeVars, Typed, TypeOK
  <2>2. t \in Tiles
    BY DEF Typed, TypeOK
  <2>3. CASE DeliverFailed(q, t)
    <3>1. failures'[t] > 0
      BY <2>2, <2>3 DEF DeliverFailed, Typed, TypeOK
    <3>2. Changed'
      BY <2>2, <3>1 DEF Changed, Failed
    <3> QED  BY <2>1, <3>2 DEF Coming, DrainToCome
  <2>4. CASE DeliverTile(q, t)
    <3>1. mailbox' # <<>>
      <4>1. mailbox \in Seq(Tiles) /\ mailbox' = Append(mailbox, t)
        BY <2>4 DEF DeliverTile, Typed, TypeOK
      <4> QED  BY <2>2, <4>1
    <3> QED  BY <2>1, <3>1 DEF Coming, Changed, DrainToCome
  <2> QED  BY <1>4, <2>3, <2>4
<1>5. ASSUME NEW q \in queries, NEW t \in q.left, DeliverOutOfRange(q, t)
      PROVE  /\ Coming => Coming'
             /\ learned /\ DrainToCome => learned' /\ DrainToCome'
             /\ range' = range \/ (learned' /\ DrainToCome')
             /\ Changed' => DrainToCome'
  <2>1. UNCHANGED <<mailbox, failures, posted, phase, owed, range, learned>>
    BY <1>5 DEF DeliverOutOfRange, postVars, boxVars, rangeVars
  <2>2. t \in OutTiles /\ q.stands = "ok" /\ range # "unknown"
    BY <1>5 DEF DeliverOutOfRange, WakeInv, AnsweredInv
  <2>3. /\ \A r \in queries : r # q => r \in queries'
        /\ q.left \ {t} # {} => [left |-> q.left \ {t}, stands |-> "ok"] \in queries'
    BY <1>5, QueryGoesOn DEF DeliverOutOfRange
  <2>4. ASSUME NEW r \in queries, r.stands = "failing" \/ ~ (r.left \subseteq OutTiles)
        PROVE  Coming'
    <3>1. CASE r = q
      <4>1. ~ (q.left \ {t} \subseteq OutTiles)
        BY <2>2, <2>4, <3>1
      <4> QED  BY <2>3, <4>1 DEF Coming
    <3>2. CASE r # q
      BY <2>3, <2>4, <3>2 DEF Coming
    <3> QED  BY <3>1, <3>2
  <2>5. DrainToCome' <=> DrainToCome
    BY <2>1 DEF DrainToCome
  <2>6. Changed' <=> Changed
    BY <2>1 DEF Changed, Failed
  <2>7. Coming => Coming'
    BY <2>1, <2>2, <2>4, <2>5, <2>6 DEF Coming
  <2>8. range' = range /\ learned' = learned
    BY <2>1
  <2> QED  BY <1>0, <2>5, <2>6, <2>7, <2>8
<1> QED  BY <1>1, <1>2, <1>3, <1>4, <1>5 DEF Callback
LEMMA WakeCallback ==
  ASSUME Typed, WakeInv, Callback \/ Signal
  PROVE  WakeInv'
<1>1. /\ view' = view /\ cache' = cache /\ backoff' = backoff /\ phase' = phase
      /\ list' = list /\ dirty' = dirty /\ timer' = timer
      /\ inFlight' \subseteq inFlight
  BY DEF Callback, Signal, Answer, NoReply, DeliverFailed, DeliverTile, DeliverOutOfRange,
         guiVars, askVars
<1>2. AnsweredInv'
  <2>1. AnsweredInv
    BY DEF WakeInv
  <2>2. CASE Signal
    BY <2>1, <2>2 DEF Signal, rangeVars, askVars, AnsweredInv
  <2>3. ASSUME NEW q \in queries, NEW status \in {"ok", "failing"}, Answer(q, status)
        PROVE  AnsweredInv'
    <3>1. range' # "unknown"
      BY <2>3 DEF Answer
    <3> QED  BY <3>1 DEF AnsweredInv
  <2>4. ASSUME NEW q \in queries, NoReply(q)
        PROVE  AnsweredInv'
    <3>1. \A r \in queries' : r \in queries \/ r = [left |-> q.left, stands |-> "failing"]
      BY <2>4, QueryGoesOn DEF NoReply
    <3> QED  BY <2>1, <2>4, <3>1 DEF NoReply, rangeVars, AnsweredInv
  <2>5. ASSUME NEW q \in queries, NEW t \in q.left,
               DeliverFailed(q, t) \/ DeliverTile(q, t) \/ DeliverOutOfRange(q, t)
        PROVE  AnsweredInv'
    <3>1. q.stands \in {"sent", "ok", "failing"}
      BY DEF Typed, TypeOK
    <3>2. Becomes(q, q.left \ {t}, q.stands) /\ range' = range
      BY <2>5 DEF DeliverFailed, DeliverTile, DeliverOutOfRange, rangeVars
    <3>3. \A r \in queries' : r \in queries \/ r = [left |-> q.left \ {t}, stands |-> q.stands]
      BY <3>2 DEF Becomes
    <3> QED  BY <2>1, <3>2, <3>3 DEF AnsweredInv
  <2> QED  BY <2>2, <2>3, <2>4, <2>5 DEF Callback
<1>3. WaitInv'
  BY <1>1 DEF WakeInv, WaitInv, Waits
<1>4. /\ \A t : Cached(t)' <=> Cached(t)
      /\ Scheduled \subseteq Scheduled'
      /\ range' = range => Asked' = Asked /\ Wanted' = Wanted
  BY <1>1 DEF Cached, Scheduled, Waits, Asked, Wanted
<1>5. (learned' /\ DrainToCome') => Coming'
  BY DEF Coming
<1>6. PaintInv'
  BY <1>1, <1>4, <1>5, KeepsComing DEF WakeInv, PaintInv
<1>7. RestInv'
  BY <1>1, <1>4, <1>5, KeepsComing DEF WakeInv, RestInv
<1> QED  BY <1>2, <1>3, <1>6, <1>7, KeepsComing DEF WakeInv

\* After a request the paint has either everything, or a tile that waits its
\* turn and will set the timer, or an answer or a drain to come.
LEMMA RequestWakes ==
  ASSUME Typed, InFlightIsAsked, WakeInv, PaintRequests
  PROVE  WakeInv'
<1>1. /\ view' = view /\ range' = range /\ learned' = learned /\ cache' = cache
      /\ backoff' = backoff /\ mailbox' = mailbox /\ list' = list /\ dirty' = dirty
      /\ phase = "walked" /\ phase' = "drawing"
  BY DEF PaintRequests, rangeVars, guiVars
<1>2. /\ \A t : Cached(t)' <=> Cached(t)
      /\ Wanted' = Wanted
  BY <1>1 DEF Cached, Wanted
<1>3. WaitInv'
  BY <1>1 DEF WakeInv, WaitInv, Waits
<1>4. learned /\ DrainToCome => learned' /\ DrainToCome'
  <2>1. DrainToCome => DrainToCome'
    BY <1>1 DEF PaintRequests, RequestNothing, RequestSent, RequestNotSent, DrainToCome,
                Typed, TypeOK
  <2> QED  BY <1>1, <2>1
<1>5. ASSUME ToSet(list) = Asked, RequestNothing
      PROVE  Coming' \/ \A t \in Wanted : Cached(t) \/ t \in Scheduled'
  <2>1. ASSUME NEW t \in Wanted, t \in inFlight
        PROVE  Coming'
    <3>1. PICK q \in queries : t \in q.left
      BY <2>1 DEF InFlightIsAsked
    <3>2. q \in queries' /\ ~ (q.left \subseteq OutTiles)
      BY <1>5, <3>1 DEF RequestNothing, Wanted
    <3> QED  BY <3>2 DEF Coming
  <2>2. ASSUME NEW t \in Wanted, t \notin inFlight
        PROVE  Cached(t) \/ t \in Scheduled'
    <3>1. t \in ToSet(list) /\ t \in Tiles
      <4>1. t \in ToSet(list)
        BY <1>5 DEF Wanted, Asked
      <4>2. list \in Seq(Tiles)
        BY DEF Typed, TypeOK
      <4> QED  BY <4>1, <4>2 DEF ToSet
    <3>2. ~ Missing(t)
      BY <1>5, <3>1, NothingMissing DEF RequestNothing
    <3>3. Cached(t) \/ Waits(t)
      BY <2>2, <3>2 DEF Missing
    <3>4. Waits(t) => t \in Scheduled'
      BY <1>1, <1>5, <2>2, <3>1 DEF RequestNothing, Scheduled, Waits, WakeInv, WaitInv
    <3> QED  BY <3>3, <3>4
  <2> QED  BY <2>1, <2>2
<1>6. ASSUME ToSet(list) = Asked, RequestSent
      PROVE  Coming' \/ \A t \in Wanted : Cached(t) \/ t \in Scheduled'
  <2> DEFINE p == [left |-> Ask, stands |-> "sent"]
  <2>1. p \in queries' /\ p.left = Ask
    BY <1>6 DEF RequestSent
  <2> HIDE DEF p
  <2>2. CASE range = "unknown" \/ ~ (Ask \subseteq OutTiles)
    BY <1>1, <2>1, <2>2 DEF Coming
  <2>3. CASE range # "unknown" /\ Ask \subseteq OutTiles
    <3>1. Ask \subseteq Asked /\ Ask # {}
      BY <1>6 DEF Ask, RequestSent, ToSet
    <3>2. Asked \intersect OutTiles = {} \/ Asked \subseteq OutTiles
      <4>1. view \in Views /\ range \in {"archive", "zero"}
        BY <2>3 DEF Typed, TypeOK, Ranges
      <4> QED  BY <4>1, LevelsAssumption DEF Asked
    <3>3. Wanted = {}
      BY <2>3, <3>1, <3>2 DEF Wanted, Asked
    <3> QED  BY <3>3
  <2> QED  BY <2>2, <2>3
<1>7. ASSUME RequestNotSent
      PROVE  Coming'
  <2>1. PICK t \in Tiles : t \in Ask
    BY <1>7 DEF RequestNotSent, Ask
  <2>2. failures'[t] > 0
    BY <1>7, <2>1 DEF RequestNotSent, Typed, TypeOK
  <2> QED  BY <2>2 DEF Coming, Changed, Failed
<1>8. PaintInv'
  <2>1. ToSet(list) = Asked \/ (learned /\ DrainToCome)
    BY <1>1 DEF WakeInv, PaintInv
  <2>2. Coming' \/ \A t \in Wanted : Cached(t) \/ t \in Scheduled'
    <3>1. CASE learned /\ DrainToCome
      BY <1>4, <3>1 DEF Coming
    <3>2. CASE ToSet(list) = Asked
      BY <1>5, <1>6, <1>7, <3>2 DEF PaintRequests
    <3> QED  BY <2>1, <3>1, <3>2
  <2>3. ~ dirty'
    BY <1>1 DEF WakeInv, PaintInv
  <2> QED  BY <1>1, <1>2, <2>2, <2>3 DEF PaintInv
<1>9. AnsweredInv'
  <2>1. \A q \in queries' : q \in queries \/ q.stands = "sent"
    BY DEF PaintRequests, RequestNothing, RequestSent, RequestNotSent
  <2> QED  BY <1>1, <2>1 DEF WakeInv, AnsweredInv
<1>10. Changed' => DrainToCome'
  <2>1. CASE RequestNotSent
    <3>1. posted' = 1
      BY <2>1 DEF RequestNotSent, Typed, TypeOK
    <3> QED  BY <3>1 DEF DrainToCome
  <2>2. CASE RequestNothing \/ RequestSent
    <3>1. failures' = failures /\ owed' = owed /\ posted' = posted
      BY <2>2 DEF RequestNothing, RequestSent
    <3>2. (Changed' <=> Changed) /\ (DrainToCome => DrainToCome')
      BY <1>1, <3>1 DEF Changed, Failed, DrainToCome
    <3> QED  BY <3>2 DEF WakeInv
  <2> QED  BY <2>1, <2>2 DEF PaintRequests
<1>11. RestInv'
  BY <1>1 DEF RestInv
<1> QED  BY <1>3, <1>8, <1>9, <1>10, <1>11 DEF WakeInv
\* The other steps of the GUI thread, its timer, and the time that passes.
LEMMA WakeOthers ==
  ASSUME InstantPaint, Typed, WakeInv,
         \/ \E v \in Views : MoveCamera(v)
         \/ PaintWalks \/ PaintEnds \/ DrainBegins \/ DrainTakes \/ TimerFires \/ Tick
  PROVE  WakeInv'
<1>1. CASE \E v \in Views : MoveCamera(v)
  <2>1. dirty' = TRUE /\ phase' = "idle" /\ phase = "idle"
    BY <1>1 DEF MoveCamera
  <2>2. /\ queries' = queries /\ range' = range /\ backoff' = backoff /\ mailbox' = mailbox
        /\ failures' = failures /\ owed' = owed /\ posted' = posted
    BY <1>1 DEF MoveCamera, rangeVars, guiVars, askVars, boxVars, postVars
  <2> QED  BY <2>1, <2>2 DEF WakeInv, AnsweredInv, WaitInv, Waits, Changed, Failed, DrainToCome,
                             PaintInv, RestInv
<1>2. CASE PaintWalks
  <2>1. dirty' = FALSE /\ phase' = "walked" /\ phase = "idle"
    BY <1>2 DEF PaintWalks
  <2>2. /\ queries' = queries /\ range' = range /\ backoff' = backoff /\ mailbox' = mailbox
        /\ failures' = failures /\ owed' = owed /\ posted' = posted /\ view' = view
        /\ list' = Shown[view][range] \o Ring[view][range]
    BY <1>2 DEF PaintWalks, rangeVars, guiVars, askVars, boxVars, postVars
  <2>3. ToSet(list') = Asked'
    <3>1. Shown[view][range] \in Seq(Tiles) /\ Ring[view][range] \in Seq(Tiles)
      BY GridAssumption DEF Typed, TypeOK
    <3>2. ToSet(list') = ToSet(Shown[view][range]) \union ToSet(Ring[view][range])
      BY <2>2, <3>1, ConcatenatedTiles
    <3> QED  BY <2>2, <3>2 DEF Asked
  <2>4. PaintInv' /\ RestInv'
    BY <2>1, <2>3 DEF PaintInv, RestInv
  <2> QED  BY <2>1, <2>2, <2>4 DEF WakeInv, AnsweredInv, WaitInv, Waits, Changed, Failed,
                                   DrainToCome
<1>3. CASE PaintEnds
  <2>1. phase = "drawing" /\ phase' = "idle"
    BY <1>3 DEF PaintEnds
  <2>2. /\ queries' = queries /\ range' = range /\ learned' = learned /\ view' = view
        /\ backoff' = backoff /\ mailbox' = mailbox /\ failures' = failures
        /\ owed' = owed /\ posted' = posted
    BY <1>3 DEF PaintEnds, rangeVars, guiVars, askVars, boxVars, postVars
  <2>3. (Changed' <=> Changed) /\ (DrainToCome' <=> DrainToCome)
    BY <2>1, <2>2 DEF Changed, Failed, DrainToCome
  <2>4. Coming => Coming'
    BY <2>2, <2>3 DEF Coming
  <2>5. \A t : Cached(t)' <=> Cached(t)
    BY <1>3, TouchKeeps DEF PaintEnds, Typed
  <2>6. Scheduled = {} \/ timer' # Off
    BY <1>3, TimerArms DEF PaintEnds, Typed
  <2>7. Wanted' = Wanted
    BY <2>2 DEF Wanted
  <2>8. Coming \/ \A t \in Wanted : Cached(t) \/ t \in Scheduled
    BY <2>1 DEF WakeInv, PaintInv
  <2>9. timer' = Off => Coming' \/ \A t \in Wanted' : Cached(t)'
    BY <2>4, <2>5, <2>6, <2>7, <2>8
  <2>10. PaintInv' /\ RestInv'
    BY <2>1, <2>9 DEF PaintInv, RestInv
  <2> QED  BY <2>2, <2>3, <2>10 DEF WakeInv, AnsweredInv, WaitInv, Waits
<1>4. CASE DrainBegins
  <2>1. phase = "idle" /\ phase' = "draining" /\ dirty' = dirty /\ timer' = timer
    BY <1>4 DEF DrainBegins
  <2>2. /\ queries' = queries /\ range' = range /\ learned' = learned /\ view' = view
        /\ cache' = cache /\ backoff' = backoff /\ mailbox' = mailbox /\ failures' = failures
    BY <1>4 DEF DrainBegins, rangeVars, guiVars, askVars, boxVars
  <2>3. (Changed' <=> Changed) /\ DrainToCome'
    BY <2>1, <2>2 DEF Changed, Failed, DrainToCome
  <2>4. Coming => Coming'
    BY <2>2, <2>3 DEF Coming
  <2>5. Wanted' = Wanted /\ \A t : Cached(t)' <=> Cached(t)
    BY <2>2 DEF Wanted, Cached
  <2>6. PaintInv' /\ RestInv'
    BY <2>1, <2>4, <2>5 DEF PaintInv, RestInv, WakeInv
  <2> QED  BY <2>2, <2>3, <2>6 DEF WakeInv, AnsweredInv, WaitInv, Waits
<1>5. CASE DrainTakes
  <2>1. /\ phase = "draining" /\ phase' = "idle"
        /\ mailbox' = <<>> /\ failures' = [t \in Tiles |-> 0]
        /\ dirty' = (dirty \/ Changed \/ learned) /\ timer' = timer
        /\ FoldFailures /\ InsertArrivals
    BY <1>5 DEF DrainTakes
  <2>2. queries' = queries /\ range' = range /\ view' = view
    BY <1>5 DEF DrainTakes, askVars
  <2>3. ~ Changed'
    BY <2>1 DEF Changed, Failed
  <2>4. ASSUME ~ dirty', timer' = Off
        PROVE  Coming' \/ \A t \in Wanted' : Cached(t)'
    <3>1. ~ dirty /\ ~ Changed /\ ~ learned /\ timer = Off
      BY <2>1, <2>4
    <3>2. cache' = cache
      BY <2>1, <3>1 DEF InsertArrivals, Changed
    <3>3. Wanted' = Wanted /\ \A t : Cached(t)' <=> Cached(t)
      BY <2>2, <3>2 DEF Wanted, Cached
    <3>4. Coming \/ \A t \in Wanted : Cached(t)
      BY <2>1, <3>1 DEF WakeInv, RestInv
    <3>5. Coming => Coming'
      BY <2>2, <3>1 DEF Coming
    <3> QED  BY <3>3, <3>4, <3>5
  <2>5. WaitInv'
    <3>1. \A t \in Tiles : Failed(t) => backoff[t].attempts + failures[t] > 0
      BY DEF Typed, TypeOK, Failed
    <3>2. \A t \in Tiles : Waits(t) => backoff[t].attempts > 0
      BY DEF WakeInv, WaitInv
    <3> QED  BY <2>1, <3>1, <3>2 DEF FoldFailures, WaitInv, Waits, NoBackoff
  <2>6. PaintInv' /\ RestInv'
    BY <2>1, <2>4 DEF PaintInv, RestInv
  <2> QED  BY <2>2, <2>3, <2>5, <2>6 DEF WakeInv, AnsweredInv
<1>6. CASE TimerFires
  <2>1. dirty' = TRUE /\ phase' = "idle" /\ phase = "idle"
    BY <1>6 DEF TimerFires
  <2>2. /\ queries' = queries /\ range' = range /\ backoff' = backoff /\ mailbox' = mailbox
        /\ failures' = failures /\ owed' = owed /\ posted' = posted
    BY <1>6 DEF TimerFires, rangeVars, guiVars, askVars, boxVars, postVars
  <2> QED  BY <2>1, <2>2 DEF WakeInv, AnsweredInv, WaitInv, Waits, Changed, Failed, DrainToCome,
                             PaintInv, RestInv
<1>7. CASE Tick
  <2>1. phase' = phase /\ phase \in {"idle", "draining"} /\ dirty' = dirty
    BY <1>7 DEF Tick, Typed, TypeOK
  <2>2. /\ queries' = queries /\ range' = range /\ learned' = learned /\ view' = view
        /\ cache' = cache /\ mailbox' = mailbox /\ failures' = failures
        /\ owed' = owed /\ posted' = posted
    BY <1>7 DEF Tick, rangeVars, askVars, boxVars, postVars
  <2>3. (Changed' <=> Changed) /\ (DrainToCome' <=> DrainToCome)
    BY <2>1, <2>2 DEF Changed, Failed, DrainToCome
  <2>4. Coming => Coming'
    BY <2>2, <2>3 DEF Coming
  <2>5. Wanted' = Wanted /\ \A t : Cached(t)' <=> Cached(t)
    BY <2>2 DEF Wanted, Cached
  <2>6. timer' = Off => timer = Off
    BY <1>7, BoundsAssumption DEF Tick, Off, Typed, TypeOK
  <2>7. WaitInv'
    <3>1. \A t \in Tiles : /\ backoff'[t].attempts = backoff[t].attempts
                           /\ backoff'[t].left > 0 => backoff[t].left > 0
      BY <1>7, BoundsAssumption DEF Tick, Typed, TypeOK
    <3> QED  BY <3>1 DEF WakeInv, WaitInv, Waits
  <2>8. PaintInv' /\ RestInv'
    BY <2>1, <2>4, <2>5, <2>6 DEF PaintInv, RestInv, WakeInv
  <2> QED  BY <2>2, <2>3, <2>7, <2>8 DEF WakeInv, AnsweredInv
<1> QED  BY <1>1, <1>2, <1>3, <1>4, <1>5, <1>6, <1>7
LEMMA WakeStep == InstantPaint /\ Typed /\ InFlightIsAsked /\ WakeInv /\ [Next]_vars => WakeInv'
<1> SUFFICES ASSUME InstantPaint, Typed, InFlightIsAsked, WakeInv, [Next]_vars PROVE WakeInv'
  OBVIOUS
<1>1. CASE UNCHANGED vars
  <2>1. /\ view' = view /\ range' = range /\ learned' = learned /\ cache' = cache
        /\ backoff' = backoff /\ inFlight' = inFlight /\ queries' = queries
        /\ mailbox' = mailbox /\ failures' = failures /\ owed' = owed /\ posted' = posted
        /\ phase' = phase /\ list' = list /\ dirty' = dirty /\ timer' = timer
    BY <1>1 DEF vars, rangeVars, guiVars, askVars, boxVars, postVars
  <2> QED  BY <2>1 DEF WakeInv, AnsweredInv, WaitInv, Waits, PaintInv, RestInv, Coming, Changed,
                       Failed, DrainToCome, Asked, Wanted, Cached, Scheduled
<1> QED  BY <1>1, WakeCallback, RequestWakes, WakeOthers DEF Next, Gui

\* No lost wake-up: when nothing more will happen by itself, all that the
\* viewport wants has arrived.
THEOREM NoLostWakeUp == ASSUME InstantPaint PROVE Spec => []QuietMeansComplete
<1>1. Init => InFlightIsAsked
  BY DEF Init, InFlightIsAsked
<1>2. Init => WakeInv
  BY DEF Init, WakeInv, AnsweredInv, WaitInv, Waits, NoBackoff, Changed, Failed, PaintInv, RestInv
<1>3. Typed /\ WakeInv => QuietMeansComplete
  BY DEF Typed, TypeOK, WakeInv, RestInv, Coming, DrainToCome, QuietMeansComplete, Quiet
<1> QED  BY <1>1, <1>2, <1>3, TypedInit, TypedStep, AskedStep, WakeStep, PTL DEF Spec
=============================================================================
