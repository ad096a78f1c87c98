-------------------------- MODULE Iap2SessionProofs --------------------------
(* Theorems about Iap2Session, for every range of sequence numbers, every     *)
(* parameters that the phone may dictate, any loss, reset and failure.        *)
EXTENDS Iap2Session, FiniteSetTheorems, TLAPS
-----------------------------------------------------------------------------
(* The loops of the link layer are folds from the left.                       *)

LastOf(S) == Max(S)

EnqueueNext(chunk, l)  == EnqueuePacket(l, chunk)
DrainNext(chunk, l)    == DrainOne(l, chunk)
KeepNext(psn, l)       == KeepDue(l, psn)
ResendNext(entry, l)   == ResendNamed(l, entry)
DeliverHeld(held, l)   == DeliverNext(l)

Enqueues   == INSTANCE FoldLemmas WITH Op <- EnqueueNext, Pick <- LastOf
Drains     == INSTANCE FoldLemmas WITH Op <- DrainNext, Pick <- LastOf
Keeps      == INSTANCE FoldLemmas WITH Op <- KeepNext, Pick <- LastOf
Resends    == INSTANCE FoldLemmas WITH Op <- ResendNext, Pick <- LastOf
Deliveries == INSTANCE FoldLemmas WITH Op <- DeliverHeld, Pick <- LastOf

LEMMA FoldsAre ==
  ASSUME NEW l, NEW s
  PROVE  /\ FoldLeft(EnqueuePacket, l, s) = Enqueues!Fold(l, s, DOMAIN s)
         /\ FoldLeft(DrainOne, l, s) = Drains!Fold(l, s, DOMAIN s)
         /\ FoldLeft(KeepDue, l, s) = Keeps!Fold(l, s, DOMAIN s)
         /\ FoldLeft(ResendNamed, l, s) = Resends!Fold(l, s, DOMAIN s)
         /\ FoldLeft(LAMBDA m, held : DeliverNext(m), l, s) = Deliveries!Fold(l, s, DOMAIN s)
  <1>1. FoldLeft(EnqueuePacket, l, s) = Enqueues!Fold(l, s, DOMAIN s)
    BY DEF FoldLeft, MapThenFoldSet, Enqueues!Fold, Enqueues!MapThenFoldSet, EnqueueNext, LastOf
  <1>2. FoldLeft(DrainOne, l, s) = Drains!Fold(l, s, DOMAIN s)
    BY DEF FoldLeft, MapThenFoldSet, Drains!Fold, Drains!MapThenFoldSet, DrainNext, LastOf
  <1>3. FoldLeft(KeepDue, l, s) = Keeps!Fold(l, s, DOMAIN s)
    BY DEF FoldLeft, MapThenFoldSet, Keeps!Fold, Keeps!MapThenFoldSet, KeepNext, LastOf
  <1>4. FoldLeft(ResendNamed, l, s) = Resends!Fold(l, s, DOMAIN s)
    BY DEF FoldLeft, MapThenFoldSet, Resends!Fold, Resends!MapThenFoldSet, ResendNext, LastOf
  <1>5. FoldLeft(LAMBDA m, held : DeliverNext(m), l, s) = Deliveries!Fold(l, s, DOMAIN s)
    BY DEF FoldLeft, MapThenFoldSet, Deliveries!Fold, Deliveries!MapThenFoldSet, DeliverHeld, LastOf
  <1> QED
    BY <1>1, <1>2, <1>3, <1>4, <1>5

\* A set of numbers up to n has a first and a last.
LEMMA Extremes ==
  ASSUME NEW n \in Nat, NEW S \in SUBSET (1 .. n), S # {}
  PROVE  /\ \E i \in S : \A j \in S : i <= j
         /\ Max(S) \in S /\ \A j \in S : Max(S) >= j
  <1>1. \E i \in S : \A j \in S : i <= j
    <2>1. S \in SUBSET Nat
      OBVIOUS
    <2> QED
      BY <2>1, Enqueues!Least
  <1>2. \E i \in S : \A j \in S : i >= j
    <2> DEFINE T == {n - i : i \in S}
    <2>1. T \in SUBSET Nat /\ T # {}
      <3>1. \A i \in S : n - i \in Nat
        OBVIOUS
      <3>2. PICK i \in S : TRUE
        OBVIOUS
      <3>3. n - i \in T
        BY <3>2
      <3> QED
        BY <3>1, <3>3
    <2>2. PICK t \in T : \A u \in T : t <= u
      <3> HIDE DEF T
      <3> QED
        BY <2>1, Enqueues!Least
    <2>3. PICK i \in S : t = n - i
      OBVIOUS
    <2>4. \A j \in S : n - i <= n - j /\ i \in Int /\ j \in Int
      BY <2>2, <2>3
    <2> QED
      BY <2>4
  <1> QED
    BY <1>1, <1>2 DEF Max

LEMMA LastPicked ==
  ASSUME NEW n \in Nat
  PROVE  /\ \A s \in SUBSET (1 .. n) : s # {} => LastOf(s) \in s
         /\ \A k \in 1 .. n : LastOf(1 .. k) = k
  <1>1. \A s \in SUBSET (1 .. n) : s # {} => LastOf(s) \in s
    BY Extremes DEF LastOf
  <1>2. ASSUME NEW k \in 1 .. n PROVE LastOf(1 .. k) = k
    <2> DEFINE S == 1 .. k
    <2>1. S \in SUBSET (1 .. k) /\ S # {} /\ k \in S /\ k \in Nat
      OBVIOUS
    <2>2. Max(S) \in S /\ Max(S) >= k
      BY <2>1, Extremes
    <2> QED
      BY <2>2 DEF LastOf
  <1> QED
    BY <1>1, <1>2

\* What a loop keeps from one pass to the next holds when it is over.
LEMMA Loops ==
  ASSUME NEW l, NEW T, NEW s \in Seq(T), NEW Good, l \in Good[0]
  PROVE  /\ (\A k \in 1 .. Len(s) : \A m \in Good[k - 1] : EnqueuePacket(m, s[k]) \in Good[k])
              => FoldLeft(EnqueuePacket, l, s) \in Good[Len(s)]
         /\ (\A k \in 1 .. Len(s) : \A m \in Good[k - 1] : DrainOne(m, s[k]) \in Good[k])
              => FoldLeft(DrainOne, l, s) \in Good[Len(s)]
         /\ (\A k \in 1 .. Len(s) : \A m \in Good[k - 1] : KeepDue(m, s[k]) \in Good[k])
              => FoldLeft(KeepDue, l, s) \in Good[Len(s)]
         /\ (\A k \in 1 .. Len(s) : \A m \in Good[k - 1] : ResendNamed(m, s[k]) \in Good[k])
              => FoldLeft(ResendNamed, l, s) \in Good[Len(s)]
         /\ (\A k \in 1 .. Len(s) : \A m \in Good[k - 1] : DeliverNext(m) \in Good[k])
              => FoldLeft(LAMBDA m, held : DeliverNext(m), l, s) \in Good[Len(s)]
  <1> DEFINE n == Len(s)
  <1>1. n \in Nat /\ DOMAIN s = 1 .. n
    OBVIOUS
  <1> HIDE DEF n
  <1>2. /\ \A t \in SUBSET (1 .. n) : t # {} => LastOf(t) \in t
        /\ \A k \in 1 .. n : LastOf(1 .. k) = k
    BY <1>1, LastPicked
  <1>3. ASSUME \A k \in 1 .. n : \A m \in Good[k - 1] : EnqueuePacket(m, s[k]) \in Good[k]
        PROVE  FoldLeft(EnqueuePacket, l, s) \in Good[n]
    <2>1. Enqueues!Picks(1 .. n)
      BY <1>2 DEF Enqueues!Picks
    <2>2. \A k \in 1 .. n : \A m \in Good[k - 1] : EnqueueNext(s[k], m) \in Good[k]
      BY <1>3 DEF EnqueueNext
    <2>3. Enqueues!Fold(l, s, 1 .. n) \in Good[n]
      BY <1>1, <1>2, <2>1, <2>2, Enqueues!FoldPrefixes
    <2> QED
      BY <1>1, <2>3, FoldsAre
  <1>4. ASSUME \A k \in 1 .. n : \A m \in Good[k - 1] : DrainOne(m, s[k]) \in Good[k]
        PROVE  FoldLeft(DrainOne, l, s) \in Good[n]
    <2>1. Drains!Picks(1 .. n)
      BY <1>2 DEF Drains!Picks
    <2>2. \A k \in 1 .. n : \A m \in Good[k - 1] : DrainNext(s[k], m) \in Good[k]
      BY <1>4 DEF DrainNext
    <2>3. Drains!Fold(l, s, 1 .. n) \in Good[n]
      BY <1>1, <1>2, <2>1, <2>2, Drains!FoldPrefixes
    <2> QED
      BY <1>1, <2>3, FoldsAre
  <1>5. ASSUME \A k \in 1 .. n : \A m \in Good[k - 1] : KeepDue(m, s[k]) \in Good[k]
        PROVE  FoldLeft(KeepDue, l, s) \in Good[n]
    <2>1. Keeps!Picks(1 .. n)
      BY <1>2 DEF Keeps!Picks
    <2>2. \A k \in 1 .. n : \A m \in Good[k - 1] : KeepNext(s[k], m) \in Good[k]
      BY <1>5 DEF KeepNext
    <2>3. Keeps!Fold(l, s, 1 .. n) \in Good[n]
      BY <1>1, <1>2, <2>1, <2>2, Keeps!FoldPrefixes
    <2> QED
      BY <1>1, <2>3, FoldsAre
  <1>6. ASSUME \A k \in 1 .. n : \A m \in Good[k - 1] : ResendNamed(m, s[k]) \in Good[k]
        PROVE  FoldLeft(ResendNamed, l, s) \in Good[n]
    <2>1. Resends!Picks(1 .. n)
      BY <1>2 DEF Resends!Picks
    <2>2. \A k \in 1 .. n : \A m \in Good[k - 1] : ResendNext(s[k], m) \in Good[k]
      BY <1>6 DEF ResendNext
    <2>3. Resends!Fold(l, s, 1 .. n) \in Good[n]
      BY <1>1, <1>2, <2>1, <2>2, Resends!FoldPrefixes
    <2> QED
      BY <1>1, <2>3, FoldsAre
  <1>7. ASSUME \A k \in 1 .. n : \A m \in Good[k - 1] : DeliverNext(m) \in Good[k]
        PROVE  FoldLeft(LAMBDA m, held : DeliverNext(m), l, s) \in Good[n]
    <2>1. Deliveries!Picks(1 .. n)
      BY <1>2 DEF Deliveries!Picks
    <2>2. \A k \in 1 .. n : \A m \in Good[k - 1] : DeliverHeld(s[k], m) \in Good[k]
      BY <1>7 DEF DeliverHeld
    <2>3. Deliveries!Fold(l, s, 1 .. n) \in Good[n]
      BY <1>1, <1>2, <2>1, <2>2, Deliveries!FoldPrefixes
    <2> QED
      BY <1>1, <2>3, FoldsAre
  <1> QED
    BY <1>3, <1>4, <1>5, <1>6, <1>7 DEF n
-----------------------------------------------------------------------------
(* What the members of a link and the packets on their way range over.        *)

States == {"idle", "detect", "negotiate", "normal", "dead"}
Controls == {{"SYN"}, {"SYN", "ACK"}, {"ACK"}, {"EAK"}, {"RST"}}

Packets  == [control : Controls, seq : Psns, ack : Psns, chunk : Nat,
             missing : SUBSET Psns, lsp : Lsps]
Unacked  == [psn : Psns, chunk : Nat, counter : Nat]
Held     == [psn : Psns, chunk : Nat]

Links == [state : States, lsp : Lsps, up : BOOLEAN, sentPsn : Psns,
          lastSentAcked : Psns \union {-1}, unacked : Seq(Unacked), due : Seq(Psns),
          queued : Seq(Nat), lastIn : Psns, lastAcked : Psns \union {-1},
          outOfSequence : Seq(Held), cumulative : Nat, timers : SUBSET Timers,
          out : Seq(Packets), delivered : Seq(Nat)]

\* The retransmission order names the packets of the retransmission list.
Tracked(l) == {l.unacked[i].psn : i \in DOMAIN l.unacked} = {l.due[i] : i \in DOMAIN l.due}

\* A link that will send again what is not acknowledged.
Watched(l) == l.state = "normal" /\ l.unacked # << >> => "recvAck" \in l.timers

Sound == {l \in Links : Tracked(l) /\ Watched(l)}

\* The lists and numbers of a link: all but its state, its timers, what it
\* wrote, and the count of packets it received.
Lists(l) == [lsp |-> l.lsp, up |-> l.up, sentPsn |-> l.sentPsn,
             lastSentAcked |-> l.lastSentAcked, unacked |-> l.unacked, due |-> l.due,
             queued |-> l.queued, lastIn |-> l.lastIn, outOfSequence |-> l.outOfSequence,
             delivered |-> l.delivered]

Packet(l, control, seq, chunk, missing, lsp) ==
  [control |-> control, seq |-> seq, ack |-> l.lastIn, chunk |-> chunk,
   missing |-> missing, lsp |-> lsp]

\* m is l, but that it has died, or has written the packet.
Wrote(l, m, packet) ==
  /\ Lists(m) = Lists(l)
  /\ \/ m.state = "dead" /\ m.timers = {} /\ m.out = l.out
     \/ m.state = l.state /\ m.timers = l.timers /\ m.out = Append(l.out, packet)

LEMMA Numbers == /\ 0 \in Psns /\ FirstPsn \in Psns
                 /\ \A n \in Psns : NextPsn(n) \in Psns
                 /\ \A a \in Psns, b \in Psns \union {-1} : Distance(a, b) \in Psns
  BY PsnAssumption DEF Psns, NextPsn, Distance

LEMMA WriteFacts ==
  ASSUME NEW l \in Links, NEW control \in Controls, NEW seq \in Psns, NEW chunk \in Nat,
         NEW missing \in SUBSET Psns, NEW lsp \in Lsps
  PROVE  LET m == Write(l, control, seq, chunk, missing, lsp)
         IN m \in Links /\ Wrote(l, m, Packet(l, control, seq, chunk, missing, lsp))
  <1> DEFINE packet == Packet(l, control, seq, chunk, missing, lsp)
             m == Write(l, control, seq, chunk, missing, lsp)
  <1>1. packet \in Packets
    BY DEF Packet, Packets, Links
  <1>2. CASE l.up
    <2>1. m = [l EXCEPT !.cumulative = 0, !.out = Append(@, packet)]
      BY <1>2 DEF Write, Packet
    <2> HIDE DEF packet, m
    <2>2. m \in Links
      <3>1. l.out \in Seq(Packets)
        BY DEF Links
      <3> DEFINE out == Append(l.out, packet)
      <3>2. out \in Seq(Packets)
        BY <1>1, <3>1
      <3>3. m = [l EXCEPT !.cumulative = 0, !.out = out]
        BY <2>1
      <3> HIDE DEF out
      <3> QED
        BY <3>2, <3>3 DEF Links
    <2>3. Wrote(l, m, packet)
      BY <2>1 DEF Wrote, Links, Lists
    <2> QED
      BY <2>2, <2>3 DEF m, packet
  <1>3. CASE ~ l.up
    <2>1. m = [l EXCEPT !.state = "dead", !.timers = {}, !.cumulative = 0]
      BY <1>3 DEF Write, Bailout, Links
    <2> HIDE DEF packet, m
    <2>2. m \in Links
      BY <2>1 DEF Links, States
    <2>3. Wrote(l, m, packet)
      BY <2>1 DEF Wrote, Links, Lists
    <2> QED
      BY <2>2, <2>3 DEF m, packet
  <1> QED
    BY <1>2, <1>3
LEMMA ListsSame ==
  ASSUME NEW l, NEW m, Lists(m) = Lists(l)
  PROVE  /\ m.lsp = l.lsp /\ m.up = l.up /\ m.sentPsn = l.sentPsn
         /\ m.lastSentAcked = l.lastSentAcked /\ m.unacked = l.unacked /\ m.due = l.due
         /\ m.queued = l.queued /\ m.lastIn = l.lastIn
         /\ m.outOfSequence = l.outOfSequence /\ m.delivered = l.delivered
  BY DEF Lists

\* The acknowledgements, the retransmissions and the SYN, as Write writes them.
LEMMA SendFacts ==
  ASSUME NEW l \in Links, NEW p \in Unacked, NEW missing \in SUBSET Psns
  PROVE  /\ SendAck(l) \in Links
         /\ Wrote(l, SendAck(l), Packet(l, {"ACK"}, l.sentPsn, None, {}, NoLsp))
         /\ SendEak(l, missing) \in Links
         /\ Wrote(l, SendEak(l, missing), Packet(l, {"EAK"}, l.sentPsn, None, missing, NoLsp))
         /\ SendData(l, p) \in Links
         /\ Wrote(l, SendData(l, p), Packet(l, {"ACK"}, p.psn, p.chunk, {}, NoLsp))
  <1>1. /\ {"ACK"} \in Controls /\ {"EAK"} \in Controls /\ None \in Nat
        /\ NoLsp \in Lsps /\ {} \in SUBSET Psns
    BY DEF Controls, None, NoLsp, Lsp, Lsps
  <1>2. l.sentPsn \in Psns /\ p.psn \in Psns /\ p.chunk \in Nat
    BY DEF Links, Unacked
  <1> QED
    BY <1>1, <1>2, WriteFacts DEF SendAck, SendEak, SendData

LEMMA StaysSound ==
  ASSUME NEW l \in Links, NEW m \in Links, Tracked(l), m.unacked = l.unacked, m.due = l.due,
         m.state # "normal" \/ m.unacked = << >> \/ "recvAck" \in m.timers
  PROVE  m \in Sound
  <1>1. {m.unacked[i].psn : i \in DOMAIN m.unacked} = {l.unacked[i].psn : i \in DOMAIN l.unacked}
    OBVIOUS
  <1>2. {m.due[i] : i \in DOMAIN m.due} = {l.due[i] : i \in DOMAIN l.due}
    OBVIOUS
  <1>3. Tracked(m)
    BY <1>1, <1>2 DEF Tracked
  <1>4. Watched(m)
    BY DEF Watched
  <1> QED
    BY <1>3, <1>4 DEF Sound

LEMMA TimersSound ==
  ASSUME NEW l \in Sound, NEW t \in Timers
  PROVE  /\ Armed(l, t) \in Sound
         /\ t # "recvAck" => Disarmed(l, t) \in Sound
         /\ Disarmed(l, t) \in Links
         /\ Bailout(l) \in Sound
  <1>1. l \in Links /\ Tracked(l) /\ Watched(l) /\ l.timers \in SUBSET Timers
    BY DEF Sound, Links
  <1>2. Armed(l, t) \in Links /\ Disarmed(l, t) \in Links /\ Bailout(l) \in Links
    <2>1. l.timers \union {t} \in SUBSET Timers /\ l.timers \ {t} \in SUBSET Timers
      BY <1>1
    <2> QED
      BY <1>1, <2>1 DEF Armed, Disarmed, Bailout, Links, States
  <1>3. Armed(l, t) \in Sound
    BY <1>1, <1>2, StaysSound DEF Armed, Links, Watched
  <1>4. ASSUME t # "recvAck" PROVE Disarmed(l, t) \in Sound
    BY <1>1, <1>2, <1>4, StaysSound DEF Disarmed, Links, Watched
  <1>5. Bailout(l) \in Sound
    BY <1>1, <1>2, StaysSound DEF Bailout, Links
  <1> QED
    BY <1>2, <1>3, <1>4, <1>5

LEMMA WroteSound ==
  ASSUME NEW l \in Sound, NEW m \in Links, NEW packet, Wrote(l, m, packet)
  PROVE  m \in Sound
  <1>1. l \in Links /\ Tracked(l) /\ Watched(l)
    BY DEF Sound
  <1>2. m.unacked = l.unacked /\ m.due = l.due
    BY ListsSame DEF Wrote
  <1>3. m.state = "dead" \/ (m.state = l.state /\ m.timers = l.timers)
    BY DEF Wrote
  <1> QED
    BY <1>1, <1>2, <1>3, StaysSound DEF Watched

LEMMA SendsSound ==
  ASSUME NEW l \in Sound, NEW p \in Unacked, NEW missing \in SUBSET Psns
  PROVE  SendAck(l) \in Sound /\ SendEak(l, missing) \in Sound /\ SendData(l, p) \in Sound
  <1>1. l \in Links
    BY DEF Sound
  <1> QED
    BY <1>1, SendFacts, WroteSound
-----------------------------------------------------------------------------
(* Sending keeps a link sound.                                                *)

\* A packet sent is put on both lists, and its timer is armed.
LEMMA AppendsTrack ==
  ASSUME NEW l \in Links, NEW m, NEW packet \in Unacked, Tracked(l),
         m.unacked = Append(l.unacked, packet), m.due = Append(l.due, packet.psn)
  PROVE  Tracked(m)
  <1>1. l.unacked \in Seq(Unacked) /\ l.due \in Seq(Psns)
    BY DEF Links
  <1> DEFINE n == Len(l.unacked)
             k == Len(l.due)
  <1>2. n \in Nat /\ k \in Nat /\ DOMAIN l.unacked = 1 .. n /\ DOMAIN l.due = 1 .. k
    BY <1>1
  <1>3. /\ DOMAIN m.unacked = 1 .. n + 1 /\ m.unacked[n + 1] = packet
        /\ \A i \in 1 .. n : m.unacked[i] = l.unacked[i]
    BY <1>1
  <1>4. /\ DOMAIN m.due = 1 .. k + 1 /\ m.due[k + 1] = packet.psn
        /\ \A i \in 1 .. k : m.due[i] = l.due[i]
    BY <1>1
  <1> HIDE DEF n, k
  <1>5. {m.unacked[i].psn : i \in DOMAIN m.unacked}
          = {l.unacked[i].psn : i \in DOMAIN l.unacked} \union {packet.psn}
    BY <1>2, <1>3
  <1>6. {m.due[i] : i \in DOMAIN m.due} = {l.due[i] : i \in DOMAIN l.due} \union {packet.psn}
    BY <1>2, <1>4
  <1> QED
    BY <1>5, <1>6 DEF Tracked

LEMMA EnqueueSound ==
  ASSUME NEW l \in Sound, NEW chunk \in Nat
  PROVE  EnqueuePacket(l, chunk) \in Sound
  <1>1. l \in Links /\ Tracked(l) /\ Watched(l)
    BY DEF Sound
  <1>2. CASE l.state # "normal" \/ Outstanding(l) > l.lsp.maxOutgoing
    <2> DEFINE queued == Append(l.queued, chunk)
               m == [l EXCEPT !.queued = queued]
    <2>1. queued \in Seq(Nat)
      BY <1>1 DEF Links
    <2>2. EnqueuePacket(l, chunk) = m
      BY <1>2 DEF EnqueuePacket
    <2>3. m \in Links
      <3> HIDE DEF queued
      <3> QED
        BY <1>1, <2>1 DEF Links
    <2>4. /\ m.unacked = l.unacked /\ m.due = l.due /\ m.state = l.state
          /\ m.timers = l.timers
      BY <1>1 DEF Links
    <2> HIDE DEF m
    <2> QED
      BY <1>1, <2>2, <2>3, <2>4, StaysSound DEF Watched
  <1>3. CASE ~ (l.state # "normal" \/ Outstanding(l) > l.lsp.maxOutgoing)
    <2> DEFINE psn    == NextPsn(l.sentPsn)
               packet == [psn |-> psn, chunk |-> chunk, counter |-> 0]
               told   == [l EXCEPT !.sentPsn = psn]
               quiet  == Disarmed(told, "sendAck")
               sent   == SendData(quiet, packet)
               noted  == [sent EXCEPT !.lastAcked = sent.lastIn]
               kept   == [noted EXCEPT !.unacked = Append(@, packet), !.due = Append(@, psn)]
               final  == IF l.lsp.maxRetransmissions > 0 THEN Armed(kept, "recvAck")
                         ELSE [noted EXCEPT !.lastSentAcked = psn]
    <2>1. psn \in Psns
      BY <1>1, Numbers DEF Links
    <2>2. EnqueuePacket(l, chunk) = final
      BY <1>3 DEF EnqueuePacket
    <2> HIDE DEF psn
    <2>3. packet \in Unacked /\ packet.psn = psn
      BY <2>1 DEF Unacked
    <2> HIDE DEF packet
    <2>4. told \in Sound
      <3>1. told \in Links
        BY <1>1, <2>1 DEF Links
      <3>2. /\ told.unacked = l.unacked /\ told.due = l.due /\ told.state = l.state
            /\ told.timers = l.timers
        BY <1>1 DEF Links
      <3> HIDE DEF told
      <3> QED
        BY <1>1, <3>1, <3>2, StaysSound DEF Watched
    <2> HIDE DEF told
    <2>5. quiet \in Sound
      BY <2>4, TimersSound DEF Timers
    <2> HIDE DEF quiet
    <2>6. sent \in Sound
      BY <2>3, <2>5, SendsSound
    <2> HIDE DEF sent
    <2>7. noted \in Links /\ Tracked(noted) /\ Watched(noted)
      <3>1. sent \in Links /\ Tracked(sent) /\ Watched(sent)
        BY <2>6 DEF Sound
      <3>2. noted \in Links
        BY <3>1 DEF Links
      <3>3. /\ noted.unacked = sent.unacked /\ noted.due = sent.due
            /\ noted.state = sent.state /\ noted.timers = sent.timers
        BY <3>1 DEF Links
      <3> HIDE DEF noted
      <3> QED
        BY <3>1, <3>2, <3>3 DEF Tracked, Watched
    <2> HIDE DEF noted
    <2>8. kept \in Links /\ Tracked(kept)
      <3> DEFINE unacked == Append(noted.unacked, packet)
                 due == Append(noted.due, psn)
      <3>1. unacked \in Seq(Unacked) /\ due \in Seq(Psns)
        BY <2>1, <2>3, <2>7 DEF Links
      <3>2. kept = [noted EXCEPT !.unacked = unacked, !.due = due]
        OBVIOUS
      <3>3. kept.unacked = unacked /\ kept.due = due
        BY <2>7 DEF Links
      <3>4. kept \in Links
        <4> HIDE DEF unacked, due, kept
        <4> QED
          BY <2>7, <3>1, <3>2 DEF Links
      <3> HIDE DEF kept
      <3> QED
        BY <2>3, <2>7, <3>3, <3>4, AppendsTrack
    <2> HIDE DEF kept
    <2>9. Armed(kept, "recvAck") \in Sound
      <3> DEFINE m == Armed(kept, "recvAck")
      <3>1. kept.timers \union {"recvAck"} \in SUBSET Timers
        BY <2>8 DEF Links, Timers
      <3>2. m \in Links
        BY <2>8, <3>1 DEF Links, Armed
      <3>3. m.unacked = kept.unacked /\ m.due = kept.due /\ "recvAck" \in m.timers
        BY <2>8 DEF Links, Armed
      <3> HIDE DEF m
      <3> QED
        BY <2>8, <3>2, <3>3, StaysSound DEF m
    <2>10. [noted EXCEPT !.lastSentAcked = psn] \in Sound
      <3> DEFINE m == [noted EXCEPT !.lastSentAcked = psn]
      <3>1. m \in Links
        BY <2>1, <2>7 DEF Links
      <3>2. /\ m.unacked = noted.unacked /\ m.due = noted.due
            /\ m.state = noted.state /\ m.timers = noted.timers
        BY <2>7 DEF Links
      <3> HIDE DEF m
      <3>3. m \in Sound
        BY <2>7, <3>1, <3>2, StaysSound DEF Watched
      <3> QED
        BY <3>3 DEF m
    <2> QED
      BY <2>2, <2>9, <2>10
  <1> QED
    BY <1>2, <1>3

LEMMA SubmitSound ==
  ASSUME NEW l \in Sound, NEW chunks \in Seq(Nat)
  PROVE  SendSessionData(l, chunks) \in Sound
  <1> DEFINE Good == [k \in 0 .. Len(chunks) |-> Sound]
  <1>1. \A k \in 1 .. Len(chunks) : k - 1 \in 0 .. Len(chunks) /\ k \in 0 .. Len(chunks)
    OBVIOUS
  <1>2. \A k \in 1 .. Len(chunks) : \A m \in Good[k - 1] : EnqueuePacket(m, chunks[k]) \in Good[k]
    BY <1>1, EnqueueSound
  <1>3. l \in Good[0] /\ Good[Len(chunks)] = Sound
    OBVIOUS
  <1> HIDE DEF Good
  <1>4. FoldLeft(EnqueuePacket, l, chunks) \in Sound
    BY <1>2, <1>3, Loops
  <1> QED
    BY <1>4 DEF SendSessionData

LEMMA DrainSound ==
  ASSUME NEW l \in Sound
  PROVE  Drain(l) \in Sound
  <1>1. ASSUME NEW m \in Sound, NEW chunk PROVE DrainOne(m, chunk) \in Sound
    <2>1. CASE m.queued # << >>
      <3>1. m \in Links /\ Tracked(m) /\ Watched(m) /\ m.queued \in Seq(Nat)
        BY DEF Sound, Links
      <3> DEFINE rest == Tail(m.queued)
                 n == [m EXCEPT !.queued = rest]
      <3>2. rest \in Seq(Nat) /\ Head(m.queued) \in Nat
        BY <2>1, <3>1
      <3>3. n \in Links
        <4> HIDE DEF rest
        <4> QED
          BY <3>1, <3>2 DEF Links
      <3>4. /\ n.unacked = m.unacked /\ n.due = m.due
            /\ n.state = m.state /\ n.timers = m.timers
        BY <3>1 DEF Links
      <3>5. n = [m EXCEPT !.queued = Tail(@)]
        OBVIOUS
      <3> HIDE DEF n
      <3>6. n \in Sound
        BY <3>1, <3>3, <3>4, StaysSound DEF Watched
      <3>7. EnqueuePacket(n, Head(m.queued)) \in Sound
        BY <3>2, <3>6, EnqueueSound
      <3> QED
        BY <3>5, <3>7 DEF DrainOne
    <2>2. CASE m.queued = << >>
      BY <2>2 DEF DrainOne
    <2> QED
      BY <2>1, <2>2
  <1> DEFINE s == l.queued
             Good == [k \in 0 .. Len(s) |-> Sound]
  <1>2. s \in Seq(Nat)
    BY DEF Sound, Links
  <1>3. \A k \in 1 .. Len(s) : k - 1 \in 0 .. Len(s) /\ k \in 0 .. Len(s)
    BY <1>2
  <1>4. \A k \in 1 .. Len(s) : \A m \in Good[k - 1] : DrainOne(m, s[k]) \in Good[k]
    BY <1>1, <1>3
  <1>5. l \in Good[0] /\ Good[Len(s)] = Sound
    BY <1>2
  <1> HIDE DEF Good
  <1>6. FoldLeft(DrainOne, l, s) \in Sound
    BY <1>2, <1>4, <1>5, Loops
  <1> QED
    BY <1>6 DEF Drain
-----------------------------------------------------------------------------
(* An acknowledgement and a request to send again keep a link sound.          *)

LEMMA KeptFacts ==
  ASSUME NEW l \in Links
  PROVE  /\ Kept(l) \in Seq(Unacked)
         /\ \A i \in DOMAIN Kept(l) : \E j \in DOMAIN l.unacked : Kept(l)[i] = l.unacked[j]
  <1> DEFINE ahead == {i \in DOMAIN l.unacked : AheadOf(l.unacked[i], l.lastSentAcked, l)}
             first == CHOOSE i \in ahead : \A j \in ahead : i <= j
             n == Len(l.unacked)
  <1>1. l.unacked \in Seq(Unacked)
    BY DEF Links
  <1>2. n \in Nat /\ DOMAIN l.unacked = 1 .. n
    BY <1>1
  <1>3. CASE ahead = {}
    <2>1. Kept(l) = << >>
      BY <1>3 DEF Kept
    <2> QED
      BY <2>1
  <1>4. CASE ahead # {}
    <2>1. ahead \in SUBSET (1 .. n)
      BY <1>2
    <2>2. Kept(l) = SubSeq(l.unacked, first, n)
      BY <1>4 DEF Kept
    <2> HIDE DEF ahead, n
    <2>3. first \in 1 .. n
      BY <1>2, <1>4, <2>1, Extremes
    <2> HIDE DEF first
    <2>4. /\ Kept(l) \in Seq(Unacked)
          /\ DOMAIN Kept(l) = 1 .. n - first + 1
          /\ \A i \in 1 .. n - first + 1 : Kept(l)[i] = l.unacked[first + i - 1]
      BY <1>1, <1>2, <2>2, <2>3 DEF n
    <2>5. \A i \in 1 .. n - first + 1 : first + i - 1 \in 1 .. n
      BY <1>2, <2>3
    <2> QED
      BY <1>2, <2>4, <2>5
  <1> QED
    BY <1>3, <1>4

\* handleAck keeps what is ahead, with its deadlines, and arms the timer.
LEMMA PopFacts ==
  ASSUME NEW l \in Links, Tracked(l)
  PROVE  /\ PopAcked(l) \in Sound
         /\ \E due \in Seq(Psns) :
              Lists(PopAcked(l)) = Lists([l EXCEPT !.unacked = Kept(l), !.due = due])
         /\ PopAcked(l).state = l.state /\ PopAcked(l).out = l.out
         /\ \A t \in PopAcked(l).timers : t = "recvAck" \/ t \in l.timers
  <1> DEFINE kept == Kept(l)
             Waits == {kept[i].psn : i \in DOMAIN kept}
             n == Len(l.due)
             base == [l EXCEPT !.unacked = kept, !.due = << >>]
             Good == [k \in 0 .. n |->
                       {m \in Links : /\ m = [base EXCEPT !.due = m.due]
                                      /\ {m.due[i] : i \in DOMAIN m.due}
                                           = {l.due[i] : i \in 1 .. k} \intersect Waits}]
             popped == FoldLeft(KeepDue, base, l.due)
  <1>1. /\ kept \in Seq(Unacked)
        /\ \A i \in DOMAIN kept : \E j \in DOMAIN l.unacked : kept[i] = l.unacked[j]
    BY KeptFacts
  <1>2. l.due \in Seq(Psns) /\ n \in Nat /\ DOMAIN l.due = 1 .. n
    BY DEF Links
  <1> HIDE DEF kept, n
  <1>3. base \in Links /\ base.due = << >> /\ base.unacked = kept
    <2>1. << >> \in Seq(Psns)
      OBVIOUS
    <2> QED
      BY <1>1, <2>1 DEF Links
  <1>4. base \in Good[0]
    <2>1. base = [base EXCEPT !.due = base.due]
      BY <1>3 DEF Links
    <2>2. {base.due[i] : i \in DOMAIN base.due} = {l.due[i] : i \in 1 .. 0} \intersect Waits
      BY <1>3
    <2> HIDE DEF base, Waits
    <2> QED
      BY <1>2, <1>3, <2>1, <2>2
  <1>5. ASSUME NEW k \in 1 .. n, NEW m \in Good[k - 1]
        PROVE  KeepDue(m, l.due[k]) \in Good[k]
    <2> DEFINE psn == l.due[k]
    <2>1. k - 1 \in 0 .. n /\ k \in 0 .. n /\ psn \in Psns /\ k \in Nat
      <3> HIDE DEF Good
      <3> QED
        BY <1>2
    <2>2. /\ m \in Links /\ m = [base EXCEPT !.due = m.due]
          /\ {m.due[i] : i \in DOMAIN m.due} = {l.due[i] : i \in 1 .. k - 1} \intersect Waits
      BY <2>1
    <2>3. m.unacked = kept
      <3>1. [base EXCEPT !.due = m.due].unacked = kept
        BY <1>3 DEF Links
      <3> HIDE DEF base
      <3> QED
        BY <2>2, <3>1
    <2>4. {l.due[i] : i \in 1 .. k} = {l.due[i] : i \in 1 .. k - 1} \union {psn}
      <3>1. \A i \in 1 .. k : i \in 1 .. k - 1 \/ i = k
        BY <2>1
      <3>2. \A i \in 1 .. k - 1 : i \in 1 .. k
        BY <2>1
      <3> QED
        BY <3>1, <3>2, <2>1
    <2>5. m.due \in Seq(Psns)
      BY <2>2 DEF Links
    <2> HIDE DEF psn, base, Waits
    <2>6. CASE psn \in Waits
      <3> DEFINE due == Append(m.due, psn)
                 next == [m EXCEPT !.due = due]
      <3>1. KeepDue(m, psn) = next
        BY <2>3, <2>6 DEF KeepDue, Waits
      <3>2. due \in Seq(Psns) /\ {due[i] : i \in DOMAIN due} = {m.due[i] : i \in DOMAIN m.due} \union {psn}
        <4>1. due \in Seq(Psns)
          BY <2>1, <2>5
        <4> DEFINE r == Len(m.due)
        <4>2. r \in Nat /\ DOMAIN m.due = 1 .. r
          BY <2>5
        <4>3. /\ DOMAIN due = 1 .. r + 1 /\ due[r + 1] = psn
              /\ \A i \in 1 .. r : due[i] = m.due[i]
          BY <2>1, <2>5
        <4> HIDE DEF r, due
        <4> QED
          BY <4>1, <4>2, <4>3
      <3> HIDE DEF due
      <3>3. next \in Links /\ next.due = due
        BY <2>2, <3>2 DEF Links
      <3>4. next = [base EXCEPT !.due = next.due]
        BY <1>3, <2>2, <3>3 DEF Links
      <3> HIDE DEF next
      <3>5. {next.due[i] : i \in DOMAIN next.due} = {l.due[i] : i \in 1 .. k} \intersect Waits
        <4>1. {next.due[i] : i \in DOMAIN next.due} = {due[i] : i \in DOMAIN due}
          BY <3>3
        <4> HIDE DEF Good
        <4> QED
          BY <2>2, <2>4, <2>6, <3>2, <4>1
      <3> QED
        BY <2>1, <3>1, <3>3, <3>4, <3>5 DEF psn
    <2>7. CASE psn \notin Waits
      <3>1. KeepDue(m, psn) = m
        BY <2>3, <2>7 DEF KeepDue, Waits
      <3>2. {m.due[i] : i \in DOMAIN m.due} = {l.due[i] : i \in 1 .. k} \intersect Waits
        BY <2>2, <2>4, <2>7
      <3> QED
        BY <2>1, <2>2, <3>1, <3>2 DEF psn
    <2> QED
      BY <2>6, <2>7
  <1>6. popped \in Good[n]
    <2> HIDE DEF Good, base
    <2> QED
      BY <1>2, <1>4, <1>5, Loops DEF n
  <1>7. /\ popped \in Links /\ popped = [base EXCEPT !.due = popped.due]
        /\ {popped.due[i] : i \in DOMAIN popped.due} = {l.due[i] : i \in 1 .. n} \intersect Waits
    <2> HIDE DEF popped, base, Waits
    <2> QED
      BY <1>2, <1>6
  <1> HIDE DEF popped
  <1>8. popped = [l EXCEPT !.unacked = kept, !.due = popped.due]
    <2>1. [base EXCEPT !.due = popped.due] = [l EXCEPT !.unacked = kept, !.due = popped.due]
      BY DEF Links
    <2> HIDE DEF base
    <2> QED
      BY <1>7, <2>1
  <1>9. /\ popped.unacked = kept /\ popped.state = l.state /\ popped.out = l.out
        /\ popped.timers = l.timers
    BY <1>8 DEF Links
  <1>10. Tracked(popped)
    <2>1. Waits \subseteq {l.due[i] : i \in 1 .. n}
      <3>1. ASSUME NEW i \in DOMAIN kept PROVE \E j \in 1 .. n : kept[i].psn = l.due[j]
        <4>1. PICK a \in DOMAIN l.unacked : kept[i] = l.unacked[a]
          BY <1>1
        <4>2. l.unacked[a].psn \in {l.due[j] : j \in DOMAIN l.due}
          BY DEF Tracked
        <4> QED
          BY <1>2, <4>1, <4>2
      <3> QED
        BY <3>1
    <2>2. {popped.due[i] : i \in DOMAIN popped.due} = Waits
      BY <1>7, <2>1
    <2> QED
      BY <1>9, <2>2 DEF Tracked
  <1>11. popped.due \in Seq(Psns)
    BY <1>7 DEF Links
  <1> DEFINE final == IF kept = << >> THEN Disarmed(popped, "recvAck") ELSE Armed(popped, "recvAck")
  <1>12. PopAcked(l) = final
    BY DEF PopAcked, popped, kept
  <1>13. /\ final \in Links
         /\ final.unacked = popped.unacked /\ final.due = popped.due
         /\ final.unacked = << >> \/ "recvAck" \in final.timers
         /\ Lists(final) = Lists(popped)
         /\ final.state = l.state /\ final.out = l.out
         /\ \A t \in final.timers : t = "recvAck" \/ t \in l.timers
    <2>1. popped.timers \union {"recvAck"} \in SUBSET Timers /\ popped.timers \ {"recvAck"} \in SUBSET Timers
      BY <1>7 DEF Links, Timers
    <2>2. CASE kept = << >>
      <3>1. final = [popped EXCEPT !.timers = popped.timers \ {"recvAck"}]
        BY <2>2 DEF Disarmed
      <3> HIDE DEF final
      <3>2. final \in Links
        BY <1>7, <2>1, <3>1 DEF Links
      <3>3. /\ final.unacked = popped.unacked /\ final.due = popped.due
            /\ final.state = popped.state /\ final.out = popped.out
            /\ Lists(final) = Lists(popped)
        BY <1>7, <3>1 DEF Links, Lists
      <3>4. final.timers = popped.timers \ {"recvAck"}
        BY <1>7, <3>1 DEF Links
      <3> QED
        BY <1>9, <2>2, <3>2, <3>3, <3>4
    <2>3. CASE kept # << >>
      <3>1. final = [popped EXCEPT !.timers = popped.timers \union {"recvAck"}]
        BY <2>3 DEF Armed
      <3> HIDE DEF final
      <3>2. final \in Links
        BY <1>7, <2>1, <3>1 DEF Links
      <3>3. /\ final.unacked = popped.unacked /\ final.due = popped.due
            /\ final.state = popped.state /\ final.out = popped.out
            /\ Lists(final) = Lists(popped)
        BY <1>7, <3>1 DEF Links, Lists
      <3>4. final.timers = popped.timers \union {"recvAck"}
        BY <1>7, <3>1 DEF Links
      <3> QED
        BY <1>9, <2>3, <3>2, <3>3, <3>4
    <2> QED
      BY <2>2, <2>3
  <1> HIDE DEF final
  <1>14. final \in Sound
    BY <1>7, <1>10, <1>13, StaysSound
  <1>15. Lists(popped) = Lists([l EXCEPT !.unacked = kept, !.due = popped.due])
    BY <1>8
  <1> QED
    BY <1>11, <1>12, <1>13, <1>14, <1>15 DEF kept

LEMMA HandleAckSound ==
  ASSUME NEW l \in Sound, NEW ack \in Psns
  PROVE  HandleAck(l, ack) \in Sound
  <1> DEFINE up == IF l.state = "negotiate"
                   THEN Disarmed([l EXCEPT !.state = "normal"], "negotiate") ELSE l
             m == [up EXCEPT !.lastSentAcked = ack]
  <1>1. l \in Links /\ Tracked(l) /\ l.timers \ {"negotiate"} \in SUBSET Timers
    BY DEF Sound, Links
  <1>2. up \in Links /\ up.unacked = l.unacked /\ up.due = l.due
    <2>1. up = IF l.state = "negotiate"
               THEN [l EXCEPT !.state = "normal", !.timers = l.timers \ {"negotiate"}] ELSE l
      BY <1>1 DEF Disarmed, Links
    <2> HIDE DEF up
    <2> QED
      BY <1>1, <2>1 DEF Links, States
  <1> HIDE DEF up
  <1>3. m \in Links /\ m.unacked = up.unacked /\ m.due = up.due
    BY <1>2 DEF Links
  <1> HIDE DEF m
  <1>4. Tracked(m)
    BY <1>1, <1>2, <1>3 DEF Tracked
  <1>5. Drain(PopAcked(m)) \in Sound
    BY <1>3, <1>4, PopFacts, DrainSound
  <1> QED
    BY <1>5 DEF HandleAck, m, up
LEMMA ResendSound ==
  ASSUME NEW l \in Sound, NEW i \in DOMAIN l.unacked
  PROVE  Resend(l, i) \in Sound /\ Len(Resend(l, i).unacked) = Len(l.unacked)
  <1> DEFINE count == l.unacked[i].counter + 1
             unacked == [l.unacked EXCEPT ![i].counter = count]
             counted == [l EXCEPT !.unacked = unacked]
             sent == SendData(counted, counted.unacked[i])
             quiet == Disarmed(sent, "sendAck")
  <1>1. l \in Links /\ Tracked(l) /\ Watched(l) /\ l.unacked \in Seq(Unacked)
    BY DEF Sound, Links
  <1>2. l.unacked[i] \in Unacked
    BY <1>1
  <1>3. count \in Nat
    BY <1>2 DEF Unacked
  <1>4. Resend(l, i) = IF count = l.lsp.maxRetransmissions THEN Bailout(counted)
                       ELSE Armed(quiet, "recvAck")
    BY <1>1 DEF Resend, Links
  <1> HIDE DEF count
  <1> DEFINE entry == [l.unacked[i] EXCEPT !.counter = count]
  <1>5. entry \in Unacked /\ entry.psn = l.unacked[i].psn
    BY <1>2, <1>3 DEF Unacked
  <1>6. unacked = [l.unacked EXCEPT ![i] = entry]
    OBVIOUS
  <1> HIDE DEF entry, unacked
  <1>7. /\ unacked \in Seq(Unacked) /\ Len(unacked) = Len(l.unacked)
        /\ DOMAIN unacked = DOMAIN l.unacked
        /\ \A j \in DOMAIN unacked : unacked[j].psn = l.unacked[j].psn
        /\ unacked[i] \in Unacked
    BY <1>1, <1>5, <1>6
  <1>8. /\ counted \in Links /\ counted.unacked = unacked /\ counted.due = l.due
        /\ counted.state = l.state /\ counted.timers = l.timers
    BY <1>1, <1>7 DEF Links
  <1> HIDE DEF counted
  <1>9. counted \in Sound
    <2>1. {unacked[j].psn : j \in DOMAIN unacked} = {l.unacked[j].psn : j \in DOMAIN l.unacked}
      BY <1>7
    <2>2. unacked = << >> => l.unacked = << >>
      BY <1>1, <1>7
    <2>3. l.unacked = << >> => unacked = << >>
      BY <1>1, <1>7
    <2> QED
      <3>1. Tracked(counted)
        <4>1. {counted.unacked[j].psn : j \in DOMAIN counted.unacked}
                = {unacked[j].psn : j \in DOMAIN unacked}
          BY <1>8
        <4>2. {counted.due[j] : j \in DOMAIN counted.due} = {l.due[j] : j \in DOMAIN l.due}
          BY <1>8
        <4> QED
          BY <1>1, <2>1, <4>1, <4>2 DEF Tracked
      <3>2. Watched(counted)
        BY <1>1, <1>8, <2>2, <2>3 DEF Watched
      <3> QED
        BY <1>8, <3>1, <3>2 DEF Sound
  <1>10. sent \in Sound /\ sent.unacked = unacked
    <2>1. sent \in Sound
      BY <1>7, <1>8, <1>9, SendsSound
    <2>2. Lists(sent) = Lists(counted)
      BY <1>7, <1>8, <1>9, SendFacts DEF Wrote, Sound
    <2> QED
      BY <1>8, <2>1, <2>2, ListsSame
  <1> HIDE DEF sent
  <1>11. quiet \in Sound /\ quiet.unacked = unacked
    <2>1. quiet \in Sound
      BY <1>10, TimersSound DEF Timers
    <2> QED
      BY <1>10, <2>1 DEF Disarmed, Sound, Links
  <1> HIDE DEF quiet
  <1>12. Armed(quiet, "recvAck") \in Sound /\ Armed(quiet, "recvAck").unacked = unacked
    <2>1. Armed(quiet, "recvAck") \in Sound
      BY <1>11, TimersSound DEF Timers
    <2> QED
      BY <1>11, <2>1 DEF Armed, Sound, Links
  <1>13. Bailout(counted) \in Sound /\ Bailout(counted).unacked = unacked
    <2>1. Bailout(counted) \in Sound
      BY <1>9, TimersSound DEF Timers
    <2> QED
      BY <1>8, <2>1 DEF Bailout, Sound, Links
  <1> QED
    BY <1>4, <1>7, <1>12, <1>13

LEMMA HandleEakSound ==
  ASSUME NEW l \in Sound, NEW missing \in SUBSET Psns
  PROVE  HandleEak(l, missing) \in Sound
  <1> DEFINE n == Len(l.unacked)
             s == [i \in DOMAIN l.unacked |->
                     [at |-> i, named |-> l.unacked[i].psn \in missing]]
             Good == [k \in 0 .. n |-> {m \in Sound : Len(m.unacked) = n}]
  <1>1. n \in Nat /\ DOMAIN l.unacked = 1 .. n
    BY DEF Sound, Links
  <1> HIDE DEF n
  <1>2. /\ s \in Seq([at : Nat, named : BOOLEAN]) /\ Len(s) = n
        /\ \A k \in 1 .. n : s[k].at = k
    <2>1. \A i \in 1 .. n : [at |-> i, named |-> l.unacked[i].psn \in missing] \in [at : Nat, named : BOOLEAN]
      BY <1>1
    <2> QED
      BY <1>1, <2>1
  <1> HIDE DEF s
  <1>3. \A k \in 1 .. n : k - 1 \in 0 .. n /\ k \in 0 .. n
    BY <1>1
  <1>4. ASSUME NEW k \in 1 .. n, NEW m \in Sound, Len(m.unacked) = n
        PROVE  ResendNamed(m, s[k]) \in Sound /\ Len(ResendNamed(m, s[k]).unacked) = n
    <2>1. m.unacked \in Seq(Unacked)
      BY DEF Sound, Links
    <2>2. k \in DOMAIN m.unacked
      BY <1>4, <2>1
    <2>3. Resend(m, k) \in Sound /\ Len(Resend(m, k).unacked) = n
      BY <1>4, <2>2, ResendSound
    <2> QED
      BY <1>2, <1>4, <2>3 DEF ResendNamed
  <1>5. \A k \in 1 .. n : \A m \in Good[k - 1] : ResendNamed(m, s[k]) \in Good[k]
    BY <1>3, <1>4
  <1>6. l \in Good[0] /\ Good[n] \subseteq Sound
    BY <1>1 DEF n
  <1> HIDE DEF Good
  <1>7. FoldLeft(ResendNamed, l, s) \in Sound
    BY <1>2, <1>5, <1>6, Loops
  <1> QED
    BY <1>7 DEF HandleEak, s
-----------------------------------------------------------------------------
(* Receiving keeps a link sound.                                              *)

\* Nothing that a sound link needs has changed.
LEMMA EditSound ==
  ASSUME NEW l \in Sound, NEW m \in Links, m.unacked = l.unacked, m.due = l.due,
         m.state = l.state, m.timers = l.timers
  PROVE  m \in Sound
  <1>1. l \in Links /\ Tracked(l) /\ Watched(l)
    BY DEF Sound
  <1> QED
    BY <1>1, StaysSound DEF Watched

\* Of the held packets DeliverNext takes the first of those that are next.
LEMMA DeliverFacts ==
  ASSUME NEW l \in Links
  PROVE  \/ DeliverNext(l) = l
         \/ \E i \in DOMAIN l.outOfSequence :
              /\ Distance(l.outOfSequence[i].psn, l.lastIn) = 1
              /\ DeliverNext(l) = [l EXCEPT !.lastIn = l.outOfSequence[i].psn,
                                     !.delivered = Append(@, l.outOfSequence[i].chunk),
                                     !.outOfSequence = RemoveAt(@, i)]
  <1> DEFINE next == {i \in DOMAIN l.outOfSequence :
                        Distance(l.outOfSequence[i].psn, l.lastIn) = 1}
             i == CHOOSE i \in next : \A j \in next : i <= j
             n == Len(l.outOfSequence)
  <1>1. n \in Nat /\ DOMAIN l.outOfSequence = 1 .. n
    BY DEF Links
  <1>2. CASE next = {}
    BY <1>2 DEF DeliverNext
  <1>3. CASE next # {}
    <2>1. i \in next
      <3>1. next \in SUBSET (1 .. n)
        BY <1>1
      <3> HIDE DEF next, n
      <3> QED
        BY <1>1, <1>3, <3>1, Extremes
    <2>2. DeliverNext(l) = [l EXCEPT !.lastIn = l.outOfSequence[i].psn,
                              !.delivered = Append(@, l.outOfSequence[i].chunk),
                              !.outOfSequence = RemoveAt(@, i)]
      BY <1>3 DEF DeliverNext
    <2>3. i \in DOMAIN l.outOfSequence /\ Distance(l.outOfSequence[i].psn, l.lastIn) = 1
      BY <2>1
    <2> HIDE DEF i, next
    <2> QED
      BY <2>2, <2>3
  <1> QED
    BY <1>2, <1>3

\* Removing an element of a sequence leaves the others.
LEMMA RemoveFacts ==
  ASSUME NEW T, NEW s \in Seq(T), NEW i \in DOMAIN s
  PROVE  /\ RemoveAt(s, i) \in Seq(T)
         /\ \A j \in DOMAIN RemoveAt(s, i) : \E k \in DOMAIN s : RemoveAt(s, i)[j] = s[k]
  <1> DEFINE n == Len(s)
             a == SubSeq(s, 1, i - 1)
             b == SubSeq(s, i + 1, n)
  <1>1. n \in Nat /\ DOMAIN s = 1 .. n /\ i \in 1 .. n
    OBVIOUS
  <1>2. /\ a \in Seq(T) /\ Len(a) = i - 1
        /\ \A j \in 1 .. i - 1 : a[j] = s[j]
    BY <1>1
  <1>3. /\ b \in Seq(T) /\ Len(b) = n - i
        /\ \A j \in 1 .. n - i : b[j] = s[i + j]
    BY <1>1
  <1>4. RemoveAt(s, i) = a \o b
    BY DEF RemoveAt
  <1> HIDE DEF a, b, n
  <1>5. /\ a \o b \in Seq(T) /\ DOMAIN (a \o b) = 1 .. n - 1
        /\ \A j \in 1 .. n - 1 : (a \o b)[j] = IF j <= i - 1 THEN a[j] ELSE b[j - (i - 1)]
    BY <1>1, <1>2, <1>3
  <1>6. ASSUME NEW j \in 1 .. n - 1 PROVE \E k \in 1 .. n : (a \o b)[j] = s[k]
    <2>1. CASE j <= i - 1
      BY <1>1, <1>2, <1>5, <2>1
    <2>2. CASE j > i - 1
      <3>1. j - (i - 1) \in 1 .. n - i /\ i + (j - (i - 1)) \in 1 .. n
        BY <1>1, <2>2
      <3> QED
        <4>1. (a \o b)[j] = b[j - (i - 1)]
          BY <1>1, <1>5, <2>2
        <4>2. b[j - (i - 1)] = s[i + (j - (i - 1))]
          BY <1>3, <3>1
        <4> QED
          BY <3>1, <4>1, <4>2
    <2>3. j <= i - 1 \/ j > i - 1
      BY <1>1
    <2> QED
      BY <2>1, <2>2, <2>3
  <1> QED
    BY <1>1, <1>4, <1>5, <1>6

\* Two sequences, one behind the other.
LEMMA Joined ==
  ASSUME NEW T, NEW a \in Seq(T), NEW b \in Seq(T)
  PROVE  /\ a \o b \in Seq(T) /\ Len(a \o b) = Len(a) + Len(b)
         /\ \A i \in 1 .. Len(a) + Len(b) :
              (a \o b)[i] = IF i <= Len(a) THEN a[i] ELSE b[i - Len(a)]
  <1>1. a \o b \in Seq(T)
    OBVIOUS
  <1>2. Len(a \o b) = Len(a) + Len(b)
    OBVIOUS
  <1>3. \A i \in 1 .. Len(a) + Len(b) :
          (a \o b)[i] = IF i <= Len(a) THEN a[i] ELSE b[i - Len(a)]
    OBVIOUS
  <1> QED
    BY <1>1, <1>2, <1>3

\* A sequence with one more in front.
LEMMA InFront ==
  ASSUME NEW T, NEW x \in T, NEW s \in Seq(T)
  PROVE  LET r == <<x>> \o s
         IN /\ r \in Seq(T) /\ DOMAIN r = 1 .. Len(s) + 1 /\ r[1] = x
            /\ \A i \in 1 .. Len(s) : r[i + 1] = s[i]
  <1> DEFINE one == <<x>>
             r == one \o s
             q == Len(s)
  <1>1. one \in Seq(T) /\ Len(one) = 1 /\ one[1] = x
    OBVIOUS
  <1>2. q \in Nat
    OBVIOUS
  <1> HIDE DEF one
  <1>3. r \in Seq(T) /\ Len(r) = 1 + q
    <2>1. one \o s \in Seq(T)
      BY <1>1
    <2>2. Len(one \o s) = Len(one) + Len(s)
      BY <1>1, Joined
    <2> QED
      BY <1>1, <2>1, <2>2
  <1>4. \A i \in 1 .. 1 + q : r[i] = IF i <= 1 THEN one[i] ELSE s[i - 1]
    <2>1. \A i \in 1 .. Len(one) + Len(s) :
            (one \o s)[i] = IF i <= Len(one) THEN one[i] ELSE s[i - Len(one)]
      BY <1>1, Joined
    <2> QED
      BY <1>1, <2>1
  <1> HIDE DEF r, q
  <1>5. DOMAIN r = 1 .. q + 1
    BY <1>2, <1>3
  <1>6. r[1] = x
    BY <1>1, <1>2, <1>4
  <1>7. ASSUME NEW i \in 1 .. q PROVE r[i + 1] = s[i]
    <2>1. i + 1 \in 1 .. 1 + q /\ ~ (i + 1 <= 1) /\ (i + 1) - 1 = i
      BY <1>2
    <2> QED
      BY <1>4, <2>1
  <1> QED
    BY <1>3, <1>5, <1>6, <1>7 DEF one, r, q

LEMMA DeliverSound ==
  ASSUME NEW m \in Sound
  PROVE  DeliverNext(m) \in Sound
  <1>1. m \in Links
    BY DEF Sound
  <1>2. SUFFICES ASSUME NEW i \in DOMAIN m.outOfSequence,
                        DeliverNext(m) = [m EXCEPT !.lastIn = m.outOfSequence[i].psn,
                                            !.delivered = Append(@, m.outOfSequence[i].chunk),
                                            !.outOfSequence = RemoveAt(@, i)]
                 PROVE  DeliverNext(m) \in Sound
    BY <1>1, DeliverFacts
  <1> DEFINE held == m.outOfSequence[i]
             delivered == Append(m.delivered, held.chunk)
             rest == RemoveAt(m.outOfSequence, i)
             next == [m EXCEPT !.lastIn = held.psn, !.delivered = delivered,
                               !.outOfSequence = rest]
  <1>3. m.outOfSequence \in Seq(Held) /\ m.delivered \in Seq(Nat)
    BY <1>1 DEF Links
  <1>4. held \in Held
    BY <1>3
  <1>5. held.psn \in Psns /\ delivered \in Seq(Nat) /\ rest \in Seq(Held)
    BY <1>3, <1>4, RemoveFacts DEF Held
  <1>6. DeliverNext(m) = next
    BY <1>2
  <1> HIDE DEF held, delivered, rest
  <1>7. next \in Links /\ next.unacked = m.unacked /\ next.due = m.due
        /\ next.state = m.state /\ next.timers = m.timers
    BY <1>1, <1>5 DEF Links
  <1> HIDE DEF next
  <1> QED
    BY <1>6, <1>7, EditSound

LEMMA DeliverAllSound ==
  ASSUME NEW l \in Sound
  PROVE  DeliverAll(l) \in Sound
  <1> DEFINE s == l.outOfSequence
             Good == [k \in 0 .. Len(s) |-> Sound]
  <1>2. s \in Seq(Held)
    BY DEF Sound, Links
  <1>3. \A k \in 1 .. Len(s) : k - 1 \in 0 .. Len(s) /\ k \in 0 .. Len(s)
    BY <1>2
  <1>4. \A k \in 1 .. Len(s) : \A m \in Good[k - 1] : DeliverNext(m) \in Good[k]
    BY DeliverSound, <1>3
  <1>5. l \in Good[0] /\ Good[Len(s)] = Sound
    BY <1>2
  <1> HIDE DEF Good
  <1>6. FoldLeft(LAMBDA m, held : DeliverNext(m), l, s) \in Sound
    BY <1>2, <1>4, <1>5, Loops
  <1> QED
    BY <1>6 DEF DeliverAll

LEMMA MissingFacts ==
  ASSUME NEW l \in Links, NEW psn \in Psns
  PROVE  Missing(l, psn) \in SUBSET Psns
  <1> DEFINE d == Distance(psn, l.lastIn)
             n == l.lastIn
  <1>1. d \in Psns /\ n \in Psns
    BY Numbers DEF Links
  <1> HIDE DEF d, n
  <1>2. \A k \in 1 .. d - 1 : (n + k) % PsnMod \in Psns
    BY <1>1, PsnAssumption DEF Psns
  <1> QED
    BY <1>2 DEF Missing, d, n

\* Acknowledgements alone: lastAcked follows lastIn.
LEMMA AcknowledgeSound ==
  ASSUME NEW l \in Sound
  PROVE  AcknowledgeData(l) \in Sound /\ CumulativeAck(l) \in Sound
  <1>1. ASSUME NEW k \in Sound PROVE SendAck([k EXCEPT !.lastAcked = k.lastIn]) \in Sound
    <2> DEFINE m == [k EXCEPT !.lastAcked = k.lastIn]
    <2>1. k \in Links
      BY DEF Sound
    <2>2. m \in Links /\ m.unacked = k.unacked /\ m.due = k.due
          /\ m.state = k.state /\ m.timers = k.timers
      BY <2>1 DEF Links
    <2> HIDE DEF m
    <2>3. m \in Sound
      BY <2>2, EditSound
    <2>4. [psn |-> 0, chunk |-> 0, counter |-> 0] \in Unacked
      BY Numbers DEF Unacked
    <2>5. SendAck(m) \in Sound
      BY <2>3, <2>4, SendsSound
    <2> QED
      BY <2>5 DEF m
  <1>2. Disarmed(l, "sendAck") \in Sound /\ Disarmed(l, "sendAck").lastIn = l.lastIn
    BY TimersSound DEF Timers, Disarmed, Sound, Links
  <1>3. Armed(l, "sendAck") \in Sound
    BY TimersSound DEF Timers
  <1>4. SendAck([Disarmed(l, "sendAck") EXCEPT !.lastAcked = l.lastIn]) \in Sound
    BY <1>1, <1>2
  <1>5. AcknowledgeData(l) \in Sound
    BY <1>3, <1>4 DEF AcknowledgeData
  <1>6. CumulativeAck(l) \in Sound
    BY <1>1 DEF CumulativeAck
  <1> QED
    BY <1>5, <1>6

LEMMA HandleDataSound ==
  ASSUME NEW l \in Sound, NEW p \in Packets
  PROVE  HandleData(l, p) \in Sound
  <1> DEFINE held == [l EXCEPT !.outOfSequence = Append(@, [psn |-> p.seq, chunk |-> p.chunk])]
  <1>1. l \in Links /\ p.seq \in Psns /\ p.chunk \in Nat
    BY DEF Sound, Packets
  <1>2. held \in Sound
    <2> DEFINE entry == [psn |-> p.seq, chunk |-> p.chunk]
               kept == Append(l.outOfSequence, entry)
    <2>1. entry \in Held
      BY <1>1 DEF Held
    <2>2. l.outOfSequence \in Seq(Held)
      BY <1>1 DEF Links
    <2> HIDE DEF entry
    <2>3. kept \in Seq(Held)
      BY <2>1, <2>2
    <2>4. held = [l EXCEPT !.outOfSequence = kept]
      BY DEF entry
    <2> HIDE DEF kept, held
    <2>5. held \in Links /\ held.unacked = l.unacked /\ held.due = l.due
          /\ held.state = l.state /\ held.timers = l.timers
      BY <1>1, <2>3, <2>4 DEF Links
    <2> QED
      BY <2>5, EditSound
  <1> HIDE DEF held
  <1>3. [psn |-> 0, chunk |-> 0, counter |-> 0] \in Unacked
    BY Numbers DEF Unacked
  <1>4. Missing(l, p.seq) \in SUBSET Psns
    BY <1>1, MissingFacts
  <1>5. SendAck(l) \in Sound
    BY <1>3, <1>4, SendsSound
  <1>6. AcknowledgeData(DeliverAll(held)) \in Sound
    BY <1>2, DeliverAllSound, AcknowledgeSound
  <1>7. Disarmed(held, "sendAck") \in Sound
    BY <1>2, TimersSound DEF Timers
  <1>8. SendEak(Disarmed(held, "sendAck"), Missing(l, p.seq)) \in Sound
    BY <1>3, <1>4, <1>7, SendsSound
  <1> QED
    BY <1>2, <1>5, <1>6, <1>8 DEF HandleData, held

LEMMA HandleSynSound ==
  ASSUME NEW l \in Sound, NEW p \in Packets
  PROVE  HandleSyn(l, p) \in Sound
  <1> DEFINE m == [l EXCEPT !.lsp = p.lsp, !.lastIn = p.seq, !.lastAcked = p.seq]
  <1>1. l \in Links /\ p.seq \in Psns /\ p.lsp \in Lsps
    BY DEF Sound, Packets
  <1>2. m \in Links /\ m.unacked = l.unacked /\ m.due = l.due
        /\ m.state = l.state /\ m.timers = l.timers
    BY <1>1 DEF Links
  <1> HIDE DEF m
  <1>3. m \in Sound
    BY <1>2, EditSound
  <1>4. [psn |-> 0, chunk |-> 0, counter |-> 0] \in Unacked
    BY Numbers DEF Unacked
  <1>5. SendAck(m) \in Sound
    BY <1>3, <1>4, SendsSound
  <1> QED
    BY <1>5 DEF HandleSyn, m

\* The whole handler keeps a link sound, whatever arrives.
LEMMA HandlePacketSound ==
  ASSUME NEW l \in Sound, NEW p \in Packets
  PROVE  HandlePacket(l, p) \in Sound
  <1> DEFINE syn  == IF "SYN" \in p.control THEN HandleSyn(l, p) ELSE l
             counted == [syn EXCEPT !.cumulative = CountedTo(@, syn.lsp.maxAck)]
             ack  == IF "ACK" \in p.control THEN HandleAck(counted, p.ack) ELSE syn
             eak  == IF "EAK" \in p.control /\ p.missing # {} THEN HandleEak(ack, p.missing) ELSE ack
             data == IF p.control \subseteq {"ACK"} /\ p.chunk # None THEN HandleData(eak, p) ELSE eak
  <1>1. HandlePacket(l, p) = IF "RST" \in p.control THEN Bailout(l) ELSE CumulativeAck(data)
    BY DEF HandlePacket
  <1>2. syn \in Sound
    BY HandleSynSound
  <1> HIDE DEF syn
  <1>3. counted \in Sound
    <2>1. syn \in Links
      BY <1>2 DEF Sound
    <2>2. CountedTo(syn.cumulative, syn.lsp.maxAck) \in Nat
      BY <2>1 DEF Links, CountedTo
    <2>3. counted \in Links /\ counted.unacked = syn.unacked /\ counted.due = syn.due
          /\ counted.state = syn.state /\ counted.timers = syn.timers
      BY <2>1, <2>2 DEF Links
    <2> HIDE DEF counted
    <2> QED
      BY <1>2, <2>3, EditSound
  <1> HIDE DEF counted
  <1>4. p.ack \in Psns /\ p.missing \in SUBSET Psns
    BY DEF Packets
  <1>5. ack \in Sound
    BY <1>2, <1>3, <1>4, HandleAckSound
  <1> HIDE DEF ack
  <1>6. eak \in Sound
    BY <1>4, <1>5, HandleEakSound
  <1> HIDE DEF eak
  <1>7. data \in Sound
    BY <1>6, HandleDataSound
  <1> HIDE DEF data
  <1>8. Bailout(l) \in Sound
    BY TimersSound DEF Timers
  <1>9. CumulativeAck(data) \in Sound
    BY <1>7, AcknowledgeSound
  <1> QED
    BY <1>1, <1>8, <1>9
-----------------------------------------------------------------------------
(* The timers and the handshake keep a link sound.                            *)

LEMMA NegotiateSound ==
  ASSUME NEW l \in Sound
  PROVE  SendNegotiate(l) \in Sound /\ Start(l) \in Sound /\ AnswerSyn(l) \in Sound
  <1>1. /\ {"SYN"} \in Controls /\ {"SYN", "ACK"} \in Controls /\ None \in Nat
        /\ {} \in SUBSET Psns
    BY DEF Controls, None
  <1>2. ASSUME NEW k \in Sound, NEW control \in {{"SYN"}, {"SYN", "ACK"}}
        PROVE  Armed(Write(k, control, k.sentPsn, None, {}, k.lsp), "negotiate") \in Sound
    <2>1. k \in Links /\ k.sentPsn \in Psns /\ k.lsp \in Lsps /\ control \in Controls
      BY <1>1 DEF Sound, Links
    <2>2. Write(k, control, k.sentPsn, None, {}, k.lsp) \in Sound
      BY <1>1, <2>1, WriteFacts, WroteSound
    <2> QED
      BY <2>2, TimersSound DEF Timers
  <1>3. \A k \in Sound : SendNegotiate(k) \in Sound
    BY <1>2 DEF SendNegotiate
  <1>4. AnswerSyn(l) \in Sound
    BY <1>2 DEF AnswerSyn
  <1>5. Start(l) \in Sound
    <2> DEFINE m == [l EXCEPT !.state = "negotiate"]
    <2>1. l \in Links /\ Tracked(l)
      BY DEF Sound
    <2>2. m \in Links /\ m.unacked = l.unacked /\ m.due = l.due /\ m.state = "negotiate"
      BY <2>1 DEF Links, States
    <2> HIDE DEF m
    <2>3. m \in Sound
      BY <2>1, <2>2, StaysSound
    <2>4. SendNegotiate(m) \in Sound
      BY <1>3, <2>3
    <2>5. Bailout(l) \in Sound
      BY TimersSound DEF Timers
    <2> QED
      BY <2>4, <2>5 DEF Start, m
  <1> QED
    BY <1>3, <1>4, <1>5

\* checkExpectAck: the list is sorted by deadline, and the front one goes out.
LEMMA ExpectAckSound ==
  ASSUME NEW l \in Sound
  PROVE  OnExpectAckTimer(l) \in Sound
  <1> DEFINE At(psn) == CHOOSE p \in Range(l.unacked) : p.psn = psn
             n == Len(l.due)
             oldest == [At(Head(l.due)) EXCEPT !.counter = @ + 1]
             later == [i \in 1 .. n - 1 |-> At(l.due[i + 1])]
             sorted == <<oldest>> \o later
             due == Append(Tail(l.due), Head(l.due))
             quiet == Disarmed(l, "recvAck")
             counted == [quiet EXCEPT !.unacked = sorted, !.due = due]
  <1>1. l \in Links /\ Tracked(l) /\ l.unacked \in Seq(Unacked) /\ l.due \in Seq(Psns)
    BY DEF Sound, Links
  <1>2. quiet \in Links /\ quiet.unacked = l.unacked /\ quiet.due = l.due
        /\ quiet.state = l.state
    BY TimersSound DEF Timers, Disarmed, Sound, Links
  <1>3. CASE l.unacked = << >> \/ l.state # "normal"
    <2>1. quiet \in Sound
      BY <1>1, <1>2, <1>3, StaysSound
    <2> QED
      BY <1>3, <2>1 DEF OnExpectAckTimer
  <1>4. CASE ~ (l.unacked = << >> \/ l.state # "normal")
    <2>1. OnExpectAckTimer(l) = IF oldest.counter = l.lsp.maxRetransmissions THEN Bailout(counted)
                                ELSE Armed(SendData(counted, oldest), "recvAck")
      <3>1. counted = [quiet EXCEPT !.unacked = sorted, !.due = Append(Tail(@), Head(@))]
        BY <1>2 DEF Links
      <3> HIDE DEF oldest, sorted, counted, quiet
      <3> QED
        BY <1>4, <3>1 DEF OnExpectAckTimer, oldest, sorted, quiet
    <2>2. n \in Nat \ {0} /\ DOMAIN l.due = 1 .. n
      <3>1. 1 \in DOMAIN l.unacked
        BY <1>1, <1>4
      <3>2. PICK i \in DOMAIN l.due : TRUE
        BY <1>1, <3>1 DEF Tracked
      <3> QED
        BY <1>1, <3>2
    <2>3. ASSUME NEW i \in 1 .. n PROVE At(l.due[i]) \in Unacked /\ At(l.due[i]).psn = l.due[i]
      <3>1. l.due[i] \in {l.unacked[j].psn : j \in DOMAIN l.unacked}
        BY <1>1, <2>2 DEF Tracked
      <3>2. PICK j \in DOMAIN l.unacked : l.unacked[j].psn = l.due[i]
        BY <3>1
      <3>3. l.unacked[j] \in Range(l.unacked)
        BY DEF Range
      <3>4. \A p \in Range(l.unacked) : p \in Unacked
        BY <1>1 DEF Range
      <3> QED
        BY <3>2, <3>3, <3>4
    <2> DEFINE first == l.due[1]
               tail == Tail(l.due)
    <2>4. /\ Head(l.due) = first /\ first \in Psns /\ due = Append(tail, first)
          /\ tail \in Seq(Psns) /\ Len(tail) = n - 1
          /\ \A i \in 1 .. n - 1 : tail[i] = l.due[i + 1]
      BY <1>1, <2>2
    <2>5. oldest \in Unacked /\ oldest.psn = first
      <3>1. At(first) \in Unacked /\ At(first).psn = first
        <4>1. 1 \in 1 .. n
          BY <2>2
        <4> HIDE DEF At, n
        <4> QED
          BY <2>3, <4>1
      <3>2. oldest = [At(first) EXCEPT !.counter = @ + 1]
        BY <2>4
      <3> HIDE DEF At
      <3> QED
        BY <3>1, <3>2 DEF Unacked
    <2>6. \A i \in 1 .. n - 1 : i + 1 \in 1 .. n
      BY <2>2
    <2>7. /\ later \in Seq(Unacked) /\ Len(later) = n - 1
          /\ \A i \in 1 .. n - 1 : later[i].psn = l.due[i + 1]
      <3> HIDE DEF n, At
      <3>1. \A i \in 1 .. n - 1 : later[i] \in Unacked /\ later[i].psn = l.due[i + 1]
        BY <2>3, <2>6
      <3>2. later = [i \in 1 .. n - 1 |-> later[i]] /\ n - 1 \in Nat
        BY <2>2
      <3> HIDE DEF later
      <3> QED
        BY <3>1, <3>2
    <2> HIDE DEF later, oldest, n, At, first, tail
    <2>8. /\ sorted \in Seq(Unacked) /\ DOMAIN sorted = 1 .. n
          /\ sorted[1] = oldest /\ \A i \in 1 .. n - 1 : sorted[i + 1] = later[i]
      <3>1. <<oldest>> \in Seq(Unacked) /\ Len(<<oldest>>) = 1 /\ <<oldest>>[1] = oldest
        BY <2>5
      <3> DEFINE one == <<oldest>>
      <3> HIDE DEF one
      <3> QED
        BY <2>2, <2>7, <3>1 DEF one
    <2>9. /\ due \in Seq(Psns) /\ DOMAIN due = 1 .. n /\ due[n] = first
          /\ \A i \in 1 .. n - 1 : due[i] = l.due[i + 1]
      <3> HIDE DEF due
      <3>1. /\ due \in Seq(Psns) /\ DOMAIN due = 1 .. n /\ due[n] = first
            /\ \A i \in 1 .. n - 1 : due[i] = tail[i]
        BY <2>2, <2>4
      <3> QED
        BY <2>4, <3>1
    <2> HIDE DEF sorted, due
    <2>10. {sorted[i].psn : i \in 1 .. n} = {due[i] : i \in 1 .. n}
      <3>1. ASSUME NEW i \in 1 .. n PROVE \E j \in 1 .. n : sorted[i].psn = due[j]
        <4>1. CASE i = 1
          BY <2>2, <2>5, <2>8, <2>9, <4>1
        <4>2. CASE i # 1
          <5>1. i - 1 \in 1 .. n - 1 /\ i - 1 \in 1 .. n /\ i = (i - 1) + 1
            BY <2>2, <4>2
          <5> DEFINE j == i - 1
          <5>2. sorted[j + 1] = later[j] /\ later[j].psn = l.due[j + 1] /\ due[j] = l.due[j + 1]
            BY <2>7, <2>8, <2>9, <5>1
          <5>3. i = j + 1 /\ j \in 1 .. n
            BY <5>1
          <5> HIDE DEF j
          <5> QED
            BY <5>2, <5>3
        <4> QED
          BY <4>1, <4>2
      <3>2. ASSUME NEW i \in 1 .. n PROVE \E j \in 1 .. n : sorted[j].psn = due[i]
        <4>1. CASE i = n
          BY <2>2, <2>5, <2>8, <2>9, <4>1
        <4>2. CASE i # n
          <5>1. i \in 1 .. n - 1 /\ i + 1 \in 1 .. n
            BY <2>2, <4>2
          <5>2. sorted[i + 1] = later[i] /\ later[i].psn = l.due[i + 1] /\ due[i] = l.due[i + 1]
            BY <2>7, <2>8, <2>9, <5>1
          <5> QED
            BY <5>1, <5>2
        <4> QED
          BY <4>1, <4>2
      <3>3. {sorted[i].psn : i \in 1 .. n} \subseteq {due[i] : i \in 1 .. n}
        BY <3>1
      <3>4. {due[i] : i \in 1 .. n} \subseteq {sorted[i].psn : i \in 1 .. n}
        BY <3>2
      <3> QED
        BY <3>3, <3>4
    <2>11. /\ counted \in Links /\ counted.unacked = sorted /\ counted.due = due
           /\ counted.timers = quiet.timers
      <3> HIDE DEF quiet
      <3> QED
        BY <1>2, <2>8, <2>9 DEF Links
    <2>12. Tracked(counted)
      <3> HIDE DEF counted
      <3> QED
        BY <2>8, <2>9, <2>10, <2>11 DEF Tracked
    <2> HIDE DEF counted
    <2>13. Bailout(counted) \in Sound
      <3> DEFINE m == Bailout(counted)
      <3>1. m \in Links /\ m.unacked = counted.unacked /\ m.due = counted.due /\ m.state = "dead"
        BY <2>11 DEF Bailout, Links, States
      <3> HIDE DEF m
      <3>2. m \in Sound
        BY <2>11, <2>12, <3>1, StaysSound
      <3> QED
        BY <3>2 DEF m
    <2>14. Armed(SendData(counted, oldest), "recvAck") \in Sound
      <3> DEFINE sent == SendData(counted, oldest)
                 m == Armed(sent, "recvAck")
      <3>1. sent \in Links /\ Lists(sent) = Lists(counted)
        <4>1. {} \in SUBSET Psns
          OBVIOUS
        <4> QED
          BY <2>5, <2>11, <4>1, SendFacts DEF Wrote
      <3>2. sent.unacked = counted.unacked /\ sent.due = counted.due
        BY <3>1, ListsSame
      <3> HIDE DEF sent
      <3>3. sent.timers \union {"recvAck"} \in SUBSET Timers
        BY <3>1 DEF Links, Timers
      <3>4. /\ m \in Links /\ m.unacked = counted.unacked /\ m.due = counted.due
            /\ "recvAck" \in m.timers
        BY <3>1, <3>2, <3>3 DEF Armed, Links
      <3> HIDE DEF m
      <3>5. m \in Sound
        BY <2>11, <2>12, <3>4, StaysSound
      <3> QED
        BY <3>5 DEF m, sent
    <2> QED
      BY <2>1, <2>13, <2>14
  <1> QED
    BY <1>3, <1>4
-----------------------------------------------------------------------------
(* Types and retransmissions, from the initial states and across every step.  *)

\* Between two calls: what was written has been taken to the channel.
Resting == {l \in Sound : l.out = << >>}

\* The inductive invariant: both links are sound, and what is on its way is a
\* packet that some link can have written.
SessionInv == /\ link \in [Ends -> Resting]
              /\ channel \in [Ends -> Seq(Packets)]
              /\ submitted \in [Ends -> 0 .. MaxChunks]
              /\ lost \in 0 .. MaxLoss

LEMMA InitSound == Init => SessionInv
  <1> SUFFICES ASSUME Init PROVE SessionInv
    OBVIOUS
  <1>1. ASSUME NEW lsp \in Lsps, NEW state \in States, state # "normal"
        PROVE  [NewLink(lsp) EXCEPT !.state = state] \in Resting
    <2> DEFINE base == NewLink(lsp)
               l == [base EXCEPT !.state = state]
    <2>1. << >> \in Seq(Unacked) /\ << >> \in Seq(Psns) /\ << >> \in Seq(Nat)
          /\ << >> \in Seq(Held) /\ << >> \in Seq(Packets)
      OBVIOUS
    <2>2. /\ {} \in SUBSET Timers /\ 0 \in Nat /\ TRUE \in BOOLEAN
          /\ -1 \in Psns \union {-1} /\ FirstPsn \in Psns /\ 0 \in Psns
          /\ "idle" \in States
      BY Numbers DEF States
    <2>3. base \in Links /\ base.unacked = << >> /\ base.due = << >> /\ base.out = << >>
      BY <2>1, <2>2 DEF Links, NewLink
    <2> HIDE DEF base
    <2>4. /\ l \in Links /\ l.unacked = << >> /\ l.due = << >> /\ l.out = << >>
          /\ l.state = state
      BY <2>3 DEF Links
    <2> HIDE DEF l
    <2>5. Tracked(l)
      BY <2>4 DEF Tracked
    <2> QED
      BY <1>1, <2>4, <2>5, StaysSound DEF Resting, l, base
  <1>2. ASSUME NEW e \in Ends PROVE link[e] \in Resting
    <2>1. CASE e = "accessory"
      <3>1. link[e] = NewLink(OwnLsp) /\ NewLink(OwnLsp) = [NewLink(OwnLsp) EXCEPT !.state = "idle"]
        <4>1. link[e] = NewLink(OwnLsp)
          BY <2>1 DEF Init
        <4> DEFINE l == NewLink(OwnLsp)
        <4>2. l = [l EXCEPT !.state = l.state] /\ l.state = "idle"
          BY DEF NewLink
        <4> QED
          BY <4>1, <4>2
      <3> QED
        BY <1>1, <3>1, SessionAssumption DEF States
    <2>2. CASE e # "accessory"
      <3>1. link[e] = [NewLink(PhoneLsp) EXCEPT !.state = "detect"]
        BY <2>2 DEF Init
      <3> QED
        BY <1>1, <3>1, SessionAssumption DEF States
    <2> QED
      BY <2>1, <2>2
  <1>3. link \in [Ends -> Resting]
    <2>1. link = [e \in Ends |-> link[e]]
      BY DEF Init
    <2> QED
      BY <1>2, <2>1
  <1>4. /\ channel \in [Ends -> Seq(Packets)] /\ submitted \in [Ends -> 0 .. MaxChunks]
        /\ lost \in 0 .. MaxLoss
    <2>1. << >> \in Seq(Packets) /\ 0 \in 0 .. MaxChunks /\ 0 \in 0 .. MaxLoss
      BY SessionAssumption
    <2> QED
      BY <2>1 DEF Init
  <1> QED
    BY <1>3, <1>4 DEF SessionInv

\* A call that leaves a sound link leaves a sound session.
LEMMA MadeSound ==
  ASSUME SessionInv, NEW e \in Ends, NEW l \in Sound, NEW inbox \in Seq(Packets),
         Made(e, l, inbox)
  PROVE  link' \in [Ends -> Resting] /\ channel' \in [Ends -> Seq(Packets)]
  <1> DEFINE m == [l EXCEPT !.out = << >>]
  <1>1. m \in Resting
    <2>1. l \in Links /\ << >> \in Seq(Packets)
      BY DEF Sound
    <2>2. m \in Links /\ m.unacked = l.unacked /\ m.due = l.due
          /\ m.state = l.state /\ m.timers = l.timers /\ m.out = << >>
      BY <2>1 DEF Links
    <2> HIDE DEF m
    <2> QED
      BY <2>2, EditSound DEF Resting
  <1>2. link' \in [Ends -> Resting]
    <2>1. link' = [link EXCEPT ![e] = m]
      BY DEF Made
    <2> HIDE DEF m
    <2> QED
      BY <1>1, <2>1 DEF SessionInv
  <1>3. channel' \in [Ends -> Seq(Packets)]
    <2>1. l.out \in Seq(Packets) /\ Other(e) \in Ends /\ Other(e) # e
      BY DEF Sound, Links, Ends, Other
    <2>2. channel[Other(e)] \o l.out \in Seq(Packets)
      BY <2>1 DEF SessionInv
    <2>3. channel' = [channel EXCEPT ![e] = inbox, ![Other(e)] = channel[Other(e)] \o l.out]
      BY <2>1 DEF Made, SessionInv
    <2> QED
      BY <2>1, <2>2, <2>3 DEF SessionInv
  <1> QED
    BY <1>2, <1>3

\* Whatever reaches an end, its handler keeps it sound.
LEMMA ReceiveSound ==
  ASSUME NEW e \in Ends, NEW l \in Sound, NEW p \in Packets
  PROVE  (IF e = "phone" THEN PhoneHandles(l, p) ELSE HandlePacket(l, p)) \in Sound
  <1>1. HandlePacket(l, p) \in Sound
    BY HandlePacketSound
  <1>2. PhoneHandles(l, p) \in Sound
    <2> DEFINE m == [l EXCEPT !.state = "negotiate", !.lastIn = p.seq, !.lastAcked = p.seq]
    <2>1. l \in Links /\ Tracked(l) /\ p.seq \in Psns
      BY DEF Sound, Packets
    <2>2. m \in Links /\ m.unacked = l.unacked /\ m.due = l.due /\ m.state = "negotiate"
      BY <2>1 DEF Links, States
    <2> HIDE DEF m
    <2>3. m \in Sound
      BY <2>1, <2>2, StaysSound
    <2>4. AnswerSyn(m) \in Sound
      BY <2>3, NegotiateSound
    <2> QED
      BY <1>1, <2>4 DEF PhoneHandles, m
  <1> QED
    BY <1>1, <1>2

LEMMA TimerSound ==
  ASSUME NEW e \in Ends, NEW l \in Sound, NEW t \in Timers
  PROVE  (IF e = "phone" /\ t = "negotiate" THEN AnswerSyn(l) ELSE OnTimer(l, t)) \in Sound
  <1>1. AnswerSyn(l) \in Sound /\ OnExpectAckTimer(l) \in Sound
    BY NegotiateSound, ExpectAckSound
  <1>2. OnNegotiateTimer(l) \in Sound
    <2>1. Disarmed(l, "negotiate") \in Sound
      BY TimersSound DEF Timers
    <2> QED
      BY <2>1, NegotiateSound DEF OnNegotiateTimer
  <1>3. OnSendAckTimer(l) \in Sound
    <2> DEFINE quiet == Disarmed(l, "sendAck")
               m == [quiet EXCEPT !.lastAcked = l.lastIn]
    <2>1. quiet \in Sound
      BY TimersSound DEF Timers
    <2>2. quiet \in Links /\ l.lastIn \in Psns
      BY <2>1 DEF Sound, Links
    <2> HIDE DEF quiet
    <2>3. m \in Links /\ m.unacked = quiet.unacked /\ m.due = quiet.due
          /\ m.state = quiet.state /\ m.timers = quiet.timers
      BY <2>2 DEF Links
    <2> HIDE DEF m
    <2>4. m \in Sound
      BY <2>1, <2>3, EditSound
    <2>5. [psn |-> 0, chunk |-> 0, counter |-> 0] \in Unacked
      BY Numbers DEF Unacked
    <2>6. SendAck(m) \in Sound
      BY <2>4, <2>5, SendsSound
    <2> QED
      BY <2>1, <2>6 DEF OnSendAckTimer, m, quiet
  <1>4. t = "negotiate" \/ t = "sendAck" \/ t = "recvAck"
    BY DEF Timers
  <1>5. OnTimer(l, t) \in Sound
    <2>1. CASE t = "negotiate"
      BY <1>2, <2>1 DEF OnTimer
    <2>2. CASE t = "sendAck"
      BY <1>3, <2>2 DEF OnTimer
    <2>3. CASE t = "recvAck"
      BY <1>1, <2>3 DEF OnTimer
    <2> QED
      BY <1>4, <2>1, <2>2, <2>3
  <1> QED
    BY <1>1, <1>5

LEMMA StepSound ==
  ASSUME SessionInv, [Next]_vars
  PROVE  SessionInv'
  <1>1. /\ \A e \in Ends : link[e] \in Sound
        /\ \A e \in Ends : channel[e] \in Seq(Packets)
        /\ "accessory" \in Ends /\ "phone" \in Ends
    BY DEF SessionInv, Resting, Ends
  <1>2. CASE UNCHANGED vars
    BY <1>2 DEF SessionInv, vars
  <1>3. CASE AccessoryStarts
    <2>1. Start(link["accessory"]) \in Sound
      BY <1>1, NegotiateSound
    <2>2. link' \in [Ends -> Resting] /\ channel' \in [Ends -> Seq(Packets)]
      BY <1>1, <1>3, <2>1, MadeSound DEF AccessoryStarts
    <2> QED
      BY <1>3, <2>2 DEF AccessoryStarts, SessionInv
  <1>4. ASSUME NEW e \in Ends, Receive(e) PROVE SessionInv'
    <2> DEFINE p == Head(channel[e])
               l == IF e = "phone" THEN PhoneHandles(link[e], p) ELSE HandlePacket(link[e], p)
    <2>1. p \in Packets /\ Tail(channel[e]) \in Seq(Packets)
      BY <1>1, <1>4 DEF Receive, CanReceive
    <2>2. Made(e, l, Tail(channel[e])) /\ UNCHANGED <<submitted, lost>>
      BY <1>4 DEF Receive
    <2> HIDE DEF p
    <2>3. l \in Sound
      BY <1>1, <2>1, ReceiveSound
    <2> HIDE DEF l
    <2>4. link' \in [Ends -> Resting] /\ channel' \in [Ends -> Seq(Packets)]
      BY <2>1, <2>2, <2>3, MadeSound
    <2> QED
      BY <2>2, <2>4 DEF SessionInv
  <1>5. ASSUME NEW e \in Ends, Corrupt(e) PROVE SessionInv'
    <2>1. Tail(channel[e]) \in Seq(Packets)
      BY <1>1, <1>5 DEF Corrupt
    <2>2. channel' \in [Ends -> Seq(Packets)]
      BY <1>5, <2>1 DEF Corrupt, SessionInv
    <2>3. lost' \in 0 .. MaxLoss
      BY <1>5, SessionAssumption DEF Corrupt, SessionInv
    <2> QED
      BY <1>5, <2>2, <2>3 DEF Corrupt, SessionInv
  <1>6. ASSUME NEW e \in Ends, Submit(e) PROVE SessionInv'
    <2>1. PICK n \in Payloads :
            /\ submitted[e] + n <= MaxChunks
            /\ Made(e, SendSessionData(link[e], [i \in 1 .. n |-> submitted[e] + i]), channel[e])
            /\ submitted' = [submitted EXCEPT ![e] = @ + n]
            /\ UNCHANGED lost
      BY <1>6 DEF Submit
    <2>2. n \in Nat /\ submitted[e] \in Nat
      BY SessionAssumption DEF SessionInv
    <2> DEFINE chunks == [i \in 1 .. n |-> submitted[e] + i]
    <2>3. chunks \in Seq(Nat)
      BY <2>2
    <2> HIDE DEF chunks
    <2>4. SendSessionData(link[e], chunks) \in Sound
      BY <1>1, <2>3, SubmitSound
    <2>5. link' \in [Ends -> Resting] /\ channel' \in [Ends -> Seq(Packets)]
      BY <1>1, <2>1, <2>4, MadeSound DEF chunks
    <2>6. submitted' \in [Ends -> 0 .. MaxChunks]
      BY <2>1, <2>2, SessionAssumption DEF SessionInv
    <2> QED
      BY <2>1, <2>5, <2>6 DEF SessionInv
  <1>7. ASSUME NEW e \in Ends, NEW t \in Timers, FireTimer(e, t) PROVE SessionInv'
    <2> DEFINE l == IF e = "phone" /\ t = "negotiate" THEN AnswerSyn(link[e])
                    ELSE OnTimer(link[e], t)
    <2>1. l \in Sound
      BY <1>1, TimerSound
    <2>2. Made(e, l, channel[e]) /\ UNCHANGED <<submitted, lost>>
      BY <1>7 DEF FireTimer
    <2> HIDE DEF l
    <2>3. link' \in [Ends -> Resting] /\ channel' \in [Ends -> Seq(Packets)]
      BY <1>1, <2>1, <2>2, MadeSound
    <2> QED
      BY <2>2, <2>3 DEF SessionInv
  <1>8. CASE PhoneResets
    <2> DEFINE l == link["phone"]
               m == Write(l, {"RST"}, l.sentPsn, None, {}, NoLsp)
    <2>1. l \in Links /\ l.sentPsn \in Psns
      BY <1>1 DEF Sound, Links
    <2>2. {"RST"} \in Controls /\ None \in Nat /\ NoLsp \in Lsps /\ {} \in SUBSET Psns
      BY DEF Controls, None, NoLsp, Lsp, Lsps
    <2> HIDE DEF l
    <2>3. m \in Sound
      BY <1>1, <2>1, <2>2, WriteFacts, WroteSound DEF l
    <2>4. Bailout(m) \in Sound
      BY <2>3, TimersSound DEF Timers
    <2>5. Made("phone", Bailout(m), channel["phone"]) /\ UNCHANGED <<submitted, lost>>
      BY <1>8 DEF PhoneResets, l
    <2> HIDE DEF m
    <2>6. link' \in [Ends -> Resting] /\ channel' \in [Ends -> Seq(Packets)]
      BY <1>1, <2>4, <2>5, MadeSound
    <2> QED
      BY <2>5, <2>6 DEF SessionInv
  <1>9. CASE TransportFails
    <2> DEFINE l == link["accessory"]
               m == [l EXCEPT !.up = FALSE]
    <2>1. l \in Sound /\ l \in Links /\ l.out = << >>
      BY <1>1 DEF Sound, SessionInv, Resting
    <2>2. link' = [link EXCEPT !["accessory"] = m]
      BY <1>9 DEF TransportFails
    <2> HIDE DEF l
    <2>3. m \in Links /\ m.unacked = l.unacked /\ m.due = l.due
          /\ m.state = l.state /\ m.timers = l.timers /\ m.out = << >>
      BY <2>1 DEF Links
    <2> HIDE DEF m
    <2>4. m \in Resting
      BY <2>1, <2>3, EditSound DEF Resting
    <2>5. link' \in [Ends -> Resting]
      BY <2>2, <2>4 DEF SessionInv
    <2> QED
      BY <1>9, <2>5 DEF TransportFails, SessionInv
  <1> QED
    BY <1>2, <1>3, <1>4, <1>5, <1>6, <1>7, <1>8, <1>9 DEF Next

THEOREM SessionInvariant == Spec => []SessionInv
  <1>1. Init => SessionInv
    BY InitSound
  <1>2. SessionInv /\ [Next]_vars => SessionInv'
    BY StepSound
  <1> QED
    BY <1>1, <1>2, PTL DEF Spec

\* The members of both objects keep their types: in particular the numbers of
\* packets stay those of a uint8_t, and every call takes what it wrote along.
THEOREM SessionTyped == Spec => []TypeOK
  <1>1. SessionInv => TypeOK
    <2> SUFFICES ASSUME SessionInv, NEW e \in Ends PROVE LinkOK(link[e])
      BY DEF TypeOK, SessionInv
    <2>1. link[e] \in Links /\ link[e].out = << >>
      BY DEF SessionInv, Resting, Sound
    <2>2. link[e].unacked \in Seq(Unacked)
      BY <2>1 DEF Links
    <2>3. \A i \in DOMAIN link[e].unacked : link[e].unacked[i].psn \in Psns
      <3>1. \A i \in DOMAIN link[e].unacked : link[e].unacked[i] \in Unacked
        BY <2>2
      <3> QED
        BY <3>1 DEF Unacked
    <2> QED
      BY <2>1, <2>3 DEF LinkOK, Links, States
  <1> QED
    BY <1>1, SessionInvariant, PTL

\* Whatever is lost, reset or refused, and whatever the parameters: what is not
\* acknowledged has a timer that sends it again, and the two lists that
\* checkExpectAck and handleEak go by name the same packets.
THEOREM RetransmissionsAreArmed == Spec => []RetransmissionArmed
  <1>1. SessionInv => RetransmissionArmed
    BY DEF SessionInv, Resting, Sound, Tracked, Watched, RetransmissionArmed
  <1> QED
    BY <1>1, SessionInvariant, PTL
-----------------------------------------------------------------------------
(* The order of a session.  Numbers do not come round within it, and callers  *)
(* wait until nothing is queued: then the number of a packet is that of its   *)
(* chunk, whatever is lost, sent again, reset or refused.                     *)

\* The number of the packet that carries the chunk; 0 stands for the SYN.
Psn(chunk) == (FirstPsn + chunk) % PsnMod

NoReuse == MaxChunks < PsnMod

\* What an end that submitted n chunks writes once the handshake is over.
Carries(p, n) == /\ p.control \in {{"ACK"}, {"EAK"}}
                 /\ p.chunk \in 0 .. n
                 /\ p.chunk # None => p.seq = Psn(p.chunk)

Numbered(entry, n) == entry.chunk \in 1 .. n /\ entry.psn = Psn(entry.chunk)

Early == {"idle", "detect", "negotiate"}

\* The chunks submitted are those sent, in order, and then those queued.
InLine(l, n) == LET sent == n - Len(l.queued)
                IN /\ sent \in Nat
                   /\ l.sentPsn = Psn(sent)
                   /\ \A i \in DOMAIN l.queued : l.queued[i] = sent + i
                   /\ l.state \in Early => sent = 0

Sends(l, n) == /\ \A i \in DOMAIN l.out : Carries(l.out[i], n)
               /\ \A i \in DOMAIN l.unacked : Numbered(l.unacked[i], n)
               /\ l.state # "dead" => InLine(l, n)

\* What came out is the first of what went in; m chunks went in.
Receives(l, m) == /\ Len(l.delivered) <= m
                  /\ \A i \in DOMAIN l.delivered : l.delivered[i] = i
                  /\ \A i \in DOMAIN l.outOfSequence : Numbered(l.outOfSequence[i], m)

\* The last number in sequence is that of the last chunk delivered.
Following(l) == l.lastIn = Psn(Len(l.delivered))

\* A packet on its way to e, whose peer submitted m chunks.
Carried(e, p, m) == \/ Carries(p, m)
                    \/ /\ p.control = IF e = "phone" THEN {"SYN"} ELSE {"SYN", "ACK"}
                       /\ p.seq = FirstPsn
                    \/ e = "accessory" /\ p.control = {"RST"}

\* e has the number its peer starts from.
Met(e, l) == l.state = "normal" \/ (e = "phone" /\ l.state = "negotiate")

\* Until the accessory has the parameters, only the handshake is on its way.
Shaken(accessory, phone, toPhone, toAccessory) ==
  /\ accessory.state # "detect" /\ phone.state # "idle"
  /\ "negotiate" \in phone.timers => phone.state \in {"negotiate", "dead"}
  /\ accessory.state \in Early =>
       /\ phone.state # "normal"
       /\ \A i \in DOMAIN toPhone : toPhone[i].control = {"SYN"}
       /\ \A i \in DOMAIN toAccessory : toAccessory[i].control \in {{"SYN", "ACK"}, {"RST"}}
  /\ accessory.state = "idle" =>
       /\ phone.state \in {"detect", "dead"} /\ toPhone = << >>
       /\ \A i \in DOMAIN toAccessory : toAccessory[i].control = {"RST"}

\* An end that submitted n chunks and whose peer submitted m.
Ordered(e, l, n, m) == /\ Sends(l, n) /\ Receives(l, m)
                       /\ Met(e, l) => Following(l)
                       /\ l.state \in Early => l.delivered = << >>

Only(e, packets, m) == \A i \in DOMAIN packets : Carried(e, packets[i], m)

EndInv(e) == /\ Ordered(e, link[e], submitted[e], submitted[Other(e)])
             /\ Only(e, channel[e], submitted[Other(e)])

Handshake == Shaken(link["accessory"], link["phone"], channel["phone"], channel["accessory"])

OrderInv == Handshake /\ \A e \in Ends : EndInv(e)
-----------------------------------------------------------------------------
(* Arithmetic of the numbers.                                                 *)

LEMMA PsnFacts ==
  /\ Psn(0) = FirstPsn
  /\ \A n \in Nat : Psn(n) \in Psns /\ NextPsn(Psn(n)) = Psn(n + 1)
  <1>1. PsnMod \in Nat \ {0} /\ FirstPsn \in 0 .. PsnMod - 1
    BY PsnAssumption
  <1>2. \A x \in Nat : /\ x = (PsnMod * (x \div PsnMod)) + (x % PsnMod)
                       /\ x % PsnMod \in 0 .. PsnMod - 1 /\ x \div PsnMod \in Nat
    BY <1>1
  <1>3. Psn(0) = FirstPsn
    BY <1>1 DEF Psn
  <1>4. ASSUME NEW n \in Nat PROVE Psn(n) \in Psns /\ NextPsn(Psn(n)) = Psn(n + 1)
    <2> DEFINE x == FirstPsn + n
               r == x % PsnMod
               q == x \div PsnMod
    <2>1. x \in Nat /\ r \in 0 .. PsnMod - 1 /\ q \in Nat /\ x = (PsnMod * q) + r
      BY <1>1, <1>2
    <2>2. Psn(n) = r /\ Psn(n + 1) = (x + 1) % PsnMod /\ NextPsn(Psn(n)) = (r + 1) % PsnMod
      <3>1. FirstPsn + (n + 1) = x + 1
        BY <1>1
      <3> QED
        BY <3>1 DEF Psn, NextPsn
    <2> HIDE DEF x, r, q
    <2>3. (x + 1) % PsnMod = (r + 1) % PsnMod
      <3>1. x + 1 = (r + 1) + (PsnMod * q) /\ r + 1 \in Nat
        BY <1>1, <2>1
      <3> QED
        BY <1>1, <2>1, <3>1
    <2> QED
      BY <2>1, <2>2, <2>3 DEF Psns
  <1> QED
    BY <1>3, <1>4

\* The packet that is next by its number carries the next chunk.
LEMMA NextChunk ==
  ASSUME NoReuse, NEW c \in 1 .. MaxChunks, NEW d \in 0 .. MaxChunks,
         Distance(Psn(c), Psn(d)) = 1
  PROVE  c = d + 1
  <1>1. PsnMod \in Nat \ {0} /\ FirstPsn \in 0 .. PsnMod - 1 /\ MaxChunks \in Nat
        /\ MaxChunks < PsnMod
    BY PsnAssumption, SessionAssumption DEF NoReuse
  <1>2. \A x \in Int : /\ x = (PsnMod * (x \div PsnMod)) + (x % PsnMod)
                       /\ x % PsnMod \in 0 .. PsnMod - 1 /\ x \div PsnMod \in Int
    BY <1>1
  <1> DEFINE a == Psn(c)
             b == Psn(d)
             p == (FirstPsn + c) \div PsnMod
             q == (FirstPsn + d) \div PsnMod
             r == (a - b) \div PsnMod
  <1>3. /\ a \in 0 .. PsnMod - 1 /\ p \in Int
        /\ FirstPsn + c = (PsnMod * p) + a
    <2> DEFINE x == FirstPsn + c
    <2>1. x \in Int
      BY <1>1
    <2>2. a = x % PsnMod /\ p = x \div PsnMod
      BY DEF Psn
    <2> HIDE DEF x, a, p
    <2>3. /\ x = (PsnMod * (x \div PsnMod)) + (x % PsnMod)
          /\ x % PsnMod \in 0 .. PsnMod - 1 /\ x \div PsnMod \in Int
      BY <1>2, <2>1
    <2>4. a \in 0 .. PsnMod - 1 /\ p \in Int /\ x = (PsnMod * p) + a
      BY <2>2, <2>3
    <2> QED
      BY <2>4 DEF x
  <1>4. /\ b \in 0 .. PsnMod - 1 /\ q \in Int
        /\ FirstPsn + d = (PsnMod * q) + b
    <2> DEFINE x == FirstPsn + d
    <2>1. x \in Int
      BY <1>1
    <2>2. b = x % PsnMod /\ q = x \div PsnMod
      BY DEF Psn
    <2> HIDE DEF x, b, q
    <2>3. /\ x = (PsnMod * (x \div PsnMod)) + (x % PsnMod)
          /\ x % PsnMod \in 0 .. PsnMod - 1 /\ x \div PsnMod \in Int
      BY <1>2, <2>1
    <2>4. b \in 0 .. PsnMod - 1 /\ q \in Int /\ x = (PsnMod * q) + b
      BY <2>2, <2>3
    <2> QED
      BY <2>4 DEF x
  <1> HIDE DEF a, b, p, q
  <1>5. (a - b) % PsnMod = 1
    BY <1>1, <1>4 DEF Distance, a, b
  <1>6. r \in Int /\ a - b = (PsnMod * r) + 1
    BY <1>1, <1>2, <1>3, <1>4, <1>5
  <1> HIDE DEF r
  <1> DEFINE k == (p - q) + r
  <1>7. k \in Int /\ (c - d) - 1 = PsnMod * k
    BY <1>1, <1>3, <1>4, <1>6
  <1> HIDE DEF k
  <1>8. k = 0
    <2>1. CASE k >= 1
      <3>1. PsnMod * k >= PsnMod
        BY <1>1, <1>7, <2>1
      <3> QED
        BY <1>1, <1>7, <3>1
    <2>2. CASE k <= -1
      <3>1. PsnMod * k <= -PsnMod
        BY <1>1, <1>7, <2>2
      <3> QED
        BY <1>1, <1>7, <3>1
    <2> QED
      BY <1>7, <2>1, <2>2
  <1> QED
    BY <1>1, <1>7, <1>8
-----------------------------------------------------------------------------
(* Sending keeps the order.                                                   *)

Inbound(l) == [lastIn |-> l.lastIn, delivered |-> l.delivered, outOfSequence |-> l.outOfSequence]

\* m is l, or has died since; it has not started to negotiate.
Stays(l, m) == /\ m.state = l.state \/ m.state = "dead"
               /\ "negotiate" \in m.timers => "negotiate" \in l.timers

\* What only sends leaves alone what came in.
Follows(l, m, n) == Sends(m, n) /\ Inbound(m) = Inbound(l) /\ Stays(l, m)

LEMMA FollowsTransitively ==
  ASSUME NEW l, NEW m, NEW k, NEW n, Stays(l, m), Inbound(m) = Inbound(l), Follows(m, k, n)
  PROVE  Follows(l, k, n)
  BY DEF Follows, Stays

LEMMA InboundSame ==
  ASSUME NEW l, NEW m, Inbound(m) = Inbound(l)
  PROVE  m.lastIn = l.lastIn /\ m.delivered = l.delivered /\ m.outOfSequence = l.outOfSequence
  BY DEF Inbound

\* The same lists, at most one packet more, and a state no livelier.
LEMMA SendsKept ==
  ASSUME NEW n \in Nat, NEW l \in Links, NEW m, Sends(l, n),
         m.queued = l.queued, m.sentPsn = l.sentPsn,
         m.state = l.state \/ m.state = "dead" \/ l.state \in Early,
         \A i \in DOMAIN m.unacked : \E j \in DOMAIN l.unacked : m.unacked[i] = l.unacked[j],
         m.out = l.out \/ \E packet : Carries(packet, n) /\ m.out = Append(l.out, packet)
  PROVE  Sends(m, n)
  <1>1. \A i \in DOMAIN m.out : Carries(m.out[i], n)
    <2>1. CASE m.out = l.out
      BY <2>1 DEF Sends
    <2>2. ASSUME NEW packet, Carries(packet, n), m.out = Append(l.out, packet)
          PROVE  \A i \in DOMAIN m.out : Carries(m.out[i], n)
      <3> DEFINE r == Len(l.out)
      <3>1. l.out \in Seq(Packets) /\ r \in Nat /\ DOMAIN l.out = 1 .. r
        BY DEF Links
      <3>2. /\ DOMAIN m.out = 1 .. r + 1 /\ m.out[r + 1] = packet
            /\ \A i \in 1 .. r : m.out[i] = l.out[i]
        BY <2>2, <3>1
      <3>3. \A i \in 1 .. r : Carries(l.out[i], n)
        BY <3>1 DEF Sends
      <3> HIDE DEF r
      <3>4. \A i \in 1 .. r + 1 : i \in 1 .. r \/ i = r + 1
        BY <3>1
      <3> QED
        BY <2>2, <3>2, <3>3, <3>4
    <2> QED
      BY <2>1, <2>2
  <1>2. \A i \in DOMAIN m.unacked : Numbered(m.unacked[i], n)
    BY DEF Sends
  <1>3. ASSUME m.state # "dead" PROVE InLine(m, n)
    <2>1. l.state # "dead" /\ (m.state \in Early => l.state \in Early)
      BY <1>3 DEF Early
    <2> QED
      BY <2>1 DEF Sends, InLine
  <1> QED
    BY <1>1, <1>2, <1>3 DEF Sends

LEMMA WroteFollows ==
  ASSUME NEW n \in Nat, NEW l \in Links, NEW m, NEW packet, Sends(l, n),
         Wrote(l, m, packet), Carries(packet, n)
  PROVE  Follows(l, m, n)
  <1>1. /\ m.queued = l.queued /\ m.sentPsn = l.sentPsn /\ m.unacked = l.unacked
        /\ m.lastIn = l.lastIn /\ m.delivered = l.delivered
        /\ m.outOfSequence = l.outOfSequence
    BY ListsSame DEF Wrote
  <1>2. \/ m.state = "dead" /\ m.timers = {} /\ m.out = l.out
        \/ m.state = l.state /\ m.timers = l.timers /\ m.out = Append(l.out, packet)
    BY DEF Wrote
  <1>3. Sends(m, n)
    BY <1>1, <1>2, SendsKept
  <1>4. Inbound(m) = Inbound(l) /\ Stays(l, m)
    BY <1>1, <1>2 DEF Inbound, Stays
  <1> QED
    BY <1>3, <1>4 DEF Follows

LEMMA SendsFollow ==
  ASSUME NEW n \in Nat, NEW l \in Links, Sends(l, n), NEW missing \in SUBSET Psns
  PROVE  /\ Follows(l, SendAck(l), n)
         /\ Follows(l, SendEak(l, missing), n)
         /\ \A p \in Unacked : Numbered(p, n) => Follows(l, SendData(l, p), n)
  <1>1. [psn |-> 0, chunk |-> 0, counter |-> 0] \in Unacked
    BY Numbers DEF Unacked
  <1>2. Follows(l, SendAck(l), n)
    <2>1. Carries(Packet(l, {"ACK"}, l.sentPsn, None, {}, NoLsp), n)
      BY DEF Carries, Packet, None
    <2> QED
      BY <1>1, <2>1, SendFacts, WroteFollows
  <1>3. Follows(l, SendEak(l, missing), n)
    <2>1. Carries(Packet(l, {"EAK"}, l.sentPsn, None, missing, NoLsp), n)
      BY DEF Carries, Packet, None
    <2> QED
      BY <1>1, <2>1, SendFacts, WroteFollows
  <1>4. ASSUME NEW p \in Unacked, Numbered(p, n) PROVE Follows(l, SendData(l, p), n)
    <2>1. Carries(Packet(l, {"ACK"}, p.psn, p.chunk, {}, NoLsp), n)
      BY <1>4 DEF Carries, Packet, None, Numbered
    <2> QED
      BY <2>1, SendFacts, WroteFollows
  <1> QED
    BY <1>2, <1>3, <1>4

LEMMA TimersFollow ==
  ASSUME NEW n \in Nat, NEW l \in Links, Sends(l, n), NEW t \in Timers
  PROVE  /\ t # "negotiate" => Follows(l, Armed(l, t), n)
         /\ Follows(l, Disarmed(l, t), n)
         /\ Follows(l, Bailout(l), n)
  <1>1. ASSUME NEW m, m.queued = l.queued, m.sentPsn = l.sentPsn, m.unacked = l.unacked,
               m.out = l.out, Inbound(m) = Inbound(l), Stays(l, m)
        PROVE  Follows(l, m, n)
    <2>1. Sends(m, n)
      BY <1>1, SendsKept DEF Stays
    <2> QED
      BY <1>1, <2>1 DEF Follows
  <1>2. ASSUME t # "negotiate" PROVE Follows(l, Armed(l, t), n)
    <2> DEFINE m == Armed(l, t)
    <2>1. /\ m.queued = l.queued /\ m.sentPsn = l.sentPsn /\ m.unacked = l.unacked
          /\ m.out = l.out /\ Inbound(m) = Inbound(l) /\ m.state = l.state
          /\ m.timers = l.timers \union {t}
      BY DEF Armed, Links, Inbound
    <2> HIDE DEF m
    <2>2. Stays(l, m)
      BY <1>2, <2>1 DEF Stays
    <2>3. Follows(l, m, n)
      BY <1>1, <2>1, <2>2
    <2> QED
      BY <2>3 DEF m
  <1>3. Follows(l, Disarmed(l, t), n)
    <2> DEFINE m == Disarmed(l, t)
    <2>1. /\ m.queued = l.queued /\ m.sentPsn = l.sentPsn /\ m.unacked = l.unacked
          /\ m.out = l.out /\ Inbound(m) = Inbound(l) /\ m.state = l.state
          /\ m.timers = l.timers \ {t}
      BY DEF Disarmed, Links, Inbound
    <2> HIDE DEF m
    <2>2. Stays(l, m)
      BY <2>1 DEF Stays
    <2>3. Follows(l, m, n)
      BY <1>1, <2>1, <2>2
    <2> QED
      BY <2>3 DEF m
  <1>4. Follows(l, Bailout(l), n)
    <2> DEFINE m == Bailout(l)
    <2>1. /\ m.queued = l.queued /\ m.sentPsn = l.sentPsn /\ m.unacked = l.unacked
          /\ m.out = l.out /\ Inbound(m) = Inbound(l) /\ m.state = "dead" /\ m.timers = {}
      BY DEF Bailout, Links, Inbound
    <2> HIDE DEF m
    <2>2. Stays(l, m)
      BY <2>1 DEF Stays
    <2>3. Follows(l, m, n)
      BY <1>1, <2>1, <2>2
    <2> QED
      BY <2>3 DEF m
  <1> QED
    BY <1>2, <1>3, <1>4
\* The window is closed, or the link not up yet: a chunk is queued.
Closed(l) == l.state # "normal" \/ Outstanding(l) > l.lsp.maxOutgoing

\* An open window: the chunk goes out under the next number.
LEMMA EnqueueOpen ==
  ASSUME NEW l \in Links, NEW chunk \in Nat, ~ Closed(l)
  PROVE  LET m   == EnqueuePacket(l, chunk)
             psn == NextPsn(l.sentPsn)
         IN /\ m.queued = l.queued /\ m.sentPsn = psn
            /\ Inbound(m) = Inbound(l) /\ Stays(l, m)
            /\ \A i \in DOMAIN m.unacked :
                 \/ m.unacked[i].psn = psn /\ m.unacked[i].chunk = chunk
                 \/ \E j \in DOMAIN l.unacked : m.unacked[i] = l.unacked[j]
            /\ \/ m.out = l.out
               \/ \E p : /\ p.control = {"ACK"} /\ p.chunk = chunk /\ p.seq = psn
                         /\ m.out = Append(l.out, p)
  <1> DEFINE psn    == NextPsn(l.sentPsn)
             packet == [psn |-> psn, chunk |-> chunk, counter |-> 0]
             told   == [l EXCEPT !.sentPsn = psn]
             quiet  == Disarmed(told, "sendAck")
             sent   == SendData(quiet, packet)
             noted  == [sent EXCEPT !.lastAcked = sent.lastIn]
             kept   == [noted EXCEPT !.unacked = Append(@, packet), !.due = Append(@, psn)]
             final  == IF l.lsp.maxRetransmissions > 0 THEN Armed(kept, "recvAck")
                       ELSE [noted EXCEPT !.lastSentAcked = psn]
             p == Packet(quiet, {"ACK"}, psn, chunk, {}, NoLsp)
  <1>1. EnqueuePacket(l, chunk) = final
    BY DEF EnqueuePacket, Closed
  <1>2. psn \in Psns
    BY Numbers DEF Links
  <1> HIDE DEF psn
  <1>3. packet \in Unacked /\ packet.psn = psn /\ packet.chunk = chunk
    BY <1>2 DEF Unacked
  <1> HIDE DEF packet
  <1>4. /\ quiet \in Links /\ quiet.sentPsn = psn /\ quiet.queued = l.queued
        /\ quiet.unacked = l.unacked /\ quiet.out = l.out /\ quiet.state = l.state
        /\ Inbound(quiet) = Inbound(l)
        /\ \A t \in quiet.timers : t \in l.timers
    <2>1. l.timers \ {"sendAck"} \in SUBSET Timers
      BY DEF Links
    <2>2. quiet = [l EXCEPT !.sentPsn = psn, !.timers = l.timers \ {"sendAck"}]
      BY DEF Disarmed, Links
    <2> HIDE DEF quiet
    <2> QED
      BY <1>2, <2>1, <2>2 DEF Links, Inbound
  <1> HIDE DEF quiet
  <1>5. sent \in Links /\ Wrote(quiet, sent, p)
    <2>1. {} \in SUBSET Psns
      OBVIOUS
    <2> QED
      BY <1>3, <1>4, <2>1, SendFacts
  <1>6. p.control = {"ACK"} /\ p.chunk = chunk /\ p.seq = psn
    BY DEF Packet
  <1> HIDE DEF sent, p
  <1>7. /\ sent.queued = quiet.queued /\ sent.sentPsn = quiet.sentPsn
        /\ sent.unacked = quiet.unacked /\ Inbound(sent) = Inbound(quiet)
    BY <1>5, ListsSame DEF Wrote, Inbound
  <1>8. \/ sent.state = "dead" /\ sent.timers = {} /\ sent.out = quiet.out
        \/ sent.state = quiet.state /\ sent.timers = quiet.timers /\ sent.out = Append(quiet.out, p)
    BY <1>5 DEF Wrote
  <1>9. /\ noted \in Links
        /\ noted.queued = sent.queued /\ noted.sentPsn = sent.sentPsn
        /\ noted.unacked = sent.unacked /\ Inbound(noted) = Inbound(sent)
        /\ noted.state = sent.state /\ noted.timers = sent.timers /\ noted.out = sent.out
    BY <1>5 DEF Links, Inbound
  <1> HIDE DEF noted
  <1>10. /\ final.queued = noted.queued /\ final.sentPsn = noted.sentPsn
         /\ Inbound(final) = Inbound(noted) /\ final.state = noted.state
         /\ final.out = noted.out
         /\ "negotiate" \in final.timers => "negotiate" \in noted.timers
         /\ final.unacked = noted.unacked \/ final.unacked = Append(noted.unacked, packet)
    <2> DEFINE unacked == Append(noted.unacked, packet)
               due == Append(noted.due, psn)
               armed == noted.timers \union {"recvAck"}
    <2>1. CASE l.lsp.maxRetransmissions > 0
      <3>1. final = [noted EXCEPT !.unacked = unacked, !.due = due, !.timers = armed]
        BY <1>9, <2>1 DEF Armed, Links
      <3>2. "negotiate" \in armed => "negotiate" \in noted.timers
        OBVIOUS
      <3> HIDE DEF unacked, due, armed, final
      <3>3. /\ final.queued = noted.queued /\ final.sentPsn = noted.sentPsn
            /\ Inbound(final) = Inbound(noted) /\ final.state = noted.state
            /\ final.out = noted.out /\ final.timers = armed /\ final.unacked = unacked
        BY <1>9, <3>1 DEF Links, Inbound
      <3> QED
        BY <3>2, <3>3 DEF unacked
    <2>2. CASE ~ (l.lsp.maxRetransmissions > 0)
      <3>1. final = [noted EXCEPT !.lastSentAcked = psn]
        BY <2>2
      <3> HIDE DEF final
      <3> QED
        BY <1>9, <3>1 DEF Links, Inbound
    <2> QED
      BY <2>1, <2>2
  <1> HIDE DEF final
  <1>11. \A i \in DOMAIN final.unacked :
           \/ final.unacked[i].psn = psn /\ final.unacked[i].chunk = chunk
           \/ \E j \in DOMAIN l.unacked : final.unacked[i] = l.unacked[j]
    <2>1. noted.unacked = l.unacked
      BY <1>4, <1>7, <1>9
    <2>2. CASE final.unacked = l.unacked
      BY <2>2
    <2>3. CASE final.unacked = Append(l.unacked, packet)
      <3> DEFINE r == Len(l.unacked)
      <3>1. r \in Nat /\ DOMAIN l.unacked = 1 .. r /\ l.unacked \in Seq(Unacked)
        BY DEF Links
      <3>2. /\ DOMAIN final.unacked = 1 .. r + 1 /\ final.unacked[r + 1] = packet
            /\ \A i \in 1 .. r : final.unacked[i] = l.unacked[i]
        BY <2>3, <3>1
      <3> HIDE DEF r
      <3>3. \A i \in 1 .. r + 1 : i \in 1 .. r \/ i = r + 1
        BY <3>1
      <3> QED
        BY <1>3, <3>1, <3>2, <3>3
    <2> QED
      BY <1>10, <2>1, <2>2, <2>3
  <1>12. Inbound(final) = Inbound(l) /\ Stays(l, final)
    <2>1. Inbound(final) = Inbound(l)
      BY <1>4, <1>7, <1>9, <1>10
    <2>2. final.state = l.state \/ final.state = "dead"
      BY <1>4, <1>8, <1>9, <1>10
    <2>3. "negotiate" \in final.timers => "negotiate" \in l.timers
      BY <1>4, <1>8, <1>9, <1>10
    <2> QED
      BY <2>1, <2>2, <2>3 DEF Stays
  <1>13. final.out = l.out \/ final.out = Append(l.out, p)
    BY <1>4, <1>8, <1>9, <1>10
  <1>14. final.queued = l.queued /\ final.sentPsn = psn
    BY <1>4, <1>7, <1>9, <1>10
  <1> QED
    BY <1>1, <1>6, <1>11, <1>12, <1>13, <1>14 DEF psn
\* More chunks submitted: what was sent stays in order.
LEMMA SendsMore ==
  ASSUME NEW n \in Nat, NEW l \in Links, NEW m \in Links, NEW k \in Nat, n <= k, Sends(l, n),
         NEW psn, NEW chunk \in 1 .. k, psn = Psn(chunk),
         \A i \in DOMAIN m.unacked :
           \/ m.unacked[i].psn = psn /\ m.unacked[i].chunk = chunk
           \/ \E j \in DOMAIN l.unacked : m.unacked[i] = l.unacked[j],
         \/ m.out = l.out
         \/ \E p : /\ p.control = {"ACK"} /\ p.chunk = chunk /\ p.seq = psn
                   /\ m.out = Append(l.out, p),
         m.state # "dead" => InLine(m, k)
  PROVE  Sends(m, k)
  <1>1. \A i \in DOMAIN l.out : Carries(l.out[i], k)
    <2>1. \A p : Carries(p, n) => Carries(p, k)
      BY DEF Carries
    <2> QED
      BY <2>1 DEF Sends
  <1>2. \A i \in DOMAIN l.unacked : Numbered(l.unacked[i], k)
    <2>1. \A p : Numbered(p, n) => Numbered(p, k)
      BY DEF Numbered
    <2> QED
      BY <2>1 DEF Sends
  <1>3. \A i \in DOMAIN m.unacked : Numbered(m.unacked[i], k)
    BY <1>2 DEF Numbered
  <1>4. \A i \in DOMAIN m.out : Carries(m.out[i], k)
    <2>1. CASE m.out = l.out
      BY <1>1, <2>1
    <2>2. ASSUME NEW p, p.control = {"ACK"}, p.chunk = chunk, p.seq = psn,
                 m.out = Append(l.out, p)
          PROVE  \A i \in DOMAIN m.out : Carries(m.out[i], k)
      <3> DEFINE r == Len(l.out)
      <3>1. l.out \in Seq(Packets) /\ r \in Nat /\ DOMAIN l.out = 1 .. r
        BY DEF Links
      <3>2. /\ DOMAIN m.out = 1 .. r + 1 /\ m.out[r + 1] = p
            /\ \A i \in 1 .. r : m.out[i] = l.out[i]
        BY <2>2, <3>1
      <3>3. \A i \in 1 .. r : Carries(l.out[i], k)
        BY <1>1, <3>1
      <3> HIDE DEF r
      <3>4. \A i \in 1 .. r + 1 : i \in 1 .. r \/ i = r + 1
        BY <3>1
      <3>5. Carries(p, k)
        BY <2>2 DEF Carries, None
      <3> QED
        BY <3>2, <3>3, <3>4, <3>5
    <2> QED
      BY <2>1, <2>2
  <1> QED
    BY <1>3, <1>4 DEF Sends

LEMMA EnqueueQueues ==
  ASSUME NEW l \in Links, NEW chunk \in Nat, Closed(l)
  PROVE  LET m == EnqueuePacket(l, chunk)
         IN /\ m.queued = Append(l.queued, chunk) /\ m.sentPsn = l.sentPsn
            /\ m.unacked = l.unacked /\ m.out = l.out /\ m.state = l.state
            /\ m.timers = l.timers /\ Inbound(m) = Inbound(l) /\ Closed(m)
  <1> DEFINE m == [l EXCEPT !.queued = Append(@, chunk)]
  <1>1. EnqueuePacket(l, chunk) = m
    BY DEF EnqueuePacket, Closed
  <1>2. /\ m.queued = Append(l.queued, chunk) /\ m.sentPsn = l.sentPsn
        /\ m.unacked = l.unacked /\ m.out = l.out /\ m.state = l.state
        /\ m.timers = l.timers /\ Inbound(m) = Inbound(l) /\ m.lsp = l.lsp
        /\ m.lastSentAcked = l.lastSentAcked
    BY DEF Links, Inbound
  <1> HIDE DEF m
  <1>3. Closed(m)
    BY <1>2 DEF Closed, Outstanding
  <1> QED
    BY <1>1, <1>2, <1>3

\* The next chunk goes out, unless it is queued behind others or the window.
LEMMA EnqueueSubmits ==
  ASSUME NEW n \in Nat, NEW l \in Sound, Sends(l, n), l.queued = << >> \/ Closed(l)
  PROVE  LET m == EnqueuePacket(l, n + 1)
         IN /\ Sends(m, n + 1) /\ Inbound(m) = Inbound(l) /\ Stays(l, m)
            /\ m.queued = << >> \/ Closed(m)
            /\ l.state # "normal" => m.out = l.out /\ m.state = l.state
  <1> DEFINE m == EnqueuePacket(l, n + 1)
             q == Len(l.queued)
  <1>1. l \in Links /\ n + 1 \in Nat /\ m \in Links
    BY EnqueueSound DEF Sound
  <1>2. l.queued \in Seq(Nat) /\ q \in Nat /\ DOMAIN l.queued = 1 .. q
    BY <1>1 DEF Links
  <1>3. CASE Closed(l)
    <2>1. /\ m.queued = Append(l.queued, n + 1) /\ m.sentPsn = l.sentPsn
          /\ m.unacked = l.unacked /\ m.out = l.out /\ m.state = l.state
          /\ m.timers = l.timers /\ Inbound(m) = Inbound(l) /\ Closed(m)
      BY <1>1, <1>3, EnqueueQueues
    <2> HIDE DEF m
    <2>2. ASSUME m.state # "dead" PROVE InLine(m, n + 1)
      <3>1. InLine(l, n)
        BY <2>1, <2>2 DEF Sends
      <3> DEFINE sent == n - q
      <3>2. /\ sent \in Nat /\ l.sentPsn = Psn(sent)
            /\ \A i \in 1 .. q : l.queued[i] = sent + i
            /\ l.state \in Early => sent = 0
        BY <1>2, <3>1 DEF InLine
      <3>3. /\ Len(m.queued) = q + 1 /\ DOMAIN m.queued = 1 .. q + 1
            /\ m.queued[q + 1] = n + 1
            /\ \A i \in 1 .. q : m.queued[i] = l.queued[i]
        BY <1>1, <1>2, <2>1
      <3>4. (n + 1) - (q + 1) = sent /\ n + 1 = sent + (q + 1)
        <4>1. q \in Nat
          BY <1>2
        <4> HIDE DEF q
        <4> QED
          BY <4>1
      <3> HIDE DEF q, sent
      <3>5. \A i \in 1 .. q + 1 : m.queued[i] = sent + i
        <4>1. \A i \in 1 .. q + 1 : i \in 1 .. q \/ i = q + 1
          BY <1>2
        <4> QED
          BY <3>2, <3>3, <3>4, <4>1
      <3>6. (n + 1) - Len(m.queued) = sent
        BY <3>3, <3>4
      <3> QED
        BY <2>1, <3>2, <3>3, <3>5, <3>6 DEF InLine
    <2>3. Sends(m, n + 1)
      <3>1. n <= n + 1 /\ n + 1 \in 1 .. n + 1
        OBVIOUS
      <3> QED
        BY <1>1, <2>1, <2>2, <3>1, SendsMore
    <2>4. Stays(l, m)
      BY <2>1 DEF Stays
    <2> QED
      BY <2>1, <2>3, <2>4 DEF m
  <1>4. CASE ~ Closed(l)
    <2> DEFINE psn == NextPsn(l.sentPsn)
    <2>1. /\ m.queued = l.queued /\ m.sentPsn = psn
          /\ Inbound(m) = Inbound(l) /\ Stays(l, m)
          /\ \A i \in DOMAIN m.unacked :
               \/ m.unacked[i].psn = psn /\ m.unacked[i].chunk = n + 1
               \/ \E j \in DOMAIN l.unacked : m.unacked[i] = l.unacked[j]
          /\ \/ m.out = l.out
             \/ \E p : /\ p.control = {"ACK"} /\ p.chunk = n + 1 /\ p.seq = psn
                       /\ m.out = Append(l.out, p)
      BY <1>1, <1>4, EnqueueOpen
    <2>2. l.queued = << >> /\ l.state = "normal" /\ q = 0
      BY <1>4 DEF Closed
    <2>3. InLine(l, n)
      BY <2>2 DEF Sends
    <2>4. psn = Psn(n + 1)
      <3>1. l.sentPsn = Psn(n)
        BY <2>2, <2>3 DEF InLine
      <3> QED
        BY <3>1, PsnFacts
    <2> HIDE DEF m, psn
    <2>5. ASSUME m.state # "dead" PROVE InLine(m, n + 1)
      <3>1. m.queued = << >> /\ Len(m.queued) = 0 /\ DOMAIN m.queued = {}
        BY <2>1, <2>2
      <3>2. m.state \notin Early
        BY <2>1, <2>2, <2>5 DEF Stays, Early
      <3> QED
        BY <2>1, <2>4, <3>1, <3>2 DEF InLine
    <2>6. Sends(m, n + 1)
      <3>1. n <= n + 1 /\ n + 1 \in 1 .. n + 1
        OBVIOUS
      <3> QED
        BY <1>1, <2>1, <2>4, <2>5, <3>1, SendsMore
    <2> QED
      BY <2>1, <2>2, <2>6 DEF m
  <1> QED
    BY <1>3, <1>4

LEMMA StaysTransitively ==
  ASSUME NEW l, NEW m, NEW k, Stays(l, m), Stays(m, k)
  PROVE  Stays(l, k)
  BY DEF Stays

\* A payload goes out chunk by chunk: those that do not fit wait in order.
LEMMA SubmitFollows ==
  ASSUME NEW n \in Nat, NEW k \in Nat, NEW l \in Sound, Sends(l, n),
         l.queued = << >> \/ Closed(l), l.state # "dead"
  PROVE  LET m == SendSessionData(l, [i \in 1 .. k |-> n + i])
         IN Follows(l, m, n + k) /\ (l.state # "normal" => m.out = l.out /\ m.state = l.state)
  <1> DEFINE Quiet(m) == l.state # "normal" => m.out = l.out /\ m.state = l.state
             s == [i \in 1 .. k |-> n + i]
             Good == [i \in 0 .. k |-> {m \in Sound : /\ Sends(m, n + i)
                                                      /\ Inbound(m) = Inbound(l) /\ Stays(l, m)
                                                      /\ m.queued = << >> \/ Closed(m)
                                                      /\ Quiet(m)}]
  <1>1. s \in Seq(Nat) /\ Len(s) = k /\ \A i \in 1 .. k : s[i] = n + i
    OBVIOUS
  <1> HIDE DEF s
  <1>2. ASSUME NEW i \in 1 .. k, NEW m \in Sound, Sends(m, n + (i - 1)), Inbound(m) = Inbound(l),
               Stays(l, m), m.queued = << >> \/ Closed(m), Quiet(m)
        PROVE  LET o == EnqueuePacket(m, s[i])
               IN /\ o \in Sound /\ Sends(o, n + i) /\ Inbound(o) = Inbound(l) /\ Stays(l, o)
                  /\ o.queued = << >> \/ Closed(o)
                  /\ Quiet(o)
    <2> DEFINE b == n + (i - 1)
    <2>1. b \in Nat /\ s[i] = b + 1 /\ n + i = b + 1 /\ s[i] \in Nat
      BY <1>1
    <2> HIDE DEF b
    <2>2. EnqueuePacket(m, s[i]) \in Sound
      BY <2>1, EnqueueSound
    <2>3. LET o == EnqueuePacket(m, b + 1)
          IN /\ Sends(o, b + 1) /\ Inbound(o) = Inbound(m) /\ Stays(m, o)
             /\ o.queued = << >> \/ Closed(o)
             /\ m.state # "normal" => o.out = m.out /\ o.state = m.state
      BY <1>2, <2>1, EnqueueSubmits DEF b
    <2> QED
      BY <1>2, <2>1, <2>2, <2>3, StaysTransitively
  <1>3. \A i \in 1 .. k : i - 1 \in 0 .. k /\ i \in 0 .. k
    OBVIOUS
  <1>4. \A i \in 1 .. Len(s) : \A m \in Good[i - 1] : EnqueuePacket(m, s[i]) \in Good[i]
    BY <1>1, <1>2, <1>3
  <1>5. l \in Good[0]
    BY DEF Stays
  <1>6. \A m \in Good[k] : Follows(l, m, n + k) /\ Quiet(m)
    BY DEF Follows
  <1> HIDE DEF Good
  <1>7. FoldLeft(EnqueuePacket, l, s) \in Good[k]
    BY <1>1, <1>4, <1>5, Loops
  <1> QED
    BY <1>6, <1>7 DEF SendSessionData, s
\* The first of the queue goes out when the window is open.
LEMMA DrainOneFollows ==
  ASSUME NEW n \in Nat, NEW m \in Sound, NEW chunk, Sends(m, n), m.state \in {"normal", "dead"}
  PROVE  LET o == DrainOne(m, chunk)
         IN o \in Sound /\ Follows(m, o, n) /\ o.state \in {"normal", "dead"}
  <1> DEFINE o == DrainOne(m, chunk)
  <1>1. m \in Links /\ m.queued \in Seq(Nat)
    BY DEF Sound, Links
  <1>2. CASE ~ (m.queued # << >> /\ Outstanding(m) < m.lsp.maxOutgoing)
    <2>1. o = m
      BY <1>2 DEF DrainOne
    <2> QED
      BY <2>1 DEF Follows, Stays
  <1>3. CASE m.queued # << >> /\ Outstanding(m) < m.lsp.maxOutgoing
    <2> DEFINE rest == Tail(m.queued)
               head == Head(m.queued)
               k == [m EXCEPT !.queued = rest]
               q == Len(m.queued)
    <2>1. /\ rest \in Seq(Nat) /\ head \in Nat /\ q \in Nat /\ q >= 1
          /\ head = m.queued[1] /\ Len(rest) = q - 1 /\ DOMAIN m.queued = 1 .. q
          /\ DOMAIN rest = 1 .. q - 1
          /\ \A i \in 1 .. q - 1 : rest[i] = m.queued[i + 1]
      BY <1>1, <1>3
    <2>2. o = EnqueuePacket(k, head)
      BY <1>3 DEF DrainOne
    <2> HIDE DEF rest, head, q, o
    <2>3. /\ k \in Links /\ k.queued = rest /\ k.unacked = m.unacked /\ k.due = m.due
          /\ k.state = m.state /\ k.timers = m.timers /\ k.out = m.out
          /\ k.sentPsn = m.sentPsn /\ Inbound(k) = Inbound(m)
          /\ k.lsp = m.lsp /\ k.lastSentAcked = m.lastSentAcked
      BY <1>1, <2>1 DEF Links, Inbound
    <2> HIDE DEF k
    <2>4. k \in Sound
      BY <2>3, EditSound
    <2>5. o \in Sound /\ o \in Links
      BY <2>1, <2>2, <2>4, EnqueueSound DEF Sound
    <2>6. CASE m.state = "normal"
      <3> DEFINE psn == NextPsn(k.sentPsn)
                 sent == n - q
      <3>1. ~ Closed(k)
        <4>1. Outstanding(k) = Outstanding(m)
          BY <2>3 DEF Outstanding
        <4>2. m.sentPsn \in Psns /\ m.lastSentAcked \in Psns \union {-1} /\ m.lsp \in Lsps
          BY <1>1 DEF Links
        <4>3. Outstanding(m) \in Psns
          BY <4>2, Numbers DEF Outstanding
        <4>4. Outstanding(m) \in Int /\ m.lsp.maxOutgoing \in Int
          BY <4>2, <4>3, PsnAssumption DEF Lsps, Psns
        <4> QED
          BY <1>3, <2>3, <2>6, <4>1, <4>4 DEF Closed
      <3>2. /\ o.queued = k.queued /\ o.sentPsn = psn
            /\ Inbound(o) = Inbound(k) /\ Stays(k, o)
            /\ \A i \in DOMAIN o.unacked :
                 \/ o.unacked[i].psn = psn /\ o.unacked[i].chunk = head
                 \/ \E j \in DOMAIN k.unacked : o.unacked[i] = k.unacked[j]
            /\ \/ o.out = k.out
               \/ \E p : /\ p.control = {"ACK"} /\ p.chunk = head /\ p.seq = psn
                         /\ o.out = Append(k.out, p)
        <4> HIDE DEF psn
        <4> DEFINE w == EnqueuePacket(k, head)
        <4>1. /\ w.queued = k.queued /\ w.sentPsn = psn
              /\ Inbound(w) = Inbound(k) /\ Stays(k, w)
              /\ \A i \in DOMAIN w.unacked :
                   \/ w.unacked[i].psn = psn /\ w.unacked[i].chunk = head
                   \/ \E j \in DOMAIN k.unacked : w.unacked[i] = k.unacked[j]
              /\ \/ w.out = k.out
                 \/ \E p : /\ p.control = {"ACK"} /\ p.chunk = head /\ p.seq = psn
                           /\ w.out = Append(k.out, p)
          BY <2>1, <2>3, <3>1, EnqueueOpen DEF psn
        <4>2. o = w
          BY <2>2
        <4> HIDE DEF w
        <4> QED
          BY <4>1, <4>2
      <3>3. /\ sent \in Nat /\ m.sentPsn = Psn(sent)
            /\ \A i \in 1 .. q : m.queued[i] = sent + i
        BY <2>1, <2>6 DEF Sends, InLine, q
      <3> HIDE DEF sent
      <3>4. head = sent + 1 /\ head \in 1 .. n
        <4>1. q \in Nat /\ q >= 1 /\ head = m.queued[1]
          BY <2>1
        <4>2. 1 \in 1 .. q
          BY <4>1
        <4>3. m.queued[1] = sent + 1 /\ sent \in Nat
          BY <3>3, <4>2
        <4>4. sent + 1 <= n
          BY <4>1 DEF sent
        <4> QED
          BY <4>1, <4>3, <4>4
      <3>5. psn = Psn(head)
        BY <2>3, <3>3, <3>4, PsnFacts
      <3> HIDE DEF psn
      <3>6. ASSUME o.state # "dead" PROVE InLine(o, n)
        <4>1. o.state \notin Early
          BY <2>3, <2>6, <3>2, <3>6 DEF Stays, Early
        <4>2. n - Len(o.queued) = sent + 1 /\ sent + 1 \in Nat
          <5>1. o.queued = rest /\ Len(rest) = q - 1 /\ q \in Nat
            BY <2>1, <2>3, <3>2
          <5>2. n - (q - 1) = sent + 1 /\ sent \in Nat
            BY <3>3, <5>1 DEF sent
          <5> QED
            BY <5>1, <5>2
        <4>3. \A i \in 1 .. q - 1 : i + 1 \in 1 .. q /\ sent + (i + 1) = (sent + 1) + i
          BY <2>1, <3>3
        <4>4. \A i \in DOMAIN o.queued : o.queued[i] = (sent + 1) + i
          <5>1. o.queued = rest /\ DOMAIN rest = 1 .. q - 1
            BY <2>1, <2>3, <3>2
          <5>2. \A i \in 1 .. q - 1 : rest[i] = m.queued[i + 1]
            BY <2>1
          <5>3. \A i \in 1 .. q - 1 : m.queued[i + 1] = sent + (i + 1)
            BY <3>3, <4>3
          <5> QED
            BY <4>3, <5>1, <5>2, <5>3
        <4>5. o.sentPsn = Psn(sent + 1)
          BY <3>2, <3>4, <3>5
        <4> QED
          BY <4>1, <4>2, <4>4, <4>5 DEF InLine
      <3>7. Sends(o, n)
        <4>1. n <= n
          OBVIOUS
        <4>2. \A i \in DOMAIN o.unacked :
                \/ o.unacked[i].psn = psn /\ o.unacked[i].chunk = head
                \/ \E j \in DOMAIN m.unacked : o.unacked[i] = m.unacked[j]
          BY <2>3, <3>2
        <4>3. \/ o.out = m.out
              \/ \E p : /\ p.control = {"ACK"} /\ p.chunk = head /\ p.seq = psn
                        /\ o.out = Append(m.out, p)
          BY <2>3, <3>2
        <4> QED
          BY <1>1, <2>5, <3>4, <3>5, <3>6, <4>1, <4>2, <4>3, SendsMore
      <3>8. Stays(m, o) /\ Inbound(o) = Inbound(m)
        BY <2>3, <3>2 DEF Stays
      <3> QED
        BY <2>5, <2>6, <3>7, <3>8 DEF Follows, Stays, o
    <2>7. CASE m.state # "normal"
      <3>1. m.state = "dead"
        BY <2>7
      <3>2. Closed(k)
        BY <2>3, <2>7 DEF Closed
      <3>3. /\ o.unacked = k.unacked /\ o.out = k.out /\ o.state = k.state
            /\ o.timers = k.timers /\ Inbound(o) = Inbound(k)
        BY <2>1, <2>2, <2>3, <3>2, EnqueueQueues
      <3>4. Sends(o, n)
        BY <2>3, <3>1, <3>3 DEF Sends
      <3>5. Stays(m, o) /\ Inbound(o) = Inbound(m) /\ o.state = "dead"
        BY <2>3, <3>1, <3>3 DEF Stays
      <3> QED
        BY <2>5, <3>4, <3>5 DEF Follows, o
    <2> QED
      BY <2>6, <2>7
  <1> QED
    BY <1>2, <1>3

\* handleAck drains the queue in order, into the window it has opened.
LEMMA DrainFollows ==
  ASSUME NEW n \in Nat, NEW l \in Sound, Sends(l, n), l.state \in {"normal", "dead"}
  PROVE  Follows(l, Drain(l), n)
  <1> DEFINE s == l.queued
             Good == [i \in 0 .. Len(s) |->
                       {m \in Sound : Follows(l, m, n) /\ m.state \in {"normal", "dead"}}]
  <1>1. s \in Seq(Nat)
    BY DEF Sound, Links
  <1>2. \A i \in 1 .. Len(s) : i - 1 \in 0 .. Len(s) /\ i \in 0 .. Len(s)
    BY <1>1
  <1>3. ASSUME NEW m \in Sound, NEW chunk, Follows(l, m, n), m.state \in {"normal", "dead"}
        PROVE  LET o == DrainOne(m, chunk)
               IN o \in Sound /\ Follows(l, o, n) /\ o.state \in {"normal", "dead"}
    <2>1. LET o == DrainOne(m, chunk)
          IN o \in Sound /\ Follows(m, o, n) /\ o.state \in {"normal", "dead"}
      BY <1>3, DrainOneFollows DEF Follows
    <2> QED
      BY <1>3, <2>1, FollowsTransitively DEF Follows
  <1>4. \A i \in 1 .. Len(s) : \A m \in Good[i - 1] : DrainOne(m, s[i]) \in Good[i]
    BY <1>2, <1>3
  <1>5. l \in Good[0] /\ \A m \in Good[Len(s)] : Follows(l, m, n)
    BY <1>1 DEF Follows, Stays
  <1> HIDE DEF Good
  <1>6. FoldLeft(DrainOne, l, s) \in Good[Len(s)]
    BY <1>1, <1>4, <1>5, Loops
  <1> QED
    BY <1>5, <1>6 DEF Drain
\* Nothing that the order depends on has changed.
LEMMA EditFollows ==
  ASSUME NEW n \in Nat, NEW l \in Links, NEW m, Sends(l, n), m.queued = l.queued,
         m.sentPsn = l.sentPsn, m.unacked = l.unacked, m.out = l.out, m.state = l.state,
         m.timers = l.timers, Inbound(m) = Inbound(l)
  PROVE  Follows(l, m, n)
  <1>1. Sends(m, n)
    BY SendsKept
  <1> QED
    BY <1>1 DEF Follows, Stays

\* Any acknowledgement ends the negotiation.
LEMMA HandleAckFollows ==
  ASSUME NEW n \in Nat, NEW l \in Sound, NEW ack \in Psns, Sends(l, n),
         l.state \in {"negotiate", "normal", "dead"}
  PROVE  LET m == HandleAck(l, ack)
         IN /\ Sends(m, n) /\ Inbound(m) = Inbound(l) /\ m.state \in {"normal", "dead"}
            /\ l.state = "dead" => m.state = "dead"
            /\ "negotiate" \in m.timers => "negotiate" \in l.timers /\ l.state # "negotiate"
  <1> DEFINE up == IF l.state = "negotiate"
                   THEN Disarmed([l EXCEPT !.state = "normal"], "negotiate") ELSE l
             m == [up EXCEPT !.lastSentAcked = ack]
  <1>1. l \in Links /\ Tracked(l) /\ l.timers \ {"negotiate"} \in SUBSET Timers
    BY DEF Sound, Links
  <1>2. /\ up \in Links /\ up.unacked = l.unacked /\ up.due = l.due
        /\ up.queued = l.queued /\ up.sentPsn = l.sentPsn /\ up.out = l.out
        /\ Inbound(up) = Inbound(l)
        /\ up.state = IF l.state = "negotiate" THEN "normal" ELSE l.state
        /\ "negotiate" \in up.timers => "negotiate" \in l.timers /\ l.state # "negotiate"
    <2>1. CASE l.state = "negotiate"
      <3>1. up = [l EXCEPT !.state = "normal", !.timers = l.timers \ {"negotiate"}]
        BY <1>1, <2>1 DEF Disarmed, Links
      <3> HIDE DEF up
      <3> QED
        BY <1>1, <2>1, <3>1 DEF Links, States, Inbound
    <2>2. CASE l.state # "negotiate"
      BY <1>1, <2>2
    <2> QED
      BY <2>1, <2>2
  <1> HIDE DEF up
  <1>3. /\ m \in Links /\ m.unacked = up.unacked /\ m.due = up.due /\ m.queued = up.queued
        /\ m.sentPsn = up.sentPsn /\ m.out = up.out /\ m.state = up.state
        /\ m.timers = up.timers /\ Inbound(m) = Inbound(up)
    BY <1>2 DEF Links, Inbound
  <1> HIDE DEF m
  <1>4. Tracked(m)
    <2>1. m.unacked = l.unacked /\ m.due = l.due
      BY <1>2, <1>3
    <2> QED
      BY <1>1, <2>1 DEF Tracked
  <1>5. /\ Sends(m, n) /\ m.state \in {"normal", "dead"} /\ Inbound(m) = Inbound(l)
        /\ l.state = "dead" => m.state = "dead"
    <2>1. m.queued = l.queued /\ m.sentPsn = l.sentPsn /\ m.unacked = l.unacked /\ m.out = l.out
      BY <1>2, <1>3
    <2>2. m.state = l.state \/ m.state = "dead" \/ (l.state \in Early /\ m.state = "normal")
      BY <1>2, <1>3 DEF Early
    <2>3. Sends(m, n)
      BY <1>1, <2>1, <2>2, SendsKept
    <2> QED
      BY <1>2, <1>3, <2>3
  <1> DEFINE k == PopAcked(m)
  <1>6. PICK due \in Seq(Psns) : Lists(k) = Lists([m EXCEPT !.unacked = Kept(m), !.due = due])
    BY <1>3, <1>4, PopFacts
  <1>7. /\ k \in Sound /\ k.state = m.state /\ k.out = m.out
        /\ \A t \in k.timers : t = "recvAck" \/ t \in m.timers
    BY <1>3, <1>4, PopFacts
  <1> HIDE DEF k
  <1>8. /\ k.unacked = Kept(m) /\ k.queued = m.queued /\ k.sentPsn = m.sentPsn
        /\ Inbound(k) = Inbound(m)
    <2> DEFINE w == [m EXCEPT !.unacked = Kept(m), !.due = due]
    <2>1. /\ w.unacked = Kept(m) /\ w.queued = m.queued /\ w.sentPsn = m.sentPsn
          /\ w.lastIn = m.lastIn /\ w.delivered = m.delivered
          /\ w.outOfSequence = m.outOfSequence
      BY <1>3 DEF Links
    <2> HIDE DEF w
    <2>2. Lists(k) = Lists(w)
      BY <1>6 DEF w
    <2> QED
      BY <2>1, <2>2, ListsSame DEF Inbound
  <1>9. Sends(k, n)
    <2>1. \A i \in DOMAIN k.unacked : \E j \in DOMAIN m.unacked : k.unacked[i] = m.unacked[j]
      BY <1>3, <1>8, KeptFacts
    <2> QED
      BY <1>3, <1>5, <1>7, <1>8, <2>1, SendsKept
  <1>10. Follows(k, Drain(k), n)
    BY <1>5, <1>7, <1>9, DrainFollows
  <1>11. HandleAck(l, ack) = Drain(k)
    BY DEF HandleAck, m, up, k
  <1>12. "negotiate" \in k.timers => "negotiate" \in l.timers /\ l.state # "negotiate"
    BY <1>2, <1>3, <1>7
  <1> QED
    BY <1>5, <1>7, <1>8, <1>10, <1>11, <1>12 DEF Follows, Stays

LEMMA ResendFollows ==
  ASSUME NEW n \in Nat, NEW l \in Sound, NEW i \in DOMAIN l.unacked, Sends(l, n)
  PROVE  Follows(l, Resend(l, i), n)
  <1> DEFINE count == l.unacked[i].counter + 1
             unacked == [l.unacked EXCEPT ![i].counter = count]
             counted == [l EXCEPT !.unacked = unacked]
             sent == SendData(counted, counted.unacked[i])
             quiet == Disarmed(sent, "sendAck")
  <1>1. l \in Links /\ l.unacked \in Seq(Unacked)
    BY DEF Sound, Links
  <1>2. l.unacked[i] \in Unacked
    BY <1>1
  <1>3. count \in Nat
    BY <1>2 DEF Unacked
  <1>4. Resend(l, i) = IF count = l.lsp.maxRetransmissions THEN Bailout(counted)
                       ELSE Armed(quiet, "recvAck")
    BY <1>1 DEF Resend, Links
  <1> HIDE DEF count
  <1> DEFINE entry == [l.unacked[i] EXCEPT !.counter = count]
  <1>5. entry \in Unacked /\ entry.psn = l.unacked[i].psn /\ entry.chunk = l.unacked[i].chunk
    BY <1>2, <1>3 DEF Unacked
  <1>6. unacked = [l.unacked EXCEPT ![i] = entry]
    OBVIOUS
  <1> HIDE DEF entry, unacked
  <1>7. /\ unacked \in Seq(Unacked)
        /\ DOMAIN unacked = DOMAIN l.unacked /\ unacked[i] = entry
        /\ \A j \in DOMAIN unacked : j # i => unacked[j] = l.unacked[j]
    BY <1>1, <1>5, <1>6
  <1>8. /\ counted \in Links /\ counted.unacked = unacked /\ counted.queued = l.queued
        /\ counted.state = l.state /\ counted.timers = l.timers /\ counted.out = l.out
        /\ counted.sentPsn = l.sentPsn /\ Inbound(counted) = Inbound(l)
    BY <1>1, <1>7 DEF Links, Inbound
  <1> HIDE DEF counted
  <1>9. Numbered(entry, n)
    BY <1>5 DEF Sends, Numbered
  <1>10. Sends(counted, n)
    <2>1. \A j \in DOMAIN counted.unacked : Numbered(counted.unacked[j], n)
      BY <1>7, <1>8, <1>9 DEF Sends
    <2>2. counted.state # "dead" => InLine(counted, n)
      BY <1>8 DEF Sends, InLine
    <2>3. \A j \in DOMAIN counted.out : Carries(counted.out[j], n)
      BY <1>8 DEF Sends
    <2> QED
      BY <2>1, <2>2, <2>3 DEF Sends
  <1>11. sent \in Links /\ Follows(counted, sent, n)
    <2>1. {} \in SUBSET Psns /\ counted.unacked[i] = entry
      BY <1>7, <1>8
    <2> QED
      BY <1>5, <1>8, <1>9, <1>10, <2>1, SendFacts, SendsFollow
  <1> HIDE DEF sent
  <1>12. Stays(l, counted)
    BY <1>8 DEF Stays
  <1>13. quiet \in Links /\ Follows(sent, quiet, n)
    <2>1. sent.timers \ {"sendAck"} \in SUBSET Timers
      BY <1>11 DEF Links
    <2>2. quiet \in Links
      BY <1>11, <2>1 DEF Disarmed, Links
    <2> QED
      BY <1>11, <2>2, TimersFollow DEF Follows, Timers
  <1> HIDE DEF quiet
  <1>14. Follows(quiet, Armed(quiet, "recvAck"), n)
    BY <1>13, TimersFollow DEF Follows, Timers
  <1>15. Follows(l, Armed(quiet, "recvAck"), n)
    <2>1. Follows(l, sent, n)
      BY <1>8, <1>11, <1>12, FollowsTransitively
    <2>2. Follows(l, quiet, n)
      BY <1>13, <2>1, FollowsTransitively DEF Follows
    <2> QED
      BY <1>14, <2>2, FollowsTransitively DEF Follows
  <1>16. Follows(l, Bailout(counted), n)
    <2>1. Follows(counted, Bailout(counted), n)
      BY <1>8, <1>10, TimersFollow DEF Timers
    <2> QED
      BY <1>8, <1>12, <2>1, FollowsTransitively
  <1> QED
    BY <1>4, <1>15, <1>16

LEMMA HandleEakFollows ==
  ASSUME NEW n \in Nat, NEW l \in Sound, NEW missing \in SUBSET Psns, Sends(l, n)
  PROVE  Follows(l, HandleEak(l, missing), n)
  <1> DEFINE r == Len(l.unacked)
             s == [i \in DOMAIN l.unacked |->
                     [at |-> i, named |-> l.unacked[i].psn \in missing]]
             Good == [k \in 0 .. r |-> {m \in Sound : Len(m.unacked) = r /\ Follows(l, m, n)}]
  <1>1. r \in Nat /\ DOMAIN l.unacked = 1 .. r
    BY DEF Sound, Links
  <1> HIDE DEF r
  <1>2. /\ s \in Seq([at : Nat, named : BOOLEAN]) /\ Len(s) = r
        /\ \A k \in 1 .. r : s[k].at = k
    <2>1. \A i \in 1 .. r : [at |-> i, named |-> l.unacked[i].psn \in missing] \in [at : Nat, named : BOOLEAN]
      BY <1>1
    <2> QED
      BY <1>1, <2>1
  <1> HIDE DEF s
  <1>3. \A k \in 1 .. r : k - 1 \in 0 .. r /\ k \in 0 .. r
    BY <1>1
  <1>4. ASSUME NEW k \in 1 .. r, NEW m \in Sound, Len(m.unacked) = r, Follows(l, m, n)
        PROVE  LET o == ResendNamed(m, s[k])
               IN o \in Sound /\ Len(o.unacked) = r /\ Follows(l, o, n)
    <2>1. m.unacked \in Seq(Unacked)
      BY DEF Sound, Links
    <2>2. k \in DOMAIN m.unacked
      BY <1>4, <2>1
    <2>3. Resend(m, k) \in Sound /\ Len(Resend(m, k).unacked) = r
      BY <1>4, <2>2, ResendSound
    <2>4. Follows(l, Resend(m, k), n)
      BY <1>4, <2>2, ResendFollows, FollowsTransitively DEF Follows
    <2> QED
      BY <1>2, <1>4, <2>3, <2>4 DEF ResendNamed
  <1>5. \A k \in 1 .. r : \A m \in Good[k - 1] : ResendNamed(m, s[k]) \in Good[k]
    BY <1>3, <1>4
  <1>6. l \in Good[0] /\ \A m \in Good[r] : Follows(l, m, n)
    BY <1>1 DEF r, Follows, Stays
  <1> HIDE DEF Good
  <1>7. FoldLeft(ResendNamed, l, s) \in Good[r]
    BY <1>2, <1>5, <1>6, Loops
  <1> QED
    BY <1>6, <1>7 DEF HandleEak, s
-----------------------------------------------------------------------------
(* Receiving keeps the order.                                                 *)

LEMMA AcknowledgeFollows ==
  ASSUME NEW n \in Nat, NEW l \in Links, Sends(l, n)
  PROVE  Follows(l, AcknowledgeData(l), n) /\ Follows(l, CumulativeAck(l), n)
  <1>1. {} \in SUBSET Psns
    OBVIOUS
  <1>2. ASSUME NEW k \in Links, Follows(l, k, n)
        PROVE  Follows(l, SendAck([k EXCEPT !.lastAcked = k.lastIn]), n)
    <2> DEFINE m == [k EXCEPT !.lastAcked = k.lastIn]
    <2>1. /\ m \in Links /\ m.queued = k.queued /\ m.sentPsn = k.sentPsn
          /\ m.unacked = k.unacked /\ m.out = k.out /\ m.state = k.state
          /\ m.timers = k.timers /\ Inbound(m) = Inbound(k)
      BY DEF Links, Inbound
    <2> HIDE DEF m
    <2>2. Follows(k, m, n)
      BY <1>2, <2>1, EditFollows DEF Follows
    <2>3. Follows(l, m, n)
      BY <1>2, <2>2, FollowsTransitively DEF Follows
    <2>4. Follows(m, SendAck(m), n)
      BY <1>1, <2>1, <2>2, SendsFollow DEF Follows
    <2>5. Follows(l, SendAck(m), n)
      BY <2>3, <2>4, FollowsTransitively DEF Follows
    <2> QED
      BY <2>5 DEF m
  <1>3. Disarmed(l, "sendAck") \in Links /\ Disarmed(l, "sendAck").lastIn = l.lastIn
    <2>1. l.timers \ {"sendAck"} \in SUBSET Timers
      BY DEF Links
    <2> QED
      BY <2>1 DEF Disarmed, Links
  <1>4. Follows(l, Disarmed(l, "sendAck"), n) /\ Follows(l, Armed(l, "sendAck"), n)
    BY TimersFollow DEF Timers
  <1>5. Follows(l, l, n)
    BY DEF Follows, Stays
  <1>6. Follows(l, SendAck([Disarmed(l, "sendAck") EXCEPT !.lastAcked = l.lastIn]), n)
    BY <1>2, <1>3, <1>4
  <1>7. Follows(l, SendAck([l EXCEPT !.lastAcked = l.lastIn]), n)
    BY <1>2, <1>5
  <1> QED
    BY <1>4, <1>5, <1>6, <1>7 DEF AcknowledgeData, CumulativeAck

\* k is l with what has come in since.
Takes(l, k, n, m) == /\ Sends(k, n) /\ Receives(k, m) /\ Following(k)
                     /\ Len(l.delivered) <= Len(k.delivered)
                     /\ Stays(l, k)

LEMMA TakesThenFollows ==
  ASSUME NEW n, NEW m, NEW l, NEW k, NEW o, Takes(l, k, n, m), Follows(k, o, n)
  PROVE  Takes(l, o, n, m)
  <1>1. o.lastIn = k.lastIn /\ o.delivered = k.delivered /\ o.outOfSequence = k.outOfSequence
    BY InboundSame DEF Follows
  <1>2. Receives(o, m) /\ Following(o) /\ Len(l.delivered) <= Len(o.delivered)
    BY <1>1 DEF Takes, Receives, Following
  <1> QED
    BY <1>2, StaysTransitively DEF Takes, Follows

LEMMA FollowsThenTakes ==
  ASSUME NEW n, NEW m, NEW l, NEW k, NEW o, Follows(l, k, n), Takes(k, o, n, m)
  PROVE  Takes(l, o, n, m)
  <1>1. k.delivered = l.delivered
    BY InboundSame DEF Follows
  <1> QED
    BY <1>1, StaysTransitively DEF Takes, Follows

LEMMA TakesTransitively ==
  ASSUME NEW n, NEW m, NEW l \in Links, NEW k \in Links, NEW o \in Links,
         Takes(l, k, n, m), Takes(k, o, n, m)
  PROVE  Takes(l, o, n, m)
  <1>1. Len(l.delivered) \in Nat /\ Len(k.delivered) \in Nat /\ Len(o.delivered) \in Nat
    <2>1. l.delivered \in Seq(Nat) /\ k.delivered \in Seq(Nat) /\ o.delivered \in Seq(Nat)
      BY DEF Links
    <2> QED
      BY <2>1
  <1>2. Len(l.delivered) <= Len(o.delivered)
    BY <1>1 DEF Takes
  <1> QED
    BY <1>2, StaysTransitively DEF Takes

\* The held packet that is next carries the next chunk.
LEMMA DeliverTakes ==
  ASSUME NoReuse, NEW n \in Nat, NEW m \in 0 .. MaxChunks, NEW l \in Sound,
         Sends(l, n), Receives(l, m), Following(l)
  PROVE  Takes(l, DeliverNext(l), n, m)
  <1>1. l \in Links /\ l.delivered \in Seq(Nat) /\ l.outOfSequence \in Seq(Held)
    BY DEF Sound, Links
  <1> DEFINE d == Len(l.delivered)
  <1>2. d \in Nat /\ DOMAIN l.delivered = 1 .. d /\ d <= m /\ MaxChunks \in Nat
    BY <1>1, SessionAssumption DEF Receives
  <1>3. CASE DeliverNext(l) = l
    BY <1>2, <1>3 DEF Takes, Stays
  <1>4. ASSUME NEW i \in DOMAIN l.outOfSequence,
               Distance(l.outOfSequence[i].psn, l.lastIn) = 1,
               DeliverNext(l) = [l EXCEPT !.lastIn = l.outOfSequence[i].psn,
                                   !.delivered = Append(@, l.outOfSequence[i].chunk),
                                   !.outOfSequence = RemoveAt(@, i)]
        PROVE  Takes(l, DeliverNext(l), n, m)
    <2> DEFINE held == l.outOfSequence[i]
               chunk == held.chunk
               delivered == Append(l.delivered, chunk)
               rest == RemoveAt(l.outOfSequence, i)
               k == [l EXCEPT !.lastIn = held.psn, !.delivered = delivered,
                              !.outOfSequence = rest]
    <2>1. held \in Held /\ chunk \in 1 .. m /\ held.psn = Psn(chunk)
      BY <1>1 DEF Receives, Numbered
    <2>2. chunk = d + 1
      <3>1. chunk \in 1 .. MaxChunks /\ d \in 0 .. MaxChunks
        BY <1>2, <2>1
      <3>2. Distance(Psn(chunk), Psn(d)) = 1
        BY <1>4, <2>1 DEF Following
      <3> HIDE DEF chunk, d
      <3> QED
        BY <3>1, <3>2, NextChunk
    <2>3. DeliverNext(l) = k
      BY <1>4
    <2>4. /\ Len(delivered) = d + 1 /\ DOMAIN delivered = 1 .. d + 1
          /\ delivered[d + 1] = chunk
          /\ \A j \in 1 .. d : delivered[j] = l.delivered[j]
      BY <1>1, <1>2, <2>1
    <2> HIDE DEF held, chunk, delivered, rest
    <2>5. /\ k.lastIn = Psn(d + 1) /\ k.delivered = delivered /\ k.outOfSequence = rest
          /\ k.queued = l.queued /\ k.sentPsn = l.sentPsn /\ k.unacked = l.unacked
          /\ k.out = l.out /\ k.state = l.state /\ k.timers = l.timers
      BY <1>1, <2>1, <2>2 DEF Links, held
    <2> HIDE DEF k
    <2>6. Sends(k, n) /\ Stays(l, k)
      <3>1. Sends(k, n)
        BY <1>1, <2>5, SendsKept
      <3> QED
        BY <2>5, <3>1 DEF Stays
    <2>7. Following(k)
      BY <2>4, <2>5 DEF Following
    <2>8. Receives(k, m)
      <3>1. d + 1 <= m
        BY <1>2, <2>1, <2>2
      <3>2. ASSUME NEW j \in 1 .. d + 1 PROVE delivered[j] = j
        <4>1. CASE j \in 1 .. d
          BY <1>2, <2>4, <4>1 DEF Receives
        <4>2. CASE j = d + 1
          BY <2>2, <2>4, <4>2
        <4> QED
          BY <1>2, <4>1, <4>2
      <3>3. \A j \in DOMAIN rest : Numbered(rest[j], m)
        BY <1>1, RemoveFacts DEF rest, Receives
      <3> QED
        BY <2>4, <2>5, <3>1, <3>2, <3>3 DEF Receives
    <2>9. Len(l.delivered) <= Len(k.delivered)
      BY <1>2, <2>4, <2>5
    <2> QED
      BY <2>3, <2>6, <2>7, <2>8, <2>9 DEF Takes
  <1> QED
    BY <1>1, <1>3, <1>4, DeliverFacts
LEMMA DeliverAllTakes ==
  ASSUME NoReuse, NEW n \in Nat, NEW m \in 0 .. MaxChunks, NEW l \in Sound,
         Sends(l, n), Receives(l, m), Following(l)
  PROVE  Takes(l, DeliverAll(l), n, m)
  <1> DEFINE s == l.outOfSequence
             Good == [k \in 0 .. Len(s) |-> {o \in Sound : Takes(l, o, n, m)}]
  <1>1. s \in Seq(Held)
    BY DEF Sound, Links
  <1>2. \A k \in 1 .. Len(s) : k - 1 \in 0 .. Len(s) /\ k \in 0 .. Len(s)
    BY <1>1
  <1>3. ASSUME NEW o \in Sound, Takes(l, o, n, m)
        PROVE  DeliverNext(o) \in Sound /\ Takes(l, DeliverNext(o), n, m)
    <2>1. DeliverNext(o) \in Sound
      BY DeliverSound
    <2>2. Takes(o, DeliverNext(o), n, m)
      BY <1>3, DeliverTakes DEF Takes
    <2> QED
      BY <1>3, <2>1, <2>2, TakesTransitively DEF Sound
  <1>4. \A k \in 1 .. Len(s) : \A o \in Good[k - 1] : DeliverNext(o) \in Good[k]
    BY <1>2, <1>3
  <1>5. l \in Good[0]
    <2>1. l.delivered \in Seq(Nat)
      BY DEF Sound, Links
    <2>2. Takes(l, l, n, m)
      BY <2>1 DEF Takes, Stays
    <2> QED
      BY <1>1, <2>2
  <1>6. \A o \in Good[Len(s)] : Takes(l, o, n, m)
    BY <1>1
  <1> HIDE DEF Good
  <1>7. FoldLeft(LAMBDA o, held : DeliverNext(o), l, s) \in Good[Len(s)]
    BY <1>1, <1>4, <1>5, Loops
  <1> QED
    BY <1>6, <1>7 DEF DeliverAll

\* Data is delivered when it is next; else it is held or refused.
LEMMA HandleDataTakes ==
  ASSUME NoReuse, NEW n \in Nat, NEW m \in 0 .. MaxChunks, NEW l \in Sound,
         Sends(l, n), Receives(l, m), Following(l),
         NEW p \in Packets, Carries(p, m), p.chunk # None
  PROVE  Takes(l, HandleData(l, p), n, m)
  <1> DEFINE entry == [psn |-> p.seq, chunk |-> p.chunk]
             kept == Append(l.outOfSequence, entry)
             held == [l EXCEPT !.outOfSequence = kept]
             quiet == Disarmed(held, "sendAck")
             missing == Missing(l, p.seq)
  <1>1. l \in Links /\ p.seq \in Psns /\ l.outOfSequence \in Seq(Held) /\ l.delivered \in Seq(Nat)
    BY DEF Sound, Links, Packets
  <1>2. p.chunk \in 1 .. m /\ p.seq = Psn(p.chunk) /\ m \in Nat
    BY SessionAssumption DEF Carries, None
  <1>3. entry \in Held /\ Numbered(entry, m)
    BY <1>1, <1>2 DEF Held, Numbered
  <1> HIDE DEF entry
  <1>4. kept \in Seq(Held) /\ \A i \in DOMAIN kept : Numbered(kept[i], m)
    <2> DEFINE r == Len(l.outOfSequence)
    <2>1. r \in Nat /\ DOMAIN l.outOfSequence = 1 .. r
      BY <1>1
    <2>2. /\ kept \in Seq(Held) /\ DOMAIN kept = 1 .. r + 1 /\ kept[r + 1] = entry
          /\ \A i \in 1 .. r : kept[i] = l.outOfSequence[i]
      BY <1>1, <1>3, <2>1
    <2>3. \A i \in 1 .. r : Numbered(l.outOfSequence[i], m)
      BY <2>1 DEF Receives
    <2> HIDE DEF r, kept
    <2>4. \A i \in 1 .. r + 1 : i \in 1 .. r \/ i = r + 1
      BY <2>1
    <2> QED
      BY <1>3, <2>2, <2>3, <2>4
  <1> HIDE DEF kept
  <1>5. /\ held \in Links /\ held.outOfSequence = kept /\ held.lastIn = l.lastIn
        /\ held.delivered = l.delivered /\ held.unacked = l.unacked /\ held.due = l.due
        /\ held.queued = l.queued /\ held.sentPsn = l.sentPsn /\ held.out = l.out
        /\ held.state = l.state /\ held.timers = l.timers
    BY <1>1, <1>4 DEF Links
  <1>6. HandleData(l, p) =
          IF Distance(p.seq, l.lastIn) > l.lsp.maxOutgoing + Slack \/ Distance(p.seq, l.lastIn) = 0
          THEN SendAck(l)
          ELSE IF Distance(p.seq, l.lastIn) = 1 THEN AcknowledgeData(DeliverAll(held))
          ELSE IF Distance(p.seq, l.lastIn) >= l.lsp.maxOutgoing THEN SendEak(quiet, missing)
          ELSE held
    BY DEF HandleData, kept, entry
  <1> HIDE DEF held
  <1>7. held \in Sound
    BY <1>5, EditSound
  <1>8. Takes(l, held, n, m)
    <2>1. Sends(held, n)
      BY <1>1, <1>5, SendsKept
    <2>2. Receives(held, m) /\ Following(held)
      BY <1>4, <1>5 DEF Receives, Following
    <2>3. Len(l.delivered) <= Len(held.delivered)
      BY <1>1, <1>5
    <2> QED
      BY <1>5, <2>1, <2>2, <2>3 DEF Takes, Stays
  <1>9. Takes(l, l, n, m)
    BY <1>1 DEF Takes, Stays
  <1>10. missing \in SUBSET Psns
    BY <1>1, MissingFacts
  <1> HIDE DEF missing
  <1>11. Takes(l, SendAck(l), n, m)
    <2>1. Follows(l, SendAck(l), n)
      BY <1>1, <1>10, SendsFollow
    <2> QED
      BY <1>9, <2>1, TakesThenFollows
  <1>12. Takes(l, AcknowledgeData(DeliverAll(held)), n, m)
    <2> DEFINE o == DeliverAll(held)
    <2>1. Takes(held, o, n, m)
      BY <1>7, <1>8, DeliverAllTakes DEF Takes
    <2>2. o \in Sound
      BY <1>7, DeliverAllSound
    <2>3. o \in Links
      BY <2>2 DEF Sound
    <2> HIDE DEF o
    <2>4. Takes(l, o, n, m)
      BY <1>1, <1>5, <1>8, <2>1, <2>3, TakesTransitively
    <2>5. Follows(o, AcknowledgeData(o), n)
      BY <2>3, <2>4, AcknowledgeFollows DEF Takes
    <2>6. Takes(l, AcknowledgeData(o), n, m)
      BY <2>4, <2>5, TakesThenFollows
    <2> QED
      BY <2>6 DEF o
  <1>13. Takes(l, SendEak(quiet, missing), n, m)
    <2>1. Follows(held, quiet, n)
      BY <1>5, <1>8, TimersFollow DEF Takes, Timers
    <2>2. quiet \in Sound
      BY <1>7, TimersSound DEF Timers
    <2> HIDE DEF quiet
    <2>3. Takes(l, quiet, n, m)
      BY <1>8, <2>1, TakesThenFollows
    <2>4. Follows(quiet, SendEak(quiet, missing), n)
      BY <1>10, <2>2, <2>3, SendsFollow DEF Takes, Sound
    <2> QED
      BY <2>3, <2>4, TakesThenFollows
  <1> QED
    BY <1>6, <1>8, <1>11, <1>12, <1>13

\* r is what a handler made of l: up or dead, and further than l was.
Advances(l, r, n, m) == /\ Sends(r, n) /\ Receives(r, m) /\ Following(r)
                        /\ Len(l.delivered) <= Len(r.delivered)
                        /\ r.state \in {"normal", "dead"}
                        /\ "negotiate" \in r.timers => "negotiate" \in l.timers /\ l.state # "negotiate"

LEMMA AdvancesThenTakes ==
  ASSUME NEW n, NEW m, NEW l \in Links, NEW k \in Links, NEW r \in Links,
         Advances(l, k, n, m), Takes(k, r, n, m)
  PROVE  Advances(l, r, n, m)
  <1>1. Len(l.delivered) \in Nat /\ Len(k.delivered) \in Nat /\ Len(r.delivered) \in Nat
    <2>1. l.delivered \in Seq(Nat) /\ k.delivered \in Seq(Nat) /\ r.delivered \in Seq(Nat)
      BY DEF Links
    <2> QED
      BY <2>1
  <1>2. Len(l.delivered) <= Len(r.delivered)
    BY <1>1 DEF Advances, Takes
  <1> QED
    BY <1>2 DEF Advances, Takes, Stays

\* The part of processPacket that an ACK runs, and the data behind it.
LEMMA AckAdvances ==
  ASSUME NoReuse, NEW n \in Nat, NEW m \in 0 .. MaxChunks, NEW l \in Sound,
         Sends(l, n), Receives(l, m), Following(l), l.state \in {"negotiate", "normal", "dead"},
         NEW p \in Packets, p.chunk # None /\ p.control = {"ACK"} => Carries(p, m),
         NEW count \in Nat
  PROVE  LET ack  == HandleAck([l EXCEPT !.cumulative = count], p.ack)
             data == IF p.control \subseteq {"ACK"} /\ p.chunk # None THEN HandleData(ack, p) ELSE ack
         IN "ACK" \in p.control => Advances(l, CumulativeAck(data), n, m)
  <1> DEFINE counted == [l EXCEPT !.cumulative = count]
             ack == HandleAck(counted, p.ack)
             data == IF p.control \subseteq {"ACK"} /\ p.chunk # None THEN HandleData(ack, p) ELSE ack
  <1>1. l \in Links /\ l.delivered \in Seq(Nat) /\ p.ack \in Psns
    BY DEF Sound, Links, Packets
  <1>2. /\ counted \in Links /\ counted.unacked = l.unacked /\ counted.due = l.due
        /\ counted.queued = l.queued /\ counted.sentPsn = l.sentPsn /\ counted.out = l.out
        /\ counted.state = l.state /\ counted.timers = l.timers
        /\ Inbound(counted) = Inbound(l)
    BY <1>1 DEF Links, Inbound
  <1> HIDE DEF counted
  <1>3. counted \in Sound /\ Sends(counted, n)
    BY <1>1, <1>2, EditSound, SendsKept
  <1>4. /\ Sends(ack, n) /\ Inbound(ack) = Inbound(counted) /\ ack.state \in {"normal", "dead"}
        /\ "negotiate" \in ack.timers =>
             "negotiate" \in counted.timers /\ counted.state # "negotiate"
    BY <1>1, <1>2, <1>3, HandleAckFollows
  <1>5. ack \in Sound
    BY <1>1, <1>3, HandleAckSound
  <1> HIDE DEF ack
  <1>6. Advances(l, ack, n, m)
    <2>1. /\ ack.lastIn = l.lastIn /\ ack.delivered = l.delivered
          /\ ack.outOfSequence = l.outOfSequence
      BY <1>2, <1>4, InboundSame
    <2>2. Receives(ack, m) /\ Following(ack) /\ Len(l.delivered) <= Len(ack.delivered)
      BY <1>1, <2>1 DEF Receives, Following
    <2> QED
      BY <1>2, <1>4, <2>2 DEF Advances
  <1>7. ASSUME "ACK" \in p.control PROVE Advances(l, data, n, m) /\ data \in Sound
    <2>1. CASE p.control \subseteq {"ACK"} /\ p.chunk # None
      <3>1. p.control = {"ACK"}
        BY <1>7, <2>1
      <3>2. Takes(ack, HandleData(ack, p), n, m)
        BY <1>5, <1>6, <2>1, <3>1, HandleDataTakes DEF Advances
      <3>3. HandleData(ack, p) \in Sound
        BY <1>5, HandleDataSound
      <3> QED
        BY <1>1, <1>5, <1>6, <2>1, <3>2, <3>3, AdvancesThenTakes DEF Sound
    <2>2. CASE ~ (p.control \subseteq {"ACK"} /\ p.chunk # None)
      BY <1>5, <1>6, <2>2
    <2> QED
      BY <2>1, <2>2
  <1> HIDE DEF data
  <1>8. ASSUME "ACK" \in p.control PROVE Advances(l, CumulativeAck(data), n, m)
    <2>1. data \in Links /\ CumulativeAck(data) \in Links
      BY <1>7, <1>8, AcknowledgeSound DEF Sound
    <2>2. Follows(data, CumulativeAck(data), n)
      BY <1>7, <1>8, <2>1, AcknowledgeFollows DEF Advances
    <2>3. Takes(data, data, n, m)
      <3>1. data.delivered \in Seq(Nat)
        BY <2>1 DEF Links
      <3> QED
        BY <1>7, <1>8, <3>1 DEF Advances, Takes, Stays
    <2>4. Takes(data, CumulativeAck(data), n, m)
      BY <2>2, <2>3, TakesThenFollows
    <2> QED
      BY <1>1, <1>7, <1>8, <2>1, <2>4, AdvancesThenTakes
  <1> QED
    BY <1>8 DEF data, ack, counted
\* One packet that reaches an end which has the number its peer starts from.
LEMMA HandleAckPacket ==
  ASSUME NoReuse, NEW n \in Nat, NEW m \in 0 .. MaxChunks, NEW l \in Sound,
         Sends(l, n), Receives(l, m), Following(l), l.state \in {"negotiate", "normal"},
         NEW p \in Packets, p.control = {"ACK"}, Carries(p, m)
  PROVE  Advances(l, HandlePacket(l, p), n, m)
  <1> DEFINE count == CountedTo(l.cumulative, l.lsp.maxAck)
             ack  == HandleAck([l EXCEPT !.cumulative = count], p.ack)
             data == IF p.control \subseteq {"ACK"} /\ p.chunk # None THEN HandleData(ack, p) ELSE ack
  <1>1. l \in Links
    BY DEF Sound
  <1>2. count \in Nat
    BY <1>1 DEF Links, CountedTo
  <1>3. /\ "SYN" \notin p.control /\ "ACK" \in p.control /\ "EAK" \notin p.control
        /\ "RST" \notin p.control
    OBVIOUS
  <1>4. HandlePacket(l, p) = CumulativeAck(data)
    <2>1. [l EXCEPT !.cumulative = CountedTo(@, l.lsp.maxAck)] = [l EXCEPT !.cumulative = count]
      BY <1>1 DEF Links
    <2> HIDE DEF count
    <2> QED
      BY <1>3, <2>1 DEF HandlePacket
  <1> HIDE DEF count
  <1>5. Advances(l, CumulativeAck(data), n, m)
    BY <1>2, <1>3, AckAdvances
  <1> QED
    BY <1>4, <1>5

\* EAK and RST only send, or end the link.
LEMMA HandleOtherPacket ==
  ASSUME NEW n \in Nat, NEW l \in Sound, Sends(l, n), NEW p \in Packets,
         p.control = {"EAK"} \/ p.control = {"RST"}
  PROVE  Follows(l, HandlePacket(l, p), n) /\ (p.control = {"RST"} => HandlePacket(l, p) = Bailout(l))
  <1>1. l \in Links /\ p.missing \in SUBSET Psns
    BY DEF Sound, Packets
  <1>2. CASE p.control = {"RST"}
    <2>1. HandlePacket(l, p) = Bailout(l)
      BY <1>2 DEF HandlePacket
    <2>2. Follows(l, Bailout(l), n)
      BY <1>1, TimersFollow DEF Timers
    <2> QED
      BY <2>1, <2>2
  <1>3. CASE p.control = {"EAK"}
    <2> DEFINE eak == IF p.missing # {} THEN HandleEak(l, p.missing) ELSE l
    <2>1. /\ "SYN" \notin p.control /\ "ACK" \notin p.control /\ "EAK" \in p.control
          /\ "RST" \notin p.control /\ ~ (p.control \subseteq {"ACK"})
      BY <1>3
    <2>2. HandlePacket(l, p) = CumulativeAck(eak)
      BY <2>1 DEF HandlePacket
    <2>3. Follows(l, eak, n) /\ eak \in Sound
      BY <1>1, HandleEakFollows, HandleEakSound DEF Follows, Stays
    <2> HIDE DEF eak
    <2>4. Follows(eak, CumulativeAck(eak), n)
      BY <2>3, AcknowledgeFollows DEF Follows, Sound
    <2>5. Follows(l, CumulativeAck(eak), n)
      BY <2>3, <2>4, FollowsTransitively DEF Follows
    <2> QED
      BY <1>3, <2>2, <2>5
  <1> QED
    BY <1>2, <1>3

\* The phone's answer gives the accessory the number to start from; once the
\* accessory is up it is an acknowledgement like another.
LEMMA HandleSynPacket ==
  ASSUME NoReuse, NEW n \in Nat, NEW m \in 0 .. MaxChunks, NEW l \in Sound,
         Sends(l, n), Receives(l, m), l.state \in {"negotiate", "normal"},
         l.state = "negotiate" => l.delivered = << >>,
         l.state = "normal" => Following(l),
         NEW p \in Packets, p.control = {"SYN", "ACK"}, p.seq = FirstPsn
  PROVE  LET r == HandlePacket(l, p)
         IN /\ Sends(r, n) /\ Receives(r, m) /\ Following(r)
            /\ Len(l.delivered) <= Len(r.delivered) /\ r.state \in {"normal", "dead"}
  <1> DEFINE adopted == [l EXCEPT !.lsp = p.lsp, !.lastIn = p.seq, !.lastAcked = p.seq]
             syn == HandleSyn(l, p)
             count == CountedTo(syn.cumulative, syn.lsp.maxAck)
             ack  == HandleAck([syn EXCEPT !.cumulative = count], p.ack)
             data == IF p.control \subseteq {"ACK"} /\ p.chunk # None THEN HandleData(ack, p) ELSE ack
  <1>1. l \in Links /\ p.seq \in Psns /\ p.lsp \in Lsps
    BY DEF Sound, Packets
  <1>2. /\ "SYN" \in p.control /\ "ACK" \in p.control /\ "EAK" \notin p.control
        /\ "RST" \notin p.control /\ p.control # {"ACK"}
    OBVIOUS
  <1>3. syn \in Sound
    BY HandleSynSound
  <1>4. /\ Sends(syn, n) /\ Receives(syn, m) /\ Following(syn)
        /\ syn.delivered = l.delivered /\ syn.state \in {"negotiate", "normal", "dead"}
    <2>1. CASE l.state # "negotiate"
      <3>1. syn = l
        BY <2>1 DEF HandleSyn
      <3> HIDE DEF syn
      <3> QED
        BY <2>1, <3>1
    <2>2. CASE l.state = "negotiate"
      <3>1. syn = SendAck(adopted)
        BY <2>2 DEF HandleSyn
      <3>2. /\ adopted \in Links /\ adopted.lastIn = FirstPsn
            /\ adopted.delivered = l.delivered /\ adopted.outOfSequence = l.outOfSequence
            /\ adopted.queued = l.queued /\ adopted.sentPsn = l.sentPsn
            /\ adopted.unacked = l.unacked /\ adopted.out = l.out /\ adopted.state = l.state
        BY <1>1 DEF Links
      <3> HIDE DEF adopted, syn
      <3>3. Sends(adopted, n)
        BY <1>1, <3>2, SendsKept
      <3>4. {} \in SUBSET Psns
        OBVIOUS
      <3>5. Follows(adopted, syn, n)
        BY <3>1, <3>2, <3>3, <3>4, SendsFollow
      <3>6. /\ syn.lastIn = adopted.lastIn /\ syn.delivered = adopted.delivered
            /\ syn.outOfSequence = adopted.outOfSequence
        BY <3>5, InboundSame DEF Follows
      <3>7. Following(syn)
        <4>1. Len(syn.delivered) = 0
          BY <2>2, <3>2, <3>6
        <4> QED
          BY <3>2, <3>6, <4>1, PsnFacts DEF Following
      <3>8. Receives(syn, m)
        BY <3>2, <3>6 DEF Receives
      <3> QED
        BY <2>2, <3>2, <3>5, <3>6, <3>7, <3>8 DEF Follows, Stays
    <2> QED
      BY <2>1, <2>2
  <1>5. HandlePacket(l, p) = CumulativeAck(data)
    <2>1. [syn EXCEPT !.cumulative = CountedTo(@, syn.lsp.maxAck)] = [syn EXCEPT !.cumulative = count]
      BY <1>3 DEF Sound, Links
    <2> HIDE DEF count
    <2> QED
      BY <1>2, <2>1 DEF HandlePacket
  <1>6. count \in Nat
    BY <1>3 DEF Sound, Links, CountedTo
  <1> HIDE DEF count, syn
  <1>7. Advances(syn, CumulativeAck(data), n, m)
    BY <1>2, <1>3, <1>4, <1>6, AckAdvances
  <1> HIDE DEF data
  <1> QED
    BY <1>4, <1>5, <1>7 DEF Advances
-----------------------------------------------------------------------------
(* Timers keep the order.                                                     *)

LEMMA OtherTimersFollow ==
  ASSUME NEW n \in Nat, NEW l \in Sound, Sends(l, n)
  PROVE  /\ Follows(l, OnSendAckTimer(l), n)
         /\ Follows(l, OnExpectAckTimer(l), n)
         /\ l.state # "normal" => /\ OnSendAckTimer(l) = Disarmed(l, "sendAck")
                                  /\ OnExpectAckTimer(l) = Disarmed(l, "recvAck")
  <1>1. l \in Links /\ Tracked(l) /\ l.unacked \in Seq(Unacked) /\ l.due \in Seq(Psns)
        /\ {} \in SUBSET Psns
    BY DEF Sound, Links
  <1>2. Follows(l, OnSendAckTimer(l), n)
    <2> DEFINE quiet == Disarmed(l, "sendAck")
               m == [quiet EXCEPT !.lastAcked = l.lastIn]
    <2>1. quiet \in Sound /\ Follows(l, quiet, n)
      BY <1>1, TimersSound, TimersFollow DEF Timers
    <2> HIDE DEF quiet
    <2>2. /\ m \in Links /\ m.queued = quiet.queued /\ m.sentPsn = quiet.sentPsn
          /\ m.unacked = quiet.unacked /\ m.out = quiet.out /\ m.state = quiet.state
          /\ m.timers = quiet.timers /\ Inbound(m) = Inbound(quiet)
      BY <1>1, <2>1 DEF Sound, Links, Inbound
    <2> HIDE DEF m
    <2>3. Follows(quiet, m, n)
      BY <2>1, <2>2, EditFollows DEF Follows, Sound
    <2>4. Follows(m, SendAck(m), n)
      BY <1>1, <2>2, <2>3, SendsFollow DEF Follows
    <2>5. Follows(l, SendAck(m), n)
      BY <2>1, <2>3, <2>4, FollowsTransitively DEF Follows
    <2> QED
      BY <2>1, <2>5 DEF OnSendAckTimer, m, quiet
  <1>3. Follows(l, OnExpectAckTimer(l), n)
    <2> DEFINE At(psn) == CHOOSE p \in Range(l.unacked) : p.psn = psn
               r == Len(l.due)
               oldest == [At(Head(l.due)) EXCEPT !.counter = @ + 1]
               later == [i \in 1 .. r - 1 |-> At(l.due[i + 1])]
               sorted == <<oldest>> \o later
               due == Append(Tail(l.due), Head(l.due))
               quiet == Disarmed(l, "recvAck")
               counted == [quiet EXCEPT !.unacked = sorted, !.due = due]
    <2>1. quiet \in Links /\ Follows(l, quiet, n) /\ quiet.due = l.due
      BY <1>1, TimersSound, TimersFollow DEF Timers, Disarmed, Links
    <2>2. CASE l.unacked = << >> \/ l.state # "normal"
      BY <2>1, <2>2 DEF OnExpectAckTimer
    <2>3. CASE ~ (l.unacked = << >> \/ l.state # "normal")
      <3>1. OnExpectAckTimer(l) = IF oldest.counter = l.lsp.maxRetransmissions THEN Bailout(counted)
                                  ELSE Armed(SendData(counted, oldest), "recvAck")
        <4>1. counted = [quiet EXCEPT !.unacked = sorted, !.due = Append(Tail(@), Head(@))]
          BY <2>1 DEF Links
        <4> HIDE DEF oldest, sorted, counted, quiet
        <4> QED
          BY <2>3, <4>1 DEF OnExpectAckTimer, oldest, sorted, quiet
      <3>2. r \in Nat \ {0} /\ DOMAIN l.due = 1 .. r
        <4>1. 1 \in DOMAIN l.unacked
          BY <1>1, <2>3
        <4>2. PICK i \in DOMAIN l.due : TRUE
          BY <1>1, <4>1 DEF Tracked
        <4> QED
          BY <1>1, <4>2
      <3>3. ASSUME NEW i \in 1 .. r PROVE At(l.due[i]) \in Unacked /\ Numbered(At(l.due[i]), n)
        <4>1. l.due[i] \in {l.unacked[j].psn : j \in DOMAIN l.unacked}
          BY <1>1, <3>2 DEF Tracked
        <4>2. PICK j \in DOMAIN l.unacked : l.unacked[j].psn = l.due[i]
          BY <4>1
        <4>3. l.unacked[j] \in Range(l.unacked)
          BY DEF Range
        <4>4. At(l.due[i]) \in Range(l.unacked)
          BY <4>2, <4>3
        <4>5. \A p \in Range(l.unacked) : p \in Unacked /\ Numbered(p, n)
          BY <1>1 DEF Range, Sends
        <4> HIDE DEF At
        <4> QED
          BY <4>4, <4>5
      <3>4. Head(l.due) = l.due[1] /\ due \in Seq(Psns)
        BY <1>1, <3>2
      <3> HIDE DEF due
      <3>5. oldest \in Unacked /\ Numbered(oldest, n)
        <4>1. 1 \in 1 .. r
          BY <3>2
        <4> DEFINE first == At(l.due[1])
        <4>2. oldest = [first EXCEPT !.counter = @ + 1]
          BY <3>4
        <4> HIDE DEF At, r
        <4>3. first \in Unacked /\ Numbered(first, n)
          BY <3>3, <4>1
        <4> HIDE DEF first, oldest
        <4>4. /\ oldest \in Unacked /\ oldest.psn = first.psn /\ oldest.chunk = first.chunk
          BY <4>2, <4>3 DEF Unacked
        <4> QED
          BY <4>3, <4>4 DEF Numbered
      <3>6. later \in Seq(Unacked) /\ \A i \in DOMAIN later : Numbered(later[i], n)
        <4> HIDE DEF r, At
        <4>1. \A i \in 1 .. r - 1 : i + 1 \in 1 .. r
          BY <3>2
        <4>2. \A i \in 1 .. r - 1 : later[i] \in Unacked /\ Numbered(later[i], n)
          BY <3>3, <4>1
        <4>3. later = [i \in 1 .. r - 1 |-> later[i]] /\ r - 1 \in Nat
          BY <3>2
        <4> HIDE DEF later
        <4> QED
          BY <4>2, <4>3
      <3> HIDE DEF later, oldest, r, At
      <3>7. sorted \in Seq(Unacked) /\ \A i \in DOMAIN sorted : Numbered(sorted[i], n)
        <4> DEFINE q == Len(later)
        <4>2. q \in Nat /\ DOMAIN later = 1 .. q
          BY <3>6
        <4>4. /\ sorted \in Seq(Unacked) /\ DOMAIN sorted = 1 .. q + 1 /\ sorted[1] = oldest
              /\ \A i \in 1 .. q : sorted[i + 1] = later[i]
          BY <3>5, <3>6, InFront
        <4> HIDE DEF sorted
        <4> HIDE DEF q
        <4>5. ASSUME NEW i \in 1 .. q + 1 PROVE Numbered(sorted[i], n)
          <5>1. CASE i = 1
            BY <3>5, <4>4, <5>1
          <5>2. CASE i # 1
            <6> DEFINE j == i - 1
            <6>1. j \in 1 .. q /\ i = j + 1
              BY <4>2, <5>2
            <6> HIDE DEF j
            <6> QED
              BY <3>6, <4>2, <4>4, <6>1
          <5> QED
            BY <5>1, <5>2
        <4> QED
          BY <4>4, <4>5
      <3> HIDE DEF sorted
      <3>8. /\ counted \in Links /\ counted.unacked = sorted /\ counted.queued = quiet.queued
            /\ counted.sentPsn = quiet.sentPsn /\ counted.out = quiet.out
            /\ counted.state = quiet.state /\ counted.timers = quiet.timers
            /\ Inbound(counted) = Inbound(quiet)
        <4> HIDE DEF quiet
        <4> QED
          BY <2>1, <3>4, <3>7 DEF Links, Inbound
      <3> HIDE DEF quiet, counted
      <3>9. Sends(counted, n) /\ Stays(quiet, counted)
        <4>1. \A i \in DOMAIN counted.unacked : Numbered(counted.unacked[i], n)
          BY <3>7, <3>8
        <4>2. counted.state # "dead" => InLine(counted, n)
          BY <2>1, <3>8 DEF Follows, Sends, InLine
        <4>3. \A i \in DOMAIN counted.out : Carries(counted.out[i], n)
          BY <2>1, <3>8 DEF Follows, Sends
        <4> QED
          BY <3>8, <4>1, <4>2, <4>3 DEF Sends, Stays
      <3>10. Follows(l, counted, n)
        <4>1. Follows(quiet, counted, n)
          BY <3>8, <3>9 DEF Follows
        <4> QED
          BY <2>1, <4>1, FollowsTransitively DEF Follows
      <3>11. Follows(l, Bailout(counted), n)
        <4>1. Follows(counted, Bailout(counted), n)
          BY <3>8, <3>9, TimersFollow DEF Timers
        <4> QED
          BY <3>10, <4>1, FollowsTransitively DEF Follows
      <3>12. Follows(l, Armed(SendData(counted, oldest), "recvAck"), n)
        <4> DEFINE sent == SendData(counted, oldest)
        <4>1. sent \in Links /\ Follows(counted, sent, n)
          BY <1>1, <3>5, <3>8, <3>9, SendFacts, SendsFollow
        <4> HIDE DEF sent
        <4>2. Follows(l, sent, n)
          BY <3>10, <4>1, FollowsTransitively DEF Follows
        <4>3. Follows(sent, Armed(sent, "recvAck"), n)
          BY <4>1, TimersFollow DEF Follows, Timers
        <4>4. Follows(l, Armed(sent, "recvAck"), n)
          BY <4>2, <4>3, FollowsTransitively DEF Follows
        <4> QED
          BY <4>4 DEF sent
      <3> QED
        BY <3>1, <3>11, <3>12
    <2> QED
      BY <2>2, <2>3
  <1>4. l.state # "normal" => /\ OnSendAckTimer(l) = Disarmed(l, "sendAck")
                              /\ OnExpectAckTimer(l) = Disarmed(l, "recvAck")
    BY DEF OnSendAckTimer, OnExpectAckTimer
  <1> QED
    BY <1>2, <1>3, <1>4
-----------------------------------------------------------------------------
(* Across every step the session stays in order.                              *)

Flushed(l) == [l EXCEPT !.out = << >>]

LEMMA FlushedSame ==
  ASSUME NEW l \in Links
  PROVE  LET f == Flushed(l)
         IN /\ f \in Links /\ f.out = << >> /\ Inbound(f) = Inbound(l)
            /\ f.state = l.state /\ f.timers = l.timers /\ f.queued = l.queued
            /\ f.sentPsn = l.sentPsn /\ f.unacked = l.unacked
            /\ f.lastIn = l.lastIn /\ f.delivered = l.delivered
            /\ f.outOfSequence = l.outOfSequence
  <1>1. << >> \in Seq(Packets)
    OBVIOUS
  <1> QED
    BY <1>1 DEF Flushed, Links, Inbound

\* What the channel has taken does not count any more.
LEMMA FlushedOrdered ==
  ASSUME NEW n \in Nat, NEW m \in Nat, NEW e \in Ends, NEW l \in Links, Ordered(e, l, n, m)
  PROVE  Ordered(e, Flushed(l), n, m)
  <1> DEFINE f == Flushed(l)
  <1>1. /\ f \in Links /\ f.out = << >> /\ f.state = l.state /\ f.queued = l.queued
        /\ f.sentPsn = l.sentPsn /\ f.unacked = l.unacked
        /\ f.lastIn = l.lastIn /\ f.delivered = l.delivered
        /\ f.outOfSequence = l.outOfSequence
    BY FlushedSame
  <1> HIDE DEF f
  <1>2. Sends(f, n)
    BY <1>1 DEF Ordered, Sends, InLine
  <1>3. Receives(f, m) /\ (Met(e, f) => Following(f)) /\ (f.state \in Early => f.delivered = << >>)
    BY <1>1 DEF Ordered, Receives, Met, Following
  <1> QED
    BY <1>2, <1>3 DEF Ordered, f

\* What only sends leaves the end in order, and writes packets of the session.
LEMMA FollowsOrdered ==
  ASSUME NEW n \in Nat, NEW m \in Nat, NEW k \in Nat, NEW e \in Ends, NEW l \in Links,
         NEW r \in Links, Ordered(e, l, n, m), Follows(l, r, k)
  PROVE  Ordered(e, r, k, m) /\ Ordered(e, Flushed(r), k, m) /\ Only(Other(e), r.out, k)
  <1>1. r.lastIn = l.lastIn /\ r.delivered = l.delivered /\ r.outOfSequence = l.outOfSequence
    BY InboundSame DEF Follows
  <1>2. r.state = l.state \/ r.state = "dead"
    BY DEF Follows, Stays
  <1>3. Ordered(e, r, k, m)
    <2>1. Sends(r, k)
      BY DEF Follows
    <2>2. Receives(r, m)
      BY <1>1 DEF Ordered, Receives
    <2>3. Met(e, r) => Following(r)
      BY <1>1, <1>2 DEF Ordered, Met, Following
    <2>4. r.state \in Early => r.delivered = << >>
      BY <1>1, <1>2 DEF Ordered, Early
    <2> QED
      BY <2>1, <2>2, <2>3, <2>4 DEF Ordered
  <1>4. Only(Other(e), r.out, k)
    BY DEF Follows, Sends, Only, Carried
  <1> QED
    BY <1>3, <1>4, FlushedOrdered

\* So does a packet taken from the channel, which leaves the end up or dead.
LEMMA AdvancesOrdered ==
  ASSUME NEW n \in Nat, NEW m \in Nat, NEW e \in Ends, NEW r \in Links,
         Sends(r, n), Receives(r, m), Following(r), r.state \in {"normal", "dead"}
  PROVE  Ordered(e, Flushed(r), n, m) /\ Only(Other(e), r.out, n)
  <1>1. Ordered(e, r, n, m)
    BY DEF Ordered, Early
  <1>2. Only(Other(e), r.out, n)
    BY DEF Sends, Only, Carried
  <1> QED
    BY <1>1, <1>2, FlushedOrdered

Offer(l, control) == Armed(Write(l, control, l.sentPsn, None, {}, l.lsp), "negotiate")

\* What an end that negotiates is after it has offered its parameters.
Offered(e, l, r, control, n, m) ==
  /\ r \in Links /\ Ordered(e, Flushed(r), n, m) /\ r.state \in {"negotiate", "dead"}
  /\ r.delivered = l.delivered
  /\ \A i \in DOMAIN r.out : r.out[i].control = control /\ r.out[i].seq = FirstPsn

\* A SYN, or its answer, has the number both ends start from.
LEMMA NegotiateOrders ==
  ASSUME NEW n \in Nat, NEW m \in Nat, NEW e \in Ends, NEW l \in Links, l.out = << >>,
         Ordered(e, l, n, m), l.state = "negotiate",
         NEW control \in Controls
  PROVE  Offered(e, l, Offer(l, control), control, n, m)
  <1> DEFINE packet == Packet(l, control, l.sentPsn, None, {}, l.lsp)
             w == Write(l, control, l.sentPsn, None, {}, l.lsp)
             r == Armed(w, "negotiate")
             f == Flushed(r)
  <1>1. w \in Links /\ Wrote(l, w, packet)
    <2>1. l.sentPsn \in Psns /\ l.lsp \in Lsps
      BY DEF Links
    <2>2. None \in Nat /\ {} \in SUBSET Psns
      BY DEF None
    <2> QED
      BY <2>1, <2>2, WriteFacts
  <1>2. packet.control = control /\ packet.seq = FirstPsn
    <2>1. l.sentPsn = FirstPsn
      BY PsnFacts DEF Ordered, Sends, InLine, Early
    <2> QED
      BY <2>1 DEF Packet
  <1> HIDE DEF packet, w
  <1>3. /\ r \in Links /\ r.state = w.state /\ r.out = w.out /\ r.queued = w.queued
        /\ r.sentPsn = w.sentPsn /\ r.unacked = w.unacked /\ r.lastIn = w.lastIn
        /\ r.delivered = w.delivered /\ r.outOfSequence = w.outOfSequence
    <2>1. w.timers \union {"negotiate"} \in SUBSET Timers
      BY <1>1 DEF Links, Timers
    <2> QED
      BY <1>1, <2>1 DEF Armed, Links
  <1>4. /\ w.sentPsn = l.sentPsn /\ w.unacked = l.unacked /\ w.queued = l.queued
        /\ w.lastIn = l.lastIn /\ w.outOfSequence = l.outOfSequence
        /\ w.delivered = l.delivered
    BY <1>1, ListsSame DEF Wrote
  <1>5. \/ w.state = "dead" /\ w.out = << >>
        \/ w.state = "negotiate" /\ w.out = <<packet>>
    BY <1>1 DEF Wrote
  <1> HIDE DEF r
  <1>6. /\ f \in Links /\ f.out = << >> /\ f.state = r.state /\ f.queued = r.queued
        /\ f.sentPsn = r.sentPsn /\ f.unacked = r.unacked /\ f.lastIn = r.lastIn
        /\ f.delivered = r.delivered /\ f.outOfSequence = r.outOfSequence
    BY <1>3, FlushedSame
  <1> HIDE DEF f
  <1>7. Ordered(e, f, n, m)
    <2>1. Sends(f, n)
      BY <1>3, <1>4, <1>5, <1>6, SendsKept DEF Ordered
    <2>2. Receives(f, m)
      BY <1>3, <1>4, <1>6 DEF Ordered, Receives
    <2>3. Met(e, f) => Following(f)
      BY <1>3, <1>4, <1>5, <1>6 DEF Ordered, Met, Following
    <2>4. f.delivered = << >>
      BY <1>3, <1>4, <1>6 DEF Ordered, Early
    <2> QED
      BY <2>1, <2>2, <2>3, <2>4 DEF Ordered
  <1>8. \A i \in DOMAIN r.out : r.out[i].control = control /\ r.out[i].seq = FirstPsn
    BY <1>2, <1>3, <1>5
  <1>9. r.state \in {"negotiate", "dead"} /\ r.delivered = l.delivered
    BY <1>3, <1>4, <1>5
  <1> QED
    BY <1>3, <1>7, <1>8, <1>9 DEF f, r, w, Offer, Offered
\* Who an end is, and what an invariant of both says of each.
LEMMA TwoEnds ==
  /\ "accessory" \in Ends /\ "phone" \in Ends
  /\ Other("accessory") = "phone" /\ Other("phone") = "accessory"
  /\ \A e \in Ends : Other(e) \in Ends /\ Other(e) # e /\ Other(Other(e)) = e
  /\ \A e, f \in Ends : f = e \/ f = Other(e)
  BY DEF Ends, Other

\* What a call does to the session.
LEMMA MadeFacts ==
  ASSUME SessionInv, NEW e \in Ends, NEW l, NEW inbox, Made(e, l, inbox)
  PROVE  /\ link'[e] = Flushed(l) /\ link'[Other(e)] = link[Other(e)]
         /\ channel'[e] = inbox /\ channel'[Other(e)] = channel[Other(e)] \o l.out
  <1>1. Other(e) \in Ends /\ Other(e) # e
    BY TwoEnds
  <1>2. DOMAIN link = Ends /\ DOMAIN channel = Ends
    BY DEF SessionInv
  <1>3. link' = [link EXCEPT ![e] = Flushed(l)]
    BY DEF Made, Flushed
  <1>4. channel' = [channel EXCEPT ![e] = inbox, ![Other(e)] = channel[Other(e)] \o l.out]
    BY <1>1, <1>2 DEF Made
  <1> QED
    BY <1>1, <1>2, <1>3, <1>4

\* Nothing handed up is taken back; l is what the call of e has made.
LEMMA MadeKeeps ==
  ASSUME SessionInv, NEW e \in Ends, NEW l \in Links, NEW inbox, Made(e, l, inbox)
  PROVE  /\ Len(link[e].delivered) <= Len(l.delivered) =>
              \A f \in Ends : Len(link[f].delivered) <= Len(link'[f].delivered)
         /\ l.delivered = link[e].delivered =>
              \A f \in Ends : link'[f].delivered = link[f].delivered
  <1>1. /\ link'[e] = Flushed(l) /\ link'[Other(e)] = link[Other(e)]
    BY MadeFacts
  <1>2. Flushed(l).delivered = l.delivered
    BY FlushedSame
  <1>3. Len(link[Other(e)].delivered) \in Nat
    <2>1. link[Other(e)].delivered \in Seq(Nat)
      BY TwoEnds DEF SessionInv, Resting, Sound, Links
    <2> QED
      BY <2>1
  <1>4. link'[e].delivered = l.delivered
    BY <1>1, <1>2
  <1>5. link'[Other(e)].delivered = link[Other(e)].delivered
        /\ Len(link[Other(e)].delivered) <= Len(link'[Other(e)].delivered)
    BY <1>1, <1>3
  <1> QED
    BY <1>4, <1>5, TwoEnds

\* Nothing that was in order is so no more when the peer has submitted more.
LEMMA OrderedMore ==
  ASSUME NEW m \in Nat, NEW k \in Nat, m <= k, NEW n, NEW e, NEW l \in Links
  PROVE  /\ Ordered(e, l, n, m) => Ordered(e, l, n, k)
         /\ \A packets : Only(e, packets, m) => Only(e, packets, k)
  <1>1. Len(l.delivered) \in Nat
    <2>1. l.delivered \in Seq(Nat)
      BY DEF Links
    <2> QED
      BY <2>1
  <1>2. \A p : Numbered(p, m) => Numbered(p, k)
    BY DEF Numbered
  <1>3. \A p : Carried(e, p, m) => Carried(e, p, k)
    BY DEF Carried, Carries
  <1>4. Receives(l, m) => Receives(l, k)
    BY <1>1, <1>2 DEF Receives
  <1> QED
    BY <1>3, <1>4 DEF Ordered, Only

\* One sequence behind the other holds only what each of them holds.
LEMMA OnlyBoth ==
  ASSUME NEW a \in Seq(Packets), NEW b \in Seq(Packets)
  PROVE  \A i \in DOMAIN (a \o b) : \/ \E j \in DOMAIN a : (a \o b)[i] = a[j]
                                    \/ \E j \in DOMAIN b : (a \o b)[i] = b[j]
  <1> DEFINE r == a \o b
             q == Len(a)
             k == Len(b)
  <1>1. q \in Nat /\ k \in Nat /\ DOMAIN a = 1 .. q /\ DOMAIN b = 1 .. k
    OBVIOUS
  <1>2. /\ r \in Seq(Packets) /\ Len(r) = q + k
        /\ \A i \in 1 .. q + k : r[i] = IF i <= q THEN a[i] ELSE b[i - q]
    BY Joined
  <1> HIDE DEF r, q, k
  <1>3. DOMAIN r = 1 .. q + k
    BY <1>1, <1>2
  <1>4. ASSUME NEW i \in 1 .. q + k
        PROVE  (\E j \in 1 .. q : r[i] = a[j]) \/ (\E j \in 1 .. k : r[i] = b[j])
    <2>1. CASE i <= q
      BY <1>1, <1>2, <2>1
    <2>2. CASE ~ (i <= q)
      <3>1. i - q \in 1 .. k
        BY <1>1, <2>2
      <3> QED
        BY <1>2, <2>2, <3>1
    <2> QED
      BY <2>1, <2>2
  <1> QED
    BY <1>1, <1>3, <1>4 DEF r

\* Both ends stay in order through a call of one of them.
LEMMA MadeOrdered ==
  ASSUME SessionInv, \A f \in Ends : EndInv(f), SessionInv',
         NEW e \in Ends, NEW l \in Links, NEW inbox \in Seq(Packets), Made(e, l, inbox),
         NEW n \in Nat, submitted[e] <= n, submitted' = [submitted EXCEPT ![e] = n],
         Ordered(e, Flushed(l), n, submitted[Other(e)]),
         \A i \in DOMAIN inbox : \E j \in DOMAIN channel[e] : inbox[i] = channel[e][j],
         Only(Other(e), l.out, n)
  PROVE  \A f \in Ends : EndInv(f)'
  <1> DEFINE o == Other(e)
             m == submitted[o]
             k == submitted[e]
  <1>1. o \in Ends /\ o # e /\ Other(o) = e
    BY TwoEnds
  <1>2. /\ link'[e] = Flushed(l) /\ link'[o] = link[o]
        /\ channel'[e] = inbox /\ channel'[o] = channel[o] \o l.out
    BY MadeFacts
  <1>3. submitted'[e] = n /\ submitted'[o] = m /\ m \in Nat /\ k \in Nat
    BY <1>1, SessionAssumption DEF SessionInv
  <1>4. /\ link[o] \in Links /\ channel[o] \in Seq(Packets) /\ l.out \in Seq(Packets)
    BY <1>1 DEF SessionInv, Resting, Sound, Links
  <1>5. /\ Only(e, channel[e], m) /\ Ordered(o, link[o], m, k) /\ Only(o, channel[o], k)
    BY <1>1 DEF EndInv
  <1>6. Only(e, inbox, m)
    BY <1>5 DEF Only
  <1>7. Ordered(o, link[o], m, n) /\ Only(o, channel[o], n)
    BY <1>3, <1>4, <1>5, OrderedMore
  <1>8. Only(o, channel[o] \o l.out, n)
    <2> DEFINE a == channel[o]
               b == l.out
    <2>1. \A i \in DOMAIN (a \o b) : \/ \E j \in DOMAIN a : (a \o b)[i] = a[j]
                                     \/ \E j \in DOMAIN b : (a \o b)[i] = b[j]
      BY <1>4, OnlyBoth
    <2>2. Only(o, a, n) /\ Only(o, b, n)
      BY <1>7
    <2> HIDE DEF a, b
    <2>3. Only(o, a \o b, n)
      BY <2>1, <2>2 DEF Only
    <2> QED
      BY <2>3 DEF a, b
  <1>9. Ordered(e, link'[e], submitted'[e], submitted'[o]) /\ Only(e, channel'[e], submitted'[o])
    BY <1>2, <1>3, <1>6
  <1>10. Ordered(o, link'[o], submitted'[o], submitted'[e]) /\ Only(o, channel'[o], submitted'[e])
    BY <1>2, <1>3, <1>7, <1>8
  <1>11. EndInv(e)' /\ EndInv(o)'
    BY <1>1, <1>9, <1>10 DEF EndInv
  <1>12. \A f \in Ends : f = e \/ f = o
    BY TwoEnds
  <1> QED
    BY <1>11, <1>12

\* The handshake, when the accessory has made a call.
LEMMA AccessoryShaken ==
  ASSUME SessionInv, Handshake, NEW l \in Links, NEW inbox, Made("accessory", l, inbox),
         \A i \in DOMAIN inbox :
           \E j \in DOMAIN channel["accessory"] : inbox[i] = channel["accessory"][j],
         l.state # "detect",
         l.state \in Early => /\ link["accessory"].state \in Early
                              /\ \A i \in DOMAIN l.out : l.out[i].control = {"SYN"},
         l.state = "idle" => link["accessory"].state = "idle" /\ l.out = << >>
  PROVE  Handshake'
  <1> DEFINE a == link["accessory"]
             p == link["phone"]
             b == Flushed(l)
             toA == channel["accessory"]
             toP == channel["phone"]
  <1>1. /\ link'["accessory"] = b /\ link'["phone"] = p
        /\ channel'["accessory"] = inbox /\ channel'["phone"] = toP \o l.out
    <2> DEFINE e == "accessory"
    <2>1. e \in Ends /\ Other(e) = "phone" /\ Made(e, l, inbox)
      BY TwoEnds
    <2> HIDE DEF e
    <2>2. /\ link'[e] = b /\ link'[Other(e)] = link[Other(e)]
          /\ channel'[e] = inbox /\ channel'[Other(e)] = channel[Other(e)] \o l.out
      BY <2>1, MadeFacts
    <2> QED
      BY <2>1, <2>2 DEF e
  <1>2. Shaken(a, p, toP, toA)
    BY DEF Handshake
  <1>3. toP \in Seq(Packets) /\ l.out \in Seq(Packets)
    BY TwoEnds DEF SessionInv, Links
  <1>4. b.state = l.state
    BY FlushedSame
  <1> HIDE DEF a, p, b, toA, toP
  <1>5. ASSUME l.state \in Early
        PROVE  \A i \in DOMAIN (toP \o l.out) : (toP \o l.out)[i].control = {"SYN"}
    <2>1. \A i \in DOMAIN toP : toP[i].control = {"SYN"}
      BY <1>2, <1>5 DEF Shaken, a
    <2> QED
      BY <1>3, <1>5, <2>1, OnlyBoth
  <1>6. ASSUME l.state = "idle" PROVE toP \o l.out = << >>
    <2>1. toP = << >> /\ l.out = << >>
      BY <1>2, <1>6 DEF Shaken, a
    <2> QED
      BY <2>1
  <1>7. Shaken(b, p, toP \o l.out, inbox)
    <2>1. "negotiate" \in p.timers => p.state \in {"negotiate", "dead"}
      BY <1>2 DEF Shaken
    <2>2. b.state # "detect" /\ p.state # "idle"
      BY <1>2, <1>4 DEF Shaken
    <2>3. ASSUME b.state \in Early
          PROVE  /\ p.state # "normal"
                 /\ \A i \in DOMAIN (toP \o l.out) : (toP \o l.out)[i].control = {"SYN"}
                 /\ \A i \in DOMAIN inbox : inbox[i].control \in {{"SYN", "ACK"}, {"RST"}}
      <3>1. a.state \in Early
        BY <1>4, <2>3 DEF a
      <3>2. \A i \in DOMAIN toA : toA[i].control \in {{"SYN", "ACK"}, {"RST"}}
        BY <1>2, <3>1 DEF Shaken
      <3>3. \A i \in DOMAIN inbox : inbox[i].control \in {{"SYN", "ACK"}, {"RST"}}
        BY <3>2 DEF toA
      <3> QED
        BY <1>2, <1>4, <1>5, <2>3, <3>1, <3>3 DEF Shaken
    <2>4. ASSUME b.state = "idle"
          PROVE  /\ p.state \in {"detect", "dead"} /\ toP \o l.out = << >>
                 /\ \A i \in DOMAIN inbox : inbox[i].control = {"RST"}
      <3>1. a.state = "idle"
        BY <1>4, <2>4 DEF a
      <3>2. \A i \in DOMAIN toA : toA[i].control = {"RST"}
        BY <1>2, <3>1 DEF Shaken
      <3>3. \A i \in DOMAIN inbox : inbox[i].control = {"RST"}
        BY <3>2 DEF toA
      <3> QED
        BY <1>2, <1>4, <1>6, <2>4, <3>1, <3>3 DEF Shaken
    <2> QED
      BY <2>1, <2>2, <2>3, <2>4 DEF Shaken
  <1>8. Shaken(link'["accessory"], link'["phone"], channel'["phone"], channel'["accessory"])
    BY <1>1, <1>7
  <1> QED
    BY <1>8 DEF Handshake

\* The same, when the phone has.
LEMMA PhoneShaken ==
  ASSUME SessionInv, Handshake, NEW l \in Links, NEW inbox \in Seq(Packets),
         Made("phone", l, inbox),
         \A i \in DOMAIN inbox : \E j \in DOMAIN channel["phone"] : inbox[i] = channel["phone"][j],
         l.state # "idle",
         "negotiate" \in l.timers => l.state \in {"negotiate", "dead"},
         link["accessory"].state \in Early =>
           /\ l.state # "normal"
           /\ \A i \in DOMAIN l.out : l.out[i].control \in {{"SYN", "ACK"}, {"RST"}},
         link["accessory"].state = "idle" =>
           /\ l.state \in {"detect", "dead"}
           /\ \A i \in DOMAIN l.out : l.out[i].control = {"RST"}
  PROVE  Handshake'
  <1> DEFINE a == link["accessory"]
             p == link["phone"]
             b == Flushed(l)
             toA == channel["accessory"]
             toP == channel["phone"]
  <1>1. /\ link'["phone"] = b /\ link'["accessory"] = a
        /\ channel'["phone"] = inbox /\ channel'["accessory"] = toA \o l.out
    <2> DEFINE e == "phone"
    <2>1. e \in Ends /\ Other(e) = "accessory" /\ Made(e, l, inbox)
      BY TwoEnds
    <2> HIDE DEF e
    <2>2. /\ link'[e] = b /\ link'[Other(e)] = link[Other(e)]
          /\ channel'[e] = inbox /\ channel'[Other(e)] = channel[Other(e)] \o l.out
      BY <2>1, MadeFacts
    <2> QED
      BY <2>1, <2>2 DEF e
  <1>2. Shaken(a, p, toP, toA)
    BY DEF Handshake
  <1>3. toA \in Seq(Packets) /\ l.out \in Seq(Packets)
    BY TwoEnds DEF SessionInv, Links
  <1>4. b.state = l.state /\ b.timers = l.timers
    BY FlushedSame
  <1> HIDE DEF a, p, b, toA, toP
  <1>5. Shaken(a, b, inbox, toA \o l.out)
    <2>1. "negotiate" \in b.timers => b.state \in {"negotiate", "dead"}
      BY <1>4
    <2>2. a.state # "detect" /\ b.state # "idle"
      BY <1>2, <1>4 DEF Shaken
    <2>3. ASSUME a.state \in Early
          PROVE  /\ b.state # "normal"
                 /\ \A i \in DOMAIN inbox : inbox[i].control = {"SYN"}
                 /\ \A i \in DOMAIN (toA \o l.out) :
                      (toA \o l.out)[i].control \in {{"SYN", "ACK"}, {"RST"}}
      <3>1. \A i \in DOMAIN toA : toA[i].control \in {{"SYN", "ACK"}, {"RST"}}
        BY <1>2, <2>3 DEF Shaken
      <3>2. \A i \in DOMAIN toP : toP[i].control = {"SYN"}
        BY <1>2, <2>3 DEF Shaken
      <3>3. \A i \in DOMAIN inbox : inbox[i].control = {"SYN"}
        BY <3>2 DEF toP
      <3>4. /\ b.state # "normal"
            /\ \A i \in DOMAIN l.out : l.out[i].control \in {{"SYN", "ACK"}, {"RST"}}
        BY <1>4, <2>3 DEF a
      <3>5. \A i \in DOMAIN (toA \o l.out) :
              (toA \o l.out)[i].control \in {{"SYN", "ACK"}, {"RST"}}
        <4> DEFINE Allowed(x) == x \in {{"SYN", "ACK"}, {"RST"}}
        <4>1. /\ \A i \in DOMAIN toA : Allowed(toA[i].control)
              /\ \A i \in DOMAIN l.out : Allowed(l.out[i].control)
          BY <3>1, <3>4
        <4> HIDE DEF Allowed
        <4>2. \A i \in DOMAIN (toA \o l.out) : Allowed((toA \o l.out)[i].control)
          BY <1>3, <4>1, OnlyBoth
        <4> QED
          BY <4>2 DEF Allowed
      <3> QED
        BY <3>3, <3>4, <3>5
    <2>4. ASSUME a.state = "idle"
          PROVE  /\ b.state \in {"detect", "dead"} /\ inbox = << >>
                 /\ \A i \in DOMAIN (toA \o l.out) : (toA \o l.out)[i].control = {"RST"}
      <3>1. \A i \in DOMAIN toA : toA[i].control = {"RST"}
        BY <1>2, <2>4 DEF Shaken
      <3>2. toP = << >>
        BY <1>2, <2>4 DEF Shaken
      <3>3. inbox = << >>
        BY <3>2 DEF toP
      <3>4. /\ b.state \in {"detect", "dead"}
            /\ \A i \in DOMAIN l.out : l.out[i].control = {"RST"}
        BY <1>4, <2>4 DEF a
      <3> QED
        BY <1>3, <3>1, <3>3, <3>4, OnlyBoth
    <2> QED
      BY <2>1, <2>2, <2>3, <2>4 DEF Shaken
  <1>6. Shaken(link'["accessory"], link'["phone"], channel'["phone"], channel'["accessory"])
    BY <1>1, <1>5
  <1> QED
    BY <1>6 DEF Handshake
\* What reaches the accessory, by how far it is with the handshake.
LEMMA AccessoryReceives ==
  ASSUME NoReuse, NEW n \in Nat, NEW m \in 0 .. MaxChunks, NEW l \in Sound,
         Ordered("accessory", l, n, m), l.state \in {"idle", "negotiate", "normal"},
         NEW p \in Packets, Carried("accessory", p, m),
         l.state \in Early => p.control \in {{"SYN", "ACK"}, {"RST"}},
         l.state = "idle" => p.control = {"RST"}
  PROVE  LET r == HandlePacket(l, p)
         IN /\ Ordered("accessory", Flushed(r), n, m) /\ Only("phone", r.out, n)
            /\ r.state \in {"normal", "dead"}
            /\ Len(l.delivered) <= Len(r.delivered)
  <1> DEFINE e == "accessory"
             r == HandlePacket(l, p)
  <1>1. l \in Links /\ r \in Links /\ e \in Ends /\ Other(e) = "phone" /\ m \in Nat
    BY HandlePacketSound, TwoEnds, SessionAssumption DEF Sound
  <1>2. Sends(l, n) /\ Receives(l, m) /\ Ordered(e, l, n, m)
    BY DEF Ordered
  <1>3. ASSUME Sends(r, n), Receives(r, m), Following(r), r.state \in {"normal", "dead"}
        PROVE  Ordered(e, Flushed(r), n, m) /\ Only("phone", r.out, n)
    <2> HIDE DEF r, e
    <2> QED
      BY <1>1, <1>3, AdvancesOrdered
  <1>4. ASSUME Follows(l, r, n) PROVE Ordered(e, Flushed(r), n, m) /\ Only("phone", r.out, n)
    <2> HIDE DEF r, e
    <2> QED
      BY <1>1, <1>2, <1>4, FollowsOrdered
  <1>5. l.state \in Early <=> l.state # "normal"
    BY DEF Early
  <1>6. CASE p.control = {"SYN", "ACK"}
    <2>1. p.seq = FirstPsn
      BY <1>6 DEF Carried, Carries
    <2>2. l.state \in {"negotiate", "normal"}
      BY <1>6
    <2>3. /\ l.state = "negotiate" => l.delivered = << >>
          /\ l.state = "normal" => Following(l)
      BY DEF Ordered, Early, Met
    <2>4. /\ Sends(r, n) /\ Receives(r, m) /\ Following(r) /\ r.state \in {"normal", "dead"}
          /\ Len(l.delivered) <= Len(r.delivered)
      BY <1>2, <1>6, <2>1, <2>2, <2>3, HandleSynPacket
    <2> QED
      BY <1>3, <2>4
  <1>7. CASE p.control = {"ACK"}
    <2>1. Carries(p, m)
      BY <1>7 DEF Carried
    <2>2. l.state = "normal"
      BY <1>5, <1>7
    <2>3. Following(l)
      BY <2>2 DEF Ordered, Met
    <2>4. Advances(l, r, n, m)
      BY <1>2, <1>7, <2>1, <2>2, <2>3, HandleAckPacket
    <2> QED
      BY <1>3, <2>4 DEF Advances
  <1>8. CASE p.control = {"EAK"} \/ p.control = {"RST"}
    <2>1. Follows(l, r, n) /\ (p.control = {"RST"} => r = Bailout(l))
      BY <1>2, <1>8, HandleOtherPacket
    <2>2. r.state \in {"normal", "dead"}
      <3>1. CASE p.control = {"RST"}
        <4>1. r = Bailout(l)
          BY <2>1, <3>1
        <4> HIDE DEF r
        <4> QED
          BY <1>1, <4>1 DEF Bailout, Links
      <3>2. CASE p.control = {"EAK"}
        <4>1. l.state = "normal"
          BY <1>5, <3>2
        <4> HIDE DEF r
        <4> QED
          BY <2>1, <4>1 DEF Follows, Stays
      <3> QED
        BY <1>8, <3>1, <3>2
    <2>3. Len(l.delivered) <= Len(r.delivered)
      <3>1. l.delivered \in Seq(Nat)
        BY <1>1 DEF Links
      <3>2. Len(l.delivered) \in Nat
        BY <3>1
      <3>3. r.delivered = l.delivered
        BY <2>1, InboundSame DEF Follows
      <3> HIDE DEF r
      <3> QED
        BY <3>2, <3>3
    <2> QED
      BY <1>4, <2>1, <2>2, <2>3
  <1>9. p.control = {"SYN", "ACK"} \/ p.control = {"ACK"} \/ p.control = {"EAK"} \/ p.control = {"RST"}
    BY DEF Carried, Carries
  <1> QED
    BY <1>6, <1>7, <1>8, <1>9

\* What reaches the phone.
LEMMA PhoneReceives ==
  ASSUME NoReuse, NEW n \in Nat, NEW m \in 0 .. MaxChunks, NEW l \in Sound, l.out = << >>,
         Ordered("phone", l, n, m), l.state \in {"detect", "negotiate", "normal"},
         "negotiate" \in l.timers => l.state \in {"negotiate", "dead"},
         NEW p \in Packets, Carried("phone", p, m)
  PROVE  LET r == PhoneHandles(l, p)
         IN /\ r \in Links
            /\ Ordered("phone", Flushed(r), n, m) /\ Only("accessory", r.out, n)
            /\ r.state # "idle"
            /\ "negotiate" \in r.timers => r.state \in {"negotiate", "dead"}
            /\ p.control = {"SYN"} /\ l.state # "normal" =>
                 /\ r.state \in {"negotiate", "dead"}
                 /\ \A i \in DOMAIN r.out : r.out[i].control = {"SYN", "ACK"}
            /\ Len(l.delivered) <= Len(r.delivered)
  <1> DEFINE e == "phone"
             r == PhoneHandles(l, p)
  <1>1. l \in Links /\ e \in Ends /\ Other(e) = "accessory" /\ m \in Nat
    BY TwoEnds, SessionAssumption DEF Sound
  <1>2. Sends(l, n) /\ Receives(l, m) /\ Ordered(e, l, n, m)
    BY DEF Ordered
  <1>0. Len(l.delivered) \in Nat
    <2>1. l.delivered \in Seq(Nat)
      BY <1>1 DEF Links
    <2> QED
      BY <2>1
  <1>3. CASE r = l /\ ~ (p.control = {"SYN"} /\ l.state # "normal")
    <2>1. Follows(l, l, n)
      BY <1>2 DEF Follows, Stays
    <2> HIDE DEF r, e
    <2>2. Ordered(e, Flushed(l), n, m) /\ Only("accessory", l.out, n)
      BY <1>1, <1>2, <2>1, FollowsOrdered
    <2> QED
      BY <1>0, <1>1, <1>3, <2>2 DEF e, r
  <1>4. CASE p.control = {"SYN"} /\ l.state # "normal"
    <2> DEFINE k == [l EXCEPT !.state = "negotiate", !.lastIn = p.seq, !.lastAcked = p.seq]
    <2>1. r = AnswerSyn(k)
      BY <1>4 DEF PhoneHandles
    <2>2. p.seq = FirstPsn /\ p.seq \in Psns
      BY <1>4 DEF Carried, Carries, Packets
    <2>3. /\ k \in Links /\ k.state = "negotiate" /\ k.lastIn = FirstPsn
          /\ k.out = l.out /\ k.queued = l.queued /\ k.sentPsn = l.sentPsn
          /\ k.unacked = l.unacked /\ k.delivered = l.delivered
          /\ k.outOfSequence = l.outOfSequence
      BY <1>1, <2>2 DEF Links, States
    <2> HIDE DEF k, r
    <2>4. l.state \in Early /\ l.delivered = << >>
      BY <1>2, <1>4 DEF Ordered, Early
    <2>5. Ordered(e, k, n, m)
      <3>1. Sends(k, n)
        BY <1>1, <1>2, <2>3, <2>4, SendsKept
      <3>2. Receives(k, m)
        BY <1>2, <2>3 DEF Receives
      <3>3. Following(k)
        <4>1. Len(k.delivered) = 0
          BY <2>3, <2>4
        <4> QED
          BY <2>3, <4>1, PsnFacts DEF Following
      <3> QED
        BY <2>3, <2>4, <3>1, <3>2, <3>3 DEF Ordered
    <2> DEFINE control == {"SYN", "ACK"}
    <2>6. control \in Controls /\ r = Offer(k, control)
      BY <2>1 DEF AnswerSyn, Offer, Controls
    <2> HIDE DEF control, e
    <2>7. /\ r \in Links /\ Ordered(e, Flushed(r), n, m) /\ r.state \in {"negotiate", "dead"}
          /\ r.delivered = k.delivered
          /\ \A i \in DOMAIN r.out : r.out[i].control = control /\ r.out[i].seq = FirstPsn
      <3> DEFINE s == Offer(k, control)
      <3>1. /\ k \in Links /\ k.out = << >> /\ k.state = "negotiate" /\ Ordered(e, k, n, m)
            /\ control \in Controls /\ e \in Ends /\ m \in Nat
        BY <1>1, <2>3, <2>5, <2>6
      <3>2. /\ s \in Links /\ Ordered(e, Flushed(s), n, m) /\ s.state \in {"negotiate", "dead"}
            /\ s.delivered = k.delivered
            /\ \A i \in DOMAIN s.out : s.out[i].control = control /\ s.out[i].seq = FirstPsn
        <4>1. Offered(e, k, s, control, n, m)
          BY <3>1, NegotiateOrders
        <4> HIDE DEF s
        <4> QED
          BY <4>1 DEF Offered
      <3>3. r = s
        BY <2>6
      <3> HIDE DEF s
      <3> QED
        BY <3>2, <3>3
    <2>8. Only("accessory", r.out, n)
      BY <2>7 DEF Only, Carried, control
    <2> QED
      BY <1>0, <2>3, <2>7, <2>8 DEF r, e, control
  <1>5. CASE p.control # {"SYN"} /\ l.state # "detect"
    <2>1. r = HandlePacket(l, p)
      BY <1>5 DEF PhoneHandles
    <2>2. r \in Links
      BY <2>1, HandlePacketSound DEF Sound
    <2> HIDE DEF r, e
    <2>3. p.control = {"ACK"} \/ p.control = {"EAK"}
      BY <1>5 DEF Carried, Carries
    <2>4. CASE p.control = {"ACK"}
      <3>1. Carries(p, m)
        BY <2>4 DEF Carried
      <3>2. l.state \in {"negotiate", "normal"}
        BY <1>5
      <3>3. Following(l)
        BY <1>2, <3>2 DEF Ordered, Met, e
      <3>4. Advances(l, r, n, m)
        BY <1>2, <2>1, <2>4, <3>1, <3>2, <3>3, HandleAckPacket
      <3>5. Ordered(e, Flushed(r), n, m) /\ Only("accessory", r.out, n)
        BY <1>1, <2>2, <3>4, AdvancesOrdered DEF Advances
      <3> QED
        BY <1>5, <2>2, <3>2, <3>4, <3>5 DEF Advances, r, e
    <2>5. CASE p.control = {"EAK"}
      <3>1. Follows(l, r, n)
        BY <1>2, <2>1, <2>5, HandleOtherPacket
      <3>2. Ordered(e, Flushed(r), n, m) /\ Only("accessory", r.out, n)
        BY <1>1, <1>2, <2>2, <3>1, FollowsOrdered
      <3>3. r.delivered = l.delivered
        BY <3>1, InboundSame DEF Follows
      <3> QED
        BY <1>0, <1>5, <2>2, <3>1, <3>2, <3>3 DEF Follows, Stays, r, e
    <2> QED
      BY <2>3, <2>4, <2>5
  <1>6. p.control = {"SYN"} /\ l.state = "normal" => r = l
    BY DEF PhoneHandles
  <1>7. p.control # {"SYN"} /\ l.state = "detect" => r = l
    BY DEF PhoneHandles
  <1> QED
    BY <1>3, <1>4, <1>5, <1>6, <1>7
\* The timers of the accessory.
LEMMA AccessoryFires ==
  ASSUME NEW n \in Nat, NEW m \in Nat, NEW l \in Sound, l.out = << >>,
         Ordered("accessory", l, n, m), NEW t \in Timers
  PROVE  LET r == OnTimer(l, t)
         IN /\ r \in Links /\ Ordered("accessory", Flushed(r), n, m) /\ Only("phone", r.out, n)
            /\ r.state = l.state \/ r.state = "dead"
            /\ l.state # "normal" => \A i \in DOMAIN r.out : r.out[i].control = {"SYN"}
            /\ l.state = "idle" => r.out = << >>
            /\ r.delivered = l.delivered
  <1> DEFINE e == "accessory"
             r == OnTimer(l, t)
  <1>1. l \in Links /\ e \in Ends /\ Other(e) = "phone"
    BY TwoEnds DEF Sound
  <1>2. Sends(l, n) /\ Ordered(e, l, n, m)
    BY DEF Ordered
  <1>3. r \in Links
    <2>1. OnTimer(l, t) \in Sound
      BY TimerSound, TwoEnds
    <2> QED
      BY <2>1 DEF Sound
  <1>4. CASE t # "negotiate"
    <2>1. /\ Follows(l, r, n)
          /\ l.state # "normal" => r = Disarmed(l, "sendAck") \/ r = Disarmed(l, "recvAck")
      <3>1. r = OnSendAckTimer(l) \/ r = OnExpectAckTimer(l)
        <4>1. t = "sendAck" \/ t = "recvAck"
          BY <1>4 DEF Timers
        <4> QED
          BY <4>1 DEF OnTimer
      <3> HIDE DEF r
      <3> QED
        BY <1>2, <3>1, OtherTimersFollow
    <2> HIDE DEF r, e
    <2>2. Ordered(e, Flushed(r), n, m) /\ Only("phone", r.out, n)
      BY <1>1, <1>2, <1>3, <2>1, FollowsOrdered
    <2>3. l.state # "normal" => r.out = << >>
      BY <1>1, <2>1 DEF Disarmed, Links
    <2>4. \A i \in DOMAIN << >> : FALSE
      OBVIOUS
    <2>5. r.delivered = l.delivered
      BY <2>1, InboundSame DEF Follows
    <2> QED
      BY <1>3, <2>1, <2>2, <2>3, <2>4, <2>5 DEF Follows, Stays, r, e
  <1>5. CASE t = "negotiate"
    <2> DEFINE quiet == Disarmed(l, "negotiate")
    <2>1. r = SendNegotiate(quiet)
      BY <1>5 DEF OnTimer, OnNegotiateTimer
    <2>2. /\ quiet \in Links /\ quiet.out = << >> /\ quiet.state = l.state
          /\ Follows(l, quiet, n) /\ quiet.delivered = l.delivered
      <3>1. quiet \in Links /\ Follows(l, quiet, n)
        BY <1>1, <1>2, TimersSound, TimersFollow DEF Timers
      <3> QED
        BY <1>1, <3>1, InboundSame DEF Disarmed, Links, Follows
    <2> HIDE DEF quiet, r, e
    <2>3. Ordered(e, quiet, n, m) /\ Ordered(e, Flushed(quiet), n, m) /\ Only("phone", quiet.out, n)
      BY <1>1, <1>2, <2>2, FollowsOrdered
    <2>4. CASE quiet.state # "negotiate"
      <3>1. r = quiet
        BY <2>1, <2>4 DEF SendNegotiate
      <3>2. \A i \in DOMAIN << >> : FALSE
        OBVIOUS
      <3> QED
        BY <1>3, <2>2, <2>3, <3>1, <3>2 DEF r, e
    <2>5. CASE quiet.state = "negotiate"
      <3> DEFINE control == {"SYN"}
                 s == Offer(quiet, control)
      <3>1. control \in Controls /\ r = s
        BY <2>1, <2>5 DEF SendNegotiate, Offer, Controls
      <3> HIDE DEF control
      <3>2. /\ Ordered(e, Flushed(s), n, m) /\ s.state \in {"negotiate", "dead"}
            /\ s.delivered = quiet.delivered
            /\ \A i \in DOMAIN s.out : s.out[i].control = control /\ s.out[i].seq = FirstPsn
        <4>1. Offered(e, quiet, s, control, n, m)
          BY <1>1, <2>2, <2>3, <2>5, <3>1, NegotiateOrders
        <4> HIDE DEF s
        <4> QED
          BY <4>1 DEF Offered
      <3> HIDE DEF s
      <3>3. Only("phone", r.out, n)
        BY <3>1, <3>2 DEF Only, Carried, control
      <3> QED
        BY <1>3, <2>2, <2>5, <3>1, <3>2, <3>3 DEF r, e, control
    <2> QED
      BY <2>4, <2>5
  <1> QED
    BY <1>4, <1>5

\* Those of the phone, which answers again as long as it negotiates.
LEMMA PhoneFires ==
  ASSUME NEW n \in Nat, NEW m \in Nat, NEW l \in Sound, l.out = << >>,
         Ordered("phone", l, n, m), NEW t \in l.timers, l.state # "dead",
         "negotiate" \in l.timers => l.state \in {"negotiate", "dead"}
  PROVE  LET r == IF t = "negotiate" THEN AnswerSyn(l) ELSE OnTimer(l, t)
         IN /\ r \in Links /\ Ordered("phone", Flushed(r), n, m) /\ Only("accessory", r.out, n)
            /\ r.state = l.state \/ r.state = "dead"
            /\ "negotiate" \in r.timers => r.state \in {"negotiate", "dead"}
            /\ l.state # "normal" =>
                 \A i \in DOMAIN r.out : r.out[i].control = {"SYN", "ACK"}
            /\ l.state = "detect" => r.out = << >>
            /\ r.delivered = l.delivered
  <1> DEFINE e == "phone"
             r == IF t = "negotiate" THEN AnswerSyn(l) ELSE OnTimer(l, t)
  <1>1. l \in Links /\ e \in Ends /\ Other(e) = "accessory" /\ t \in Timers
    BY TwoEnds DEF Sound, Links
  <1>2. Sends(l, n) /\ Ordered(e, l, n, m)
    BY DEF Ordered
  <1>3. r \in Links
    <2>1. (IF e = "phone" /\ t = "negotiate" THEN AnswerSyn(l) ELSE OnTimer(l, t)) \in Sound
      BY <1>1, TimerSound
    <2> QED
      BY <2>1 DEF Sound
  <1>4. CASE t # "negotiate"
    <2>1. /\ Follows(l, r, n)
          /\ l.state # "normal" => r = Disarmed(l, "sendAck") \/ r = Disarmed(l, "recvAck")
      <3>1. r = OnSendAckTimer(l) \/ r = OnExpectAckTimer(l)
        <4>1. t = "sendAck" \/ t = "recvAck"
          BY <1>1, <1>4 DEF Timers
        <4> QED
          BY <1>4, <4>1 DEF OnTimer
      <3> HIDE DEF r
      <3> QED
        BY <1>2, <3>1, OtherTimersFollow
    <2> HIDE DEF r, e
    <2>2. Ordered(e, Flushed(r), n, m) /\ Only("accessory", r.out, n)
      BY <1>1, <1>2, <1>3, <2>1, FollowsOrdered
    <2>3. l.state # "normal" => r.out = << >>
      BY <1>1, <2>1 DEF Disarmed, Links
    <2>4. \A i \in DOMAIN << >> : FALSE
      OBVIOUS
    <2>5. /\ r.state = l.state \/ r.state = "dead"
          /\ "negotiate" \in r.timers => r.state \in {"negotiate", "dead"}
      BY <2>1 DEF Follows, Stays
    <2>6. r.delivered = l.delivered
      BY <2>1, InboundSame DEF Follows
    <2> QED
      BY <1>3, <2>2, <2>3, <2>4, <2>5, <2>6 DEF r, e
  <1>5. CASE t = "negotiate"
    <2>1. l.state = "negotiate"
      BY <1>5
    <2> DEFINE control == {"SYN", "ACK"}
               s == Offer(l, control)
    <2>2. control \in Controls /\ r = s
      BY <1>5 DEF AnswerSyn, Offer, Controls
    <2> HIDE DEF control, e, r
    <2>3. /\ Ordered(e, Flushed(s), n, m) /\ s.state \in {"negotiate", "dead"}
          /\ s.delivered = l.delivered
          /\ \A i \in DOMAIN s.out : s.out[i].control = control /\ s.out[i].seq = FirstPsn
      <3>1. /\ l \in Links /\ l.out = << >> /\ l.state = "negotiate" /\ Ordered(e, l, n, m)
            /\ control \in Controls /\ e \in Ends
        BY <1>1, <1>2, <2>1, <2>2
      <3>2. Offered(e, l, s, control, n, m)
        BY <3>1, NegotiateOrders
      <3> HIDE DEF s
      <3> QED
        BY <3>2 DEF Offered
    <2> HIDE DEF s
    <2>4. Only("accessory", r.out, n)
      BY <2>2, <2>3 DEF Only, Carried, control
    <2> QED
      BY <1>3, <2>1, <2>2, <2>3, <2>4 DEF r, e, control
  <1> QED
    BY <1>4, <1>5

\* start() sends the SYN, or finds the transport gone.
LEMMA AccessoryBegins ==
  ASSUME NEW n \in Nat, NEW m \in Nat, NEW l \in Sound, l.out = << >>,
         Ordered("accessory", l, n, m), l.state = "idle"
  PROVE  LET r == Start(l)
         IN /\ r \in Links /\ Ordered("accessory", Flushed(r), n, m) /\ Only("phone", r.out, n)
            /\ r.state \in {"negotiate", "dead"}
            /\ \A i \in DOMAIN r.out : r.out[i].control = {"SYN"}
            /\ r.delivered = l.delivered
  <1> DEFINE e == "accessory"
             r == Start(l)
             k == [l EXCEPT !.state = "negotiate"]
             control == {"SYN"}
  <1>1. l \in Links /\ e \in Ends /\ Other(e) = "phone"
    BY TwoEnds DEF Sound
  <1>2. Sends(l, n) /\ Ordered(e, l, n, m)
    BY DEF Ordered
  <1>3. CASE ~ l.up
    <2>1. r = Bailout(l)
      BY <1>3 DEF Start
    <2>2. r \in Links /\ r.state = "dead" /\ r.out = << >> /\ Follows(l, r, n)
          /\ r.delivered = l.delivered
      <3>1. Bailout(l) \in Links /\ Follows(l, Bailout(l), n)
        BY <1>1, <1>2, TimersSound, TimersFollow DEF Timers, Sound
      <3> QED
        BY <1>1, <2>1, <3>1 DEF Bailout, Links
    <2> HIDE DEF r, e
    <2>3. Ordered(e, Flushed(r), n, m) /\ Only("phone", r.out, n)
      <3>1. Follows(l, r, n) /\ r \in Links /\ Ordered(e, l, n, m)
        BY <1>2, <2>2
      <3>2. Ordered(e, Flushed(r), n, m) /\ Only(Other(e), r.out, n)
        BY <1>1, <3>1, FollowsOrdered
      <3> QED
        BY <1>1, <3>2
    <2>4. \A i \in DOMAIN << >> : FALSE
      OBVIOUS
    <2> QED
      BY <2>2, <2>3, <2>4 DEF r, e
  <1>4. CASE l.up
    <2>1. /\ k \in Links /\ k.state = "negotiate" /\ k.lastIn = l.lastIn
          /\ k.out = l.out /\ k.queued = l.queued /\ k.sentPsn = l.sentPsn
          /\ k.unacked = l.unacked /\ k.delivered = l.delivered
          /\ k.outOfSequence = l.outOfSequence
      BY <1>1 DEF Links, States
    <2>2. control \in Controls /\ r = Offer(k, control)
      BY <1>4, <2>1 DEF Start, SendNegotiate, Offer, Controls
    <2> HIDE DEF k, r, e, control
    <2>3. Ordered(e, k, n, m)
      <3>1. l.state \in Early
        BY DEF Early
      <3>2. Sends(k, n)
        BY <1>1, <1>2, <2>1, <3>1, SendsKept
      <3>3. Receives(k, m) /\ k.delivered = << >>
        BY <2>1, <3>1 DEF Receives, Ordered
      <3>4. ~ Met(e, k)
        BY <2>1 DEF Met, e
      <3> QED
        BY <3>2, <3>3, <3>4 DEF Ordered
    <2> DEFINE s == Offer(k, control)
    <2>4. /\ s \in Links /\ Ordered(e, Flushed(s), n, m) /\ s.state \in {"negotiate", "dead"}
          /\ s.delivered = k.delivered
          /\ \A i \in DOMAIN s.out : s.out[i].control = control /\ s.out[i].seq = FirstPsn
      <3>1. Offered(e, k, s, control, n, m)
        BY <1>1, <2>1, <2>2, <2>3, NegotiateOrders
      <3> HIDE DEF s
      <3> QED
        BY <3>1 DEF Offered
    <2>5. r = s
      BY <2>2
    <2> HIDE DEF s
    <2>6. Only("phone", r.out, n)
      BY <2>4, <2>5 DEF Only, Carried, control
    <2> QED
      BY <2>1, <2>4, <2>5, <2>6 DEF r, e, control
  <1> QED
    BY <1>3, <1>4

\* An end that resets the link is dead and tells the other.
Died(e, l, r, n, m) ==
  /\ r \in Links /\ Ordered(e, Flushed(r), n, m) /\ Only(Other(e), r.out, n)
  /\ r.state = "dead"
  /\ \A i \in DOMAIN r.out : r.out[i].control = {"RST"}
  /\ r.delivered = l.delivered

\* The phone is so after it has written the RST and bailed out.
LEMMA PhoneDies ==
  ASSUME NEW n \in Nat, NEW m \in Nat, NEW l \in Sound, l.out = << >>, Ordered("phone", l, n, m)
  PROVE  Died("phone", l, Bailout(Write(l, {"RST"}, l.sentPsn, None, {}, NoLsp)), n, m)
  <1> DEFINE e == "phone"
             control == {"RST"}
             packet == Packet(l, control, l.sentPsn, None, {}, NoLsp)
             w == Write(l, control, l.sentPsn, None, {}, NoLsp)
             r == Bailout(w)
  <1>1. l \in Links /\ e \in Ends
    BY TwoEnds DEF Sound
  <1>2. Ordered(e, l, n, m)
    OBVIOUS
  <1>3. w \in Links /\ Wrote(l, w, packet)
    <2>1. l.sentPsn \in Psns
      BY <1>1 DEF Links
    <2>2. control \in Controls /\ None \in Nat /\ {} \in SUBSET Psns /\ NoLsp \in Lsps
      BY DEF Controls, None, NoLsp, Lsp, Lsps
    <2> HIDE DEF control
    <2> QED
      BY <1>1, <2>1, <2>2, WriteFacts
  <1>4. packet.control = control
    BY DEF Packet
  <1> HIDE DEF packet, w, e
  <1>5. /\ w.sentPsn = l.sentPsn /\ w.unacked = l.unacked /\ w.queued = l.queued
        /\ w.lastIn = l.lastIn /\ w.outOfSequence = l.outOfSequence
        /\ w.delivered = l.delivered /\ (w.out = << >> \/ w.out = <<packet>>)
    <2>1. w.out = l.out \/ w.out = Append(l.out, packet)
      BY <1>3 DEF Wrote
    <2> QED
      BY <1>3, <2>1, ListsSame DEF Wrote
  <1>6. /\ r \in Links /\ r.state = "dead" /\ r.out = w.out /\ r.queued = w.queued
        /\ r.sentPsn = w.sentPsn /\ r.unacked = w.unacked /\ r.lastIn = w.lastIn
        /\ r.delivered = w.delivered /\ r.outOfSequence = w.outOfSequence
    <2>1. {} \in SUBSET Timers
      OBVIOUS
    <2> QED
      BY <1>3, <2>1 DEF Bailout, Links, States
  <1> DEFINE f == Flushed(r)
  <1> HIDE DEF r
  <1>7. /\ f \in Links /\ f.out = << >> /\ f.state = r.state /\ f.queued = r.queued
        /\ f.sentPsn = r.sentPsn /\ f.unacked = r.unacked /\ f.lastIn = r.lastIn
        /\ f.delivered = r.delivered /\ f.outOfSequence = r.outOfSequence
    BY <1>6, FlushedSame
  <1> HIDE DEF f
  <1>8. Ordered(e, f, n, m)
    <2>1. Sends(f, n)
      BY <1>1, <1>2, <1>5, <1>6, <1>7, SendsKept DEF Ordered
    <2>2. Receives(f, m)
      BY <1>2, <1>5, <1>6, <1>7 DEF Ordered, Receives
    <2> QED
      BY <1>6, <1>7, <2>1, <2>2 DEF Ordered, Met, Early
  <1>9. \A i \in DOMAIN r.out : r.out[i].control = control
    BY <1>4, <1>5, <1>6
  <1>10. Only("accessory", r.out, n)
    BY <1>9 DEF Only, Carried
  <1> QED
    <2>1. Other(e) = "accessory"
      BY TwoEnds DEF e
    <2>2. Died(e, l, r, n, m)
      BY <1>5, <1>6, <1>8, <1>9, <1>10, <2>1 DEF f, Died, control
    <2> QED
      BY <2>2 DEF r, w, e

\* What OrderInv says of one end before its step.
LEMMA EndFacts ==
  ASSUME SessionInv, OrderInv, NEW e \in Ends
  PROVE  /\ link[e] \in Sound /\ link[e] \in Links /\ link[e].out = << >>
         /\ channel[e] \in Seq(Packets) /\ submitted[e] \in Nat
         /\ submitted[Other(e)] \in 0 .. MaxChunks /\ submitted[Other(e)] \in Nat
         /\ Ordered(e, link[e], submitted[e], submitted[Other(e)])
         /\ Only(e, channel[e], submitted[Other(e)])
  <1>1. Other(e) \in Ends
    BY TwoEnds
  <1> QED
    BY <1>1, SessionAssumption DEF SessionInv, Resting, Sound, OrderInv, EndInv

\* A call that submits nothing.
LEMMA CallOrders ==
  ASSUME SessionInv, OrderInv, SessionInv', UNCHANGED submitted,
         NEW e \in Ends, NEW l \in Links, NEW inbox \in Seq(Packets), Made(e, l, inbox),
         Ordered(e, Flushed(l), submitted[e], submitted[Other(e)]),
         \A i \in DOMAIN inbox : \E j \in DOMAIN channel[e] : inbox[i] = channel[e][j],
         Only(Other(e), l.out, submitted[e])
  PROVE  \A f \in Ends : EndInv(f)'
  <1>1. submitted[e] \in Nat
    BY EndFacts
  <1>2. \A f \in Ends : EndInv(f)
    BY DEF OrderInv
  <1>3. PICK k \in Nat : k = submitted[e]
    BY <1>1
  <1>4. submitted[e] <= k /\ submitted' = [submitted EXCEPT ![e] = k]
    BY <1>3 DEF SessionInv
  <1>5. Ordered(e, Flushed(l), k, submitted[Other(e)]) /\ Only(Other(e), l.out, k)
    BY <1>3
  <1> QED
    BY <1>2, <1>4, <1>5, MadeOrdered

\* The packets that stay on their way when the first one is taken.
LEMMA Rest ==
  ASSUME NEW s \in Seq(Packets), s # << >>
  PROVE  /\ Tail(s) \in Seq(Packets) /\ Head(s) \in Packets /\ Head(s) = s[1] /\ 1 \in DOMAIN s
         /\ \A i \in DOMAIN Tail(s) : \E j \in DOMAIN s : Tail(s)[i] = s[j]
  <1>1. /\ Tail(s) \in Seq(Packets) /\ Head(s) \in Packets /\ Head(s) = s[1] /\ 1 \in DOMAIN s
    OBVIOUS
  <1> DEFINE k == Len(s)
  <1>2. k \in Nat \ {0} /\ DOMAIN s = 1 .. k /\ DOMAIN Tail(s) = 1 .. k - 1
        /\ \A i \in 1 .. k - 1 : Tail(s)[i] = s[i + 1]
    OBVIOUS
  <1> HIDE DEF k
  <1>3. \A i \in 1 .. k - 1 : i + 1 \in 1 .. k
    BY <1>2
  <1> QED
    BY <1>1, <1>2, <1>3

LEMMA ReceiveOrders ==
  ASSUME NoReuse, SessionInv, OrderInv, SessionInv', NEW e \in Ends, Receive(e)
  PROVE  OrderInv' /\ \A f \in Ends : Len(link[f].delivered) <= Len(link'[f].delivered)
  <1> DEFINE p == Head(channel[e])
             inbox == Tail(channel[e])
             l == link[e]
             n == submitted[e]
             m == submitted[Other(e)]
  <1>1. /\ l \in Sound /\ l \in Links /\ l.out = << >> /\ channel[e] \in Seq(Packets)
        /\ n \in Nat /\ m \in 0 .. MaxChunks /\ Ordered(e, l, n, m) /\ Only(e, channel[e], m)
    BY EndFacts
  <1>2. channel[e] # << >> /\ l.state # "dead" /\ UNCHANGED submitted
    BY DEF Receive, CanReceive
  <1>3. /\ inbox \in Seq(Packets) /\ p \in Packets
        /\ \E j \in DOMAIN channel[e] : p = channel[e][j]
        /\ \A i \in DOMAIN inbox : \E j \in DOMAIN channel[e] : inbox[i] = channel[e][j]
    BY <1>1, <1>2, Rest
  <1>4. Carried(e, p, m)
    BY <1>1, <1>3 DEF Only
  <1>5. Shaken(link["accessory"], link["phone"], channel["phone"], channel["accessory"])
    BY DEF OrderInv, Handshake
  <1>6. Handshake
    BY DEF OrderInv
  <1>7. CASE e = "accessory"
    <2> DEFINE r == HandlePacket(l, p)
    <2>1. Made(e, r, inbox) /\ Other(e) = "phone"
      BY <1>7, TwoEnds DEF Receive
    <2>2. /\ l.state \in {"idle", "negotiate", "normal"}
          /\ l.state \in Early => p.control \in {{"SYN", "ACK"}, {"RST"}}
          /\ l.state = "idle" => p.control = {"RST"}
      <3>1. l.state \in States
        BY <1>1 DEF Links
      <3>2. l = link["accessory"] /\ channel[e] = channel["accessory"]
        BY <1>7
      <3> HIDE DEF l, p
      <3> QED
        BY <1>2, <1>3, <1>5, <3>1, <3>2 DEF Shaken, States
    <2>3. r \in Links
      BY <1>1, <1>3, HandlePacketSound DEF Sound
    <2> HIDE DEF l, p, inbox, n, m
    <2>4. /\ Ordered(e, Flushed(r), n, m) /\ Only("phone", r.out, n)
          /\ r.state \in {"normal", "dead"} /\ Len(l.delivered) <= Len(r.delivered)
      BY <1>1, <1>3, <1>4, <1>7, <2>2, AccessoryReceives
    <2> HIDE DEF r
    <2>5. \A f \in Ends : EndInv(f)'
      BY <1>2, <1>3, <2>1, <2>3, <2>4, CallOrders DEF n, m
    <2>6. Handshake'
      <3>1. r.state \notin Early /\ r.state # "detect" /\ r.state # "idle"
        BY <2>4 DEF Early
      <3> QED
        BY <1>3, <1>6, <1>7, <2>1, <2>3, <3>1, AccessoryShaken
    <2>7. \A f \in Ends : Len(link[f].delivered) <= Len(link'[f].delivered)
      BY <2>1, <2>3, <2>4, MadeKeeps DEF l
    <2> QED
      BY <2>5, <2>6, <2>7 DEF OrderInv
  <1>8. CASE e = "phone"
    <2> DEFINE r == PhoneHandles(l, p)
               a == link["accessory"]
    <2>1. Made(e, r, inbox) /\ Other(e) = "accessory"
      BY <1>8, TwoEnds DEF Receive
    <2>2. /\ l.state \in {"detect", "negotiate", "normal"}
          /\ "negotiate" \in l.timers => l.state \in {"negotiate", "dead"}
          /\ a.state \in Early => p.control = {"SYN"} /\ l.state # "normal"
          /\ a.state # "idle"
      <3>1. l.state \in States
        BY <1>1 DEF Links
      <3>2. l = link["phone"] /\ channel[e] = channel["phone"]
        BY <1>8
      <3> HIDE DEF l, p, a
      <3> QED
        BY <1>2, <1>3, <1>5, <3>1, <3>2 DEF Shaken, States, a
    <2> HIDE DEF l, p, inbox, n, m, a
    <2>3. /\ r \in Links
          /\ Ordered(e, Flushed(r), n, m) /\ Only("accessory", r.out, n)
          /\ r.state # "idle"
          /\ "negotiate" \in r.timers => r.state \in {"negotiate", "dead"}
          /\ p.control = {"SYN"} /\ l.state # "normal" =>
               /\ r.state \in {"negotiate", "dead"}
               /\ \A i \in DOMAIN r.out : r.out[i].control = {"SYN", "ACK"}
          /\ Len(l.delivered) <= Len(r.delivered)
      BY <1>1, <1>3, <1>4, <1>8, <2>2, PhoneReceives
    <2> HIDE DEF r
    <2>4. \A f \in Ends : EndInv(f)'
      BY <1>2, <1>3, <2>1, <2>3, CallOrders DEF n, m
    <2>5. Handshake'
      <3>1. a.state \in Early =>
              /\ r.state # "normal"
              /\ \A i \in DOMAIN r.out : r.out[i].control \in {{"SYN", "ACK"}, {"RST"}}
        BY <2>2, <2>3
      <3> QED
        BY <1>3, <1>6, <1>8, <2>1, <2>2, <2>3, <3>1, PhoneShaken DEF a
    <2>6. \A f \in Ends : Len(link[f].delivered) <= Len(link'[f].delivered)
      BY <2>1, <2>3, MadeKeeps DEF l
    <2> QED
      BY <2>4, <2>5, <2>6 DEF OrderInv
  <1> QED
    BY <1>7, <1>8 DEF Ends

LEMMA CorruptOrders ==
  ASSUME SessionInv, OrderInv, NEW e \in Ends, Corrupt(e)
  PROVE  OrderInv' /\ \A f \in Ends : link'[f].delivered = link[f].delivered
  <1> DEFINE inbox == Tail(channel[e])
             o == Other(e)
  <1>1. /\ channel' = [channel EXCEPT ![e] = inbox] /\ link' = link /\ submitted' = submitted
        /\ channel[e] # << >>
    BY DEF Corrupt
  <1>2. channel[e] \in Seq(Packets) /\ DOMAIN channel = Ends
    BY DEF SessionInv
  <1>3. \A i \in DOMAIN inbox : \E j \in DOMAIN channel[e] : inbox[i] = channel[e][j]
    BY <1>1, <1>2, Rest
  <1>4. channel[e] = << >> => inbox = << >>
    BY <1>1
  <1> HIDE DEF inbox
  <1>5. o \in Ends /\ o # e /\ \A f \in Ends : f = e \/ f = o
    BY TwoEnds
  <1> HIDE DEF o
  <1>6. channel'[e] = inbox /\ \A f \in Ends : f # e => channel'[f] = channel[f]
    BY <1>1, <1>2
  <1>7. ASSUME NEW f \in Ends
        PROVE  \A i \in DOMAIN channel'[f] : \E j \in DOMAIN channel[f] : channel'[f][i] = channel[f][j]
    BY <1>3, <1>6
  <1>8. ASSUME NEW f \in Ends PROVE EndInv(f)'
    <2>1. EndInv(f)
      BY DEF OrderInv
    <2>2. Only(f, channel'[f], submitted[Other(f)])
      BY <1>7, <2>1 DEF EndInv, Only
    <2> QED
      BY <1>1, <2>1, <2>2 DEF EndInv
  <1>9. Handshake'
    <2> DEFINE a == link["accessory"]
               p == link["phone"]
    <2>1. Shaken(a, p, channel["phone"], channel["accessory"])
      BY DEF OrderInv, Handshake
    <2>2. channel["phone"] = << >> => channel'["phone"] = << >>
      BY <1>1, <1>6, TwoEnds
    <2>3. /\ \A i \in DOMAIN channel'["phone"] :
               \E j \in DOMAIN channel["phone"] : channel'["phone"][i] = channel["phone"][j]
          /\ \A i \in DOMAIN channel'["accessory"] :
               \E j \in DOMAIN channel["accessory"] :
                 channel'["accessory"][i] = channel["accessory"][j]
      BY <1>7, TwoEnds
    <2> HIDE DEF a, p
    <2>4. Shaken(a, p, channel'["phone"], channel'["accessory"])
      <3>1. PICK x, y, u, v : /\ x = channel["phone"] /\ y = channel["accessory"]
                              /\ u = channel'["phone"] /\ v = channel'["accessory"]
        OBVIOUS
      <3>2. /\ Shaken(a, p, x, y) /\ (x = << >> => u = << >>)
            /\ \A i \in DOMAIN u : \E j \in DOMAIN x : u[i] = x[j]
            /\ \A i \in DOMAIN v : \E j \in DOMAIN y : v[i] = y[j]
        BY <2>1, <2>2, <2>3, <3>1
      <3>3. Shaken(a, p, u, v)
        BY <3>2 DEF Shaken
      <3> QED
        BY <3>1, <3>3
    <2> QED
      BY <1>1, <2>4 DEF Handshake, a, p
  <1> QED
    BY <1>1, <1>8, <1>9 DEF OrderInv
LEMMA SubmitOrders ==
  ASSUME WhenDrained, SessionInv, OrderInv, SessionInv', NEW e \in Ends, Submit(e)
  PROVE  OrderInv' /\ \A f \in Ends : link'[f].delivered = link[f].delivered
  <1> DEFINE l == link[e]
             n == submitted[e]
             m == submitted[Other(e)]
             inbox == channel[e]
  <1>1. /\ l \in Sound /\ l \in Links /\ l.out = << >> /\ inbox \in Seq(Packets)
        /\ n \in Nat /\ m \in 0 .. MaxChunks /\ m \in Nat /\ Ordered(e, l, n, m)
    BY EndFacts
  <1>2. PICK count \in Payloads :
          /\ l.queued = << >> /\ l.state # "dead"
          /\ Made(e, SendSessionData(l, [i \in 1 .. count |-> n + i]), inbox)
          /\ submitted' = [submitted EXCEPT ![e] = n + count]
    <2>1. submitted[e] = n
      OBVIOUS
    <2> QED
      BY DEF Submit
  <1>3. count \in Nat
    BY SessionAssumption
  <1> DEFINE r == SendSessionData(l, [i \in 1 .. count |-> n + i])
             k == n + count
  <1>4. r \in Links
    <2> DEFINE chunks == [i \in 1 .. count |-> n + i]
    <2>1. chunks \in Seq(Nat)
      BY <1>1, <1>3
    <2> HIDE DEF chunks, l
    <2>2. SendSessionData(l, chunks) \in Sound
      BY <1>1, <2>1, SubmitSound
    <2> QED
      BY <2>2 DEF chunks, Sound
  <1>5. k \in Nat /\ n <= k
    BY <1>1, <1>3
  <1>6. Sends(l, n)
    BY <1>1 DEF Ordered
  <1> HIDE DEF l, n, m, inbox
  <1>7. Follows(l, r, k) /\ (l.state # "normal" => r.out = l.out /\ r.state = l.state)
    BY <1>1, <1>2, <1>3, <1>6, SubmitFollows
  <1>8. Made(e, r, inbox) /\ submitted' = [submitted EXCEPT ![e] = k] /\ submitted[e] <= k
    BY <1>2, <1>5 DEF n
  <1> HIDE DEF r, k
  <1>9. Ordered(e, Flushed(r), k, m) /\ Only(Other(e), r.out, k)
    BY <1>1, <1>4, <1>5, <1>7, FollowsOrdered
  <1>10. \A i \in DOMAIN inbox : \E j \in DOMAIN channel[e] : inbox[i] = channel[e][j]
    BY DEF inbox
  <1>11. \A f \in Ends : EndInv(f)'
    <2>1. \A f \in Ends : EndInv(f)
      BY DEF OrderInv
    <2>2. Ordered(e, Flushed(r), k, submitted[Other(e)])
      BY <1>9 DEF m
    <2> QED
      BY <1>1, <1>4, <1>5, <1>8, <1>9, <1>10, <2>1, <2>2, MadeOrdered
  <1>12. r.state = l.state \/ r.state = "dead"
    BY <1>7 DEF Follows, Stays
  <1>13. \A i \in DOMAIN << >> : FALSE
    OBVIOUS
  <1>14. Shaken(link["accessory"], link["phone"], channel["phone"], channel["accessory"]) /\ Handshake
    BY DEF OrderInv, Handshake
  <1>15. Handshake'
    <2>1. CASE e = "accessory"
      <3>1. l = link["accessory"]
        BY <2>1 DEF l
      <3>2. l.state # "detect"
        BY <1>14, <3>1 DEF Shaken
      <3>3. r.state # "detect" /\ (r.state \in Early => r.state = l.state /\ r.out = << >>)
        BY <1>1, <1>7, <1>12, <3>2 DEF Early
      <3>4. r.state = "idle" => r.state = l.state /\ r.out = << >>
        BY <3>3 DEF Early
      <3> QED
        BY <1>4, <1>8, <1>10, <1>13, <1>14, <2>1, <3>1, <3>3, <3>4, AccessoryShaken
    <2>2. CASE e = "phone"
      <3> DEFINE a == link["accessory"]
      <3>1. l = link["phone"]
        BY <2>2 DEF l
      <3>2. /\ l.state # "idle"
            /\ "negotiate" \in l.timers => l.state \in {"negotiate", "dead"}
            /\ a.state \in Early => l.state # "normal"
            /\ a.state = "idle" => l.state \in {"detect", "dead"}
        BY <1>14, <3>1 DEF Shaken
      <3>3. r.state # "idle"
        BY <1>12, <3>2
      <3>4. "negotiate" \in r.timers => r.state \in {"negotiate", "dead"}
        BY <1>7, <3>2 DEF Follows, Stays
      <3>5. a.state \in Early => r.state # "normal" /\ r.out = << >>
        BY <1>1, <1>7, <1>12, <3>2
      <3>6. a.state = "idle" => r.state \in {"detect", "dead"} /\ r.out = << >>
        BY <1>12, <3>2, <3>5 DEF Early
      <3> QED
        BY <1>1, <1>4, <1>8, <1>10, <1>13, <1>14, <2>2, <3>3, <3>4, <3>5, <3>6, PhoneShaken
    <2> QED
      BY <2>1, <2>2 DEF Ends
  <1>16. r.delivered = l.delivered
    BY <1>7, InboundSame DEF Follows
  <1>17. \A f \in Ends : link'[f].delivered = link[f].delivered
    BY <1>4, <1>8, <1>16, MadeKeeps DEF l
  <1> QED
    BY <1>11, <1>15, <1>17 DEF OrderInv

LEMMA FireOrders ==
  ASSUME SessionInv, OrderInv, SessionInv', NEW e \in Ends, NEW t \in Timers, FireTimer(e, t)
  PROVE  OrderInv' /\ \A f \in Ends : link'[f].delivered = link[f].delivered
  <1> DEFINE l == link[e]
             n == submitted[e]
             m == submitted[Other(e)]
             inbox == channel[e]
  <1>1. /\ l \in Sound /\ l \in Links /\ l.out = << >> /\ inbox \in Seq(Packets)
        /\ n \in Nat /\ m \in Nat /\ Ordered(e, l, n, m)
    BY EndFacts
  <1>2. t \in l.timers /\ l.state # "dead" /\ UNCHANGED submitted
    BY DEF FireTimer, CanFire
  <1>3. \A i \in DOMAIN inbox : \E j \in DOMAIN channel[e] : inbox[i] = channel[e][j]
    OBVIOUS
  <1>4. Shaken(link["accessory"], link["phone"], channel["phone"], channel["accessory"]) /\ Handshake
    BY DEF OrderInv, Handshake
  <1>5. \A i \in DOMAIN << >> : FALSE
    OBVIOUS
  <1>6. CASE e = "accessory"
    <2> DEFINE r == OnTimer(l, t)
    <2>1. Made(e, r, inbox) /\ Other(e) = "phone" /\ l = link["accessory"]
      BY <1>6, TwoEnds DEF FireTimer
    <2> HIDE DEF l, n, m, inbox
    <2>2. /\ r \in Links /\ Ordered(e, Flushed(r), n, m) /\ Only("phone", r.out, n)
          /\ r.state = l.state \/ r.state = "dead"
          /\ l.state # "normal" => \A i \in DOMAIN r.out : r.out[i].control = {"SYN"}
          /\ l.state = "idle" => r.out = << >>
          /\ r.delivered = l.delivered
      <3>1. /\ l \in Sound /\ l.out = << >> /\ t \in Timers /\ n \in Nat /\ m \in Nat
            /\ Ordered("accessory", l, n, m)
        BY <1>1, <1>6
      <3> DEFINE w == OnTimer(l, t)
      <3>2. /\ w \in Links /\ Ordered("accessory", Flushed(w), n, m) /\ Only("phone", w.out, n)
            /\ w.state = l.state \/ w.state = "dead"
            /\ l.state # "normal" => \A i \in DOMAIN w.out : w.out[i].control = {"SYN"}
            /\ l.state = "idle" => w.out = << >>
            /\ w.delivered = l.delivered
        BY <3>1, AccessoryFires
      <3>3. r = w
        OBVIOUS
      <3> HIDE DEF w, r
      <3> QED
        BY <1>6, <3>2, <3>3
    <2> HIDE DEF r
    <2>3. \A f \in Ends : EndInv(f)'
      BY <1>1, <1>2, <1>3, <2>1, <2>2, CallOrders DEF n, m
    <2>4. Handshake'
      <3>1. l.state # "detect"
        BY <1>4, <2>1 DEF Shaken
      <3>2. /\ r.state # "detect" /\ (r.state = "idle" => l.state = "idle" /\ r.out = << >>)
            /\ r.state \in Early => l.state \in Early
                                    /\ \A i \in DOMAIN r.out : r.out[i].control = {"SYN"}
        BY <2>2, <3>1 DEF Early
      <3> QED
        BY <1>3, <1>4, <1>6, <2>1, <2>2, <3>2, AccessoryShaken
    <2>5. \A f \in Ends : link'[f].delivered = link[f].delivered
      BY <2>1, <2>2, MadeKeeps DEF l
    <2> QED
      BY <2>3, <2>4, <2>5 DEF OrderInv
  <1>7. CASE e = "phone"
    <2> DEFINE r == IF t = "negotiate" THEN AnswerSyn(l) ELSE OnTimer(l, t)
               a == link["accessory"]
    <2>1. Made(e, r, inbox) /\ Other(e) = "accessory" /\ l = link["phone"]
      BY <1>7, TwoEnds DEF FireTimer
    <2> HIDE DEF l, n, m, inbox, a
    <2>2. /\ l.state # "idle"
          /\ "negotiate" \in l.timers => l.state \in {"negotiate", "dead"}
          /\ a.state \in Early => l.state # "normal"
          /\ a.state = "idle" => l.state = "detect"
      BY <1>2, <1>4, <2>1 DEF Shaken, a
    <2>3. /\ r \in Links /\ Ordered(e, Flushed(r), n, m) /\ Only("accessory", r.out, n)
          /\ r.state = l.state \/ r.state = "dead"
          /\ "negotiate" \in r.timers => r.state \in {"negotiate", "dead"}
          /\ l.state # "normal" =>
               \A i \in DOMAIN r.out : r.out[i].control = {"SYN", "ACK"}
          /\ l.state = "detect" => r.out = << >>
          /\ r.delivered = l.delivered
      BY <1>1, <1>2, <1>7, <2>2, PhoneFires
    <2> HIDE DEF r
    <2>4. \A f \in Ends : EndInv(f)'
      BY <1>1, <1>2, <1>3, <2>1, <2>3, CallOrders DEF n, m
    <2>5. Handshake'
      <3>1. a.state \in Early =>
              /\ r.state # "normal"
              /\ \A i \in DOMAIN r.out : r.out[i].control \in {{"SYN", "ACK"}, {"RST"}}
        BY <2>2, <2>3
      <3>2. a.state = "idle" => /\ r.state \in {"detect", "dead"}
                                /\ \A i \in DOMAIN r.out : r.out[i].control = {"RST"}
        BY <1>5, <2>2, <2>3
      <3>3. r.state # "idle"
        BY <2>2, <2>3
      <3> QED
        BY <1>1, <1>3, <1>4, <1>7, <2>1, <2>3, <3>1, <3>2, <3>3, PhoneShaken DEF a
    <2>6. \A f \in Ends : link'[f].delivered = link[f].delivered
      BY <2>1, <2>3, MadeKeeps DEF l
    <2> QED
      BY <2>4, <2>5, <2>6 DEF OrderInv
  <1> QED
    BY <1>6, <1>7 DEF Ends

LEMMA BeginOrders ==
  ASSUME SessionInv, OrderInv, SessionInv', AccessoryStarts
  PROVE  OrderInv' /\ \A f \in Ends : link'[f].delivered = link[f].delivered
  <1> DEFINE e == "accessory"
             l == link[e]
             n == submitted[e]
             m == submitted[Other(e)]
             inbox == channel[e]
             r == Start(l)
  <1>1. e \in Ends /\ Other(e) = "phone"
    BY TwoEnds
  <1>2. l.state = "idle" /\ Made(e, r, inbox) /\ UNCHANGED submitted
    BY DEF AccessoryStarts
  <1> HIDE DEF e
  <1>3. /\ l \in Sound /\ l \in Links /\ l.out = << >> /\ inbox \in Seq(Packets)
        /\ n \in Nat /\ m \in Nat /\ Ordered(e, l, n, m)
    BY <1>1, EndFacts
  <1>4. \A i \in DOMAIN inbox : \E j \in DOMAIN channel[e] : inbox[i] = channel[e][j]
    OBVIOUS
  <1> HIDE DEF l, n, m, inbox
  <1>5. /\ r \in Links /\ Ordered(e, Flushed(r), n, m) /\ Only("phone", r.out, n)
        /\ r.state \in {"negotiate", "dead"}
        /\ \A i \in DOMAIN r.out : r.out[i].control = {"SYN"}
        /\ r.delivered = l.delivered
    BY <1>2, <1>3, AccessoryBegins DEF e
  <1> HIDE DEF r
  <1>6. \A f \in Ends : EndInv(f)'
    BY <1>1, <1>2, <1>3, <1>4, <1>5, CallOrders DEF n, m
  <1>7. Handshake'
    <2>1. l.state \in Early /\ r.state # "detect" /\ r.state # "idle"
      BY <1>2, <1>5 DEF Early
    <2>2. Handshake
      BY DEF OrderInv
    <2> QED
      BY <1>2, <1>4, <1>5, <2>1, <2>2, AccessoryShaken DEF e, l
  <1>8. \A f \in Ends : link'[f].delivered = link[f].delivered
    BY <1>1, <1>2, <1>5, MadeKeeps DEF l
  <1> QED
    BY <1>6, <1>7, <1>8 DEF OrderInv

LEMMA ResetOrders ==
  ASSUME SessionInv, OrderInv, SessionInv', PhoneResets
  PROVE  OrderInv' /\ \A f \in Ends : link'[f].delivered = link[f].delivered
  <1> DEFINE e == "phone"
             l == link[e]
             n == submitted[e]
             m == submitted[Other(e)]
             inbox == channel[e]
             r == Bailout(Write(l, {"RST"}, l.sentPsn, None, {}, NoLsp))
  <1>1. e \in Ends /\ Other(e) = "accessory"
    BY TwoEnds
  <1>2. Made(e, r, inbox) /\ UNCHANGED submitted
    BY DEF PhoneResets
  <1> HIDE DEF e
  <1>3. /\ l \in Sound /\ l \in Links /\ l.out = << >> /\ inbox \in Seq(Packets)
        /\ n \in Nat /\ m \in Nat /\ Ordered(e, l, n, m)
    BY <1>1, EndFacts
  <1>4. \A i \in DOMAIN inbox : \E j \in DOMAIN channel[e] : inbox[i] = channel[e][j]
    OBVIOUS
  <1> HIDE DEF l, n, m, inbox
  <1>5. /\ r \in Links /\ Ordered(e, Flushed(r), n, m) /\ Only("accessory", r.out, n)
        /\ r.state = "dead"
        /\ \A i \in DOMAIN r.out : r.out[i].control = {"RST"}
        /\ r.delivered = l.delivered
    <2>1. Ordered("phone", l, n, m)
      BY <1>3 DEF e
    <2>2. Died("phone", l, r, n, m)
      BY <1>3, <2>1, PhoneDies
    <2> HIDE DEF r
    <2>3. Died(e, l, r, n, m)
      BY <2>2 DEF e
    <2> QED
      BY <1>1, <2>3 DEF Died
  <1> HIDE DEF r
  <1>6. \A f \in Ends : EndInv(f)'
    BY <1>1, <1>2, <1>3, <1>4, <1>5, CallOrders DEF n, m
  <1>7. Handshake'
    <2>1. Handshake
      BY DEF OrderInv
    <2> QED
      BY <1>2, <1>3, <1>4, <1>5, <2>1, PhoneShaken DEF e
  <1>8. \A f \in Ends : link'[f].delivered = link[f].delivered
    BY <1>1, <1>2, <1>5, MadeKeeps DEF l
  <1> QED
    BY <1>6, <1>7, <1>8 DEF OrderInv

LEMMA FailOrders ==
  ASSUME SessionInv, OrderInv, TransportFails
  PROVE  OrderInv' /\ \A f \in Ends : link'[f].delivered = link[f].delivered
  <1> DEFINE l == link["accessory"]
             r == [l EXCEPT !.up = FALSE]
  <1>1. l \in Links
    BY EndFacts, TwoEnds
  <1>2. /\ link' = [link EXCEPT !["accessory"] = r] /\ channel' = channel /\ submitted' = submitted
        /\ DOMAIN link = Ends
    BY DEF TransportFails, SessionInv
  <1> HIDE DEF l
  <1>3. /\ r.state = l.state /\ r.out = l.out /\ r.queued = l.queued
        /\ r.sentPsn = l.sentPsn /\ r.unacked = l.unacked /\ r.lastIn = l.lastIn
        /\ r.delivered = l.delivered /\ r.outOfSequence = l.outOfSequence
    BY <1>1 DEF Links
  <1> HIDE DEF r
  <1>4. link'["accessory"] = r /\ link'["phone"] = link["phone"]
    BY <1>2 DEF Ends
  <1>5. \A e, n, m : Ordered(e, l, n, m) => Ordered(e, r, n, m)
    BY <1>3 DEF Ordered, Sends, InLine, Receives, Met, Following
  <1>6. \A p, x, y : Shaken(l, p, x, y) => Shaken(r, p, x, y)
    BY <1>3 DEF Shaken
  <1>7. EndInv("accessory")' /\ EndInv("phone")'
    BY <1>2, <1>4, <1>5, TwoEnds DEF OrderInv, EndInv, l
  <1>8. Handshake'
    BY <1>2, <1>4, <1>6 DEF OrderInv, Handshake, l
  <1> QED
    BY <1>3, <1>4, <1>7, <1>8 DEF OrderInv, Ends, l
LEMMA InitOrders == Init => OrderInv
  <1> SUFFICES ASSUME Init PROVE OrderInv
    OBVIOUS
  <1>1. ASSUME NEW l, NEW lsp, l = NewLink(lsp) \/ l = [NewLink(lsp) EXCEPT !.state = "detect"]
        PROVE  /\ l.out = << >> /\ l.unacked = << >> /\ l.queued = << >> /\ l.delivered = << >>
               /\ l.outOfSequence = << >> /\ l.sentPsn = FirstPsn /\ l.timers = {}
    BY <1>1 DEF NewLink
  <1>2. /\ link["accessory"] = NewLink(OwnLsp)
        /\ link["phone"] = [NewLink(PhoneLsp) EXCEPT !.state = "detect"]
    BY DEF Init, Ends
  <1>3. ASSUME NEW e \in Ends
        PROVE  /\ link[e].out = << >> /\ link[e].unacked = << >> /\ link[e].queued = << >>
               /\ link[e].delivered = << >> /\ link[e].outOfSequence = << >>
               /\ link[e].sentPsn = FirstPsn /\ link[e].timers = {}
    BY <1>1, <1>2 DEF Ends
  <1>4. /\ link["accessory"].state = "idle" /\ link["phone"].state = "detect"
        /\ \A e \in Ends : channel[e] = << >> /\ submitted[e] = 0
    BY <1>2 DEF NewLink, Init
  <1>5. ASSUME NEW e \in Ends PROVE EndInv(e)
    <2> DEFINE l == link[e]
    <2>1. /\ l.out = << >> /\ l.unacked = << >> /\ l.queued = << >> /\ l.delivered = << >>
          /\ l.outOfSequence = << >> /\ l.sentPsn = FirstPsn
      BY <1>3
    <2>2. l.state \in {"idle", "detect"} /\ Other(e) \in Ends
      BY <1>4, TwoEnds DEF Ends
    <2> HIDE DEF l
    <2>3. DOMAIN << >> = {} /\ Len(<< >>) = 0
      OBVIOUS
    <2>4. Sends(l, 0)
      <3>1. l.queued = << >> /\ DOMAIN l.queued = {}
        BY <2>1, <2>3
      <3>2. InLine(l, 0)
        <4> DEFINE sent == 0 - Len(l.queued)
        <4>1. sent = 0
          <5>1. Len(<< >>) = 0 /\ l.queued = << >>
            BY <3>1
          <5>2. Len(l.queued) = 0
            BY <5>1
          <5> DEFINE length == Len(l.queued)
          <5>3. length = 0 /\ sent = 0 - length
            BY <5>2
          <5> HIDE DEF length, sent
          <5> QED
            BY <5>3
        <4>2. l.sentPsn = Psn(0)
          BY <2>1, PsnFacts
        <4> HIDE DEF sent
        <4>3. /\ sent \in Nat /\ l.sentPsn = Psn(sent)
              /\ \A i \in DOMAIN l.queued : l.queued[i] = sent + i
          BY <3>1, <4>1, <4>2
        <4> QED
          BY <4>1, <4>3 DEF InLine, sent
      <3>3. DOMAIN l.out = {} /\ DOMAIN l.unacked = {}
        BY <2>1, <2>3
      <3> QED
        BY <3>2, <3>3 DEF Sends
    <2>5. Receives(l, 0)
      BY <2>1, <2>3 DEF Receives
    <2>6. Ordered(e, l, 0, 0)
      BY <2>1, <2>2, <2>4, <2>5 DEF Ordered, Met
    <2>7. Only(e, << >>, 0)
      BY <2>3 DEF Only
    <2> QED
      BY <1>4, <2>2, <2>6, <2>7 DEF EndInv, l
  <1>6. Handshake
    <2>1. link["phone"].timers = {} /\ channel["phone"] = << >> /\ channel["accessory"] = << >>
      BY <1>3, <1>4, TwoEnds
    <2>2. \A i \in DOMAIN << >> : FALSE
      OBVIOUS
    <2> QED
      BY <1>4, <2>1, <2>2 DEF Handshake, Shaken
  <1> QED
    BY <1>5, <1>6 DEF OrderInv

LEMMA StepOrders ==
  ASSUME WhenDrained, NoReuse, SessionInv, OrderInv, [Next]_vars
  PROVE  OrderInv'
  <1>1. SessionInv'
    BY StepSound
  <1>2. CASE UNCHANGED vars
    <2>1. link' = link /\ channel' = channel /\ submitted' = submitted
      BY <1>2 DEF vars
    <2> QED
      BY <2>1 DEF OrderInv, Handshake, EndInv
  <1>3. CASE AccessoryStarts
    BY <1>1, <1>3, BeginOrders
  <1>4. ASSUME NEW e \in Ends, Receive(e) PROVE OrderInv'
    BY <1>1, <1>4, ReceiveOrders
  <1>5. ASSUME NEW e \in Ends, Corrupt(e) PROVE OrderInv'
    BY <1>5, CorruptOrders
  <1>6. ASSUME NEW e \in Ends, Submit(e) PROVE OrderInv'
    BY <1>1, <1>6, SubmitOrders
  <1>7. ASSUME NEW e \in Ends, NEW t \in Timers, FireTimer(e, t) PROVE OrderInv'
    BY <1>1, <1>7, FireOrders
  <1>8. CASE PhoneResets
    BY <1>1, <1>8, ResetOrders
  <1>9. CASE TransportFails
    BY <1>9, FailOrders
  <1> QED
    BY <1>2, <1>3, <1>4, <1>5, <1>6, <1>7, <1>8, <1>9 DEF Next

\* The inductive invariant of the order of a session.
THEOREM OrderInvariant ==
  ASSUME WhenDrained, NoReuse
  PROVE  Spec => [](SessionInv /\ OrderInv)
  <1>1. Init => SessionInv /\ OrderInv
    BY InitSound, InitOrders
  <1>2. SessionInv /\ OrderInv /\ [Next]_vars => (SessionInv /\ OrderInv)'
    BY StepSound, StepOrders
  <1> QED
    BY <1>1, <1>2, PTL DEF Spec

\* What comes out of either end is the first of what went into the other, each
\* chunk once and in order: whatever is lost on the way, whichever timers fire,
\* whether the phone resets or the transport fails.  Callers submit only while
\* nothing is queued, and no number is used twice.
THEOREM SessionConcatenates ==
  ASSUME WhenDrained, NoReuse
  PROVE  Spec => []Concatenated
  <1>1. SessionInv /\ OrderInv => Concatenated
    BY DEF OrderInv, EndInv, Ordered, Receives, Concatenated
  <1> QED
    BY <1>1, OrderInvariant, PTL
-----------------------------------------------------------------------------
(* A session is a stream in each direction (Iap2Stream).                      *)

\* n chunks went in, d came out.
Streams(n, d) == /\ n \in Nat /\ d \in Seq(Nat) /\ Len(d) <= n
                 /\ \A i \in DOMAIN d : d[i] = i

\* d, and the chunks behind it up to the k-th.
Extended(d, k) == d \o [i \in 1 .. k - Len(d) |-> Len(d) + i]

\* The chunks that come out in one step, or the payload that goes in.
LEMMA StreamStep ==
  ASSUME NEW a, NEW d, NEW x, Streams(a, d), Streams(a, x), Len(d) <= Len(x), x # d
  PROVE  \E k \in Len(d) + 1 .. a : x = Extended(d, k)
  <1> DEFINE q == Len(d)
             k == Len(x)
             s == [i \in 1 .. k - q |-> q + i]
  <1>0. /\ a \in Nat /\ d \in Seq(Nat) /\ x \in Seq(Nat) /\ Len(x) <= a
        /\ \A i \in DOMAIN d : d[i] = i
        /\ \A i \in DOMAIN x : x[i] = i
    BY DEF Streams
  <1>1. q \in Nat /\ k \in Nat /\ DOMAIN d = 1 .. q /\ DOMAIN x = 1 .. k /\ q <= k /\ k <= a
    BY <1>0
  <1>2. x = [i \in 1 .. k |-> i]
    BY <1>0
  <1>3. d = [i \in 1 .. q |-> i]
    BY <1>0
  <1>4. /\ k - q \in Nat /\ s \in Seq(Nat) /\ Len(s) = k - q
        /\ \A i \in 1 .. k - q : s[i] = q + i
    <2> HIDE DEF q, k
    <2> QED
      BY <1>1
  <1> DEFINE r == d \o s
  <1>5. /\ r \in Seq(Nat) /\ Len(r) = q + Len(s)
        /\ \A i \in 1 .. q + Len(s) : r[i] = IF i <= q THEN d[i] ELSE s[i - q]
    <2> HIDE DEF s
    <2> QED
      BY <1>0, <1>4, Joined
  <1>6. q # k
    BY <1>2, <1>3
  <1> HIDE DEF s, r, q, k
  <1>7. q + Len(s) = k
    BY <1>1, <1>4
  <1>8. DOMAIN r = 1 .. k
    BY <1>1, <1>5, <1>7
  <1>9. ASSUME NEW i \in 1 .. k PROVE r[i] = i
    <2>1. CASE i <= q
      <3>1. i \in 1 .. q
        BY <1>1, <2>1
      <3>2. d[i] = i
        BY <1>0, <1>1, <3>1
      <3> QED
        BY <1>5, <1>7, <2>1, <3>2
    <2>2. CASE ~ (i <= q)
      <3>1. i - q \in 1 .. k - q /\ q + (i - q) = i
        BY <1>1, <2>2
      <3>2. s[i - q] = i
        BY <1>4, <3>1
      <3> QED
        BY <1>5, <1>7, <2>2, <3>2
    <2> QED
      BY <2>1, <2>2
  <1>10. r = [i \in 1 .. k |-> i]
    <2>1. r = [i \in 1 .. Len(r) |-> r[i]] /\ Len(r) = k
      BY <1>5, <1>7
    <2> QED
      BY <1>9, <2>1
  <1>11. x = r
    BY <1>2, <1>10
  <1>12. k \in q + 1 .. a
    BY <1>1, <1>6
  <1> QED
    BY <1>11, <1>12 DEF r, s, q, k, Extended

\* What a step does to the direction from e.
LEMMA StepStreams ==
  ASSUME WhenDrained, NoReuse, SessionInv, OrderInv, [Next]_vars, NEW e \in Ends
  PROVE  LET d == link[Other(e)].delivered
         IN \/ submitted'[e] = submitted[e] /\ Len(d) <= Len(link'[Other(e)].delivered)
            \/ submitted'[e] > submitted[e] /\ link'[Other(e)].delivered = d
  <1> DEFINE o == Other(e)
  <1>1. SessionInv' /\ o \in Ends
    BY StepSound, TwoEnds
  <1>2. Len(link[o].delivered) \in Nat
    <2>1. link[o].delivered \in Seq(Nat)
      BY <1>1 DEF SessionInv, Resting, Sound, Links
    <2> QED
      BY <2>1
  <1>3. CASE submitted' = submitted /\ \A f \in Ends : link'[f].delivered = link[f].delivered
    BY <1>1, <1>2, <1>3
  <1>4. CASE submitted' = submitted /\ \A f \in Ends : Len(link[f].delivered) <= Len(link'[f].delivered)
    BY <1>1, <1>4
  <1>5. CASE UNCHANGED vars
    BY <1>3, <1>5 DEF vars
  <1>6. CASE AccessoryStarts
    BY <1>1, <1>3, <1>6, BeginOrders DEF AccessoryStarts
  <1>7. ASSUME NEW f \in Ends, Receive(f) PROVE submitted' = submitted /\ \A g \in Ends : Len(link[g].delivered) <= Len(link'[g].delivered)
    BY <1>1, <1>7, ReceiveOrders DEF Receive
  <1>8. ASSUME NEW f \in Ends, Corrupt(f) PROVE submitted' = submitted /\ \A g \in Ends : link'[g].delivered = link[g].delivered
    BY <1>8, CorruptOrders DEF Corrupt
  <1>9. ASSUME NEW f \in Ends, NEW t \in Timers, FireTimer(f, t)
        PROVE  submitted' = submitted /\ \A g \in Ends : link'[g].delivered = link[g].delivered
    BY <1>1, <1>9, FireOrders DEF FireTimer
  <1>10. CASE PhoneResets
    BY <1>1, <1>3, <1>10, ResetOrders DEF PhoneResets
  <1>11. CASE TransportFails
    BY <1>3, <1>11, FailOrders DEF TransportFails
  <1>12. ASSUME NEW f \in Ends, Submit(f)
         PROVE  \/ submitted'[e] = submitted[e] /\ Len(link[o].delivered) <= Len(link'[o].delivered)
                \/ submitted'[e] > submitted[e] /\ link'[o].delivered = link[o].delivered
    <2>1. link'[o].delivered = link[o].delivered
      BY <1>1, <1>12, SubmitOrders
    <2>2. PICK n \in Payloads : submitted' = [submitted EXCEPT ![f] = @ + n]
      BY <1>12 DEF Submit
    <2>3. n \in Nat /\ submitted[e] \in Nat
      BY SessionAssumption DEF SessionInv
    <2>4. submitted'[e] = submitted[e] \/ submitted'[e] = submitted[e] + n
      BY <2>2 DEF SessionInv
    <2> QED
      BY <1>2, <2>1, <2>3, <2>4
  <1> QED
    BY <1>5, <1>6, <1>7, <1>8, <1>9, <1>10, <1>11, <1>12, <1>3, <1>4 DEF Next

\* One step of the session is one of the stream, or none.
LEMMA StepDelivers ==
  ASSUME WhenDrained, NoReuse, SessionInv, OrderInv, [Next]_vars, NEW e \in Ends,
         NEW d, NEW x, d = link[Other(e)].delivered, x = link'[Other(e)].delivered,
         NEW a, NEW b, a = submitted[e], b = submitted'[e]
  PROVE  \/ b \in Nat /\ b > a /\ x = d
         \/ /\ \E k \in Len(d) + 1 .. a : x = Extended(d, k)
            /\ b = a
         \/ b = a /\ x = d
  <1>1. SessionInv' /\ OrderInv' /\ Other(e) \in Ends /\ Other(Other(e)) = e
    BY StepSound, StepOrders, TwoEnds
  <1> DEFINE o == Other(e)
  <1>2. Streams(submitted[e], d)
    <2>1. Receives(link[o], submitted[e])
      BY <1>1 DEF OrderInv, EndInv, Ordered
    <2>2. submitted[e] \in Nat /\ link[o].delivered \in Seq(Nat)
      BY <1>1, SessionAssumption DEF SessionInv, Resting, Sound, Links
    <2> QED
      BY <2>1, <2>2 DEF Receives, Streams
  <1>3. Streams(submitted'[e], x)
    <2>1. Receives(link'[o], submitted'[e])
      BY <1>1 DEF OrderInv, EndInv, Ordered
    <2>2. submitted'[e] \in Nat /\ link'[o].delivered \in Seq(Nat)
      BY <1>1, SessionAssumption DEF SessionInv, Resting, Sound, Links
    <2> QED
      BY <2>1, <2>2 DEF Receives, Streams
  <1>4. \/ submitted'[e] = submitted[e] /\ Len(d) <= Len(x)
        \/ submitted'[e] > submitted[e] /\ x = d
    BY StepStreams
  <1>5. /\ Streams(a, d) /\ Streams(b, x)
        /\ (b = a /\ Len(d) <= Len(x)) \/ (b > a /\ x = d)
    BY <1>2, <1>3, <1>4
  <1>6. \/ b \in Nat /\ b > a /\ x = d
        \/ /\ \E k \in Len(d) + 1 .. a :
                x = Extended(d, k)
           /\ b = a
        \/ b = a /\ x = d
    <2>1. CASE b = a /\ Len(d) <= Len(x) /\ x # d
      <3>1. \E k \in Len(d) + 1 .. a : x = Extended(d, k)
        <4>1. Streams(a, d) /\ Streams(a, x) /\ Len(d) <= Len(x) /\ x # d
          BY <1>5, <2>1
        <4> QED
          BY <4>1, StreamStep
      <3> QED
        BY <2>1, <3>1
    <2>2. CASE ~ (b = a /\ Len(d) <= Len(x) /\ x # d)
      <3>1. a \in Nat /\ b \in Nat
        BY <1>5 DEF Streams
      <3> QED
        BY <1>5, <2>2, <3>1
    <2> QED
      BY <2>1, <2>2
  <1> QED
    BY <1>6

\* Each direction of a session is an in-order stream of the chunks submitted,
\* though packets are lost and sent again: what Iap2Stream promises, with the
\* chunks the sender submitted as those it accepts.
THEOREM SessionStreams ==
  ASSUME WhenDrained, NoReuse
  PROVE  Spec => InOrder
  <1>1. Init => ToPhone!Init /\ ToAccessory!Init
    BY TwoEnds DEF Init, ToPhone!Init, ToAccessory!Init, NewLink
  <1>2. SessionInv /\ OrderInv /\ [Next]_vars =>
          [ToPhone!Submit \/ ToPhone!Deliver]_<<submitted["accessory"], link["phone"].delivered>>
    <2> SUFFICES ASSUME SessionInv, OrderInv, [Next]_vars
                 PROVE  [ToPhone!Submit \/ ToPhone!Deliver]_<<submitted["accessory"], link["phone"].delivered>>
      OBVIOUS
    <2>1. PICK d, x, a, b : /\ d = link["phone"].delivered /\ x = link["phone"].delivered'
                            /\ a = submitted["accessory"] /\ b = submitted["accessory"]'
      OBVIOUS
    <2>2. \/ b \in Nat /\ b > a /\ x = d
          \/ /\ \E k \in Len(d) + 1 .. a : x = Extended(d, k)
             /\ b = a
          \/ b = a /\ x = d
      <3> DEFINE e == "accessory"
      <3>1. /\ e \in Ends /\ Other(e) = "phone" /\ a = submitted[e] /\ b = submitted'[e]
            /\ x = link'["phone"].delivered
        BY <2>1, TwoEnds
      <3> HIDE DEF e
      <3>2. d = link[Other(e)].delivered /\ x = link'[Other(e)].delivered
        BY <2>1, <3>1
      <3> QED
        BY <3>1, <3>2, StepDelivers
    <2>3. CASE b \in Nat /\ b > a /\ x = d
      BY <2>1, <2>3 DEF ToPhone!Submit
    <2>4. CASE /\ \E k \in Len(d) + 1 .. a : x = Extended(d, k)
               /\ b = a
      BY <2>1, <2>4 DEF ToPhone!Deliver, Extended
    <2>5. CASE b = a /\ x = d
      BY <2>1, <2>5
    <2> QED
      BY <2>2, <2>3, <2>4, <2>5
  <1>3. SessionInv /\ OrderInv /\ [Next]_vars =>
          [ToAccessory!Submit \/ ToAccessory!Deliver]_<<submitted["phone"], link["accessory"].delivered>>
    <2> SUFFICES ASSUME SessionInv, OrderInv, [Next]_vars
                 PROVE  [ToAccessory!Submit \/ ToAccessory!Deliver]_<<submitted["phone"], link["accessory"].delivered>>
      OBVIOUS
    <2>1. PICK d, x, a, b : /\ d = link["accessory"].delivered /\ x = link["accessory"].delivered'
                            /\ a = submitted["phone"] /\ b = submitted["phone"]'
      OBVIOUS
    <2>2. \/ b \in Nat /\ b > a /\ x = d
          \/ /\ \E k \in Len(d) + 1 .. a : x = Extended(d, k)
             /\ b = a
          \/ b = a /\ x = d
      <3> DEFINE e == "phone"
      <3>1. /\ e \in Ends /\ Other(e) = "accessory" /\ a = submitted[e] /\ b = submitted'[e]
            /\ x = link'["accessory"].delivered
        BY <2>1, TwoEnds
      <3> HIDE DEF e
      <3>2. d = link[Other(e)].delivered /\ x = link'[Other(e)].delivered
        BY <2>1, <3>1
      <3> QED
        BY <3>1, <3>2, StepDelivers
    <2>3. CASE b \in Nat /\ b > a /\ x = d
      BY <2>1, <2>3 DEF ToAccessory!Submit
    <2>4. CASE /\ \E k \in Len(d) + 1 .. a : x = Extended(d, k)
               /\ b = a
      BY <2>1, <2>4 DEF ToAccessory!Deliver, Extended
    <2>5. CASE b = a /\ x = d
      BY <2>1, <2>5
    <2> QED
      BY <2>2, <2>3, <2>4, <2>5
  <1> QED
    BY <1>1, <1>2, <1>3, OrderInvariant, PTL DEF Spec, InOrder, ToPhone!Spec, ToAccessory!Spec
-----------------------------------------------------------------------------
(* What is acknowledged.  The numbers in the acknowledgements stand for what  *)
(* the writer had delivered, and never fall; an end forgets a packet only     *)
(* when such a number has passed it, if the window that the phone dictates    *)
(* fits into what handleAck takes for a number ahead of the acknowledgement.  *)

FitsWindow == PhoneLsp.maxOutgoing + 1 <= PhoneLsp.maxAck + Slack

Retransmits == PhoneLsp.maxRetransmissions > 0

\* The chunk that a number stands for; 0 is the SYN.
ChunkOf(psn) == CHOOSE k \in 0 .. MaxChunks : Psn(k) = psn

\* The number is that of one of the chunks lo .. hi.
Acking(psn, lo, hi) == psn = Psn(ChunkOf(psn)) /\ ChunkOf(psn) \in lo .. hi

Acks(q) == {i \in DOMAIN q : "ACK" \in q[i].control}

\* No acknowledgement takes back what the one before it acknowledged.
Rising(q, lo, hi) ==
  /\ \A i \in Acks(q) : Acking(q[i].ack, lo, hi)
  /\ \A i, j \in Acks(q) : i <= j => ChunkOf(q[i].ack) <= ChunkOf(q[j].ack)

\* The packets that a link will send again.
Due(l) == {l.due[i] : i \in DOMAIN l.due}

\* Of the s chunks sent the first a are acknowledged; the others, as many as
\* the window and one at most, have a deadline.
Windowed(l, s, a) ==
  Retransmits => /\ a \in 0 .. s /\ l.lastSentAcked = Psn(a) /\ s - a <= PhoneLsp.maxOutgoing + 1
                 /\ \A c \in a + 1 .. s : Psn(c) \in Due(l)

\* A link that has sent s chunks, and had delivered d when its call began.
Spoken(l, s, d) ==
  /\ l.lsp = PhoneLsp /\ l.sentPsn = Psn(s)
  /\ Following(l) /\ d <= Len(l.delivered) /\ Len(l.delivered) <= MaxChunks
  /\ \A i \in DOMAIN l.out : Carries(l.out[i], s)
  /\ Rising(l.out, d, Len(l.delivered))

Sent(l, n) == n - Len(l.queued)

\* No packet is kept that was not sent.
Recent(l, s) == \A psn \in Due(l) : \E c \in 1 .. s : psn = Psn(c)

\* The chunks queued are those that follow the first s.
Behind(l, s) == \A i \in DOMAIN l.queued : l.queued[i] = s + i

\* A link that submitted n chunks; before the call it had sent b, delivered d
\* and knew of a that were acknowledged.
Careful(l, n, b, d, a) ==
  l.state # "dead" => LET s == Sent(l, n)
                      IN /\ s \in Nat /\ b <= s /\ Behind(l, s) /\ Recent(l, s)
                         /\ Spoken(l, s, d) /\ Windowed(l, s, a)
-----------------------------------------------------------------------------
LEMMA Distances ==
  ASSUME NoReuse
  PROVE  /\ \A c, d \in 0 .. MaxChunks : d <= c => Distance(Psn(c), Psn(d)) = c - d
         /\ \A c, d \in 0 .. MaxChunks : Psn(c) = Psn(d) => c = d
         /\ \A k \in 0 .. MaxChunks : ChunkOf(Psn(k)) = k
  <1>1. PsnMod \in Nat \ {0} /\ FirstPsn \in 0 .. PsnMod - 1 /\ MaxChunks \in Nat
        /\ MaxChunks < PsnMod
    BY PsnAssumption, SessionAssumption DEF NoReuse
  <1>2. \A x \in Int : /\ x = (PsnMod * (x \div PsnMod)) + (x % PsnMod)
                       /\ x % PsnMod \in 0 .. PsnMod - 1 /\ x \div PsnMod \in Int
    BY <1>1
  <1>3. ASSUME NEW c \in 0 .. MaxChunks
        PROVE  \E p \in Int : FirstPsn + c = (PsnMod * p) + Psn(c) /\ Psn(c) \in 0 .. PsnMod - 1
    <2> DEFINE x == FirstPsn + c
    <2>1. x \in Int /\ Psn(c) = x % PsnMod
      BY <1>1 DEF Psn
    <2> HIDE DEF x
    <2>2. /\ x = (PsnMod * (x \div PsnMod)) + (x % PsnMod)
          /\ x % PsnMod \in 0 .. PsnMod - 1 /\ x \div PsnMod \in Int
      BY <1>2, <2>1
    <2>3. x = (PsnMod * (x \div PsnMod)) + Psn(c) /\ Psn(c) \in 0 .. PsnMod - 1
      BY <2>1, <2>2
    <2> QED
      BY <2>2, <2>3 DEF x
  <1>4. ASSUME NEW c \in 0 .. MaxChunks, NEW d \in 0 .. MaxChunks, d <= c
        PROVE  Distance(Psn(c), Psn(d)) = c - d
    <2>1. PICK p \in Int : FirstPsn + c = (PsnMod * p) + Psn(c) /\ Psn(c) \in 0 .. PsnMod - 1
      BY <1>3
    <2>2. PICK q \in Int : FirstPsn + d = (PsnMod * q) + Psn(d) /\ Psn(d) \in 0 .. PsnMod - 1
      BY <1>3
    <2> DEFINE y == Psn(c) - Psn(d)
               r == y \div PsnMod
               v == y % PsnMod
    <2>3. y \in Int
      BY <1>1, <2>1, <2>2
    <2>4. Distance(Psn(c), Psn(d)) = v
      BY <1>1, <2>2 DEF Distance
    <2>5. y = (PsnMod * r) + v /\ v \in 0 .. PsnMod - 1 /\ r \in Int
      <3> HIDE DEF y
      <3> QED
        BY <1>2, <2>3
    <2> HIDE DEF r, v
    <2> DEFINE j == (r + p) - q
               k == c - d
    <2>6. j \in Int /\ k - v = PsnMod * j /\ k \in 0 .. PsnMod - 1
      BY <1>1, <1>4, <2>1, <2>2, <2>5
    <2> HIDE DEF j, k, y
    <2>7. j = 0
      <3>1. CASE j >= 1
        <4>1. PsnMod * j >= PsnMod
          BY <1>1, <2>6, <3>1
        <4> QED
          BY <1>1, <2>5, <2>6, <4>1
      <3>2. CASE j <= -1
        <4>1. PsnMod * j <= -PsnMod
          BY <1>1, <2>6, <3>2
        <4> QED
          BY <1>1, <2>5, <2>6, <4>1
      <3> QED
        BY <2>6, <3>1, <3>2
    <2>8. v = k
      BY <1>1, <2>5, <2>6, <2>7
    <2> QED
      BY <2>4, <2>8 DEF k
  <1>5. ASSUME NEW c \in 0 .. MaxChunks, NEW d \in 0 .. MaxChunks, Psn(c) = Psn(d)
        PROVE  c = d
    <2>1. ASSUME NEW x \in 0 .. MaxChunks, NEW y \in 0 .. MaxChunks, Psn(x) = Psn(y), y <= x
          PROVE  x = y
      <3>1. Psn(y) \in 0 .. PsnMod - 1
        BY <1>3
      <3>2. Distance(Psn(x), Psn(y)) = 0
        BY <1>1, <2>1, <3>1 DEF Distance
      <3>3. x - y = 0
        BY <1>4, <2>1, <3>2
      <3> QED
        BY <1>1, <3>3
    <2>2. c <= d \/ d <= c
      BY <1>1
    <2> QED
      BY <1>5, <2>1, <2>2
  <1>6. ASSUME NEW k \in 0 .. MaxChunks PROVE ChunkOf(Psn(k)) = k
    BY <1>5 DEF ChunkOf
  <1> QED
    BY <1>4, <1>5, <1>6

\* The chunk of a number that is that of one of the first.
LEMMA AckingFacts ==
  ASSUME NoReuse, NEW lo \in Nat, NEW hi \in 0 .. MaxChunks
  PROVE  /\ \A k \in lo .. hi : Acking(Psn(k), lo, hi) /\ ChunkOf(Psn(k)) = k
         /\ \A psn : Acking(psn, lo, hi) => ChunkOf(psn) \in 0 .. MaxChunks
         /\ \A psn, x, y : x <= lo /\ hi <= y /\ x \in Nat /\ y \in Nat /\ Acking(psn, lo, hi)
                             => Acking(psn, x, y)
  <1>1. MaxChunks \in Nat
    BY SessionAssumption
  <1>2. \A k \in lo .. hi : k \in 0 .. MaxChunks
    BY <1>1
  <1>3. \A k \in lo .. hi : ChunkOf(Psn(k)) = k
    BY <1>2, Distances
  <1>4. \A psn : Acking(psn, lo, hi) => ChunkOf(psn) \in 0 .. MaxChunks
    BY <1>2 DEF Acking
  <1>5. ASSUME NEW psn, NEW x \in Nat, NEW y \in Nat, x <= lo, hi <= y, Acking(psn, lo, hi)
        PROVE  Acking(psn, x, y)
    <2>1. ChunkOf(psn) \in lo .. hi /\ psn = Psn(ChunkOf(psn))
      BY <1>5 DEF Acking
    <2>2. ChunkOf(psn) \in x .. y
      BY <1>1, <1>5, <2>1
    <2> QED
      BY <2>1, <2>2 DEF Acking
  <1> QED
    BY <1>3, <1>4, <1>5 DEF Acking

LEMMA RisingMore ==
  ASSUME NoReuse, NEW q, NEW lo \in Nat, NEW hi \in 0 .. MaxChunks, Rising(q, lo, hi),
         NEW x \in Nat, NEW y \in 0 .. MaxChunks, x <= lo, hi <= y
  PROVE  Rising(q, x, y)
  <1>1. y \in Nat
    BY SessionAssumption
  <1>2. \A i \in Acks(q) : Acking(q[i].ack, x, y)
    BY <1>1, AckingFacts DEF Rising
  <1> QED
    BY <1>2 DEF Rising

\* What has been delivered by now is acknowledged behind the rest.
LEMMA RisingAppend ==
  ASSUME NoReuse, NEW q \in Seq(Packets), NEW lo \in Nat, NEW hi \in 0 .. MaxChunks, lo <= hi,
         Rising(q, lo, hi), NEW p, "ACK" \in p.control => p.ack = Psn(hi)
  PROVE  Rising(Append(q, p), lo, hi)
  <1> DEFINE r == Append(q, p)
             k == Len(q)
  <1>1. /\ k \in Nat /\ DOMAIN q = 1 .. k /\ DOMAIN r = 1 .. k + 1
        /\ r[k + 1] = p /\ \A i \in 1 .. k : r[i] = q[i]
    OBVIOUS
  <1> HIDE DEF r, k
  <1>2. hi \in lo .. hi /\ hi \in Nat
    BY SessionAssumption
  <1>3. Acking(Psn(hi), lo, hi) /\ ChunkOf(Psn(hi)) = hi
    BY <1>2, AckingFacts
  <1>4. \A i \in Acks(r) : \/ i \in Acks(q) /\ i \in 1 .. k /\ r[i] = q[i]
                           \/ i = k + 1 /\ r[i].ack = Psn(hi)
    BY <1>1 DEF Acks
  <1>5. \A i \in Acks(q) : Acking(q[i].ack, lo, hi) /\ ChunkOf(q[i].ack) <= hi /\ i \in 1 .. k
    BY <1>1, <1>2 DEF Rising, Acking, Acks
  <1>6. \A i \in Acks(r) : Acking(r[i].ack, lo, hi)
    BY <1>3, <1>4, <1>5
  <1>7. ASSUME NEW i \in Acks(r), NEW j \in Acks(r), i <= j
        PROVE  ChunkOf(r[i].ack) <= ChunkOf(r[j].ack)
    <2>1. CASE j \in Acks(q) /\ j \in 1 .. k /\ r[j] = q[j]
      <3>1. i # k + 1
        BY <1>1, <1>7, <2>1
      <3> QED
        BY <1>4, <1>7, <2>1, <3>1 DEF Rising
    <2>2. CASE j = k + 1 /\ r[j].ack = Psn(hi)
      <3>1. ChunkOf(r[j].ack) = hi
        BY <1>3, <2>2
      <3>2. ChunkOf(r[i].ack) <= hi
        <4>1. CASE i \in Acks(q) /\ r[i] = q[i]
          BY <1>5, <4>1
        <4>2. CASE r[i].ack = Psn(hi)
          BY <1>2, <1>3, <4>2
        <4> QED
          BY <1>4, <4>1, <4>2
      <3> QED
        BY <3>1, <3>2
    <2> QED
      BY <1>4, <2>1, <2>2
  <1> QED
    BY <1>6, <1>7 DEF Rising, r

\* What is written later acknowledges no less than what is on its way.
LEMMA RisingJoined ==
  ASSUME NoReuse, NEW q \in Seq(Packets), NEW s \in Seq(Packets), NEW lo \in Nat,
         NEW d \in 0 .. MaxChunks, NEW hi \in 0 .. MaxChunks, lo <= d, d <= hi,
         Rising(q, lo, d), Rising(s, d, hi)
  PROVE  Rising(q \o s, lo, hi)
  <1> DEFINE r == q \o s
             k == Len(q)
             m == Len(s)
  <1>1. k \in Nat /\ m \in Nat /\ DOMAIN q = 1 .. k /\ DOMAIN s = 1 .. m
    OBVIOUS
  <1>2. /\ r \in Seq(Packets) /\ Len(r) = k + m
        /\ \A i \in 1 .. k + m : r[i] = IF i <= k THEN q[i] ELSE s[i - k]
    BY Joined
  <1> HIDE DEF r, k, m
  <1>3. DOMAIN r = 1 .. k + m
    BY <1>1, <1>2
  <1>4. ASSUME NEW i \in Acks(r)
        PROVE  /\ i \in 1 .. k + m
               /\ \/ i <= k /\ i \in Acks(q) /\ r[i] = q[i]
                  \/ i > k /\ i - k \in Acks(s) /\ r[i] = s[i - k]
    <2>1. i \in 1 .. k + m /\ "ACK" \in r[i].control
      BY <1>3 DEF Acks
    <2>2. CASE i <= k
      BY <1>1, <1>2, <2>1, <2>2 DEF Acks
    <2>3. CASE i > k
      <3>1. i - k \in 1 .. m /\ ~ (i <= k)
        BY <1>1, <2>1, <2>3
      <3> QED
        BY <1>1, <1>2, <2>1, <2>3, <3>1 DEF Acks
    <2> QED
      BY <1>1, <2>1, <2>2, <2>3
  <1>5. d \in Nat /\ hi \in Nat
    BY SessionAssumption
  <1>6. /\ \A i \in Acks(q) : Acking(q[i].ack, lo, hi) /\ ChunkOf(q[i].ack) <= d
        /\ \A i \in Acks(s) : Acking(s[i].ack, lo, hi) /\ d <= ChunkOf(s[i].ack)
        /\ \A i \in Acks(q) : ChunkOf(q[i].ack) \in Nat
        /\ \A i \in Acks(s) : ChunkOf(s[i].ack) \in Nat
    <2>1. Rising(q, lo, hi) /\ Rising(s, lo, hi)
      BY <1>5, RisingMore
    <2>2. \A x \in lo .. d : x <= d /\ x \in Nat
      BY <1>5
    <2>3. \A x \in d .. hi : d <= x /\ x \in Nat
      BY <1>5
    <2> QED
      BY <2>1, <2>2, <2>3 DEF Rising, Acking
  <1>7. \A i \in Acks(r) : Acking(r[i].ack, lo, hi)
    BY <1>4, <1>6
  <1>8. ASSUME NEW i \in Acks(r), NEW j \in Acks(r), i <= j
        PROVE  ChunkOf(r[i].ack) <= ChunkOf(r[j].ack)
    <2>1. i \in Int /\ j \in Int
      BY <1>1, <1>4
    <2>2. CASE j <= k
      <3>1. i <= k
        BY <1>1, <1>8, <2>1, <2>2
      <3>2. i \in Acks(q) /\ r[i] = q[i] /\ j \in Acks(q) /\ r[j] = q[j]
        BY <1>1, <1>4, <2>1, <2>2, <3>1
      <3> QED
        BY <1>8, <3>2 DEF Rising
    <2>3. CASE j > k
      <3>1. j - k \in Acks(s) /\ r[j] = s[j - k]
        BY <1>1, <1>4, <2>1, <2>3
      <3>2. CASE i <= k
        <4>1. i \in Acks(q) /\ r[i] = q[i]
          BY <1>1, <1>4, <2>1, <3>2
        <4>2. /\ ChunkOf(q[i].ack) \in Nat /\ ChunkOf(q[i].ack) <= d
              /\ ChunkOf(s[j - k].ack) \in Nat /\ d <= ChunkOf(s[j - k].ack)
          BY <1>6, <3>1, <4>1
        <4> QED
          BY <1>5, <3>1, <4>1, <4>2
      <3>3. CASE i > k
        <4>1. i - k \in Acks(s) /\ r[i] = s[i - k]
          BY <1>1, <1>4, <2>1, <3>3
        <4>2. i - k <= j - k
          BY <1>1, <1>8, <2>1
        <4> QED
          BY <3>1, <4>1, <4>2 DEF Rising
      <3> QED
        BY <1>1, <2>1, <3>2, <3>3
    <2> QED
      BY <1>1, <2>1, <2>2, <2>3
  <1> QED
    BY <1>7, <1>8 DEF Rising, r

\* When the first packet is taken, the rest acknowledges no less than it.
LEMMA RisingTail ==
  ASSUME NoReuse, NEW q \in Seq(Packets), q # << >>, NEW lo \in Nat, NEW hi \in 0 .. MaxChunks,
         Rising(q, lo, hi)
  PROVE  /\ Rising(Tail(q), lo, hi)
         /\ "ACK" \in Head(q).control =>
              Acking(Head(q).ack, lo, hi) /\ Rising(Tail(q), ChunkOf(Head(q).ack), hi)
  <1> DEFINE r == Tail(q)
             k == Len(q)
             first == Head(q)
  <1>1. /\ k \in Nat \ {0} /\ DOMAIN q = 1 .. k /\ DOMAIN r = 1 .. k - 1 /\ first = q[1]
        /\ \A i \in 1 .. k - 1 : r[i] = q[i + 1]
    OBVIOUS
  <1> HIDE DEF r, k, first
  <1>2. \A i \in Acks(r) : i \in 1 .. k - 1 /\ i + 1 \in Acks(q) /\ r[i] = q[i + 1]
    BY <1>1 DEF Acks
  <1>3. \A i \in Acks(r) : Acking(r[i].ack, lo, hi)
    BY <1>2 DEF Rising
  <1>4. ASSUME NEW i \in Acks(r), NEW j \in Acks(r), i <= j
        PROVE  ChunkOf(r[i].ack) <= ChunkOf(r[j].ack)
    <2>1. i + 1 <= j + 1
      BY <1>1, <1>2, <1>4
    <2> QED
      BY <1>2, <2>1 DEF Rising
  <1>5. Rising(r, lo, hi)
    BY <1>3, <1>4 DEF Rising
  <1>6. ASSUME "ACK" \in first.control
        PROVE  Acking(first.ack, lo, hi) /\ Rising(r, ChunkOf(first.ack), hi)
    <2>1. 1 \in Acks(q) /\ first = q[1]
      BY <1>1, <1>6 DEF Acks
    <2>2. Acking(first.ack, lo, hi)
      BY <2>1 DEF Rising
    <2>3. ASSUME NEW i \in Acks(r) PROVE Acking(r[i].ack, ChunkOf(first.ack), hi)
      <3>1. i + 1 \in Acks(q) /\ r[i] = q[i + 1] /\ 1 <= i + 1
        BY <1>1, <1>2
      <3>2. ChunkOf(first.ack) <= ChunkOf(r[i].ack)
        BY <2>1, <3>1 DEF Rising
      <3>3. Acking(r[i].ack, lo, hi) /\ hi \in Nat
        BY <1>3, SessionAssumption
      <3>4. ChunkOf(r[i].ack) \in lo .. hi /\ ChunkOf(first.ack) \in lo .. hi
        BY <2>2, <3>3 DEF Acking
      <3> HIDE DEF ChunkOf
      <3>5. ChunkOf(r[i].ack) \in ChunkOf(first.ack) .. hi
        BY <3>2, <3>3, <3>4
      <3> QED
        BY <3>3, <3>5 DEF Acking
    <2> QED
      BY <1>4, <2>2, <2>3 DEF Rising
  <1> QED
    BY <1>5, <1>6 DEF r, first
-----------------------------------------------------------------------------
(* Sending keeps a link careful.                                              *)

\* m is l in what it has sent, what it knows to be acknowledged and what it has
\* handed up, and no more alive.
Alike(l, m) == /\ m.lsp = l.lsp /\ m.sentPsn = l.sentPsn /\ m.queued = l.queued
               /\ m.lastSentAcked = l.lastSentAcked /\ Due(m) = Due(l)
               /\ m.lastIn = l.lastIn /\ m.delivered = l.delivered
               /\ m.state # "dead" => l.state # "dead"

\* What l says of what it has received.
Tells(l, p) == "ACK" \in p.control => p.ack = l.lastIn

LEMMA AlikeCareful ==
  ASSUME NEW n, NEW b, NEW d, NEW a, NEW l, NEW m, Careful(l, n, b, d, a),
         Alike(l, m), m.out = l.out
  PROVE  Careful(m, n, b, d, a)
  <1>1. /\ m.lsp = l.lsp /\ m.sentPsn = l.sentPsn /\ m.queued = l.queued
        /\ m.lastSentAcked = l.lastSentAcked /\ Due(m) = Due(l)
        /\ m.lastIn = l.lastIn /\ m.delivered = l.delivered
        /\ m.state # "dead" => l.state # "dead"
    BY DEF Alike
  <1>2. Sent(m, n) = Sent(l, n) /\ Due(m) = Due(l)
    BY <1>1 DEF Sent, Due
  <1> DEFINE s == Sent(l, n)
  <1> HIDE DEF s
  <1>3. Behind(l, s) => Behind(m, s)
    BY <1>1 DEF Behind
  <1>4. Recent(l, s) => Recent(m, s)
    BY <1>2 DEF Recent
  <1>5. Spoken(l, s, d) => Spoken(m, s, d)
    BY <1>1 DEF Spoken, Following
  <1>6. Windowed(l, s, a) => Windowed(m, s, a)
    BY <1>1, <1>2 DEF Windowed
  <1> QED
    BY <1>1, <1>2, <1>3, <1>4, <1>5, <1>6 DEF Careful, s

\* One packet more, which acknowledges all that was delivered.
LEMMA SpokenMore ==
  ASSUME NoReuse, NEW s \in Nat, NEW d \in Nat, NEW l \in Links, NEW m,
         Spoken(l, s, d), Alike(l, m),
         NEW p, Carries(p, s), Tells(l, p), m.out = Append(l.out, p)
  PROVE  Spoken(m, s, d)
  <1> DEFINE hi == Len(l.delivered)
             r == Len(l.out)
  <1>1. /\ l.out \in Seq(Packets) /\ r \in Nat /\ DOMAIN l.out = 1 .. r
        /\ hi \in Nat /\ l.delivered \in Seq(Nat)
    BY DEF Links
  <1>2. /\ DOMAIN m.out = 1 .. r + 1 /\ m.out[r + 1] = p
        /\ \A i \in 1 .. r : m.out[i] = l.out[i]
    BY <1>1
  <1>3. \A i \in 1 .. r : Carries(l.out[i], s)
    BY <1>1 DEF Spoken
  <1>4. hi \in 0 .. MaxChunks /\ d <= hi /\ Rising(l.out, d, hi) /\ l.lastIn = Psn(hi)
    BY <1>1, SessionAssumption DEF Spoken, Following
  <1> HIDE DEF r, hi
  <1>5. "ACK" \in p.control => p.ack = Psn(hi)
    BY <1>4 DEF Tells
  <1>6. Rising(m.out, d, hi)
    BY <1>1, <1>4, <1>5, RisingAppend
  <1>7. \A i \in 1 .. r + 1 : i \in 1 .. r \/ i = r + 1
    BY <1>1
  <1>8. \A i \in DOMAIN m.out : Carries(m.out[i], s)
    BY <1>2, <1>3, <1>7
  <1>9. m.lsp = l.lsp /\ m.sentPsn = l.sentPsn /\ m.lastIn = l.lastIn /\ m.delivered = l.delivered
    BY DEF Alike
  <1> QED
    BY <1>6, <1>8, <1>9 DEF Spoken, Following, hi

LEMMA MoreCareful ==
  ASSUME NoReuse, NEW n, NEW b, NEW d \in Nat, NEW a, NEW l \in Links, NEW m,
         Careful(l, n, b, d, a), Alike(l, m),
         NEW p, Carries(p, Sent(l, n)), Tells(l, p), m.out = Append(l.out, p)
  PROVE  Careful(m, n, b, d, a)
  <1> DEFINE s == Sent(l, n)
  <1> SUFFICES ASSUME m.state # "dead" PROVE Careful(m, n, b, d, a)
    BY DEF Careful
  <1>1. s \in Nat /\ Spoken(l, s, d)
    BY DEF Careful, Alike
  <1> HIDE DEF s
  <1>2. Spoken(m, s, d)
    BY <1>1, SpokenMore DEF s
  <1>3. /\ m.lsp = l.lsp /\ m.sentPsn = l.sentPsn /\ m.queued = l.queued
        /\ m.lastSentAcked = l.lastSentAcked /\ Due(m) = Due(l) /\ l.state # "dead"
    BY DEF Alike
  <1>4. Sent(m, n) = s /\ Due(m) = Due(l)
    BY <1>3 DEF Sent, Due, s
  <1>5. b <= s /\ Behind(l, s) /\ Recent(l, s) /\ Windowed(l, s, a)
    BY <1>3 DEF Careful, s
  <1>6. Behind(m, s) /\ Recent(m, s) /\ Windowed(m, s, a)
    BY <1>3, <1>4, <1>5 DEF Behind, Recent, Windowed
  <1> QED
    BY <1>1, <1>2, <1>4, <1>5, <1>6 DEF Careful

LEMMA WroteCareful ==
  ASSUME NoReuse, NEW n, NEW b, NEW d \in Nat, NEW a, NEW l \in Links, NEW m,
         Careful(l, n, b, d, a), NEW p, l.state # "dead" => Carries(p, Sent(l, n)), Tells(l, p),
         Wrote(l, m, p)
  PROVE  Careful(m, n, b, d, a)
  <1> SUFFICES ASSUME m.state # "dead" PROVE Careful(m, n, b, d, a)
    BY DEF Careful
  <1>1. m.state = l.state /\ m.out = Append(l.out, p)
    BY DEF Wrote
  <1>2. Alike(l, m)
    BY <1>1, ListsSame DEF Wrote, Alike, Due
  <1> QED
    BY <1>1, <1>2, MoreCareful

LEMMA TimersCareful ==
  ASSUME NEW n, NEW b, NEW d, NEW a, NEW l \in Links, Careful(l, n, b, d, a), NEW t
  PROVE  /\ Careful(Armed(l, t), n, b, d, a)
         /\ Careful(Disarmed(l, t), n, b, d, a)
         /\ Careful(Bailout(l), n, b, d, a)
  <1>1. Alike(l, Armed(l, t)) /\ Armed(l, t).out = l.out
    BY DEF Armed, Links, Alike, Due
  <1>2. Alike(l, Disarmed(l, t)) /\ Disarmed(l, t).out = l.out
    BY DEF Disarmed, Links, Alike, Due
  <1>3. Alike(l, Bailout(l)) /\ Bailout(l).out = l.out
    BY DEF Bailout, Links, Alike, Due
  <1> QED
    BY <1>1, <1>2, <1>3, AlikeCareful

LEMMA SendsCareful ==
  ASSUME NoReuse, NEW n, NEW b, NEW d \in Nat, NEW a, NEW l \in Links, Careful(l, n, b, d, a),
         NEW missing \in SUBSET Psns
  PROVE  /\ Careful(SendAck(l), n, b, d, a)
         /\ Careful(SendEak(l, missing), n, b, d, a)
         /\ \A p \in Unacked : (l.state # "dead" => Numbered(p, Sent(l, n)))
                                  => Careful(SendData(l, p), n, b, d, a)
  <1>1. [psn |-> 0, chunk |-> 0, counter |-> 0] \in Unacked
    BY Numbers DEF Unacked
  <1>2. l.state # "dead" => Sent(l, n) \in Nat
    BY DEF Careful
  <1>3. Careful(SendAck(l), n, b, d, a)
    <2> DEFINE p == Packet(l, {"ACK"}, l.sentPsn, None, {}, NoLsp)
    <2>1. (l.state # "dead" => Carries(p, Sent(l, n))) /\ Tells(l, p)
      BY <1>2 DEF Carries, Packet, None, Tells
    <2>2. Wrote(l, SendAck(l), p)
      BY <1>1, SendFacts
    <2> HIDE DEF p
    <2> QED
      BY <2>1, <2>2, WroteCareful
  <1>4. Careful(SendEak(l, missing), n, b, d, a)
    <2> DEFINE p == Packet(l, {"EAK"}, l.sentPsn, None, missing, NoLsp)
    <2>1. (l.state # "dead" => Carries(p, Sent(l, n))) /\ Tells(l, p)
      BY <1>2 DEF Carries, Packet, None, Tells
    <2>2. Wrote(l, SendEak(l, missing), p)
      BY <1>1, SendFacts
    <2> HIDE DEF p
    <2> QED
      BY <2>1, <2>2, WroteCareful
  <1>5. ASSUME NEW x \in Unacked, l.state # "dead" => Numbered(x, Sent(l, n))
        PROVE  Careful(SendData(l, x), n, b, d, a)
    <2> DEFINE p == Packet(l, {"ACK"}, x.psn, x.chunk, {}, NoLsp)
    <2>1. (l.state # "dead" => Carries(p, Sent(l, n))) /\ Tells(l, p)
      BY <1>2, <1>5 DEF Carries, Packet, None, Tells, Numbered
    <2>2. Wrote(l, SendData(l, x), p)
      BY <1>5, SendFacts
    <2> HIDE DEF p
    <2> QED
      BY <2>1, <2>2, WroteCareful
  <1> QED
    BY <1>3, <1>4, <1>5

\* A chunk is sent under the next number, and kept if it may have to be sent
\* again.
LEMMA OpenFacts ==
  ASSUME NEW l \in Links, NEW chunk \in Nat, ~ Closed(l)
  PROVE  LET m   == EnqueuePacket(l, chunk)
             psn == NextPsn(l.sentPsn)
         IN /\ m.lsp = l.lsp /\ m.queued = l.queued /\ m.sentPsn = psn
            /\ m.lastIn = l.lastIn /\ m.delivered = l.delivered
            /\ m.state = l.state \/ m.state = "dead"
            /\ \/ m.out = l.out /\ m.state = "dead"
               \/ \E p : /\ p.control = {"ACK"} /\ p.chunk = chunk /\ p.seq = psn
                         /\ p.ack = l.lastIn /\ m.out = Append(l.out, p)
            /\ IF l.lsp.maxRetransmissions > 0
               THEN m.lastSentAcked = l.lastSentAcked /\ m.due = Append(l.due, psn)
               ELSE m.due = l.due
  <1> DEFINE psn    == NextPsn(l.sentPsn)
             packet == [psn |-> psn, chunk |-> chunk, counter |-> 0]
             told   == [l EXCEPT !.sentPsn = psn]
             quiet  == Disarmed(told, "sendAck")
             sent   == SendData(quiet, packet)
             noted  == [sent EXCEPT !.lastAcked = sent.lastIn]
             kept   == [noted EXCEPT !.unacked = Append(@, packet), !.due = Append(@, psn)]
             final  == IF l.lsp.maxRetransmissions > 0 THEN Armed(kept, "recvAck")
                       ELSE [noted EXCEPT !.lastSentAcked = psn]
             p == Packet(quiet, {"ACK"}, psn, chunk, {}, NoLsp)
  <1>1. EnqueuePacket(l, chunk) = final
    BY DEF EnqueuePacket, Closed
  <1>2. psn \in Psns
    BY Numbers DEF Links
  <1> HIDE DEF psn
  <1>3. packet \in Unacked /\ packet.psn = psn /\ packet.chunk = chunk
    BY <1>2 DEF Unacked
  <1> HIDE DEF packet
  <1>4. /\ quiet \in Links /\ quiet.sentPsn = psn /\ quiet.queued = l.queued
        /\ quiet.out = l.out /\ quiet.state = l.state /\ quiet.lsp = l.lsp
        /\ quiet.lastIn = l.lastIn /\ quiet.delivered = l.delivered
        /\ quiet.lastSentAcked = l.lastSentAcked /\ quiet.due = l.due
    <2>1. l.timers \ {"sendAck"} \in SUBSET Timers
      BY DEF Links
    <2>2. quiet = [l EXCEPT !.sentPsn = psn, !.timers = l.timers \ {"sendAck"}]
      BY DEF Disarmed, Links
    <2> HIDE DEF quiet
    <2> QED
      BY <1>2, <2>1, <2>2 DEF Links
  <1> HIDE DEF quiet
  <1>5. sent \in Links /\ Wrote(quiet, sent, p)
    <2>1. {} \in SUBSET Psns
      OBVIOUS
    <2> QED
      BY <1>3, <1>4, <2>1, SendFacts
  <1>6. p.control = {"ACK"} /\ p.chunk = chunk /\ p.seq = psn /\ p.ack = l.lastIn
    BY <1>4 DEF Packet
  <1> HIDE DEF sent, p
  <1>7. /\ sent.lsp = quiet.lsp /\ sent.queued = quiet.queued /\ sent.sentPsn = quiet.sentPsn
        /\ sent.lastIn = quiet.lastIn /\ sent.delivered = quiet.delivered
        /\ sent.lastSentAcked = quiet.lastSentAcked /\ sent.due = quiet.due
    BY <1>5, ListsSame DEF Wrote
  <1>8. \/ sent.state = "dead" /\ sent.out = quiet.out
        \/ sent.state = quiet.state /\ sent.out = Append(quiet.out, p)
    BY <1>5 DEF Wrote
  <1>9. /\ noted \in Links
        /\ noted.lsp = sent.lsp /\ noted.queued = sent.queued /\ noted.sentPsn = sent.sentPsn
        /\ noted.lastIn = sent.lastIn /\ noted.delivered = sent.delivered
        /\ noted.lastSentAcked = sent.lastSentAcked /\ noted.due = sent.due
        /\ noted.state = sent.state /\ noted.out = sent.out
    BY <1>5 DEF Links
  <1> HIDE DEF noted
  <1>10. /\ final.lsp = noted.lsp /\ final.queued = noted.queued /\ final.sentPsn = noted.sentPsn
         /\ final.lastIn = noted.lastIn /\ final.delivered = noted.delivered
         /\ final.state = noted.state /\ final.out = noted.out
         /\ IF l.lsp.maxRetransmissions > 0
            THEN final.lastSentAcked = noted.lastSentAcked /\ final.due = Append(noted.due, psn)
            ELSE final.due = noted.due
    <2> DEFINE unacked == Append(noted.unacked, packet)
               due == Append(noted.due, psn)
               armed == noted.timers \union {"recvAck"}
    <2>1. CASE l.lsp.maxRetransmissions > 0
      <3>1. final = [noted EXCEPT !.unacked = unacked, !.due = due, !.timers = armed]
        BY <1>9, <2>1 DEF Armed, Links
      <3> HIDE DEF unacked, due, armed, final
      <3>2. /\ final.lsp = noted.lsp /\ final.queued = noted.queued
            /\ final.sentPsn = noted.sentPsn
            /\ final.lastIn = noted.lastIn /\ final.delivered = noted.delivered
            /\ final.state = noted.state /\ final.out = noted.out
            /\ final.lastSentAcked = noted.lastSentAcked /\ final.due = due
        BY <1>9, <3>1 DEF Links
      <3> QED
        BY <2>1, <3>2 DEF due
    <2>2. CASE ~ (l.lsp.maxRetransmissions > 0)
      <3>1. final = [noted EXCEPT !.lastSentAcked = psn]
        BY <2>2
      <3> HIDE DEF final
      <3> QED
        BY <1>9, <2>2, <3>1 DEF Links
    <2> QED
      BY <2>1, <2>2
  <1> HIDE DEF final
  <1>11. (final.out = l.out /\ final.state = "dead") \/ final.out = Append(l.out, p)
    BY <1>4, <1>8, <1>9, <1>10
  <1>12. final.state = l.state \/ final.state = "dead"
    BY <1>4, <1>8, <1>9, <1>10
  <1>13. /\ final.lsp = l.lsp /\ final.queued = l.queued /\ final.sentPsn = psn
         /\ final.lastIn = l.lastIn /\ final.delivered = l.delivered
    BY <1>4, <1>7, <1>9, <1>10
  <1>14. IF l.lsp.maxRetransmissions > 0
         THEN final.lastSentAcked = l.lastSentAcked /\ final.due = Append(l.due, psn)
         ELSE final.due = l.due
    BY <1>4, <1>7, <1>9, <1>10
  <1> QED
    BY <1>1, <1>6, <1>11, <1>12, <1>13, <1>14 DEF psn

\* The next chunk goes out: it is within the window, and kept.
LEMMA GoesOut ==
  ASSUME NoReuse, NEW l \in Links, NEW s \in Nat, s + 1 <= MaxChunks, NEW d \in Nat, NEW a,
         ~ Closed(l), Recent(l, s), Spoken(l, s, d), Windowed(l, s, a)
  PROVE  LET m == EnqueuePacket(l, s + 1)
         IN m.state # "dead" =>
              Recent(m, s + 1) /\ Spoken(m, s + 1, d) /\ Windowed(m, s + 1, a)
  <1> DEFINE m == EnqueuePacket(l, s + 1)
             psn == NextPsn(l.sentPsn)
             t == s + 1
  <1>1. t \in Nat /\ s \in 0 .. MaxChunks /\ MaxChunks \in Nat
    BY SessionAssumption
  <1>2. l.lsp = PhoneLsp /\ psn = Psn(t)
    BY PsnFacts DEF Spoken
  <1>3. /\ m.lsp = l.lsp /\ m.queued = l.queued /\ m.sentPsn = psn
        /\ m.lastIn = l.lastIn /\ m.delivered = l.delivered
        /\ m.state = l.state \/ m.state = "dead"
        /\ \/ m.out = l.out /\ m.state = "dead"
           \/ \E p : /\ p.control = {"ACK"} /\ p.chunk = t /\ p.seq = psn
                     /\ p.ack = l.lastIn /\ m.out = Append(l.out, p)
        /\ IF l.lsp.maxRetransmissions > 0
           THEN m.lastSentAcked = l.lastSentAcked /\ m.due = Append(l.due, psn)
           ELSE m.due = l.due
    BY <1>1, OpenFacts
  <1> HIDE DEF m, psn
  <1> SUFFICES ASSUME m.state # "dead"
               PROVE  Recent(m, t) /\ Spoken(m, t, d) /\ Windowed(m, t, a)
    BY DEF m
  <1>4. PICK p : /\ p.control = {"ACK"} /\ p.chunk = t /\ p.seq = psn
                 /\ p.ack = l.lastIn /\ m.out = Append(l.out, p)
    BY <1>3
  <1>5. l.due \in Seq(Psns) /\ l.out \in Seq(Packets) /\ l.lsp \in Lsps
    BY DEF Links
  <1>6. Due(m) = IF Retransmits THEN Due(l) \union {psn} ELSE Due(l)
    <2> DEFINE k == Len(l.due)
    <2>1. k \in Nat /\ DOMAIN l.due = 1 .. k
      BY <1>5
    <2>2. CASE Retransmits
      <3>1. m.due = Append(l.due, psn)
        BY <1>2, <1>3, <2>2 DEF Retransmits
      <3>2. /\ DOMAIN m.due = 1 .. k + 1 /\ m.due[k + 1] = psn
            /\ \A i \in 1 .. k : m.due[i] = l.due[i]
        BY <1>5, <3>1
      <3> HIDE DEF k
      <3>3. \A i \in 1 .. k + 1 : i \in 1 .. k \/ i = k + 1
        BY <2>1
      <3>4. {m.due[i] : i \in 1 .. k + 1} = {l.due[i] : i \in 1 .. k} \union {psn}
        BY <2>1, <3>2, <3>3
      <3>5. Due(m) = {m.due[i] : i \in 1 .. k + 1} /\ Due(l) = {l.due[i] : i \in 1 .. k}
        BY <2>1, <3>2 DEF Due
      <3> QED
        BY <2>2, <3>4, <3>5
    <2>3. CASE ~ Retransmits
      BY <1>2, <1>3, <2>3 DEF Retransmits, Due
    <2> QED
      BY <2>2, <2>3
  <1>7. Recent(m, t)
    <2>1. \A c \in 1 .. s : c \in 1 .. t
      OBVIOUS
    <2>2. t \in 1 .. t
      OBVIOUS
    <2> HIDE DEF t
    <2> QED
      BY <1>2, <1>6, <2>1, <2>2 DEF Recent
  <1>8. Spoken(m, t, d)
    <2>1. Carries(p, t)
      BY <1>1, <1>2, <1>4 DEF Carries
    <2>2. \A x : Carries(x, s) => Carries(x, t)
      BY <1>1 DEF Carries
    <2>3. Rising(m.out, d, Len(l.delivered))
      <3>1. Len(l.delivered) \in 0 .. MaxChunks
        BY <1>1 DEF Spoken, Links
      <3>2. "ACK" \in p.control => p.ack = Psn(Len(l.delivered))
        BY <1>4 DEF Spoken, Following
      <3> QED
        BY <1>4, <1>5, <3>1, <3>2, RisingAppend DEF Spoken
    <2>4. \A i \in DOMAIN m.out : Carries(m.out[i], t)
      <3> DEFINE r == Len(l.out)
      <3>1. /\ r \in Nat /\ DOMAIN l.out = 1 .. r /\ DOMAIN m.out = 1 .. r + 1
            /\ m.out[r + 1] = p /\ \A i \in 1 .. r : m.out[i] = l.out[i]
        BY <1>4, <1>5
      <3> HIDE DEF r
      <3>2. \A i \in 1 .. r : Carries(l.out[i], t)
        BY <2>2, <3>1 DEF Spoken
      <3>3. \A i \in 1 .. r + 1 : i \in 1 .. r \/ i = r + 1
        BY <3>1
      <3> QED
        BY <2>1, <3>1, <3>2, <3>3
    <2> QED
      BY <1>2, <1>3, <2>3, <2>4 DEF Spoken, Following
  <1>9. ASSUME Retransmits
        PROVE  /\ a \in 0 .. t /\ m.lastSentAcked = Psn(a) /\ t - a <= PhoneLsp.maxOutgoing + 1
               /\ \A c \in a + 1 .. t : Psn(c) \in Due(m)
    <2>1. /\ a \in 0 .. s /\ l.lastSentAcked = Psn(a)
          /\ \A c \in a + 1 .. s : Psn(c) \in Due(l)
      BY <1>9 DEF Windowed
    <2>2. a \in 0 .. t /\ a \in 0 .. MaxChunks /\ a <= s
      BY <1>1, <2>1
    <2>3. m.lastSentAcked = Psn(a)
      BY <1>2, <1>3, <1>9, <2>1 DEF Retransmits
    <2>4. Outstanding(l) = s - a
      BY <1>1, <2>1, <2>2, Distances DEF Outstanding, Spoken
    <2>5. t - a <= PhoneLsp.maxOutgoing + 1
      <3>1. ~ (Outstanding(l) > PhoneLsp.maxOutgoing) /\ PhoneLsp.maxOutgoing \in Nat
        BY <1>2, SessionAssumption DEF Closed, Lsps
      <3> QED
        BY <2>2, <2>4, <3>1
    <2>6. \A c \in a + 1 .. t : c \in a + 1 .. s \/ c = t
      BY <2>2
    <2> HIDE DEF t
    <2>7. \A c \in a + 1 .. t : Psn(c) \in Due(m)
      BY <1>2, <1>6, <1>9, <2>1, <2>6
    <2> QED
      BY <2>2, <2>3, <2>5, <2>7
  <1> QED
    BY <1>7, <1>8, <1>9 DEF Windowed

\* A chunk that finds the window closed waits behind the others.
LEMMA QueueFacts ==
  ASSUME NEW l \in Links, NEW chunk \in Nat, Closed(l)
  PROVE  LET m == EnqueuePacket(l, chunk)
         IN /\ m.lsp = l.lsp /\ m.sentPsn = l.sentPsn /\ m.lastSentAcked = l.lastSentAcked
            /\ m.lastIn = l.lastIn /\ m.delivered = l.delivered /\ Due(m) = Due(l)
            /\ m.out = l.out /\ m.state = l.state
  BY DEF EnqueuePacket, Closed, Links, Due

LEMMA EnqueueCareful ==
  ASSUME NoReuse, NEW n \in Nat, n + 1 <= MaxChunks, NEW b \in Nat, NEW d \in Nat, NEW a,
         NEW l \in Sound,
         l.queued = << >> \/ Closed(l), Careful(l, n, b, d, a)
  PROVE  Careful(EnqueuePacket(l, n + 1), n + 1, b, d, a)
  <1> DEFINE m == EnqueuePacket(l, n + 1)
             q == Len(l.queued)
             s == Sent(l, n)
  <1>1. l \in Links /\ l.queued \in Seq(Nat) /\ q \in Nat /\ DOMAIN l.queued = 1 .. q /\ n + 1 \in Nat
    BY DEF Sound, Links
  <1> SUFFICES ASSUME m.state # "dead" PROVE Careful(m, n + 1, b, d, a)
    BY DEF Careful
  <1>2. CASE Closed(l)
    <2>1. m.queued = Append(l.queued, n + 1)
      BY <1>1, <1>2, EnqueueQueues
    <2>2. /\ m.lsp = l.lsp /\ m.sentPsn = l.sentPsn /\ m.lastSentAcked = l.lastSentAcked
          /\ m.lastIn = l.lastIn /\ m.delivered = l.delivered /\ Due(m) = Due(l)
          /\ m.out = l.out /\ m.state = l.state
      BY <1>1, <1>2, QueueFacts
    <2> HIDE DEF m
    <2>3. /\ Len(m.queued) = q + 1 /\ DOMAIN m.queued = 1 .. q + 1
          /\ m.queued[q + 1] = n + 1 /\ \A i \in 1 .. q : m.queued[i] = l.queued[i]
      BY <1>1, <2>1
    <2>4. s = n - q /\ Sent(m, n + 1) = s
      BY <1>1, <2>3 DEF Sent
    <2> HIDE DEF q, s
    <2>5. /\ s \in Nat /\ b <= s /\ Behind(l, s) /\ Recent(l, s)
          /\ Spoken(l, s, d) /\ Windowed(l, s, a)
      BY <2>2 DEF Careful, s
    <2>6. Behind(m, s)
      <3>1. \A i \in 1 .. q + 1 : i \in 1 .. q \/ i = q + 1
        BY <1>1
      <3>2. n + 1 = s + (q + 1)
        BY <1>1, <2>4, <2>5
      <3> QED
        BY <1>1, <2>3, <2>5, <3>1, <3>2 DEF Behind
    <2>7. Recent(m, s) /\ Spoken(m, s, d) /\ Windowed(m, s, a)
      BY <2>2, <2>5 DEF Recent, Spoken, Following, Windowed
    <2> QED
      BY <2>4, <2>5, <2>6, <2>7 DEF Careful
  <1>3. CASE ~ Closed(l)
    <2>1. l.queued = << >> /\ l.state = "normal"
      BY <1>3 DEF Closed
    <2>2. s = n
      BY <2>1 DEF Sent
    <2>3. b <= n /\ Recent(l, n) /\ Spoken(l, n, d) /\ Windowed(l, n, a)
      BY <2>1, <2>2 DEF Careful
    <2>4. Recent(m, n + 1) /\ Spoken(m, n + 1, d) /\ Windowed(m, n + 1, a)
      BY <1>1, <1>3, <2>3, GoesOut
    <2>5. m.queued = << >>
      BY <1>1, <1>3, <2>1, EnqueueOpen
    <2> HIDE DEF m, s
    <2>6. Sent(m, n + 1) = n + 1 /\ Behind(m, n + 1)
      BY <2>5 DEF Sent, Behind
    <2>7. b <= n + 1
      <3>1. b <= s /\ s \in Nat
        BY <2>1 DEF Careful, s
      <3> QED
        BY <2>2, <3>1
    <2> QED
      BY <1>1, <2>4, <2>6, <2>7 DEF Careful
  <1> QED
    BY <1>2, <1>3

\* One payload of k chunks.
LEMMA SubmitCareful ==
  ASSUME NoReuse, NEW n \in Nat, NEW k \in Nat, n + k <= MaxChunks,
         NEW b \in Nat, NEW d \in Nat, NEW a, NEW l \in Sound,
         Sends(l, n), l.queued = << >> \/ Closed(l), l.state # "dead", Careful(l, n, b, d, a)
  PROVE  Careful(SendSessionData(l, [i \in 1 .. k |-> n + i]), n + k, b, d, a)
  <1> DEFINE s == [i \in 1 .. k |-> n + i]
             Good == [i \in 0 .. k |-> {m \in Sound : /\ Sends(m, n + i)
                                                      /\ m.queued = << >> \/ Closed(m)
                                                      /\ Careful(m, n + i, b, d, a)}]
  <1>1. s \in Seq(Nat) /\ Len(s) = k /\ \A i \in 1 .. k : s[i] = n + i
    OBVIOUS
  <1> HIDE DEF s
  <1>2. ASSUME NEW i \in 1 .. k, NEW m \in Sound, Sends(m, n + (i - 1)),
               m.queued = << >> \/ Closed(m), Careful(m, n + (i - 1), b, d, a)
        PROVE  LET o == EnqueuePacket(m, s[i])
               IN /\ o \in Sound /\ Sends(o, n + i) /\ (o.queued = << >> \/ Closed(o))
                  /\ Careful(o, n + i, b, d, a)
    <2> DEFINE c == n + (i - 1)
    <2>1. c \in Nat /\ s[i] = c + 1 /\ n + i = c + 1 /\ s[i] \in Nat /\ c + 1 <= MaxChunks
      BY <1>1, SessionAssumption
    <2> HIDE DEF c
    <2>2. EnqueuePacket(m, s[i]) \in Sound
      BY <2>1, EnqueueSound
    <2>3. LET o == EnqueuePacket(m, c + 1)
          IN Sends(o, c + 1) /\ (o.queued = << >> \/ Closed(o))
      BY <1>2, <2>1, EnqueueSubmits DEF c
    <2>4. Careful(EnqueuePacket(m, c + 1), c + 1, b, d, a)
      BY <1>2, <2>1, EnqueueCareful DEF c
    <2> QED
      BY <2>1, <2>2, <2>3, <2>4
  <1>3. \A i \in 1 .. k : i - 1 \in 0 .. k /\ i \in 0 .. k
    OBVIOUS
  <1>4. \A i \in 1 .. Len(s) : \A m \in Good[i - 1] : EnqueuePacket(m, s[i]) \in Good[i]
    BY <1>1, <1>2, <1>3
  <1>5. l \in Good[0]
    OBVIOUS
  <1>6. \A m \in Good[k] : Careful(m, n + k, b, d, a)
    OBVIOUS
  <1> HIDE DEF Good
  <1>7. FoldLeft(EnqueuePacket, l, s) \in Good[k]
    BY <1>1, <1>4, <1>5, Loops
  <1> QED
    BY <1>6, <1>7 DEF SendSessionData, s

\* The chunk at the head of the queue goes out.
LEMMA DrainOneCareful ==
  ASSUME NoReuse, NEW n \in 0 .. MaxChunks, NEW b \in Nat, NEW d \in Nat, NEW a, NEW l \in Sound,
         l.state \in {"normal", "dead"}, Careful(l, n, b, d, a), NEW chunk
  PROVE  Careful(DrainOne(l, chunk), n, b, d, a)
  <1> DEFINE m == DrainOne(l, chunk)
             rest == Tail(l.queued)
             head == Head(l.queued)
             k == [l EXCEPT !.queued = rest]
             q == Len(l.queued)
             s == Sent(l, n)
  <1>1. l \in Links /\ l.queued \in Seq(Nat) /\ n \in Nat /\ MaxChunks \in Nat
    BY SessionAssumption DEF Sound, Links
  <1>2. CASE ~ (l.queued # << >> /\ Outstanding(l) < l.lsp.maxOutgoing)
    BY <1>2 DEF DrainOne
  <1>3. CASE l.queued # << >> /\ Outstanding(l) < l.lsp.maxOutgoing
    <2>1. /\ rest \in Seq(Nat) /\ head \in Nat /\ q \in Nat /\ q >= 1
          /\ head = l.queued[1] /\ Len(rest) = q - 1 /\ DOMAIN l.queued = 1 .. q
          /\ DOMAIN rest = 1 .. q - 1
          /\ \A i \in 1 .. q - 1 : rest[i] = l.queued[i + 1]
      BY <1>1, <1>3
    <2>2. m = EnqueuePacket(k, head)
      BY <1>3 DEF DrainOne
    <2> HIDE DEF rest, head, m
    <2>3. /\ k \in Links /\ k.queued = rest /\ k.lsp = l.lsp /\ k.state = l.state
          /\ k.sentPsn = l.sentPsn /\ k.lastSentAcked = l.lastSentAcked
          /\ k.unacked = l.unacked /\ k.due = l.due
          /\ k.lastIn = l.lastIn /\ k.delivered = l.delivered /\ k.out = l.out
          /\ k.timers = l.timers
      BY <1>1, <2>1 DEF Links
    <2> HIDE DEF k
    <2>4. CASE l.state = "dead"
      <3>1. Closed(k)
        BY <2>3, <2>4 DEF Closed
      <3>2. m.state = "dead"
        BY <2>1, <2>2, <2>3, <2>4, <3>1, EnqueueQueues
      <3> QED
        BY <3>2 DEF Careful, m
    <2>5. CASE l.state = "normal"
      <3>1. /\ s \in Nat /\ b <= s /\ Behind(l, s) /\ Recent(l, s)
            /\ Spoken(l, s, d) /\ Windowed(l, s, a)
        BY <2>5 DEF Careful
      <3>2. s = n - q
        BY DEF Sent
      <3> HIDE DEF q, s
      <3>3. s + 1 <= MaxChunks /\ s + 1 \in Nat /\ n - (q - 1) = s + 1
        BY <1>1, <2>1, <3>1, <3>2
      <3>4. head = s + 1
        <4>1. 1 \in 1 .. q
          BY <2>1
        <4> QED
          BY <2>1, <3>1, <4>1 DEF Behind
      <3>5. ~ Closed(k)
        <4>1. Outstanding(k) = Outstanding(l)
          BY <2>3 DEF Outstanding
        <4>2. l.sentPsn \in Psns /\ l.lastSentAcked \in Psns \union {-1} /\ l.lsp \in Lsps
          BY <1>1 DEF Links
        <4>3. Outstanding(l) \in Psns
          BY <4>2, Numbers DEF Outstanding
        <4>4. Outstanding(l) \in Int /\ l.lsp.maxOutgoing \in Int
          BY <4>2, <4>3, PsnAssumption DEF Lsps, Psns
        <4> QED
          BY <1>3, <2>3, <2>5, <4>1, <4>4 DEF Closed
      <3>6. Recent(k, s) /\ Spoken(k, s, d) /\ Windowed(k, s, a)
        BY <2>3, <3>1 DEF Recent, Due, Spoken, Following, Windowed
      <3>7. m.state # "dead" => Recent(m, s + 1) /\ Spoken(m, s + 1, d) /\ Windowed(m, s + 1, a)
        <4>1. LET w == EnqueuePacket(k, s + 1)
              IN w.state # "dead" =>
                   Recent(w, s + 1) /\ Spoken(w, s + 1, d) /\ Windowed(w, s + 1, a)
          BY <2>3, <3>1, <3>3, <3>5, <3>6, GoesOut
        <4> QED
          BY <2>2, <3>4, <4>1
      <3>8. m.queued = rest
        <4> DEFINE w == EnqueuePacket(k, head)
        <4>1. w.queued = k.queued
          BY <2>1, <2>3, <3>5, EnqueueOpen
        <4> QED
          BY <2>2, <2>3, <4>1
      <3>9. Sent(m, n) = s + 1
        BY <2>1, <3>3, <3>8 DEF Sent
      <3>10. Behind(m, s + 1)
        <4>1. \A i \in 1 .. q - 1 : i + 1 \in 1 .. q /\ s + (i + 1) = (s + 1) + i
          BY <2>1, <3>1
        <4>2. \A i \in 1 .. q - 1 : rest[i] = (s + 1) + i
          BY <2>1, <3>1, <4>1 DEF Behind
        <4> QED
          BY <2>1, <3>8, <4>2 DEF Behind
      <3>11. b <= s + 1
        BY <3>1
      <3>12. Careful(m, n, b, d, a)
        BY <3>3, <3>7, <3>9, <3>10, <3>11 DEF Careful
      <3> QED
        BY <3>12 DEF m
    <2>6. l.state = "normal" \/ l.state = "dead"
      OBVIOUS
    <2> QED
      BY <2>4, <2>5, <2>6
  <1> QED
    BY <1>2, <1>3

LEMMA DrainCareful ==
  ASSUME NoReuse, NEW n \in 0 .. MaxChunks, NEW b \in Nat, NEW d \in Nat, NEW a, NEW l \in Sound,
         l.state \in {"normal", "dead"}, Sends(l, n), Careful(l, n, b, d, a)
  PROVE  Careful(Drain(l), n, b, d, a)
  <1> DEFINE s == l.queued
             Good == [i \in 0 .. Len(s) |->
                       {m \in Sound : /\ m.state \in {"normal", "dead"} /\ Sends(m, n)
                                      /\ Careful(m, n, b, d, a)}]
  <1>1. s \in Seq(Nat)
    BY DEF Sound, Links
  <1>2. \A i \in 1 .. Len(s) : i - 1 \in 0 .. Len(s) /\ i \in 0 .. Len(s)
    BY <1>1
  <1>3. ASSUME NEW m \in Sound, NEW chunk, m.state \in {"normal", "dead"}, Sends(m, n),
               Careful(m, n, b, d, a)
        PROVE  LET o == DrainOne(m, chunk)
               IN /\ o \in Sound /\ o.state \in {"normal", "dead"} /\ Sends(o, n)
                  /\ Careful(o, n, b, d, a)
    <2>1. n \in Nat
      OBVIOUS
    <2> QED
      BY <1>3, <2>1, DrainOneFollows, DrainOneCareful DEF Follows
  <1>4. \A i \in 1 .. Len(s) : \A m \in Good[i - 1] : DrainOne(m, s[i]) \in Good[i]
    BY <1>2, <1>3
  <1>5. l \in Good[0] /\ \A m \in Good[Len(s)] : Careful(m, n, b, d, a)
    BY <1>1
  <1> HIDE DEF Good
  <1>6. FoldLeft(DrainOne, l, s) \in Good[Len(s)]
    BY <1>1, <1>4, <1>5, Loops
  <1> QED
    BY <1>5, <1>6 DEF Drain
-----------------------------------------------------------------------------
(* What an acknowledgement makes a link forget.                               *)

LEMMA KeptAhead ==
  ASSUME NEW l \in Links, NEW i \in DOMAIN l.unacked, AheadOf(l.unacked[i], l.lastSentAcked, l)
  PROVE  \E j \in DOMAIN Kept(l) : Kept(l)[j] = l.unacked[i]
  <1> DEFINE ahead == {k \in DOMAIN l.unacked : AheadOf(l.unacked[k], l.lastSentAcked, l)}
             n == Len(l.unacked)
             first == CHOOSE k \in ahead : \A j \in ahead : k <= j
  <1>1. l.unacked \in Seq(Unacked) /\ n \in Nat /\ DOMAIN l.unacked = 1 .. n
    BY DEF Links
  <1>2. i \in ahead /\ ahead \in SUBSET (1 .. n)
    BY <1>1
  <1>3. Kept(l) = SubSeq(l.unacked, first, n)
    BY <1>2 DEF Kept
  <1>4. first \in ahead /\ first <= i
    <2>1. \E k \in ahead : \A j \in ahead : k <= j
      <3> HIDE DEF n, ahead
      <3> QED
        BY <1>1, <1>2, Extremes
    <2> HIDE DEF ahead
    <2> QED
      BY <1>2, <2>1
  <1> HIDE DEF ahead, first
  <1>5. first \in 1 .. n /\ first <= i /\ i \in 1 .. n
    BY <1>1, <1>2, <1>4
  <1>6. /\ DOMAIN Kept(l) = 1 .. (n - first) + 1
        /\ \A j \in 1 .. (n - first) + 1 : Kept(l)[j] = l.unacked[(first + j) - 1]
    BY <1>1, <1>3, <1>5
  <1>7. (i - first) + 1 \in 1 .. (n - first) + 1 /\ (first + ((i - first) + 1)) - 1 = i
    BY <1>1, <1>5
  <1> QED
    BY <1>6, <1>7

\* What is not acknowledged is within the window, hence ahead, hence kept.
LEMMA PopCareful ==
  ASSUME NoReuse, FitsWindow, NEW n \in 0 .. MaxChunks, NEW b, NEW d, NEW a,
         NEW l \in Links, Tracked(l), Careful(l, n, b, d, a)
  PROVE  Careful(PopAcked(l), n, b, d, a)
  <1> DEFINE m == PopAcked(l)
             s == Sent(l, n)
  <1> SUFFICES ASSUME m.state # "dead" PROVE Careful(m, n, b, d, a)
    BY DEF Careful
  <1>1. m \in Sound /\ m.state = l.state /\ m.out = l.out
    BY PopFacts
  <1>2. /\ m.unacked = Kept(l) /\ m.lsp = l.lsp /\ m.sentPsn = l.sentPsn /\ m.queued = l.queued
        /\ m.lastSentAcked = l.lastSentAcked /\ m.lastIn = l.lastIn /\ m.delivered = l.delivered
    <2>1. PICK due \in Seq(Psns) : Lists(m) = Lists([l EXCEPT !.unacked = Kept(l), !.due = due])
      BY PopFacts
    <2> DEFINE w == [l EXCEPT !.unacked = Kept(l), !.due = due]
    <2>2. /\ w.unacked = Kept(l) /\ w.lsp = l.lsp /\ w.sentPsn = l.sentPsn /\ w.queued = l.queued
          /\ w.lastSentAcked = l.lastSentAcked /\ w.lastIn = l.lastIn /\ w.delivered = l.delivered
      BY DEF Links
    <2>3. Lists(m) = Lists(w)
      BY <2>1
    <2> HIDE DEF w, m
    <2> QED
      BY <2>2, <2>3, ListsSame
  <1> HIDE DEF m
  <1>3. /\ s \in Nat /\ b <= s /\ Behind(l, s) /\ Recent(l, s)
        /\ Spoken(l, s, d) /\ Windowed(l, s, a)
    BY <1>1 DEF Careful
  <1>4. Sent(m, n) = s /\ Behind(m, s) /\ Spoken(m, s, d)
    BY <1>1, <1>2, <1>3 DEF Sent, Behind, Spoken, Following
  <1>5. s \in 0 .. MaxChunks /\ MaxChunks \in Nat
    BY <1>3, SessionAssumption DEF Sent, Links
  <1> HIDE DEF s
  <1>6. Due(l) = {l.unacked[i].psn : i \in DOMAIN l.unacked}
    BY DEF Tracked, Due
  <1>7. Due(m) = {Kept(l)[i].psn : i \in DOMAIN Kept(l)}
    BY <1>1, <1>2 DEF Sound, Tracked, Due
  <1>8. Recent(m, s)
    <2>1. \A psn \in Due(m) : psn \in Due(l)
      BY <1>6, <1>7, KeptFacts
    <2> QED
      BY <1>3, <2>1 DEF Recent
  <1>9. ASSUME Retransmits, NEW c \in a + 1 .. s
        PROVE  Psn(c) \in Due(m)
    <2>1. /\ a \in 0 .. s /\ l.lastSentAcked = Psn(a) /\ s - a <= PhoneLsp.maxOutgoing + 1
          /\ Psn(c) \in Due(l) /\ l.lsp = PhoneLsp
      BY <1>3, <1>9 DEF Windowed, Spoken
    <2>2. PICK i \in DOMAIN l.unacked : l.unacked[i].psn = Psn(c)
      BY <1>6, <2>1
    <2>3. a \in 0 .. MaxChunks /\ c \in 0 .. MaxChunks /\ a <= c /\ c - a >= 1 /\ c - a <= s - a
      BY <1>5, <2>1
    <2>4. Distance(l.unacked[i].psn, l.lastSentAcked) = c - a
      BY <2>1, <2>2, <2>3, Distances
    <2>5. c - a \in 1 .. l.lsp.maxAck + Slack
      <3>1. PhoneLsp.maxOutgoing \in Nat /\ PhoneLsp.maxAck \in Nat /\ Slack \in Nat
        BY SessionAssumption, PsnAssumption DEF Lsps
      <3>2. PhoneLsp.maxOutgoing + 1 <= PhoneLsp.maxAck + Slack
        BY DEF FitsWindow
      <3> QED
        BY <1>5, <2>1, <2>3, <3>1, <3>2
    <2>6. AheadOf(l.unacked[i], l.lastSentAcked, l)
      BY <2>4, <2>5 DEF AheadOf
    <2>7. PICK j \in DOMAIN Kept(l) : Kept(l)[j] = l.unacked[i]
      BY <2>6, KeptAhead
    <2> QED
      BY <1>7, <2>2, <2>7
  <1>10. Windowed(m, s, a)
    BY <1>2, <1>3, <1>9 DEF Windowed
  <1> QED
    BY <1>3, <1>4, <1>8, <1>10 DEF Careful

\* The acknowledgement counts from the number that the packet brought.
LEMMA HandleAckCareful ==
  ASSUME NoReuse, FitsWindow, NEW n \in 0 .. MaxChunks, NEW b \in Nat, NEW d \in Nat, NEW a,
         NEW l \in Sound, l.state \in {"negotiate", "normal", "dead"}, Sends(l, n),
         NEW ack \in Psns, Careful([l EXCEPT !.lastSentAcked = ack], n, b, d, a)
  PROVE  Careful(HandleAck(l, ack), n, b, d, a)
  <1> DEFINE up == IF l.state = "negotiate"
                   THEN Disarmed([l EXCEPT !.state = "normal"], "negotiate") ELSE l
             m == [up EXCEPT !.lastSentAcked = ack]
             w == [l EXCEPT !.lastSentAcked = ack]
  <1>1. l \in Links /\ Tracked(l) /\ l.timers \ {"negotiate"} \in SUBSET Timers /\ n \in Nat
    BY DEF Sound, Links
  <1>2. /\ up \in Links /\ up.unacked = l.unacked /\ up.due = l.due
        /\ up.queued = l.queued /\ up.sentPsn = l.sentPsn /\ up.out = l.out /\ up.lsp = l.lsp
        /\ up.lastIn = l.lastIn /\ up.delivered = l.delivered
        /\ up.state = IF l.state = "negotiate" THEN "normal" ELSE l.state
    <2>1. CASE l.state = "negotiate"
      <3>1. up = [l EXCEPT !.state = "normal", !.timers = l.timers \ {"negotiate"}]
        BY <1>1, <2>1 DEF Disarmed, Links
      <3> HIDE DEF up
      <3> QED
        BY <1>1, <2>1, <3>1 DEF Links, States
    <2>2. CASE l.state # "negotiate"
      BY <1>1, <2>2
    <2> QED
      BY <2>1, <2>2
  <1> HIDE DEF up
  <1>3. /\ m \in Links /\ m.unacked = up.unacked /\ m.due = up.due /\ m.queued = up.queued
        /\ m.sentPsn = up.sentPsn /\ m.out = up.out /\ m.lsp = up.lsp
        /\ m.lastIn = up.lastIn /\ m.delivered = up.delivered /\ m.state = up.state
        /\ m.lastSentAcked = ack
    BY <1>2 DEF Links
  <1>4. /\ w.due = l.due /\ w.queued = l.queued /\ w.sentPsn = l.sentPsn /\ w.out = l.out
        /\ w.lsp = l.lsp /\ w.lastIn = l.lastIn /\ w.delivered = l.delivered
        /\ w.state = l.state /\ w.lastSentAcked = ack
    BY <1>1 DEF Links
  <1>5. Careful(w, n, b, d, a)
    OBVIOUS
  <1> HIDE DEF m, w
  <1>6. Careful(m, n, b, d, a)
    <2>1. Alike(w, m) /\ m.out = w.out
      BY <1>2, <1>3, <1>4 DEF Alike, Due
    <2> QED
      BY <1>5, <2>1, AlikeCareful
  <1>7. Tracked(m)
    <2>1. m.unacked = l.unacked /\ m.due = l.due
      BY <1>2, <1>3
    <2> QED
      BY <1>1, <2>1 DEF Tracked
  <1>8. Sends(m, n) /\ m.state \in {"normal", "dead"}
    <2>1. m.queued = l.queued /\ m.sentPsn = l.sentPsn /\ m.unacked = l.unacked /\ m.out = l.out
      BY <1>2, <1>3
    <2>2. m.state = l.state \/ m.state = "dead" \/ (l.state \in Early /\ m.state = "normal")
      BY <1>2, <1>3 DEF Early
    <2> QED
      BY <1>1, <1>2, <1>3, <2>1, <2>2, SendsKept
  <1> DEFINE k == PopAcked(m)
  <1>9. k \in Sound /\ Careful(k, n, b, d, a) /\ k.state = m.state
    BY <1>3, <1>6, <1>7, PopFacts, PopCareful
  <1>10. Sends(k, n)
    <2>1. PICK due \in Seq(Psns) : Lists(k) = Lists([m EXCEPT !.unacked = Kept(m), !.due = due])
      BY <1>3, <1>7, PopFacts
    <2> DEFINE v == [m EXCEPT !.unacked = Kept(m), !.due = due]
    <2>2. v.unacked = Kept(m) /\ v.sentPsn = m.sentPsn /\ v.queued = m.queued
      BY <1>3 DEF Links
    <2>3. Lists(k) = Lists(v) /\ k.out = m.out
      BY <1>3, <1>7, <2>1, PopFacts
    <2> HIDE DEF v, k
    <2>4. k.unacked = Kept(m) /\ k.sentPsn = m.sentPsn /\ k.queued = m.queued
      BY <2>2, <2>3, ListsSame
    <2>5. \A i \in DOMAIN k.unacked : \E j \in DOMAIN m.unacked : k.unacked[i] = m.unacked[j]
      BY <1>3, <2>4, KeptFacts
    <2> QED
      BY <1>1, <1>3, <1>8, <1>9, <2>3, <2>4, <2>5, SendsKept
  <1>11. HandleAck(l, ack) = Drain(k)
    BY DEF HandleAck, m, up
  <1> HIDE DEF k
  <1>12. Careful(Drain(k), n, b, d, a)
    BY <1>8, <1>9, <1>10, DrainCareful
  <1> QED
    BY <1>11, <1>12

\* An acknowledgement of chunk x, not before the last one.
LEMMA AckCareful ==
  ASSUME NEW n \in 0 .. MaxChunks, NEW b, NEW d, NEW a \in Nat, NEW l \in Links,
         Careful(l, n, b, d, a), NEW ack, NEW x \in Nat,
         l.state # "dead" /\ Retransmits => ack = Psn(x) /\ x \in a .. Sent(l, n)
  PROVE  Careful([l EXCEPT !.lastSentAcked = ack], n, b, d, x)
  <1> DEFINE m == [l EXCEPT !.lastSentAcked = ack]
             s == Sent(l, n)
  <1>1. /\ m.lsp = l.lsp /\ m.sentPsn = l.sentPsn /\ m.queued = l.queued /\ m.due = l.due
        /\ m.lastIn = l.lastIn /\ m.delivered = l.delivered /\ m.out = l.out
        /\ m.state = l.state /\ m.lastSentAcked = ack
    BY DEF Links
  <1> HIDE DEF m
  <1> SUFFICES ASSUME m.state # "dead" PROVE Careful(m, n, b, d, x)
    BY DEF Careful, m
  <1>2. Sent(m, n) = s /\ Due(m) = Due(l)
    BY <1>1 DEF Sent, Due
  <1> HIDE DEF s
  <1>3. /\ s \in Nat /\ b <= s /\ Behind(l, s) /\ Recent(l, s)
        /\ Spoken(l, s, d) /\ Windowed(l, s, a)
    BY <1>1 DEF Careful, s
  <1>4. Behind(m, s) /\ Recent(m, s) /\ Spoken(m, s, d)
    BY <1>1, <1>2, <1>3 DEF Behind, Recent, Spoken, Following
  <1>5. ASSUME Retransmits
        PROVE  /\ x \in 0 .. s /\ m.lastSentAcked = Psn(x) /\ s - x <= PhoneLsp.maxOutgoing + 1
               /\ \A c \in x + 1 .. s : Psn(c) \in Due(m)
    <2>1. ack = Psn(x) /\ x \in a .. s
      BY <1>1, <1>5 DEF s
    <2>2. /\ a \in 0 .. s /\ s - a <= PhoneLsp.maxOutgoing + 1
          /\ \A c \in a + 1 .. s : Psn(c) \in Due(l)
      BY <1>3, <1>5 DEF Windowed
    <2>3. PhoneLsp.maxOutgoing \in Nat
      BY SessionAssumption DEF Lsps
    <2>4. x \in 0 .. s /\ s - x <= PhoneLsp.maxOutgoing + 1 /\ \A c \in x + 1 .. s : c \in a + 1 .. s
      BY <1>3, <2>1, <2>2, <2>3
    <2> QED
      BY <1>1, <1>2, <2>1, <2>2, <2>4
  <1> QED
    BY <1>2, <1>3, <1>4, <1>5 DEF Careful, Windowed
-----------------------------------------------------------------------------
(* Sending again, and receiving, keep a link careful.                         *)

\* What is kept for retransmission has been sent.
LEMMA KeptWasSent ==
  ASSUME NoReuse, NEW n \in 0 .. MaxChunks, NEW s \in Nat, s <= n, NEW l,
         Tracked(l), Sends(l, n), Recent(l, s), NEW i \in DOMAIN l.unacked
  PROVE  Numbered(l.unacked[i], s)
  <1>1. n \in Nat /\ MaxChunks \in Nat
    BY SessionAssumption
  <1>2. l.unacked[i].chunk \in 1 .. n /\ l.unacked[i].psn = Psn(l.unacked[i].chunk)
    BY DEF Sends, Numbered
  <1>3. l.unacked[i].psn \in Due(l)
    BY DEF Tracked, Due
  <1>4. PICK c \in 1 .. s : l.unacked[i].psn = Psn(c)
    BY <1>3 DEF Recent
  <1>5. c \in 0 .. MaxChunks /\ l.unacked[i].chunk \in 0 .. MaxChunks
    BY <1>1, <1>2
  <1>6. l.unacked[i].chunk = c
    BY <1>2, <1>4, <1>5, Distances
  <1> QED
    BY <1>2, <1>6 DEF Numbered

LEMMA ResendCareful ==
  ASSUME NoReuse, NEW n \in 0 .. MaxChunks, NEW b \in Nat, NEW d \in Nat, NEW a, NEW l \in Sound,
         Sends(l, n), Careful(l, n, b, d, a), NEW i \in DOMAIN l.unacked
  PROVE  Careful(Resend(l, i), n, b, d, a)
  <1> DEFINE count == l.unacked[i].counter + 1
             unacked == [l.unacked EXCEPT ![i].counter = count]
             counted == [l EXCEPT !.unacked = unacked]
             sent == SendData(counted, counted.unacked[i])
             quiet == Disarmed(sent, "sendAck")
             entry == [l.unacked[i] EXCEPT !.counter = count]
  <1>1. l \in Links /\ l.unacked \in Seq(Unacked) /\ Tracked(l)
    BY DEF Sound, Links
  <1>2. l.unacked[i] \in Unacked
    BY <1>1
  <1>3. count \in Nat
    BY <1>2 DEF Unacked
  <1>4. Resend(l, i) = IF count = l.lsp.maxRetransmissions THEN Bailout(counted)
                       ELSE Armed(quiet, "recvAck")
    BY <1>1 DEF Resend, Links
  <1> HIDE DEF count
  <1>5. entry \in Unacked /\ entry.psn = l.unacked[i].psn /\ entry.chunk = l.unacked[i].chunk
    BY <1>2, <1>3 DEF Unacked
  <1>6. unacked = [l.unacked EXCEPT ![i] = entry]
    OBVIOUS
  <1> HIDE DEF entry, unacked
  <1>7. unacked \in Seq(Unacked) /\ unacked[i] = entry
    BY <1>1, <1>5, <1>6
  <1>8. counted \in Links /\ Alike(l, counted) /\ counted.out = l.out /\ counted.unacked = unacked
        /\ Sent(counted, n) = Sent(l, n) /\ counted.state = l.state
    BY <1>1, <1>7 DEF Links, Alike, Due, Sent
  <1> HIDE DEF counted
  <1>9. Careful(counted, n, b, d, a)
    BY <1>8, AlikeCareful
  <1>10. ASSUME l.state # "dead" PROVE Numbered(entry, Sent(l, n))
    <2> DEFINE s == Sent(l, n)
    <2>1. s \in Nat /\ Recent(l, s) /\ s <= n
      <3>1. s \in Nat /\ Recent(l, s)
        BY <1>10 DEF Careful
      <3>2. Len(l.queued) \in Nat /\ n \in Nat
        BY <1>1 DEF Links
      <3> QED
        BY <3>1, <3>2 DEF Sent
    <2> HIDE DEF s
    <2>2. Numbered(l.unacked[i], s)
      BY <1>1, <2>1, KeptWasSent
    <2> QED
      BY <1>5, <2>2 DEF Numbered, s
  <1>11. sent \in Links /\ Careful(sent, n, b, d, a)
    <2>1. {} \in SUBSET Psns /\ counted.unacked[i] = entry
      BY <1>7, <1>8
    <2> QED
      BY <1>5, <1>8, <1>9, <1>10, <2>1, SendFacts, SendsCareful
  <1> HIDE DEF sent
  <1>12. quiet \in Links /\ Careful(quiet, n, b, d, a)
    <2>1. sent.timers \ {"sendAck"} \in SUBSET Timers
      BY <1>11 DEF Links
    <2>2. quiet \in Links
      BY <1>11, <2>1 DEF Disarmed, Links
    <2> QED
      BY <1>11, <2>2, TimersCareful
  <1> HIDE DEF quiet
  <1>13. Careful(Armed(quiet, "recvAck"), n, b, d, a) /\ Careful(Bailout(counted), n, b, d, a)
    BY <1>8, <1>9, <1>12, TimersCareful
  <1> QED
    BY <1>4, <1>13

LEMMA HandleEakCareful ==
  ASSUME NoReuse, NEW n \in 0 .. MaxChunks, NEW b \in Nat, NEW d \in Nat, NEW a, NEW l \in Sound,
         Sends(l, n), Careful(l, n, b, d, a), NEW missing \in SUBSET Psns
  PROVE  Careful(HandleEak(l, missing), n, b, d, a)
  <1> DEFINE r == Len(l.unacked)
             s == [i \in DOMAIN l.unacked |->
                     [at |-> i, named |-> l.unacked[i].psn \in missing]]
             Good == [k \in 0 .. r |-> {m \in Sound : /\ Len(m.unacked) = r /\ Sends(m, n)
                                                      /\ Careful(m, n, b, d, a)}]
  <1>1. r \in Nat /\ DOMAIN l.unacked = 1 .. r /\ n \in Nat
    BY DEF Sound, Links
  <1> HIDE DEF r
  <1>2. /\ s \in Seq([at : Nat, named : BOOLEAN]) /\ Len(s) = r
        /\ \A k \in 1 .. r : s[k].at = k
    <2>1. \A i \in 1 .. r : [at |-> i, named |-> l.unacked[i].psn \in missing] \in [at : Nat, named : BOOLEAN]
      BY <1>1
    <2> QED
      BY <1>1, <2>1
  <1> HIDE DEF s
  <1>3. \A k \in 1 .. r : k - 1 \in 0 .. r /\ k \in 0 .. r
    BY <1>1
  <1>4. ASSUME NEW k \in 1 .. r, NEW m \in Sound, Len(m.unacked) = r, Sends(m, n),
               Careful(m, n, b, d, a)
        PROVE  LET o == ResendNamed(m, s[k])
               IN o \in Sound /\ Len(o.unacked) = r /\ Sends(o, n) /\ Careful(o, n, b, d, a)
    <2>1. m.unacked \in Seq(Unacked)
      BY DEF Sound, Links
    <2>2. k \in DOMAIN m.unacked
      BY <1>4, <2>1
    <2>3. Resend(m, k) \in Sound /\ Len(Resend(m, k).unacked) = r
      BY <1>4, <2>2, ResendSound
    <2>4. Sends(Resend(m, k), n)
      BY <1>1, <1>4, <2>2, ResendFollows DEF Follows
    <2>5. Careful(Resend(m, k), n, b, d, a)
      BY <1>4, <2>2, ResendCareful
    <2> QED
      BY <1>2, <1>4, <2>3, <2>4, <2>5 DEF ResendNamed
  <1>5. \A k \in 1 .. r : \A m \in Good[k - 1] : ResendNamed(m, s[k]) \in Good[k]
    BY <1>3, <1>4
  <1>6. l \in Good[0] /\ \A m \in Good[r] : Careful(m, n, b, d, a)
    BY <1>1 DEF r
  <1> HIDE DEF Good
  <1>7. FoldLeft(ResendNamed, l, s) \in Good[r]
    BY <1>2, <1>5, <1>6, Loops
  <1> QED
    BY <1>6, <1>7 DEF HandleEak, s

LEMMA AcknowledgeCareful ==
  ASSUME NoReuse, NEW n, NEW b, NEW d \in Nat, NEW a, NEW l \in Links, Careful(l, n, b, d, a)
  PROVE  Careful(AcknowledgeData(l), n, b, d, a) /\ Careful(CumulativeAck(l), n, b, d, a)
  <1>1. {} \in SUBSET Psns
    OBVIOUS
  <1>2. ASSUME NEW k \in Links, Careful(k, n, b, d, a)
        PROVE  Careful(SendAck([k EXCEPT !.lastAcked = k.lastIn]), n, b, d, a)
    <2> DEFINE m == [k EXCEPT !.lastAcked = k.lastIn]
    <2>1. m \in Links /\ Alike(k, m) /\ m.out = k.out
      BY DEF Links, Alike, Due
    <2> HIDE DEF m
    <2>2. Careful(m, n, b, d, a)
      BY <1>2, <2>1, AlikeCareful
    <2>3. Careful(SendAck(m), n, b, d, a)
      BY <1>1, <2>1, <2>2, SendsCareful
    <2> QED
      BY <2>3 DEF m
  <1>3. Disarmed(l, "sendAck") \in Links /\ Disarmed(l, "sendAck").lastIn = l.lastIn
    <2>1. l.timers \ {"sendAck"} \in SUBSET Timers
      BY DEF Links
    <2> QED
      BY <2>1 DEF Disarmed, Links
  <1>4. Careful(Disarmed(l, "sendAck"), n, b, d, a) /\ Careful(Armed(l, "sendAck"), n, b, d, a)
    BY TimersCareful
  <1>5. Careful(SendAck([Disarmed(l, "sendAck") EXCEPT !.lastAcked = l.lastIn]), n, b, d, a)
    BY <1>2, <1>3, <1>4
  <1>6. Careful(SendAck([l EXCEPT !.lastAcked = l.lastIn]), n, b, d, a)
    BY <1>2
  <1> QED
    BY <1>4, <1>5, <1>6 DEF AcknowledgeData, CumulativeAck

\* What delivering leaves alone.
Outbound(l) == [lsp |-> l.lsp, sentPsn |-> l.sentPsn, queued |-> l.queued, due |-> l.due,
                lastSentAcked |-> l.lastSentAcked, out |-> l.out, state |-> l.state]

LEMMA OutboundSame ==
  ASSUME NEW l, NEW m, Outbound(m) = Outbound(l)
  PROVE  /\ m.lsp = l.lsp /\ m.sentPsn = l.sentPsn /\ m.queued = l.queued /\ m.due = l.due
         /\ m.lastSentAcked = l.lastSentAcked /\ m.out = l.out /\ m.state = l.state
  BY DEF Outbound

LEMMA DeliverOutbound ==
  ASSUME NEW l \in Sound
  PROVE  Outbound(DeliverAll(l)) = Outbound(l)
  <1> DEFINE s == l.outOfSequence
             Good == [k \in 0 .. Len(s) |-> {m \in Sound : Outbound(m) = Outbound(l)}]
  <1>1. s \in Seq(Held)
    BY DEF Sound, Links
  <1>2. \A k \in 1 .. Len(s) : k - 1 \in 0 .. Len(s) /\ k \in 0 .. Len(s)
    BY <1>1
  <1>3. ASSUME NEW m \in Sound, Outbound(m) = Outbound(l)
        PROVE  DeliverNext(m) \in Sound /\ Outbound(DeliverNext(m)) = Outbound(l)
    <2>1. m \in Links
      BY DEF Sound
    <2>2. ASSUME NEW i, DeliverNext(m) = [m EXCEPT !.lastIn = m.outOfSequence[i].psn,
                                            !.delivered = Append(@, m.outOfSequence[i].chunk),
                                            !.outOfSequence = RemoveAt(@, i)]
          PROVE  Outbound(DeliverNext(m)) = Outbound(m)
      BY <2>1, <2>2 DEF Links, Outbound
    <2> QED
      BY <1>3, <2>1, <2>2, DeliverFacts, DeliverSound
  <1>4. \A k \in 1 .. Len(s) : \A m \in Good[k - 1] : DeliverNext(m) \in Good[k]
    BY <1>2, <1>3
  <1>5. l \in Good[0] /\ \A m \in Good[Len(s)] : Outbound(m) = Outbound(l)
    BY <1>1
  <1> HIDE DEF Good
  <1>6. FoldLeft(LAMBDA m, held : DeliverNext(m), l, s) \in Good[Len(s)]
    BY <1>1, <1>4, <1>5, Loops
  <1> QED
    BY <1>5, <1>6 DEF DeliverAll

\* What has been delivered since is acknowledged by what is written next.
LEMMA GrowsCareful ==
  ASSUME NoReuse, NEW n, NEW b, NEW d \in Nat, NEW a, NEW l \in Links, NEW m \in Links,
         Careful(l, n, b, d, a), Outbound(m) = Outbound(l),
         Following(m), Len(l.delivered) <= Len(m.delivered), Len(m.delivered) <= MaxChunks
  PROVE  Careful(m, n, b, d, a)
  <1> DEFINE s == Sent(l, n)
             x == Len(l.delivered)
             y == Len(m.delivered)
  <1>1. /\ m.lsp = l.lsp /\ m.sentPsn = l.sentPsn /\ m.queued = l.queued /\ m.due = l.due
        /\ m.lastSentAcked = l.lastSentAcked /\ m.out = l.out /\ m.state = l.state
    BY OutboundSame
  <1> SUFFICES ASSUME m.state # "dead" PROVE Careful(m, n, b, d, a)
    BY DEF Careful
  <1>2. Sent(m, n) = s /\ Due(m) = Due(l)
    BY <1>1 DEF Sent, Due
  <1> HIDE DEF s
  <1>3. /\ s \in Nat /\ b <= s /\ Behind(l, s) /\ Recent(l, s)
        /\ Spoken(l, s, d) /\ Windowed(l, s, a)
    BY <1>1 DEF Careful, s
  <1>4. Behind(m, s) /\ Recent(m, s) /\ Windowed(m, s, a)
    BY <1>1, <1>2, <1>3 DEF Behind, Recent, Windowed
  <1>5. x \in 0 .. MaxChunks /\ y \in 0 .. MaxChunks /\ x <= y /\ d <= x /\ Rising(l.out, d, x)
    <2>1. x \in Nat /\ y \in Nat
      BY DEF Links
    <2> QED
      BY <1>3, <2>1, SessionAssumption DEF Spoken
  <1>6. d <= y
    BY <1>5, SessionAssumption
  <1> HIDE DEF x, y
  <1>7. Rising(l.out, d, y)
    BY <1>5, RisingMore
  <1>8. Spoken(m, s, d)
    BY <1>1, <1>3, <1>6, <1>7 DEF Spoken, y
  <1> QED
    BY <1>2, <1>3, <1>4, <1>8 DEF Careful

LEMMA HandleDataCareful ==
  ASSUME NoReuse, NEW n \in Nat, NEW m \in 0 .. MaxChunks, NEW b \in Nat, NEW d \in Nat, NEW a,
         NEW l \in Sound, Sends(l, n), Receives(l, m), Following(l), Careful(l, n, b, d, a),
         NEW p \in Packets, Carries(p, m), p.chunk # None
  PROVE  Careful(HandleData(l, p), n, b, d, a)
  <1> DEFINE entry == [psn |-> p.seq, chunk |-> p.chunk]
             kept == Append(l.outOfSequence, entry)
             held == [l EXCEPT !.outOfSequence = kept]
             quiet == Disarmed(held, "sendAck")
             missing == Missing(l, p.seq)
  <1>1. l \in Links /\ p.seq \in Psns /\ l.outOfSequence \in Seq(Held)
    BY DEF Sound, Links, Packets
  <1>2. p.chunk \in 1 .. m /\ p.seq = Psn(p.chunk) /\ m \in Nat
    BY SessionAssumption DEF Carries, None
  <1>3. entry \in Held /\ Numbered(entry, m)
    BY <1>1, <1>2 DEF Held, Numbered
  <1> HIDE DEF entry
  <1>4. kept \in Seq(Held) /\ \A i \in DOMAIN kept : Numbered(kept[i], m)
    <2> DEFINE r == Len(l.outOfSequence)
    <2>1. r \in Nat /\ DOMAIN l.outOfSequence = 1 .. r
      BY <1>1
    <2>2. /\ kept \in Seq(Held) /\ DOMAIN kept = 1 .. r + 1 /\ kept[r + 1] = entry
          /\ \A i \in 1 .. r : kept[i] = l.outOfSequence[i]
      BY <1>1, <1>3, <2>1
    <2>3. \A i \in 1 .. r : Numbered(l.outOfSequence[i], m)
      BY <2>1 DEF Receives
    <2> HIDE DEF r, kept
    <2>4. \A i \in 1 .. r + 1 : i \in 1 .. r \/ i = r + 1
      BY <2>1
    <2> QED
      BY <1>3, <2>2, <2>3, <2>4
  <1> HIDE DEF kept
  <1>5. /\ held \in Links /\ held.outOfSequence = kept /\ held.lastIn = l.lastIn
        /\ held.delivered = l.delivered /\ held.unacked = l.unacked /\ held.due = l.due
        /\ held.queued = l.queued /\ held.sentPsn = l.sentPsn /\ held.out = l.out
        /\ held.state = l.state /\ held.timers = l.timers /\ held.lsp = l.lsp
        /\ held.lastSentAcked = l.lastSentAcked
    BY <1>1, <1>4 DEF Links
  <1>6. HandleData(l, p) =
          IF Distance(p.seq, l.lastIn) > l.lsp.maxOutgoing + Slack \/ Distance(p.seq, l.lastIn) = 0
          THEN SendAck(l)
          ELSE IF Distance(p.seq, l.lastIn) = 1 THEN AcknowledgeData(DeliverAll(held))
          ELSE IF Distance(p.seq, l.lastIn) >= l.lsp.maxOutgoing THEN SendEak(quiet, missing)
          ELSE held
    BY DEF HandleData, kept, entry
  <1> HIDE DEF held
  <1>7. held \in Sound
    BY <1>5, EditSound
  <1>8. Careful(held, n, b, d, a)
    <2>1. Alike(l, held)
      BY <1>5 DEF Alike, Due
    <2> QED
      BY <1>5, <2>1, AlikeCareful
  <1>9. Sends(held, n) /\ Receives(held, m) /\ Following(held)
    <2>1. Sends(held, n)
      BY <1>1, <1>5, SendsKept
    <2> QED
      BY <1>4, <1>5, <2>1 DEF Receives, Following
  <1>10. missing \in SUBSET Psns
    BY <1>1, MissingFacts
  <1> HIDE DEF missing
  <1>11. Careful(SendAck(l), n, b, d, a)
    BY <1>1, <1>10, SendsCareful
  <1>12. Careful(AcknowledgeData(DeliverAll(held)), n, b, d, a)
    <2> DEFINE o == DeliverAll(held)
    <2>1. Takes(held, o, n, m)
      BY <1>7, <1>9, DeliverAllTakes
    <2>2. o \in Links /\ Outbound(o) = Outbound(held)
      BY <1>7, DeliverAllSound, DeliverOutbound DEF Sound
    <2> HIDE DEF o
    <2>3. Len(o.delivered) <= MaxChunks
      <3>1. Len(o.delivered) <= m /\ Len(o.delivered) \in Nat /\ MaxChunks \in Nat
        BY <2>1, <2>2, SessionAssumption DEF Takes, Receives, Links
      <3> QED
        BY <3>1
    <2>4. Careful(o, n, b, d, a)
      BY <1>5, <1>8, <2>1, <2>2, <2>3, GrowsCareful DEF Takes
    <2>5. Careful(AcknowledgeData(o), n, b, d, a)
      BY <2>2, <2>4, AcknowledgeCareful
    <2> QED
      BY <2>5 DEF o
  <1>13. Careful(SendEak(quiet, missing), n, b, d, a)
    <2>1. quiet \in Links
      BY <1>7, TimersSound DEF Sound, Timers
    <2>2. Careful(quiet, n, b, d, a)
      BY <1>5, <1>8, TimersCareful
    <2> HIDE DEF quiet
    <2> QED
      BY <1>10, <2>1, <2>2, SendsCareful
  <1> QED
    BY <1>6, <1>8, <1>11, <1>12, <1>13

\* The part of processPacket that an ACK runs, and the data behind it; x is
\* the chunk it acknowledges.
LEMMA AckRunsCareful ==
  ASSUME NoReuse, FitsWindow, NEW n \in 0 .. MaxChunks, NEW m \in 0 .. MaxChunks,
         NEW b \in Nat, NEW d \in Nat, NEW x, NEW l \in Sound,
         Sends(l, n), Receives(l, m), Following(l), l.state \in {"negotiate", "normal", "dead"},
         NEW p \in Packets, p.chunk # None /\ p.control = {"ACK"} => Carries(p, m),
         "ACK" \in p.control, NEW count \in Nat,
         Careful([l EXCEPT !.lastSentAcked = p.ack], n, b, d, x)
  PROVE  LET ack  == HandleAck([l EXCEPT !.cumulative = count], p.ack)
             data == IF p.control \subseteq {"ACK"} /\ p.chunk # None THEN HandleData(ack, p) ELSE ack
         IN Careful(CumulativeAck(data), n, b, d, x)
  <1> DEFINE counted == [l EXCEPT !.cumulative = count]
             ack == HandleAck(counted, p.ack)
             data == IF p.control \subseteq {"ACK"} /\ p.chunk # None THEN HandleData(ack, p) ELSE ack
             v == [l EXCEPT !.lastSentAcked = p.ack]
             w == [counted EXCEPT !.lastSentAcked = p.ack]
  <1>1. l \in Links /\ p.ack \in Psns /\ n \in Nat
    BY DEF Sound, Links, Packets
  <1>2. /\ counted \in Links /\ counted.unacked = l.unacked /\ counted.due = l.due
        /\ counted.queued = l.queued /\ counted.sentPsn = l.sentPsn /\ counted.out = l.out
        /\ counted.state = l.state /\ counted.timers = l.timers
        /\ counted.lsp = l.lsp
        /\ Inbound(counted) = Inbound(l)
    BY <1>1 DEF Links, Inbound
  <1>3. Careful(w, n, b, d, x)
    <2>1. Careful(v, n, b, d, x)
      OBVIOUS
    <2>2. Alike(v, w) /\ w.out = v.out
      BY <1>1 DEF Links, Alike, Due
    <2> HIDE DEF v, w
    <2> QED
      BY <2>1, <2>2, AlikeCareful
  <1> HIDE DEF counted
  <1>4. counted \in Sound /\ Sends(counted, n)
    BY <1>1, <1>2, EditSound, SendsKept
  <1>5. Sends(ack, n) /\ Inbound(ack) = Inbound(counted)
    BY <1>1, <1>2, <1>4, HandleAckFollows
  <1>6. ack \in Sound /\ Careful(ack, n, b, d, x)
    BY <1>1, <1>2, <1>3, <1>4, HandleAckSound, HandleAckCareful
  <1> HIDE DEF ack
  <1>7. Receives(ack, m) /\ Following(ack)
    <2>1. /\ ack.lastIn = l.lastIn /\ ack.delivered = l.delivered
          /\ ack.outOfSequence = l.outOfSequence
      BY <1>2, <1>5, InboundSame
    <2> QED
      BY <2>1 DEF Receives, Following
  <1>8. data \in Sound /\ Careful(data, n, b, d, x)
    <2>1. CASE p.control \subseteq {"ACK"} /\ p.chunk # None
      <3>1. p.control = {"ACK"}
        BY <2>1
      <3>2. Careful(HandleData(ack, p), n, b, d, x)
        BY <1>1, <1>5, <1>6, <1>7, <2>1, <3>1, HandleDataCareful
      <3>3. HandleData(ack, p) \in Sound
        BY <1>6, HandleDataSound
      <3> QED
        BY <2>1, <3>2, <3>3
    <2>2. CASE ~ (p.control \subseteq {"ACK"} /\ p.chunk # None)
      BY <1>6, <2>2
    <2> QED
      BY <2>1, <2>2
  <1> HIDE DEF data
  <1>9. Careful(CumulativeAck(data), n, b, d, x)
    BY <1>8, AcknowledgeCareful DEF Sound
  <1> QED
    BY <1>9 DEF data, ack, counted

LEMMA AckPacketCareful ==
  ASSUME NoReuse, FitsWindow, NEW n \in 0 .. MaxChunks, NEW m \in 0 .. MaxChunks,
         NEW b \in Nat, NEW d \in Nat, NEW x, NEW l \in Sound,
         Sends(l, n), Receives(l, m), Following(l), l.state \in {"negotiate", "normal"},
         NEW p \in Packets,
         \/ p.control = {"ACK"} /\ Carries(p, m)
         \/ p.control = {"SYN", "ACK"} /\ l.state = "normal",
         Careful([l EXCEPT !.lastSentAcked = p.ack], n, b, d, x)
  PROVE  Careful(HandlePacket(l, p), n, b, d, x)
  <1> DEFINE count == CountedTo(l.cumulative, l.lsp.maxAck)
             ack  == HandleAck([l EXCEPT !.cumulative = count], p.ack)
             data == IF p.control \subseteq {"ACK"} /\ p.chunk # None THEN HandleData(ack, p) ELSE ack
  <1>1. l \in Links
    BY DEF Sound
  <1>2. count \in Nat
    BY <1>1 DEF Links, CountedTo
  <1>3. "ACK" \in p.control /\ "EAK" \notin p.control /\ "RST" \notin p.control
    OBVIOUS
  <1>4. "SYN" \in p.control => HandleSyn(l, p) = l
    BY DEF HandleSyn
  <1>5. HandlePacket(l, p) = CumulativeAck(data)
    <2>1. [l EXCEPT !.cumulative = CountedTo(@, l.lsp.maxAck)] = [l EXCEPT !.cumulative = count]
      BY <1>1 DEF Links
    <2> HIDE DEF count
    <2> QED
      BY <1>3, <1>4, <2>1 DEF HandlePacket
  <1> HIDE DEF count
  <1>6. p.chunk # None /\ p.control = {"ACK"} => Carries(p, m)
    OBVIOUS
  <1>7. Careful(CumulativeAck(data), n, b, d, x)
    BY <1>2, <1>3, <1>6, AckRunsCareful
  <1> QED
    BY <1>5, <1>7

LEMMA OtherPacketCareful ==
  ASSUME NoReuse, NEW n \in 0 .. MaxChunks, NEW b \in Nat, NEW d \in Nat, NEW a, NEW l \in Sound,
         Sends(l, n), Careful(l, n, b, d, a), NEW p \in Packets, p.control = {"EAK"}
  PROVE  Careful(HandlePacket(l, p), n, b, d, a)
  <1> DEFINE eak == IF p.missing # {} THEN HandleEak(l, p.missing) ELSE l
  <1>1. l \in Links /\ p.missing \in SUBSET Psns
    BY DEF Sound, Packets
  <1>2. /\ "SYN" \notin p.control /\ "ACK" \notin p.control /\ "EAK" \in p.control
        /\ "RST" \notin p.control /\ ~ (p.control \subseteq {"ACK"})
    OBVIOUS
  <1>3. HandlePacket(l, p) = CumulativeAck(eak)
    BY <1>2 DEF HandlePacket
  <1>4. eak \in Sound /\ Careful(eak, n, b, d, a)
    BY <1>1, HandleEakSound, HandleEakCareful
  <1> HIDE DEF eak
  <1>5. Careful(CumulativeAck(eak), n, b, d, a)
    BY <1>4, AcknowledgeCareful DEF Sound
  <1> QED
    BY <1>3, <1>5

\* The answer to the SYN brings the parameters and acknowledges it.
LEMMA SynPacketCareful ==
  ASSUME NoReuse, FitsWindow, NEW n \in 0 .. MaxChunks, NEW m \in 0 .. MaxChunks, NEW l \in Sound,
         Sends(l, n), Receives(l, m), l.state = "negotiate", l.delivered = << >>, l.out = << >>,
         Recent(l, 0), NEW p \in Packets, p.control = {"SYN", "ACK"}, p.seq = FirstPsn,
         p.lsp = PhoneLsp, Retransmits => p.ack = Psn(0)
  PROVE  Careful(HandlePacket(l, p), n, 0, 0, 0)
  <1> DEFINE adopted == [l EXCEPT !.lsp = p.lsp, !.lastIn = p.seq, !.lastAcked = p.seq]
             syn == SendAck(adopted)
             count == CountedTo(syn.cumulative, syn.lsp.maxAck)
             ack  == HandleAck([syn EXCEPT !.cumulative = count], p.ack)
             data == IF p.control \subseteq {"ACK"} /\ p.chunk # None THEN HandleData(ack, p) ELSE ack
             packet == Packet(adopted, {"ACK"}, adopted.sentPsn, None, {}, NoLsp)
             w == [adopted EXCEPT !.lastSentAcked = p.ack]
             v == [syn EXCEPT !.lastSentAcked = p.ack]
  <1>1. l \in Links /\ p.seq \in Psns /\ p.lsp \in Lsps /\ p.ack \in Psns /\ n \in Nat /\ m \in Nat
    BY SessionAssumption DEF Sound, Packets
  <1>2. /\ adopted \in Links /\ adopted.lastIn = FirstPsn /\ adopted.lsp = PhoneLsp
        /\ adopted.delivered = l.delivered /\ adopted.outOfSequence = l.outOfSequence
        /\ adopted.queued = l.queued /\ adopted.sentPsn = l.sentPsn
        /\ adopted.unacked = l.unacked /\ adopted.due = l.due
        /\ adopted.out = l.out /\ adopted.state = l.state /\ adopted.timers = l.timers
    BY <1>1 DEF Links
  <1> HIDE DEF adopted
  <1>3. /\ w \in Links /\ w.lastIn = FirstPsn /\ w.lsp = PhoneLsp /\ w.delivered = << >>
        /\ w.queued = l.queued /\ w.sentPsn = l.sentPsn /\ w.due = l.due /\ w.out = << >>
        /\ w.state = "negotiate" /\ w.lastSentAcked = p.ack
    BY <1>1, <1>2 DEF Links
  <1>4. {} \in SUBSET Psns /\ [psn |-> 0, chunk |-> 0, counter |-> 0] \in Unacked
    BY Numbers DEF Unacked
  <1>5. syn \in Links /\ Wrote(adopted, syn, packet)
    BY <1>2, <1>4, SendFacts
  <1>6. Tells(w, packet) /\ packet.control = {"ACK"} /\ packet.chunk = None
    BY <1>2, <1>3 DEF Packet, Tells
  <1> HIDE DEF packet, syn
  <1>7. Wrote(w, v, packet)
    <2>1. v.state = syn.state /\ v.timers = syn.timers /\ v.out = syn.out
      BY <1>5 DEF Links
    <2>2. w.state = adopted.state /\ w.timers = adopted.timers /\ w.out = adopted.out
      BY <1>2 DEF Links
    <2>3. Lists(syn) = Lists(adopted)
      BY <1>5 DEF Wrote
    <2>4. Lists(v) = Lists(w)
      BY <1>2, <1>5, <2>3, ListsSame DEF Lists, Links
    <2> HIDE DEF v, w
    <2> QED
      BY <1>5, <2>1, <2>2, <2>4 DEF Wrote
  <1>8. Sent(l, n) = 0 /\ Behind(l, 0) /\ l.sentPsn = Psn(0)
    BY DEF Sends, InLine, Early, Sent, Behind
  <1>9. Careful(w, n, 0, 0, 0)
    <2>1. Sent(w, n) = 0 /\ Due(w) = Due(l)
      BY <1>3, <1>8 DEF Sent, Due
    <2>2. Behind(w, 0) /\ Recent(w, 0)
      BY <1>3, <1>8, <2>1 DEF Behind, Recent
    <2>3. DOMAIN << >> = {} /\ Len(<< >>) = 0
      OBVIOUS
    <2>4. Rising(w.out, 0, 0) /\ \A i \in DOMAIN w.out : Carries(w.out[i], 0)
      BY <1>3, <2>3 DEF Rising, Acks
    <2>5. Len(w.delivered) = 0
      BY <1>3, <2>3
    <2>6. Spoken(w, 0, 0)
      <3>1. Following(w)
        BY <1>3, <2>5, PsnFacts DEF Following
      <3>2. 0 <= MaxChunks
        BY SessionAssumption
      <3> HIDE DEF w
      <3> QED
        BY <1>3, <1>8, <2>4, <2>5, <3>1, <3>2 DEF Spoken
    <2>7. Windowed(w, 0, 0)
      <3>1. PhoneLsp.maxOutgoing \in Nat
        BY SessionAssumption DEF Lsps
      <3>2. 0 \in 0 .. 0 /\ 0 - 0 <= PhoneLsp.maxOutgoing + 1 /\ 0 + 1 .. 0 = {}
        BY <3>1
      <3> HIDE DEF w
      <3> QED
        BY <1>3, <3>2 DEF Windowed
    <2> HIDE DEF w
    <2> QED
      BY <2>1, <2>2, <2>6, <2>7 DEF Careful
  <1>10. Careful(v, n, 0, 0, 0)
    <2>1. w.state # "dead" => Carries(packet, Sent(w, n))
      <3>1. Sent(w, n) = 0
        BY <1>3, <1>8 DEF Sent
      <3> HIDE DEF w
      <3> QED
        BY <1>6, <3>1 DEF Carries, None
    <2>2. w \in Links /\ 0 \in Nat
      BY <1>3
    <2> HIDE DEF w, v
    <2> QED
      BY <1>6, <1>7, <1>9, <2>1, <2>2, WroteCareful
  <1> HIDE DEF w
  <1>11. /\ Sends(syn, n) /\ Receives(syn, m) /\ Following(syn)
         /\ syn.state \in {"negotiate", "normal", "dead"}
    <2>1. Sends(adopted, n)
      BY <1>1, <1>2, SendsKept
    <2>2. Follows(adopted, syn, n)
      BY <1>1, <1>2, <1>4, <2>1, SendsFollow DEF syn
    <2>3. /\ syn.lastIn = adopted.lastIn /\ syn.delivered = adopted.delivered
          /\ syn.outOfSequence = adopted.outOfSequence
      BY <2>2, InboundSame DEF Follows
    <2>4. Following(syn)
      <3>1. Len(syn.delivered) = 0
        BY <1>2, <2>3
      <3> QED
        BY <1>2, <2>3, <3>1, PsnFacts DEF Following
    <2>5. Receives(syn, m)
      BY <1>2, <2>3 DEF Receives
    <2> QED
      BY <1>2, <2>2, <2>4, <2>5 DEF Follows, Stays
  <1>12. HandleSyn(l, p) = syn
    BY DEF HandleSyn, syn, adopted
  <1>13. syn \in Sound
    BY <1>12, HandleSynSound
  <1>14. HandlePacket(l, p) = CumulativeAck(data)
    <2>1. /\ "SYN" \in p.control /\ "ACK" \in p.control /\ "EAK" \notin p.control
          /\ "RST" \notin p.control
      OBVIOUS
    <2>2. [syn EXCEPT !.cumulative = CountedTo(@, syn.lsp.maxAck)] = [syn EXCEPT !.cumulative = count]
      BY <1>5 DEF Links
    <2> HIDE DEF count
    <2> QED
      BY <1>12, <2>1, <2>2 DEF HandlePacket
  <1>15. count \in Nat
    BY <1>5 DEF Links, CountedTo
  <1>16. "ACK" \in p.control /\ ~ (p.control = {"ACK"})
    OBVIOUS
  <1> HIDE DEF count
  <1>17. Careful(CumulativeAck(data), n, 0, 0, 0)
    <2>1. Careful([syn EXCEPT !.lastSentAcked = p.ack], n, 0, 0, 0)
      BY <1>10
    <2>2. 0 \in Nat
      OBVIOUS
    <2> QED
      BY <1>11, <1>13, <1>15, <1>16, <2>1, <2>2, AckRunsCareful
  <1> QED
    BY <1>14, <1>17
-----------------------------------------------------------------------------
(* Timers keep a link careful.                                                *)

\* The deadline that comes last in place of first is the same deadline.
LEMMA Rotated ==
  ASSUME NEW s \in Seq(Psns), s # << >>
  PROVE  LET r == Append(Tail(s), Head(s))
         IN r \in Seq(Psns) /\ {r[i] : i \in DOMAIN r} = {s[i] : i \in DOMAIN s}
  <1> DEFINE r == Append(Tail(s), Head(s))
             k == Len(s)
  <1>1. /\ k \in Nat \ {0} /\ DOMAIN s = 1 .. k /\ r \in Seq(Psns) /\ DOMAIN r = 1 .. k
        /\ r[k] = s[1] /\ \A i \in 1 .. k - 1 : r[i] = s[i + 1]
    OBVIOUS
  <1> HIDE DEF r, k
  <1>2. ASSUME NEW i \in 1 .. k PROVE r[i] \in {s[j] : j \in 1 .. k}
    <2>1. CASE i = k
      <3>1. 1 \in 1 .. k
        BY <1>1
      <3> QED
        BY <1>1, <2>1, <3>1
    <2>2. CASE i # k
      <3>1. i \in 1 .. k - 1 /\ i + 1 \in 1 .. k
        BY <1>1, <2>2
      <3> QED
        BY <1>1, <3>1
    <2> QED
      BY <2>1, <2>2
  <1>3. ASSUME NEW i \in 1 .. k PROVE s[i] \in {r[j] : j \in 1 .. k}
    <2>1. CASE i = 1
      <3>1. k \in 1 .. k
        BY <1>1
      <3> QED
        BY <1>1, <2>1, <3>1
    <2>2. CASE i # 1
      <3>1. i - 1 \in 1 .. k - 1 /\ i - 1 \in 1 .. k /\ (i - 1) + 1 = i
        BY <1>1, <2>2
      <3>2. r[i - 1] = s[i]
        BY <1>1, <3>1
      <3> QED
        BY <3>1, <3>2
    <2> QED
      BY <2>1, <2>2
  <1> QED
    BY <1>1, <1>2, <1>3 DEF r

LEMMA OtherTimersCareful ==
  ASSUME NoReuse, NEW n \in 0 .. MaxChunks, NEW b \in Nat, NEW d \in Nat, NEW a, NEW l \in Sound,
         Sends(l, n), l.state # "dead", Careful(l, n, b, d, a)
  PROVE  Careful(OnSendAckTimer(l), n, b, d, a) /\ Careful(OnExpectAckTimer(l), n, b, d, a)
  <1>1. l \in Links /\ Tracked(l) /\ l.unacked \in Seq(Unacked) /\ l.due \in Seq(Psns)
        /\ {} \in SUBSET Psns /\ l.lastIn \in Psns
    BY DEF Sound, Links
  <1>2. Careful(OnSendAckTimer(l), n, b, d, a)
    <2> DEFINE quiet == Disarmed(l, "sendAck")
               m == [quiet EXCEPT !.lastAcked = l.lastIn]
    <2>1. quiet \in Links /\ Careful(quiet, n, b, d, a)
      BY <1>1, TimersSound, TimersCareful DEF Timers
    <2> HIDE DEF quiet
    <2>2. m \in Links /\ Alike(quiet, m) /\ m.out = quiet.out
      BY <1>1, <2>1 DEF Links, Alike, Due
    <2> HIDE DEF m
    <2>3. Careful(m, n, b, d, a)
      BY <2>1, <2>2, AlikeCareful
    <2>4. Careful(SendAck(m), n, b, d, a)
      BY <1>1, <2>2, <2>3, SendsCareful
    <2> QED
      BY <2>1, <2>4 DEF OnSendAckTimer, m, quiet
  <1>3. Careful(OnExpectAckTimer(l), n, b, d, a)
    <2> DEFINE At(psn) == CHOOSE p \in Range(l.unacked) : p.psn = psn
               r == Len(l.due)
               s == Sent(l, n)
               oldest == [At(Head(l.due)) EXCEPT !.counter = @ + 1]
               later == [i \in 1 .. r - 1 |-> At(l.due[i + 1])]
               sorted == <<oldest>> \o later
               due == Append(Tail(l.due), Head(l.due))
               quiet == Disarmed(l, "recvAck")
               counted == [quiet EXCEPT !.unacked = sorted, !.due = due]
    <2>1. quiet \in Links /\ Careful(quiet, n, b, d, a) /\ quiet.due = l.due
          /\ Sent(quiet, n) = s /\ quiet.state = l.state
      BY <1>1, TimersSound, TimersCareful DEF Timers, Disarmed, Links, Sent
    <2>2. CASE l.unacked = << >> \/ l.state # "normal"
      BY <2>1, <2>2 DEF OnExpectAckTimer
    <2>3. CASE ~ (l.unacked = << >> \/ l.state # "normal")
      <3>1. OnExpectAckTimer(l) = IF oldest.counter = l.lsp.maxRetransmissions THEN Bailout(counted)
                                  ELSE Armed(SendData(counted, oldest), "recvAck")
        <4>1. counted = [quiet EXCEPT !.unacked = sorted, !.due = Append(Tail(@), Head(@))]
          BY <2>1 DEF Links
        <4> HIDE DEF oldest, sorted, counted, quiet
        <4> QED
          BY <2>3, <4>1 DEF OnExpectAckTimer, oldest, sorted, quiet
      <3>2. r \in Nat \ {0} /\ DOMAIN l.due = 1 .. r /\ l.due # << >>
        <4>1. 1 \in DOMAIN l.unacked
          BY <1>1, <2>3
        <4>2. PICK i \in DOMAIN l.due : TRUE
          BY <1>1, <4>1 DEF Tracked
        <4> QED
          BY <1>1, <4>2
      <3>3. s \in Nat /\ s <= n /\ Recent(l, s)
        <4>1. s \in Nat /\ Recent(l, s)
          BY DEF Careful
        <4>2. Len(l.queued) \in Nat /\ n \in Nat
          BY <1>1 DEF Links
        <4> QED
          BY <4>1, <4>2 DEF Sent
      <3> HIDE DEF s
      <3>4. ASSUME NEW i \in 1 .. r PROVE At(l.due[i]) \in Unacked /\ Numbered(At(l.due[i]), s)
        <4>1. l.due[i] \in {l.unacked[j].psn : j \in DOMAIN l.unacked}
          BY <1>1, <3>2 DEF Tracked
        <4>2. PICK j \in DOMAIN l.unacked : l.unacked[j].psn = l.due[i]
          BY <4>1
        <4>3. l.unacked[j] \in Range(l.unacked)
          BY DEF Range
        <4>4. At(l.due[i]) \in Range(l.unacked)
          BY <4>2, <4>3
        <4>5. \A k \in DOMAIN l.unacked : Numbered(l.unacked[k], s)
          BY <1>1, <3>3, KeptWasSent
        <4>6. \A p \in Range(l.unacked) : p \in Unacked /\ Numbered(p, s)
          BY <1>1, <4>5 DEF Range
        <4> HIDE DEF At
        <4> QED
          BY <4>4, <4>6
      <3>5. Head(l.due) = l.due[1] /\ due \in Seq(Psns)
            /\ {due[i] : i \in DOMAIN due} = {l.due[i] : i \in DOMAIN l.due}
        <4>1. Head(l.due) = l.due[1]
          BY <1>1, <3>2
        <4> DEFINE w == l.due
        <4>2. w \in Seq(Psns) /\ w # << >> /\ due = Append(Tail(w), Head(w))
          BY <1>1, <3>2
        <4> HIDE DEF due, w, oldest, later, r, At
        <4>3. due \in Seq(Psns) /\ {due[i] : i \in DOMAIN due} = {w[i] : i \in DOMAIN w}
          BY <4>2, Rotated
        <4> QED
          BY <4>1, <4>3 DEF w
      <3> HIDE DEF due
      <3>6. oldest \in Unacked /\ Numbered(oldest, s)
        <4>1. 1 \in 1 .. r
          BY <3>2
        <4> DEFINE first == At(l.due[1])
        <4>2. oldest = [first EXCEPT !.counter = @ + 1]
          BY <3>5
        <4> HIDE DEF At, r
        <4>3. first \in Unacked /\ Numbered(first, s)
          BY <3>4, <4>1
        <4> HIDE DEF first, oldest
        <4>4. /\ oldest \in Unacked /\ oldest.psn = first.psn /\ oldest.chunk = first.chunk
          BY <4>2, <4>3 DEF Unacked
        <4> QED
          BY <4>3, <4>4 DEF Numbered
      <3>7. later \in Seq(Unacked)
        <4> HIDE DEF r, At
        <4>1. \A i \in 1 .. r - 1 : i + 1 \in 1 .. r
          BY <3>2
        <4>2. \A i \in 1 .. r - 1 : later[i] \in Unacked
          BY <3>4, <4>1
        <4>3. later = [i \in 1 .. r - 1 |-> later[i]] /\ r - 1 \in Nat
          BY <3>2
        <4> HIDE DEF later
        <4> QED
          BY <4>2, <4>3
      <3> HIDE DEF later, oldest, r, At
      <3>8. sorted \in Seq(Unacked)
        BY <3>6, <3>7, InFront
      <3> HIDE DEF sorted
      <3>9. /\ counted \in Links /\ Alike(quiet, counted) /\ counted.out = quiet.out
            /\ Sent(counted, n) = s /\ counted.state = quiet.state
        <4> HIDE DEF quiet
        <4>1. /\ counted \in Links /\ counted.due = due /\ counted.out = quiet.out
              /\ counted.lsp = quiet.lsp /\ counted.sentPsn = quiet.sentPsn
              /\ counted.queued = quiet.queued /\ counted.state = quiet.state
              /\ counted.lastSentAcked = quiet.lastSentAcked
              /\ counted.lastIn = quiet.lastIn /\ counted.delivered = quiet.delivered
          <5>1. due \in Seq(Psns) /\ sorted \in Seq(Unacked) /\ quiet \in Links
            BY <2>1, <3>5, <3>8
          <5> HIDE DEF due
          <5>2. counted \in Links
            BY <5>1 DEF Links
          <5>3. DOMAIN quiet = {"state", "lsp", "up", "sentPsn", "lastSentAcked", "unacked", "due",
                                "queued", "lastIn", "lastAcked", "outOfSequence", "cumulative",
                                "timers", "out", "delivered"}
            BY <5>1 DEF Links
          <5> QED
            BY <5>2, <5>3
        <4> HIDE DEF counted, due
        <4>2. Due(counted) = Due(quiet)
          <5>1. counted.due = due /\ quiet.due = l.due
            BY <2>1, <4>1
          <5>2. {counted.due[i] : i \in DOMAIN counted.due} = {due[i] : i \in DOMAIN due}
            BY <5>1
          <5>3. {quiet.due[i] : i \in DOMAIN quiet.due} = {l.due[i] : i \in DOMAIN l.due}
            BY <5>1
          <5> QED
            BY <3>5, <5>2, <5>3 DEF Due
        <4>3. Sent(counted, n) = s
          BY <2>1, <4>1 DEF Sent
        <4> QED
          BY <4>1, <4>2, <4>3 DEF Alike
      <3> HIDE DEF quiet, counted
      <3>10. Careful(counted, n, b, d, a)
        BY <2>1, <3>9, AlikeCareful
      <3>11. Careful(Bailout(counted), n, b, d, a)
        BY <3>9, <3>10, TimersCareful
      <3>12. Careful(Armed(SendData(counted, oldest), "recvAck"), n, b, d, a)
        <4> DEFINE sent == SendData(counted, oldest)
        <4>1. sent \in Links /\ Careful(sent, n, b, d, a)
          BY <1>1, <3>6, <3>9, <3>10, SendFacts, SendsCareful
        <4> HIDE DEF sent
        <4>2. Careful(Armed(sent, "recvAck"), n, b, d, a)
          BY <4>1, TimersCareful
        <4> QED
          BY <4>2 DEF sent
      <3> QED
        BY <3>1, <3>11, <3>12
    <2> QED
      BY <2>2, <2>3
  <1> QED
    BY <1>2, <1>3
-----------------------------------------------------------------------------
(* What the two ends know of each other.                                      *)

\* The last chunk of l that its peer has acknowledged.
Base(l) == IF l.state = "normal" THEN ChunkOf(l.lastSentAcked) ELSE 0

\* The acknowledgements on their way to a link whose peer delivered d.
Hears(l, inbox, d) == Retransmits => Base(l) \in 0 .. d /\ Rising(inbox, Base(l), d)

\* The accessory has its parameters from the phone.
Adopts(l, s) == l.state = "normal" => l.lsp = PhoneLsp /\ Windowed(l, s, Base(l))

\* What l, which submitted n chunks, knows of its peer r, and r of l.
Told(e, l, r, n, inbox, outbox) ==
  LET s == Sent(l, n)
  IN /\ Recent(l, s) /\ Adopts(l, s) /\ Hears(l, inbox, Len(r.delivered))
     /\ Receives(r, s) /\ Only(Other(e), outbox, s)

\* The phone's parameters do not change on their way to the accessory.
Dictates(packets) == \A i \in DOMAIN packets :
                       "SYN" \in packets[i].control => packets[i].lsp = PhoneLsp

Dictated == link["phone"].lsp = PhoneLsp /\ Dictates(channel["accessory"])

ToldBoth ==
  \A e \in Ends : Told(e, link[e], link[Other(e)], submitted[e], channel[e], channel[Other(e)])

AckInv == ~ Dead => Dictated /\ ToldBoth

\* An end that submitted n chunks, before its call: of the m chunks that its
\* peer sent some are delivered, and its peer has d of its own.
Poised(e, l, n, m, d, inbox) ==
  /\ n \in 0 .. MaxChunks /\ m \in 0 .. MaxChunks /\ d \in 0 .. MaxChunks
  /\ l \in Sound /\ l.out = << >> /\ l.state # "dead" /\ inbox \in Seq(Packets)
  /\ Ordered(e, l, n, m) /\ Only(e, inbox, m)
  /\ d <= Sent(l, n)
  /\ Recent(l, Sent(l, n)) /\ Adopts(l, Sent(l, n)) /\ Hears(l, inbox, d)
  /\ e = "phone" => l.lsp = PhoneLsp
  /\ e = "accessory" => Dictates(inbox)

\* What the call of an end that submitted n chunks, and k when it is over,
\* leaves and writes when it leaves the end alive.
Candid(e, l, r, n, k, m) ==
  LET s == Sent(r, k)
  IN /\ s \in Nat /\ Sent(l, n) <= s
     /\ Recent(r, s) /\ Adopts(r, s) /\ Receives(r, m) /\ Only(Other(e), r.out, s)
     /\ Len(l.delivered) <= Len(r.delivered)
     /\ Rising(r.out, Len(l.delivered), Len(r.delivered))
     /\ e = "phone" => r.lsp = PhoneLsp /\ Dictates(r.out)

\* The same, with what it has yet to receive.
Answers(e, l, r, n, k, m, d, inbox) ==
  r.state # "dead" => Candid(e, l, r, n, k, m) /\ Hears(r, inbox, d)
-----------------------------------------------------------------------------
(* A careful call answers for itself.                                         *)

LEMMA SentFacts ==
  ASSUME NEW n \in 0 .. MaxChunks, NEW l \in Links, l.state # "dead", Sends(l, n)
  PROVE  /\ Sent(l, n) \in 0 .. MaxChunks /\ Sent(l, n) <= n /\ Sent(l, n) \in Nat
         /\ Behind(l, Sent(l, n)) /\ l.sentPsn = Psn(Sent(l, n))
         /\ l.state \in Early => Sent(l, n) = 0
  <1>1. n \in Nat /\ MaxChunks \in Nat /\ n <= MaxChunks
    BY SessionAssumption
  <1>2. Len(l.queued) \in Nat
    BY DEF Links
  <1>3. /\ Sent(l, n) \in Nat /\ l.sentPsn = Psn(Sent(l, n)) /\ Behind(l, Sent(l, n))
        /\ l.state \in Early => Sent(l, n) = 0
    BY DEF Sends, InLine, Sent, Behind
  <1>4. Sent(l, n) <= n
    BY <1>1, <1>2 DEF Sent
  <1> QED
    BY <1>1, <1>3, <1>4

LEMMA PoisedCareful ==
  ASSUME NEW e \in Ends, NEW l, NEW n, NEW m, NEW d, NEW inbox, Poised(e, l, n, m, d, inbox),
         l.state = "normal"
  PROVE  Careful(l, n, Sent(l, n), Len(l.delivered), Base(l))
  <1> DEFINE s == Sent(l, n)
  <1>1. /\ n \in 0 .. MaxChunks /\ m \in 0 .. MaxChunks /\ l \in Links /\ l.out = << >>
        /\ Sends(l, n) /\ Receives(l, m) /\ (Met(e, l) => Following(l))
        /\ Recent(l, s) /\ Adopts(l, s)
    BY DEF Poised, Sound, Ordered
  <1>2. s \in Nat /\ Behind(l, s) /\ l.sentPsn = Psn(s)
    BY <1>1, SentFacts
  <1>3. Following(l) /\ l.lsp = PhoneLsp /\ Windowed(l, s, Base(l))
    BY <1>1 DEF Met, Adopts
  <1>4. Len(l.delivered) \in Nat /\ Len(l.delivered) <= MaxChunks
    <2>1. Len(l.delivered) \in Nat /\ Len(l.delivered) <= m
      BY <1>1 DEF Links, Receives
    <2> QED
      BY <1>1, <2>1, SessionAssumption
  <1> HIDE DEF s
  <1>5. DOMAIN << >> = {}
    OBVIOUS
  <1>6. Spoken(l, s, Len(l.delivered))
    <2>1. \A i \in DOMAIN l.out : FALSE
      BY <1>1, <1>5
    <2>2. Rising(l.out, Len(l.delivered), Len(l.delivered))
      BY <2>1 DEF Rising, Acks
    <2>3. Len(l.delivered) <= Len(l.delivered)
      BY <1>4
    <2> QED
      BY <1>2, <1>3, <1>4, <2>1, <2>2, <2>3 DEF Spoken
  <1>7. s <= s
    BY <1>2
  <1> QED
    BY <1>1, <1>2, <1>3, <1>6, <1>7 DEF Careful, s

\* A number that comes for an end in the session acknowledges some chunk x.
LEMMA PoisedAck ==
  ASSUME NoReuse, NEW e \in Ends, NEW l, NEW n, NEW m, NEW d, NEW inbox,
         Poised(e, l, n, m, d, inbox), inbox # << >>, "ACK" \in Head(inbox).control,
         l.state = "normal" \/ (e = "phone" /\ l.state = "negotiate")
  PROVE  \E x \in Nat :
           /\ Careful([l EXCEPT !.lastSentAcked = Head(inbox).ack], n, Sent(l, n),
                      Len(l.delivered), x)
           /\ Retransmits => x \in 0 .. d /\ Rising(Tail(inbox), x, d)
  <1> DEFINE p == Head(inbox)
             s == Sent(l, n)
             x == IF Retransmits THEN ChunkOf(p.ack) ELSE 0
             v == [l EXCEPT !.lastSentAcked = p.ack]
  <1>1. /\ n \in 0 .. MaxChunks /\ m \in 0 .. MaxChunks /\ d \in 0 .. MaxChunks
        /\ l \in Links /\ l.out = << >> /\ inbox \in Seq(Packets)
        /\ Sends(l, n) /\ Receives(l, m) /\ (Met(e, l) => Following(l))
        /\ d <= s /\ Recent(l, s) /\ Hears(l, inbox, d)
        /\ (e = "phone" => l.lsp = PhoneLsp)
    BY DEF Poised, Sound, Ordered
  <1>2. l.state # "dead" /\ s \in Nat /\ s \in 0 .. MaxChunks /\ Behind(l, s) /\ l.sentPsn = Psn(s)
        /\ (l.state \in Early => s = 0)
    BY <1>1, SentFacts
  <1>3. ASSUME Retransmits
        PROVE  /\ Base(l) \in 0 .. d /\ Acking(p.ack, Base(l), d) /\ Rising(Tail(inbox), x, d)
               /\ x = ChunkOf(p.ack)
    <2>1. Base(l) \in 0 .. d /\ Base(l) \in Nat /\ Rising(inbox, Base(l), d)
      BY <1>1, <1>3 DEF Hears
    <2> HIDE DEF p
    <2>2. Acking(p.ack, Base(l), d) /\ Rising(Tail(inbox), ChunkOf(p.ack), d)
      BY <1>1, <2>1, RisingTail DEF p
    <2> QED
      BY <1>3, <2>1, <2>2
  <1>4. ASSUME Retransmits
        PROVE  /\ Base(l) \in Nat /\ x \in Nat /\ x \in Base(l) .. s /\ x \in 0 .. d /\ p.ack = Psn(x)
               /\ Rising(Tail(inbox), x, d)
    <2>1. x \in Base(l) .. d /\ Base(l) \in 0 .. d /\ p.ack = Psn(x)
      BY <1>3, <1>4 DEF Acking
    <2> HIDE DEF x
    <2>2. d \in Nat /\ s \in Nat /\ d <= s
      BY <1>1, <1>2, SessionAssumption
    <2>3. x \in Nat /\ x \in Base(l) .. s /\ x \in 0 .. d /\ Base(l) \in Nat
      BY <2>1, <2>2
    <2> QED
      BY <1>3, <1>4, <2>1, <2>3
  <1>5. x \in Nat
    BY <1>4
  <1> HIDE DEF x
  <1>6. CASE l.state = "normal"
    <2>1. Careful(l, n, s, Len(l.delivered), Base(l))
      BY <1>6, PoisedCareful
    <2> DEFINE a == IF Retransmits THEN Base(l) ELSE 0
    <2>2. a \in Nat
      BY <1>4
    <2>3. Careful(l, n, s, Len(l.delivered), a)
      BY <2>1 DEF Careful, Windowed
    <2>4. l.state # "dead" /\ Retransmits => p.ack = Psn(x) /\ x \in a .. Sent(l, n)
      BY <1>4
    <2> HIDE DEF a, s, p
    <2>5. Careful(v, n, s, Len(l.delivered), x)
      BY <1>1, <1>5, <2>2, <2>3, <2>4, AckCareful
    <2> QED
      BY <1>4, <1>5, <2>5 DEF p, s
  <1>7. CASE l.state # "normal"
    <2>1. e = "phone" /\ l.state = "negotiate" /\ s = 0
      BY <1>2, <1>7 DEF Early
    <2>2. Following(l) /\ l.lsp = PhoneLsp
      BY <1>1, <2>1 DEF Met
    <2>3. d = 0 /\ (Retransmits => x = 0)
      <3>1. d = 0
        BY <1>1, <2>1, SessionAssumption
      <3> QED
        BY <1>4, <3>1
    <2>4. /\ v.lsp = l.lsp /\ v.sentPsn = l.sentPsn /\ v.queued = l.queued /\ v.due = l.due
          /\ v.lastIn = l.lastIn /\ v.delivered = l.delivered /\ v.out = l.out
          /\ v.state = l.state /\ v.lastSentAcked = p.ack
      BY <1>1 DEF Links
    <2>5. Sent(v, n) = 0 /\ Due(v) = Due(l)
      BY <2>1, <2>4 DEF Sent, Due
    <2>6. Len(l.delivered) \in Nat /\ Len(l.delivered) <= MaxChunks
      <3>1. Len(l.delivered) \in Nat /\ Len(l.delivered) <= m
        BY <1>1 DEF Links, Receives
      <3> QED
        BY <1>1, <3>1, SessionAssumption
    <2> HIDE DEF v
    <2>7. Behind(v, 0) /\ Recent(v, 0)
      BY <1>1, <1>2, <2>1, <2>4, <2>5 DEF Behind, Recent
    <2>8. Spoken(v, 0, Len(l.delivered))
      <3>1. DOMAIN << >> = {}
        OBVIOUS
      <3>2. \A i \in DOMAIN v.out : FALSE
        BY <1>1, <2>4, <3>1
      <3>3. Rising(v.out, Len(l.delivered), Len(l.delivered))
        BY <3>2 DEF Rising, Acks
      <3>4. Len(l.delivered) <= Len(l.delivered)
        BY <2>6
      <3> QED
        BY <1>2, <2>1, <2>2, <2>4, <2>6, <3>2, <3>3, <3>4 DEF Spoken, Following
    <2>9. Windowed(v, 0, x)
      <3>1. PhoneLsp.maxOutgoing \in Nat
        BY SessionAssumption DEF Lsps
      <3>2. 0 \in 0 .. 0 /\ 0 - 0 <= PhoneLsp.maxOutgoing + 1 /\ 0 + 1 .. 0 = {}
        BY <3>1
      <3> QED
        BY <1>4, <2>3, <2>4, <3>2 DEF Windowed
    <2>10. Careful(v, n, s, Len(l.delivered), x)
      <3>1. s <= Sent(v, n) /\ Sent(v, n) \in Nat
        BY <2>1, <2>5
      <3> QED
        BY <2>5, <2>7, <2>8, <2>9, <3>1 DEF Careful
    <2> QED
      BY <1>4, <1>5, <2>10 DEF v
  <1> QED
    BY <1>6, <1>7

\* What a careful call leaves and writes, if it leaves the end up.
LEMMA CarefulAnswers ==
  ASSUME NoReuse, NEW e \in Ends, NEW l \in Links, NEW r \in Links, NEW n \in Nat,
         NEW k \in 0 .. MaxChunks, NEW m, NEW d, NEW a, NEW inbox,
         Careful(r, k, Sent(l, n), Len(l.delivered), a), Receives(r, m),
         r.state \in {"normal", "dead"},
         Retransmits => a \in 0 .. d /\ Rising(inbox, a, d)
  PROVE  Answers(e, l, r, n, k, m, d, inbox)
  <1> SUFFICES ASSUME r.state # "dead" PROVE Candid(e, l, r, n, k, m) /\ Hears(r, inbox, d)
    BY DEF Answers
  <1> DEFINE s == Sent(r, k)
  <1>1. r.state = "normal"
    OBVIOUS
  <1>2. /\ s \in Nat /\ Sent(l, n) <= s /\ Recent(r, s)
        /\ Spoken(r, s, Len(l.delivered)) /\ Windowed(r, s, a)
    BY <1>1 DEF Careful
  <1>3. s <= MaxChunks
    <2>1. Len(r.queued) \in Nat /\ k \in Nat /\ k <= MaxChunks /\ MaxChunks \in Nat
      BY SessionAssumption DEF Links
    <2> QED
      BY <2>1 DEF Sent
  <1> HIDE DEF s
  <1>4. Retransmits => Base(r) = a
    <2>1. ASSUME Retransmits PROVE a \in 0 .. MaxChunks /\ r.lastSentAcked = Psn(a)
      <3>1. a \in 0 .. s /\ r.lastSentAcked = Psn(a)
        BY <1>2, <2>1 DEF Windowed
      <3> QED
        BY <1>2, <1>3, <3>1, SessionAssumption
    <2> QED
      BY <1>1, <2>1, Distances DEF Base
  <1>5. Hears(r, inbox, d)
    BY <1>4 DEF Hears
  <1>6. Adopts(r, s)
    BY <1>1, <1>2, <1>4 DEF Adopts, Windowed, Spoken
  <1>7. Only(Other(e), r.out, s)
    BY <1>2 DEF Spoken, Only, Carried
  <1>8. /\ Len(l.delivered) <= Len(r.delivered)
        /\ Rising(r.out, Len(l.delivered), Len(r.delivered)) /\ r.lsp = PhoneLsp
    BY <1>2 DEF Spoken
  <1>9. Dictates(r.out)
    BY <1>2 DEF Spoken, Carries, Dictates
  <1> QED
    BY <1>2, <1>5, <1>6, <1>7, <1>8, <1>9 DEF Candid, s

\* What is written does not count for what an end has sent and received.
LEMMA FlushedReceives ==
  ASSUME NEW r \in Links, NEW e, NEW n \in 0 .. MaxChunks, NEW m, Ordered(e, Flushed(r), n, m)
  PROVE  Receives(r, m) /\ (r.state \in Early => r.delivered = << >> /\ Sent(r, n) = 0)
  <1> DEFINE f == Flushed(r)
  <1>1. /\ f \in Links /\ f.delivered = r.delivered /\ f.outOfSequence = r.outOfSequence
        /\ f.state = r.state /\ f.queued = r.queued
    BY FlushedSame
  <1>2. Sends(f, n) /\ Receives(f, m) /\ (f.state \in Early => f.delivered = << >>)
    BY DEF Ordered
  <1> HIDE DEF f
  <1>3. Receives(r, m)
    BY <1>1, <1>2 DEF Receives
  <1>4. ASSUME r.state \in Early PROVE Sent(r, n) = 0
    <2>1. f.state # "dead" /\ f.state \in Early
      BY <1>1, <1>4 DEF Early
    <2>2. Sent(f, n) = 0
      BY <1>1, <1>2, <2>1, SentFacts
    <2> QED
      BY <1>1, <2>2 DEF Sent
  <1> QED
    BY <1>1, <1>2, <1>3, <1>4

\* An end that has yet to shake hands, after its call too, has written what
\* belongs to the handshake.
LEMMA EarlyAnswers ==
  ASSUME NoReuse, NEW e \in Ends, NEW l, NEW n, NEW m, NEW d, NEW inbox, NEW q,
         Poised(e, l, n, m, d, inbox), l.state \in Early,
         q = inbox \/ (inbox # << >> /\ q = Tail(inbox)),
         NEW k \in 0 .. MaxChunks, NEW r \in Links, Ordered(e, Flushed(r), k, m),
         r.state \in Early \union {"dead"}, r.due = l.due, e = "phone" => r.lsp = PhoneLsp,
         \A i \in DOMAIN r.out :
           /\ Carried(Other(e), r.out[i], 0)
           /\ "ACK" \in r.out[i].control => r.out[i].ack = Psn(0)
           /\ "SYN" \in r.out[i].control /\ e = "phone" => r.out[i].lsp = PhoneLsp
  PROVE  Answers(e, l, r, n, k, m, d, q)
  <1> SUFFICES ASSUME r.state # "dead" PROVE Candid(e, l, r, n, k, m) /\ Hears(r, q, d)
    BY DEF Answers
  <1>1. /\ n \in 0 .. MaxChunks /\ d \in 0 .. MaxChunks /\ l \in Links /\ l.state # "dead"
        /\ inbox \in Seq(Packets) /\ Sends(l, n) /\ Recent(l, Sent(l, n)) /\ Hears(l, inbox, d)
        /\ l.delivered = << >>
    BY DEF Poised, Sound, Ordered
  <1>2. r.state \in Early /\ r.state # "normal" /\ l.state # "normal"
    BY DEF Early
  <1>3. Sent(l, n) = 0 /\ Sent(r, k) = 0 /\ r.delivered = << >> /\ Receives(r, m)
    BY <1>1, <1>2, SentFacts, FlushedReceives
  <1>4. Recent(r, 0) /\ Adopts(r, 0) /\ Base(r) = 0 /\ Base(l) = 0
    BY <1>1, <1>2, <1>3 DEF Recent, Due, Adopts, Base
  <1>5. Hears(r, q, d)
    <2>1. ASSUME Retransmits PROVE 0 \in 0 .. d /\ Rising(q, 0, d)
      <3>1. 0 \in 0 .. d /\ Rising(inbox, 0, d)
        BY <1>1, <1>4, <2>1 DEF Hears
      <3>2. inbox # << >> => Rising(Tail(inbox), 0, d)
        BY <1>1, <3>1, RisingTail
      <3> QED
        BY <3>1, <3>2
    <2> QED
      BY <1>4, <2>1 DEF Hears
  <1>6. Only(Other(e), r.out, 0)
    BY DEF Only
  <1>7. Len(l.delivered) = 0 /\ Len(r.delivered) = 0
    BY <1>1, <1>3
  <1>8. Rising(r.out, 0, 0)
    <2>1. 0 \in 0 .. MaxChunks /\ 0 \in Nat /\ 0 \in 0 .. 0
      BY SessionAssumption
    <2>2. Acking(Psn(0), 0, 0)
      BY <2>1, AckingFacts
    <2>3. \A i \in Acks(r.out) : r.out[i].ack = Psn(0)
      BY DEF Acks
    <2>4. ChunkOf(Psn(0)) <= ChunkOf(Psn(0))
      <3>1. ChunkOf(Psn(0)) = 0
        BY <2>1, AckingFacts
      <3> QED
        BY <3>1
    <2> QED
      BY <2>2, <2>3, <2>4 DEF Rising
  <1>9. e = "phone" => Dictates(r.out)
    BY DEF Dictates
  <1>10. 0 \in Nat /\ 0 <= 0
    OBVIOUS
  <1>11. Candid(e, l, r, n, k, m)
    BY <1>3, <1>4, <1>6, <1>7, <1>8, <1>9, <1>10 DEF Candid
  <1> QED
    BY <1>5, <1>11

\* A call that changes nothing, and writes nothing.
LEMMA SilentAnswers ==
  ASSUME NoReuse, NEW e \in Ends, NEW l, NEW n, NEW m, NEW d, NEW inbox, NEW q,
         Poised(e, l, n, m, d, inbox),
         q = inbox \/ (inbox # << >> /\ q = Tail(inbox))
  PROVE  Answers(e, l, l, n, n, m, d, q)
  <1>1. /\ n \in 0 .. MaxChunks /\ n \in Nat /\ d \in 0 .. MaxChunks /\ l \in Links
        /\ l.state # "dead" /\ l.out = << >>
        /\ inbox \in Seq(Packets) /\ Sends(l, n) /\ Receives(l, m) /\ Hears(l, inbox, d)
        /\ (l.state \in Early => l.delivered = << >>) /\ (e = "phone" => l.lsp = PhoneLsp)
    BY SessionAssumption DEF Poised, Sound, Ordered
  <1>2. CASE l.state = "normal"
    <2>1. Careful(l, n, Sent(l, n), Len(l.delivered), Base(l))
      BY <1>2, PoisedCareful
    <2>2. ASSUME Retransmits PROVE Base(l) \in 0 .. d /\ Rising(q, Base(l), d)
      <3>1. Base(l) \in 0 .. d /\ Base(l) \in Nat /\ Rising(inbox, Base(l), d)
        BY <1>1, <2>2 DEF Hears
      <3>2. inbox # << >> => Rising(Tail(inbox), Base(l), d)
        BY <1>1, <3>1, RisingTail
      <3> QED
        BY <3>1, <3>2
    <2> QED
      BY <1>1, <1>2, <2>1, <2>2, CarefulAnswers
  <1>3. CASE l.state # "normal"
    <2>1. l.state \in Early
      BY <1>1, <1>3 DEF Early, Links, States
    <2>2. \A i \in DOMAIN << >> : FALSE
      OBVIOUS
    <2>3. Ordered(e, l, n, m) /\ m \in Nat
      BY SessionAssumption DEF Poised
    <2>4. Ordered(e, Flushed(l), n, m)
      BY <1>1, <2>3, FlushedOrdered
    <2> QED
      BY <1>1, <2>1, <2>2, <2>4, EarlyAnswers
  <1> QED
    BY <1>2, <1>3

\* What was written by one call to an end that had written nothing.
LEMMA OneWritten ==
  ASSUME NEW l, l.out = << >>, NEW r, NEW p, Wrote(l, r, p)
  PROVE  /\ \A i \in DOMAIN r.out : r.out[i] = p
         /\ r.due = l.due /\ r.lsp = l.lsp /\ r.delivered = l.delivered
         /\ r.state = l.state \/ r.state = "dead"
  <1>1. r.due = l.due /\ r.lsp = l.lsp /\ r.delivered = l.delivered
    BY ListsSame DEF Wrote
  <1>2. r.out = << >> \/ r.out = Append(<< >>, p)
    BY DEF Wrote
  <1>3. \A i \in DOMAIN r.out : r.out[i] = p
    BY <1>2
  <1> QED
    BY <1>1, <1>3 DEF Wrote

\* A SYN, or its answer, as it is on its way.
LEMMA OfferTells ==
  ASSUME NEW l \in Links, l.out = << >>, NEW control \in Controls
  PROVE  LET r == Offer(l, control)
         IN /\ r \in Links /\ r.due = l.due /\ r.lsp = l.lsp /\ r.delivered = l.delivered
            /\ r.state = l.state \/ r.state = "dead"
            /\ \A i \in DOMAIN r.out : r.out[i] = Packet(l, control, l.sentPsn, None, {}, l.lsp)
  <1> DEFINE packet == Packet(l, control, l.sentPsn, None, {}, l.lsp)
             w == Write(l, control, l.sentPsn, None, {}, l.lsp)
             r == Armed(w, "negotiate")
  <1>1. w \in Links /\ Wrote(l, w, packet)
    <2>1. l.sentPsn \in Psns /\ l.lsp \in Lsps /\ None \in Nat /\ {} \in SUBSET Psns
      BY DEF Links, None
    <2> QED
      BY <2>1, WriteFacts
  <1> HIDE DEF packet, w
  <1>2. /\ \A i \in DOMAIN w.out : w.out[i] = packet
        /\ w.due = l.due /\ w.lsp = l.lsp /\ w.delivered = l.delivered
        /\ w.state = l.state \/ w.state = "dead"
    BY <1>1, OneWritten
  <1>3. w.timers \union {"negotiate"} \in SUBSET Timers
    BY <1>1 DEF Links, Timers
  <1>4. /\ r \in Links /\ r.due = w.due /\ r.lsp = w.lsp /\ r.delivered = w.delivered
        /\ r.state = w.state /\ r.out = w.out
    BY <1>1, <1>3 DEF Armed, Links
  <1> HIDE DEF r
  <1>5. /\ r.due = l.due /\ r.lsp = l.lsp /\ r.delivered = l.delivered
        /\ r.state = l.state \/ r.state = "dead"
        /\ \A i \in DOMAIN r.out : r.out[i] = packet
    BY <1>2, <1>4
  <1> QED
    BY <1>4, <1>5 DEF r, w, packet, Offer
-----------------------------------------------------------------------------
(* What each call of either end leaves and writes.                            *)

\* The packet that an end takes, and the rest.
LEMMA PoisedHead ==
  ASSUME NEW e, NEW l, NEW n, NEW m, NEW d, NEW inbox, Poised(e, l, n, m, d, inbox), inbox # << >>
  PROVE  /\ Head(inbox) \in Packets /\ Tail(inbox) \in Seq(Packets) /\ Carried(e, Head(inbox), m)
         /\ e = "accessory" /\ "SYN" \in Head(inbox).control => Head(inbox).lsp = PhoneLsp
  <1>1. inbox \in Seq(Packets) /\ Only(e, inbox, m) /\ (e = "accessory" => Dictates(inbox))
    BY DEF Poised
  <1>2. /\ Tail(inbox) \in Seq(Packets) /\ Head(inbox) \in Packets
        /\ Head(inbox) = inbox[1] /\ 1 \in DOMAIN inbox
    BY <1>1, Rest
  <1> QED
    BY <1>1, <1>2 DEF Only, Dictates

\* The EAK: it is answered from what is kept.
LEMMA EakAnswers ==
  ASSUME NoReuse, NEW e \in Ends, NEW l, NEW n, NEW m, NEW d, NEW inbox,
         Poised(e, l, n, m, d, inbox), inbox # << >>, l.state = "normal",
         Head(inbox).control = {"EAK"}
  PROVE  Answers(e, l, HandlePacket(l, Head(inbox)), n, n, m, d, Tail(inbox))
  <1> DEFINE p == Head(inbox)
             r == HandlePacket(l, p)
  <1>1. /\ n \in 0 .. MaxChunks /\ n \in Nat /\ m \in Nat /\ d \in 0 .. MaxChunks
        /\ l \in Sound /\ l \in Links /\ inbox \in Seq(Packets)
        /\ Sends(l, n) /\ Receives(l, m) /\ Hears(l, inbox, d)
    BY SessionAssumption DEF Poised, Sound, Ordered
  <1>2. p \in Packets
    BY PoisedHead
  <1>3. Sent(l, n) \in Nat /\ Len(l.delivered) \in Nat
    <2>1. l.delivered \in Seq(Nat)
      BY <1>1 DEF Links
    <2> QED
      BY <1>1, <2>1, SentFacts
  <1>4. Careful(l, n, Sent(l, n), Len(l.delivered), Base(l))
    BY PoisedCareful
  <1>5. Careful(r, n, Sent(l, n), Len(l.delivered), Base(l))
    BY <1>1, <1>2, <1>3, <1>4, OtherPacketCareful
  <1>6. Follows(l, r, n) /\ r \in Links
    BY <1>1, <1>2, HandleOtherPacket, HandlePacketSound DEF Sound
  <1> HIDE DEF r
  <1>7. Receives(r, m) /\ r.state \in {"normal", "dead"}
    <2>1. r.delivered = l.delivered /\ r.outOfSequence = l.outOfSequence
      BY <1>6, InboundSame DEF Follows
    <2> QED
      BY <1>1, <1>6, <2>1 DEF Receives, Follows, Stays
  <1>8. ASSUME Retransmits PROVE Base(l) \in 0 .. d /\ Rising(Tail(inbox), Base(l), d)
    <2>1. Base(l) \in 0 .. d /\ Base(l) \in Nat /\ Rising(inbox, Base(l), d)
      BY <1>1, <1>8 DEF Hears
    <2> QED
      BY <1>1, <2>1, RisingTail
  <1>9. Answers(e, l, r, n, n, m, d, Tail(inbox))
    BY <1>1, <1>5, <1>6, <1>7, <1>8, CarefulAnswers
  <1> QED
    BY <1>9 DEF r, p

\* An acknowledgement, and the data behind it.
LEMMA AckAnswers ==
  ASSUME NoReuse, FitsWindow, NEW e \in Ends, NEW l, NEW n, NEW m, NEW d, NEW inbox,
         Poised(e, l, n, m, d, inbox), inbox # << >>,
         \/ l.state = "normal" /\ Head(inbox).control = {"SYN", "ACK"}
         \/ /\ Head(inbox).control = {"ACK"}
            /\ l.state = "normal" \/ (e = "phone" /\ l.state = "negotiate"),
         LET r == HandlePacket(l, Head(inbox)) IN Receives(r, m) /\ r.state \in {"normal", "dead"}
  PROVE  Answers(e, l, HandlePacket(l, Head(inbox)), n, n, m, d, Tail(inbox))
  <1> DEFINE p == Head(inbox)
             r == HandlePacket(l, p)
             b == Sent(l, n)
             c == Len(l.delivered)
  <1>1. /\ n \in 0 .. MaxChunks /\ n \in Nat /\ m \in 0 .. MaxChunks
        /\ l \in Sound /\ l \in Links /\ l.state # "dead"
        /\ Sends(l, n) /\ Receives(l, m) /\ (Met(e, l) => Following(l))
    BY SessionAssumption DEF Poised, Sound, Ordered
  <1>2. p \in Packets /\ Carried(e, p, m)
    BY PoisedHead
  <1>3. b \in Nat /\ c \in Nat
    <2>1. l.delivered \in Seq(Nat)
      BY <1>1 DEF Links
    <2> QED
      BY <1>1, <2>1, SentFacts
  <1>4. Following(l) /\ l.state \in {"negotiate", "normal"} /\ "ACK" \in p.control
    BY <1>1 DEF Met
  <1>5. \/ p.control = {"ACK"} /\ Carries(p, m)
        \/ p.control = {"SYN", "ACK"} /\ l.state = "normal"
    <2>1. p.control = {"ACK"} => Carries(p, m)
      <3> HIDE DEF p
      <3>1. {"ACK"} # {"SYN"} /\ {"ACK"} # {"SYN", "ACK"} /\ {"ACK"} # {"RST"}
        OBVIOUS
      <3> QED
        BY <1>2, <3>1 DEF Carried
    <2> QED
      BY <2>1
  <1>6. PICK x \in Nat : /\ Careful([l EXCEPT !.lastSentAcked = p.ack], n, b, c, x)
                         /\ Retransmits => x \in 0 .. d /\ Rising(Tail(inbox), x, d)
    BY <1>4, PoisedAck
  <1>7. r \in Links /\ Receives(r, m) /\ r.state \in {"normal", "dead"}
    BY <1>1, <1>2, HandlePacketSound DEF Sound
  <1> HIDE DEF p, b, c
  <1>8. Careful(r, n, b, c, x)
    BY <1>1, <1>2, <1>3, <1>4, <1>5, <1>6, AckPacketCareful
  <1> HIDE DEF r
  <1>9. Careful(r, n, Sent(l, n), Len(l.delivered), x)
    BY <1>8 DEF b, c
  <1>10. Answers(e, l, r, n, n, m, d, Tail(inbox))
    BY <1>1, <1>6, <1>7, <1>9, CarefulAnswers
  <1> QED
    BY <1>10 DEF r, p

\* What the accessory answers to each packet.
LEMMA AccessoryAnswers ==
  ASSUME NoReuse, FitsWindow, NEW e, e = "accessory", NEW l, NEW n, NEW m, NEW d, NEW inbox,
         Poised(e, l, n, m, d, inbox), inbox # << >>,
         l.state \in {"idle", "negotiate", "normal"},
         l.state \in Early => Head(inbox).control \in {{"SYN", "ACK"}, {"RST"}},
         l.state = "idle" => Head(inbox).control = {"RST"}
  PROVE  Answers(e, l, HandlePacket(l, Head(inbox)), n, n, m, d, Tail(inbox))
  <1> DEFINE p == Head(inbox)
             r == HandlePacket(l, p)
  <1>1. /\ n \in 0 .. MaxChunks /\ n \in Nat /\ m \in 0 .. MaxChunks /\ d \in 0 .. MaxChunks
        /\ l \in Sound /\ l \in Links /\ l.state # "dead" /\ l.out = << >>
        /\ inbox \in Seq(Packets)
        /\ Ordered("accessory", l, n, m) /\ Sends(l, n) /\ Receives(l, m)
        /\ Recent(l, Sent(l, n)) /\ Hears(l, inbox, d) /\ d <= Sent(l, n)
        /\ (l.state \in Early => l.delivered = << >>) /\ e \in Ends
    BY SessionAssumption, TwoEnds DEF Poised, Sound, Ordered
  <1>2. p \in Packets /\ Carried("accessory", p, m) /\ ("SYN" \in p.control => p.lsp = PhoneLsp)
    BY PoisedHead
  <1>3. r \in Links
    BY <1>1, <1>2, HandlePacketSound DEF Sound
  <1>4. Receives(r, m) /\ r.state \in {"normal", "dead"}
    <2>1. Ordered("accessory", Flushed(r), n, m) /\ r.state \in {"normal", "dead"}
      BY <1>1, <1>2, AccessoryReceives
    <2> HIDE DEF r
    <2> QED
      BY <1>1, <1>3, <2>1, FlushedReceives
  <1>5. CASE p.control = {"RST"}
    <2>1. r = Bailout(l)
      BY <1>5 DEF HandlePacket
    <2> HIDE DEF r
    <2>2. r.state = "dead"
      BY <1>1, <2>1 DEF Bailout, Links
    <2> QED
      BY <2>2 DEF Answers, r
  <1>6. CASE p.control = {"EAK"}
    <2>1. l.state = "normal"
      BY <1>6 DEF Early
    <2> QED
      BY <1>1, <1>6, <2>1, EakAnswers
  <1>7. CASE \/ p.control = {"ACK"}
             \/ p.control = {"SYN", "ACK"} /\ l.state = "normal"
    <2>1. l.state = "normal"
      BY <1>7 DEF Early
    <2> QED
      BY <1>1, <1>4, <1>7, <2>1, AckAnswers
  <1>8. CASE p.control = {"SYN", "ACK"} /\ l.state # "normal"
    <2>1. l.state = "negotiate" /\ l.state \in Early
      BY <1>8 DEF Early
    <2>2. Sent(l, n) = 0 /\ Recent(l, 0) /\ d = 0
      <3>1. Sent(l, n) = 0
        BY <1>1, <2>1, SentFacts
      <3> QED
        BY <1>1, <3>1, SessionAssumption
    <2>3. p.seq = FirstPsn
      BY <1>2, <1>8 DEF Carried, Carries
    <2>4. ASSUME Retransmits PROVE p.ack = Psn(0) /\ Rising(Tail(inbox), 0, d)
      <3>1. 0 \in 0 .. d /\ Rising(inbox, 0, d)
        BY <1>1, <2>1, <2>4 DEF Hears, Base
      <3>2. "ACK" \in p.control /\ 0 \in Nat
        BY <1>8
      <3>3. Acking(p.ack, 0, d) /\ Rising(Tail(inbox), 0, d)
        BY <1>1, <3>1, <3>2, RisingTail
      <3>4. ChunkOf(p.ack) \in 0 .. 0 /\ p.ack = Psn(ChunkOf(p.ack))
        BY <2>2, <3>3 DEF Acking
      <3> QED
        BY <3>3, <3>4
    <2>5. Careful(r, n, 0, 0, 0)
      <3>1. Retransmits => p.ack = Psn(0)
        BY <2>4
      <3>2. p.control = {"SYN", "ACK"} /\ p.lsp = PhoneLsp
        BY <1>2, <1>8
      <3> HIDE DEF p
      <3> QED
        BY <1>1, <1>2, <2>1, <2>2, <2>3, <3>1, <3>2, SynPacketCareful
    <2>6. Len(l.delivered) = 0
      BY <1>1, <2>1
    <2> HIDE DEF r
    <2>7. Careful(r, n, Sent(l, n), Len(l.delivered), 0)
      BY <2>2, <2>5, <2>6
    <2>8. Retransmits => 0 \in 0 .. d /\ Rising(Tail(inbox), 0, d)
      BY <2>2, <2>4
    <2>9. Answers(e, l, r, n, n, m, d, Tail(inbox))
      BY <1>1, <1>3, <1>4, <2>7, <2>8, CarefulAnswers
    <2> QED
      BY <2>9 DEF r, p
  <1>9. p.control = {"SYN", "ACK"} \/ p.control = {"ACK"} \/ p.control = {"EAK"} \/ p.control = {"RST"}
    BY <1>2 DEF Carried, Carries
  <1> QED
    BY <1>5, <1>6, <1>7, <1>8, <1>9

\* The phone while it negotiates has nothing to send again.
LEMMA NothingKept ==
  ASSUME NEW l \in Sound, Recent(l, 0), NEW missing
  PROVE  HandleEak(l, missing) = l
  <1> DEFINE s == [i \in DOMAIN l.unacked |-> [at |-> i, named |-> l.unacked[i].psn \in missing]]
             Good == [i \in 0 .. 0 |-> {l}]
             named == [at : Nat, named : BOOLEAN]
  <1>1. Tracked(l) /\ l.unacked \in Seq(Unacked)
    BY DEF Sound, Links
  <1>2. \A psn \in Due(l) : FALSE
    BY DEF Recent
  <1>3. \A i \in DOMAIN l.unacked : l.unacked[i].psn \in Due(l)
    BY <1>1 DEF Tracked, Due
  <1>4. l.unacked = << >>
    BY <1>1, <1>2, <1>3
  <1>5. s \in Seq(named) /\ Len(s) = 0
    BY <1>4
  <1> HIDE DEF s, named
  <1>6. \A k \in 1 .. Len(s) : \A m \in Good[k - 1] : ResendNamed(m, s[k]) \in Good[k]
    BY <1>5
  <1>7. l \in Good[0] /\ \A m \in Good[0] : m = l
    OBVIOUS
  <1> HIDE DEF Good
  <1>8. FoldLeft(ResendNamed, l, s) \in Good[0]
    BY <1>5, <1>6, <1>7, Loops
  <1> QED
    BY <1>7, <1>8 DEF HandleEak, s

\* An end that offers its parameters, and has its peer's number if it answers.
LEMMA OfferAnswers ==
  ASSUME NoReuse, NEW e \in Ends, NEW l, NEW n, NEW m, NEW d, NEW inbox, NEW q,
         Poised(e, l, n, m, d, inbox), l.state \in Early,
         q = inbox \/ (inbox # << >> /\ q = Tail(inbox)),
         NEW control, control = IF e = "accessory" THEN {"SYN"} ELSE {"SYN", "ACK"},
         NEW k \in Links, k.out = << >>, k.state = "negotiate", k.sentPsn = l.sentPsn,
         k.due = l.due, k.lsp = l.lsp, e = "phone" => k.lastIn = FirstPsn,
         NEW r, r = Offer(k, control), r \in Links, Ordered(e, Flushed(r), n, m)
  PROVE  Answers(e, l, r, n, n, m, d, q)
  <1> DEFINE packet == Packet(k, control, k.sentPsn, None, {}, k.lsp)
  <1>1. /\ n \in 0 .. MaxChunks /\ l \in Links /\ l.out = << >> /\ l.state # "dead"
        /\ Sends(l, n) /\ (e = "phone" => l.lsp = PhoneLsp)
    BY DEF Poised, Sound, Ordered
  <1>2. k.sentPsn = FirstPsn
    BY <1>1, SentFacts, PsnFacts
  <1>3. control \in Controls
    BY DEF Controls
  <1>4. /\ packet.control = control /\ packet.seq = FirstPsn /\ packet.lsp = l.lsp
        /\ e = "phone" => packet.ack = Psn(0)
    BY <1>2, PsnFacts DEF Packet
  <1> HIDE DEF packet
  <1>5. LET o == Offer(k, control)
        IN /\ o.due = k.due /\ o.lsp = k.lsp /\ (o.state = k.state \/ o.state = "dead")
           /\ \A i \in DOMAIN o.out : o.out[i] = packet
    BY <1>3, OfferTells DEF packet
  <1>6. /\ r.due = l.due /\ (e = "phone" => r.lsp = PhoneLsp) /\ r.state \in Early \union {"dead"}
        /\ \A i \in DOMAIN r.out : r.out[i] = packet
    BY <1>1, <1>5 DEF Early
  <1>7. /\ Carried(Other(e), packet, 0)
        /\ "ACK" \in packet.control => packet.ack = Psn(0)
        /\ "SYN" \in packet.control /\ e = "phone" => packet.lsp = PhoneLsp
    <2>1. CASE e = "accessory"
      <3>1. control = {"SYN"} /\ Other(e) = "phone" /\ "ACK" \notin control
        BY <2>1, TwoEnds
      <3> QED
        BY <1>4, <2>1, <3>1 DEF Carried
    <2>2. CASE e = "phone"
      <3>1. control = {"SYN", "ACK"} /\ Other(e) = "accessory"
        BY <2>2, TwoEnds
      <3> QED
        BY <1>1, <1>4, <2>2, <3>1 DEF Carried
    <2> QED
      BY <2>1, <2>2 DEF Ends
  <1>8. \A i \in DOMAIN r.out :
          /\ Carried(Other(e), r.out[i], 0)
          /\ "ACK" \in r.out[i].control => r.out[i].ack = Psn(0)
          /\ "SYN" \in r.out[i].control /\ e = "phone" => r.out[i].lsp = PhoneLsp
    BY <1>6, <1>7
  <1> QED
    BY <1>1, <1>6, <1>8, EarlyAnswers

\* What the phone answers to a SYN.
LEMMA SynAnswers ==
  ASSUME NoReuse, NEW e, e = "phone", NEW l, NEW n, NEW m, NEW d, NEW inbox,
         Poised(e, l, n, m, d, inbox), inbox # << >>,
         l.state \in {"detect", "negotiate"}, Head(inbox).control = {"SYN"},
         LET r == PhoneHandles(l, Head(inbox)) IN r \in Links /\ Ordered(e, Flushed(r), n, m)
  PROVE  Answers(e, l, PhoneHandles(l, Head(inbox)), n, n, m, d, Tail(inbox))
  <1> DEFINE p == Head(inbox)
             r == PhoneHandles(l, p)
             k == [l EXCEPT !.state = "negotiate", !.lastIn = p.seq, !.lastAcked = p.seq]
             control == {"SYN", "ACK"}
             q == Tail(inbox)
  <1>1. l \in Links /\ l.out = << >> /\ e \in Ends /\ l.state \in Early
    BY TwoEnds DEF Poised, Sound, Early
  <1>2. p.seq = FirstPsn /\ p.seq \in Psns
    <2>1. p \in Packets /\ Carried(e, p, m)
      BY PoisedHead
    <2> HIDE DEF p
    <2> QED
      BY <2>1 DEF Carried, Carries, Packets, p
  <1>3. r = AnswerSyn(k)
    BY DEF PhoneHandles
  <1> HIDE DEF p, r
  <1>4. /\ k \in Links /\ k.out = << >> /\ k.state = "negotiate" /\ k.lastIn = FirstPsn
        /\ k.sentPsn = l.sentPsn /\ k.lsp = l.lsp /\ k.due = l.due
    BY <1>1, <1>2 DEF Links, States
  <1> HIDE DEF k
  <1>5. r = Offer(k, control)
    BY <1>3 DEF AnswerSyn, Offer
  <1>6. control = IF e = "accessory" THEN {"SYN"} ELSE {"SYN", "ACK"}
    OBVIOUS
  <1>7. r \in Links /\ Ordered(e, Flushed(r), n, m)
    BY DEF r, p
  <1>8. q = inbox \/ (inbox # << >> /\ q = Tail(inbox))
    OBVIOUS
  <1> HIDE DEF control, q
  <1>9. Answers(e, l, r, n, n, m, d, q)
    BY <1>1, <1>4, <1>5, <1>6, <1>7, <1>8, OfferAnswers
  <1> QED
    BY <1>9 DEF r, p, q

\* An EAK while the phone negotiates names nothing: it is counted at most.
LEMMA EarlyEakAnswers ==
  ASSUME NoReuse, NEW e, e = "phone", NEW l, NEW n, NEW m, NEW d, NEW inbox,
         Poised(e, l, n, m, d, inbox), inbox # << >>,
         l.state = "negotiate", Head(inbox).control = {"EAK"},
         LET r == HandlePacket(l, Head(inbox)) IN r \in Links /\ Ordered(e, Flushed(r), n, m)
  PROVE  Answers(e, l, HandlePacket(l, Head(inbox)), n, n, m, d, Tail(inbox))
  <1> DEFINE p == Head(inbox)
             r == HandlePacket(l, p)
             k == [l EXCEPT !.lastAcked = l.lastIn]
             packet == Packet(k, {"ACK"}, k.sentPsn, None, {}, NoLsp)
  <1>1. /\ n \in 0 .. MaxChunks /\ l \in Sound /\ l \in Links /\ l.out = << >>
        /\ l.state # "dead" /\ Sends(l, n) /\ l.lsp = PhoneLsp /\ e \in Ends
        /\ l.state \in Early /\ Recent(l, Sent(l, n)) /\ (Met(e, l) => Following(l))
        /\ l.delivered = << >>
    BY TwoEnds DEF Poised, Sound, Ordered, Early
  <1>2. l.lastIn = Psn(0)
    <2>1. Following(l) /\ Len(l.delivered) = 0
      BY <1>1 DEF Met
    <2> QED
      BY <2>1 DEF Following
  <1>3. Recent(l, 0)
    BY <1>1, SentFacts
  <1>4. r = CumulativeAck(l)
    <2>1. /\ "SYN" \notin p.control /\ "ACK" \notin p.control /\ "EAK" \in p.control
          /\ "RST" \notin p.control /\ ~ (p.control \subseteq {"ACK"})
      OBVIOUS
    <2>2. HandleEak(l, p.missing) = l
      BY <1>1, <1>3, NothingKept
    <2> HIDE DEF p
    <2> QED
      BY <2>1, <2>2 DEF HandlePacket
  <1>5. r \in Links /\ Ordered(e, Flushed(r), n, m)
    OBVIOUS
  <1> HIDE DEF p, r
  <1>6. CASE r = l
    <2>1. Answers(e, l, l, n, n, m, d, Tail(inbox))
      BY <1>1, SilentAnswers
    <2> QED
      BY <1>6, <2>1 DEF r, p
  <1>7. CASE r # l
    <2>1. r = SendAck(k)
      BY <1>4, <1>7 DEF CumulativeAck
    <2>2. /\ k \in Links /\ k.out = << >> /\ k.lastIn = Psn(0) /\ k.state = "negotiate"
          /\ k.lsp = PhoneLsp /\ k.due = l.due
      BY <1>1, <1>2 DEF Links
    <2> HIDE DEF k
    <2>3. packet.control = {"ACK"} /\ packet.chunk = 0 /\ packet.ack = Psn(0)
      BY <2>2 DEF Packet, None
    <2>4. Wrote(k, r, packet)
      <3>1. [psn |-> 0, chunk |-> 0, counter |-> 0] \in Unacked /\ {} \in SUBSET Psns
        BY Numbers DEF Unacked
      <3> QED
        BY <2>1, <2>2, <3>1, SendFacts
    <2> HIDE DEF packet
    <2>5. /\ \A i \in DOMAIN r.out : r.out[i] = packet
          /\ r.due = l.due /\ r.lsp = PhoneLsp /\ r.state \in Early \union {"dead"}
      BY <2>2, <2>4, OneWritten DEF Early
    <2>6. Carried(Other(e), packet, 0)
      BY <2>3 DEF Carried, Carries, None
    <2>7. "SYN" \notin packet.control
      BY <2>3
    <2>8. \A i \in DOMAIN r.out :
            /\ Carried(Other(e), r.out[i], 0)
            /\ "ACK" \in r.out[i].control => r.out[i].ack = Psn(0)
            /\ "SYN" \in r.out[i].control /\ e = "phone" => r.out[i].lsp = PhoneLsp
      BY <2>3, <2>5, <2>6, <2>7
    <2>9. Answers(e, l, r, n, n, m, d, Tail(inbox))
      BY <1>1, <1>5, <2>5, <2>8, EarlyAnswers
    <2> QED
      BY <2>9 DEF r, p
  <1> QED
    BY <1>6, <1>7

\* What the phone answers to each packet.
LEMMA PhoneAnswers ==
  ASSUME NoReuse, FitsWindow, NEW e, e = "phone", NEW l, NEW n, NEW m, NEW d, NEW inbox,
         Poised(e, l, n, m, d, inbox), inbox # << >>,
         l.state \in {"detect", "negotiate", "normal"},
         "negotiate" \in l.timers => l.state \in {"negotiate", "dead"}
  PROVE  Answers(e, l, PhoneHandles(l, Head(inbox)), n, n, m, d, Tail(inbox))
  <1> DEFINE p == Head(inbox)
             r == PhoneHandles(l, p)
  <1>1. /\ n \in 0 .. MaxChunks /\ n \in Nat /\ m \in 0 .. MaxChunks /\ l \in Sound
        /\ l.out = << >> /\ Ordered("phone", l, n, m) /\ e \in Ends
        /\ Sends(l, n) /\ Receives(l, m) /\ (Met(e, l) => Following(l))
    BY SessionAssumption, TwoEnds DEF Poised, Ordered
  <1>2. p \in Packets /\ Carried("phone", p, m)
    BY PoisedHead
  <1>3. r \in Links /\ Ordered("phone", Flushed(r), n, m)
    BY <1>1, <1>2, PhoneReceives
  <1>4. CASE p.control = {"SYN"} /\ l.state # "normal"
    BY <1>3, <1>4, SynAnswers
  <1>5. CASE r = l
    <2> HIDE DEF r
    <2>1. Answers(e, l, l, n, n, m, d, Tail(inbox))
      BY <1>1, SilentAnswers
    <2> QED
      BY <1>5, <2>1 DEF r
  <1>6. CASE p.control # {"SYN"} /\ l.state # "detect"
    <2>1. r = HandlePacket(l, p)
      BY <1>6 DEF PhoneHandles
    <2> DEFINE h == HandlePacket(l, p)
    <2>2. h \in Links /\ Ordered(e, Flushed(h), n, m)
      BY <1>3, <2>1
    <2>3. Answers(e, l, h, n, n, m, d, Tail(inbox))
      <3>1. CASE p.control = {"ACK"}
        <4>1. Receives(h, m) /\ h.state \in {"normal", "dead"}
          <5>1. Following(l) /\ l.state \in {"negotiate", "normal"}
            BY <1>1, <1>6 DEF Met
          <5>2. Carries(p, m)
            <6> HIDE DEF p
            <6> QED
              BY <1>2, <3>1 DEF Carried
          <5>3. Advances(l, h, n, m)
            BY <1>1, <1>2, <3>1, <5>1, <5>2, HandleAckPacket
          <5> HIDE DEF h
          <5> QED
            BY <5>3 DEF Advances
        <4> QED
          BY <1>1, <1>6, <3>1, <4>1, AckAnswers
      <3>2. CASE p.control = {"EAK"} /\ l.state = "normal"
        BY <1>1, <3>2, EakAnswers
      <3>3. CASE p.control = {"EAK"} /\ l.state = "negotiate"
        BY <2>2, <3>3, EarlyEakAnswers
      <3>4. p.control = {"ACK"} \/ p.control = {"EAK"}
        <4> HIDE DEF p
        <4> QED
          BY <1>2, <1>6 DEF Carried, Carries
      <3> HIDE DEF h, p
      <3> QED
        BY <1>6, <3>1, <3>2, <3>3, <3>4
    <2> QED
      BY <2>1, <2>3
  <1>7. p.control = {"SYN"} /\ l.state = "normal" => r = l
    BY DEF PhoneHandles
  <1>8. p.control # {"SYN"} /\ l.state = "detect" => r = l
    BY DEF PhoneHandles
  <1> HIDE DEF r, p
  <1>9. Answers(e, l, r, n, n, m, d, Tail(inbox))
    BY <1>4, <1>5, <1>6, <1>7, <1>8 DEF r, p
  <1> QED
    BY <1>9 DEF r, p
-----------------------------------------------------------------------------
(* The other calls.                                                           *)

\* The acknowledgement and the retransmission timers.
LEMMA OtherTimersAnswer ==
  ASSUME NoReuse, NEW e \in Ends, NEW l, NEW n, NEW m, NEW d, NEW inbox,
         Poised(e, l, n, m, d, inbox), NEW t \in Timers, t # "negotiate",
         LET r == OnTimer(l, t)
         IN r \in Links /\ Ordered(e, Flushed(r), n, m) /\ (r.state = l.state \/ r.state = "dead")
  PROVE  Answers(e, l, OnTimer(l, t), n, n, m, d, inbox)
  <1> DEFINE r == OnTimer(l, t)
  <1>1. /\ n \in 0 .. MaxChunks /\ n \in Nat /\ l \in Sound /\ l \in Links /\ l.out = << >>
        /\ l.state # "dead" /\ Sends(l, n) /\ Hears(l, inbox, d)
        /\ (e = "phone" => l.lsp = PhoneLsp)
    BY SessionAssumption DEF Poised, Sound, Ordered
  <1>2. r \in Links /\ Ordered(e, Flushed(r), n, m) /\ (r.state = l.state \/ r.state = "dead")
    OBVIOUS
  <1>3. r = OnSendAckTimer(l) \/ r = OnExpectAckTimer(l)
    <2>1. t = "sendAck" \/ t = "recvAck"
      BY DEF Timers
    <2> QED
      BY <2>1 DEF OnTimer
  <1> HIDE DEF r
  <1>4. CASE l.state = "normal"
    <2> DEFINE b == Sent(l, n)
               c == Len(l.delivered)
    <2>1. Careful(l, n, b, c, Base(l))
      BY <1>4, PoisedCareful
    <2>2. b \in Nat /\ c \in Nat
      <3>1. l.delivered \in Seq(Nat)
        BY <1>1 DEF Links
      <3> QED
        BY <1>1, <3>1, SentFacts
    <2> HIDE DEF b, c
    <2>3. Careful(r, n, b, c, Base(l))
      BY <1>1, <1>3, <2>1, <2>2, OtherTimersCareful
    <2>4. Receives(r, m)
      BY <1>1, <1>2, FlushedReceives
    <2>5. Careful(r, n, Sent(l, n), Len(l.delivered), Base(l))
      BY <2>3 DEF b, c
    <2>6. Retransmits => Base(l) \in 0 .. d /\ Rising(inbox, Base(l), d)
      BY <1>1 DEF Hears
    <2>7. Answers(e, l, r, n, n, m, d, inbox)
      BY <1>1, <1>2, <1>4, <2>4, <2>5, <2>6, CarefulAnswers
    <2> QED
      BY <2>7 DEF r
  <1>5. CASE l.state # "normal"
    <2>1. r = Disarmed(l, "sendAck") \/ r = Disarmed(l, "recvAck")
      BY <1>1, <1>3, <1>5, OtherTimersFollow
    <2>2. r.due = l.due /\ r.lsp = l.lsp /\ r.out = << >>
      BY <1>1, <2>1 DEF Disarmed, Links
    <2>3. l.state \in Early /\ r.state \in Early \union {"dead"}
      BY <1>1, <1>2, <1>5 DEF Early, Links, States
    <2>4. \A i \in DOMAIN << >> : FALSE
      OBVIOUS
    <2>5. Answers(e, l, r, n, n, m, d, inbox)
      BY <1>1, <1>2, <2>2, <2>3, <2>4, EarlyAnswers
    <2> QED
      BY <2>5 DEF r
  <1> QED
    BY <1>4, <1>5

\* The SYN again, as long as the accessory negotiates.
LEMMA AccessoryTimersAnswer ==
  ASSUME NoReuse, NEW e, e = "accessory", NEW l, NEW n, NEW m, NEW d, NEW inbox,
         Poised(e, l, n, m, d, inbox), NEW t \in Timers
  PROVE  Answers(e, l, OnTimer(l, t), n, n, m, d, inbox)
  <1> DEFINE r == OnTimer(l, t)
  <1>1. /\ n \in 0 .. MaxChunks /\ n \in Nat /\ m \in Nat /\ l \in Sound /\ l \in Links
        /\ l.out = << >> /\ l.state # "dead" /\ e \in Ends /\ Ordered("accessory", l, n, m)
        /\ Hears(l, inbox, d) /\ Receives(l, m)
    BY SessionAssumption, TwoEnds DEF Poised, Sound, Ordered
  <1>2. r \in Links /\ Ordered(e, Flushed(r), n, m) /\ (r.state = l.state \/ r.state = "dead")
    <2>1. LET w == OnTimer(l, t)
          IN /\ w \in Links /\ Ordered("accessory", Flushed(w), n, m)
             /\ w.state = l.state \/ w.state = "dead"
      BY <1>1, AccessoryFires
    <2> HIDE DEF r
    <2> QED
      BY <2>1 DEF r
  <1>3. CASE t # "negotiate"
    BY <1>1, <1>2, <1>3, OtherTimersAnswer
  <1>4. CASE t = "negotiate"
    <2> DEFINE quiet == Disarmed(l, "negotiate")
               control == {"SYN"}
    <2>1. r = SendNegotiate(quiet)
      BY <1>4 DEF OnTimer, OnNegotiateTimer
    <2>2. /\ quiet \in Links /\ quiet.state = l.state /\ quiet.out = << >>
          /\ quiet.sentPsn = l.sentPsn /\ quiet.due = l.due /\ quiet.lsp = l.lsp
      <3>1. l.timers \ {"negotiate"} \in SUBSET Timers
        BY <1>1 DEF Links
      <3> QED
        BY <1>1, <3>1 DEF Disarmed, Links
    <2>3. CASE l.state = "normal"
      <3>1. Careful(l, n, Sent(l, n), Len(l.delivered), Base(l))
        BY <1>1, <2>3, PoisedCareful
      <3>2. Careful(quiet, n, Sent(l, n), Len(l.delivered), Base(l))
        BY <1>1, <3>1, TimersCareful
      <3> HIDE DEF quiet
      <3>3. r = quiet
        BY <2>1, <2>2, <2>3 DEF SendNegotiate
      <3> HIDE DEF r
      <3>4. Receives(r, m)
        BY <1>1, <1>2, FlushedReceives
      <3>5. Retransmits => Base(l) \in 0 .. d /\ Rising(inbox, Base(l), d)
        BY <1>1 DEF Hears
      <3>6. Answers(e, l, r, n, n, m, d, inbox)
        BY <1>1, <1>2, <2>3, <3>2, <3>3, <3>4, <3>5, CarefulAnswers
      <3> QED
        BY <3>6 DEF r
    <2>4. CASE l.state = "negotiate"
      <3>1. r = Offer(quiet, control)
        BY <2>1, <2>2, <2>4 DEF SendNegotiate, Offer
      <3>2. control = IF e = "accessory" THEN {"SYN"} ELSE {"SYN", "ACK"}
        OBVIOUS
      <3>3. l.state \in Early
        BY <2>4 DEF Early
      <3> HIDE DEF quiet, control, r
      <3>4. Answers(e, l, r, n, n, m, d, inbox)
        BY <1>1, <1>2, <2>2, <2>4, <3>1, <3>2, <3>3, OfferAnswers
      <3> QED
        BY <3>4 DEF r
    <2>5. CASE l.state \notin {"normal", "negotiate"}
      <3> HIDE DEF quiet
      <3>1. r = quiet
        BY <2>1, <2>2, <2>5 DEF SendNegotiate
      <3> HIDE DEF r
      <3>2. l.state \in Early /\ r.state \in Early \union {"dead"}
        BY <1>1, <1>2, <2>5 DEF Early, Links, States
      <3>3. \A i \in DOMAIN << >> : FALSE
        OBVIOUS
      <3>4. r.out = << >> /\ r.due = l.due
        BY <2>2, <3>1
      <3>5. Answers(e, l, r, n, n, m, d, inbox)
        BY <1>1, <1>2, <3>2, <3>3, <3>4, EarlyAnswers
      <3> QED
        BY <3>5 DEF r
    <2> QED
      BY <2>3, <2>4, <2>5
  <1> QED
    BY <1>3, <1>4

\* The phone's answer to the SYN again, as long as it negotiates.
LEMMA PhoneTimersAnswer ==
  ASSUME NoReuse, NEW e, e = "phone", NEW l, NEW n, NEW m, NEW d, NEW inbox,
         Poised(e, l, n, m, d, inbox), NEW t \in l.timers,
         "negotiate" \in l.timers => l.state \in {"negotiate", "dead"}
  PROVE  LET r == IF t = "negotiate" THEN AnswerSyn(l) ELSE OnTimer(l, t)
         IN Answers(e, l, r, n, n, m, d, inbox)
  <1> DEFINE r == IF t = "negotiate" THEN AnswerSyn(l) ELSE OnTimer(l, t)
             control == {"SYN", "ACK"}
  <1>1. /\ n \in 0 .. MaxChunks /\ n \in Nat /\ m \in Nat /\ l \in Sound /\ l \in Links
        /\ l.out = << >> /\ l.state # "dead" /\ e \in Ends /\ Ordered("phone", l, n, m)
        /\ t \in Timers
    BY SessionAssumption, TwoEnds DEF Poised, Sound, Links
  <1>2. r \in Links /\ Ordered(e, Flushed(r), n, m) /\ (r.state = l.state \/ r.state = "dead")
    BY <1>1, PhoneFires
  <1>3. CASE t # "negotiate"
    BY <1>1, <1>2, <1>3, OtherTimersAnswer
  <1>4. CASE t = "negotiate"
    <2>1. l.state = "negotiate" /\ l.state \in Early
      BY <1>1, <1>4 DEF Early
    <2>2. r = Offer(l, control)
      BY <1>4 DEF AnswerSyn, Offer
    <2>3. l.lastIn = FirstPsn
      <3>1. Following(l) /\ Len(l.delivered) = 0
        BY <1>1, <2>1 DEF Ordered, Met
      <3> QED
        BY <3>1, PsnFacts DEF Following
    <2>4. control = IF e = "accessory" THEN {"SYN"} ELSE {"SYN", "ACK"}
      OBVIOUS
    <2> HIDE DEF r, control
    <2>5. Answers(e, l, r, n, n, m, d, inbox)
      BY <1>1, <1>2, <2>1, <2>2, <2>3, <2>4, OfferAnswers
    <2> QED
      BY <2>5 DEF r
  <1> QED
    BY <1>3, <1>4

\* start(): the first SYN.
LEMMA StartAnswers ==
  ASSUME NoReuse, NEW e, e = "accessory", NEW l, NEW n, NEW m, NEW d, NEW inbox,
         Poised(e, l, n, m, d, inbox), l.state = "idle"
  PROVE  Answers(e, l, Start(l), n, n, m, d, inbox)
  <1> DEFINE r == Start(l)
             k == [l EXCEPT !.state = "negotiate"]
             control == {"SYN"}
  <1>1. /\ n \in Nat /\ m \in Nat /\ l \in Sound /\ l \in Links
        /\ l.out = << >> /\ e \in Ends /\ Ordered("accessory", l, n, m) /\ l.state \in Early
    BY SessionAssumption, TwoEnds DEF Poised, Sound, Early
  <1>2. r \in Links /\ Ordered(e, Flushed(r), n, m)
    BY <1>1, AccessoryBegins
  <1>3. CASE ~ l.up
    <2>1. r.state = "dead"
      BY <1>1, <1>3 DEF Start, Bailout, Links
    <2> QED
      BY <2>1 DEF Answers
  <1>4. CASE l.up
    <2>1. /\ k \in Links /\ k.out = << >> /\ k.state = "negotiate"
          /\ k.sentPsn = l.sentPsn /\ k.lsp = l.lsp /\ k.due = l.due
      BY <1>1 DEF Links, States
    <2>2. r = Offer(k, control)
      BY <1>4, <2>1 DEF Start, SendNegotiate, Offer
    <2>3. control = IF e = "accessory" THEN {"SYN"} ELSE {"SYN", "ACK"}
      OBVIOUS
    <2> HIDE DEF r, control, k
    <2>4. Answers(e, l, r, n, n, m, d, inbox)
      BY <1>1, <1>2, <2>1, <2>2, <2>3, OfferAnswers
    <2> QED
      BY <2>4 DEF r
  <1> QED
    BY <1>3, <1>4

\* Before the link is up, what is submitted is queued.
LEMMA SubmitQueues ==
  ASSUME NEW l \in Links, l.state # "normal", NEW s \in Seq(Nat)
  PROVE  LET r == SendSessionData(l, s)
         IN r.due = l.due /\ r.lsp = l.lsp /\ r.out = l.out /\ r.state = l.state
  <1> DEFINE Same(r) == r.due = l.due /\ r.lsp = l.lsp /\ r.out = l.out /\ r.state = l.state
             Good == [i \in 0 .. Len(s) |-> {r \in Links : Same(r)}]
  <1>1. Len(s) \in Nat /\ \A i \in 1 .. Len(s) : s[i] \in Nat /\ i \in 0 .. Len(s) /\ i - 1 \in 0 .. Len(s)
    OBVIOUS
  <1>2. ASSUME NEW i \in 1 .. Len(s), NEW r \in Links, Same(r)
        PROVE  EnqueuePacket(r, s[i]) \in Links /\ Same(EnqueuePacket(r, s[i]))
    <2> DEFINE queued == Append(r.queued, s[i])
               w == [r EXCEPT !.queued = queued]
    <2>1. EnqueuePacket(r, s[i]) = w
      BY <1>2 DEF EnqueuePacket
    <2>2. queued \in Seq(Nat)
      BY <1>1 DEF Links
    <2> HIDE DEF queued
    <2>3. w \in Links /\ Same(w)
      BY <1>2, <2>2 DEF Links
    <2> QED
      BY <2>1, <2>3
  <1>3. l \in Good[0] /\ \A r \in Good[Len(s)] : Same(r)
    BY <1>1
  <1>4. \A i \in 1 .. Len(s) : \A r \in Good[i - 1] : EnqueuePacket(r, s[i]) \in Good[i]
    BY <1>1, <1>2
  <1> HIDE DEF Good
  <1>5. FoldLeft(EnqueuePacket, l, s) \in Good[Len(s)]
    BY <1>3, <1>4, Loops
  <1> QED
    BY <1>3, <1>5 DEF SendSessionData

\* A payload, submitted while nothing is queued.
LEMMA SubmitAnswers ==
  ASSUME NoReuse, NEW e \in Ends, NEW l, NEW n, NEW m, NEW d, NEW inbox,
         Poised(e, l, n, m, d, inbox), l.queued = << >>,
         NEW count \in Nat, n + count <= MaxChunks
  PROVE  Answers(e, l, SendSessionData(l, [i \in 1 .. count |-> n + i]), n, n + count, m, d, inbox)
  <1> DEFINE s == [i \in 1 .. count |-> n + i]
             r == SendSessionData(l, s)
             k == n + count
  <1>1. /\ n \in 0 .. MaxChunks /\ n \in Nat /\ m \in Nat /\ l \in Sound /\ l \in Links
        /\ l.out = << >> /\ l.state # "dead" /\ Ordered(e, l, n, m) /\ Sends(l, n)
        /\ Hears(l, inbox, d) /\ l.delivered \in Seq(Nat) /\ (e = "phone" => l.lsp = PhoneLsp)
    BY SessionAssumption DEF Poised, Sound, Ordered, Links
  <1>2. s \in Seq(Nat) /\ k \in 0 .. MaxChunks /\ k \in Nat
    BY <1>1, SessionAssumption
  <1>3. Follows(l, r, k)
    BY <1>1, SubmitFollows
  <1>4. l.state = "normal" => Careful(r, k, Sent(l, n), Len(l.delivered), Base(l))
    <2>1. CASE l.state = "normal"
      <3>1. Careful(l, n, Sent(l, n), Len(l.delivered), Base(l))
        BY <2>1, PoisedCareful
      <3>2. Sent(l, n) \in Nat /\ Len(l.delivered) \in Nat
        BY <1>1, SentFacts
      <3> QED
        BY <1>1, <3>1, <3>2, SubmitCareful
    <2> QED
      BY <2>1
  <1> HIDE DEF k, s
  <1>5. r \in Links
    <2>1. r \in Sound
      BY <1>1, <1>2, SubmitSound
    <2> QED
      BY <2>1 DEF Sound
  <1>6. l.state # "normal" => r.due = l.due /\ r.lsp = l.lsp /\ r.out = << >>
    BY <1>1, <1>2, SubmitQueues
  <1> HIDE DEF r
  <1>7. Ordered(e, Flushed(r), k, m) /\ (r.state = l.state \/ r.state = "dead")
    BY <1>1, <1>2, <1>3, <1>5, FollowsOrdered DEF Follows, Stays
  <1>8. Answers(e, l, r, n, k, m, d, inbox)
    <2>1. CASE l.state = "normal"
      <3>1. Receives(r, m)
        BY <1>2, <1>5, <1>7, FlushedReceives
      <3>2. Retransmits => Base(l) \in 0 .. d /\ Rising(inbox, Base(l), d)
        BY <1>1, <2>1 DEF Hears
      <3> QED
        BY <1>1, <1>2, <1>4, <1>5, <1>7, <2>1, <3>1, <3>2, CarefulAnswers
    <2>2. CASE l.state # "normal"
      <3>1. l.state \in Early /\ r.state \in Early \union {"dead"}
        BY <1>1, <1>7, <2>2 DEF Early, Links, States
      <3>2. \A i \in DOMAIN << >> : FALSE
        OBVIOUS
      <3> QED
        BY <1>1, <1>2, <1>5, <1>6, <1>7, <2>2, <3>1, <3>2, EarlyAnswers
    <2> QED
      BY <2>1, <2>2
  <1> QED
    BY <1>8 DEF r, s, k
-----------------------------------------------------------------------------
(* The session.                                                               *)

\* What is written does not count for what an end tells.
LEMMA FlushedTells ==
  ASSUME NEW r \in Links, NEW k
  PROVE  LET f == Flushed(r)
         IN /\ Sent(f, k) = Sent(r, k)
            /\ \A s : Recent(r, s) => Recent(f, s)
            /\ \A s : Adopts(r, s) => Adopts(f, s)
            /\ \A q, d : Hears(r, q, d) => Hears(f, q, d)
            /\ \A m : Receives(r, m) => Receives(f, m)
  <1> DEFINE f == Flushed(r)
  <1>1. /\ f.due = r.due /\ f.lsp = r.lsp /\ f.lastSentAcked = r.lastSentAcked
        /\ f.state = r.state /\ f.queued = r.queued
        /\ f.delivered = r.delivered /\ f.outOfSequence = r.outOfSequence
    BY DEF Flushed, Links
  <1> HIDE DEF f
  <1>2. Sent(f, k) = Sent(r, k) /\ Base(f) = Base(r) /\ Due(f) = Due(r)
    BY <1>1 DEF Sent, Base, Due
  <1>3. \A s : Recent(r, s) => Recent(f, s)
    BY <1>2 DEF Recent
  <1>4. \A s : Adopts(r, s) => Adopts(f, s)
    BY <1>1, <1>2 DEF Adopts, Windowed
  <1>5. \A q, d : Hears(r, q, d) => Hears(f, q, d)
    BY <1>2 DEF Hears
  <1>6. \A m : Receives(r, m) => Receives(f, m)
    BY <1>1 DEF Receives
  <1> QED
    BY <1>2, <1>3, <1>4, <1>5, <1>6 DEF f

\* Of the packets, or what is left of them when the first is taken.
LEMMA TakenFrom ==
  ASSUME NEW inbox \in Seq(Packets), NEW q, q = inbox \/ (inbox # << >> /\ q = Tail(inbox))
  PROVE  /\ q \in Seq(Packets)
         /\ \A e, m : Only(e, inbox, m) => Only(e, q, m)
         /\ Dictates(inbox) => Dictates(q)
  <1>1. q \in Seq(Packets) /\ \A i \in DOMAIN q : \E j \in DOMAIN inbox : q[i] = inbox[j]
    BY Rest
  <1> QED
    BY <1>1 DEF Only, Dictates

\* Each end, while both are alive, is ready for its next call.
LEMMA EndPoised ==
  ASSUME SessionInv, OrderInv, AckInv, ~ Dead, NEW e \in Ends
  PROVE  LET o == Other(e)
         IN /\ Poised(e, link[e], submitted[e], Sent(link[o], submitted[o]),
                      Len(link[o].delivered), channel[e])
            /\ Told(e, link[e], link[o], submitted[e], channel[e], channel[o])
  <1> DEFINE o == Other(e)
             l == link[e]
             r == link[o]
             n == submitted[e]
             k == submitted[o]
             s == Sent(l, n)
             m == Sent(r, k)
             d == Len(r.delivered)
  <1>1. o \in Ends /\ Other(o) = e
    BY TwoEnds
  <1>2. /\ l \in Sound /\ l \in Links /\ l.out = << >> /\ channel[e] \in Seq(Packets)
        /\ k \in 0 .. MaxChunks /\ Ordered(e, l, n, k)
    BY EndFacts
  <1>3. /\ r \in Links /\ channel[o] \in Seq(Packets)
        /\ n \in 0 .. MaxChunks /\ Ordered(o, r, k, n)
    BY <1>1, EndFacts
  <1>4. l.state # "dead" /\ r.state # "dead"
    BY <1>1 DEF Dead
  <1>5. /\ Told(e, l, r, n, channel[e], channel[o])
        /\ Told(o, r, l, k, channel[o], channel[e])
    BY <1>1 DEF AckInv, ToldBoth
  <1>6. Dictated
    BY DEF AckInv
  <1> HIDE DEF o, l, r, n, k
  <1>7. Sends(l, n) /\ Sends(r, k)
    BY <1>2, <1>3 DEF Ordered
  <1>8. s \in 0 .. MaxChunks /\ m \in 0 .. MaxChunks
    BY <1>2, <1>3, <1>4, <1>7, SentFacts
  <1>9. /\ Recent(l, s) /\ Adopts(l, s) /\ Hears(l, channel[e], d) /\ Receives(r, s)
        /\ Receives(l, m) /\ Only(e, channel[e], m)
    BY <1>1, <1>5 DEF Told
  <1>10. d \in 0 .. MaxChunks /\ d <= s
    <2>1. r.delivered \in Seq(Nat)
      BY <1>3 DEF Links
    <2>2. d \in Nat /\ d <= s
      BY <1>9, <2>1 DEF Receives
    <2> HIDE DEF d, s
    <2> QED
      BY <1>8, <2>2, SessionAssumption
  <1>11. Ordered(e, l, n, m)
    BY <1>2, <1>9 DEF Ordered
  <1>12. (e = "phone" => l.lsp = PhoneLsp) /\ (e = "accessory" => Dictates(channel[e]))
    BY <1>6 DEF Dictated, l
  <1> HIDE DEF s, m, d
  <1>13. Poised(e, l, n, m, d, channel[e])
    BY <1>2, <1>3, <1>4, <1>8, <1>9, <1>10, <1>11, <1>12 DEF Poised, s
  <1> QED
    BY <1>5, <1>13 DEF o, l, r, n, k, m, d

\* What one end has answered, both know.
LEMMA MadeTold ==
  ASSUME NoReuse, SessionInv, OrderInv, AckInv, ~ Dead, NEW e \in Ends, NEW r \in Links, NEW q,
         q = channel[e] \/ (channel[e] # << >> /\ q = Tail(channel[e])),
         NEW k, Made(e, r, q), submitted' = [submitted EXCEPT ![e] = k],
         LET o == Other(e)
         IN Answers(e, link[e], r, submitted[e], k, Sent(link[o], submitted[o]),
                    Len(link[o].delivered), q)
  PROVE  AckInv'
  <1> SUFFICES ASSUME ~ Dead' PROVE Dictated' /\ ToldBoth'
    BY DEF AckInv
  <1> DEFINE o == Other(e)
             l == link[e]
             p == link[o]
             n == submitted[e]
             j == submitted[o]
             inbox == channel[e]
             outbox == channel[o]
             both == outbox \o r.out
             f == Flushed(r)
             s == Sent(l, n)
             t == Sent(r, k)
             m == Sent(p, j)
             c == Len(l.delivered)
             h == Len(r.delivered)
             d == Len(p.delivered)
  <1>1. o \in Ends /\ o # e /\ Other(o) = e /\ \A x \in Ends : x = e \/ x = o
    BY TwoEnds
  <1>2. link'[e] = f /\ link'[o] = p /\ channel'[e] = q /\ channel'[o] = both
    BY MadeFacts
  <1>3. submitted'[e] = k /\ submitted'[o] = j
    BY <1>1 DEF SessionInv
  <1>4. /\ Poised(e, l, n, m, d, inbox) /\ Told(e, l, p, n, inbox, outbox)
    BY EndPoised
  <1>5. /\ Poised(o, p, j, s, c, outbox) /\ Told(o, p, l, j, outbox, inbox)
    BY <1>1, EndPoised
  <1>6. Answers(e, l, r, n, k, m, d, q)
    OBVIOUS
  <1>7. r.state # "dead"
    <2>1. f.state # "dead"
      BY <1>2 DEF Dead
    <2> QED
      BY <2>1, FlushedSame
  <1>8. link'["phone"].lsp = PhoneLsp <=> IF e = "phone" THEN f.lsp = PhoneLsp ELSE p.lsp = PhoneLsp
    BY <1>2, TwoEnds
  <1>9. f.lsp = r.lsp
    BY DEF Flushed, Links
  <1>10. channel'["accessory"] = IF e = "phone" THEN both ELSE q
    BY <1>2, TwoEnds
  <1>11. r.out \in Seq(Packets)
    BY DEF Links
  <1>12. e = "phone" => o = "accessory"
    BY TwoEnds
  <1>13. e # "phone" => o = "phone" /\ e = "accessory"
    BY TwoEnds DEF Ends
  <1>14. \A x \in Ends : x = e \/ x = o
    BY TwoEnds
  <1> HIDE DEF o, l, p, n, j, inbox, outbox, f
  <1>15. /\ t \in Nat /\ s <= t /\ Recent(r, t) /\ Adopts(r, t) /\ Receives(r, m) /\ Only(o, r.out, t)
         /\ c <= h /\ Rising(r.out, c, h) /\ Hears(r, q, d)
         /\ e = "phone" => r.lsp = PhoneLsp /\ Dictates(r.out)
    BY <1>6, <1>7 DEF Answers, Candid, o
  <1>16. /\ m \in 0 .. MaxChunks /\ s \in 0 .. MaxChunks /\ c \in 0 .. MaxChunks
         /\ inbox \in Seq(Packets) /\ outbox \in Seq(Packets) /\ p \in Links
         /\ Ordered(o, p, j, s) /\ Only(o, outbox, s) /\ Only(e, inbox, m) /\ Hears(p, outbox, c)
         /\ Recent(p, m) /\ Adopts(p, m)
    BY <1>4, <1>5 DEF Poised, Sound
  <1>17. q \in Seq(Packets) /\ Only(e, q, m) /\ (Dictates(inbox) => Dictates(q))
    <2>1. q = inbox \/ (inbox # << >> /\ q = Tail(inbox))
      BY DEF inbox
    <2> QED
      BY <1>16, <2>1, TakenFrom
  <1>18. Told(e, f, p, k, q, both)
    <2>1. Sent(f, k) = t /\ Recent(f, t) /\ Adopts(f, t) /\ Hears(f, q, d)
      BY <1>15, FlushedTells DEF f
    <2>2. Ordered(o, p, j, t) /\ Only(o, outbox, t)
      BY <1>15, <1>16, OrderedMore
    <2>3. Only(o, both, t)
      BY <1>11, <1>15, <1>16, <2>2, OnlyBoth DEF Only
    <2> HIDE DEF t, d, both
    <2> QED
      BY <2>1, <2>2, <2>3 DEF Told, Ordered, o, d
  <1>19. Told(o, p, f, j, both, q)
    <2>1. Receives(f, m) /\ f.delivered = r.delivered
      BY <1>15, FlushedTells, FlushedSame DEF f
    <2>2. h \in 0 .. MaxChunks
      <3>1. r.delivered \in Seq(Nat)
        BY DEF Links
      <3>2. h \in Nat /\ h <= m
        BY <1>15, <3>1 DEF Receives
      <3> HIDE DEF h, m
      <3> QED
        BY <1>16, <3>2, SessionAssumption
    <2>3. ASSUME Retransmits PROVE Base(p) \in 0 .. h /\ Rising(both, Base(p), h)
      <3>1. Base(p) \in 0 .. c /\ Rising(outbox, Base(p), c)
        BY <1>16, <2>3 DEF Hears
      <3> HIDE DEF c, h
      <3>2. Base(p) \in Nat /\ Base(p) <= c /\ Base(p) \in 0 .. h
        BY <1>15, <1>16, <2>2, <3>1, SessionAssumption
      <3> QED
        BY <1>11, <1>15, <1>16, <2>2, <3>1, <3>2, RisingJoined
    <2>4. Hears(p, both, h)
      BY <2>3 DEF Hears
    <2> HIDE DEF m, h, both
    <2> QED
      BY <1>1, <1>16, <1>17, <2>1, <2>4 DEF Told, m, h
  <1>20. ToldBoth'
    <2>1. Told(e, link'[e], link'[o], submitted'[e], channel'[e], channel'[o])
      BY <1>2, <1>3, <1>18
    <2>2. Told(o, link'[o], link'[e], submitted'[o], channel'[o], channel'[e])
      BY <1>2, <1>3, <1>19
    <2>3. Other(e) = o /\ Other(o) = e
      BY <1>1 DEF o
    <2> QED
      BY <1>14, <2>1, <2>2, <2>3 DEF ToldBoth
  <1>21. Dictated'
    <2>1. CASE e = "phone"
      <3>1. Dictates(outbox)
        BY <1>5, <1>12, <2>1 DEF Poised
      <3>2. Dictates(both)
        BY <1>11, <1>15, <1>16, <2>1, <3>1, OnlyBoth DEF Dictates
      <3> HIDE DEF both
      <3> QED
        BY <1>8, <1>9, <1>10, <1>15, <2>1, <3>2 DEF Dictated
    <2>2. CASE e # "phone"
      <3>1. Dictates(inbox) /\ p.lsp = PhoneLsp
        BY <1>4, <1>5, <1>13, <2>2 DEF Poised
      <3> HIDE DEF both
      <3> QED
        BY <1>8, <1>10, <1>17, <2>2, <3>1 DEF Dictated
    <2> QED
      BY <2>1, <2>2
  <1> QED
    BY <1>20, <1>21

\* An end that is dead stays dead while the other makes its call.
LEMMA DeadStays ==
  ASSUME SessionInv, NEW e \in Ends, NEW r, NEW q, Made(e, r, q), link[e].state # "dead", Dead
  PROVE  Dead'
  <1>1. link'[Other(e)] = link[Other(e)]
    BY MadeFacts
  <1>2. PICK f \in Ends : link[f].state = "dead"
    BY DEF Dead
  <1>3. f = Other(e)
    BY <1>2, TwoEnds
  <1> QED
    BY <1>1, <1>2, <1>3 DEF Dead

\* A call of an end that answers is one that both know of.
LEMMA CallTold ==
  ASSUME NoReuse, SessionInv, OrderInv, AckInv, NEW e \in Ends, link[e].state # "dead",
         NEW r \in Links, NEW q, q = channel[e] \/ (channel[e] # << >> /\ q = Tail(channel[e])),
         NEW k, Made(e, r, q), submitted' = [submitted EXCEPT ![e] = k],
         LET o == Other(e)
         IN ~ Dead => Answers(e, link[e], r, submitted[e], k, Sent(link[o], submitted[o]),
                              Len(link[o].delivered), q)
  PROVE  AckInv'
  <1>1. CASE Dead
    <2>1. Dead'
      BY <1>1, DeadStays
    <2> QED
      BY <2>1 DEF AckInv
  <1>2. CASE ~ Dead
    BY <1>2, MadeTold
  <1> QED
    BY <1>1, <1>2

LEMMA ReceiveTold ==
  ASSUME NoReuse, FitsWindow, SessionInv, OrderInv, AckInv, NEW e \in Ends, Receive(e)
  PROVE  AckInv'
  <1> DEFINE inbox == channel[e]
             q == Tail(inbox)
             l == link[e]
             n == submitted[e]
             o == Other(e)
             m == Sent(link[o], submitted[o])
             d == Len(link[o].delivered)
             p == Head(inbox)
             r == IF e = "phone" THEN PhoneHandles(l, p) ELSE HandlePacket(l, p)
  <1>1. inbox # << >> /\ l.state # "dead" /\ UNCHANGED submitted /\ Made(e, r, q)
    BY DEF Receive, CanReceive
  <1>2. /\ l \in Sound /\ l \in Links /\ inbox \in Seq(Packets) /\ n \in Nat /\ l.out = << >>
        /\ submitted[o] \in 0 .. MaxChunks /\ Ordered(e, l, n, submitted[o])
        /\ Only(e, inbox, submitted[o])
    BY EndFacts
  <1>3. submitted' = [submitted EXCEPT ![e] = n]
    BY <1>1 DEF SessionInv
  <1>4. Shaken(link["accessory"], link["phone"], channel["phone"], channel["accessory"])
    BY DEF OrderInv, Handshake
  <1>5. ~ Dead => Poised(e, l, n, m, d, inbox)
    BY EndPoised
  <1>6. p \in Packets /\ (\E i \in DOMAIN inbox : p = inbox[i])
    <2>1. Head(inbox) \in Packets /\ Head(inbox) = inbox[1] /\ 1 \in DOMAIN inbox
      BY <1>1, <1>2, Rest
    <2> QED
      BY <2>1
  <1>7. l.state \in States
    BY <1>2 DEF Links
  <1>8. CASE e = "accessory"
    <2> DEFINE w == HandlePacket(l, p)
    <2>1. r = w
      BY <1>8
    <2>2. w \in Links
      BY <1>2, <1>6, HandlePacketSound DEF Sound
    <2>3. /\ l.state \in {"idle", "negotiate", "normal"}
          /\ l.state \in Early => p.control \in {{"SYN", "ACK"}, {"RST"}}
          /\ l.state = "idle" => p.control = {"RST"}
      <3>1. l = link["accessory"] /\ inbox = channel["accessory"]
        BY <1>8
      <3> HIDE DEF l, p, inbox
      <3> QED
        BY <1>1, <1>4, <1>6, <1>7, <3>1 DEF Shaken, States
    <2>4. ASSUME ~ Dead PROVE Answers(e, l, w, n, n, m, d, q)
      <3>1. Poised(e, l, n, m, d, inbox)
        BY <1>5, <2>4
      <3> HIDE DEF l, n, m, d, inbox
      <3> QED
        BY <1>1, <1>8, <2>3, <3>1, AccessoryAnswers
    <2>5. Made(e, w, q)
      BY <1>1, <2>1
    <2>6. q = channel[e] \/ (channel[e] # << >> /\ q = Tail(channel[e]))
      BY <1>1
    <2> HIDE DEF w, r, q
    <2> QED
      BY <1>1, <1>3, <2>2, <2>4, <2>5, <2>6, CallTold
  <1>9. CASE e = "phone"
    <2> DEFINE w == PhoneHandles(l, p)
    <2>1. r = w
      BY <1>9
    <2>2. /\ l.state \in {"detect", "negotiate", "normal"}
          /\ "negotiate" \in l.timers => l.state \in {"negotiate", "dead"}
      <3>1. l = link["phone"]
        BY <1>9
      <3> HIDE DEF l
      <3> QED
        BY <1>1, <1>4, <1>7, <3>1 DEF Shaken, States
    <2>3. w \in Links
      <3>1. Carried(e, p, submitted[o])
        <4> HIDE DEF p, inbox
        <4> QED
          BY <1>2, <1>6 DEF Only
      <3> HIDE DEF l, p, n, o
      <3> QED
        BY <1>2, <1>6, <1>9, <2>2, <3>1, PhoneReceives
    <2>4. ASSUME ~ Dead PROVE Answers(e, l, w, n, n, m, d, q)
      <3>1. Poised(e, l, n, m, d, inbox)
        BY <1>5, <2>4
      <3> HIDE DEF l, n, m, d, inbox
      <3> QED
        BY <1>1, <1>9, <2>2, <3>1, PhoneAnswers
    <2>5. Made(e, w, q)
      BY <1>1, <2>1
    <2>6. q = channel[e] \/ (channel[e] # << >> /\ q = Tail(channel[e]))
      BY <1>1
    <2> HIDE DEF w, r, q
    <2> QED
      BY <1>1, <1>3, <2>3, <2>4, <2>5, <2>6, CallTold
  <1> QED
    BY <1>8, <1>9 DEF Ends

LEMMA FireTold ==
  ASSUME NoReuse, SessionInv, OrderInv, AckInv, NEW e \in Ends, NEW t \in Timers, FireTimer(e, t)
  PROVE  AckInv'
  <1> DEFINE q == channel[e]
             l == link[e]
             n == submitted[e]
             o == Other(e)
             m == Sent(link[o], submitted[o])
             d == Len(link[o].delivered)
             r == IF e = "phone" /\ t = "negotiate" THEN AnswerSyn(l) ELSE OnTimer(l, t)
  <1>1. t \in l.timers /\ l.state # "dead" /\ UNCHANGED submitted /\ Made(e, r, q)
    BY DEF FireTimer, CanFire
  <1>2. l \in Sound
    BY EndFacts
  <1>3. submitted' = [submitted EXCEPT ![e] = n]
    BY <1>1 DEF SessionInv
  <1>4. Shaken(link["accessory"], link["phone"], channel["phone"], channel["accessory"])
    BY DEF OrderInv, Handshake
  <1>5. ~ Dead => Poised(e, l, n, m, d, q)
    BY EndPoised
  <1>6. r \in Links
    <2>1. r \in Sound
      BY <1>2, TimerSound
    <2> QED
      BY <2>1 DEF Sound
  <1>7. ASSUME ~ Dead PROVE Answers(e, l, r, n, n, m, d, q)
    <2>1. Poised(e, l, n, m, d, q)
      BY <1>5, <1>7
    <2>2. CASE e = "accessory"
      <3>1. r = OnTimer(l, t)
        BY <2>2
      <3> HIDE DEF l, n, m, d, q, r
      <3> QED
        BY <2>1, <2>2, <3>1, AccessoryTimersAnswer
    <2>3. CASE e = "phone"
      <3>1. "negotiate" \in l.timers => l.state \in {"negotiate", "dead"}
        BY <1>4, <2>3 DEF Shaken
      <3>2. r = IF t = "negotiate" THEN AnswerSyn(l) ELSE OnTimer(l, t)
        BY <2>3
      <3> HIDE DEF l, n, m, d, q, r
      <3> QED
        BY <1>1, <2>1, <2>3, <3>1, <3>2, PhoneTimersAnswer
    <2> QED
      BY <2>2, <2>3 DEF Ends
  <1> HIDE DEF r
  <1> QED
    BY <1>1, <1>3, <1>6, <1>7, CallTold

LEMMA BeginTold ==
  ASSUME NoReuse, SessionInv, OrderInv, AckInv, AccessoryStarts
  PROVE  AckInv'
  <1> DEFINE e == "accessory"
             q == channel[e]
             l == link[e]
             n == submitted[e]
             o == Other(e)
             m == Sent(link[o], submitted[o])
             d == Len(link[o].delivered)
             r == Start(l)
  <1>1. e \in Ends
    BY TwoEnds
  <1>2. l.state = "idle" /\ UNCHANGED submitted /\ Made(e, r, q)
    BY DEF AccessoryStarts
  <1>3. l \in Sound /\ l.out = << >> /\ n \in Nat /\ submitted[o] \in Nat /\ Ordered(e, l, n, submitted[o])
    BY <1>1, EndFacts
  <1>4. submitted' = [submitted EXCEPT ![e] = n]
    BY <1>2 DEF SessionInv
  <1>5. ~ Dead => Poised(e, l, n, m, d, q)
    BY <1>1, EndPoised
  <1>6. r \in Links
    <2> HIDE DEF l, n, o
    <2> QED
      BY <1>2, <1>3, AccessoryBegins
  <1>7. ASSUME ~ Dead PROVE Answers(e, l, r, n, n, m, d, q)
    <2> HIDE DEF l, n, m, d, q
    <2> QED
      BY <1>2, <1>5, <1>7, StartAnswers
  <1> HIDE DEF r, e
  <1>8. l.state # "dead"
    BY <1>2
  <1> QED
    BY <1>1, <1>2, <1>4, <1>6, <1>7, <1>8, CallTold

LEMMA SubmitTold ==
  ASSUME WhenDrained, NoReuse, SessionInv, OrderInv, AckInv, NEW e \in Ends, Submit(e)
  PROVE  AckInv'
  <1> DEFINE q == channel[e]
             l == link[e]
             n == submitted[e]
             o == Other(e)
             m == Sent(link[o], submitted[o])
             d == Len(link[o].delivered)
  <1>1. PICK count \in Payloads :
          /\ l.queued = << >> /\ l.state # "dead" /\ n + count <= MaxChunks
          /\ Made(e, SendSessionData(l, [i \in 1 .. count |-> n + i]), q)
          /\ submitted' = [submitted EXCEPT ![e] = n + count]
    <2>1. submitted[e] = n
      OBVIOUS
    <2> QED
      BY DEF Submit
  <1>2. count \in Nat
    BY SessionAssumption
  <1>3. l \in Sound /\ n \in Nat
    BY EndFacts
  <1>4. ~ Dead => Poised(e, l, n, m, d, q)
    BY EndPoised
  <1> DEFINE chunks == [i \in 1 .. count |-> n + i]
             r == SendSessionData(l, chunks)
             k == n + count
  <1>5. r \in Links
    <2>1. chunks \in Seq(Nat)
      BY <1>2, <1>3
    <2> HIDE DEF chunks, l
    <2>2. r \in Sound
      BY <1>3, <2>1, SubmitSound
    <2> QED
      BY <2>2 DEF Sound
  <1>6. ASSUME ~ Dead PROVE Answers(e, l, r, n, k, m, d, q)
    <2> HIDE DEF l, n, m, d, q
    <2> QED
      BY <1>1, <1>2, <1>4, <1>6, SubmitAnswers
  <1>7. Made(e, r, q) /\ submitted' = [submitted EXCEPT ![e] = k]
    BY <1>1
  <1> HIDE DEF r, k
  <1> QED
    BY <1>1, <1>5, <1>6, <1>7, CallTold

LEMMA CorruptTold ==
  ASSUME NoReuse, SessionInv, OrderInv, AckInv, NEW e \in Ends, Corrupt(e)
  PROVE  AckInv'
  <1> DEFINE o == Other(e)
             q == Tail(channel[e])
  <1>1. /\ channel' = [channel EXCEPT ![e] = q] /\ link' = link /\ submitted' = submitted
        /\ channel[e] # << >> /\ DOMAIN channel = Ends
    BY DEF Corrupt, SessionInv
  <1>2. o \in Ends /\ o # e /\ Other(o) = e /\ \A x \in Ends : x = e \/ x = o
    BY TwoEnds
  <1>3. SUFFICES ASSUME ~ Dead PROVE Dictated' /\ ToldBoth'
    BY <1>1 DEF AckInv, Dead
  <1>4. /\ Told(e, link[e], link[o], submitted[e], channel[e], channel[o])
        /\ Told(o, link[o], link[e], submitted[o], channel[o], channel[e])
        /\ Dictated
    BY <1>2, <1>3 DEF AckInv, ToldBoth
  <1>5. channel[e] \in Seq(Packets) /\ Len(link[o].delivered) \in 0 .. MaxChunks
    <2>1. Poised(e, link[e], submitted[e], Sent(link[o], submitted[o]),
                 Len(link[o].delivered), channel[e])
      BY <1>3, EndPoised
    <2> QED
      BY <2>1 DEF Poised
  <1>6. /\ \A m : Only(e, channel[e], m) => Only(e, q, m)
        /\ Dictates(channel[e]) => Dictates(q)
    BY <1>1, <1>5, TakenFrom
  <1>7. Hears(link[e], q, Len(link[o].delivered))
    <2> DEFINE l == link[e]
               d == Len(link[o].delivered)
    <2>1. Hears(l, channel[e], d)
      BY <1>4 DEF Told
    <2>2. d \in 0 .. MaxChunks
      BY <1>5
    <2> HIDE DEF l, d, q
    <2>3. ASSUME Retransmits PROVE Base(l) \in 0 .. d /\ Rising(q, Base(l), d)
      <3>1. Base(l) \in 0 .. d /\ Base(l) \in Nat /\ Rising(channel[e], Base(l), d)
        BY <2>1, <2>3 DEF Hears
      <3>2. Rising(Tail(channel[e]), Base(l), d)
        BY <1>1, <1>5, <2>2, <3>1, RisingTail
      <3> QED
        BY <3>1, <3>2 DEF q
    <2> QED
      BY <2>3 DEF Hears, l, d
  <1> HIDE DEF q
  <1>8. channel'[e] = q /\ channel'[o] = channel[o]
    BY <1>1, <1>2
  <1>9. Told(e, link[e], link[o], submitted[e], q, channel[o])
    BY <1>4, <1>7 DEF Told
  <1>10. Told(o, link[o], link[e], submitted[o], channel[o], q)
    BY <1>2, <1>4, <1>6 DEF Told
  <1>11. ToldBoth'
    <2>1. /\ Told(e, link'[e], link'[o], submitted'[e], channel'[e], channel'[o])
          /\ Told(o, link'[o], link'[e], submitted'[o], channel'[o], channel'[e])
      BY <1>1, <1>8, <1>9, <1>10
    <2> QED
      BY <1>2, <2>1 DEF ToldBoth
  <1>12. Dictated'
    <2>1. "accessory" = e \/ "accessory" = o
      BY <1>2, TwoEnds
    <2>2. Dictates(channel'["accessory"])
      BY <1>4, <1>6, <1>8, <2>1 DEF Dictated
    <2> QED
      BY <1>1, <1>4, <2>2 DEF Dictated
  <1> QED
    BY <1>11, <1>12

LEMMA ResetTold ==
  ASSUME SessionInv, PhoneResets
  PROVE  AckInv'
  <1> DEFINE e == "phone"
             w == Write(link[e], {"RST"}, link[e].sentPsn, None, {}, NoLsp)
             r == Bailout(w)
  <1>1. e \in Ends /\ Made(e, r, channel[e])
    BY TwoEnds DEF PhoneResets
  <1>2. w \in Links
    <2>1. link[e] \in Links /\ link[e].sentPsn \in Psns
      BY <1>1 DEF SessionInv, Resting, Sound, Links
    <2>2. {"RST"} \in Controls /\ None \in Nat /\ {} \in SUBSET Psns /\ NoLsp \in Lsps
      BY DEF Controls, None, NoLsp, Lsp, Lsps
    <2> QED
      BY <2>1, <2>2, WriteFacts
  <1> HIDE DEF w
  <1>3. r \in Links /\ r.state = "dead"
    <2>1. {} \in SUBSET Timers
      OBVIOUS
    <2> QED
      BY <1>2, <2>1 DEF Bailout, Links, States
  <1> HIDE DEF r, e
  <1>4. link'[e].state = "dead"
    <2>1. link'[e] = Flushed(r)
      BY <1>1, MadeFacts
    <2>2. Flushed(r).state = r.state
      BY <1>3, FlushedSame
    <2> QED
      BY <1>3, <2>1, <2>2
  <1> QED
    BY <1>1, <1>4 DEF AckInv, Dead

LEMMA FailTold ==
  ASSUME SessionInv, AckInv, TransportFails
  PROVE  AckInv'
  <1> DEFINE a == "accessory"
             l == link[a]
             r == [l EXCEPT !.up = FALSE]
             p == link["phone"]
  <1>1. l \in Links
    BY TwoEnds DEF SessionInv, Resting, Sound
  <1>2. /\ link' = [link EXCEPT ![a] = r] /\ channel' = channel /\ submitted' = submitted
        /\ DOMAIN link = Ends
    BY DEF TransportFails, SessionInv
  <1>3. link'[a] = r /\ link'["phone"] = p
    BY <1>2, TwoEnds
  <1> HIDE DEF l
  <1>4. /\ r.due = l.due /\ r.lsp = l.lsp /\ r.lastSentAcked = l.lastSentAcked
        /\ r.state = l.state /\ r.queued = l.queued
        /\ r.delivered = l.delivered /\ r.outOfSequence = l.outOfSequence
    BY <1>1 DEF Links
  <1> HIDE DEF r, p
  <1>5. \A n, q, b : Told(a, l, p, n, q, b) => Told(a, r, p, n, q, b)
    <2>1. Base(r) = Base(l) /\ Due(r) = Due(l) /\ \A n : Sent(r, n) = Sent(l, n)
      BY <1>4 DEF Base, Due, Sent
    <2>2. \A s : Recent(l, s) => Recent(r, s)
      BY <2>1 DEF Recent
    <2>3. \A s : Adopts(l, s) => Adopts(r, s)
      BY <1>4, <2>1 DEF Adopts, Windowed
    <2>4. \A q, d : Hears(l, q, d) => Hears(r, q, d)
      BY <2>1 DEF Hears
    <2> QED
      BY <2>1, <2>2, <2>3, <2>4 DEF Told
  <1>6. \A n, q, b : Told("phone", p, l, n, q, b) => Told("phone", p, r, n, q, b)
    <2>1. \A s : Receives(l, s) => Receives(r, s)
      BY <1>4 DEF Receives
    <2> QED
      BY <1>4, <2>1 DEF Told
  <1>7. SUFFICES ASSUME ~ Dead' PROVE Dictated' /\ ToldBoth'
    BY DEF AckInv
  <1>8. ~ Dead
    <2>1. l.state # "dead" /\ p.state # "dead"
      BY <1>3, <1>4, <1>7, TwoEnds DEF Dead
    <2> QED
      BY <2>1 DEF Dead, Ends, l, p
  <1>9. Dictated /\ ToldBoth
    BY <1>8 DEF AckInv
  <1>10. /\ Told(a, r, p, submitted[a], channel[a], channel["phone"])
         /\ Told("phone", p, r, submitted["phone"], channel["phone"], channel[a])
    BY <1>5, <1>6, <1>9, TwoEnds DEF ToldBoth, l, p
  <1>11. ToldBoth'
    <2>1. /\ Told(a, link'[a], link'["phone"], submitted'[a], channel'[a], channel'["phone"])
          /\ Told("phone", link'["phone"], link'[a], submitted'["phone"], channel'["phone"], channel'[a])
      BY <1>2, <1>3, <1>10
    <2> QED
      BY <2>1, TwoEnds DEF ToldBoth, Ends
  <1>12. Dictated'
    BY <1>2, <1>3, <1>9 DEF Dictated, p
  <1> QED
    BY <1>11, <1>12

LEMMA InitTold == Init => AckInv
  <1> SUFFICES ASSUME Init PROVE Dictated /\ ToldBoth
    BY DEF AckInv
  <1>1. ASSUME NEW l, NEW lsp, l = NewLink(lsp) \/ l = [NewLink(lsp) EXCEPT !.state = "detect"]
        PROVE  /\ l.due = << >> /\ l.queued = << >> /\ l.delivered = << >>
               /\ l.outOfSequence = << >> /\ l.state \in {"idle", "detect"} /\ l.lsp = lsp
    BY <1>1 DEF NewLink
  <1>2. /\ link["accessory"] = NewLink(OwnLsp)
        /\ link["phone"] = [NewLink(PhoneLsp) EXCEPT !.state = "detect"]
    BY DEF Init, Ends
  <1>3. ASSUME NEW e \in Ends
        PROVE  /\ link[e].due = << >> /\ link[e].queued = << >> /\ link[e].delivered = << >>
               /\ link[e].outOfSequence = << >> /\ link[e].state \in {"idle", "detect"}
    BY <1>1, <1>2 DEF Ends
  <1>4. link["phone"].lsp = PhoneLsp
    BY <1>1, <1>2
  <1>5. \A e \in Ends : channel[e] = << >> /\ submitted[e] = 0
    BY DEF Init
  <1>6. DOMAIN << >> = {} /\ Len(<< >>) = 0
    OBVIOUS
  <1>7. ASSUME NEW e \in Ends, NEW l, NEW r, l = link[e], r = link[Other(e)]
        PROVE  Told(e, l, r, 0, << >>, << >>)
    <2>1. /\ l.due = << >> /\ l.queued = << >> /\ l.state \in {"idle", "detect"}
          /\ r.delivered = << >> /\ r.outOfSequence = << >>
      BY <1>3, <1>7, TwoEnds
    <2>2. Sent(l, 0) = 0
      <3> DEFINE length == Len(l.queued)
      <3>1. length = 0 /\ Sent(l, 0) = 0 - length
        BY <1>6, <2>1 DEF Sent
      <3> HIDE DEF length
      <3> QED
        BY <3>1
    <2>3. Recent(l, 0) /\ Adopts(l, 0)
      BY <1>6, <2>1 DEF Recent, Due, Adopts
    <2>4. Receives(r, 0) /\ Len(r.delivered) = 0
      BY <1>6, <2>1 DEF Receives
    <2>5. Rising(<< >>, 0, 0) /\ Base(l) = 0
      BY <1>6, <2>1 DEF Rising, Acks, Base
    <2>6. Hears(l, << >>, 0)
      BY <2>5 DEF Hears
    <2>7. Only(Other(e), << >>, 0)
      BY <1>6 DEF Only
    <2> QED
      BY <2>2, <2>3, <2>4, <2>6, <2>7 DEF Told
  <1>8. ToldBoth
    BY <1>5, <1>7, TwoEnds DEF ToldBoth
  <1>9. Dictated
    <2>1. channel["accessory"] = << >>
      BY <1>5, TwoEnds
    <2> QED
      BY <1>4, <1>6, <2>1 DEF Dictated, Dictates
  <1> QED
    BY <1>8, <1>9

LEMMA StepTold ==
  ASSUME WhenDrained, NoReuse, FitsWindow, SessionInv, OrderInv, AckInv, [Next]_vars
  PROVE  AckInv'
  <1>1. CASE UNCHANGED vars
    <2>1. link' = link /\ channel' = channel /\ submitted' = submitted
      BY <1>1 DEF vars
    <2>2. ToldBoth => ToldBoth'
      BY <2>1 DEF ToldBoth
    <2>3. (Dictated => Dictated') /\ (Dead => Dead')
      BY <2>1 DEF Dictated, Dead
    <2> QED
      BY <2>2, <2>3 DEF AckInv
  <1>2. CASE AccessoryStarts
    BY <1>2, BeginTold
  <1>3. ASSUME NEW e \in Ends, Receive(e) PROVE AckInv'
    BY <1>3, ReceiveTold
  <1>4. ASSUME NEW e \in Ends, Corrupt(e) PROVE AckInv'
    BY <1>4, CorruptTold
  <1>5. ASSUME NEW e \in Ends, Submit(e) PROVE AckInv'
    BY <1>5, SubmitTold
  <1>6. ASSUME NEW e \in Ends, NEW t \in Timers, FireTimer(e, t) PROVE AckInv'
    BY <1>6, FireTold
  <1>7. CASE PhoneResets
    BY <1>7, ResetTold
  <1>8. CASE TransportFails
    BY <1>8, FailTold
  <1> QED
    BY <1>1, <1>2, <1>3, <1>4, <1>5, <1>6, <1>7, <1>8 DEF Next

\* The inductive invariant of what is acknowledged, with that of the order.
THEOREM AckInvariant ==
  ASSUME WhenDrained, NoReuse, FitsWindow
  PROVE  Spec => [](SessionInv /\ OrderInv /\ AckInv)
  <1>1. Init => SessionInv /\ OrderInv /\ AckInv
    BY InitSound, InitOrders, InitTold
  <1>2. SessionInv /\ OrderInv /\ AckInv /\ [Next]_vars => (SessionInv /\ OrderInv /\ AckInv)'
    BY StepSound, StepOrders, StepTold
  <1> QED
    BY <1>1, <1>2, PTL DEF Spec

\* What an end has neither kept nor queued was delivered to its peer.
LEMMA ForgottenWasDelivered ==
  ASSUME NoReuse, SessionInv, OrderInv, AckInv
  PROVE  AcknowledgedWasReceived
  <1> SUFFICES ASSUME NEW e \in Ends, link[e].lsp.maxRetransmissions > 0, ~ Dead,
                      NEW c \in 1 .. submitted[e],
                      \A i \in DOMAIN link[e].unacked : link[e].unacked[i].chunk # c,
                      \A i \in DOMAIN link[e].queued : link[e].queued[i] # c
               PROVE  \E i \in DOMAIN link[Other(e)].delivered : link[Other(e)].delivered[i] = c
    BY DEF AcknowledgedWasReceived
  <1> DEFINE o == Other(e)
             l == link[e]
             r == link[o]
             n == submitted[e]
             s == Sent(l, n)
             a == Base(l)
             d == Len(r.delivered)
  <1>1. /\ Poised(e, l, n, Sent(r, submitted[o]), d, channel[e])
        /\ Told(e, l, r, n, channel[e], channel[o])
    BY EndPoised
  <1>2. r \in Links
    BY TwoEnds DEF SessionInv, Resting, Sound
  <1> HIDE DEF o, l, r, n
  <1>3. /\ n \in 0 .. MaxChunks /\ l \in Sound /\ l \in Links /\ l.state # "dead" /\ Sends(l, n)
        /\ Adopts(l, s) /\ Hears(l, channel[e], d)
    BY <1>1 DEF Poised, Sound, Ordered
  <1>4. Receives(r, s)
    BY <1>1 DEF Told
  <1>5. /\ s \in Nat /\ s <= n /\ (l.state \in Early => s = 0) /\ Behind(l, s)
    BY <1>3, SentFacts
  <1>6. c \in Nat /\ 1 <= c /\ c <= n /\ n \in Nat /\ n <= MaxChunks /\ c \in 0 .. MaxChunks
    BY <1>3, SessionAssumption DEF n
  <1>7. c <= s
    <2>1. l.queued \in Seq(Nat)
      BY <1>3 DEF Links
    <2> DEFINE length == Len(l.queued)
    <2>2. length \in Nat /\ DOMAIN l.queued = 1 .. length /\ s = n - length
      BY <2>1 DEF Sent
    <2> HIDE DEF length, s
    <2>3. ASSUME c > s PROVE FALSE
      <3>1. c - s \in 1 .. length
        BY <1>5, <1>6, <2>2, <2>3
      <3>2. l.queued[c - s] = s + (c - s)
        BY <1>5, <2>2, <3>1 DEF Behind
      <3>3. s + (c - s) = c
        BY <1>5, <1>6
      <3> QED
        BY <2>2, <3>1, <3>2, <3>3 DEF l
    <2> QED
      BY <1>5, <1>6, <2>3
  <1> HIDE DEF s
  <1>8. l.state = "normal"
    <2>1. l.state \notin Early
      BY <1>5, <1>6, <1>7
    <2> QED
      BY <1>3, <2>1 DEF Early, Links, States
  <1>9. Retransmits
    BY <1>3, <1>8 DEF Adopts, Retransmits, l
  <1>10. /\ a \in 0 .. s /\ a \in 0 .. d
         /\ \A k \in a + 1 .. s : Psn(k) \in Due(l)
    BY <1>3, <1>8, <1>9 DEF Adopts, Windowed, Hears
  <1>11. c <= a
    <2>1. ASSUME c > a PROVE FALSE
      <3>1. a \in Nat
        BY <1>5, <1>10
      <3> HIDE DEF a
      <3>2. c \in a + 1 .. s
        BY <1>5, <1>6, <1>7, <2>1, <3>1
      <3>3. Psn(c) \in Due(l)
        BY <1>10, <3>2
      <3>4. PICK i \in DOMAIN l.unacked : l.unacked[i].psn = Psn(c)
        BY <1>3, <3>3 DEF Sound, Tracked, Due
      <3>5. l.unacked[i].chunk \in 1 .. n /\ l.unacked[i].psn = Psn(l.unacked[i].chunk)
        BY <1>3 DEF Sends, Numbered
      <3>6. l.unacked[i].chunk \in 0 .. MaxChunks
        BY <1>6, <3>5, SessionAssumption
      <3>7. l.unacked[i].chunk = c
        BY <1>6, <3>4, <3>5, <3>6, Distances
      <3> QED
        BY <3>7 DEF l
    <2> QED
      BY <1>5, <1>6, <1>10, <2>1
  <1>12. c \in DOMAIN r.delivered /\ r.delivered[c] = c
    <2>1. r.delivered \in Seq(Nat)
      BY <1>2 DEF Links
    <2>2. d \in Nat /\ DOMAIN r.delivered = 1 .. d
      BY <2>1
    <2> HIDE DEF a, d
    <2>3. c \in 1 .. d
      BY <1>6, <1>10, <1>11, <2>2
    <2> QED
      BY <1>4, <2>2, <2>3 DEF Receives
  <1> QED
    BY <1>12 DEF r, o

\* Between two ends that are alive and retransmit, a chunk leaves the sender's
\* queue and its retransmission list only once the other end has handed it up:
\* handleAck never takes an old acknowledgement for one of what is still on its
\* way, whatever is lost.  Callers submit only while nothing is queued, no
\* number is used twice, and the window fits into what handleAck looks ahead.
THEOREM AcknowledgedIsReceived ==
  ASSUME WhenDrained, NoReuse, FitsWindow
  PROVE  Spec => []AcknowledgedWasReceived
  <1>1. SessionInv /\ OrderInv /\ AckInv => AcknowledgedWasReceived
    BY ForgottenWasDelivered
  <1> QED
    BY <1>1, AckInvariant, PTL
=============================================================================
