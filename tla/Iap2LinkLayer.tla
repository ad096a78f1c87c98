---------------------------- MODULE Iap2LinkLayer ----------------------------
(* libs/iap2/link_layer.cpp: one end of the iAP2 link, as a value.  The class *)
(* is single threaded: each member function runs to completion on the state   *)
(* of one object, so each is an operator from that state to the next.  `out`  *)
(* holds what the call wrote to the transport, `delivered` what it handed up. *)
(*                                                                            *)
(* A packet carries one chunk of a session payload, named by its number in    *)
(* the order the caller submitted the chunks.  Time is the order of events: a *)
(* timer is armed or not, and `due` lists the unacknowledged packets by       *)
(* deadline (deadlines are now + a constant, so a new one is the latest).     *)
EXTENDS Integers, SequencesExt

CONSTANTS PsnMod,        \* 256: sequence numbers are uint8_t
          FirstPsn,      \* 99: sent_psn_ before the first packet
          Slack,         \* the 10 of the two window checks
          Delta          \* config_.max_outgoing_delta

ASSUME PsnAssumption == /\ PsnMod \in Nat \ {0} /\ FirstPsn \in 0 .. PsnMod - 1
                        /\ Slack \in Nat /\ Delta \in Nat

None == 0  \* no chunk

\* LinkSynchronizationPayload, as far as the link's own behaviour depends on it.
Lsp(maxOutgoing, maxRetransmissions, maxAck) ==
  [maxOutgoing |-> maxOutgoing, maxRetransmissions |-> maxRetransmissions, maxAck |-> maxAck]

\* The numbers a packet may have.
Psns == 0 .. PsnMod - 1

\* sequenceDistance() of a number and none is 0.
Distance(a, b) == IF b < 0 THEN 0 ELSE (a - b) % PsnMod

\* Wrong on purpose: the number does not wrap.
NextPsn_NoWrap(n) == n + 1

NextPsn(n) == (n + 1) % PsnMod

NewLink(lsp) ==
  [state |-> "idle", lsp |-> lsp, up |-> TRUE,
   sentPsn |-> FirstPsn, lastSentAcked |-> -1, unacked |-> << >>, due |-> << >>,
   queued |-> << >>, lastIn |-> 0, lastAcked |-> -1, outOfSequence |-> << >>,
   cumulative |-> 0, timers |-> {}, out |-> << >>, delivered |-> << >>]

Armed(l, t)  == [l EXCEPT !.timers = @ \union {t}]
Disarmed(l, t) == [l EXCEPT !.timers = @ \ {t}]

Bailout(l) == [l EXCEPT !.state = "dead", !.timers = {}]

\* Everything written carries the acknowledgement and restarts the count of
\* packets received since.
Write(l, control, seq, chunk, missing, lsp) ==
  LET packet == [control |-> control, seq |-> seq, ack |-> l.lastIn,
                 chunk |-> chunk, missing |-> missing, lsp |-> lsp]
  IN IF l.up THEN [l EXCEPT !.cumulative = 0, !.out = Append(@, packet)]
             ELSE [Bailout(l) EXCEPT !.cumulative = 0]

NoLsp == Lsp(0, 0, 0)

SendAck(l)           == Write(l, {"ACK"}, l.sentPsn, None, {}, NoLsp)
SendEak(l, missing)  == Write(l, {"EAK"}, l.sentPsn, None, missing, NoLsp)
SendData(l, p)       == Write(l, {"ACK"}, p.psn, p.chunk, {}, NoLsp)

SendNegotiate(l) ==
  IF l.state # "negotiate" THEN l
  ELSE Armed(Write(l, {"SYN"}, l.sentPsn, None, {}, l.lsp), "negotiate")

\* start(), initiate_negotiate set: the marker goes out, then the SYN.
Start(l) ==
  IF l.state # "idle" THEN l
  ELSE IF ~ l.up THEN Bailout(l)
  ELSE SendNegotiate([l EXCEPT !.state = "negotiate"])
-----------------------------------------------------------------------------
(* Sending.                                                                   *)

Outstanding(l) == Distance(l.sentPsn, l.lastSentAcked)

\* Wrong on purpose: keeps the packet but does not arm its timer.
EnqueuePacket_NoTimer(l, chunk) ==
  IF l.state # "normal" \/ Outstanding(l) > l.lsp.maxOutgoing
  THEN [l EXCEPT !.queued = Append(@, chunk)]
  ELSE LET psn    == NextPsn(l.sentPsn)
           packet == [psn |-> psn, chunk |-> chunk, counter |-> 0]
           sent   == SendData(Disarmed([l EXCEPT !.sentPsn = psn], "sendAck"), packet)
       IN [sent EXCEPT !.lastAcked = sent.lastIn, !.unacked = Append(@, packet),
                       !.due = Append(@, psn)]

EnqueuePacket(l, chunk) ==
  IF l.state # "normal" \/ Outstanding(l) > l.lsp.maxOutgoing
  THEN [l EXCEPT !.queued = Append(@, chunk)]
  ELSE LET psn    == NextPsn(l.sentPsn)
           packet == [psn |-> psn, chunk |-> chunk, counter |-> 0]
           sent   == SendData(Disarmed([l EXCEPT !.sentPsn = psn], "sendAck"), packet)
           noted  == [sent EXCEPT !.lastAcked = sent.lastIn]
       IN IF l.lsp.maxRetransmissions > 0
          THEN Armed([noted EXCEPT !.unacked = Append(@, packet), !.due = Append(@, psn)],
                     "recvAck")
          ELSE [noted EXCEPT !.lastSentAcked = psn]

\* sendSessionData: one call submits the consecutive chunks of one payload.
SendSessionData(l, chunks) ==
  IF l.state = "dead" THEN l ELSE FoldLeft(EnqueuePacket, l, chunks)

\* Wrong on purpose: the packet after the acknowledged one counts as acknowledged.
AheadOf_OffByOne(p, ack, l) == Distance(p.psn, ack) \in 2 .. l.lsp.maxAck + Slack

AheadOf(p, ack, l) == Distance(p.psn, ack) \in 1 .. l.lsp.maxAck + Slack

\* The unacknowledged packets handleAck keeps: it pops the front ones until the
\* first that is still ahead of the acknowledgement, and no further.
Kept(l) ==
  LET ahead == {i \in DOMAIN l.unacked : AheadOf(l.unacked[i], l.lastSentAcked, l)}
  IN IF ahead = {} THEN << >>
     ELSE SubSeq(l.unacked, CHOOSE i \in ahead : \A j \in ahead : i <= j, Len(l.unacked))

\* A packet takes its deadline along when it goes.
KeepDue(l, psn) ==
  IF \E i \in DOMAIN l.unacked : l.unacked[i].psn = psn
  THEN [l EXCEPT !.due = Append(@, psn)] ELSE l

PopAcked(l) ==
  LET popped == FoldLeft(KeepDue, [l EXCEPT !.unacked = Kept(l), !.due = << >>], l.due)
  IN IF Kept(l) = << >> THEN Disarmed(popped, "recvAck") ELSE Armed(popped, "recvAck")

\* The queue is drained in order while the window is open; a chunk that finds
\* it closed stays, and so do those behind it.
DrainOne(l, chunk) ==
  IF l.queued # << >> /\ Outstanding(l) < l.lsp.maxOutgoing
  THEN EnqueuePacket([l EXCEPT !.queued = Tail(@)], Head(l.queued)) ELSE l

Drain(l) == FoldLeft(DrainOne, l, l.queued)

HandleAck(l, ack) ==
  LET up == IF l.state = "negotiate"
            THEN Disarmed([l EXCEPT !.state = "normal"], "negotiate") ELSE l
  IN Drain(PopAcked([up EXCEPT !.lastSentAcked = ack]))

\* One unacknowledged packet named by an EAK.
Resend(l, i) ==
  LET count  == l.unacked[i].counter + 1
      counted == [l EXCEPT !.unacked[i].counter = count]
  IN IF count = l.lsp.maxRetransmissions THEN Bailout(counted)
     ELSE Armed(Disarmed(SendData(counted, counted.unacked[i]), "sendAck"), "recvAck")

ResendNamed(l, entry) ==
  IF l.state # "normal" \/ ~ entry.named THEN l ELSE Resend(l, entry.at)

HandleEak(l, missing) ==
  FoldLeft(ResendNamed, l, [i \in DOMAIN l.unacked |->
                              [at |-> i, named |-> l.unacked[i].psn \in missing]])
-----------------------------------------------------------------------------
(* Receiving.                                                                 *)

\* Deliver the held packet that is next in sequence, if there is one; of two
\* with that number, the one that came first.
DeliverNext(l) ==
  LET next == {i \in DOMAIN l.outOfSequence : Distance(l.outOfSequence[i].psn, l.lastIn) = 1}
      i    == CHOOSE i \in next : \A j \in next : i <= j
  IN IF next = {} THEN l
     ELSE [l EXCEPT !.lastIn = l.outOfSequence[i].psn,
                    !.delivered = Append(@, l.outOfSequence[i].chunk),
                    !.outOfSequence = RemoveAt(@, i)]

DeliverAll(l) == FoldLeft(LAMBDA m, held : DeliverNext(m), l, l.outOfSequence)

\* Everything between the last packet in sequence and this one, held or not.
Missing(l, psn) == {(l.lastIn + k) % PsnMod : k \in 1 .. Distance(psn, l.lastIn) - 1}

AcknowledgeData(l) ==
  IF l.lsp.maxAck = 0 THEN l
  ELSE IF Distance(l.lastIn, l.lastAcked) >= l.lsp.maxOutgoing - Delta
  THEN SendAck([Disarmed(l, "sendAck") EXCEPT !.lastAcked = l.lastIn])
  ELSE Armed(l, "sendAck")

\* Wrong on purpose: takes the packet it has just delivered for the next one.
HandleData_TakesDuplicates(l, p) ==
  IF Distance(p.seq, l.lastIn) > 1 THEN SendAck(l)
  ELSE AcknowledgeData([l EXCEPT !.lastIn = p.seq, !.delivered = Append(@, p.chunk)])

HandleData(l, p) ==
  LET distance == Distance(p.seq, l.lastIn)
      held == [l EXCEPT !.outOfSequence = Append(@, [psn |-> p.seq, chunk |-> p.chunk])]
  IN IF distance > l.lsp.maxOutgoing + Slack \/ distance = 0 THEN SendAck(l)
     ELSE IF distance = 1 THEN AcknowledgeData(DeliverAll(held))
     ELSE IF distance >= l.lsp.maxOutgoing
     THEN SendEak(Disarmed(held, "sendAck"), Missing(l, p.seq))
     ELSE held

\* The device is authoritative: its parameters are adopted wholesale.
HandleSyn(l, p) ==
  IF l.state # "negotiate" THEN l
  ELSE SendAck([l EXCEPT !.lsp = p.lsp, !.lastIn = p.seq, !.lastAcked = p.seq])

CumulativeAck(l) ==
  IF l.lsp.maxAck > 0 /\ l.cumulative >= l.lsp.maxAck
  THEN SendAck([l EXCEPT !.lastAcked = l.lastIn]) ELSE l

\* cumulative_received_ is compared with max_ack only: the model counts no further.
CountedTo(n, limit) == IF n < limit THEN n + 1 ELSE n

HandlePacket(l, p) ==
  LET syn  == IF "SYN" \in p.control THEN HandleSyn(l, p) ELSE l
      ack  == IF "ACK" \in p.control
              THEN HandleAck([syn EXCEPT !.cumulative = CountedTo(@, syn.lsp.maxAck)], p.ack)
              ELSE syn
      eak  == IF "EAK" \in p.control /\ p.missing # {} THEN HandleEak(ack, p.missing) ELSE ack
      data == IF p.control \subseteq {"ACK"} /\ p.chunk # None THEN HandleData(eak, p) ELSE eak
  IN IF "RST" \in p.control THEN Bailout(l) ELSE CumulativeAck(data)
-----------------------------------------------------------------------------
(* Timers, fired by poll().                                                   *)

OnNegotiateTimer(l) == SendNegotiate(Disarmed(l, "negotiate"))

OnSendAckTimer(l) ==
  IF l.state # "normal" THEN Disarmed(l, "sendAck")
  ELSE SendAck([Disarmed(l, "sendAck") EXCEPT !.lastAcked = l.lastIn])

\* Wrong on purpose: sends the packet again, once.
OnExpectAckTimer_NoRearm(l) ==
  IF l.unacked = << >> \/ l.state # "normal" THEN Disarmed(l, "recvAck")
  ELSE SendData([Disarmed(l, "recvAck") EXCEPT !.unacked[1].counter = @ + 1], l.unacked[1])

\* The packets are sorted by deadline; the most overdue is sent again and its
\* deadline becomes the latest, while it stays at the front.
OnExpectAckTimer(l) ==
  IF l.unacked = << >> \/ l.state # "normal" THEN Disarmed(l, "recvAck")
  ELSE LET At(psn) == CHOOSE p \in Range(l.unacked) : p.psn = psn
           oldest  == [At(Head(l.due)) EXCEPT !.counter = @ + 1]
           sorted  == <<oldest>> \o [i \in 1 .. Len(l.due) - 1 |-> At(l.due[i + 1])]
           counted == [Disarmed(l, "recvAck") EXCEPT
                         !.unacked = sorted, !.due = Append(Tail(@), Head(@))]
       IN IF oldest.counter = l.lsp.maxRetransmissions THEN Bailout(counted)
          ELSE Armed(SendData(counted, oldest), "recvAck")

OnTimer(l, t) == CASE t = "negotiate" -> OnNegotiateTimer(l)
                   [] t = "sendAck"   -> OnSendAckTimer(l)
                   [] t = "recvAck"   -> OnExpectAckTimer(l)
=============================================================================
