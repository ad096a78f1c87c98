----------------------------- MODULE Iap2Session -----------------------------
(* Two ends of the iAP2 link over a byte stream that keeps order and may      *)
(* corrupt a packet, which the receiving end then drops (processRxBuffer).    *)
(*                                                                            *)
(* The accessory runs link_layer.cpp.  The phone is outside the repository:   *)
(* its handshake is the one test_framing.cpp plays (it answers SYN with       *)
(* SYN|ACK) and after it the phone is taken to run the same link layer.       *)
EXTENDS Iap2LinkLayer

CONSTANTS
  PhoneLsp,     \* the parameters the phone dictates
  OwnLsp,       \* what the accessory offers, adopted by nobody
  Payloads,     \* lengths, in chunks, of the payloads a caller submits
  MaxChunks,    \* chunks submitted at each end, a bound of the model
  MaxLoss,      \* packets corrupted in a behaviour, a bound of the model
  MaxInFlight,  \* a timer does not fire while this many packets are in flight
  Senders,      \* the ends whose applications submit data
  WhenDrained,  \* TRUE: callers submit only while nothing is queued
  MayBreak      \* TRUE: the phone may reset, the transport may fail

Lsps == [maxOutgoing : Nat, maxRetransmissions : Nat, maxAck : Nat]

ASSUME SessionAssumption == /\ PhoneLsp \in Lsps /\ OwnLsp \in Lsps
                            /\ Payloads \subseteq Nat /\ MaxChunks \in Nat /\ MaxLoss \in Nat

Ends == {"accessory", "phone"}
Other(e) == IF e = "accessory" THEN "phone" ELSE "accessory"

VARIABLES
  link,      \* the two LinkLayer objects
  channel,   \* channel[e]: packets on their way to e
  submitted, \* chunks the application of each end has submitted
  lost       \* packets corrupted so far

vars == <<link, channel, submitted, lost>>

Init == /\ link = [e \in Ends |->
                     IF e = "accessory" THEN NewLink(OwnLsp)
                     ELSE [NewLink(PhoneLsp) EXCEPT !.state = "detect"]]
        /\ channel = [e \in Ends |-> << >>]
        /\ submitted = [e \in Ends |-> 0]
        /\ lost = 0

\* End e has made the call that turns its object into l.
Made(e, l, inbox) ==
  /\ link' = [link EXCEPT ![e] = [l EXCEPT !.out = << >>]]
  /\ channel' = [channel EXCEPT ![e] = inbox, ![Other(e)] = @ \o l.out]

AccessoryStarts ==
  /\ link["accessory"].state = "idle"
  /\ Made("accessory", Start(link["accessory"]), channel["accessory"])
  /\ UNCHANGED <<submitted, lost>>

\* The phone's half of the handshake, as test_framing.cpp's negotiate() plays
\* it: SYN|ACK with its own parameters, again for every SYN until acknowledged.
AnswerSyn(l) ==
  Armed(Write(l, {"SYN", "ACK"}, l.sentPsn, None, {}, l.lsp), "negotiate")

PhoneHandles(l, p) ==
  IF p.control = {"SYN"}
  THEN IF l.state \in {"detect", "negotiate"}
       THEN AnswerSyn([l EXCEPT !.state = "negotiate", !.lastIn = p.seq, !.lastAcked = p.seq])
       ELSE l
  ELSE IF l.state = "detect" THEN l ELSE HandlePacket(l, p)

CanReceive(e) == channel[e] # << >> /\ link[e].state # "dead"

Receive(e) ==
  /\ CanReceive(e)
  /\ LET p == Head(channel[e])
     IN Made(e, IF e = "phone" THEN PhoneHandles(link[e], p) ELSE HandlePacket(link[e], p),
             Tail(channel[e]))
  /\ UNCHANGED <<submitted, lost>>

Corrupt(e) ==
  /\ channel[e] # << >> /\ lost < MaxLoss
  /\ channel' = [channel EXCEPT ![e] = Tail(@)]
  /\ lost' = lost + 1
  /\ UNCHANGED <<link, submitted>>

CanFire(e, t) == /\ t \in link[e].timers /\ link[e].state # "dead"
                 /\ Len(channel[e]) + Len(channel[Other(e)]) < MaxInFlight

FireTimer(e, t) ==
  /\ CanFire(e, t)
  /\ Made(e, IF e = "phone" /\ t = "negotiate" THEN AnswerSyn(link[e]) ELSE OnTimer(link[e], t),
          channel[e])
  /\ UNCHANGED <<submitted, lost>>

\* sendControlMessage, sendFileTransfer, sendExternalAccessory.
Submit(e) ==
  \E n \in Payloads :
    /\ e \in Senders
    /\ submitted[e] + n <= MaxChunks
    /\ WhenDrained => link[e].queued = << >>
    /\ link[e].state # "dead"
    /\ Made(e, SendSessionData(link[e], [i \in 1 .. n |-> submitted[e] + i]), channel[e])
    /\ submitted' = [submitted EXCEPT ![e] = @ + n]
    /\ UNCHANGED lost

PhoneResets ==
  /\ MayBreak /\ link["phone"].state # "dead"
  /\ Made("phone", Bailout(Write(link["phone"], {"RST"}, link["phone"].sentPsn, None, {}, NoLsp)),
          channel["phone"])
  /\ UNCHANGED <<submitted, lost>>

\* From now on the accessory's writes fail.
TransportFails ==
  /\ MayBreak /\ link["accessory"].up
  /\ link' = [link EXCEPT !["accessory"].up = FALSE]
  /\ UNCHANGED <<channel, submitted, lost>>

Timers == {"negotiate", "sendAck", "recvAck"}

Next == \/ AccessoryStarts
        \/ \E e \in Ends : Receive(e) \/ Corrupt(e) \/ Submit(e)
        \/ \E e \in Ends, t \in Timers : FireTimer(e, t)
        \/ PhoneResets
        \/ TransportFails

Spec == Init /\ [][Next]_vars

\* poll() keeps being called: what has arrived is processed, due timers fire.
\* Weak fairness of Receive(e) and FireTimer(e, t), with the conditions that
\* enable them written out (each changes vars whenever it is enabled).
Fairness == /\ WF_vars(AccessoryStarts)
            /\ \A e \in Ends :
                 /\ []<>(~ CanReceive(e)) \/ []<><<Receive(e)>>_vars
                 /\ \A t \in Timers : []<>(~ CanFire(e, t)) \/ []<><<FireTimer(e, t)>>_vars

FairSpec == Spec /\ Fairness
-----------------------------------------------------------------------------
Dead == \E e \in Ends : link[e].state = "dead"

\* Each object keeps its shape; in particular the numbers stay uint8_t.
LinkOK(l) ==
  /\ l.state \in {"idle", "detect", "negotiate", "normal", "dead"}
  /\ l.sentPsn \in Psns /\ l.lastIn \in Psns
  /\ l.lastSentAcked \in Psns \union {-1} /\ l.lastAcked \in Psns \union {-1}
  /\ l.timers \subseteq Timers /\ l.out = << >>
  /\ \A i \in DOMAIN l.unacked : l.unacked[i].psn \in Psns

TypeOK == /\ \A e \in Ends : LinkOK(link[e])
          /\ submitted \in [Ends -> 0 .. MaxChunks]
          /\ lost \in 0 .. MaxLoss

\* The retransmission order and the retransmission list name the same packets,
\* and a packet not yet acknowledged has the timer that will send it again.
RetransmissionArmed ==
  \A e \in Ends : LET l == link[e] IN
    l.state = "normal" /\ l.unacked # << >> =>
      /\ "recvAck" \in l.timers
      /\ {l.unacked[i].psn : i \in DOMAIN l.unacked} = {l.due[i] : i \in DOMAIN l.due}

\* A chunk leaves the sender's queue and its retransmission list only once the
\* other end has handed it up: what handleAck forgets was not lost.
AcknowledgedWasReceived ==
  \A e \in Ends : LET l == link[e]
                      r == link[Other(e)]
                      kept == {l.unacked[i].chunk : i \in DOMAIN l.unacked}
                              \union {l.queued[i] : i \in DOMAIN l.queued}
                  IN l.lsp.maxRetransmissions > 0 /\ ~ Dead =>
                       \A c \in 1 .. submitted[e] \ kept :
                         \E i \in DOMAIN r.delivered : r.delivered[i] = c

\* Each direction is an in-order stream (Iap2Stream).
ToPhone == INSTANCE Iap2Stream WITH accepted <- submitted["accessory"],
                                    delivered <- link["phone"].delivered
ToAccessory == INSTANCE Iap2Stream WITH accepted <- submitted["phone"],
                                        delivered <- link["accessory"].delivered
InOrder == ToPhone!Spec /\ ToAccessory!Spec

\* The same, as an invariant: what came out is a prefix of what went in.
Concatenated ==
  \A e \in Ends : \A i \in DOMAIN link[e].delivered : link[e].delivered[i] = i

\* Every chunk submitted is delivered, or the link dies.
EverythingArrives ==
  \A e \in Ends : \A c \in 1 .. MaxChunks :
    submitted[e] >= c ~> (Dead \/ \E i \in DOMAIN link[Other(e)].delivered :
                                    link[Other(e)].delivered[i] = c)
=============================================================================
