--------------------------- MODULE MselMasterRelay ---------------------------
(* nodes/msel_master_relay/main.cpp: the node between zenoh services and a    *)
(* relay on a CAN bus.  Every service call runs on a zenoh thread of its own, *)
(* CAN frames are decoded on another.  `mutex` guards the decoder and the     *)
(* publishers and is never held across a wait, so a region under it is one    *)
(* step here; `commandMutex` is held across the wait and is a variable.       *)
(*                                                                            *)
(* The relay is the one the repository describes: libs/msel/src/stub_relay.cpp*)
(* with the external kill switch held or not at each command, and the answer  *)
(* at the new or at the old identifier (decoder.h leaves that open).          *)
EXTENDS ResponseWaiter, MselDecoder, Sequences, FiniteSets

CONSTANTS
  Calls,        \* service calls made in a behaviour, each on its own thread
  Nobody,       \* commandMutex is free
  Requested,    \* base addresses a caller may ask for
  FactoryBase,  \* config.baseAddress, where the relay also starts
  Codes,        \* the relay's refusals: IdMismatch, FrameCheckError, InvalidId
  Prompt,       \* TRUE: no answer takes longer than command_timeout_ms
  OneMover,     \* TRUE: callers do not run two set_base_address calls at once
  OtherFrames,  \* frames other devices on the bus may send
  MaxBus        \* frames in flight towards the node, a bound of the model

ASSUME WaiterAssumption == NoAnswer \notin [call : Calls, code : Codes \union {"Success"}]
ASSUME NobodyAssumption == Nobody \notin Calls
ASSUME CodeAssumption ==
  Codes \intersect {"Success", "none", "ignored", "pending", "unsent"} = {}
ASSUME BaseAssumption == FactoryBase \in Int /\ Requested \subseteq Int
ASSUME FlagAssumption == Prompt \in BOOLEAN /\ OneMover \in BOOLEAN

VARIABLES
  pc,           \* where each call's thread is
  op,           \* what each call asks for
  previous,     \* the local of setBaseAddress
  answer,       \* what runCommand returned
  commandMutex, \* its holder
  relayBase,    \* the relay's own base address
  toRelay,      \* commands on the bus
  toNode,       \* frames on the bus the node has not decoded yet
  verdict       \* history: what the relay made of each command

busVars  == <<relayBase, toRelay, toNode, verdict>>
callVars == <<pc, op, previous, answer, commandMutex>>
vars     == <<waiterVars, decoderVars, busVars, callVars>>

Move(b)  == [kind |-> "setBaseAddress", to |-> b]
Setting  == [kind |-> "setting", to |-> FactoryBase]  \* the four other commands
Kill     == [kind |-> "canKill", to |-> FactoryBase]
\* A shutdown delay or a kill address the device cannot store.
BadSetting == [kind |-> "badSetting", to |-> FactoryBase]
Ops      == {Move(b) : b \in Requested} \union {Setting, BadSetting, Kill}

Verdicts == Codes \union {"Success"}
Answers  == [call : Calls, code : Verdicts]

IsMove(c) == op[c].kind = "setBaseAddress"

Init == /\ WaiterInit
        /\ DecoderInit(FactoryBase)
        /\ pc = [c \in Calls |-> "idle"]
        /\ op = [c \in Calls |-> Setting]
        /\ previous = [c \in Calls |-> FactoryBase]
        /\ answer = [c \in Calls |-> NoAnswer]
        /\ commandMutex = Nobody
        /\ relayBase = FactoryBase
        /\ toRelay = << >>
        /\ toNode = << >>
        /\ verdict = [c \in Calls |-> "none"]
-----------------------------------------------------------------------------
(* The service threads.                                                       *)

\* What makeXxxFrame() refuses is never transmitted.
Sendable(o) == /\ o.kind # "badSetting"
               /\ o.kind = "setBaseAddress" => ValidBase(o.to)

MoveInProgress == \E c \in Calls : IsMove(c) /\ pc[c] \notin {"idle", "done"}

\* A configuration call arrives.  setBaseAddress reads the address it would
\* have to go back to, under `mutex` but before it queues for commandMutex.
Invoke(c) ==
  \E o \in Ops \ {Kill} :
    /\ pc[c] = "idle"
    /\ (OneMover /\ o.kind = "setBaseAddress") => ~ MoveInProgress
    /\ op' = [op EXCEPT ![c] = o]
    /\ previous' = [previous EXCEPT ![c] = base]
    /\ pc' = [pc EXCEPT ![c] = "acquire"]
    /\ UNCHANGED <<waiterVars, decoderVars, busVars, answer, commandMutex>>

\* canKill past its two gates: transmit under `mutex`, wait for nothing.
InvokeKill(c) ==
  /\ pc[c] = "idle"
  /\ op' = [op EXCEPT ![c] = Kill]
  /\ pc' = [pc EXCEPT ![c] = "done"]
  /\ toRelay' = Append(toRelay, [call |-> c, kind |-> "canKill", to |-> FactoryBase])
  /\ UNCHANGED <<waiterVars, decoderVars, previous, answer, commandMutex,
                 relayBase, toNode, verdict>>

\* Wrong on purpose: no commandMutex.
AcquireCommand_NoMutex(c) ==
  /\ pc[c] = "acquire"
  /\ commandMutex' = c
  /\ pc' = [pc EXCEPT ![c] = "send"]
  /\ UNCHANGED <<waiterVars, decoderVars, busVars, op, previous, answer>>

AcquireCommand(c) ==
  /\ pc[c] = "acquire"
  /\ commandMutex = Nobody
  /\ commandMutex' = c
  /\ pc' = [pc EXCEPT ![c] = "send"]
  /\ UNCHANGED <<waiterVars, decoderVars, busVars, op, previous, answer>>

\* Wrong on purpose: the old identifier is not watched during a move.
Retune_NoWatch(c) == IF IsMove(c) THEN base' = op[c].to /\ UNCHANGED watch
                                  ELSE UNCHANGED <<base, watch>>

\* onSent of setBaseAddress; the other commands have none.
Retune(c) == IF IsMove(c) THEN base' = op[c].to /\ watch' = previous[c]
                          ELSE UNCHANGED <<base, watch>>

CommandFrame(c) == [call |-> c, kind |-> op[c].kind, to |-> op[c].to]

\* One region under `mutex`: arm, transmit, retune.
Send(c) ==
  /\ pc[c] = "send"
  /\ Arm
  /\ IF Sendable(op[c])
     THEN /\ toRelay' = Append(toRelay, CommandFrame(c))
          /\ Retune(c)
          /\ pc' = [pc EXCEPT ![c] = "wait"]
     ELSE /\ pc' = [pc EXCEPT ![c] = "abandon"]
          /\ UNCHANGED <<toRelay, base, watch>>
  /\ UNCHANGED <<snapshot, op, previous, answer, commandMutex, relayBase, toNode, verdict>>

\* Wrong on purpose: the waiter stays armed for a frame never sent.
Abandon_StaysArmed(c) ==
  /\ pc[c] = "abandon"
  /\ pc' = [pc EXCEPT ![c] = "release"]
  /\ UNCHANGED <<waiterVars, decoderVars, busVars, op, previous, answer, commandMutex>>

Abandon(c) ==
  /\ pc[c] = "abandon"
  /\ Disarm
  /\ pc' = [pc EXCEPT ![c] = "release"]
  /\ UNCHANGED <<decoderVars, busVars, op, previous, answer, commandMutex>>

WaitAnswered(c) ==
  /\ pc[c] = "wait"
  /\ Answered
  /\ answer' = [answer EXCEPT ![c] = response]
  /\ WaitEnds
  /\ pc' = [pc EXCEPT ![c] = "release"]
  /\ UNCHANGED <<decoderVars, busVars, op, previous, commandMutex>>

\* Nothing of call c is on its way any more.
Settled(c) == /\ \A i \in DOMAIN toRelay : toRelay[i].call # c
              /\ \A i \in DOMAIN toNode : toNode[i].call # c

WaitTimesOut(c) ==
  /\ pc[c] = "wait"
  /\ ~ Answered
  /\ Prompt => Settled(c)
  /\ WaitEnds
  /\ pc' = [pc EXCEPT ![c] = "release"]
  /\ UNCHANGED <<decoderVars, busVars, op, previous, answer, commandMutex>>

\* Wrong on purpose: the lock leaks on the path without an answer.
ReleaseCommand_Leaks(c) ==
  /\ pc[c] = "release"
  /\ commandMutex' = IF answer[c] = NoAnswer THEN commandMutex ELSE Nobody
  /\ pc' = [pc EXCEPT ![c] = IF IsMove(c) THEN "settle" ELSE "done"]
  /\ UNCHANGED <<waiterVars, decoderVars, busVars, op, previous, answer>>

\* runCommand returns: commandLock goes out of scope.
ReleaseCommand(c) ==
  /\ pc[c] = "release"
  /\ commandMutex' = Nobody
  /\ pc' = [pc EXCEPT ![c] = IF IsMove(c) THEN "settle" ELSE "done"]
  /\ UNCHANGED <<waiterVars, decoderVars, busVars, op, previous, answer>>

Accepted(c) == answer[c] # NoAnswer /\ answer[c].code = "Success"

\* Wrong on purpose: goes back to the watched address, which it has just cleared.
SettleBase_FromWatch(c) ==
  /\ pc[c] = "settle"
  /\ watch' = NoWatch
  /\ base' = IF Sendable(op[c]) /\ ~ Accepted(c) THEN watch' ELSE base
  /\ pc' = [pc EXCEPT ![c] = "done"]
  /\ UNCHANGED <<waiterVars, snapshot, busVars, op, previous, answer, commandMutex>>

\* Wrong on purpose: stays at the new address without an acknowledgement.
SettleBase_Stays(c) ==
  /\ pc[c] = "settle"
  /\ watch' = NoWatch
  /\ pc' = [pc EXCEPT ![c] = "done"]
  /\ UNCHANGED <<waiterVars, base, snapshot, busVars, op, previous, answer, commandMutex>>

\* Wrong on purpose: an acknowledged move returns before the watch is cleared.
SettleBase_KeepsWatch(c) ==
  /\ pc[c] = "settle"
  /\ watch' = IF Accepted(c) THEN watch ELSE NoWatch
  /\ base' = IF Sendable(op[c]) /\ ~ Accepted(c) THEN previous[c] ELSE base
  /\ pc' = [pc EXCEPT ![c] = "done"]
  /\ UNCHANGED <<waiterVars, snapshot, busVars, op, previous, answer, commandMutex>>

\* The rest of setBaseAddress: under `mutex`, after commandMutex was released.
SettleBase(c) ==
  /\ pc[c] = "settle"
  /\ watch' = NoWatch
  /\ base' = IF Sendable(op[c]) /\ ~ Accepted(c) THEN previous[c] ELSE base
  /\ pc' = [pc EXCEPT ![c] = "done"]
  /\ UNCHANGED <<waiterVars, snapshot, busVars, op, previous, answer, commandMutex>>
-----------------------------------------------------------------------------
(* The receive thread: one frame, under `mutex`.                              *)
Receive ==
  /\ toNode # << >>
  /\ LET f == Head(toNode) IN
       /\ IF HeardAsResponse(f)
          THEN Deliver([call |-> f.call, code |-> f.code]) /\ UNCHANGED snapshot
          ELSE TakeSnapshot(f) /\ UNCHANGED waiterVars
       /\ toNode' = Tail(toNode)
  /\ UNCHANGED <<base, watch, relayBase, toRelay, verdict, callVars>>
-----------------------------------------------------------------------------
(* The relay and the bus.                                                     *)

Response(c, at, code) ==
  [id |-> at, kind |-> "response", from |-> "relay", call |-> c, code |-> code]

Telemetry(k, b) ==
  [id |-> b + Offset[k], kind |-> k, from |-> "relay", call |-> Nobody, code |-> "Success"]

\* The switch is not held, or the frame is no configuration command: no effect
\* and no answer.
RelayIgnores ==
  /\ toRelay # << >>
  /\ toRelay' = Tail(toRelay)
  /\ verdict' = [verdict EXCEPT ![Head(toRelay).call] = "ignored"]
  /\ UNCHANGED <<waiterVars, decoderVars, callVars, relayBase, toNode>>

RelayRejects ==
  \E code \in Codes :
    /\ toRelay # << >>
    /\ Head(toRelay).kind # "canKill"
    /\ toRelay' = Tail(toRelay)
    /\ toNode' = Append(toNode, Response(Head(toRelay).call, relayBase, code))
    /\ verdict' = [verdict EXCEPT ![Head(toRelay).call] = code]
    /\ UNCHANGED <<waiterVars, decoderVars, callVars, relayBase>>

\* A move takes effect at once, and is acknowledged before or after it.
RelayAccepts ==
  /\ toRelay # << >>
  /\ LET command == Head(toRelay)
         moved   == IF command.kind = "setBaseAddress" THEN command.to ELSE relayBase
     IN /\ command.kind # "canKill"
        /\ relayBase' = moved
        /\ \E at \in {relayBase, moved} :
             toNode' = Append(toNode, Response(command.call, at, "Success"))
        /\ verdict' = [verdict EXCEPT ![command.call] = "Success"]
  /\ toRelay' = Tail(toRelay)
  /\ UNCHANGED <<waiterVars, decoderVars, callVars>>

RelayTransmits ==
  \E k \in Periodic :
    /\ Len(toNode) < MaxBus
    /\ toNode' = Append(toNode, Telemetry(k, relayBase))
    /\ UNCHANGED <<waiterVars, decoderVars, callVars, relayBase, toRelay, verdict>>

OtherDeviceTransmits ==
  \E f \in OtherFrames :
    /\ Len(toNode) < MaxBus
    /\ toNode' = Append(toNode, f)
    /\ UNCHANGED <<waiterVars, decoderVars, callVars, relayBase, toRelay, verdict>>
-----------------------------------------------------------------------------
CallStep(c) == \/ Invoke(c)       \/ InvokeKill(c)   \/ AcquireCommand(c)
               \/ Send(c)         \/ Abandon(c)      \/ WaitAnswered(c)
               \/ WaitTimesOut(c) \/ ReleaseCommand(c) \/ SettleBase(c)

RelayActs == RelayIgnores \/ RelayRejects \/ RelayAccepts

Next == \/ \E c \in Calls : CallStep(c)
        \/ Receive
        \/ RelayActs
        \/ RelayTransmits
        \/ OtherDeviceTransmits

Spec == Init /\ [][Next]_vars

\* A service thread that can run does, and so does the receive thread; the bus
\* delivers.  Callers may stay silent, the mutex owes nobody a turn.
Fairness == /\ \A c \in Calls :
                 /\ WF_vars(AcquireCommand(c)) /\ WF_vars(Send(c))
                 /\ WF_vars(Abandon(c)) /\ WF_vars(WaitAnswered(c) \/ WaitTimesOut(c))
                 /\ WF_vars(ReleaseCommand(c)) /\ WF_vars(SettleBase(c))
            /\ WF_vars(Receive)
            /\ WF_vars(RelayActs)

FairSpec == Spec /\ Fairness
-----------------------------------------------------------------------------
Places   == {"idle", "acquire", "send", "wait", "abandon", "release", "settle", "done"}
Commands == [call : Calls, kind : {"setBaseAddress", "setting", "canKill"}, to : Int]
Frames   == {f \in [id : Int, kind : Periodic \union {"response"}, from : {"relay", "other"},
                    call : Calls \union {Nobody}, code : Verdicts] :
               f.kind = "response" => f.call \in Calls}

ASSUME OtherFramesAssumption ==
  \A f \in OtherFrames : f \in Frames /\ f.kind # "response" /\ f.call = Nobody

\* Every variable keeps its type; in particular the answer of a call is only
\* ever nothing or a response some command could have had.
TypeOK ==
  /\ armed \in BOOLEAN
  /\ response \in Answers \union {NoAnswer}
  /\ base \in Int
  /\ watch \in Int \union {NoWatch}
  /\ snapshot \in [Periodic -> Sources]
  /\ relayBase \in Int
  /\ toRelay \in Seq(Commands)
  /\ toNode \in Seq(Frames)
  /\ verdict \in [Calls -> Verdicts \union {"none", "ignored"}]
  /\ pc \in [Calls -> Places]
  /\ op \in [Calls -> Ops]
  /\ previous \in [Calls -> Int]
  /\ answer \in [Calls -> Answers \union {NoAnswer}]
  /\ commandMutex \in Calls \union {Nobody}

\* "Nothing should be armed between commands" (response_waiter.h:67): while the
\* waiter listens, the holder of commandMutex has armed it and not yet left its
\* wait -- so no answer can be kept for a command that is not under way.
ArmedOnlyForHolder ==
  (armed \/ response # NoAnswer) =>
    commandMutex \in Calls /\ pc[commandMutex] \in {"wait", "abandon"}

\* Outside a base-address change the decoder listens to one address only: the
\* second identifier never outlives the call that asked for it, although it is
\* set under commandMutex and cleared after commandMutex was released.
WatchOnlyDuringMove ==
  watch # NoWatch =>
    \E c \in Calls : IsMove(c) /\ pc[c] \in {"wait", "release", "settle"}

\* The answer runCommand reports is the relay's answer to that very command
\* (response_waiter.cpp:13, "what makes a stale answer impossible").
AnswerIsOwn ==
  \A c \in Calls : answer[c] # NoAnswer => answer[c].call = c

\* When no base-address change is under way, the node decodes at the address
\* the relay transmits at (main.cpp:665, "it did not move, so neither do we").
DecoderAtRelay ==
  (/\ ~ MoveInProgress
   /\ \A i \in DOMAIN toRelay : toRelay[i].kind # "setBaseAddress")
     => base = relayBase

\* What is published as the relay's telemetry was sent by the relay, as the
\* message it is published as, also while a move has the node listening at an
\* address whose span overlaps the one the relay still transmits at
\* (decoder.h:90, on never "publishing readings from whatever else is on that
\* identifier").
TelemetryIsTheRelays == \A k \in Periodic : snapshot[k] # "somebodyElse"

\* Every service call returns: nothing waits for ever on commandMutex or on a
\* silent relay.
EveryCallReturns == \A c \in Calls : pc[c] # "idle" ~> pc[c] = "done"

\* What the services promise their callers (RelayCommands): commands take
\* effect one at a time, and each caller is told what became of its own.
CommandDecided == [c \in Calls |-> IF op[c].kind = "canKill" THEN "none" ELSE verdict[c]]

CommandReported ==
  [c \in Calls |->
     IF op[c].kind = "canKill" \/ pc[c] \notin {"release", "settle", "done"} THEN "pending"
     ELSE IF ~ Sendable(op[c]) THEN "unsent"
     ELSE IF answer[c] = NoAnswer THEN "ignored"
     ELSE answer[c].code]

Promise == INSTANCE RelayCommands WITH decided <- CommandDecided, reported <- CommandReported
ReportsWhatHappened == Promise!Spec
=============================================================================
