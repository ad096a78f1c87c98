------------------------ MODULE MselMasterRelayProofs ------------------------
(* Theorems about MselMasterRelay, for every set of calls, every request and  *)
(* every other device on the bus.                                             *)
EXTENDS MselMasterRelay, TLAPS

Holding == {"send", "wait", "abandon", "release"}

\* commandMutex is held by whoever is inside runCommand.
Mutex == \A c \in Calls : pc[c] \in Holding => commandMutex = c

WaiterInv == Mutex /\ ArmedOnlyForHolder

Asked(i)    == toRelay[i].kind # "canKill"
Answering(i) == toNode[i].kind = "response"

\* With prompt answers, what is on the bus about a command belongs to the one
\* call that waits, ...
OnlyForWaiting ==
  /\ \A i \in DOMAIN toRelay : Asked(i) => pc[toRelay[i].call] = "wait"
  /\ \A i \in DOMAIN toNode : Answering(i) =>
       toNode[i].call \in Calls /\ pc[toNode[i].call] = "wait"

\* ... is there once, ...
OnlyOnce ==
  /\ \A i, j \in DOMAIN toRelay : Asked(i) /\ Asked(j) => i = j
  /\ \A i, j \in DOMAIN toNode : Answering(i) /\ Answering(j) => i = j
  /\ \A i \in DOMAIN toRelay, j \in DOMAIN toNode : ~ (Asked(i) /\ Answering(j))

\* ... and is gone when the waiter has the answer, which is the holder's.
AnswerTaken ==
  response # NoAnswer =>
    /\ response.call = commandMutex
    /\ pc[commandMutex] = "wait"
    /\ \A i \in DOMAIN toRelay : ~ Asked(i)
    /\ \A i \in DOMAIN toNode : ~ Answering(i)

PromptInv == WaiterInv /\ OnlyForWaiting /\ OnlyOnce /\ AnswerTaken /\ AnswerIsOwn
-----------------------------------------------------------------------------
\* A frame put on the bus leaves a sequence of frames.
LEMMA AppendInSeq == \A S, e : \A q \in Seq(S) : e \in S => Append(q, e) \in Seq(S)
  OBVIOUS

\* What a call may ask for, and what of it goes on the bus.
LEMMA OpTyped ==
  ASSUME NEW o \in Ops
  PROVE  /\ o.to \in Int
         /\ Sendable(o) => o.kind \in {"setBaseAddress", "setting", "canKill"}
<1>1. ASSUME NEW b \in Requested, o = Move(b)
      PROVE  o.to \in Int /\ o.kind = "setBaseAddress"
  BY <1>1, BaseAssumption DEF Move
<1>2. CASE o \in {Setting, BadSetting, Kill}
  BY <1>2, BaseAssumption DEF Setting, BadSetting, Kill, Sendable
<1> QED BY <1>1, <1>2 DEF Ops

\* Every variable of the node, the relay and the bus keeps its type; a call
\* never returns anything but a relay's answer or none (main.cpp:486-563).
THEOREM Typing == Spec => []TypeOK
<1> USE DEF TypeOK
<1>1. Init => TypeOK
  <2> SUFFICES ASSUME Init PROVE TypeOK
    OBVIOUS
  <2>1. Setting \in Ops
    BY DEF Ops
  <2>2. "idle" \in Places /\ "nobody" \in Sources
    BY DEF Places, Sources
  <2>3. armed \in BOOLEAN /\ response \in Answers \union {NoAnswer}
    BY DEF Init, WaiterInit
  <2>4. base \in Int /\ watch \in Int \union {NoWatch} /\ snapshot \in [Periodic -> Sources]
    BY BaseAssumption, <2>2 DEF Init, DecoderInit
  <2>5. relayBase \in Int /\ toRelay \in Seq(Commands) /\ toNode \in Seq(Frames)
    BY BaseAssumption DEF Init
  <2>6. verdict \in [Calls -> Verdicts \union {"none", "ignored"}]
    BY DEF Init
  <2>7. /\ pc \in [Calls -> Places] /\ op \in [Calls -> Ops] /\ previous \in [Calls -> Int]
        /\ answer \in [Calls -> Answers \union {NoAnswer}]
        /\ commandMutex \in Calls \union {Nobody}
    BY BaseAssumption, <2>1, <2>2 DEF Init
  <2> QED BY <2>3, <2>4, <2>5, <2>6, <2>7
<1>2. TypeOK /\ [Next]_vars => TypeOK'
  <2> SUFFICES ASSUME TypeOK, [Next]_vars PROVE TypeOK'
    OBVIOUS
  <2>1. ASSUME NEW c \in Calls, Invoke(c) PROVE TypeOK'
    BY <2>1 DEF Invoke, Places, waiterVars, decoderVars, busVars
  <2>2. ASSUME NEW c \in Calls, InvokeKill(c) PROVE TypeOK'
    <3>1. [call |-> c, kind |-> "canKill", to |-> FactoryBase] \in Commands
      BY BaseAssumption DEF Commands
    <3>2. Kill \in Ops
      BY DEF Ops
    <3> QED BY <2>2, <3>1, <3>2 DEF InvokeKill, Places, waiterVars, decoderVars
  <2>3. ASSUME NEW c \in Calls, AcquireCommand(c) PROVE TypeOK'
    BY <2>3 DEF AcquireCommand, Places, waiterVars, decoderVars, busVars
  <2>4. ASSUME NEW c \in Calls, Send(c) PROVE TypeOK'
    <3>1. op[c] \in Ops
      OBVIOUS
    <3>2. op[c].to \in Int /\ (Sendable(op[c]) => CommandFrame(c) \in Commands)
      BY <3>1, OpTyped DEF Commands, CommandFrame
    <3>3. base' \in Int /\ watch' \in Int \union {NoWatch}
      BY <2>4, <3>2 DEF Send, Retune
    <3>4. toRelay' \in Seq(Commands)
      <4>1. \/ toRelay' = toRelay
            \/ toRelay' = Append(toRelay, CommandFrame(c)) /\ CommandFrame(c) \in Commands
        BY <2>4, <3>2 DEF Send
      <4>2. CASE toRelay' = toRelay
        BY <4>2
      <4>3. CASE toRelay' = Append(toRelay, CommandFrame(c)) /\ CommandFrame(c) \in Commands
        <5>1. toRelay \in Seq(Commands)
          OBVIOUS
        <5> QED BY <4>3, <5>1, AppendInSeq, Zenon
      <4> QED BY <4>1, <4>2, <4>3
    <3>5. pc' \in [Calls -> Places]
      BY <2>4 DEF Send, Places
    <3>6. armed' \in BOOLEAN /\ response' \in Answers \union {NoAnswer}
      BY <2>4 DEF Send, Arm
    <3>7. UNCHANGED <<snapshot, op, previous, answer, commandMutex, relayBase, toNode, verdict>>
      BY <2>4 DEF Send
    <3> QED BY <3>3, <3>4, <3>5, <3>6, <3>7
  <2>5. ASSUME NEW c \in Calls, Abandon(c) PROVE TypeOK'
    BY <2>5 DEF Abandon, Disarm, Places, decoderVars, busVars
  <2>6. ASSUME NEW c \in Calls, WaitAnswered(c) PROVE TypeOK'
    BY <2>6 DEF WaitAnswered, WaitEnds, Disarm, Places, decoderVars, busVars
  <2>7. ASSUME NEW c \in Calls, WaitTimesOut(c) PROVE TypeOK'
    BY <2>7 DEF WaitTimesOut, WaitEnds, Disarm, Places, decoderVars, busVars
  <2>8. ASSUME NEW c \in Calls, ReleaseCommand(c) PROVE TypeOK'
    BY <2>8 DEF ReleaseCommand, Places, waiterVars, decoderVars, busVars
  <2>9. ASSUME NEW c \in Calls, SettleBase(c) PROVE TypeOK'
    BY <2>9 DEF SettleBase, Places, waiterVars, busVars
  <2>10. CASE Receive
    <3>1. Head(toNode) \in Frames /\ Tail(toNode) \in Seq(Frames)
      BY <2>10 DEF Receive
    <3>2. CASE HeardAsResponse(Head(toNode))
      <4>1. [call |-> Head(toNode).call, code |-> Head(toNode).code] \in Answers
        BY <3>1, <3>2 DEF HeardAsResponse, IsResponse, Frames, Answers
      <4> QED BY <2>10, <3>1, <3>2, <4>1 DEF Receive, Deliver, callVars
    <3>3. CASE ~ HeardAsResponse(Head(toNode))
      BY <2>10, <3>1, <3>3 DEF Receive, TakeSnapshot, Provenance, Sources, waiterVars, callVars
    <3> QED BY <3>2, <3>3
  <2>11. CASE RelayIgnores
    <3>1. Head(toRelay) \in Commands /\ Tail(toRelay) \in Seq(Commands)
      BY <2>11 DEF RelayIgnores
    <3> QED BY <2>11, <3>1 DEF RelayIgnores, Commands, waiterVars, decoderVars, callVars
  <2>12. CASE RelayRejects
    <3>1. Head(toRelay) \in Commands /\ Tail(toRelay) \in Seq(Commands)
      BY <2>12 DEF RelayRejects
    <3>2. PICK code \in Codes :
             /\ toNode' = Append(toNode, Response(Head(toRelay).call, relayBase, code))
             /\ verdict' = [verdict EXCEPT ![Head(toRelay).call] = code]
      BY <2>12 DEF RelayRejects
    <3>3. Response(Head(toRelay).call, relayBase, code) \in Frames
      BY <3>1 DEF Response, Frames, Commands, Verdicts
    <3>4. toNode' \in Seq(Frames)
      BY <3>2, <3>3
    <3> QED BY <2>12, <3>1, <3>2, <3>4 DEF RelayRejects, Commands, Verdicts, waiterVars, decoderVars, callVars
  <2>13. CASE RelayAccepts
    <3>1. Head(toRelay) \in Commands /\ Tail(toRelay) \in Seq(Commands)
      BY <2>13 DEF RelayAccepts
    <3>2. relayBase' \in Int
      BY <2>13, <3>1 DEF RelayAccepts, Commands
    <3>3. PICK at \in Int :
            toNode' = Append(toNode, Response(Head(toRelay).call, at, "Success"))
      BY <2>13, <3>1 DEF RelayAccepts, Commands
    <3>4. Response(Head(toRelay).call, at, "Success") \in Frames
      BY <3>1 DEF Response, Frames, Commands, Verdicts
    <3>5. toNode' \in Seq(Frames)
      BY <3>3, <3>4
    <3> QED BY <2>13, <3>1, <3>2, <3>5 DEF RelayAccepts, Commands, Verdicts, waiterVars, decoderVars, callVars
  <2>14. CASE RelayTransmits
    <3>1. PICK k \in Periodic : toNode' = Append(toNode, Telemetry(k, relayBase))
      BY <2>14 DEF RelayTransmits
    <3>2. Telemetry(k, relayBase) \in Frames
      BY DEF Telemetry, Frames, Offset, Periodic, Verdicts
    <3>3. toNode' \in Seq(Frames)
      BY <3>1, <3>2
    <3> QED BY <2>14, <3>3 DEF RelayTransmits, waiterVars, decoderVars, callVars
  <2>15. CASE OtherDeviceTransmits
    <3>1. toNode' \in Seq(Frames)
      BY <2>15, OtherFramesAssumption DEF OtherDeviceTransmits
    <3> QED BY <2>15, <3>1 DEF OtherDeviceTransmits, waiterVars, decoderVars, callVars
  <2>16. CASE UNCHANGED vars
    BY <2>16 DEF vars, waiterVars, decoderVars, busVars, callVars
  <2> QED
    BY <2>1, <2>2, <2>3, <2>4, <2>5, <2>6, <2>7, <2>8, <2>9, <2>10, <2>11, <2>12, <2>13,
       <2>14, <2>15, <2>16 DEF Next, CallStep, RelayActs
<1> QED BY <1>1, <1>2, PTL DEF Spec
-----------------------------------------------------------------------------
\* The relay and the other devices only touch the bus.
LEMMA BusOnly ==
  ASSUME RelayActs \/ RelayTransmits \/ OtherDeviceTransmits
  PROVE  UNCHANGED <<waiterVars, decoderVars, callVars>>
BY DEF RelayActs, RelayIgnores, RelayRejects, RelayAccepts, RelayTransmits, OtherDeviceTransmits

\* Inside runCommand there is one thread at a time, and the waiter listens for
\* that thread only: main.cpp:486-519 with response_waiter.cpp.
LEMMA WaiterStep ==
  ASSUME TypeOK, WaiterInv, [Next]_vars
  PROVE  WaiterInv'
<1> USE NobodyAssumption DEF TypeOK, WaiterInv, Mutex, ArmedOnlyForHolder, Holding
<1>1. ASSUME NEW c \in Calls, Invoke(c) PROVE WaiterInv'
  BY <1>1 DEF Invoke, waiterVars
<1>2. ASSUME NEW c \in Calls, InvokeKill(c) PROVE WaiterInv'
  BY <1>2 DEF InvokeKill, waiterVars
<1>3. ASSUME NEW c \in Calls, AcquireCommand(c) PROVE WaiterInv'
  BY <1>3 DEF AcquireCommand, waiterVars
<1>4. ASSUME NEW c \in Calls, Send(c) PROVE WaiterInv'
  <2>1. /\ pc[c] = "send" /\ commandMutex' = commandMutex
        /\ pc' \in {[pc EXCEPT ![c] = "wait"], [pc EXCEPT ![c] = "abandon"]}
    BY <1>4 DEF Send
  <2> QED BY <2>1
<1>5. ASSUME NEW c \in Calls, Abandon(c) PROVE WaiterInv'
  BY <1>5 DEF Abandon, Disarm
<1>6. ASSUME NEW c \in Calls, WaitAnswered(c) PROVE WaiterInv'
  BY <1>6 DEF WaitAnswered, WaitEnds, Disarm
<1>7. ASSUME NEW c \in Calls, WaitTimesOut(c) PROVE WaiterInv'
  BY <1>7 DEF WaitTimesOut, WaitEnds, Disarm
<1>8. ASSUME NEW c \in Calls, ReleaseCommand(c) PROVE WaiterInv'
  BY <1>8 DEF ReleaseCommand, waiterVars
<1>9. ASSUME NEW c \in Calls, SettleBase(c) PROVE WaiterInv'
  BY <1>9 DEF SettleBase, waiterVars
<1>10. CASE Receive
  <2>1. UNCHANGED <<pc, commandMutex, armed>>
    BY <1>10 DEF Receive, Deliver, waiterVars, callVars
  <2>2. response' # NoAnswer => armed \/ response # NoAnswer
    BY <1>10 DEF Receive, Deliver, waiterVars
  <2> QED BY <2>1, <2>2
<1>11. CASE RelayActs \/ RelayTransmits \/ OtherDeviceTransmits
  BY <1>11, BusOnly DEF waiterVars, callVars
<1>12. CASE UNCHANGED vars
  BY <1>12 DEF vars, waiterVars, callVars
<1> QED
  BY <1>1, <1>2, <1>3, <1>4, <1>5, <1>6, <1>7, <1>8, <1>9, <1>10, <1>11, <1>12
     DEF Next, CallStep

\* Nothing is armed between commands, whatever the relay, the bus and the
\* callers do: an answer is kept for the command under way or not at all.
THEOREM NothingArmedBetweenCommands == Spec => []ArmedOnlyForHolder
<1>1. Init => WaiterInv
  BY DEF Init, WaiterInit, WaiterInv, Mutex, Holding, ArmedOnlyForHolder
<1>2. WaiterInv => ArmedOnlyForHolder
  BY DEF WaiterInv
<1> QED BY <1>1, <1>2, Typing, WaiterStep, PTL DEF Spec

\* A second identifier is watched only while the base-address change that asked
\* for it is under way, also when several overlap (main.cpp:648-654).
THEOREM WatchEndsWithItsMove == Spec => []WatchOnlyDuringMove
<1> USE DEF TypeOK, WatchOnlyDuringMove, IsMove
<1>1. Init => WatchOnlyDuringMove
  BY DEF Init, DecoderInit
<1>2. TypeOK /\ WatchOnlyDuringMove /\ [Next]_vars => WatchOnlyDuringMove'
  <2> SUFFICES ASSUME TypeOK, WatchOnlyDuringMove, [Next]_vars, watch' # NoWatch
               PROVE  \E c \in Calls : IsMove(c)' /\ pc'[c] \in {"wait", "release", "settle"}
    OBVIOUS
  <2>1. ASSUME NEW d \in Calls, Send(d), IsMove(d)
        PROVE  \E c \in Calls : IsMove(c)' /\ pc'[c] \in {"wait", "release", "settle"}
    <3>1. CASE Sendable(op[d])
      BY <2>1, <3>1 DEF Send
    <3>2. CASE ~ Sendable(op[d])
      BY <2>1, <3>2 DEF Send
    <3> QED BY <3>1, <3>2
  <2>2. ASSUME NEW d \in Calls, SettleBase(d) PROVE FALSE
    BY <2>2 DEF SettleBase
  <2>3. CASE /\ ~ \E d \in Calls : (Send(d) /\ IsMove(d)) \/ SettleBase(d)
    <3>1. watch' = watch
      BY <2>3, BusOnly DEF Next, CallStep, vars, decoderVars, Invoke, InvokeKill, AcquireCommand,
         Send, Retune, Abandon, WaitAnswered, WaitTimesOut, ReleaseCommand, Receive
    <3>2. PICK c \in Calls : IsMove(c) /\ pc[c] \in {"wait", "release", "settle"}
      BY <3>1
    <3>3. IsMove(c)' /\ pc'[c] \in {"wait", "release", "settle"}
      <4>1. ASSUME NEW d \in Calls, Invoke(d) \/ InvokeKill(d) \/ AcquireCommand(d) \/ Abandon(d)
            PROVE  IsMove(c)' /\ pc'[c] \in {"wait", "release", "settle"}
        BY <3>2, <4>1 DEF Invoke, InvokeKill, AcquireCommand, Abandon
      <4>2. ASSUME NEW d \in Calls, WaitAnswered(d) \/ WaitTimesOut(d) \/ ReleaseCommand(d)
            PROVE  IsMove(c)' /\ pc'[c] \in {"wait", "release", "settle"}
        BY <3>2, <4>2 DEF WaitAnswered, WaitTimesOut, ReleaseCommand
      <4>3. ASSUME NEW d \in Calls, Send(d)
            PROVE  IsMove(c)' /\ pc'[c] \in {"wait", "release", "settle"}
        <5>1. /\ pc[d] = "send" /\ op' = op
              /\ pc' \in {[pc EXCEPT ![d] = "wait"], [pc EXCEPT ![d] = "abandon"]}
          BY <4>3 DEF Send
        <5> QED BY <3>2, <5>1
      <4>4. CASE UNCHANGED callVars
        BY <3>2, <4>4 DEF callVars
      <4>5. CASE Receive \/ RelayActs \/ RelayTransmits \/ OtherDeviceTransmits \/ UNCHANGED vars
        BY <4>4, <4>5, BusOnly DEF Receive, vars
      <4> QED BY <2>3, <4>1, <4>2, <4>3, <4>5 DEF Next, CallStep
    <3> QED BY <3>3
  <2> QED BY <2>1, <2>2, <2>3
<1> QED BY <1>1, <1>2, Typing, PTL DEF Spec
-----------------------------------------------------------------------------
\* A frame on the bus after a transmission was there, or is the new last one.
LEMMA InAppend ==
  ASSUME NEW S, NEW q \in Seq(S), NEW e \in S, NEW i \in DOMAIN Append(q, e)
  PROVE  \/ i \in DOMAIN q /\ Append(q, e)[i] = q[i]
         \/ i = Len(q) + 1 /\ Append(q, e)[i] = e
OBVIOUS

\* A frame that is left after the first was taken was there, one place behind.
LEMMA InTail ==
  ASSUME NEW S, NEW q \in Seq(S), q # << >>
  PROVE  /\ Head(q) = q[1] /\ 1 \in DOMAIN q
         /\ \A i \in DOMAIN Tail(q) : /\ i + 1 \in DOMAIN q /\ i + 1 # 1
                                      /\ Tail(q)[i] = q[i + 1]
OBVIOUS

\* Every command on its way to the relay is some service call's.
LEMMA CommandsAreOfCalls ==
  ASSUME TypeOK
  PROVE  \A i \in DOMAIN toRelay : toRelay[i] \in Commands /\ toRelay[i].call \in Calls
<1>1. \A i \in DOMAIN toRelay : toRelay[i] \in Commands
  BY DEF TypeOK
<1> QED BY <1>1 DEF Commands

QuietBus == /\ \A i \in DOMAIN toRelay : ~ Asked(i)
            /\ \A i \in DOMAIN toNode : ~ Answering(i)

\* What is in flight belongs to the holder of commandMutex.
LEMMA InFlightIsHolders ==
  ASSUME TypeOK, PromptInv
  PROVE  /\ \A i \in DOMAIN toRelay : Asked(i) =>
              toRelay[i].call = commandMutex /\ pc[commandMutex] = "wait"
         /\ \A i \in DOMAIN toNode : Answering(i) =>
              toNode[i].call = commandMutex /\ pc[commandMutex] = "wait"
<1>1. \A i \in DOMAIN toRelay : toRelay[i].call \in Calls
  BY CommandsAreOfCalls
<1> QED BY <1>1 DEF PromptInv, WaiterInv, Mutex, OnlyForWaiting, Holding

\* A step that leaves the bus and the waiter alone and moves no waiting thread.
LEMMA ElsewhereStep ==
  ASSUME TypeOK, PromptInv, WaiterInv', UNCHANGED <<response, toRelay, toNode, answer>>,
         \A c \in Calls : pc[c] = "wait" => pc'[c] = "wait",
         commandMutex' = commandMutex \/ ~ \E c \in Calls : pc[c] = "wait"
  PROVE  PromptInv'
<1> USE DEF PromptInv
<1>1. \A i \in DOMAIN toRelay : toRelay[i].call \in Calls
  BY CommandsAreOfCalls
<1>2. OnlyForWaiting'
  BY <1>1 DEF OnlyForWaiting, Asked, Answering
<1>3. OnlyOnce'
  BY DEF OnlyOnce, Asked, Answering
<1>4. AnswerTaken'
  BY DEF AnswerTaken, Asked, Answering, WaiterInv, ArmedOnlyForHolder
<1>5. AnswerIsOwn'
  BY DEF AnswerIsOwn
<1> QED BY <1>2, <1>3, <1>4, <1>5

\* The waiting thread leaves wait() and nothing of its command is left behind.
LEMMA LeaveWaitStep ==
  ASSUME TypeOK, PromptInv, WaiterInv', NEW c \in Calls, QuietBus, response' = NoAnswer,
         UNCHANGED <<toRelay, toNode>>, AnswerIsOwn'
  PROVE  PromptInv'
BY DEF PromptInv, OnlyForWaiting, OnlyOnce, AnswerTaken, QuietBus, Asked, Answering

\* sendCommand puts the holder's command on a bus that carries no other, with
\* the waiter armed and empty; a refused frame leaves the bus quiet.
LEMMA PromptSend ==
  ASSUME TypeOK, PromptInv, WaiterInv', NEW c \in Calls, Send(c)
  PROVE  PromptInv'
<1>1. pc[c] = "send" /\ commandMutex = c
  BY DEF Send, PromptInv, WaiterInv, Mutex, Holding
<1>2. QuietBus
  BY <1>1, InFlightIsHolders DEF QuietBus
<1>3. AnswerIsOwn' /\ response' = NoAnswer /\ toNode' = toNode
  BY DEF Send, Arm, PromptInv, AnswerIsOwn
<1>4. CASE Sendable(op[c])
  <2>1. toRelay' = Append(toRelay, CommandFrame(c)) /\ pc' = [pc EXCEPT ![c] = "wait"]
    BY <1>4 DEF Send
  <2>2. CommandFrame(c) \in Commands /\ CommandFrame(c).call = c
    BY <1>4, BaseAssumption DEF CommandFrame, Commands, TypeOK, Ops, Move, Setting, BadSetting, Kill,
       Sendable
  <2>3. \A i \in DOMAIN toRelay' : Asked(i)' => i = Len(toRelay) + 1 /\ toRelay'[i].call = c
    BY <1>2, <2>1, <2>2, InAppend DEF QuietBus, Asked, TypeOK
  <2>4. pc'[c] = "wait"
    BY <2>1 DEF TypeOK
  <2>5. \A i \in DOMAIN toNode' : ~ Answering(i)'
    BY <1>2, <1>3 DEF QuietBus, Answering
  <2>6. OnlyForWaiting'
    BY <2>3, <2>4, <2>5 DEF OnlyForWaiting
  <2>7. OnlyOnce'
    BY <2>3, <2>5 DEF OnlyOnce
  <2>8. AnswerTaken'
    BY <1>3 DEF AnswerTaken
  <2> QED BY <1>3, <2>6, <2>7, <2>8 DEF PromptInv
<1>5. CASE ~ Sendable(op[c])
  <2>1. toRelay' = toRelay
    BY <1>5 DEF Send
  <2> QED BY <1>2, <1>3, <2>1, LeaveWaitStep
<1> QED BY <1>4, <1>5

\* wait() returns, with the answer or without one, and nothing of the command
\* is left on the bus: that is what prompt answers mean for the timeout.
LEMMA PromptLeaveWait ==
  ASSUME TypeOK, PromptInv, WaiterInv', Prompt, NEW c \in Calls,
         WaitAnswered(c) \/ WaitTimesOut(c)
  PROVE  PromptInv'
<1>1. pc[c] = "wait" /\ commandMutex = c
  BY DEF WaitAnswered, WaitTimesOut, PromptInv, WaiterInv, Mutex, Holding
<1>2. response' = NoAnswer /\ UNCHANGED <<toRelay, toNode>>
  BY DEF WaitAnswered, WaitTimesOut, WaitEnds, Disarm, busVars
<1>3. CASE WaitAnswered(c)
  <2>1. response # NoAnswer /\ answer' = [answer EXCEPT ![c] = response]
    BY <1>3 DEF WaitAnswered, Answered
  <2>2. QuietBus /\ response.call = c
    BY <1>1, <2>1 DEF PromptInv, AnswerTaken, QuietBus
  <2>3. AnswerIsOwn'
    BY <2>1, <2>2 DEF AnswerIsOwn, PromptInv, TypeOK
  <2> QED BY <1>2, <2>2, <2>3, LeaveWaitStep
<1>4. CASE WaitTimesOut(c)
  <2>1. Settled(c) /\ answer' = answer
    BY <1>4 DEF WaitTimesOut
  <2>2. QuietBus
    BY <1>1, <2>1, InFlightIsHolders DEF QuietBus, Settled
  <2>3. AnswerIsOwn'
    BY <2>1 DEF AnswerIsOwn, PromptInv
  <2> QED BY <1>2, <2>2, <2>3, LeaveWaitStep
<1> QED BY <1>3, <1>4

\* The receive thread hands over the answer of the one call that waits, or
\* decodes a frame that answers nothing.
LEMMA PromptReceive ==
  ASSUME TypeOK, PromptInv, WaiterInv', Receive
  PROVE  PromptInv'
<1> DEFINE f == Head(toNode)
<1>1. /\ f = toNode[1] /\ 1 \in DOMAIN toNode
      /\ \A i \in DOMAIN toNode' : /\ i + 1 \in DOMAIN toNode /\ i + 1 # 1
                                   /\ toNode'[i] = toNode[i + 1]
  BY InTail DEF Receive, TypeOK
<1>2. UNCHANGED <<pc, commandMutex, answer, toRelay>>
  BY DEF Receive, callVars
<1>3. \A i \in DOMAIN toNode' : Answering(i)' => Answering(i + 1)
  BY <1>1 DEF Answering
<1>4. OnlyForWaiting'
  BY <1>1, <1>2, <1>3 DEF PromptInv, OnlyForWaiting, Asked
<1>5. OnlyOnce'
  <2>1. \A i, j \in DOMAIN toNode' : Answering(i)' /\ Answering(j)' => i = j
    <3> TAKE i, j \in DOMAIN toNode'
    <3> HAVE Answering(i)' /\ Answering(j)'
    <3>1. i + 1 = j + 1
      BY <1>1, <1>3 DEF PromptInv, OnlyOnce
    <3>2. i \in Int /\ j \in Int
      BY DEF Receive, TypeOK
    <3> QED BY <3>1, <3>2
  <2> QED BY <1>1, <1>2, <1>3, <2>1 DEF PromptInv, OnlyOnce, Asked
<1>6. AnswerTaken'
  <2>1. CASE response' = response
    BY <1>1, <1>2, <1>3, <2>1 DEF PromptInv, AnswerTaken, Asked
  <2>2. CASE response' # response
    <3>1. IsResponse(f) /\ response' = [call |-> f.call, code |-> f.code]
      BY <2>2 DEF Receive, Deliver, HeardAsResponse, waiterVars
    <3>2. Answering(1)
      BY <1>1, <3>1 DEF Answering, IsResponse
    <3>3. f.call = commandMutex /\ pc[commandMutex] = "wait"
      BY <1>1, <3>2, InFlightIsHolders
    <3>4. \A i \in DOMAIN toNode' : ~ Answering(i)'
      BY <1>1, <1>3, <3>2 DEF PromptInv, OnlyOnce
    <3>5. \A i \in DOMAIN toRelay' : ~ Asked(i)'
      BY <1>1, <1>2, <3>2 DEF PromptInv, OnlyOnce, Asked
    <3> QED BY <1>2, <3>1, <3>3, <3>4, <3>5 DEF AnswerTaken
  <2> QED BY <2>1, <2>2
<1>7. AnswerIsOwn'
  BY <1>2 DEF PromptInv, AnswerIsOwn
<1> QED BY <1>4, <1>5, <1>6, <1>7 DEF PromptInv

\* A frame that answers no command joins the bus.
LEMMA PromptTelemetry ==
  ASSUME TypeOK, PromptInv, WaiterInv', RelayTransmits \/ OtherDeviceTransmits
  PROVE  PromptInv'
<1>1. PICK f \in Frames : f.kind # "response" /\ toNode' = Append(toNode, f)
  <2>1. CASE RelayTransmits
    <3>1. PICK k \in Periodic : toNode' = Append(toNode, Telemetry(k, relayBase))
      BY <2>1 DEF RelayTransmits
    <3>2. Telemetry(k, relayBase) \in Frames /\ Telemetry(k, relayBase).kind # "response"
      BY DEF TypeOK, Telemetry, Frames, Offset, Periodic, Verdicts
    <3> QED BY <3>1, <3>2
  <2>2. CASE OtherDeviceTransmits
    BY <2>2, OtherFramesAssumption DEF OtherDeviceTransmits
  <2> QED BY <2>1, <2>2
<1>2. UNCHANGED <<response, pc, commandMutex, answer, toRelay>>
  BY DEF RelayTransmits, OtherDeviceTransmits, callVars, waiterVars
<1>3. \A i \in DOMAIN toNode' : Answering(i)' =>
        i \in DOMAIN toNode /\ Answering(i) /\ toNode'[i] = toNode[i]
  BY <1>1, InAppend DEF Answering, TypeOK
<1>4. OnlyForWaiting'
  BY <1>2, <1>3 DEF PromptInv, OnlyForWaiting, Asked
<1>5. OnlyOnce'
  BY <1>2, <1>3 DEF PromptInv, OnlyOnce, Asked
<1>6. AnswerTaken' /\ AnswerIsOwn'
  BY <1>2, <1>3 DEF PromptInv, AnswerTaken, AnswerIsOwn, Asked
<1> QED BY <1>4, <1>5, <1>6 DEF PromptInv

\* The relay takes the one command in flight and leaves at most its answer.
LEMMA PromptRelay ==
  ASSUME TypeOK, PromptInv, WaiterInv', RelayActs
  PROVE  PromptInv'
<1> DEFINE m == Head(toRelay)
<1>1. /\ toRelay # << >> /\ toRelay' = Tail(toRelay)
      /\ UNCHANGED <<response, pc, commandMutex, answer>>
  BY DEF RelayActs, RelayIgnores, RelayRejects, RelayAccepts, waiterVars, callVars
<1>2. /\ m = toRelay[1] /\ 1 \in DOMAIN toRelay /\ m \in Commands /\ m.call \in Calls
      /\ \A i \in DOMAIN toRelay' : /\ i + 1 \in DOMAIN toRelay /\ i + 1 # 1
                                    /\ toRelay'[i] = toRelay[i + 1]
  BY <1>1, InTail, CommandsAreOfCalls DEF TypeOK
<1>3. \A i \in DOMAIN toRelay' : Asked(i)' => Asked(i + 1)
  BY <1>2 DEF Asked
<1>4. \A i, j \in DOMAIN toRelay' : Asked(i)' /\ Asked(j)' => i = j
  <2> TAKE i, j \in DOMAIN toRelay'
  <2> HAVE Asked(i)' /\ Asked(j)'
  <2>1. i + 1 = j + 1
    BY <1>2, <1>3 DEF PromptInv, OnlyOnce
  <2>2. i \in Int /\ j \in Int
    BY <1>1 DEF TypeOK
  <2> QED BY <2>1, <2>2
<1>5. AnswerIsOwn'
  BY <1>1 DEF PromptInv, AnswerIsOwn
<1>6. CASE toNode' = toNode
  <2>1. OnlyForWaiting'
    BY <1>1, <1>2, <1>3, <1>6 DEF PromptInv, OnlyForWaiting, Answering
  <2>2. OnlyOnce'
    BY <1>2, <1>3, <1>4, <1>6 DEF PromptInv, OnlyOnce, Answering
  <2>3. AnswerTaken'
    BY <1>1, <1>2, <1>3, <1>6 DEF PromptInv, AnswerTaken, Answering
  <2> QED BY <1>5, <2>1, <2>2, <2>3 DEF PromptInv
<1>7. ASSUME NEW f \in Frames, f.call = m.call, m.kind # "canKill", toNode' = Append(toNode, f)
      PROVE  PromptInv'
  <2>1. Asked(1)
    BY <1>2, <1>7 DEF Asked
  <2>2. /\ \A i \in DOMAIN toRelay' : ~ Asked(i)'
        /\ \A i \in DOMAIN toNode : ~ Answering(i)
        /\ response = NoAnswer /\ pc[m.call] = "wait"
    BY <1>2, <1>3, <2>1 DEF PromptInv, OnlyOnce, AnswerTaken, OnlyForWaiting
  <2>3. \A i \in DOMAIN toNode' : Answering(i)' => i = Len(toNode) + 1 /\ toNode'[i].call = m.call
    BY <1>7, <2>2, InAppend DEF Answering, TypeOK
  <2>4. OnlyForWaiting'
    BY <1>1, <1>2, <2>2, <2>3 DEF OnlyForWaiting
  <2>5. OnlyOnce'
    BY <2>2, <2>3 DEF OnlyOnce
  <2>6. AnswerTaken'
    BY <1>1, <2>2 DEF AnswerTaken
  <2> QED BY <1>5, <2>4, <2>5, <2>6 DEF PromptInv
<1>8. CASE RelayIgnores
  BY <1>6, <1>8 DEF RelayIgnores
<1>9. CASE RelayRejects
  <2>1. PICK code \in Codes : /\ m.kind # "canKill"
                              /\ toNode' = Append(toNode, Response(m.call, relayBase, code))
    BY <1>9 DEF RelayRejects
  <2>2. Response(m.call, relayBase, code) \in Frames
    BY <1>2 DEF Response, Frames, TypeOK, Verdicts
  <2>3. Response(m.call, relayBase, code).call = m.call
    BY DEF Response
  <2> QED BY <1>7, <2>1, <2>2, <2>3
<1>10. CASE RelayAccepts
  <2>1. PICK at \in Int : /\ m.kind # "canKill"
                          /\ toNode' = Append(toNode, Response(m.call, at, "Success"))
    BY <1>2, <1>10 DEF RelayAccepts, TypeOK, Commands
  <2>2. Response(m.call, at, "Success") \in Frames
    BY <1>2 DEF Response, Frames, TypeOK, Verdicts
  <2>3. Response(m.call, at, "Success").call = m.call
    BY DEF Response
  <2> QED BY <1>7, <2>1, <2>2, <2>3
<1> QED BY <1>8, <1>9, <1>10 DEF RelayActs

\* The kill trigger asks for no answer.
LEMMA PromptKill ==
  ASSUME TypeOK, PromptInv, WaiterInv', NEW c \in Calls, InvokeKill(c)
  PROVE  PromptInv'
<1> DEFINE k == [call |-> c, kind |-> "canKill", to |-> FactoryBase]
<1>1. /\ toRelay' = Append(toRelay, k) /\ pc[c] = "idle" /\ pc' = [pc EXCEPT ![c] = "done"]
      /\ UNCHANGED <<response, commandMutex, answer, toNode>>
  BY DEF InvokeKill, waiterVars
<1>2. k \in Commands /\ k.kind = "canKill"
  BY BaseAssumption DEF Commands
<1> HIDE DEF k
<1>3. \A i \in DOMAIN toRelay' : Asked(i)' =>
        i \in DOMAIN toRelay /\ Asked(i) /\ toRelay'[i] = toRelay[i]
  BY <1>1, <1>2, InAppend DEF Asked, TypeOK
<1>4. \A d \in Calls : pc[d] = "wait" => pc'[d] = "wait"
  BY <1>1 DEF TypeOK
<1>5. OnlyForWaiting'
  BY <1>1, <1>3, <1>4, CommandsAreOfCalls DEF PromptInv, OnlyForWaiting, Answering
<1>6. OnlyOnce'
  BY <1>1, <1>3 DEF PromptInv, OnlyOnce, Answering
<1>7. AnswerTaken'
  BY <1>1, <1>3 DEF PromptInv, AnswerTaken, WaiterInv, ArmedOnlyForHolder, Answering
<1>8. AnswerIsOwn'
  BY <1>1 DEF PromptInv, AnswerIsOwn
<1> QED BY <1>5, <1>6, <1>7, <1>8 DEF PromptInv

\* Nothing is in flight at first.
LEMMA PromptInit == Init => PromptInv
BY DEF Init, WaiterInit, PromptInv, WaiterInv, Mutex, Holding, ArmedOnlyForHolder,
   OnlyForWaiting, OnlyOnce, AnswerTaken, AnswerIsOwn

\* Every step keeps what is on the bus the waiting call's.
LEMMA PromptStep ==
  ASSUME Prompt
  PROVE  TypeOK /\ PromptInv /\ [Next]_vars => PromptInv'
<1> SUFFICES ASSUME TypeOK, PromptInv, [Next]_vars PROVE PromptInv'
  OBVIOUS
<1>1. WaiterInv'
  BY WaiterStep DEF PromptInv
<1>2. ASSUME NEW c \in Calls, Invoke(c) \/ Abandon(c) \/ SettleBase(c) PROVE PromptInv'
  <2>1. /\ UNCHANGED <<toRelay, toNode, answer, commandMutex>>
        /\ \A d \in Calls : pc[d] = "wait" => pc'[d] = "wait"
    BY <1>2 DEF Invoke, Abandon, SettleBase, TypeOK, busVars
  <2>2. response' = response
    BY <1>2 DEF Invoke, Abandon, SettleBase, Disarm, waiterVars, PromptInv, AnswerTaken,
       WaiterInv, Mutex, Holding
  <2> QED BY <1>1, <2>1, <2>2, ElsewhereStep
<1>3. ASSUME NEW c \in Calls, AcquireCommand(c) \/ ReleaseCommand(c) PROVE PromptInv'
  <2>1. /\ UNCHANGED <<response, toRelay, toNode, answer>>
        /\ \A d \in Calls : pc[d] = "wait" => pc'[d] = "wait"
    BY <1>3 DEF AcquireCommand, ReleaseCommand, TypeOK, busVars, waiterVars
  <2>2. ~ \E d \in Calls : pc[d] = "wait"
    BY <1>3, NobodyAssumption DEF AcquireCommand, ReleaseCommand, PromptInv, WaiterInv, Mutex, Holding
  <2> QED BY <1>1, <2>1, <2>2, ElsewhereStep
<1>4. CASE UNCHANGED vars
  BY <1>1, <1>4, ElsewhereStep DEF vars, waiterVars, busVars, callVars
<1> QED
  BY <1>1, <1>2, <1>3, <1>4, PromptSend, PromptLeaveWait, PromptReceive, PromptTelemetry,
     PromptRelay, PromptKill DEF Next, CallStep

\* If no answer outlasts the timeout, the answer a call returns is the relay's
\* answer to that call, however many calls compete for the one waiter: one
\* command in flight, armed before it is sent, disarmed before the next
\* (main.cpp:486-563).
THEOREM PromptAnswersAreOwn ==
  ASSUME Prompt
  PROVE  Spec => []AnswerIsOwn
<1>1. PromptInv => AnswerIsOwn
  BY DEF PromptInv
<1> QED BY <1>1, PromptInit, PromptStep, Typing, PTL DEF Spec
-----------------------------------------------------------------------------
(* With prompt answers and one move at a time, the relay node keeps what      *)
(* RelayCommands promises and follows the relay, for every set of calls and   *)
(* every request.                                                             *)

Moving(c) == IsMove(c) /\ pc[c] \notin {"idle", "done"}

\* Before the command of a move is sent, and if it never is, nothing has moved.
Still(c) == pc[c] \in {"acquire", "send", "abandon"} \/ ~ Sendable(op[c])

\* The node listens where the relay transmits, and during a move also where it
\* would if the relay does not follow.
Following ==
  /\ (\A c \in Calls : ~ Moving(c)) => base = relayBase
  /\ \A c \in Calls : Moving(c) =>
       IF Still(c)
       THEN base = relayBase /\ previous[c] = base
       ELSE /\ base = op[c].to /\ watch = previous[c]
            /\ relayBase = IF verdict[c] = "Success" THEN op[c].to ELSE previous[c]

MoveInv ==
  /\ \A c, d \in Calls : Moving(c) /\ Moving(d) => c = d
  /\ \A c \in Calls : pc[c] = "settle" => IsMove(c)
  /\ Following

\* A kill is done when it is called; a command on the bus is what its call asked for.
CommandInv ==
  /\ \A c \in Calls : pc[c] = "idle" => op[c] = Setting
  /\ \A c \in Calls : op[c].kind = "canKill" => pc[c] = "done"
  /\ \A i \in DOMAIN toRelay :
       LET m == toRelay[i] IN m.kind = op[m.call].kind /\ (Asked(i) => m.to = op[m.call].to)

\* Where the answer to a command that waits is: not given yet, never given, with
\* the waiter, or on the bus at an address the node listens at.
Undecided(c) == verdict[c] = "none" /\ \E i \in DOMAIN toRelay : Asked(i)
Ignored(c)   == verdict[c] = "ignored" /\ QuietBus /\ response = NoAnswer
Taken(c)     == response # NoAnswer /\ verdict[c] = response.code
Heard(c, f)  == f.id = relayBase \/ (IsMove(c) /\ f.id \in {base, watch})
OnItsWay(c)  == /\ response = NoAnswer
                /\ \E i \in DOMAIN toNode : /\ Answering(i) /\ Heard(c, toNode[i])
                                            /\ verdict[c] = toNode[i].code

Waiting(c) == /\ armed /\ Sendable(op[c])
              /\ Undecided(c) \/ Ignored(c) \/ Taken(c) \/ OnItsWay(c)

\* What a caller will be told is what the relay decided.
Told(c) ==
  IF Sendable(op[c]) THEN verdict[c] = IF answer[c] = NoAnswer THEN "ignored" ELSE answer[c].code
                     ELSE verdict[c] = "none" /\ answer[c] = NoAnswer

AnswerOf(c) ==
  /\ pc[c] \in {"idle", "acquire", "send", "abandon"} => verdict[c] = "none"
  /\ pc[c] \in {"idle", "acquire", "send", "abandon", "wait"} => answer[c] = NoAnswer
  /\ pc[c] = "abandon" => ~ Sendable(op[c])
  /\ pc[c] = "wait" => Waiting(c)
  /\ pc[c] \in {"release", "settle", "done"} => Told(c)

AnswerInv == \A c \in Calls : op[c].kind # "canKill" => AnswerOf(c)

RelayInv == MoveInv /\ CommandInv /\ AnswerInv
-----------------------------------------------------------------------------
\* What the kinds of command look like.
LEMMA OpKinds ==
  /\ Setting.kind = "setting" /\ Kill.kind = "canKill" /\ Sendable(Setting)
  /\ \A o \in Ops \ {Kill} : o.kind \in {"setBaseAddress", "setting", "badSetting"}
  BY DEF Ops, Setting, BadSetting, Kill, Move, Sendable

\* Commands on the bus are of calls that wait, or of kills.
LEMMA CommandsInFlight ==
  ASSUME TypeOK, PromptInv, CommandInv
  PROVE  \A i \in DOMAIN toRelay :
           /\ toRelay[i].call \in Calls
           /\ IF Asked(i) THEN pc[toRelay[i].call] = "wait"
                          ELSE op[toRelay[i].call].kind = "canKill" /\ pc[toRelay[i].call] = "done"
  <1>1. \A i \in DOMAIN toRelay : toRelay[i].call \in Calls
    BY CommandsAreOfCalls
  <1> QED
    BY <1>1 DEF PromptInv, OnlyForWaiting, CommandInv, Asked

\* A command on the bus stays what its call asked for.
LEMMA CommandStep ==
  ASSUME TypeOK, PromptInv, CommandInv, [Next]_vars
  PROVE  CommandInv'
  <1> DEFINE Right(i) == LET m == toRelay[i] IN m.kind = op[m.call].kind /\ (Asked(i) => m.to = op[m.call].to)
  <1>1. ASSUME NEW c \in Calls, Invoke(c) PROVE CommandInv'
    <2>1. PICK o \in Ops \ {Kill} : pc[c] = "idle" /\ op' = [op EXCEPT ![c] = o]
                                   /\ pc' = [pc EXCEPT ![c] = "acquire"]
      BY <1>1 DEF Invoke
    <2>2. o.kind # "canKill"
      BY OpKinds
    <2>3. toRelay' = toRelay
      BY <1>1 DEF Invoke, busVars
    <2>4. \A i \in DOMAIN toRelay : op'[toRelay[i].call] = op[toRelay[i].call]
      BY <2>1, CommandsInFlight DEF TypeOK
    <2> QED
      BY <2>1, <2>2, <2>3, <2>4 DEF CommandInv, Asked, TypeOK
  <1>2. ASSUME NEW c \in Calls, InvokeKill(c) PROVE CommandInv'
    <2> DEFINE m == [call |-> c, kind |-> "canKill", to |-> FactoryBase]
    <2>1. /\ pc[c] = "idle" /\ op' = [op EXCEPT ![c] = Kill] /\ pc' = [pc EXCEPT ![c] = "done"]
          /\ toRelay' = Append(toRelay, m)
      BY <1>2 DEF InvokeKill
    <2>2. m \in Commands /\ m.call = c /\ m.kind = "canKill"
      BY BaseAssumption DEF Commands
    <2> HIDE DEF m
    <2>3. \A i \in DOMAIN toRelay : op'[toRelay[i].call] = op[toRelay[i].call]
      BY <2>1, CommandsInFlight DEF TypeOK
    <2>4. \A i \in DOMAIN toRelay' : (i \in DOMAIN toRelay /\ toRelay'[i] = toRelay[i]) \/ toRelay'[i] = m
      BY <2>1, <2>2, InAppend DEF TypeOK
    <2>5. op'[c].kind = "canKill" /\ pc'[c] = "done"
      BY <2>1, OpKinds DEF TypeOK
    <2>6. \A i \in DOMAIN toRelay' : Right(i)'
      BY <2>2, <2>3, <2>4, <2>5 DEF CommandInv, Asked
    <2> QED
      BY <2>1, <2>5, <2>6 DEF CommandInv, TypeOK
  <1>3. ASSUME NEW c \in Calls, Send(c) PROVE CommandInv'
    <2>1. /\ pc[c] = "send" /\ op' = op
          /\ pc' \in {[pc EXCEPT ![c] = "wait"], [pc EXCEPT ![c] = "abandon"]}
          /\ \/ toRelay' = toRelay
             \/ Sendable(op[c]) /\ toRelay' = Append(toRelay, CommandFrame(c))
      BY <1>3 DEF Send
    <2>2. Sendable(op[c]) => CommandFrame(c) \in Commands
      BY BaseAssumption DEF CommandFrame, Commands, TypeOK, Ops, Move, Setting, BadSetting, Kill,
         Sendable
    <2>3. CommandFrame(c).call = c /\ CommandFrame(c).kind = op[c].kind /\ CommandFrame(c).to = op[c].to
      BY DEF CommandFrame
    <2>4. \A i \in DOMAIN toRelay' : (i \in DOMAIN toRelay /\ toRelay'[i] = toRelay[i])
                                      \/ toRelay'[i] = CommandFrame(c)
      <3>1. CASE toRelay' = toRelay
        BY <3>1
      <3>2. CASE Sendable(op[c]) /\ toRelay' = Append(toRelay, CommandFrame(c))
        BY <2>2, <3>2, InAppend DEF TypeOK
      <3> QED
        BY <2>1, <3>1, <3>2
    <2>5. \A i \in DOMAIN toRelay' : Right(i)'
      BY <2>1, <2>3, <2>4 DEF CommandInv, Asked
    <2> QED
      BY <2>1, <2>5 DEF CommandInv, TypeOK
  <1>4. ASSUME NEW c \in Calls,
               \/ AcquireCommand(c) \/ Abandon(c) \/ WaitAnswered(c) \/ WaitTimesOut(c)
               \/ ReleaseCommand(c) \/ SettleBase(c)
        PROVE  CommandInv'
    <2>1. /\ UNCHANGED <<op, toRelay>>
          /\ pc[c] \in {"acquire", "abandon", "wait", "release", "settle"}
          /\ \A d \in Calls : d # c => pc'[d] = pc[d]
          /\ pc'[c] # "idle"
      BY <1>4 DEF AcquireCommand, Abandon, WaitAnswered, WaitTimesOut, ReleaseCommand, SettleBase,
                  busVars, TypeOK
    <2> QED
      BY <2>1 DEF CommandInv, Asked
  <1>5. CASE Receive \/ RelayTransmits \/ OtherDeviceTransmits \/ UNCHANGED vars
    <2>1. UNCHANGED <<pc, op, toRelay>>
      BY <1>5 DEF Receive, RelayTransmits, OtherDeviceTransmits, vars, busVars, callVars
    <2> QED
      BY <2>1 DEF CommandInv, Asked
  <1>6. CASE RelayActs
    <2>1. UNCHANGED <<pc, op>> /\ toRelay # << >> /\ toRelay' = Tail(toRelay)
      BY <1>6 DEF RelayActs, RelayIgnores, RelayRejects, RelayAccepts, callVars
    <2>2. \A i \in DOMAIN toRelay' : i + 1 \in DOMAIN toRelay /\ toRelay'[i] = toRelay[i + 1]
      BY <2>1, InTail DEF TypeOK
    <2>3. \A i \in DOMAIN toRelay' : Right(i)'
      BY <2>1, <2>2 DEF CommandInv, Asked
    <2> QED
      BY <2>1, <2>3 DEF CommandInv
  <1> QED
    BY <1>1, <1>2, <1>3, <1>4, <1>5, <1>6 DEF Next, CallStep
-----------------------------------------------------------------------------
\* A step that moves neither the node nor the relay, and no call into or out of a move.
LEMMA SameMove ==
  ASSUME MoveInv, UNCHANGED <<base, relayBase>>,
         \A c \in Calls : Moving(c)' <=> Moving(c),
         \A c \in Calls : Moving(c) =>
           /\ op'[c] = op[c] /\ previous'[c] = previous[c] /\ verdict'[c] = verdict[c]
           /\ Still(c)' <=> Still(c)
           /\ watch' = watch,
         \A c \in Calls : pc'[c] = "settle" => IsMove(c)'
  PROVE  MoveInv'
  <1>1. ASSUME NEW c \in Calls, Moving(c)'
        PROVE  IF Still(c)'
               THEN base' = relayBase' /\ previous'[c] = base'
               ELSE /\ base' = op'[c].to /\ watch' = previous'[c]
                    /\ relayBase' = IF verdict'[c] = "Success" THEN op'[c].to ELSE previous'[c]
    BY <1>1 DEF MoveInv, Following
  <1>2. Following'
    BY <1>1 DEF MoveInv, Following
  <1> QED
    BY <1>2 DEF MoveInv

\* The node's side of a move: main.cpp:629-672.
LEMMA MoveStepOfCall ==
  ASSUME TypeOK, MoveInv, CommandInv, AnswerInv, OneMover, NEW c \in Calls, CallStep(c)
  PROVE  MoveInv'
  <1>1. CASE Invoke(c)
    <2>1. PICK o \in Ops \ {Kill} :
            /\ pc[c] = "idle" /\ (o.kind = "setBaseAddress" => ~ MoveInProgress)
            /\ op' = [op EXCEPT ![c] = o] /\ previous' = [previous EXCEPT ![c] = base]
            /\ pc' = [pc EXCEPT ![c] = "acquire"]
      BY <1>1 DEF Invoke
    <2>2. UNCHANGED <<base, watch, relayBase, verdict>>
      BY <1>1 DEF Invoke, decoderVars, busVars
    <2>3. op'[c] = o /\ previous'[c] = base /\ pc'[c] = "acquire" /\ ~ Moving(c)
      BY <2>1 DEF TypeOK, Moving
    <2>4. \A d \in Calls \ {c} : op'[d] = op[d] /\ previous'[d] = previous[d] /\ pc'[d] = pc[d]
      BY <2>1 DEF TypeOK
    <2>5. \A d \in Calls \ {c} : (Moving(d)' <=> Moving(d)) /\ (Still(d)' <=> Still(d))
      BY <2>4 DEF Moving, IsMove, Still
    <2>6. Moving(c)' <=> o.kind = "setBaseAddress"
      BY <2>3 DEF Moving, IsMove
    <2>7. \A d \in Calls : pc'[d] = "settle" => IsMove(d)'
      BY <2>3, <2>4 DEF MoveInv, IsMove
    <2>8. CASE o.kind # "setBaseAddress"
      BY <2>2, <2>3, <2>4, <2>5, <2>6, <2>7, <2>8, SameMove
    <2>9. CASE o.kind = "setBaseAddress"
      <3>1. \A d \in Calls : ~ Moving(d)
        BY <2>1, <2>9 DEF MoveInProgress, Moving
      <3>2. base = relayBase
        BY <3>1 DEF MoveInv, Following
      <3>3. \A d \in Calls : Moving(d)' => d = c
        BY <2>5, <3>1
      <3>4. Still(c)'
        BY <2>3 DEF Still
      <3>5. Following'
        BY <2>2, <2>3, <3>2, <3>3, <3>4 DEF Following
      <3> QED
        BY <2>7, <3>3, <3>5 DEF MoveInv
    <2> QED
      BY <2>8, <2>9
  <1>2. CASE InvokeKill(c)
    <2>1. /\ pc[c] = "idle" /\ op' = [op EXCEPT ![c] = Kill] /\ pc' = [pc EXCEPT ![c] = "done"]
          /\ UNCHANGED <<base, watch, relayBase, verdict, previous>>
      BY <1>2 DEF InvokeKill, decoderVars
    <2>2. \A d \in Calls \ {c} : op'[d] = op[d] /\ pc'[d] = pc[d]
      BY <2>1 DEF TypeOK
    <2>3. pc'[c] = "done" /\ ~ Moving(c) /\ ~ Moving(c)'
      BY <2>1 DEF TypeOK, Moving
    <2>4. \A d \in Calls \ {c} : (Moving(d)' <=> Moving(d)) /\ (Still(d)' <=> Still(d))
      BY <2>2 DEF Moving, IsMove, Still
    <2>5. \A d \in Calls : pc'[d] = "settle" => IsMove(d)'
      BY <2>2, <2>3 DEF MoveInv, IsMove
    <2> QED
      BY <2>1, <2>2, <2>3, <2>4, <2>5, SameMove
  <1>3. CASE \/ AcquireCommand(c) \/ Abandon(c) \/ WaitAnswered(c) \/ WaitTimesOut(c) \/ ReleaseCommand(c)
             \/ (Send(c) /\ ~ (IsMove(c) /\ Sendable(op[c])))
    <2>1. UNCHANGED <<base, watch, relayBase, verdict, previous, op>>
      BY <1>3 DEF AcquireCommand, Abandon, WaitAnswered, WaitTimesOut, ReleaseCommand, Send, Retune,
                  decoderVars, busVars
    <2>2. /\ \A d \in Calls \ {c} : pc'[d] = pc[d]
          /\ pc[c] \in {"acquire", "send", "abandon", "wait", "release"}
          /\ pc[c] \in {"send", "abandon"} => ~ IsMove(c) \/ ~ Sendable(op[c]) \/ pc'[c] \in {"send", "abandon"}
          /\ pc[c] = "acquire" => pc'[c] = "send"
          /\ pc[c] \in {"wait", "release"} => pc'[c] \in {"release", "settle", "done"}
          /\ pc'[c] \in {"settle", "done"} => (pc'[c] = "settle" <=> IsMove(c))
          /\ pc'[c] # "idle"
      <3>1. op[c].kind # "canKill"
        BY <1>3 DEF AcquireCommand, Abandon, WaitAnswered, WaitTimesOut, ReleaseCommand, Send, CommandInv
      <3>2. pc[c] = "abandon" => ~ Sendable(op[c])
        BY <3>1 DEF AnswerInv, AnswerOf
      <3> QED
        BY <1>3, <3>2 DEF AcquireCommand, Abandon, WaitAnswered, WaitTimesOut, ReleaseCommand, Send, TypeOK
    <2>3. \A d \in Calls : Moving(d)' <=> Moving(d)
      BY <2>1, <2>2 DEF Moving, IsMove
    <2>4. \A d \in Calls : Moving(d) => (Still(d)' <=> Still(d))
      BY <2>1, <2>2 DEF Still, Moving
    <2>5. \A d \in Calls : pc'[d] = "settle" => IsMove(d)'
      BY <2>1, <2>2 DEF MoveInv, IsMove
    <2> QED
      BY <2>1, <2>3, <2>4, <2>5, SameMove
  <1>4. CASE Send(c) /\ IsMove(c) /\ Sendable(op[c])
    <2>1. /\ pc[c] = "send" /\ pc' = [pc EXCEPT ![c] = "wait"]
          /\ base' = op[c].to /\ watch' = previous[c]
          /\ UNCHANGED <<op, previous, relayBase, verdict>>
      BY <1>4 DEF Send, Retune
    <2>2. pc'[c] = "wait" /\ \A d \in Calls \ {c} : pc'[d] = pc[d]
      BY <2>1 DEF TypeOK
    <2>3. Moving(c) /\ Moving(c)' /\ ~ Still(c)' /\ Still(c)
      BY <1>4, <2>1, <2>2 DEF Moving, IsMove, Still
    <2>4. \A d \in Calls : Moving(d)' => d = c
      BY <2>1, <2>2, <2>3 DEF Moving, IsMove, MoveInv
    <2>5. previous[c] = relayBase /\ verdict[c] = "none"
      BY <1>4, <2>1, <2>3 DEF MoveInv, Following, AnswerInv, AnswerOf, IsMove
    <2>6. Following'
      BY <2>1, <2>3, <2>4, <2>5 DEF Following
    <2>7. \A d \in Calls : pc'[d] = "settle" => IsMove(d)'
      BY <2>1, <2>2 DEF MoveInv, IsMove
    <2> QED
      BY <2>4, <2>6, <2>7 DEF MoveInv
  <1>5. CASE SettleBase(c)
    <2>1. /\ pc[c] = "settle" /\ pc' = [pc EXCEPT ![c] = "done"]
          /\ base' = IF Sendable(op[c]) /\ ~ Accepted(c) THEN previous[c] ELSE base
          /\ UNCHANGED <<op, relayBase>>
      BY <1>5 DEF SettleBase, busVars
    <2>2. pc'[c] = "done" /\ \A d \in Calls \ {c} : pc'[d] = pc[d]
      BY <2>1 DEF TypeOK
    <2>3. Moving(c) /\ op[c].kind # "canKill"
      BY <2>1 DEF MoveInv, Moving, IsMove
    <2>4. \A d \in Calls : ~ Moving(d)'
      BY <2>1, <2>2, <2>3 DEF Moving, IsMove, MoveInv
    <2>5. Told(c)
      BY <2>1, <2>3 DEF AnswerInv, AnswerOf
    <2>6. base' = relayBase
      <3>1. CASE ~ Sendable(op[c])
        BY <2>1, <2>3, <3>1 DEF MoveInv, Following, Still
      <3>2. CASE Sendable(op[c]) /\ Accepted(c)
        BY <2>1, <2>3, <2>5, <3>2 DEF MoveInv, Following, Still, Told, Accepted
      <3>3. CASE Sendable(op[c]) /\ ~ Accepted(c)
        BY <2>1, <2>3, <2>5, <3>3 DEF MoveInv, Following, Still, Told, Accepted
      <3> QED
        BY <3>1, <3>2, <3>3
    <2>7. \A d \in Calls : pc'[d] = "settle" => IsMove(d)'
      BY <2>1, <2>2 DEF MoveInv, IsMove
    <2> QED
      BY <2>1, <2>4, <2>6, <2>7 DEF MoveInv, Following
  <1> QED
    BY <1>1, <1>2, <1>3, <1>4, <1>5 DEF CallStep

\* The relay's side: it moves when it accepts, and only then.
LEMMA MoveStepOfRelay ==
  ASSUME TypeOK, PromptInv, RelayInv, RelayActs
  PROVE  MoveInv'
  <1> DEFINE m == Head(toRelay)
  <1> USE DEF RelayInv
  <1>1. toRelay # << >> /\ UNCHANGED <<pc, op, previous, base, watch>>
    BY DEF RelayActs, RelayIgnores, RelayRejects, RelayAccepts, callVars, decoderVars
  <1>2. /\ 1 \in DOMAIN toRelay /\ m = toRelay[1] /\ m.call \in Calls
        /\ m.kind = op[m.call].kind
        /\ m.kind # "canKill" => m.to = op[m.call].to /\ pc[m.call] = "wait"
        /\ m.kind = "canKill" => pc[m.call] = "done"
    BY <1>1, InTail, CommandsInFlight DEF TypeOK, CommandInv, Asked
  <1> HIDE DEF m
  <1>3. /\ \A c \in Calls : (Moving(c)' <=> Moving(c)) /\ (Still(c)' <=> Still(c))
        /\ \A c \in Calls : pc'[c] = "settle" => IsMove(c)'
    BY <1>1 DEF Moving, IsMove, Still, MoveInv
  <1>4. \A c \in Calls \ {m.call} : verdict'[c] = verdict[c]
    BY <1>2 DEF RelayActs, RelayIgnores, RelayRejects, RelayAccepts, TypeOK, m
  <1>5. CASE m.kind # "setBaseAddress"
    <2>1. relayBase' = relayBase
      BY <1>5 DEF RelayActs, RelayIgnores, RelayRejects, RelayAccepts, m
    <2>2. ~ Moving(m.call)
      BY <1>2, <1>5 DEF Moving, IsMove
    <2> QED
      BY <1>1, <1>3, <1>4, <2>1, <2>2, SameMove
  <1>6. CASE m.kind = "setBaseAddress"
    <2>1. Moving(m.call) /\ \A c \in Calls : Moving(c) => c = m.call
      BY <1>2, <1>6 DEF Moving, IsMove, MoveInv
    <2>2. Sendable(op[m.call]) /\ verdict[m.call] = "none"
      <3>1. Waiting(m.call)
        BY <1>2, <1>6 DEF AnswerInv, AnswerOf
      <3>2. Asked(1)
        BY <1>2, <1>6 DEF Asked
      <3>3. response = NoAnswer /\ ~ QuietBus /\ \A j \in DOMAIN toNode : ~ Answering(j)
        BY <1>2, <3>2 DEF PromptInv, OnlyOnce, AnswerTaken, QuietBus
      <3> QED
        BY <3>1, <3>3 DEF Waiting, Undecided, Ignored, Taken, OnItsWay
    <2>3. ~ Still(m.call)
      BY <1>2, <1>6, <2>2 DEF Still
    <2>4. \/ relayBase' = relayBase /\ verdict'[m.call] # "Success"
          \/ relayBase' = op[m.call].to /\ verdict'[m.call] = "Success"
      BY <1>2, <1>6, CodeAssumption DEF RelayActs, RelayIgnores, RelayRejects, RelayAccepts, TypeOK, m
    <2>5. /\ base = op[m.call].to /\ watch = previous[m.call] /\ relayBase = previous[m.call]
          /\ \A c \in Calls : Moving(c)' => c = m.call
      BY <1>2, <1>3, <2>1, <2>2, <2>3 DEF MoveInv, Following
    <2>6. Following'
      <3>1. relayBase' = IF verdict'[m.call] = "Success" THEN op[m.call].to ELSE previous[m.call]
        BY <2>4, <2>5
      <3> QED
        BY <1>1, <1>2, <1>3, <2>1, <2>3, <2>5, <3>1 DEF Following
    <2> QED
      BY <1>3, <2>6 DEF MoveInv
  <1> QED
    BY <1>5, <1>6

LEMMA MoveStep ==
  ASSUME TypeOK, PromptInv, RelayInv, OneMover, [Next]_vars
  PROVE  MoveInv'
  <1>1. CASE Receive \/ RelayTransmits \/ OtherDeviceTransmits \/ UNCHANGED vars
    <2>1. UNCHANGED <<pc, op, previous, base, watch, relayBase, verdict>>
      BY <1>1 DEF Receive, RelayTransmits, OtherDeviceTransmits, vars, busVars, callVars, decoderVars
    <2>2. /\ \A c \in Calls : (Moving(c)' <=> Moving(c)) /\ (Still(c)' <=> Still(c))
          /\ \A c \in Calls : pc'[c] = "settle" => IsMove(c)'
      BY <2>1 DEF Moving, IsMove, Still, RelayInv, MoveInv
    <2> QED
      BY <2>1, <2>2, SameMove DEF RelayInv
  <1> QED
    BY <1>1, MoveStepOfCall, MoveStepOfRelay DEF Next, RelayInv
-----------------------------------------------------------------------------
\* A call that does not step is told what it would have been told.
LEMMA OthersAnswer ==
  ASSUME NEW c \in Calls, op[c].kind # "canKill" => AnswerOf(c),
         pc'[c] = pc[c], op'[c] = op[c], verdict'[c] = verdict[c], answer'[c] = answer[c],
         pc[c] = "wait" /\ Waiting(c) => Waiting(c)'
  PROVE  (op[c].kind # "canKill" => AnswerOf(c))'
  BY DEF AnswerOf, Told

\* Nothing about the one call that waits changes.
LEMMA StillWaiting ==
  ASSUME NEW c \in Calls, Waiting(c), UNCHANGED <<armed, response, toNode, relayBase>>,
         op'[c] = op[c], verdict'[c] = verdict[c],
         (\E i \in DOMAIN toRelay : Asked(i)) <=> (\E i \in DOMAIN toRelay' : Asked(i)'),
         IsMove(c) => UNCHANGED <<base, watch>>
  PROVE  Waiting(c)'
  BY DEF Waiting, Undecided, Ignored, Taken, OnItsWay, Heard, IsMove, QuietBus, Answering, Asked

\* The node listens where the relay answers.
LEMMA ListensToRelay ==
  ASSUME MoveInv, NEW c \in Calls
  PROVE  /\ relayBase \in {base, watch}
         /\ Moving(c) /\ ~ Still(c) /\ verdict[c] # "Success" => op[c].to = base /\ relayBase = watch
  <1>1. CASE \A d \in Calls : ~ Moving(d)
    BY <1>1 DEF MoveInv, Following
  <1>2. ASSUME NEW d \in Calls, Moving(d) PROVE relayBase \in {base, watch}
    BY <1>2 DEF MoveInv, Following
  <1>3. Moving(c) /\ ~ Still(c) /\ verdict[c] # "Success" => op[c].to = base /\ relayBase = watch
    BY DEF MoveInv, Following
  <1> QED
    BY <1>1, <1>2, <1>3 DEF MoveInv, Following

\* A call goes through its own steps, one at a time under commandMutex.
LEMMA AnswerStepOfCall ==
  ASSUME TypeOK, PromptInv, RelayInv, Prompt, NEW c \in Calls, CallStep(c)
  PROVE  AnswerInv'
  <1> USE DEF RelayInv
  <1>1. /\ pc[c] \notin {"done"} /\ op[c].kind # "canKill" /\ AnswerOf(c)
        /\ \A d \in Calls \ {c} : pc'[d] = pc[d] /\ op'[d] = op[d] /\ answer'[d] = answer[d]
        /\ UNCHANGED <<verdict, toNode, relayBase>>
    <2>1. /\ pc[c] \in {"idle", "acquire", "send", "abandon", "wait", "release", "settle"}
          /\ \A d \in Calls \ {c} : pc'[d] = pc[d] /\ op'[d] = op[d] /\ answer'[d] = answer[d]
          /\ UNCHANGED <<verdict, toNode, relayBase>>
      <3>1. CASE Invoke(c) \/ InvokeKill(c) \/ AcquireCommand(c)
        BY <3>1 DEF Invoke, InvokeKill, AcquireCommand, TypeOK, busVars
      <3>2. CASE Send(c) \/ Abandon(c) \/ WaitAnswered(c)
        BY <3>2 DEF Send, Abandon, WaitAnswered, TypeOK, busVars
      <3>3. CASE WaitTimesOut(c) \/ ReleaseCommand(c) \/ SettleBase(c)
        BY <3>3 DEF WaitTimesOut, ReleaseCommand, SettleBase, TypeOK, busVars
      <3> QED
        BY <3>1, <3>2, <3>3 DEF CallStep
    <2>2. op[c].kind # "canKill"
      BY <2>1 DEF CommandInv
    <2> QED
      BY <2>1, <2>2 DEF AnswerInv
  <1>2. ASSUME NEW d \in Calls \ {c}, pc[d] = "wait", Waiting(d) PROVE Waiting(d)'
    <2>1. commandMutex = d /\ pc[c] \notin Holding /\ commandMutex # Nobody
      BY <1>2, NobodyAssumption DEF PromptInv, WaiterInv, Mutex, Holding
    <2>2. CASE Invoke(c)
      <3>1. UNCHANGED <<armed, response, toRelay, base, watch>>
        BY <2>2 DEF Invoke, waiterVars, busVars, decoderVars
      <3> QED
        BY <1>1, <1>2, <3>1, StillWaiting DEF Asked
    <2>3. CASE InvokeKill(c)
      <3> DEFINE k == [call |-> c, kind |-> "canKill", to |-> FactoryBase]
      <3>1. UNCHANGED <<armed, response, base, watch>> /\ toRelay' = Append(toRelay, k)
        BY <2>3 DEF InvokeKill, waiterVars, decoderVars
      <3>2. k \in Commands /\ k.kind = "canKill"
        BY BaseAssumption DEF Commands
      <3> HIDE DEF k
      <3>3. /\ \A i \in DOMAIN toRelay : i \in DOMAIN toRelay' /\ toRelay'[i] = toRelay[i]
            /\ \A i \in DOMAIN toRelay' : Asked(i)' => i \in DOMAIN toRelay /\ toRelay'[i] = toRelay[i]
        BY <3>1, <3>2, InAppend DEF TypeOK, Asked
      <3>4. (\E i \in DOMAIN toRelay : Asked(i)) <=> (\E i \in DOMAIN toRelay' : Asked(i)')
        BY <3>3 DEF Asked
      <3> QED
        BY <1>1, <1>2, <3>1, <3>4, StillWaiting
    <2>4. CASE SettleBase(c)
      <3>1. UNCHANGED <<armed, response, toRelay>> /\ pc[c] = "settle"
        BY <2>4 DEF SettleBase, waiterVars, busVars
      <3>2. ~ IsMove(d)
        BY <1>2, <3>1 DEF MoveInv, Moving
      <3> QED
        BY <1>1, <1>2, <3>1, <3>2, StillWaiting DEF Asked
    <2> QED
      BY <2>1, <2>2, <2>3, <2>4 DEF CallStep, AcquireCommand, Send, Abandon, WaitAnswered, WaitTimesOut,
                                    ReleaseCommand, Holding
  <1>3. (op[c].kind # "canKill" => AnswerOf(c))'
    <2>1. CASE Invoke(c)
      <3>1. pc'[c] = "acquire" /\ pc[c] = "idle" /\ answer' = answer
        BY <2>1 DEF Invoke, TypeOK
      <3> QED
        BY <1>1, <3>1 DEF AnswerOf
    <2>2. CASE InvokeKill(c)
      <3>1. op'[c].kind = "canKill"
        BY <2>2, OpKinds DEF InvokeKill, TypeOK
      <3> QED
        BY <3>1
    <2>3. CASE AcquireCommand(c)
      <3>1. pc'[c] = "send" /\ pc[c] = "acquire" /\ UNCHANGED <<op, answer>>
        BY <2>3 DEF AcquireCommand, TypeOK
      <3> QED
        BY <1>1, <3>1 DEF AnswerOf
    <2>4. CASE Send(c) /\ Sendable(op[c])
      <3>1. /\ pc[c] = "send" /\ pc'[c] = "wait" /\ UNCHANGED <<op, answer>> /\ armed'
            /\ toRelay' = Append(toRelay, CommandFrame(c))
        BY <2>4 DEF Send, Arm, TypeOK
      <3>2. CommandFrame(c) \in Commands /\ CommandFrame(c).kind # "canKill"
        BY <1>1, <2>4, BaseAssumption
           DEF CommandFrame, Commands, TypeOK, Ops, Move, Setting, BadSetting, Kill, Sendable
      <3>3. \E i \in DOMAIN toRelay' : Asked(i)'
        <4>1. Len(toRelay) + 1 \in DOMAIN toRelay' /\ toRelay'[Len(toRelay) + 1] = CommandFrame(c)
          BY <3>1, <3>2 DEF TypeOK
        <4> QED
          BY <3>2, <4>1 DEF Asked
      <3>4. verdict'[c] = "none" /\ answer'[c] = NoAnswer /\ Sendable(op'[c])
        BY <1>1, <2>4, <3>1 DEF AnswerOf
      <3>5. Waiting(c)'
        BY <3>1, <3>3, <3>4 DEF Waiting, Undecided
      <3> QED
        BY <3>1, <3>4, <3>5 DEF AnswerOf
    <2>5. CASE Send(c) /\ ~ Sendable(op[c])
      <3>1. pc[c] = "send" /\ pc'[c] = "abandon" /\ UNCHANGED <<op, answer>>
        BY <2>5 DEF Send, TypeOK
      <3> QED
        BY <1>1, <2>5, <3>1 DEF AnswerOf
    <2>6. CASE Abandon(c)
      <3>1. pc[c] = "abandon" /\ pc'[c] = "release" /\ UNCHANGED <<op, answer>>
        BY <2>6 DEF Abandon, TypeOK
      <3> QED
        BY <1>1, <3>1 DEF AnswerOf, Told
    <2>7. CASE WaitAnswered(c)
      <3>1. /\ pc[c] = "wait" /\ pc'[c] = "release" /\ op' = op /\ response # NoAnswer
            /\ answer'[c] = response
        BY <2>7 DEF WaitAnswered, Answered, TypeOK
      <3>2. ~ \E i \in DOMAIN toRelay : Asked(i)
        BY <3>1 DEF PromptInv, AnswerTaken
      <3>3. Taken(c) /\ Sendable(op[c])
        BY <1>1, <3>1, <3>2 DEF AnswerOf, Waiting, Undecided, Ignored, OnItsWay
      <3> QED
        BY <1>1, <3>1, <3>3 DEF AnswerOf, Told, Taken
    <2>8. CASE WaitTimesOut(c)
      <3>1. /\ pc[c] = "wait" /\ pc'[c] = "release" /\ UNCHANGED <<op, answer>> /\ response = NoAnswer
            /\ Settled(c)
        BY <2>8 DEF WaitTimesOut, Answered, TypeOK
      <3>2. QuietBus
        <4>1. commandMutex = c
          BY <3>1 DEF PromptInv, WaiterInv, Mutex, Holding
        <4> QED
          BY <3>1, <4>1, InFlightIsHolders DEF QuietBus, Settled
      <3>3. Ignored(c) /\ Sendable(op[c]) /\ answer[c] = NoAnswer
        BY <1>1, <3>1, <3>2 DEF AnswerOf, Waiting, Undecided, Taken, OnItsWay, QuietBus
      <3> QED
        BY <1>1, <3>1, <3>3 DEF AnswerOf, Told, Ignored
    <2>9. CASE ReleaseCommand(c) \/ SettleBase(c)
      <3>1. pc[c] \in {"release", "settle"} /\ pc'[c] \in {"settle", "done"} /\ UNCHANGED <<op, answer>>
        BY <2>9 DEF ReleaseCommand, SettleBase, TypeOK
      <3> QED
        BY <1>1, <3>1 DEF AnswerOf, Told
    <2> QED
      BY <2>1, <2>2, <2>3, <2>4, <2>5, <2>6, <2>7, <2>8, <2>9 DEF CallStep
  <1>4. ASSUME NEW d \in Calls \ {c} PROVE (op[d].kind # "canKill" => AnswerOf(d))'
    BY <1>1, <1>2, <1>4, OthersAnswer DEF AnswerInv
  <1> QED
    BY <1>3, <1>4 DEF AnswerInv
\* Frames that answer nothing come and go beside what the waiting call waits for.
LEMMA AnswerStepOfBus ==
  ASSUME TypeOK, RelayInv, RelayTransmits \/ OtherDeviceTransmits
  PROVE  AnswerInv'
  <1> USE DEF RelayInv
  <1>1. PICK f \in Frames : f.kind # "response" /\ toNode' = Append(toNode, f)
    <2>1. CASE RelayTransmits
      <3>1. PICK k \in Periodic : toNode' = Append(toNode, Telemetry(k, relayBase))
        BY <2>1 DEF RelayTransmits
      <3>2. Telemetry(k, relayBase) \in Frames /\ Telemetry(k, relayBase).kind # "response"
        BY DEF TypeOK, Telemetry, Frames, Offset, Periodic, Verdicts
      <3> QED
        BY <3>1, <3>2
    <2>2. CASE OtherDeviceTransmits
      BY <2>2, OtherFramesAssumption DEF OtherDeviceTransmits
    <2> QED
      BY <2>1, <2>2
  <1>2. UNCHANGED <<armed, response, base, watch, pc, op, answer, relayBase, toRelay, verdict>>
    BY DEF RelayTransmits, OtherDeviceTransmits, waiterVars, decoderVars, callVars
  <1>3. /\ \A i \in DOMAIN toNode : i \in DOMAIN toNode' /\ toNode'[i] = toNode[i]
        /\ \A i \in DOMAIN toNode' : Answering(i)' => i \in DOMAIN toNode /\ toNode'[i] = toNode[i]
    BY <1>1, InAppend DEF TypeOK, Answering
  <1>4. ASSUME NEW c \in Calls, Waiting(c) PROVE Waiting(c)'
    <2>1. Undecided(c) => Undecided(c)'
      BY <1>2 DEF Undecided, Asked
    <2>2. Ignored(c) => Ignored(c)'
      BY <1>2, <1>3 DEF Ignored, QuietBus, Answering, Asked
    <2>3. Taken(c) => Taken(c)'
      BY <1>2 DEF Taken
    <2>4. OnItsWay(c) => OnItsWay(c)'
      BY <1>2, <1>3 DEF OnItsWay, Heard, Answering, IsMove
    <2> QED
      BY <1>2, <1>4, <2>1, <2>2, <2>3, <2>4 DEF Waiting
  <1> QED
    BY <1>2, <1>4, OthersAnswer DEF AnswerInv

\* The answer that was on its way reaches the waiter, which is armed.
LEMMA AnswerStepOfReceive ==
  ASSUME TypeOK, PromptInv, RelayInv, Receive
  PROVE  AnswerInv'
  <1> DEFINE f == Head(toNode)
  <1> USE DEF RelayInv
  <1>1. /\ f = toNode[1] /\ 1 \in DOMAIN toNode
        /\ \A i \in DOMAIN toNode' : /\ i + 1 \in DOMAIN toNode /\ toNode'[i] = toNode[i + 1]
        /\ \A i \in DOMAIN toNode : i # 1 => i - 1 \in DOMAIN toNode' /\ toNode'[i - 1] = toNode[i]
    BY DEF Receive, TypeOK
  <1>2. UNCHANGED <<armed, base, watch, pc, op, answer, relayBase, toRelay, verdict>>
    BY DEF Receive, callVars, Deliver, waiterVars
  <1>3. ~ Answering(1) => response' = response
    BY <1>1 DEF Receive, HeardAsResponse, IsResponse, Answering, waiterVars
  <1>4. ASSUME NEW c \in Calls, op[c].kind # "canKill", pc[c] = "wait", Waiting(c) PROVE Waiting(c)'
    <2>1. CASE Undecided(c)
      <3>1. ~ Answering(1)
        BY <1>1, <2>1 DEF Undecided, PromptInv, OnlyOnce
      <3> QED
        BY <1>2, <1>4, <2>1 DEF Waiting, Undecided, Asked
    <2>2. CASE Ignored(c)
      <3>1. response' = response /\ QuietBus'
        BY <1>1, <1>2, <1>3, <2>2 DEF Ignored, QuietBus, Asked, Answering
      <3> QED
        BY <1>2, <1>4, <2>2, <3>1 DEF Waiting, Ignored
    <2>3. CASE Taken(c)
      <3>1. response' = response
        BY <1>1, <1>3, <2>3 DEF Taken, PromptInv, AnswerTaken
      <3> QED
        BY <1>2, <1>4, <2>3, <3>1 DEF Waiting, Taken
    <2>4. CASE OnItsWay(c)
      <3>1. PICK i \in DOMAIN toNode : /\ Answering(i) /\ Heard(c, toNode[i])
                                       /\ verdict[c] = toNode[i].code
        BY <2>4 DEF OnItsWay
      <3>2. CASE i = 1
        <4>1. f.id \in {base, watch}
          BY <1>1, <3>1, <3>2, ListensToRelay DEF Heard
        <4>2. response' = [call |-> f.call, code |-> f.code]
          BY <1>1, <1>4, <3>1, <3>2, <4>1
             DEF Receive, HeardAsResponse, IsResponse, Answering, Deliver, Waiting
        <4>3. f \in Frames /\ f.call \in Calls
          BY <1>1, <3>1, <3>2 DEF TypeOK, Frames, Answering
        <4>4. response' # NoAnswer /\ response'.code = f.code
          <5>1. [call |-> f.call, code |-> f.code] \in Answers
            BY <4>3 DEF Answers, Frames
          <5> QED
            BY <4>2, <5>1, WaiterAssumption DEF Answers, Verdicts
        <4> QED
          BY <1>1, <1>2, <1>4, <3>1, <3>2, <4>4 DEF Waiting, Taken
      <3>3. CASE i # 1
        <4>1. ~ Answering(1)
          BY <1>1, <3>1, <3>3 DEF PromptInv, OnlyOnce
        <4>2. response' = NoAnswer
          BY <1>3, <2>4, <4>1 DEF OnItsWay
        <4>3. i - 1 \in DOMAIN toNode' /\ toNode'[i - 1] = toNode[i]
          BY <1>1, <3>3
        <4>4. OnItsWay(c)'
          BY <1>2, <3>1, <4>2, <4>3 DEF OnItsWay, Answering, Heard, IsMove
        <4> QED
          BY <1>2, <1>4, <4>4 DEF Waiting
      <3> QED
        BY <3>2, <3>3
    <2> QED
      BY <1>4, <2>1, <2>2, <2>3, <2>4 DEF Waiting
  <1> QED
    BY <1>2, <1>4, OthersAnswer DEF AnswerInv

\* The relay decides the one command that is on the bus, which is the waiter's,
\* and answers where the node listens.
LEMMA AnswerStepOfRelay ==
  ASSUME TypeOK, PromptInv, RelayInv, RelayActs
  PROVE  AnswerInv'
  <1> DEFINE m == Head(toRelay)
  <1> USE DEF RelayInv
  <1>1. /\ toRelay # << >> /\ toRelay' = Tail(toRelay)
        /\ UNCHANGED <<armed, response, pc, op, answer, base, watch>>
    BY DEF RelayActs, RelayIgnores, RelayRejects, RelayAccepts, callVars, decoderVars, waiterVars
  <1>0. PICK d \in Calls : d = m.call
    BY <1>1, InTail, CommandsAreOfCalls DEF TypeOK
  <1>2. /\ 1 \in DOMAIN toRelay /\ m = toRelay[1] /\ d \in Calls /\ m \in Commands /\ m.call = d
        /\ m.kind = op[d].kind
        /\ m.kind # "canKill" => m.to = op[d].to /\ pc[d] = "wait"
        /\ \A i \in DOMAIN toRelay' : i + 1 \in DOMAIN toRelay /\ toRelay'[i] = toRelay[i + 1] /\ i + 1 # 1
        /\ \A i \in DOMAIN toRelay : i # 1 => i - 1 \in DOMAIN toRelay' /\ toRelay'[i - 1] = toRelay[i]
    BY <1>0, <1>1, InTail, CommandsInFlight, CommandsAreOfCalls DEF TypeOK, CommandInv, Asked
  <1> HIDE DEF m
  <1>3. \A c \in Calls \ {d} : verdict'[c] = verdict[c]
    BY <1>2 DEF RelayActs, RelayIgnores, RelayRejects, RelayAccepts, TypeOK, m
  <1>4. CASE m.kind = "canKill"
    <2>1. UNCHANGED <<toNode, relayBase>>
      BY <1>4 DEF RelayActs, RelayIgnores, RelayRejects, RelayAccepts, m
    <2>2. (\E i \in DOMAIN toRelay : Asked(i)) <=> (\E i \in DOMAIN toRelay' : Asked(i)')
      BY <1>2, <1>4 DEF Asked
    <2>3. ASSUME NEW c \in Calls, op[c].kind # "canKill" PROVE AnswerOf(c)'
      <3>1. verdict'[c] = verdict[c]
        BY <1>2, <1>3, <1>4, <2>3
      <3> QED
        BY <1>1, <2>1, <2>2, <2>3, <3>1, OthersAnswer, StillWaiting DEF AnswerInv
    <2> QED
      BY <1>1, <2>3 DEF AnswerInv
  <1>5. CASE m.kind # "canKill"
    <2>1. Asked(1) /\ pc[d] = "wait" /\ Waiting(d) /\ answer[d] = NoAnswer
      BY <1>2, <1>5 DEF Asked, AnswerInv, AnswerOf
    <2>2. /\ response = NoAnswer /\ \A j \in DOMAIN toNode : ~ Answering(j)
          /\ \A i \in DOMAIN toRelay' : ~ Asked(i)'
      <3>1. \A i \in DOMAIN toRelay : Asked(i) => i = 1
        BY <1>2, <2>1 DEF PromptInv, OnlyOnce
      <3> QED
        BY <1>2, <2>1, <3>1 DEF PromptInv, OnlyOnce, AnswerTaken, Asked
    <2>3. verdict[d] = "none" /\ armed /\ Sendable(op[d])
      BY <1>2, <2>1, <2>2 DEF Waiting, Undecided, Ignored, Taken, OnItsWay, QuietBus
    <2>4. ASSUME NEW at, NEW code, toNode' = Append(toNode, Response(d, at, code)),
                 verdict'[d] = code, Response(d, at, code) \in Frames,
                 at = relayBase' \/ (IsMove(d) /\ at \in {base, watch})
          PROVE  Waiting(d)'
      <3> DEFINE r == Response(d, at, code)
      <3>1. r.id = at /\ r.kind = "response" /\ r.code = code
        BY DEF Response
      <3> HIDE DEF r
      <3>2. Len(toNode) + 1 \in DOMAIN toNode' /\ toNode'[Len(toNode) + 1] = r
        BY <2>4 DEF TypeOK, r
      <3>3. OnItsWay(d)'
        BY <1>1, <2>2, <2>4, <3>1, <3>2 DEF OnItsWay, Answering, Heard, IsMove
      <3> QED
        BY <1>1, <2>3, <3>3 DEF Waiting
    <2>5. ASSUME RelayIgnores PROVE Waiting(d)'
      <3>1. verdict'[d] = "ignored" /\ toNode' = toNode
        BY <1>2, <2>5 DEF RelayIgnores, TypeOK, m
      <3>2. Ignored(d)'
        BY <1>1, <2>2, <3>1 DEF Ignored, QuietBus, Answering
      <3> QED
        BY <1>1, <2>3, <3>2 DEF Waiting
    <2>6. ASSUME RelayRejects PROVE Waiting(d)'
      <3>1. PICK code \in Codes : /\ toNode' = Append(toNode, Response(d, relayBase, code))
                                  /\ verdict' = [verdict EXCEPT ![d] = code]
                                  /\ relayBase' = relayBase
        BY <1>2, <2>6 DEF RelayRejects, m
      <3>2. verdict'[d] = code /\ Response(d, relayBase, code) \in Frames
        BY <1>2, <3>1 DEF TypeOK, Response, Frames, Verdicts
      <3> QED
        BY <2>4, <3>1, <3>2
    <2>7. ASSUME RelayAccepts PROVE Waiting(d)'
      <3>1. PICK at \in {relayBase, relayBase'} :
              /\ toNode' = Append(toNode, Response(d, at, "Success"))
              /\ verdict' = [verdict EXCEPT ![d] = "Success"]
              /\ relayBase' = IF m.kind = "setBaseAddress" THEN m.to ELSE relayBase
        BY <1>2, <2>7 DEF RelayAccepts, m
      <3>2. verdict'[d] = "Success" /\ Response(d, at, "Success") \in Frames
        BY <1>2, <3>1 DEF TypeOK, Response, Frames, Verdicts, Commands
      <3>3. at = relayBase' \/ (IsMove(d) /\ at \in {base, watch})
        <4>1. CASE m.kind = "setBaseAddress"
          <5>1. Moving(d) /\ ~ Still(d) /\ verdict[d] # "Success"
            BY <1>2, <2>1, <2>3, <4>1 DEF Moving, IsMove, Still
          <5>2. relayBase = watch
            BY <1>2, <5>1, ListensToRelay
          <5> QED
            BY <1>2, <3>1, <4>1, <5>2 DEF IsMove
        <4>2. CASE m.kind # "setBaseAddress"
          BY <3>1, <4>2
        <4> QED
          BY <4>1, <4>2
      <3> QED
        BY <2>4, <3>1, <3>2, <3>3
    <2>8. Waiting(d)'
      BY <2>5, <2>6, <2>7 DEF RelayActs
    <2>9. AnswerOf(d)'
      BY <1>1, <2>1, <2>8 DEF AnswerOf
    <2>10. ASSUME NEW c \in Calls \ {d}, op[c].kind # "canKill" PROVE AnswerOf(c)'
      <3>1. pc[c] # "wait"
        BY <1>2, <2>1 DEF PromptInv, WaiterInv, Mutex, Holding
      <3> QED
        BY <1>1, <1>3, <2>10, <3>1, OthersAnswer DEF AnswerInv
    <2> QED
      BY <1>1, <2>9, <2>10 DEF AnswerInv
  <1> QED
    BY <1>4, <1>5

LEMMA AnswerStep ==
  ASSUME TypeOK, PromptInv, RelayInv, Prompt, [Next]_vars
  PROVE  AnswerInv'
  <1>1. CASE UNCHANGED vars
    <2>1. UNCHANGED <<armed, response, base, watch, pc, op, answer, relayBase, toRelay, toNode, verdict>>
      BY <1>1 DEF vars, waiterVars, decoderVars, busVars, callVars
    <2> QED
      BY <2>1, OthersAnswer, StillWaiting DEF AnswerInv, RelayInv, Asked
  <1> QED
    BY <1>1, AnswerStepOfCall, AnswerStepOfBus, AnswerStepOfReceive, AnswerStepOfRelay DEF Next
-----------------------------------------------------------------------------
LEMMA RelayInit == Init => RelayInv
  <1> SUFFICES ASSUME Init PROVE RelayInv
    OBVIOUS
  <1>1. /\ \A c \in Calls : pc[c] = "idle" /\ op[c] = Setting /\ verdict[c] = "none" /\ answer[c] = NoAnswer
        /\ base = relayBase /\ toRelay = << >>
    BY DEF Init, DecoderInit
  <1>2. \A c \in Calls : ~ Moving(c) /\ op[c].kind = "setting"
    BY <1>1, OpKinds DEF Moving
  <1>3. MoveInv
    BY <1>1, <1>2 DEF MoveInv, Following
  <1>4. CommandInv
    BY <1>1, <1>2 DEF CommandInv
  <1>5. AnswerInv
    BY <1>1 DEF AnswerInv, AnswerOf
  <1> QED
    BY <1>3, <1>4, <1>5 DEF RelayInv

LEMMA RelayStep ==
  ASSUME TypeOK, PromptInv, RelayInv, Prompt, OneMover, [Next]_vars
  PROVE  RelayInv'
  <1>1. CommandInv'
    BY CommandStep DEF RelayInv
  <1>2. MoveInv'
    BY MoveStep
  <1>3. AnswerInv'
    BY AnswerStep
  <1> QED
    BY <1>1, <1>2, <1>3 DEF RelayInv

\* Whatever the relay answers, and if it does not, the node is back where the
\* relay transmits once a move has settled (main.cpp:665).
THEOREM DecoderFollows ==
  ASSUME Prompt, OneMover
  PROVE  Spec => []DecoderAtRelay
  <1>1. TypeOK /\ PromptInv /\ RelayInv => DecoderAtRelay
    BY DEF RelayInv, MoveInv, Following, Moving, DecoderAtRelay, MoveInProgress
  <1>2. TypeOK /\ PromptInv /\ RelayInv /\ [Next]_vars => RelayInv'
    BY RelayStep
  <1> QED
    BY <1>1, <1>2, RelayInit, PromptInit, PromptStep, Typing, PTL DEF Spec
-----------------------------------------------------------------------------
(* What is published as the relay's was sent by the relay.                    *)

\* The addresses the relay can be at: validateBaseAddress accepts them, or the
\* factory set the relay to it.
Usable == {b \in Requested : ValidBase(b)} \union {FactoryBase}

\* A status message of one address is never an info message of another, nor its
\* info a switch state: what overlapping spans can make of a relay that moves.
MovesApart == \A a, b \in Usable : b # a + 1 /\ b # a - 2

\* Nobody else transmits where the relay may.
NobodyThere == \A f \in OtherFrames, b \in Usable, k \in Periodic : f.id # b + Offset[k]

InUse == base \in Usable /\ \A c \in Calls : previous[c] \in Usable

SentFrom(f, b) == f.id = b + Offset[f.kind]

\* A frame from where the relay was before move c, still ahead of the answer to c.
Ahead(i, c) == /\ Moving(c) /\ ~ Still(c) /\ SentFrom(toNode[i], previous[c])
               /\ \E j \in DOMAIN toNode : j > i /\ Answering(j) /\ toNode[j].call = c

OfRelay(i) == /\ toNode[i].from = "relay" /\ toNode[i].kind \in Periodic
              /\ SentFrom(toNode[i], relayBase) \/ \E c \in Calls : Ahead(i, c)

AirInv == \A i \in DOMAIN toNode : Answering(i) \/ toNode[i] \in OtherFrames \/ OfRelay(i)

TelemetryInv == InUse /\ AirInv /\ TelemetryIsTheRelays

\* Nodes and callers use usable addresses only.
LEMMA UseStep ==
  ASSUME TypeOK, InUse, [Next]_vars
  PROVE  InUse'
  <1>1. CASE Receive \/ RelayActs \/ RelayTransmits \/ OtherDeviceTransmits \/ UNCHANGED vars
    <2>1. UNCHANGED <<base, previous>>
      BY <1>1, BusOnly DEF Receive, vars, decoderVars, callVars
    <2> QED
      BY <2>1 DEF InUse
  <1>2. ASSUME NEW c \in Calls, Invoke(c) PROVE InUse'
    <2>1. base' = base /\ previous' = [previous EXCEPT ![c] = base]
      BY <1>2 DEF Invoke, decoderVars
    <2> QED
      BY <2>1 DEF InUse, TypeOK
  <1>3. ASSUME NEW c \in Calls, Send(c) PROVE InUse'
    <2>1. previous' = previous /\ op[c] \in Ops
      BY <1>3 DEF Send, TypeOK
    <2>2. base' = base \/ (IsMove(c) /\ Sendable(op[c]) /\ base' = op[c].to)
      BY <1>3 DEF Send, Retune
    <2>3. IsMove(c) /\ Sendable(op[c]) => op[c].to \in Usable
      BY <2>1 DEF Ops, Setting, BadSetting, Kill, Move, IsMove, Sendable, Usable
    <2> QED
      BY <2>1, <2>2, <2>3 DEF InUse
  <1>4. ASSUME NEW c \in Calls, SettleBase(c) PROVE InUse'
    <2>1. previous' = previous /\ base' \in {base, previous[c]}
      BY <1>4 DEF SettleBase
    <2> QED
      BY <2>1 DEF InUse
  <1>5. ASSUME NEW c \in Calls,
               InvokeKill(c) \/ AcquireCommand(c) \/ Abandon(c) \/ WaitAnswered(c)
               \/ WaitTimesOut(c) \/ ReleaseCommand(c)
        PROVE  InUse'
    <2>1. UNCHANGED <<base, previous>>
      BY <1>5 DEF InvokeKill, AcquireCommand, Abandon, WaitAnswered, WaitTimesOut, ReleaseCommand,
                  decoderVars
    <2> QED
      BY <2>1 DEF InUse
  <1> QED
    BY <1>1, <1>2, <1>3, <1>4, <1>5 DEF Next, CallStep

\* The call whose answer is on its way goes on waiting for it.
LEMMA StillAhead ==
  ASSUME TypeOK, PromptInv, Prompt, NEW c \in Calls, NEW j \in DOMAIN toNode,
         Answering(j), toNode[j].call = c, NEW d \in Calls, CallStep(d)
  PROVE  /\ pc[c] = "wait" /\ pc'[c] = pc[c] /\ op'[c] = op[c] /\ previous'[c] = previous[c]
         /\ toNode' = toNode /\ relayBase' = relayBase
  <1>1. pc[c] = "wait"
    BY DEF PromptInv, OnlyForWaiting
  <1>2. response = NoAnswer /\ ~ Settled(c)
    BY DEF PromptInv, AnswerTaken, Settled, Answering
  <1>3. toNode' = toNode /\ relayBase' = relayBase
    BY DEF CallStep, Invoke, InvokeKill, AcquireCommand, Send, Abandon, WaitAnswered, WaitTimesOut,
           ReleaseCommand, SettleBase, busVars
  <1>4. d # c
    BY <1>1, <1>2 DEF CallStep, Invoke, InvokeKill, AcquireCommand, Send, Abandon, WaitAnswered,
           WaitTimesOut, ReleaseCommand, SettleBase, Answered
  <1>5. pc'[c] = pc[c] /\ op'[c] = op[c] /\ previous'[c] = previous[c]
    BY <1>4 DEF CallStep, Invoke, InvokeKill, AcquireCommand, Send, Abandon, WaitAnswered,
           WaitTimesOut, ReleaseCommand, SettleBase, TypeOK, busVars
  <1> QED
    BY <1>1, <1>3, <1>5

\* A service thread's step leaves what is on its way to the node as it is.
LEMMA AirStepOfCall ==
  ASSUME TypeOK, PromptInv, AirInv, Prompt, NEW d \in Calls, CallStep(d)
  PROVE  AirInv'
  <1>1. toNode' = toNode /\ relayBase' = relayBase
    BY DEF CallStep, Invoke, InvokeKill, AcquireCommand, Send, Abandon, WaitAnswered, WaitTimesOut,
           ReleaseCommand, SettleBase, busVars
  <1>2. ASSUME NEW i \in DOMAIN toNode, NEW c \in Calls, Ahead(i, c)
        PROVE  Ahead(i, c)'
    <2>1. PICK j \in DOMAIN toNode : j > i /\ Answering(j) /\ toNode[j].call = c
      BY <1>2 DEF Ahead
    <2>2. /\ pc'[c] = pc[c] /\ op'[c] = op[c] /\ previous'[c] = previous[c]
      BY <2>1, StillAhead
    <2>3. Moving(c)' /\ ~ Still(c)' /\ SentFrom(toNode[i], previous[c])'
      BY <1>1, <1>2, <2>2 DEF Ahead, Moving, Still, IsMove, SentFrom
    <2>4. \E k \in DOMAIN toNode' : k > i /\ Answering(k)' /\ toNode'[k].call = c
      BY <1>1, <2>1 DEF Answering
    <2> QED
      BY <2>3, <2>4 DEF Ahead
  <1>3. ASSUME NEW i \in DOMAIN toNode, OfRelay(i) PROVE OfRelay(i)'
    BY <1>1, <1>2, <1>3 DEF OfRelay, SentFrom
  <1> QED
    BY <1>1, <1>3 DEF AirInv, Answering

\* A frame joins those on their way; the relay is where it was.
LEMMA AirAppended ==
  ASSUME TypeOK, AirInv, UNCHANGED <<pc, op, previous, relayBase>>, NEW f \in Frames,
         toNode' = Append(toNode, f),
         \/ f.kind = "response" \/ f \in OtherFrames
         \/ f.from = "relay" /\ f.kind \in Periodic /\ SentFrom(f, relayBase)
  PROVE  AirInv'
  <1>1. toNode \in Seq(Frames)
    BY DEF TypeOK
  <1>2. \A i \in DOMAIN toNode : i \in DOMAIN toNode' /\ toNode'[i] = toNode[i]
    BY <1>1
  <1>3. ASSUME NEW i \in DOMAIN toNode, OfRelay(i) PROVE OfRelay(i)'
    <2>1. ASSUME NEW c \in Calls, Ahead(i, c) PROVE Ahead(i, c)'
      <3>1. Moving(c)' /\ ~ Still(c)' /\ SentFrom(toNode'[i], previous'[c])
        BY <1>2, <2>1 DEF Ahead, Moving, Still, IsMove, SentFrom
      <3>2. \E j \in DOMAIN toNode' : j > i /\ Answering(j)' /\ toNode'[j].call = c
        BY <1>2, <2>1 DEF Ahead, Answering
      <3> QED
        BY <3>1, <3>2 DEF Ahead
    <2> QED
      BY <1>2, <1>3, <2>1 DEF OfRelay, SentFrom
  <1>4. ASSUME NEW i \in DOMAIN toNode' PROVE (Answering(i) \/ toNode[i] \in OtherFrames \/ OfRelay(i))'
    <2>1. CASE i \in DOMAIN toNode
      BY <1>2, <1>3, <2>1 DEF AirInv, Answering
    <2>2. CASE i \notin DOMAIN toNode
      <3>1. toNode'[i] = f
        BY <1>1, <2>2, InAppend
      <3> QED
        BY <3>1 DEF Answering, OfRelay, SentFrom
    <2> QED
      BY <2>1, <2>2
  <1> QED
    BY <1>4 DEF AirInv

\* The relay answers from where it is, or goes where it was told to: what it
\* sent before is ahead of the answer.
LEMMA AirStepOfRelay ==
  ASSUME TypeOK, PromptInv, RelayInv, AirInv, RelayActs
  PROVE  AirInv'
  <1> DEFINE m == Head(toRelay)
  <1>1. toRelay # << >> /\ UNCHANGED <<pc, op, previous, base, watch>>
    BY DEF RelayActs, RelayIgnores, RelayRejects, RelayAccepts, callVars, decoderVars
  <1>2. /\ 1 \in DOMAIN toRelay /\ m = toRelay[1] /\ m.call \in Calls
        /\ m.kind = op[m.call].kind
        /\ m.kind # "canKill" => m.to = op[m.call].to /\ pc[m.call] = "wait"
    BY <1>1, InTail, CommandsInFlight DEF TypeOK, RelayInv, CommandInv, Asked
  <1>3. \A at \in Int, code \in Verdicts :
          /\ Response(m.call, at, code) \in Frames
          /\ Response(m.call, at, code).kind = "response"
          /\ Response(m.call, at, code).call = m.call
    BY <1>2 DEF Response, Frames
  <1>4. CASE RelayIgnores
    <2>1. UNCHANGED <<pc, op, previous, toNode, relayBase>>
      BY <1>4 DEF RelayIgnores, callVars
    <2> QED
      BY <2>1 DEF AirInv, Answering, OfRelay, Ahead, Moving, IsMove, Still, SentFrom
  <1>5. CASE RelayRejects
    <2>1. PICK code \in Codes : toNode' = Append(toNode, Response(m.call, relayBase, code))
      BY <1>5 DEF RelayRejects
    <2>2. relayBase' = relayBase /\ relayBase \in Int /\ code \in Verdicts
      BY <1>5 DEF RelayRejects, TypeOK, Verdicts
    <2> HIDE DEF m
    <2> DEFINE f == Response(m.call, relayBase, code)
    <2>3. f \in Frames /\ f.kind = "response"
      BY <1>3, <2>2
    <2> HIDE DEF f
    <2> QED
      BY <1>1, <2>1, <2>2, <2>3, AirAppended DEF f
  <1>6. CASE RelayAccepts
    <2> DEFINE moved == IF m.kind = "setBaseAddress" THEN m.to ELSE relayBase
    <2>1. PICK at \in {relayBase, moved} : toNode' = Append(toNode, Response(m.call, at, "Success"))
      BY <1>6 DEF RelayAccepts
    <2>2. relayBase' = moved /\ m.kind # "canKill"
      BY <1>6 DEF RelayAccepts
    <2>3. at \in Int /\ "Success" \in Verdicts
      <3>1. m \in Commands /\ relayBase \in Int
        BY <1>2 DEF TypeOK
      <3> QED
        BY <3>1 DEF Commands, Verdicts
    <2> HIDE DEF m
    <2> DEFINE f == Response(m.call, at, "Success")
    <2>4. f \in Frames /\ f.kind = "response" /\ f.call = m.call
      BY <1>3, <2>3
    <2> HIDE DEF f
    <2>5. toNode' = Append(toNode, f)
      BY <2>1 DEF f
    <2>6. CASE m.kind # "setBaseAddress"
      BY <1>1, <2>2, <2>4, <2>5, <2>6, AirAppended
    <2>7. CASE m.kind = "setBaseAddress"
      <3>0. PICK c \in Calls : c = m.call
        BY <1>2
      <3>1. c \in Calls /\ Moving(c) /\ IsMove(c) /\ pc[c] = "wait"
        BY <1>2, <2>2, <2>7, <3>0 DEF Moving, IsMove
      <3>2. Waiting(c) /\ Asked(1) /\ MoveInv
        BY <1>2, <2>7, <3>0, <3>1 DEF RelayInv, AnswerInv, AnswerOf, Asked, IsMove
      <3>3. \A j \in DOMAIN toNode : ~ Answering(j)
        BY <1>2, <3>2 DEF PromptInv, OnlyOnce
      <3>4. Sendable(op[c]) /\ verdict[c] = "none"
        <4>1. response = NoAnswer /\ ~ QuietBus
          BY <1>2, <3>2 DEF PromptInv, AnswerTaken, QuietBus
        <4> QED
          BY <3>2, <3>3, <4>1 DEF Waiting, Undecided, Ignored, Taken, OnItsWay
      <3>5. ~ Still(c) /\ previous[c] = relayBase
        BY <3>1, <3>2, <3>4 DEF Still, MoveInv, Following
      <3>6. toNode \in Seq(Frames)
        BY DEF TypeOK
      <3>7. ASSUME NEW i \in DOMAIN toNode' PROVE (Answering(i) \/ toNode[i] \in OtherFrames \/ OfRelay(i))'
        <4>1. CASE i \notin DOMAIN toNode
          BY <2>4, <2>5, <3>6, <4>1, InAppend DEF Answering
        <4>2. CASE i \in DOMAIN toNode
          <5>1. toNode'[i] = toNode[i] /\ i < Len(toNode) + 1
            BY <2>5, <3>6, <4>2
          <5>2. CASE Answering(i) \/ toNode[i] \in OtherFrames
            BY <5>1, <5>2 DEF Answering
          <5>3. CASE OfRelay(i)
            <6>1. SentFrom(toNode[i], previous[c])
              BY <3>3, <3>5, <5>3 DEF OfRelay, Ahead
            <6>2. /\ Len(toNode) + 1 \in DOMAIN toNode' /\ toNode'[Len(toNode) + 1] = f
              BY <2>5, <3>6
            <6>3. Ahead(i, c)'
              <7>1. Moving(c)' /\ ~ Still(c)' /\ SentFrom(toNode'[i], previous'[c])
                BY <1>1, <3>1, <3>5, <5>1, <6>1 DEF Moving, Still, IsMove, SentFrom
              <7>2. \E j \in DOMAIN toNode' : j > i /\ Answering(j)' /\ toNode'[j].call = c
                BY <2>4, <3>0, <3>6, <4>2, <5>1, <6>2 DEF Answering
              <7> QED
                BY <7>1, <7>2 DEF Ahead
            <6> QED
              BY <3>1, <5>1, <5>3, <6>3 DEF OfRelay
          <5> QED
            BY <4>2, <5>2, <5>3 DEF AirInv
        <4> QED
          BY <4>1, <4>2
      <3> QED
        BY <3>7 DEF AirInv
    <2> QED
      BY <2>6, <2>7
  <1> QED
    BY <1>4, <1>5, <1>6 DEF RelayActs

LEMMA AirStepOfReceive ==
  ASSUME TypeOK, AirInv, Receive
  PROVE  AirInv'
  <1>1. /\ toNode # << >> /\ toNode' = Tail(toNode) /\ toNode \in Seq(Frames)
        /\ UNCHANGED <<pc, op, previous, relayBase>>
    BY DEF Receive, TypeOK, callVars
  <1>2. \A i \in DOMAIN toNode' : i + 1 \in DOMAIN toNode /\ toNode'[i] = toNode[i + 1]
    BY <1>1, InTail
  <1>3. ASSUME NEW i \in DOMAIN toNode', NEW c \in Calls, Ahead(i + 1, c) PROVE Ahead(i, c)'
    <2>1. Moving(c)' /\ ~ Still(c)' /\ SentFrom(toNode'[i], previous'[c])
      BY <1>1, <1>2, <1>3 DEF Ahead, Moving, Still, IsMove, SentFrom
    <2>2. PICK j \in DOMAIN toNode : j > i + 1 /\ Answering(j) /\ toNode[j].call = c
      BY <1>3 DEF Ahead
    <2>3. j - 1 \in DOMAIN toNode' /\ toNode'[j - 1] = toNode[j] /\ j - 1 > i
      BY <1>1, <2>2
    <2>4. \E k \in DOMAIN toNode' : k > i /\ Answering(k)' /\ toNode'[k].call = c
      BY <2>2, <2>3 DEF Answering
    <2> QED
      BY <2>1, <2>4 DEF Ahead
  <1>4. ASSUME NEW i \in DOMAIN toNode', OfRelay(i + 1) PROVE OfRelay(i)'
    BY <1>1, <1>2, <1>3, <1>4 DEF OfRelay, SentFrom
  <1> QED
    BY <1>2, <1>4 DEF AirInv, Answering

\* What the relay transmits comes from where it is.
LEMMA AirStepOfBus ==
  ASSUME TypeOK, AirInv, RelayTransmits \/ OtherDeviceTransmits
  PROVE  AirInv'
  <1>1. UNCHANGED <<pc, op, previous, relayBase>>
    BY DEF RelayTransmits, OtherDeviceTransmits, callVars
  <1>2. CASE RelayTransmits
    <2>1. PICK k \in Periodic : toNode' = Append(toNode, Telemetry(k, relayBase))
      BY <1>2 DEF RelayTransmits
    <2> DEFINE f == Telemetry(k, relayBase)
    <2>2. /\ f \in Frames /\ f.from = "relay" /\ f.kind \in Periodic /\ SentFrom(f, relayBase)
      <3>1. relayBase + Offset[k] \in Int /\ k # "response"
        BY DEF Periodic, Offset, TypeOK
      <3> QED
        BY <3>1 DEF Telemetry, Frames, SentFrom, Verdicts
    <2> HIDE DEF f
    <2> QED
      BY <1>1, <2>1, <2>2, AirAppended DEF f
  <1>3. CASE OtherDeviceTransmits
    BY <1>1, <1>3, OtherFramesAssumption, AirAppended DEF OtherDeviceTransmits
  <1> QED
    BY <1>2, <1>3

LEMMA AirStep ==
  ASSUME TypeOK, PromptInv, RelayInv, AirInv, Prompt, [Next]_vars
  PROVE  AirInv'
  <1>1. CASE UNCHANGED vars
    <2>1. UNCHANGED <<pc, op, previous, toNode, relayBase>>
      BY <1>1 DEF vars, callVars, busVars
    <2> QED
      BY <2>1 DEF AirInv, Answering, OfRelay, Ahead, Moving, IsMove, Still, SentFrom
  <1> QED
    BY <1>1, AirStepOfCall, AirStepOfRelay, AirStepOfReceive, AirStepOfBus DEF Next

\* An answer on the bus is at an identifier where the node takes it for one.
LEMMA AnswerIsHeard ==
  ASSUME TypeOK, PromptInv, RelayInv, NEW i \in DOMAIN toNode, Answering(i)
  PROVE  HeardAsResponse(toNode[i])
  <1> DEFINE c == toNode[i].call
  <1>1. c \in Calls /\ pc[c] = "wait" /\ op[c].kind # "canKill"
    BY DEF PromptInv, OnlyForWaiting, RelayInv, CommandInv
  <1> HIDE DEF c
  <1>2. OnItsWay(c)
    BY <1>1 DEF RelayInv, AnswerInv, AnswerOf, Waiting, Undecided, Ignored, Taken, QuietBus, PromptInv,
       OnlyOnce, AnswerTaken
  <1>3. Heard(c, toNode[i])
    BY <1>2 DEF OnItsWay, PromptInv, OnlyOnce
  <1>4. toNode[i].id \in {base, watch}
    BY <1>1, <1>3, ListensToRelay DEF Heard, RelayInv
  <1> QED
    BY <1>4 DEF HeardAsResponse, IsResponse, Answering

\* A frame of the relay, from where it is or was before the move under way, is
\* taken for the message that it is or not at all.
LEMMA HeardRightly ==
  ASSUME TypeOK, PromptInv, RelayInv, TelemetryInv, MovesApart, NobodyThere,
         NEW i \in DOMAIN toNode, ~ HeardAsResponse(toNode[i]),
         NEW k \in Periodic, HeardAs(toNode[i], k)
  PROVE  Provenance(toNode[i], k) = "relay"
  <1> DEFINE f == toNode[i]
  <1>1. /\ f \in Frames /\ ~ IsResponse(f) /\ ~ (f.id = watch /\ f.id # base)
        /\ f.id = base + Offset[k] /\ LongEnough(f, k) /\ f.id \in Int
    BY AnswerIsHeard DEF HeardAs, TypeOK, Frames, IsResponse, Answering
  <1>2. base \in Usable /\ base \in Int /\ \A c \in Calls : previous[c] \in Usable /\ previous[c] \in Int
    BY DEF TelemetryInv, InUse, TypeOK
  <1>3. f \notin OtherFrames
    BY <1>1, <1>2 DEF NobodyThere
  <1>4. OfRelay(i)
    BY <1>1, <1>3 DEF TelemetryInv, AirInv, Answering, IsResponse
  <1>5. \/ SentFrom(f, base)
        \/ \E c \in Calls : watch = previous[c] /\ SentFrom(f, previous[c])
    <2>1. \A c \in Calls : Moving(c) /\ ~ Still(c) => watch = previous[c]
      BY DEF RelayInv, MoveInv, Following
    <2>2. ASSUME SentFrom(f, relayBase)
          PROVE  SentFrom(f, base) \/ \E c \in Calls : watch = previous[c] /\ SentFrom(f, previous[c])
      <3>1. CASE relayBase = base
        BY <2>2, <3>1
      <3>2. CASE relayBase # base
        <4>1. PICK c \in Calls : Moving(c) /\ ~ Still(c)
          BY <3>2 DEF RelayInv, MoveInv, Following
        <4>2. relayBase = previous[c] /\ watch = previous[c]
          BY <3>2, <4>1 DEF RelayInv, MoveInv, Following
        <4> QED
          BY <2>2, <4>2
      <3> QED
        BY <3>1, <3>2
    <2> QED
      BY <1>4, <2>1, <2>2 DEF OfRelay, Ahead
  <1>6. f.kind \in Periodic /\ f.from = "relay"
    BY <1>4 DEF OfRelay
  <1> HIDE DEF f
  <1>7. f.kind = k
    <2>1. CASE SentFrom(f, base)
      BY <1>1, <1>2, <1>6, <2>1 DEF SentFrom, Periodic, Offset
    <2>2. ASSUME NEW c \in Calls, watch = previous[c], SentFrom(f, previous[c]), previous[c] # base
          PROVE  FALSE
      <3> DEFINE p == previous[c]
      <3>1. /\ p \in Int /\ f.id = p + Offset[f.kind] /\ f.id = base + Offset[k] /\ p # base
            /\ base # p + 1 /\ base # p - 2 /\ ~ (f.id = p /\ f.id # base)
        BY <1>1, <1>2, <2>2 DEF SentFrom, MovesApart
      <3> HIDE DEF p
      <3>2. CASE f.kind = "status"
        BY <1>2, <3>1, <3>2 DEF Periodic, Offset
      <3>3. CASE f.kind = "info"
        BY <1>2, <3>1, <3>3 DEF Periodic, Offset
      <3>4. CASE f.kind = "switchState"
        BY <1>1, <1>2, <3>1, <3>4 DEF Periodic, Offset, LongEnough
      <3> QED
        BY <1>6, <3>2, <3>3, <3>4 DEF Periodic
    <2> QED
      BY <1>5, <2>1, <2>2
  <1> QED
    BY <1>6, <1>7 DEF Provenance, f

LEMMA TelemetryStep ==
  ASSUME TypeOK, PromptInv, RelayInv, TelemetryInv, Prompt, MovesApart, NobodyThere, [Next]_vars
  PROVE  TelemetryInv'
  <1>1. InUse' /\ AirInv'
    BY UseStep, AirStep DEF TelemetryInv
  <1>2. CASE Receive
    <2>1. toNode # << >> /\ toNode \in Seq(Frames) /\ 1 \in DOMAIN toNode /\ Head(toNode) = toNode[1]
      BY <1>2, InTail DEF Receive, TypeOK
    <2>2. snapshot' = snapshot \/ (TakeSnapshot(toNode[1]) /\ ~ HeardAsResponse(toNode[1]))
      BY <1>2, <2>1 DEF Receive
    <2>3. \A k \in Periodic : HeardAs(toNode[1], k) /\ ~ HeardAsResponse(toNode[1])
                             => Provenance(toNode[1], k) = "relay"
      BY <2>1, HeardRightly
    <2>4. ASSUME NEW k \in Periodic PROVE snapshot'[k] # "somebodyElse"
      BY <2>2, <2>3 DEF TakeSnapshot, TelemetryInv, TelemetryIsTheRelays
    <2> QED
      BY <1>1, <2>4 DEF TelemetryInv, TelemetryIsTheRelays
  <1>3. CASE ~ Receive
    <2>1. snapshot' = snapshot
      BY <1>3, BusOnly DEF Next, CallStep, Invoke, InvokeKill, AcquireCommand, Send, Abandon,
         WaitAnswered, WaitTimesOut, ReleaseCommand, SettleBase, vars, decoderVars
    <2> QED
      BY <1>1, <2>1 DEF TelemetryInv, TelemetryIsTheRelays
  <1> QED
    BY <1>2, <1>3

\* If answers are prompt, one address is changed at a time, nobody else is on
\* the relay's identifiers and no move is onto another message of the relay's
\* own, then all that is published was sent by the relay as what it is published
\* as, also by a relay that is about to move, has moved, or did not (decoder.h:90).
THEOREM TelemetryIsTrue ==
  ASSUME Prompt, OneMover, MovesApart, NobodyThere
  PROVE  Spec => []TelemetryIsTheRelays
  <1>1. Init => TelemetryInv
    BY DEF Init, DecoderInit, TelemetryInv, InUse, AirInv, Usable, TelemetryIsTheRelays
  <1>2. TypeOK /\ PromptInv /\ RelayInv /\ [Next]_vars => RelayInv'
    BY RelayStep
  <1>3. TypeOK /\ PromptInv /\ RelayInv /\ TelemetryInv /\ [Next]_vars => TelemetryInv'
    BY TelemetryStep
  <1>4. TelemetryInv => TelemetryIsTheRelays
    BY DEF TelemetryInv
  <1> QED
    BY <1>1, <1>2, <1>3, <1>4, RelayInit, PromptInit, PromptStep, Typing, PTL DEF Spec
-----------------------------------------------------------------------------
(* The refinement of RelayCommands.                                           *)

Over(c) == op[c].kind # "canKill" /\ pc[c] \in {"release", "settle", "done"}

Decision(c) == IF op[c].kind = "canKill" THEN "none" ELSE verdict[c]
Report(c)   == IF ~ Over(c) THEN "pending"
               ELSE IF ~ Sendable(op[c]) THEN "unsent" ELSE verdict[c]

\* The mapping, with what AnswerInv says of the answer of a call that is over.
LEMMA Mapping ==
  AnswerInv => /\ CommandDecided = [c \in Calls |-> Decision(c)]
               /\ CommandReported = [c \in Calls |-> Report(c)]
  <1> SUFFICES ASSUME AnswerInv
               PROVE  /\ CommandDecided = [c \in Calls |-> Decision(c)]
                      /\ CommandReported = [c \in Calls |-> Report(c)]
    OBVIOUS
  <1>1. \A c \in Calls : Over(c) => Told(c)
    BY DEF Over, AnswerInv, AnswerOf
  <1>2. ASSUME NEW c \in Calls
        PROVE  Report(c) = IF op[c].kind = "canKill" \/ pc[c] \notin {"release", "settle", "done"}
                           THEN "pending"
                           ELSE IF ~ Sendable(op[c]) THEN "unsent"
                           ELSE IF answer[c] = NoAnswer THEN "ignored" ELSE answer[c].code
    BY <1>1 DEF Report, Over, Told
  <1> QED
    BY <1>2 DEF CommandDecided, CommandReported, Decision

\* The same in the next state.
LEMMA MappingNext ==
  AnswerInv' => /\ CommandDecided' = [c \in Calls |-> Decision(c)']
                /\ CommandReported' = [c \in Calls |-> Report(c)']
  <1>1. (AnswerInv => /\ CommandDecided = [c \in Calls |-> Decision(c)]
                      /\ CommandReported = [c \in Calls |-> Report(c)])'
    BY Mapping, PTL
  <1> QED
    BY <1>1

\* Nothing was decided about a call that has not been answered, except the one that waits.
LEMMA OutstandingWaits ==
  ASSUME TypeOK, RelayInv, NEW c \in Calls
  PROVE  /\ Decision(c) # "none" /\ Report(c) = "pending" => pc[c] = "wait"
         /\ pc[c] = "wait" => Report(c) = "pending"
         /\ verdict[c] # "pending"
  <1>1. verdict[c] # "pending"
    BY CodeAssumption DEF TypeOK, Verdicts
  <1>2. pc[c] \in Places
    BY DEF TypeOK
  <1>3. ~ Over(c) /\ Decision(c) # "none" => pc[c] = "wait"
    BY <1>2 DEF Over, Decision, Places, RelayInv, AnswerInv, AnswerOf
  <1> QED
    BY <1>1, <1>3 DEF Report, Over

\* A step of one call: nothing, a report of what was decided, or a refusal.
LEMMA CallMaps ==
  ASSUME TypeOK, TypeOK', PromptInv, RelayInv, AnswerInv', NEW c \in Calls, CallStep(c)
  PROVE  [Promise!Next]_<<CommandDecided, CommandReported>>
  <1> USE DEF RelayInv
  <1>1. /\ \A d \in Calls \ {c} : pc'[d] = pc[d] /\ op'[d] = op[d]
        /\ UNCHANGED verdict
    <2>1. CASE Invoke(c) \/ InvokeKill(c) \/ AcquireCommand(c)
      BY <2>1 DEF Invoke, InvokeKill, AcquireCommand, TypeOK, busVars
    <2>2. CASE Send(c) \/ Abandon(c) \/ WaitAnswered(c)
      BY <2>2 DEF Send, Abandon, WaitAnswered, TypeOK, busVars
    <2>3. CASE WaitTimesOut(c) \/ ReleaseCommand(c) \/ SettleBase(c)
      BY <2>3 DEF WaitTimesOut, ReleaseCommand, SettleBase, TypeOK, busVars
    <2> QED
      BY <2>1, <2>2, <2>3 DEF CallStep
  <1>2. \A d \in Calls \ {c} : Decision(d)' = Decision(d) /\ Report(d)' = Report(d)
    BY <1>1 DEF Decision, Report, Over
  <1>3. CASE Decision(c)' = Decision(c) /\ Report(c)' = Report(c)
    <2>1. \A d \in Calls : Decision(d)' = Decision(d) /\ Report(d)' = Report(d)
      BY <1>2, <1>3
    <2>2. UNCHANGED <<CommandDecided, CommandReported>>
      BY <2>1, Mapping, MappingNext
    <2> QED
      BY <2>2
  <1>4. ASSUME Decision(c)' = Decision(c), Report(c) = "pending",
               Report(c)' = IF Decision(c) = "none" THEN "unsent" ELSE Decision(c)
        PROVE  Promise!Next
    <2>1. CommandDecided' = CommandDecided
      BY <1>2, <1>4, Mapping, MappingNext
    <2>2. CommandReported' = [CommandReported EXCEPT ![c] = Report(c)']
      BY <1>2, Mapping, MappingNext
    <2>3. CommandDecided[c] = Decision(c) /\ CommandReported[c] = "pending"
      BY <1>4, Mapping
    <2>4. CASE Decision(c) = "none"
      BY <1>4, <2>1, <2>2, <2>3, <2>4 DEF Promise!Next, Promise!Refuse
    <2>5. CASE Decision(c) # "none"
      BY <1>4, <2>1, <2>2, <2>3, <2>5 DEF Promise!Next, Promise!Report, Promise!Outstanding
    <2> QED
      BY <2>4, <2>5
  <1>5. CASE Invoke(c)
    <2>1. pc[c] = "idle" /\ pc'[c] = "acquire" /\ op'[c] \in Ops \ {Kill}
      BY <1>5 DEF Invoke, TypeOK
    <2>2. op[c] = Setting /\ op'[c].kind # "canKill"
      BY <2>1, OpKinds DEF CommandInv
    <2> QED
      BY <1>1, <1>3, <2>1, <2>2, OpKinds DEF Decision, Report, Over
  <1>6. CASE InvokeKill(c)
    <2>1. pc[c] = "idle" /\ op'[c] = Kill
      BY <1>6 DEF InvokeKill, TypeOK
    <2>2. op[c] = Setting /\ verdict[c] = "none"
      BY <2>1, OpKinds DEF CommandInv, AnswerInv, AnswerOf
    <2> QED
      BY <1>1, <1>3, <2>1, <2>2, OpKinds DEF Decision, Report, Over
  <1>7. CASE AcquireCommand(c) \/ Send(c)
    <2>1. pc[c] \in {"acquire", "send"} /\ pc'[c] \in {"send", "wait", "abandon"} /\ op' = op
      BY <1>7 DEF AcquireCommand, Send, TypeOK
    <2> QED
      BY <1>1, <1>3, <2>1 DEF Decision, Report, Over
  <1>8. CASE Abandon(c)
    <2>1. pc[c] = "abandon" /\ pc'[c] = "release" /\ op' = op
      BY <1>8 DEF Abandon, TypeOK
    <2>2. op[c].kind # "canKill"
      BY <2>1 DEF CommandInv
    <2>3. ~ Sendable(op[c]) /\ verdict[c] = "none"
      BY <2>1, <2>2 DEF AnswerInv, AnswerOf
    <2> QED
      BY <1>1, <1>4, <2>1, <2>2, <2>3 DEF Decision, Report, Over
  <1>9. CASE WaitAnswered(c) \/ WaitTimesOut(c)
    <2>1. pc[c] = "wait" /\ pc'[c] = "release" /\ op' = op
      BY <1>9 DEF WaitAnswered, WaitTimesOut, TypeOK
    <2>2. op[c].kind # "canKill"
      BY <2>1 DEF CommandInv
    <2>3. Sendable(op[c]) /\ Told(c)'
      BY <2>1, <2>2 DEF AnswerInv, AnswerOf, Waiting
    <2>4. verdict[c] # "none"
      <3>1. answer'[c] # NoAnswer => answer'[c].code \in Verdicts
        BY DEF TypeOK, Answers
      <3> QED
        BY <1>1, <2>1, <2>3, <3>1, CodeAssumption DEF Told, Verdicts
    <2> QED
      BY <1>1, <1>4, <2>1, <2>2, <2>3, <2>4 DEF Decision, Report, Over
  <1>10. CASE ReleaseCommand(c) \/ SettleBase(c)
    <2>1. pc[c] \in {"release", "settle"} /\ pc'[c] \in {"settle", "done"} /\ op' = op
      BY <1>10 DEF ReleaseCommand, SettleBase, TypeOK
    <2> QED
      BY <1>1, <1>3, <2>1 DEF Decision, Report, Over
  <1> QED
    BY <1>5, <1>6, <1>7, <1>8, <1>9, <1>10 DEF CallStep

\* The relay decides one command, while no other is outstanding; a kill is nobody's command.
LEMMA RelayMaps ==
  ASSUME TypeOK, PromptInv, RelayInv, AnswerInv', RelayActs
  PROVE  [Promise!Next]_<<CommandDecided, CommandReported>>
  <1> DEFINE m == Head(toRelay)
  <1> USE DEF RelayInv
  <1>1. toRelay # << >> /\ UNCHANGED <<pc, op>>
    BY DEF RelayActs, RelayIgnores, RelayRejects, RelayAccepts, callVars
  <1>2. PICK c \in Calls : /\ c = m.call /\ m.kind = op[c].kind
                           /\ IF m.kind = "canKill" THEN pc[c] = "done" ELSE Asked(1) /\ pc[c] = "wait"
                           /\ 1 \in DOMAIN toRelay
    BY <1>1, InTail, CommandsInFlight DEF TypeOK, CommandInv, Asked
  <1>3. PICK v \in Verdicts \union {"ignored"} : verdict' = [verdict EXCEPT ![c] = v]
    BY <1>2 DEF RelayActs, RelayIgnores, RelayRejects, RelayAccepts, Verdicts
  <1>4. verdict'[c] = v /\ \A d \in Calls \ {c} : verdict'[d] = verdict[d]
    BY <1>3 DEF TypeOK
  <1>5. CASE m.kind = "canKill"
    <2>1. \A d \in Calls : Decision(d)' = Decision(d) /\ Report(d)' = Report(d)
      BY <1>1, <1>2, <1>4, <1>5 DEF Decision, Report, Over
    <2>2. UNCHANGED <<CommandDecided, CommandReported>>
      BY <2>1, Mapping, MappingNext
    <2> QED
      BY <2>2
  <1>6. CASE m.kind # "canKill"
    <2>1. Decision(c) = "none"
      <3>1. Waiting(c)
        BY <1>2, <1>6 DEF AnswerInv, AnswerOf
      <3>2. response = NoAnswer /\ ~ QuietBus /\ \A j \in DOMAIN toNode : ~ Answering(j)
        BY <1>2, <1>6 DEF PromptInv, OnlyOnce, AnswerTaken, QuietBus
      <3>3. verdict[c] = "none"
        BY <3>1, <3>2 DEF Waiting, Undecided, Ignored, Taken, OnItsWay
      <3> QED
        BY <3>3 DEF Decision
    <2>2. \A d \in Calls : ~ (Decision(d) # "none" /\ Report(d) = "pending")
      <3> SUFFICES ASSUME NEW d \in Calls, Decision(d) # "none", Report(d) = "pending" PROVE FALSE
        OBVIOUS
      <3>1. pc[d] = "wait"
        BY OutstandingWaits
      <3>2. d = c
        BY <1>2, <1>6, <3>1 DEF PromptInv, WaiterInv, Mutex, Holding
      <3> QED
        BY <2>1, <3>2
    <2>3. Report(c) = "pending" /\ \A d \in Calls : Report(d)' = Report(d)
      BY <1>1, <1>2, <1>4, <1>6 DEF Report, Over
    <2>4. Decision(c)' = v /\ \A d \in Calls \ {c} : Decision(d)' = Decision(d)
      BY <1>1, <1>2, <1>4, <1>6 DEF Decision
    <2>5. CommandDecided' = [CommandDecided EXCEPT ![c] = v] /\ CommandReported' = CommandReported
      BY <2>3, <2>4, Mapping, MappingNext
    <2>6. /\ CommandDecided[c] = "none" /\ CommandReported[c] = "pending"
          /\ \A d \in Calls : ~ (CommandDecided[d] # "none" /\ CommandReported[d] = "pending")
      BY <2>1, <2>2, <2>3, Mapping
    <2>7. Promise!Decide(c)
      BY <1>3, <2>5, <2>6 DEF Promise!Decide, Promise!Outstanding
    <2> QED
      BY <2>7 DEF Promise!Next
  <1> QED
    BY <1>5, <1>6

\* Every step of the node, the relay and the bus is a step of RelayCommands or none.
LEMMA StepsMap ==
  ASSUME TypeOK, TypeOK', PromptInv, RelayInv, AnswerInv', [Next]_vars
  PROVE  [Promise!Next]_<<CommandDecided, CommandReported>>
  <1>1. CASE Receive \/ RelayTransmits \/ OtherDeviceTransmits \/ UNCHANGED vars
    <2>1. UNCHANGED <<pc, op, verdict>>
      BY <1>1 DEF Receive, RelayTransmits, OtherDeviceTransmits, vars, busVars, callVars
    <2>2. \A d \in Calls : Decision(d)' = Decision(d) /\ Report(d)' = Report(d)
      BY <2>1 DEF Decision, Report, Over
    <2>3. UNCHANGED <<CommandDecided, CommandReported>>
      BY <2>2, Mapping, MappingNext DEF RelayInv
    <2> QED
      BY <2>3
  <1> QED
    BY <1>1, CallMaps, RelayMaps DEF Next

\* If answers come inside the timeout and callers move the relay one at a time,
\* each service call returns what the relay made of its own command
\* (main.cpp:486-672), however the calls interleave.
THEOREM ReportsAreTrue ==
  ASSUME Prompt, OneMover
  PROVE  Spec => ReportsWhatHappened
  <1>1. Init => Promise!Init
    <2> SUFFICES ASSUME Init PROVE Promise!Init
      OBVIOUS
    <2>1. \A c \in Calls : pc[c] = "idle" /\ op[c] = Setting /\ verdict[c] = "none"
      BY DEF Init
    <2>2. \A c \in Calls : Decision(c) = "none" /\ Report(c) = "pending"
      BY <2>1, OpKinds DEF Decision, Report, Over
    <2>3. AnswerInv
      BY RelayInit DEF RelayInv
    <2> QED
      BY <2>2, <2>3, Mapping DEF Promise!Init
  <1>2. TypeOK /\ PromptInv /\ RelayInv /\ [Next]_vars => RelayInv'
    BY RelayStep
  <1>3. TypeOK /\ TypeOK' /\ PromptInv /\ RelayInv /\ RelayInv' /\ [Next]_vars
        => [Promise!Next]_<<CommandDecided, CommandReported>>
    BY StepsMap DEF RelayInv
  <1> QED
    BY <1>1, <1>2, <1>3, RelayInit, PromptInit, PromptStep, Typing, PTL
       DEF Spec, ReportsWhatHappened, Promise!Spec
==============================================================================
