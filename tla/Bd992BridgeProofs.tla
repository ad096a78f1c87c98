-------------------------- MODULE Bd992BridgeProofs --------------------------
(* Theorems about Bd992Bridge and the algorithm it uses: what a plan does to   *)
(* the receiver, the types, and that a command gets its own reply on every     *)
(* connection where no command was given up.                                  *)
EXTENDS Bd992Bridge, SequenceTheorems, TLAPS

\* What an output runs at after a plan is applied.
LEMMA AfterPlan ==
  ASSUME NEW actual \in Configs, NEW desired \in Wishes, NEW policy \in Policies,
         NEW after \in Applied(actual, PlanWrites(actual, desired, policy)), NEW o \in Outputs
  PROVE  LET written == Corrected(actual, desired)
                          \union (IF policy = "exclusive" THEN Unexpected(actual, desired) ELSE {})
         IN  /\ o \notin written => after[o] = actual[o]
             /\ o \in written /\ o \in DOMAIN desired =>
                  after[o] = desired[o] \/ (desired[o] = Off /\ after[o] = Unlisted)
             /\ o \in written /\ o \notin DOMAIN desired => after[o] \in {Off, Unlisted}
<1> DEFINE records == PlanWrites(actual, desired, policy)
<1>1. PICK dropped \in SUBSET {u \in DOMAIN records : records[u] = Off} :
        after = [u \in Outputs |-> IF u \in dropped THEN Unlisted
                                   ELSE IF u \in DOMAIN records THEN records[u] ELSE actual[u]]
  BY DEF Applied
<1>2. after[o] = IF o \in dropped THEN Unlisted
                 ELSE IF o \in DOMAIN records THEN records[o] ELSE actual[o]
  BY <1>1
<1>3. /\ DOMAIN records = Corrected(actual, desired)
                          \union (IF policy = "exclusive" THEN Unexpected(actual, desired) ELSE {})
      /\ o \in DOMAIN records => records[o] = IF o \in DOMAIN desired THEN desired[o] ELSE Off
  BY DEF PlanWrites
<1> HIDE DEF records
<1> QED BY <1>1, <1>2, <1>3

\* Once a plan is applied the port is as wanted, whether the receiver goes on
\* listing what it turned off or not: what is wanted runs at its rate and, under
\* the exclusive policy, nothing else runs (output_config.cpp diff and
\* plan_writes).
THEOREM PlanEnforces ==
  ASSUME NEW actual \in Configs, NEW desired \in Wishes, NEW policy \in Policies,
         NEW after \in Applied(actual, PlanWrites(actual, desired, policy))
  PROVE  AsWanted(after, desired, policy)
<1>1. ASSUME NEW o \in OnPort \cap DOMAIN desired
      PROVE  Sent(after, o) = desired[o]
  <2>1. o \in Outputs /\ desired[o] \in Rates /\ desired[o] # Unlisted
    BY OutputsAssumption, RatesAssumption DEF Wishes
  <2>2. o \notin Unexpected(actual, desired)
    BY DEF Unexpected
  <2>3. o \in Corrected(actual, desired) \/ actual[o] = desired[o]
    BY DEF Corrected
  <2> QED BY <2>1, <2>2, <2>3, AfterPlan DEF Sent
<1>2. ASSUME policy = "exclusive", NEW o \in OnPort \ DOMAIN desired
      PROVE  Sent(after, o) = Off
  <2>1. o \in Outputs /\ o \notin Corrected(actual, desired)
    BY OutputsAssumption DEF Corrected
  <2>2. o \in Unexpected(actual, desired) \/ actual[o] \in {Off, Unlisted}
    BY DEF Unexpected
  <2> QED BY <1>2, <2>1, <2>2, AfterPlan DEF Sent
<1> QED BY <1>1, <1>2 DEF AsWanted

\* A plan changes the port it is for and no other; under the additive policy it
\* changes what is wanted and nothing else (output_config.cpp plan_writes).
THEOREM PlanStaysOnPort ==
  ASSUME NEW actual \in Configs, NEW desired \in Wishes, NEW policy \in Policies, NEW o \in Outputs,
         o \notin OnPort \/ (policy = "additive" /\ o \notin DOMAIN desired),
         NEW after \in Applied(actual, PlanWrites(actual, desired, policy))
  PROVE  after[o] = actual[o]
<1>1. o \notin Corrected(actual, desired)
  BY DEF Corrected
<1>2. policy = "exclusive" => o \notin Unexpected(actual, desired)
  BY DEF Unexpected
<1> QED BY <1>1, <1>2, AfterPlan

\* A receiver is written nothing exactly when its port is as wanted and it lists
\* every output that is wanted Off: one it does not list is Missing to diff, and
\* is written at every pass (output_config.cpp:107; docs/bd992.md:176, applying a
\* file restarts the outputs).
THEOREM NothingToWrite ==
  ASSUME NEW actual \in Configs, NEW desired \in Wishes, NEW policy \in Policies
  PROVE  DOMAIN PlanWrites(actual, desired, policy) = {}
           <=> AsWanted(actual, desired, policy) /\ OffUnlisted(actual, desired) = {}
<1>1. \A o \in DOMAIN desired : desired[o] \in Rates /\ desired[o] # Unlisted
  BY RatesAssumption DEF Wishes
<1>2. DOMAIN PlanWrites(actual, desired, policy) = {}
        <=> /\ Corrected(actual, desired) = {}
            /\ policy = "exclusive" => Unexpected(actual, desired) = {}
  BY DEF PlanWrites
<1>3. Corrected(actual, desired) = {}
        <=> /\ \A o \in OnPort \cap DOMAIN desired : Sent(actual, o) = desired[o]
            /\ OffUnlisted(actual, desired) = {}
  BY <1>1 DEF Corrected, Sent, OffUnlisted
<1>4. Unexpected(actual, desired) = {}
        <=> \A o \in OnPort \ DOMAIN desired : Sent(actual, o) = Off
  BY DEF Unexpected, Sent
<1> QED BY <1>2, <1>3, <1>4 DEF AsWanted

IsReply(packet) == packet.type # "GENOUT"

Replying(mode) ==
  CASE mode = "reading"  -> {"APPFILE", "NAK"}
    [] mode = "querying" -> {"RETOPT", "NAK"}
    [] mode = "writing"  -> {"ACK", "NAK"}

OpOf(mode) ==
  CASE mode = "reading"  -> "GETAPPFILE"
    [] mode = "querying" -> "GETOPT"
    [] mode = "writing"  -> "APPFILE"

\* Between two commands nothing is on the wire that a command could take.
Quiet == outgoing = <<>> /\ \A i \in DOMAIN incoming : ~IsReply(incoming[i])

\* During one there is its command, or its reply, or the pages of its file.
Orderly(t) ==
  /\ Len(outgoing) <= 1
  /\ \A i \in DOMAIN outgoing :
       /\ outgoing[i].age = 0 /\ outgoing[i].op = OpOf(pc[t])
       /\ \A j \in DOMAIN incoming : ~IsReply(incoming[j])
  /\ \A i \in DOMAIN incoming :
       IsReply(incoming[i]) => incoming[i].age = 0 /\ incoming[i].type \in Replying(pc[t])
  /\ \A i, j \in DOMAIN incoming :
       i < j /\ IsReply(incoming[i]) /\ IsReply(incoming[j]) =>
         /\ incoming[i].type = "APPFILE" /\ incoming[i].page = 0
  /\ \A i \in DOMAIN assembler.payload : assembler.payload[i].age = 0

WireInv ==
  ~overdue => /\ holder = Nobody => Quiet
              /\ \A t \in Threads : holder = t => Orderly(t)

OwnInv == OwnReply /\ WireInv

\* One more at the end of a sequence.
LEMMA Appended ==
  ASSUME NEW S, NEW seq \in Seq(S), NEW e \in S
  PROVE  /\ Append(seq, e) \in Seq(S) /\ Append(seq, e) # <<>>
         /\ Len(Append(seq, e)) = Len(seq) + 1
         /\ DOMAIN Append(seq, e) = 1..(Len(seq) + 1) /\ DOMAIN seq = 1..Len(seq)
         /\ \A i \in DOMAIN Append(seq, e) :
              \/ i = Len(seq) + 1 /\ Append(seq, e)[i] = e
              \/ i \in DOMAIN seq /\ Append(seq, e)[i] = seq[i]
  OBVIOUS

\* Packets keep their kind as commands are sent after them, and grow older.
LEMMA OlderTyped ==
  /\ incoming \in Seq(Packets) => /\ Older(incoming) \in Seq(Packets)
                                  /\ DOMAIN Older(incoming) = DOMAIN incoming
                                  /\ \A i \in DOMAIN incoming :
                                       Older(incoming)[i].type = incoming[i].type
  /\ outgoing \in Seq(CommandsSent) => Older(outgoing) \in Seq(CommandsSent)
<1>1. ASSUME incoming \in Seq(Packets)
      PROVE  /\ Older(incoming) \in Seq(Packets)
             /\ DOMAIN Older(incoming) = DOMAIN incoming
             /\ \A i \in DOMAIN incoming : Older(incoming)[i].type = incoming[i].type
  <2>1. \A i \in 1..Len(incoming) : [incoming[i] EXCEPT !.age = @ + 1] \in Packets
    BY <1>1 DEF Packets
  <2>2. Older(incoming) = [i \in 1..Len(incoming) |-> [incoming[i] EXCEPT !.age = @ + 1]]
    BY <1>1 DEF Older
  <2>3. \A i \in 1..Len(incoming) : [incoming[i] EXCEPT !.age = @ + 1].type = incoming[i].type
    BY <1>1 DEF Packets
  <2> QED BY <1>1, <2>1, <2>2, <2>3
<1>2. ASSUME outgoing \in Seq(CommandsSent)
      PROVE  Older(outgoing) \in Seq(CommandsSent)
  <2>1. \A command \in CommandsSent : [command EXCEPT !.age = @ + 1] \in CommandsSent
    BY DEF CommandsSent
  <2>2. Older(outgoing) = [i \in 1..Len(outgoing) |-> [outgoing[i] EXCEPT !.age = @ + 1]]
    BY <1>2 DEF Older
  <2> QED BY <1>2, <2>1, <2>2
<1> QED BY <1>1, <1>2

\* A command that goes out, or fails to (control_client.cpp sendLocked).
LEMMA SendingTyped ==
  ASSUME WireOK, AssemblerOK, NEW t \in Threads,
         NEW op \in {"GETAPPFILE", "GETOPT", "APPFILE"}, NEW records \in Records,
         Sends(t, op, records) \/ FailsToSend(t)
  PROVE  WireOK' /\ AssemblerOK'
<1>1. Command(op, records) \in CommandsSent
  BY DEF Command, CommandsSent
<1>2. Empty \in [assembling : BOOLEAN, header : [tx : Nat, page : Nat, max : Nat], payload : Seq(Contents)]
      /\ Len(Empty.payload) <= MaxPages
  BY MaxPagesAssumption DEF Empty, NoHeader
<1>3. CASE Sends(t, op, records)
  <2>1. /\ Older(outgoing) \in Seq(CommandsSent) /\ Older(incoming) \in Seq(Packets)
        /\ <<>> \in Seq(Packets)
    BY OlderTyped DEF WireOK
  <2>2. link' \in {"up", "lost"} /\ incoming' \in Seq(Packets)
    BY <1>3, <2>1 DEF Sends, Opened
  <2>3. \/ outgoing' = <<Command(op, records)>> /\ link' = "up"
        \/ outgoing' = Append(Older(outgoing), Command(op, records)) /\ link' = "up"
        \/ outgoing' = <<>>
    BY <1>3 DEF Sends, WireOK
  <2>4. outgoing' \in Seq(CommandsSent) /\ (link' # "up" => outgoing' = <<>>)
    <3>1. <<Command(op, records)>> \in Seq(CommandsSent) /\ <<>> \in Seq(CommandsSent)
      BY <1>1
    <3>2. Append(Older(outgoing), Command(op, records)) \in Seq(CommandsSent)
      BY <1>1, <2>1, Appended
    <3> QED BY <2>3, <3>1, <3>2
  <2>5. assembler' = Empty /\ taken' = taken /\ (overdue' = FALSE \/ overdue' = overdue)
    BY <1>3 DEF Sends, Opened
  <2> QED BY <1>2, <2>2, <2>4, <2>5 DEF WireOK, AssemblerOK
<1>4. CASE FailsToSend(t)
  BY <1>4 DEF FailsToSend, WireOK, AssemblerOK
<1> QED BY <1>3, <1>4

\* A page fed to the assembler (transport.cpp feed).
LEMMA FedTyped ==
  ASSUME WireOK, AssemblerOK, NEW t \in Threads, Comes(t, {"APPFILE"})
  PROVE  /\ FedPage.assembler \in [assembling : BOOLEAN,
                                   header : [tx : Nat, page : Nat, max : Nat], payload : Seq(Contents)]
         /\ Len(FedPage.assembler.payload) <= MaxPages
         /\ FedPage.told = "complete" =>
              /\ Head(incoming).page = 1
              /\ FedPage.assembler.payload # <<>>
         /\ \A i \in DOMAIN FedPage.assembler.payload :
              \/ FedPage.assembler.payload[i].age = Head(incoming).age
              \/ i \in DOMAIN assembler.payload
                 /\ FedPage.assembler.payload[i].age = assembler.payload[i].age
<1> DEFINE packet  == Head(incoming)
           content == [age |-> packet.age, config |-> packet.config]
           page    == [tx |-> 0, page |-> packet.page, max |-> 1, content |-> content]
           held    == IF Continues(assembler, page) THEN assembler.payload ELSE <<>>
<1>1. packet \in Packets /\ packet.type = "APPFILE"
  BY DEF Comes, WireOK
<1>2. packet.page \in {0, 1} /\ content \in Contents
  BY <1>1 DEF Packets, Contents
<1>3. held \in Seq(Contents) /\ \A i \in DOMAIN held : i \in DOMAIN assembler.payload /\ held[i] = assembler.payload[i]
  BY DEF AssemblerOK
<1>4. /\ Append(held, content) \in Seq(Contents)
      /\ Len(Append(held, content)) = Len(held) + 1 /\ Append(held, content) # <<>>
      /\ \A i \in DOMAIN Append(held, content) :
           \/ Append(held, content)[i] = content
           \/ i \in DOMAIN held /\ Append(held, content)[i] = held[i]
  <2> HIDE DEF held, content
  <2> QED BY <1>2, <1>3, Appended
<1>5. Empty \in [assembling : BOOLEAN, header : [tx : Nat, page : Nat, max : Nat], payload : Seq(Contents)]
      /\ Len(Empty.payload) <= MaxPages /\ DOMAIN Empty.payload = {}
  BY MaxPagesAssumption DEF Empty, NoHeader
<1>6. FedPage = Feed(assembler, page)
  BY DEF FedPage
<1>7. page.page = packet.page /\ page.max = 1 /\ page.content = content
  OBVIOUS
<1>8. HeaderOf(page) \in [tx : Nat, page : Nat, max : Nat]
  BY <1>2 DEF HeaderOf
<1> DEFINE took == [assembling |-> ~(packet.page >= 1), header |-> HeaderOf(page),
                    payload |-> Append(held, content)]
<1>9. \/ FedPage.assembler = Empty /\ FedPage.told # "complete"
      \/ /\ FedPage.assembler = took /\ Len(held) < MaxPages
         /\ FedPage.told = "complete" => packet.page >= 1
  <2>1. Len(held) \in Nat
    BY <1>3
  <2>2. CASE ~Continues(assembler, page) /\ page.page # 0
    BY <1>6, <2>2 DEF Feed
  <2>3. CASE ~(~Continues(assembler, page) /\ page.page # 0) /\ Len(held) >= MaxPages
    BY <1>6, <2>3 DEF Feed
  <2>4. CASE ~(~Continues(assembler, page) /\ page.page # 0) /\ ~(Len(held) >= MaxPages)
    <3>1. FedPage = [assembler |-> took,
                     told |-> IF packet.page >= 1 THEN "complete" ELSE "incomplete"]
      BY <1>6, <2>4 DEF Feed
    <3> HIDE DEF took
    <3>2. FedPage.assembler = took
      BY <3>1
    <3>3. FedPage.told = "complete" => packet.page >= 1
      BY <3>1
    <3> QED BY <2>1, <2>4, <3>2, <3>3, MaxPagesAssumption
  <2> QED BY <2>2, <2>3, <2>4
<1>10. CASE FedPage.assembler = Empty /\ FedPage.told # "complete"
  BY <1>5, <1>10
<1>11. CASE /\ FedPage.assembler = took /\ Len(held) < MaxPages
            /\ FedPage.told = "complete" => packet.page >= 1
  <2>1. took \in [assembling : BOOLEAN, header : [tx : Nat, page : Nat, max : Nat], payload : Seq(Contents)]
    BY <1>4, <1>8
  <2>2. took.payload = Append(held, content) /\ content.age = packet.age
    OBVIOUS
  <2>3. FedPage.told = "complete" => packet.page = 1
    BY <1>2, <1>11
  <2> HIDE DEF took, held, content, page
  <2>4. Len(Append(held, content)) <= MaxPages
    BY <1>3, <1>4, <1>11, MaxPagesAssumption
  <2> QED BY <1>3, <1>4, <1>11, <2>1, <2>2, <2>3, <2>4
<1> HIDE DEF took
<1> QED BY <1>9, <1>10, <1>11

\* What plan_writes returns is on the port.
LEMMA PlanTyped ==
  ASSUME NEW actual \in Configs, NEW desired \in Wishes, NEW policy \in Policies
  PROVE  PlanWrites(actual, desired, policy) \in Records
<1> DEFINE outputs == DOMAIN PlanWrites(actual, desired, policy)
<1>1. outputs \subseteq OnPort
  BY DEF PlanWrites, Corrected, Unexpected
<1>2. \A o \in outputs : PlanWrites(actual, desired, policy)[o] \in Rates
  BY RatesAssumption DEF PlanWrites, Wishes
<1>3. PlanWrites(actual, desired, policy) = [o \in outputs |-> PlanWrites(actual, desired, policy)[o]]
  BY DEF PlanWrites
<1> HIDE DEF outputs
<1>4. PlanWrites(actual, desired, policy) \in [outputs -> Rates]
  BY <1>2, <1>3
<1> QED BY <1>1, <1>4 DEF Records

\* No records are records too, and the only ones without an output.
LEMMA NoRecordsTyped ==
  /\ NoRecords \in Records
  /\ \A records \in Records : records = NoRecords <=> DOMAIN records = {}
<1>1. NoRecords \in [{} -> Rates] /\ {} \in SUBSET OnPort
  BY DEF NoRecords
<1>2. ASSUME NEW records \in Records, DOMAIN records = {}
      PROVE  records = NoRecords
  BY <1>2 DEF Records, NoRecords
<1>3. DOMAIN NoRecords = {}
  BY DEF NoRecords
<1> QED BY <1>1, <1>2, <1>3 DEF Records

\* The passes the main loop and the services begin (services.cpp).
LEMMA PassTyped ==
  ASSUME NEW desired \in Wishes, NEW policy \in Policies, NEW dryRun \in BOOLEAN
  PROVE  Pass(desired, policy, dryRun) \in Passes /\ OwnPass(dryRun) \in Passes
  BY DesiredAssumption, ModeAssumption DEF Pass, OwnPass, Passes

\* The packet at the head of the stream, and the file its last page completes.
LEMMA HeadTyped ==
  ASSUME WireOK, AssemblerOK, NEW t \in Threads, NEW types, Comes(t, types)
  PROVE  /\ Head(incoming) \in Packets /\ Head(incoming).age \in Nat
         /\ Tail(incoming) \in Seq(Packets)
         /\ holder = t
<1>1. incoming \in Seq(Packets) /\ incoming # <<>>
  BY DEF Comes, WireOK
<1>2. Head(incoming) \in Packets /\ Tail(incoming) \in Seq(Packets)
  BY <1>1
<1> QED BY <1>2 DEF Comes, Packets

\* The replies a completed file is made of, and what it says.
LEMMA FileTyped ==
  ASSUME WireOK, AssemblerOK, NEW t \in Threads, Completes(t)
  PROVE  FileRead \in Configs /\ PagesOf \subseteq Nat
<1>1. /\ FedPage.assembler.payload \in Seq(Contents) /\ FedPage.assembler.payload # <<>>
  BY FedTyped DEF Completes
<1> DEFINE payload == FedPage.assembler.payload
<1>2. Head(payload) \in Contents /\ \A i \in DOMAIN payload : payload[i] \in Contents
  BY <1>1
<1>3. \A content \in Contents : content.age \in Nat /\ content.config \in Configs
  BY DEF Contents
<1> HIDE DEF payload
<1>4. FileRead = Head(payload).config /\ PagesOf = {payload[i].age : i \in DOMAIN payload}
  BY DEF FileRead, PagesOf, payload
<1> QED BY <1>2, <1>3, <1>4

\* What a thread does with what comes keeps the types of the connection.
LEMMA ReadingTyped ==
  ASSUME WireOK, AssemblerOK, NEW t \in Threads, NEW types,
         \/ Skips(t, types) \/ Ends(t, types) \/ TakesPage(t) \/ EndsFile(t)
         \/ TimesOut(t) \/ SeesLoss(t)
  PROVE  WireOK' /\ AssemblerOK'
<1>1. CASE Skips(t, types)
  BY <1>1, HeadTyped DEF Skips, Takes, WireOK, AssemblerOK
<1>2. CASE Ends(t, types)
  <2>1. /\ Tail(incoming) \in Seq(Packets) /\ {Head(incoming).age} \in SUBSET Nat
    BY <1>2, HeadTyped DEF Ends
  <2>2. taken' \in [answers : SUBSET Nat, late : BOOLEAN]
    BY <1>2, <2>1 DEF Ends, EndsWith, AssemblerOK
  <2> QED BY <1>2, <2>1, <2>2 DEF Ends, Takes, EndsWith, WireOK, AssemblerOK
<1>3. CASE TakesPage(t)
  BY <1>3, HeadTyped, FedTyped DEF TakesPage, Takes, WireOK, AssemblerOK
<1>4. CASE EndsFile(t)
  <2>1. Tail(incoming) \in Seq(Packets)
    BY <1>4, HeadTyped DEF EndsFile, Completes
  <2>2. taken' \in [answers : SUBSET Nat, late : BOOLEAN]
    BY <1>4, FileTyped DEF EndsFile, EndsWith, AssemblerOK
  <2>3. assembler' = FedPage.assembler /\ Comes(t, {"APPFILE"})
    BY <1>4 DEF EndsFile, Completes
  <2> QED BY <1>4, <2>1, <2>2, <2>3, FedTyped DEF EndsFile, Takes, WireOK, AssemblerOK
<1>5. CASE TimesOut(t)
  BY <1>5 DEF TimesOut, wireVars, WireOK, AssemblerOK
<1>6. CASE SeesLoss(t)
  BY <1>6 DEF SeesLoss, WireOK, AssemblerOK
<1> QED BY <1>1, <1>2, <1>3, <1>4, <1>5, <1>6

\* What the receiver sends.
LEMMA RepliesTyped ==
  ASSUME WireOK, config \in Configs, outgoing # <<>>
  PROVE  /\ Head(outgoing) \in CommandsSent /\ Tail(outgoing) \in Seq(CommandsSent)
         /\ ReplyTo(Head(outgoing)) \in Seq(Packets)
         /\ <<Packet("NAK", Head(outgoing))>> \in Seq(Packets)
<1>1. Head(outgoing) \in CommandsSent /\ Tail(outgoing) \in Seq(CommandsSent)
  BY DEF WireOK
<1>2. /\ Head(outgoing).age \in Nat
      /\ Head(outgoing).op \in {"GETAPPFILE", "GETOPT", "APPFILE"}
  BY <1>1 DEF CommandsSent
<1>3. \A type \in {"NAK", "ACK", "RETOPT"} : Packet(type, Head(outgoing)) \in Packets
  BY <1>2 DEF Packet, Packets
<1>4. \A page \in {0, 1} : Page(page, Head(outgoing)) \in Packets
  BY <1>2 DEF Page, Packets
<1>5. /\ <<Page(0, Head(outgoing)), Page(1, Head(outgoing))>> \in Seq(Packets)
      /\ \A type \in {"NAK", "ACK", "RETOPT"} : <<Packet(type, Head(outgoing))>> \in Seq(Packets)
  BY <1>3, <1>4
<1> QED BY <1>1, <1>2, <1>5 DEF ReplyTo

\* A receiver that applies a file still has a rate for every output.
LEMMA AppliedTyped ==
  ASSUME NEW actual \in Configs, NEW records \in Records, NEW after \in Applied(actual, records)
  PROVE  after \in Configs
<1>1. PICK dropped :
        after = [o \in Outputs |-> IF o \in dropped THEN Unlisted
                                   ELSE IF o \in DOMAIN records THEN records[o] ELSE actual[o]]
  BY DEF Applied
<1>2. \A o \in DOMAIN records : records[o] \in Rates
  BY DEF Records
<1>3. \A o \in Outputs : actual[o] \in Rates \union {Unlisted}
  BY DEF Configs
<1> QED BY <1>1, <1>2, <1>3 DEF Configs

\* A step of a thread that leaves mMutex as it is.
LEMMA Stays ==
  ASSUME ThreadsOK, NEW t \in Threads, holder' = holder, pass' \in [Threads -> Passes],
         NEW place, Goes(t, place), ~InExchange(t), UNCHANGED plan,
         plan[t] = NoRecords, place \in {"idle", "to read", "to query"}
  PROVE  ThreadsOK'
  BY DEF ThreadsOK, InExchange, Goes

\* The end of a pass, of its exchange if it is in one.
LEMMA Ended ==
  ASSUME ThreadsOK, NEW t \in Threads, IsDone(t), UNCHANGED pass,
         \/ holder = t /\ holder' = Nobody
         \/ ~InExchange(t) /\ UNCHANGED holder
  PROVE  ThreadsOK'
  BY NobodyAssumption, NoRecordsTyped DEF ThreadsOK, InExchange, IsDone, Goes

\* What disturbs is counted up to the bound.
LEMMA Counted ==
  ASSUME trouble \in 0..MaxTrouble, Disturbs
  PROVE  trouble' \in 0..MaxTrouble
  BY TroubleAssumption DEF Disturbs

\* A command that goes out or cannot.
LEMMA CommandsTyped ==
  ASSUME TypeOK, NEW t \in Threads,
         NEW from \in {"to read", "to query", "to write"},
         NEW op \in {"GETAPPFILE", "GETOPT", "APPFILE"}, NEW records \in Records,
         NEW to \in {"reading", "querying", "writing"},
         from = "to write" <=> to = "writing",
         Commands(t, from, op, records, to)
  PROVE  TypeOK'
<1> USE DEF TypeOK
<1>1. WireOK' /\ AssemblerOK' /\ UNCHANGED <<config, pass>> /\ pc[t] = from
  BY SendingTyped DEF Commands
<1>2. CASE Sends(t, op, records) /\ Goes(t, to) /\ UNCHANGED <<plan, trouble>>
  <2>1. holder = Nobody /\ holder' = t
    BY <1>2 DEF Sends
  <2>2. ThreadsOK'
    BY <1>1, <1>2, <2>1, NobodyAssumption DEF ThreadsOK, InExchange, Goes
  <2> QED BY <1>1, <1>2, <2>2
<1>3. CASE FailsToSend(t) /\ IsDone(t) /\ Disturbs
  <2>1. UNCHANGED holder /\ ~InExchange(t)
    BY <1>1, <1>3 DEF FailsToSend, InExchange
  <2>2. ThreadsOK'
    BY <1>1, <1>3, <2>1, Ended
  <2>3. trouble' \in 0..MaxTrouble
    BY <1>3, Counted
  <2> QED BY <1>1, <2>2, <2>3
<1> QED BY <1>2, <1>3 DEF Commands

\* A thread's step.
LEMMA ThreadTyped ==
  ASSUME TypeOK, NEW t \in Threads, Thread(t)
  PROVE  TypeOK'
<1> USE DEF TypeOK
<1>1. plan[t] \in Records
  BY DEF ThreadsOK
<1>2. CASE SendsRead(t)
  BY <1>2, CommandsTyped, NoRecordsTyped DEF SendsRead
<1>3. CASE SendsQuery(t)
  BY <1>3, CommandsTyped, NoRecordsTyped DEF SendsQuery
<1>4. CASE SendsWrite(t)
  BY <1>1, <1>4, CommandsTyped DEF SendsWrite
<1>5. CASE SkipsOther(t)
  <2>1. WireOK' /\ AssemblerOK' /\ UNCHANGED <<holder, config, threadVars, trouble>>
    BY <1>5, ReadingTyped DEF SkipsOther, Skips, TakesPage
  <2> QED BY <2>1 DEF threadVars, ThreadsOK, InExchange
<1>6. CASE IsRefused(t)
  <2>1. WireOK' /\ AssemblerOK' /\ UNCHANGED <<config, pass, plan, trouble>> /\ Goes(t, "idle")
    BY <1>6, ReadingTyped DEF IsRefused
  <2>2. holder' = Nobody /\ pc[t] = "reading"
    BY <1>6 DEF IsRefused, Ends, EndsWith
  <2>3. ThreadsOK'
    BY <2>1, <2>2, NobodyAssumption DEF ThreadsOK, InExchange, Goes
  <2> QED BY <2>1, <2>3
<1>7. CASE ReadsFile(t)
  <2> DEFINE records == PlanWrites(FileRead, pass[t].desired, pass[t].policy)
  <2>1. WireOK' /\ AssemblerOK' /\ UNCHANGED <<config, pass, trouble>>
    BY <1>7, ReadingTyped DEF ReadsFile
  <2>2. holder' = Nobody /\ pc[t] = "reading" /\ FileRead \in Configs
    BY <1>7, FileTyped DEF ReadsFile, EndsFile, EndsWith
  <2>3. pass[t].desired \in Wishes /\ pass[t].policy \in Policies
    BY DEF ThreadsOK, Passes
  <2>4. records \in Records
    BY <2>2, <2>3, PlanTyped
  <2>5. \/ /\ DOMAIN records # {} /\ plan' = [plan EXCEPT ![t] = records] /\ Goes(t, "to write")
        \/ UNCHANGED plan /\ Goes(t, "idle")
    BY <1>7 DEF ReadsFile
  <2> HIDE DEF records
  <2>6. CASE DOMAIN records # {} /\ plan' = [plan EXCEPT ![t] = records] /\ Goes(t, "to write")
    <3>1. records # NoRecords
      BY <2>4, <2>6, NoRecordsTyped
    <3> QED BY <2>1, <2>2, <2>4, <2>6, <3>1, NobodyAssumption DEF ThreadsOK, InExchange, Goes
  <2>7. CASE UNCHANGED plan /\ Goes(t, "idle")
    BY <2>1, <2>2, <2>7, NobodyAssumption DEF ThreadsOK, InExchange, Goes
  <2> QED BY <2>1, <2>5, <2>6, <2>7
<1>8. CASE SkipsReport(t)
  <2>1. WireOK' /\ AssemblerOK' /\ UNCHANGED <<holder, config, threadVars, trouble>>
    BY <1>8, ReadingTyped DEF SkipsReport, Skips
  <2> QED BY <2>1 DEF threadVars, ThreadsOK, InExchange
<1>9. CASE GetsReply(t)
  <2>1. WireOK' /\ AssemblerOK' /\ UNCHANGED <<config, pass, trouble>> /\ IsDone(t)
    BY <1>9, ReadingTyped DEF GetsReply
  <2>2. holder = t /\ holder' = Nobody
    BY <1>9 DEF GetsReply, Ends, EndsWith, Comes
  <2> QED BY <2>1, <2>2, Ended
<1>10. CASE GivesUp(t)
  <2>1. WireOK' /\ AssemblerOK' /\ UNCHANGED <<config, pass>> /\ IsDone(t)
    BY <1>10, ReadingTyped DEF GivesUp
  <2>2. holder = t /\ holder' = Nobody
    BY <1>10 DEF GivesUp, TimesOut, SeesLoss
  <2>3. trouble' \in 0..MaxTrouble
    BY <1>10, Counted DEF GivesUp
  <2> QED BY <2>1, <2>2, <2>3, Ended
<1>11. CASE IsTooLong(t)
  <2>1. WireOK' /\ AssemblerOK' /\ UNCHANGED <<holder, config, pass, trouble>> /\ IsDone(t)
    BY <1>11 DEF IsTooLong, controlVars, wireVars, WireOK, AssemblerOK
  <2>2. ~InExchange(t)
    BY <1>11 DEF IsTooLong, InExchange
  <2> QED BY <2>1, <2>2, Ended
<1>12. CASE CannotDecode(t)
  <2>1. WireOK' /\ AssemblerOK' /\ UNCHANGED <<config, pass, plan, trouble>> /\ Goes(t, "idle")
    BY <1>12, ReadingTyped DEF CannotDecode
  <2>2. holder' = Nobody /\ pc[t] = "reading"
    BY <1>12 DEF CannotDecode, EndsFile, EndsWith
  <2>3. ThreadsOK'
    BY <2>1, <2>2, NobodyAssumption DEF ThreadsOK, InExchange, Goes
  <2> QED BY <2>1, <2>3
<1> QED BY <1>2, <1>3, <1>4, <1>5, <1>6, <1>7, <1>8, <1>9, <1>10, <1>11, <1>12 DEF Thread

\* The beginning of a pass, a request or a query.
LEMMA StartsTyped ==
  ASSUME TypeOK, NEW t \in Threads, StartsPass(t) \/ StartsRequest(t) \/ StartsQuery(t)
  PROVE  TypeOK'
<1> USE DEF TypeOK
<1>1. /\ pc[t] = "idle" /\ UNCHANGED <<controlVars, config, plan>>
      /\ Goes(t, "to read") \/ Goes(t, "to query")
  BY DEF StartsPass, StartsRequest, StartsQuery
<1>2. pass' \in [Threads -> Passes]
  <2>1. CASE StartsPass(t)
    <3>1. \E dryRun \in BOOLEAN : pass' = [pass EXCEPT ![t] = OwnPass(dryRun)]
      BY <2>1 DEF StartsPass
    <3> QED BY <3>1, PassTyped, DesiredAssumption, ModeAssumption DEF ThreadsOK
  <2>2. CASE StartsRequest(t)
    <3>1. PICK desired \in Wishes, policy \in Policies, dryRun \in BOOLEAN :
            pass' = [pass EXCEPT ![t] = Pass(desired, policy, dryRun)]
      BY <2>2, DesiredAssumption DEF StartsRequest
    <3> QED BY <3>1, PassTyped DEF ThreadsOK
  <2>3. CASE StartsQuery(t)
    BY <2>3 DEF StartsQuery, ThreadsOK
  <2> QED BY <2>1, <2>2, <2>3
<1>3. ThreadsOK'
  BY <1>1, <1>2, Stays DEF controlVars, ThreadsOK, InExchange
<1>4. trouble' \in 0..MaxTrouble
  <2>1. UNCHANGED trouble \/ Disturbs
    BY DEF StartsPass, StartsRequest, StartsQuery
  <2> QED BY <2>1, Counted
<1> QED BY <1>1, <1>3, <1>4 DEF controlVars, wireVars, WireOK, AssemblerOK

\* The receiver's steps.
LEMMA ReceiverTyped ==
  ASSUME TypeOK, Receiver
  PROVE  TypeOK'
<1> USE DEF TypeOK
<1>1. UNCHANGED <<holder, assembler, overdue, taken, threadVars>>
  BY DEF Receiver, Answers, Refuses, Reports, Loses, Drifts, Replies, controlVars
<1>2. AssemblerOK' /\ ThreadsOK'
  BY <1>1 DEF threadVars, AssemblerOK, ThreadsOK, InExchange
<1>3. trouble' \in 0..MaxTrouble
  <2>1. UNCHANGED trouble \/ Disturbs
    BY DEF Receiver, Answers, Refuses, Reports, Loses, Drifts
  <2> QED BY <2>1, Counted
<1>4. \A packets \in Seq(Packets) : incoming \o packets \in Seq(Packets)
  BY ConcatProperties DEF WireOK
<1>5. CASE Answers
  <2>1. /\ link = "up" /\ link' = link /\ outgoing # <<>> /\ outgoing' = Tail(outgoing)
        /\ incoming' = incoming \o ReplyTo(Head(outgoing))
        /\ config' \in Applied(config, Head(outgoing).records)
    BY <1>5 DEF Answers, Replies
  <2>2. Head(outgoing).records \in Records
    BY <2>1, RepliesTyped DEF CommandsSent
  <2> QED BY <1>2, <1>3, <1>4, <2>1, <2>2, RepliesTyped, AppliedTyped DEF WireOK
<1>6. CASE Refuses
  BY <1>2, <1>3, <1>4, <1>6, RepliesTyped DEF Refuses, Replies, WireOK
<1>7. CASE Reports
  <2>1. <<[type |-> "GENOUT", age |-> 0]>> \in Seq(Packets)
    BY DEF Packets
  <2> QED BY <1>2, <1>3, <1>4, <1>7, <2>1 DEF Reports, Replies, WireOK
<1>8. CASE Loses
  BY <1>2, <1>3, <1>8 DEF Loses, WireOK
<1>9. CASE Drifts
  <2>1. config' \in Configs
    BY <1>9 DEF Drifts, Configs
  <2>2. UNCHANGED <<link, incoming, outgoing>>
    BY <1>9 DEF Drifts, controlVars, wireVars
  <2> QED BY <1>2, <1>3, <2>1, <2>2 DEF WireOK
<1> QED BY <1>5, <1>6, <1>7, <1>8, <1>9 DEF Receiver

\* mMutex is held exactly while a command is out, and what is about to be written
\* is something, on the node's port alone (control_client.cpp exchangeLocked,
\* output_config.cpp plan_writes).
THEOREM Typing == Spec => []TypeOK
<1>1. Init => TypeOK
  <2> SUFFICES ASSUME Init PROVE TypeOK
    OBVIOUS
  <2>1. WireOK /\ AssemblerOK
    <3>1. /\ link = "closed" /\ outgoing = <<>> /\ incoming = <<>> /\ assembler = Empty
          /\ overdue = FALSE /\ taken = [answers |-> {0}, late |-> FALSE]
      BY DEF Init, ControlInit
    <3>2. /\ Empty \in [assembling : BOOLEAN, header : [tx : Nat, page : Nat, max : Nat],
                       payload : Seq(Contents)]
          /\ Len(Empty.payload) <= MaxPages
      BY MaxPagesAssumption DEF Empty, NoHeader
    <3>3. [answers |-> {0}, late |-> FALSE] \in [answers : SUBSET Nat, late : BOOLEAN]
      OBVIOUS
    <3>4. WireOK
      BY <3>1 DEF WireOK
    <3>5. assembler.payload = Empty.payload /\ overdue \in BOOLEAN
      BY <3>1
    <3>6. Len(assembler.payload) <= MaxPages
      BY <3>2, <3>5
    <3>7. AssemblerOK
      BY <3>1, <3>2, <3>3, <3>5, <3>6, Zenon DEF AssemblerOK
    <3> QED BY <3>4, <3>7
  <2>2. OwnPass(FALSE) \in Passes
    BY PassTyped, DesiredAssumption, ModeAssumption
  <2>3. ThreadsOK
    BY <2>2, NobodyAssumption, NoRecordsTyped DEF Init, ControlInit, ThreadsOK, InExchange
  <2> QED BY <2>1, <2>3, TroubleAssumption DEF Init, TypeOK
<1>2. TypeOK /\ [Next]_vars => TypeOK'
  <2> SUFFICES ASSUME TypeOK, [Next]_vars PROVE TypeOK'
    OBVIOUS
  <2>1. CASE UNCHANGED vars
    BY <2>1 DEF vars, controlVars, wireVars, threadVars, TypeOK, WireOK, AssemblerOK, ThreadsOK,
       InExchange
  <2> QED BY <2>1, ThreadTyped, StartsTyped, ReceiverTyped DEF Next
<1> QED BY <1>1, <1>2, PTL DEF Spec

-----------------------------------------------------------------------------
(* A reply and its command *)

\* What is left of a sequence when its head is taken.
LEMMA Tails ==
  ASSUME NEW S, NEW seq \in Seq(S), seq # <<>>
  PROVE  /\ Head(seq) = seq[1] /\ 1 \in DOMAIN seq
         /\ \A i \in DOMAIN Tail(seq) : /\ i \in Nat \ {0} /\ i + 1 \in DOMAIN seq
                                        /\ Tail(seq)[i] = seq[i + 1]
  OBVIOUS

\* The last packet of a reply leaves nothing of it behind.
LEMMA LastTaken ==
  ASSUME TypeOK, WireInv, NEW t \in Threads, holder = t, ~overdue, incoming # <<>>,
         IsReply(Head(incoming)),
         Head(incoming).type # "APPFILE" \/ Head(incoming).page # 0
  PROVE  /\ outgoing = <<>> /\ Head(incoming).age = 0
         /\ Head(incoming).type \in Replying(pc[t])
         /\ \A i \in DOMAIN Tail(incoming) : ~IsReply(Tail(incoming)[i])
<1>1. Orderly(t)
  BY DEF WireInv
<1>2. incoming \in Seq(Packets) /\ outgoing \in Seq(CommandsSent)
  BY DEF TypeOK, WireOK
<1>3. /\ Head(incoming) = incoming[1] /\ 1 \in DOMAIN incoming
      /\ \A i \in DOMAIN Tail(incoming) : /\ i \in Nat \ {0} /\ i + 1 \in DOMAIN incoming
                                          /\ Tail(incoming)[i] = incoming[i + 1]
  BY <1>2, Tails
<1>4. outgoing # <<>> => 1 \in DOMAIN outgoing
  BY <1>2, Tails
<1>5. outgoing = <<>>
  BY <1>1, <1>3, <1>4 DEF Orderly
<1>6. Head(incoming).age = 0 /\ Head(incoming).type \in Replying(pc[t])
  BY <1>1, <1>3 DEF Orderly
<1>7. ASSUME NEW i \in DOMAIN Tail(incoming)
      PROVE  ~IsReply(Tail(incoming)[i])
  <2>1. i + 1 \in DOMAIN incoming /\ 1 < i + 1 /\ Tail(incoming)[i] = incoming[i + 1]
    BY <1>3
  <2> QED BY <1>1, <1>3, <2>1 DEF Orderly
<1> QED BY <1>5, <1>6, <1>7

\* Nobody's turn, and nothing to take: the next command gets its own reply.
LEMMA QuietIsOwn ==
  ASSUME holder' = Nobody, overdue' \/ Quiet', OwnReply'
  PROVE  OwnInv'
  BY NobodyAssumption DEF OwnInv, WireInv

\* A command sent on a quiet connection (control_client.cpp ensureConnected and
\* sendLocked).
LEMMA SendsOwn ==
  ASSUME TypeOK, OwnInv, NEW t \in Threads, NEW mode \in {"reading", "querying", "writing"},
         NEW records \in Records, Sends(t, OpOf(mode), records), pc'[t] = mode
  PROVE  OwnInv'
<1>1. /\ holder = Nobody /\ holder' = t /\ taken' = taken /\ assembler' = Empty
      /\ \A i \in DOMAIN assembler' .payload : FALSE
  BY DEF Sends, Empty
<1>2. OwnReply'
  BY <1>1 DEF OwnInv, OwnReply
<1>3. ASSUME ~overdue'
      PROVE  Orderly(t)'
  <2> DEFINE command == Command(OpOf(mode), records)
  <2>1. command.age = 0 /\ command.op = OpOf(mode)
    BY DEF Command
  <2>2. \/ link = "closed" /\ outgoing' = <<command>> /\ incoming' = <<>>
        \/ link = "up" /\ outgoing' = Append(Older(outgoing), command) /\ incoming' = Older(incoming) /\ Quiet
        \/ link = "lost" /\ outgoing' = <<>> /\ incoming' = Older(incoming) /\ Quiet
    BY <1>1, <1>3 DEF Sends, Opened, OwnInv, WireInv, TypeOK, WireOK
  <2> HIDE DEF command
  <2>3. Quiet => Older(outgoing) = <<>>
    BY DEF Quiet, Older
  <2>4. \A i \in DOMAIN <<>> : FALSE
    OBVIOUS
  <2>5. \A i \in DOMAIN incoming' : ~IsReply(incoming'[i])
    <3>1. CASE incoming' = <<>>
      BY <2>4, <3>1
    <3>2. CASE incoming' = Older(incoming) /\ Quiet
      <4>1. /\ DOMAIN Older(incoming) = DOMAIN incoming
            /\ \A i \in DOMAIN incoming : Older(incoming)[i].type = incoming[i].type
        BY OlderTyped DEF TypeOK, WireOK
      <4> QED BY <3>2, <4>1 DEF Quiet, IsReply
    <3> QED BY <2>2, <3>1, <3>2
  <2>6. outgoing' = <<command>> \/ outgoing' = <<>>
    <3>1. Append(<<>>, command) = <<command>>
      OBVIOUS
    <3> QED BY <2>2, <2>3, <3>1
  <2>7. Len(outgoing') <= 1 /\ \A i \in DOMAIN outgoing' : outgoing'[i] = command
    <3>1. Len(<<>>) = 0 /\ Len(<<command>>) = 1 /\ DOMAIN <<command>> = {1} /\ <<command>>[1] = command
      OBVIOUS
    <3>2. CASE outgoing' = <<>>
      BY <2>4, <3>1, <3>2
    <3>3. CASE outgoing' = <<command>>
      <4>1. Len(outgoing') = 1 /\ DOMAIN outgoing' = {1} /\ outgoing'[1] = command
        BY <3>1, <3>3, Zenon
      <4> QED BY <4>1
    <3> QED BY <2>6, <3>2, <3>3
  <2> QED BY <1>1, <2>1, <2>5, <2>7 DEF Orderly
<1>4. WireInv'
  BY <1>1, <1>3, NobodyAssumption DEF WireInv
<1> QED BY <1>2, <1>4 DEF OwnInv

\* A command of a thread, sent or not.
LEMMA CommandsOwn ==
  ASSUME TypeOK, OwnInv, NEW t \in Threads,
         NEW from \in {"to read", "to query", "to write"},
         NEW mode \in {"reading", "querying", "writing"},
         NEW records \in Records, Commands(t, from, OpOf(mode), records, mode)
  PROVE  OwnInv'
<1>1. CASE Sends(t, OpOf(mode), records) /\ Goes(t, mode)
  <2>1. pc'[t] = mode
    BY <1>1 DEF Goes, TypeOK, ThreadsOK
  <2> QED BY <1>1, <2>1, SendsOwn
<1>2. CASE FailsToSend(t)
  <2>1. holder' = Nobody /\ UNCHANGED <<outgoing, incoming, overdue, taken>>
    BY <1>2 DEF FailsToSend
  <2>2. holder = Nobody
    BY <1>2 DEF FailsToSend
  <2> QED BY <2>1, <2>2, QuietIsOwn DEF OwnInv, WireInv, Quiet, OwnReply
<1> QED BY <1>1, <1>2 DEF Commands

\* A packet that is passed over, or the page of a file that is not its last.
LEMMA PassesOwn ==
  ASSUME TypeOK, OwnInv, NEW t \in Threads, incoming # <<>>, holder = t,
         UNCHANGED <<holder, outgoing, overdue, taken, pc>>, incoming' = Tail(incoming),
         \/ UNCHANGED assembler
         \/ assembler' = FedPage.assembler /\ Comes(t, {"APPFILE"})
  PROVE  OwnInv'
<1>1. OwnReply'
  BY DEF OwnInv, OwnReply
<1>2. ASSUME ~overdue
      PROVE  Orderly(t)'
  <2>1. Orderly(t)
    BY <1>2 DEF OwnInv, WireInv
  <2>2. /\ Head(incoming) = incoming[1] /\ 1 \in DOMAIN incoming
        /\ \A i \in DOMAIN incoming' : /\ i \in Nat \ {0} /\ i + 1 \in DOMAIN incoming
                                       /\ incoming'[i] = incoming[i + 1]
    BY Tails DEF TypeOK, WireOK
  <2>3. \A i \in DOMAIN assembler'.payload : assembler'.payload[i].age = 0
    <3>1. CASE UNCHANGED assembler
      BY <2>1, <3>1 DEF Orderly
    <3>2. CASE assembler' = FedPage.assembler /\ Comes(t, {"APPFILE"})
      <4>1. Head(incoming).age = 0
        BY <2>1, <2>2, <3>2 DEF Orderly, Comes, IsReply
      <4> QED BY <2>1, <3>2, <4>1, FedTyped DEF Orderly, TypeOK
    <3> QED BY <3>1, <3>2
  <2>4. \A i \in DOMAIN outgoing : \A j \in DOMAIN incoming' : ~IsReply(incoming'[j])
    BY <2>1, <2>2 DEF Orderly
  <2>5. \A i, j \in DOMAIN incoming' :
          i < j /\ IsReply(incoming'[i]) /\ IsReply(incoming'[j]) =>
            /\ incoming'[i].type = "APPFILE" /\ incoming'[i].page = 0
    <3> SUFFICES ASSUME NEW i \in DOMAIN incoming', NEW j \in DOMAIN incoming', i < j,
                        IsReply(incoming'[i]), IsReply(incoming'[j])
                 PROVE  incoming'[i].type = "APPFILE" /\ incoming'[i].page = 0
      OBVIOUS
    <3>1. i + 1 < j + 1
      BY <2>2
    <3> QED BY <2>1, <2>2, <3>1 DEF Orderly
  <2>6. \A i \in DOMAIN incoming' :
          IsReply(incoming'[i]) => incoming'[i].age = 0 /\ incoming'[i].type \in Replying(pc[t])
    BY <2>1, <2>2 DEF Orderly
  <2> QED BY <2>1, <2>3, <2>4, <2>5, <2>6 DEF Orderly
<1>3. WireInv'
  BY <1>2, NobodyAssumption DEF WireInv
<1> QED BY <1>1, <1>3 DEF OwnInv

\* A packet that ends a command, and is not the page of a file.
LEMMA EndsOwn ==
  ASSUME TypeOK, OwnInv, NEW t \in Threads, NEW types, Ends(t, types), "GENOUT" \notin types,
         "APPFILE" \in types => pc[t] \in {"querying", "writing"}
  PROVE  OwnInv'
<1>1. /\ holder = t /\ incoming # <<>> /\ Head(incoming).type \in types
      /\ incoming' = Tail(incoming) /\ UNCHANGED <<outgoing, overdue>>
      /\ holder' = Nobody /\ taken' = [answers |-> {Head(incoming).age}, late |-> overdue]
  BY DEF Ends, Comes, Takes, EndsWith
<1>2. CASE overdue
  BY <1>1, <1>2, QuietIsOwn DEF OwnReply
<1>3. CASE ~overdue
  <2>1. IsReply(Head(incoming))
    BY <1>1 DEF IsReply
  <2>2. Head(incoming).type # "APPFILE"
    <3>1. Orderly(t) /\ Head(incoming) = incoming[1] /\ 1 \in DOMAIN incoming
      BY <1>1, <1>3, Tails DEF OwnInv, WireInv, TypeOK, WireOK
    <3>2. Head(incoming).type \in Replying(pc[t])
      BY <2>1, <3>1 DEF Orderly
    <3>3. pc[t] \in {"querying", "writing"} => "APPFILE" \notin Replying(pc[t])
      BY DEF Replying
    <3> QED BY <1>1, <3>2, <3>3
  <2>3. Head(incoming).age = 0 /\ Quiet'
    BY <1>1, <1>3, <2>1, <2>2, LastTaken DEF Quiet, OwnInv
  <2> QED BY <1>1, <2>3, QuietIsOwn DEF OwnReply
<1> QED BY <1>2, <1>3

\* The page that completes a file is its last, and the others came before it in
\* the same command (transport.cpp feed, control_client.cpp readApplicationFile).
LEMMA FileOwn ==
  ASSUME TypeOK, OwnInv, NEW t \in Threads, EndsFile(t)
  PROVE  OwnInv'
<1>1. /\ holder = t /\ incoming # <<>> /\ Head(incoming).type = "APPFILE"
      /\ incoming' = Tail(incoming) /\ UNCHANGED <<outgoing, overdue>>
      /\ holder' = Nobody /\ taken' = [answers |-> PagesOf, late |-> overdue]
      /\ FedPage.told = "complete" /\ Comes(t, {"APPFILE"})
  BY DEF EndsFile, Completes, Comes, Takes, EndsWith
<1>2. /\ Head(incoming).page = 1 /\ FedPage.assembler.payload # <<>>
      /\ FedPage.assembler.payload \in Seq(Contents)
      /\ \A i \in DOMAIN FedPage.assembler.payload :
           \/ FedPage.assembler.payload[i].age = Head(incoming).age
           \/ i \in DOMAIN assembler.payload
              /\ FedPage.assembler.payload[i].age = assembler.payload[i].age
  BY <1>1, FedTyped DEF TypeOK
<1>3. CASE overdue
  BY <1>1, <1>3, QuietIsOwn DEF OwnReply
<1>4. CASE ~overdue
  <2>1. Head(incoming).age = 0 /\ Quiet'
    BY <1>1, <1>2, <1>4, LastTaken DEF Quiet, OwnInv, IsReply
  <2>2. \A i \in DOMAIN assembler.payload : assembler.payload[i].age = 0
    BY <1>1, <1>4 DEF OwnInv, WireInv, Orderly
  <2>3. \A i \in DOMAIN FedPage.assembler.payload : FedPage.assembler.payload[i].age = 0
    BY <1>2, <2>1, <2>2
  <2>4. 1 \in DOMAIN FedPage.assembler.payload
    BY <1>2, Tails
  <2>5. PagesOf = {0}
    BY <2>3, <2>4 DEF PagesOf
  <2> QED BY <1>1, <2>1, <2>5, QuietIsOwn DEF OwnReply
<1> QED BY <1>3, <1>4

\* A step that touches neither the wire nor a thread in an exchange.
LEMMA BesideOwn ==
  ASSUME TypeOK, OwnInv, UNCHANGED controlVars,
         \A t \in Threads : InExchange(t) => pc'[t] = pc[t]
  PROVE  OwnInv'
<1>1. OwnReply' /\ (Quiet => Quiet')
  BY DEF controlVars, wireVars, OwnInv, OwnReply, Quiet
<1>2. ASSUME NEW t \in Threads, holder = t, Orderly(t)
      PROVE  Orderly(t)'
  <2>1. pc'[t] = pc[t]
    BY <1>2 DEF TypeOK, ThreadsOK
  <2> QED BY <1>2, <2>1 DEF Orderly, controlVars, wireVars
<1> QED BY <1>1, <1>2 DEF OwnInv, WireInv, controlVars, wireVars

\* A thread's step.
LEMMA ThreadOwn ==
  ASSUME TypeOK, OwnInv, NEW t \in Threads, Thread(t)
  PROVE  OwnInv'
<1>1. OpOf("reading") = "GETAPPFILE" /\ OpOf("querying") = "GETOPT" /\ OpOf("writing") = "APPFILE"
  BY DEF OpOf
<1>2. CASE SendsRead(t)
  BY <1>1, <1>2, CommandsOwn, NoRecordsTyped DEF SendsRead
<1>3. CASE SendsQuery(t)
  BY <1>1, <1>3, CommandsOwn, NoRecordsTyped DEF SendsQuery
<1>4. CASE SendsWrite(t)
  <2>1. plan[t] \in Records
    BY DEF TypeOK, ThreadsOK
  <2> QED BY <1>1, <1>4, <2>1, CommandsOwn DEF SendsWrite
<1>5. CASE SkipsOther(t)
  BY <1>5, PassesOwn DEF SkipsOther, Skips, TakesPage, Comes, Takes, threadVars
<1>6. CASE SkipsReport(t)
  BY <1>6, PassesOwn DEF SkipsReport, Skips, Comes, Takes, threadVars
<1>7. CASE IsRefused(t)
  BY <1>7, EndsOwn DEF IsRefused
<1>8. CASE ReadsFile(t)
  BY <1>8, FileOwn DEF ReadsFile
<1>9. CASE GetsReply(t)
  BY <1>9, EndsOwn DEF GetsReply
<1>10. CASE GivesUp(t)
  <2>1. CASE TimesOut(t)
    BY <2>1, QuietIsOwn DEF TimesOut, OwnInv, OwnReply
  <2>2. CASE SeesLoss(t)
    <3>1. /\ holder = t /\ holder' = Nobody /\ incoming' = <<>> /\ outgoing' = <<>>
          /\ UNCHANGED <<overdue, taken>>
      BY <2>2 DEF SeesLoss, TypeOK, WireOK
    <3>2. Quiet'
      BY <3>1 DEF Quiet
    <3> QED BY <3>1, <3>2, QuietIsOwn DEF OwnInv, OwnReply
  <2> QED BY <1>10, <2>1, <2>2 DEF GivesUp
<1>11. CASE IsTooLong(t)
  <2>1. UNCHANGED controlVars /\ pc[t] = "to write" /\ Goes(t, "idle")
    BY <1>11 DEF IsTooLong, IsDone
  <2>2. \A u \in Threads : InExchange(u) => pc'[u] = pc[u]
    BY <2>1 DEF InExchange, Goes, TypeOK, ThreadsOK
  <2> QED BY <2>1, <2>2, BesideOwn
<1>12. CASE CannotDecode(t)
  BY <1>12, FileOwn DEF CannotDecode
<1> QED BY <1>2, <1>3, <1>4, <1>5, <1>6, <1>7, <1>8, <1>9, <1>10, <1>11, <1>12 DEF Thread

\* The receiver answers the one command there is, and loses, not reorders.
LEMMA ReceiverOwn ==
  ASSUME TypeOK, OwnInv, Receiver
  PROVE  OwnInv'
<1>1. UNCHANGED <<holder, assembler, overdue, taken, pc>>
  BY DEF Receiver, Answers, Refuses, Reports, Loses, Drifts, Replies, controlVars, threadVars
<1>2. OwnReply'
  BY <1>1 DEF OwnInv, OwnReply
<1>3. incoming \in Seq(Packets) /\ outgoing \in Seq(CommandsSent)
  BY DEF TypeOK, WireOK
<1>4. ASSUME Answers \/ Refuses
      PROVE  OwnInv'
  <2> DEFINE command == Head(outgoing)
  <2>1. PICK packets \in Seq(Packets) :
          /\ packets = ReplyTo(command) \/ packets = <<Packet("NAK", command)>>
          /\ outgoing # <<>> /\ outgoing' = Tail(outgoing)
          /\ incoming' = incoming \o packets
    BY <1>4, RepliesTyped DEF Answers, Refuses, Replies, TypeOK
  <2>2. ASSUME ~overdue, NEW t \in Threads, holder = t
        PROVE  Orderly(t)'
    <3>1. Orderly(t) /\ pc[t] \in {"reading", "querying", "writing"}
      BY <2>2 DEF OwnInv, WireInv, TypeOK, ThreadsOK, InExchange
    <3>2. 1 \in DOMAIN outgoing /\ command = outgoing[1]
      BY <1>3, <2>1, Tails
    <3>3. /\ command.age = 0 /\ command.op = OpOf(pc[t])
          /\ \A j \in DOMAIN incoming : ~IsReply(incoming[j])
      BY <3>1, <3>2 DEF Orderly
    <3>4. DOMAIN outgoing' = {} /\ Len(outgoing') <= 1
      BY <1>3, <2>1, <3>1 DEF Orderly
    <3> HIDE DEF command
    <3>5. /\ Len(packets) \in {1, 2}
          /\ \A i \in DOMAIN packets : packets[i].age = 0 /\ packets[i].type \in Replying(pc[t])
          /\ Len(packets) = 2 => packets[1].type = "APPFILE" /\ packets[1].page = 0
      <4>1. CASE packets = <<Packet("NAK", command)>>
        BY <3>1, <3>3, <4>1 DEF Packet, Replying
      <4>2. CASE packets = ReplyTo(command)
        <5>1. CASE pc[t] = "reading"
          <6>1. packets = <<Page(0, command), Page(1, command)>>
            BY <3>3, <4>2, <5>1 DEF ReplyTo, OpOf
          <6> QED BY <3>3, <5>1, <6>1 DEF Page, Replying
        <5>2. CASE pc[t] = "querying"
          <6>1. packets = <<Packet("RETOPT", command)>>
            BY <3>3, <4>2, <5>2 DEF ReplyTo, OpOf
          <6> QED BY <3>3, <5>2, <6>1 DEF Packet, Replying
        <5>3. CASE pc[t] = "writing"
          <6>1. packets = <<Packet("ACK", command)>>
            BY <3>3, <4>2, <5>3 DEF ReplyTo, OpOf
          <6> QED BY <3>3, <5>3, <6>1 DEF Packet, Replying
        <5> QED BY <3>1, <5>1, <5>2, <5>3
      <4> QED BY <2>1, <4>1, <4>2
    <3>6. \A i \in DOMAIN incoming' :
            \/ i \in DOMAIN incoming /\ incoming'[i] = incoming[i]
            \/ /\ i \in Nat /\ i - Len(incoming) \in DOMAIN packets
               /\ incoming'[i] = packets[i - Len(incoming)]
      BY <1>3, <2>1, ConcatProperties
    <3>7. \A i \in DOMAIN incoming' : IsReply(incoming'[i]) =>
            incoming'[i].age = 0 /\ incoming'[i].type \in Replying(pc[t])
      BY <3>3, <3>5, <3>6
    <3>8. ASSUME NEW i \in DOMAIN incoming', NEW j \in DOMAIN incoming', i < j,
                 IsReply(incoming'[i]), IsReply(incoming'[j])
          PROVE  incoming'[i].type = "APPFILE" /\ incoming'[i].page = 0
      <4>1. /\ i - Len(incoming) \in DOMAIN packets /\ incoming'[i] = packets[i - Len(incoming)]
            /\ j - Len(incoming) \in DOMAIN packets /\ i \in Nat /\ j \in Nat
        BY <3>3, <3>6, <3>8
      <4>2. i - Len(incoming) = 1 /\ Len(packets) = 2
        BY <1>3, <3>5, <3>8, <4>1
      <4> QED BY <3>5, <4>1, <4>2
    <3> QED BY <1>1, <3>1, <3>4, <3>7, <3>8 DEF Orderly
  <2>3. ASSUME ~overdue, holder = Nobody
        PROVE  Quiet'
    BY <2>1, <2>3 DEF OwnInv, WireInv, Quiet
  <2> QED BY <1>1, <1>2, <2>2, <2>3 DEF OwnInv, WireInv
<1>5. CASE Reports
  <2> DEFINE report == [type |-> "GENOUT", age |-> 0]
  <2>1. incoming' = incoming \o <<report>> /\ UNCHANGED outgoing /\ report.type = "GENOUT"
    BY <1>5 DEF Reports, Replies
  <2>2. report \in Packets
    BY DEF Packets
  <2> HIDE DEF report
  <2>3. \A i \in DOMAIN incoming' : \/ i \in DOMAIN incoming /\ incoming'[i] = incoming[i]
                                    \/ ~IsReply(incoming'[i])
    BY <1>3, <2>1, <2>2, ConcatProperties DEF IsReply
  <2>4. Quiet => Quiet'
    BY <2>1, <2>3 DEF Quiet
  <2>5. \A t \in Threads : Orderly(t) => Orderly(t)'
    BY <1>1, <2>1, <2>3 DEF Orderly
  <2> QED BY <1>1, <1>2, <2>4, <2>5 DEF OwnInv, WireInv
<1>6. CASE Loses
  <2>1. outgoing' = <<>> /\ UNCHANGED incoming
    BY <1>6 DEF Loses
  <2>2. Quiet => Quiet'
    BY <2>1 DEF Quiet
  <2>3. \A t \in Threads : Orderly(t) => Orderly(t)'
    BY <1>1, <2>1 DEF Orderly
  <2> QED BY <1>1, <1>2, <2>2, <2>3 DEF OwnInv, WireInv
<1>7. CASE Drifts
  BY <1>7, BesideOwn DEF Drifts, threadVars
<1> QED BY <1>4, <1>5, <1>6, <1>7 DEF Receiver

\* The reply that ends a command answers it, every page of a file included, on
\* every connection where no command was given up, for any number of threads and
\* whatever the receiver does (control_client.cpp exchangeLocked and
\* readApplicationFile: replies name no command).
THEOREM RepliesAreOwn == Spec => []OwnReply
<1>1. Init => OwnInv
  <2> SUFFICES ASSUME Init PROVE OwnInv
    OBVIOUS
  <2>1. taken.answers = {0} /\ holder = Nobody /\ outgoing = <<>> /\ incoming = <<>>
    BY DEF Init, ControlInit
  <2>2. Quiet
    BY <2>1 DEF Quiet
  <2> QED BY <2>1, <2>2, NobodyAssumption DEF OwnInv, OwnReply, WireInv
<1>2. TypeOK /\ OwnInv /\ [Next]_vars => OwnInv'
  <2> SUFFICES ASSUME TypeOK, OwnInv, [Next]_vars PROVE OwnInv'
    OBVIOUS
  <2>1. ASSUME NEW t \in Threads, StartsPass(t) \/ StartsRequest(t) \/ StartsQuery(t)
        PROVE  OwnInv'
    <3>1. UNCHANGED controlVars /\ pc[t] = "idle" /\ (Goes(t, "to read") \/ Goes(t, "to query"))
      BY <2>1 DEF StartsPass, StartsRequest, StartsQuery
    <3>2. \A u \in Threads : InExchange(u) => pc'[u] = pc[u]
      BY <3>1 DEF InExchange, Goes, TypeOK, ThreadsOK
    <3> QED BY <3>1, <3>2, BesideOwn
  <2>2. CASE UNCHANGED vars
    BY <2>2, BesideOwn DEF vars, threadVars
  <2> QED BY <2>1, <2>2, ThreadOwn, ReceiverOwn DEF Next
<1>3. OwnInv => OwnReply
  BY DEF OwnInv
<1> QED BY <1>1, <1>2, <1>3, Typing, PTL DEF Spec
=============================================================================
