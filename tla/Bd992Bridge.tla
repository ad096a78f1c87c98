----------------------------- MODULE Bd992Bridge -----------------------------
(* nodes/bd992_bridge: the main loop compares the receiver's outputs with the *)
(* node's configuration now and then and writes what differs; zenoh threads   *)
(* run the services, which do the same with what a request asks for, or read  *)
(* something.  mMutex is free between the read and the write of a pass.       *)
(*                                                                            *)
(* External: the receiver answers the commands of a connection in order,      *)
(* sends reports on it if the port is configured for output, refuses a        *)
(* command, loses the connection, and has other owners who change its         *)
(* outputs.  What goes wrong is bounded by MaxTrouble.                        *)
EXTENDS ControlClient

CONSTANTS
  Main,       \* the thread of the main loop; the others run services
  Desired,    \* configuration.outputs
  Policy,     \* configuration.portPolicy
  Mode,       \* configuration.mode
  Asks,       \* what set_output_config is asked for
  MaxTrouble  \* events that disturb, a bound of the model

ASSUME MainAssumption == Main \in Threads
ASSUME DesiredAssumption == Desired \in Wishes /\ Asks \subseteq Wishes
ASSUME ModeAssumption == Policy \in Policies /\ Mode \in {"report_only", "enforce"}
ASSUME TroubleAssumption == MaxTrouble \in Nat

VARIABLES
  config,  \* external: the receiver's outputs
  pc,      \* where each thread is
  pass,    \* what its pass is for
  plan,    \* the records it is about to write
  trouble  \* events counted against MaxTrouble

threadVars == <<pc, pass, plan>>
vars == <<controlVars, config, threadVars, trouble>>

Pass(desired, policy, dryRun) ==
  [desired |-> desired, policy |-> policy, writes |-> Mode = "enforce" /\ ~dryRun]

OwnPass(dryRun) == Pass(Desired, Policy, dryRun)

Init ==
  /\ ControlInit
  /\ config \in Configs
  /\ pc = [t \in Threads |-> "idle"]
  /\ pass = [t \in Threads |-> OwnPass(FALSE)]
  /\ plan = [t \in Threads |-> NoRecords]
  /\ trouble = 0

Disturbs == trouble < MaxTrouble /\ trouble' = trouble + 1

Goes(t, place) == pc' = [pc EXCEPT ![t] = place]
IsDone(t) == Goes(t, "idle") /\ plan' = [plan EXCEPT ![t] = NoRecords]
-----------------------------------------------------------------------------
\* run_config_pass on the main loop, or for apply_config.
StartsPass(t) ==
  /\ pc[t] = "idle"
  /\ \/ t = Main /\ pass' = [pass EXCEPT ![t] = OwnPass(FALSE)] /\ UNCHANGED trouble
     \/ /\ t # Main /\ Disturbs
        /\ \E dryRun \in BOOLEAN : pass' = [pass EXCEPT ![t] = OwnPass(dryRun)]
  /\ Goes(t, "to read")
  /\ UNCHANGED <<controlVars, config, plan>>

\* set_output_config; in report_only mode it takes dry runs alone.
StartsRequest(t) ==
  /\ pc[t] = "idle" /\ t # Main /\ Disturbs
  /\ \E desired \in Asks, policy \in Policies, dryRun \in BOOLEAN :
       /\ Mode = "enforce" \/ dryRun
       /\ pass' = [pass EXCEPT ![t] = Pass(desired, policy, dryRun)]
  /\ Goes(t, "to read")
  /\ UNCHANGED <<controlVars, config, plan>>

\* get_receiver_info.
StartsQuery(t) ==
  /\ pc[t] = "idle" /\ t # Main /\ Disturbs
  /\ Goes(t, "to query")
  /\ UNCHANGED <<controlVars, config, pass, plan>>

\* A command goes out, or cannot.
Commands(t, from, op, records, to) ==
  /\ pc[t] = from
  /\ \/ Sends(t, op, records) /\ Goes(t, to) /\ UNCHANGED <<plan, trouble>>
     \/ FailsToSend(t) /\ IsDone(t) /\ Disturbs
  /\ UNCHANGED <<config, pass>>

SendsRead(t)  == Commands(t, "to read", "GETAPPFILE", NoRecords, "reading")
SendsQuery(t) == Commands(t, "to query", "GETOPT", NoRecords, "querying")
SendsWrite(t) == Fits(plan[t]) /\ Commands(t, "to write", "APPFILE", plan[t], "writing")

\* writeApplicationFile refuses what takes more than a page, and sends nothing.
IsTooLong(t) ==
  /\ pc[t] = "to write" /\ holder = Nobody
  /\ ~Fits(plan[t])
  /\ IsDone(t)
  /\ UNCHANGED <<controlVars, config, pass, trouble>>

\* readApplicationFile takes a NAK or the pages of a file.
SkipsOther(t) ==
  /\ pc[t] = "reading"
  /\ \/ Skips(t, {"GENOUT", "ACK", "RETOPT"})
     \/ TakesPage(t)
  /\ UNCHANGED <<config, threadVars, trouble>>

IsRefused(t) ==
  /\ pc[t] = "reading"
  /\ Ends(t, {"NAK"})
  /\ Goes(t, "idle")
  /\ UNCHANGED <<config, pass, plan, trouble>>

\* The file is complete, and parse_application_file refuses it.
CannotDecode(t) ==
  /\ pc[t] = "reading"
  /\ EndsFile(t) /\ ~Decodes(FileRead)
  /\ Goes(t, "idle")
  /\ UNCHANGED <<config, pass, plan, trouble>>

\* diff and plan_writes.
ReadsFile(t) ==
  /\ pc[t] = "reading"
  /\ EndsFile(t) /\ Decodes(FileRead)
  /\ LET records == PlanWrites(FileRead, pass[t].desired, pass[t].policy)
     IN  IF pass[t].writes /\ DOMAIN records # {}
           THEN plan' = [plan EXCEPT ![t] = records] /\ Goes(t, "to write")
           ELSE UNCHANGED plan /\ Goes(t, "idle")
  /\ UNCHANGED <<config, pass, trouble>>

\* exchangeLocked takes the first packet that is no report, whichever it is.
SkipsReport(t) ==
  /\ pc[t] \in {"querying", "writing"}
  /\ Skips(t, {"GENOUT"})
  /\ UNCHANGED <<config, threadVars, trouble>>

GetsReply(t) ==
  /\ pc[t] \in {"querying", "writing"}
  /\ Ends(t, {"APPFILE", "ACK", "NAK", "RETOPT"})
  /\ IsDone(t)
  /\ UNCHANGED <<config, pass, trouble>>

\* Every failure ends the pass.
GivesUp(t) ==
  /\ \/ TimesOut(t) /\ Disturbs
     \/ SeesLoss(t) /\ UNCHANGED trouble
  /\ IsDone(t)
  /\ UNCHANGED <<config, pass>>
-----------------------------------------------------------------------------
(* External: the receiver *)

Replies(packets) ==
  /\ link = "up"
  /\ incoming' = incoming \o packets
  /\ UNCHANGED <<holder, link, assembler, overdue, taken, threadVars>>

\* A file takes two pages; at worst they all bear the same transmission number.
Packet(type, command) == [type |-> type, age |-> command.age]
Page(page, command)   == [type |-> "APPFILE", age |-> command.age, page |-> page, config |-> config]

ReplyTo(command) ==
  CASE command.op = "GETAPPFILE" -> <<Page(0, command), Page(1, command)>>
    [] command.op = "GETOPT"     -> <<Packet("RETOPT", command)>>
    [] command.op = "APPFILE"    -> <<Packet("ACK", command)>>

Answers ==
  /\ outgoing # <<>> /\ outgoing' = Tail(outgoing)
  /\ Replies(ReplyTo(Head(outgoing)))
  /\ config' \in Applied(config, Head(outgoing).records)
  /\ UNCHANGED trouble

Refuses ==
  /\ outgoing # <<>> /\ outgoing' = Tail(outgoing)
  /\ Disturbs
  /\ Replies(<<Packet("NAK", Head(outgoing))>>)
  /\ UNCHANGED config

Reports ==
  /\ Disturbs
  /\ Replies(<<[type |-> "GENOUT", age |-> 0]>>)
  /\ UNCHANGED <<config, outgoing>>

Loses ==
  /\ Disturbs
  /\ link = "up" /\ link' = "lost"
  /\ outgoing' = <<>>
  /\ UNCHANGED <<holder, incoming, assembler, overdue, taken, config, threadVars>>

Drifts ==
  /\ Disturbs
  /\ \E o \in Outputs, rate \in Rates \union {Unlisted} :
       rate # config[o] /\ config' = [config EXCEPT ![o] = rate]
  /\ UNCHANGED <<controlVars, threadVars>>
-----------------------------------------------------------------------------
Thread(t) ==
  \/ SendsRead(t) \/ SendsQuery(t) \/ SendsWrite(t) \/ IsTooLong(t)
  \/ SkipsOther(t) \/ IsRefused(t) \/ CannotDecode(t) \/ ReadsFile(t)
  \/ SkipsReport(t) \/ GetsReply(t) \/ GivesUp(t)

Receiver == Answers \/ Refuses \/ Reports \/ Loses \/ Drifts

Next ==
  \/ \E t \in Threads : Thread(t) \/ StartsPass(t) \/ StartsRequest(t) \/ StartsQuery(t)
  \/ Receiver

Spec == Init /\ [][Next]_vars

\* The main loop comes round, a thread that waits goes on, the receiver answers.
FairSpec ==
  /\ Spec
  /\ WF_vars(StartsPass(Main))
  /\ \A t \in Threads : WF_vars(Thread(t))
  /\ WF_vars(Answers)
-----------------------------------------------------------------------------
Records  == UNION {[outputs -> Rates] : outputs \in SUBSET OnPort}
CommandsSent == [age : Nat, op : {"GETAPPFILE", "GETOPT", "APPFILE"}, records : Records]
Contents == [age : Nat, config : Configs]
Packets  == [type : {"GENOUT", "ACK", "NAK", "RETOPT"}, age : Nat]
              \union [type : {"APPFILE"}, age : Nat, page : {0, 1}, config : Configs]
Passes   == [desired : Wishes, policy : Policies, writes : BOOLEAN]

WireOK ==
  /\ link \in {"closed", "up", "lost"}
  /\ outgoing \in Seq(CommandsSent) /\ incoming \in Seq(Packets)
  /\ link # "up" => outgoing = <<>>

AssemblerOK ==
  /\ assembler \in [assembling : BOOLEAN, header : [tx : Nat, page : Nat, max : Nat],
                    payload : Seq(Contents)]
  /\ Len(assembler.payload) <= MaxPages
  /\ overdue \in BOOLEAN /\ taken \in [answers : SUBSET Nat, late : BOOLEAN]

InExchange(t) == pc[t] \in {"reading", "querying", "writing"}

ThreadsOK ==
  /\ pc \in [Threads -> {"idle", "to read", "to query", "to write",
                         "reading", "querying", "writing"}]
  /\ pass \in [Threads -> Passes] /\ plan \in [Threads -> Records]
  /\ holder \in Threads \union {Nobody}
  /\ \A t \in Threads :
       /\ holder = t <=> InExchange(t)
       /\ pc[t] \in {"to write", "writing"} <=> plan[t] # NoRecords

\* A thread holds mMutex exactly while its command is out, what it is about to
\* write is something, on the node's port alone, and a file has no more than its
\* pages (control_client.cpp exchangeLocked, output_config.cpp plan_writes).
TypeOK ==
  /\ WireOK /\ AssemblerOK /\ ThreadsOK
  /\ config \in Configs
  /\ trouble \in 0..MaxTrouble

\* The reply that ends a command answers it, every page of a file included, on a
\* connection where no command was given up (control_client.cpp exchangeLocked
\* and readApplicationFile: replies name no command).
OwnReply == taken.late \/ taken.answers = {0}

\* Every pass fails, before it compares or before it writes.
Blocked == ~Decodes(config) \/ ~Fits(PlanWrites(config, Desired, Policy))

\* Whatever happens to the receiver and to the connection, and whichever late
\* replies the passes read, once it stops happening the port sends what the
\* node's configuration wants and keeps to it, and the main loop writes nothing
\* more, unless an output wanted Off is not listed; or the receiver lists, or the
\* configuration changes, more than the node can take, and it stays so
\* (services.cpp run_config_pass; docs/bd992.md:176, a write is only for what
\* differs, because applying a file restarts the outputs).
EventuallySettled ==
  \/ <>[](/\ AsWanted(config, Desired, Policy)
          /\ plan[Main] # NoRecords => OffUnlisted(config, Desired) # {})
  \/ <>[]Blocked
=============================================================================
