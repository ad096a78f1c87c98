---------------------------- MODULE ControlClient ----------------------------
(* libs/bd992/src/control_client.cpp: commands and replies on the control     *)
(* connection of the receiver.  mMutex is held from the command to the end of *)
(* the wait, so that there is one command at a time; a reply names no         *)
(* command.  The connection is opened when a command needs it and dropped on  *)
(* an error of the socket, but not when a reply is overdue: what comes after  *)
(* the deadline is found by the next command.                                 *)
EXTENDS PageAssembler, OutputConfig, FiniteSets

CONSTANTS
  Threads,    \* the callers
  Nobody,
  MaxRecords, \* the records one page holds (kMaxAppFileRecordBytes)
  MaxListed   \* the outputs a decoded file holds (kMaxOutputMessages)

ASSUME NobodyAssumption == Nobody \notin Threads
ASSUME PageSizeAssumption == MaxRecords \in Nat /\ MaxListed \in Nat

VARIABLES
  holder,    \* who holds mMutex
  link,      \* mStream: closed (or never opened), up, or lost by the receiver
  outgoing,  \* commands on their way to the receiver
  incoming,  \* packets on their way back, those in mFramer included
  assembler, \* the PageAssembler of the read in progress
  overdue,   \* a command on this connection was given up
  taken      \* the reply that ended the last command, see OwnReply

wireVars == <<link, outgoing, incoming>>
controlVars == <<holder, wireVars, assembler, overdue, taken>>

NoRecords == [o \in {} |-> Off]

\* Nothing on the wire says which command a packet belongs to.  Its age does: the
\* commands sent since that one, 0 for the command in progress.
Command(op, records) == [age |-> 0, op |-> op, records |-> records]
Older(packets) == [i \in DOMAIN packets |-> [packets[i] EXCEPT !.age = @ + 1]]

\* encode_application_file writes one page and refuses what takes more.
Fits(records) == Cardinality(DOMAIN records) <= MaxRecords

\* parse_application_file refuses a file of more outputs, those of other ports
\* included.
Decodes(file) == Cardinality({o \in Outputs : file[o] # Unlisted}) <= MaxListed

ControlInit ==
  /\ holder = Nobody /\ link = "closed"
  /\ outgoing = <<>> /\ incoming = <<>>
  /\ assembler = Empty
  /\ overdue = FALSE
  /\ taken = [answers |-> {0}, late |-> FALSE]
-----------------------------------------------------------------------------
\* Wrong on purpose: leaves in mFramer what the last connection brought.
Opened_KeepsFramer == overdue' = FALSE /\ incoming' = Older(incoming)

\* ensureConnected() when it has to connect.
Opened == overdue' = FALSE /\ incoming' = <<>>

\* mMutex, ensureConnected and sendAll.
Sends(t, op, records) ==
  /\ holder = Nobody /\ holder' = t
  /\ assembler' = Empty
  /\ \/ /\ link = "closed" /\ link' = "up"
        /\ outgoing' = <<Command(op, records)>>
        /\ Opened
     \/ /\ link = "up"
        /\ outgoing' = Append(Older(outgoing), Command(op, records))
        /\ incoming' = Older(incoming)
        /\ UNCHANGED <<link, overdue>>
     \* What is sent to a connection that was lost goes nowhere.
     \/ /\ link = "lost"
        /\ incoming' = Older(incoming)
        /\ UNCHANGED <<link, outgoing, overdue>>
  /\ UNCHANGED taken

\* The connection cannot be opened, or the command cannot be sent.
FailsToSend(t) ==
  /\ holder = Nobody
  /\ link \in {"closed", "lost"}
  /\ link' = "closed"
  /\ UNCHANGED <<holder, outgoing, incoming, assembler, overdue, taken>>

\* readUntil: the packets that came, one after the other.
Comes(t, types) == holder = t /\ incoming # <<>> /\ Head(incoming).type \in types

Takes == incoming' = Tail(incoming) /\ UNCHANGED <<link, outgoing, overdue>>

Skips(t, types) ==
  /\ Comes(t, types)
  /\ Takes
  /\ UNCHANGED <<holder, assembler, taken>>

\* Replies to the commands of these ages ended the command in progress.
EndsWith(ages) ==
  /\ holder' = Nobody
  /\ taken' = [answers |-> ages, late |-> overdue]

\* A packet that ends an exchange, or a NAK that ends a read.
Ends(t, types) ==
  /\ Comes(t, types)
  /\ Takes
  /\ EndsWith({Head(incoming).age})
  /\ UNCHANGED assembler

\* The page at hand, fed to the assembler; it may complete a file.
FedPage ==
  LET packet == Head(incoming)
  IN  Feed(assembler, [tx |-> 0, page |-> packet.page, max |-> 1,
                       content |-> [age |-> packet.age, config |-> packet.config]])
Completes(t) == Comes(t, {"APPFILE"}) /\ FedPage.told = "complete"

TakesPage(t) ==
  /\ Comes(t, {"APPFILE"}) /\ ~Completes(t)
  /\ Takes
  /\ assembler' = FedPage.assembler
  /\ UNCHANGED <<holder, taken>>

\* The file, and the replies its pages are of.
FileRead == Head(FedPage.assembler.payload).config
PagesOf  == {FedPage.assembler.payload[i].age : i \in DOMAIN FedPage.assembler.payload}

EndsFile(t) ==
  /\ Completes(t)
  /\ Takes
  /\ EndsWith(PagesOf)
  /\ assembler' = FedPage.assembler

\* The deadline.
TimesOut(t) ==
  /\ holder = t
  /\ holder' = Nobody
  /\ overdue' = TRUE
  /\ UNCHANGED <<wireVars, assembler, taken>>

\* recvSome reports the end of the connection.
SeesLoss(t) ==
  /\ holder = t /\ incoming = <<>> /\ link = "lost"
  /\ link' = "closed"
  /\ holder' = Nobody
  /\ UNCHANGED <<outgoing, incoming, assembler, overdue, taken>>
=============================================================================
