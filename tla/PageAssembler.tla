---------------------------- MODULE PageAssembler ----------------------------
(* libs/gsof/src/transport.cpp: puts the pages of a transmission back         *)
(* together, for reports and for application files alike.  A page is a        *)
(* record with its transport header (tx, page, max) and its content.          *)
EXTENDS Integers, Sequences

CONSTANT MaxPages \* mMaxPayload, in pages

ASSUME MaxPagesAssumption == MaxPages \in Nat \ {0}

NoHeader == [tx |-> 0, page |-> 0, max |-> 0]

\* What the constructor and reset() leave; discardPartial() as well.
Empty == [assembling |-> FALSE, header |-> NoHeader, payload |-> <<>>]

HeaderOf(page) == [tx |-> page.tx, page |-> page.page, max |-> page.max]

Continues(assembler, page) ==
  /\ assembler.assembling
  /\ page.tx = assembler.header.tx /\ page.max = assembler.header.max
  /\ page.page = assembler.header.page + 1

\* feed(): the assembler afterwards, and what the caller is told.
Feed(assembler, page) ==
  LET held     == IF Continues(assembler, page) THEN assembler.payload ELSE <<>>
      complete == page.page >= page.max
      took     == [assembler |-> [assembling |-> ~complete, header |-> HeaderOf(page),
                                  payload |-> Append(held, page.content)],
                   told |-> IF complete THEN "complete" ELSE "incomplete"]
  IN  IF ~Continues(assembler, page) /\ page.page # 0
        THEN [assembler |-> Empty, told |-> "out of order"]
      ELSE IF Len(held) >= MaxPages
        THEN [assembler |-> Empty, told |-> "too long"]
      ELSE took
=============================================================================
