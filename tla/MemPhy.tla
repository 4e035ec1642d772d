------------------------------- MODULE MemPhy -------------------------------
(***************************************************************************)
(* The PHY between controller and memory (mem_sim/src/dram/mem_phy.cpp).      *)
(* Direct: everything is accepted and nothing is kept.  Behavioral: it refuses  *)
(* commands until it is trained, holds issued reads and writes in two FIFOs,   *)
(* touches the image when they leave it, and keeps their completions until     *)
(* the controller takes them.                                               *)
(*                                                                         *)
(* A transaction is a record with fields id, type, line, cells and data.      *)
(* Its latency is left open; the FIFO of commands only delays one and is        *)
(* left out.                                                                *)
(***************************************************************************)
EXTENDS Naturals, Sequences, FiniteSets, Functions

(* The contents of the memory (mem_sim/src/core/data.cpp): lines of the backing   *)
(* store, and in front of them one row buffer per bank, which loads the lines of   *)
(* its open row when they are touched and writes them back when the row closes.   *)
(* Every operator maps an image to the next one.  A cell holds the number of the   *)
(* write that filled it last, 0 at first.                                        *)

CONSTANTS
    NBanks, \* banks of the channel, numbered rank by rank
    Lines,  \* lines of memory: one transaction's bytes each
    Cells,  \* cells of a line: what a byte mask tells apart
    BankOf, \* the bank of a line
    RowOf   \* its row in that bank, at least 1

Banks == 0 .. NBanks - 1

ASSUME LineAssumption ==
    /\ NBanks \in Nat \ {0} /\ Cells # {}
    /\ BankOf \in [Lines -> Banks]
    /\ RowOf \in [Lines -> Nat \ {0}]

\* The banks of a rank, and the rank of a bank, when there are n ranks.
RankBanks(n, r) == {b \in Banks : b \div (NBanks \div n) = r}
RankOf(n, b) == b \div (NBanks \div n)

NoRow == 0
NotLoaded == [c \in {} |-> 0]

Image0 == [backing |-> [l \in Lines |-> [c \in Cells |-> 0]],
           open    |-> [b \in Banks |-> NoRow],
           dirty   |-> [b \in Banks |-> FALSE],
           column  |-> [l \in Lines |-> NotLoaded]]

\* The line is in the open row of its bank, whether it was loaded or not.
InRow(img, l) == img.open[BankOf[l]] = RowOf[l]

Loaded(img, l) == img.column[l] # NotLoaded

\* What a read of the line finds.
Contents(img, l) == IF Loaded(img, l) THEN img.column[l] ELSE img.backing[l]

\* writeback_row_buffer for every bank of a set.
Precharged(img, banks) ==
    LET closing == {l \in Lines : BankOf[l] \in banks /\ Loaded(img, l)}
        saved == {l \in closing : img.dirty[BankOf[l]]}
    IN  [backing |-> [l \in Lines |->
                        IF l \in saved THEN img.column[l] ELSE img.backing[l]],
         open    |-> [b \in Banks |-> IF b \in banks THEN NoRow ELSE img.open[b]],
         dirty   |-> [b \in Banks |-> b \notin banks /\ img.dirty[b]],
         column  |-> [l \in Lines |->
                        IF l \in closing THEN NotLoaded ELSE img.column[l]]]

\* activate_row: another open row of the bank is closed first.
Activated(img, b, row) ==
    IF img.open[b] = row THEN img
    ELSE [Precharged(img, {b}) EXCEPT !.open[b] = row]

\* row_buffer_block: the first touch of a line in the open row loads it.
Touched(img, l) ==
    IF InRow(img, l) THEN [img EXCEPT !.column[l] = Contents(img, l)] ELSE img

\* write: into the open row, which becomes dirty, or past it.
Written(img, l, data) ==
    LET store(old) == [c \in Cells |-> IF c \in DOMAIN data THEN data[c] ELSE old[c]]
    IN  IF DOMAIN data = {} THEN Touched(img, l)
        ELSE IF InRow(img, l)
        THEN [Touched(img, l) EXCEPT !.column[l] = store(@), !.dirty[BankOf[l]] = TRUE]
        ELSE [img EXCEPT !.backing[l] = store(@)]

-----------------------------------------------------------------------------
(* The PHY. *)

CONSTANTS ReadFifo, WriteFifo \* depths of the FIFOs

ASSUME FifoAssumption == {ReadFifo, WriteFifo} \subseteq Nat \ {0}

Phy0(behavioral) == [behavioral |-> behavioral, ready |-> ~behavioral,
                     reads |-> <<>>, writes |-> <<>>, done |-> {}]

PhyIdle(phy) == phy.reads = <<>> /\ phy.writes = <<>> /\ phy.done = {}

\* Reset, initialization and training are one state: none takes a command.
AcceptsCommand(phy) == phy.ready

AcceptsData(phy, type) ==
    phy.behavioral => IF type = "Read" THEN Len(phy.reads) < ReadFifo
                                       ELSE Len(phy.writes) < WriteFifo

\* submit_data
Submitted(phy, t) ==
    IF ~phy.behavioral THEN phy
    ELSE IF t.type = "Read" THEN [phy EXCEPT !.reads = Append(@, t)]
                            ELSE [phy EXCEPT !.writes = Append(@, t)]

\* complete_slot, a read
AfterRead(s) ==
    LET t == Head(s.phy.reads)
        c == [id |-> t.id, data |-> Restrict(Contents(s.img, t.line), t.cells)]
    IN  [phy |-> [s.phy EXCEPT !.reads = Tail(@), !.done = @ \union {c}],
         img |-> Touched(s.img, t.line)]

\* complete_slot, a write
AfterWrite(s) ==
    LET t == Head(s.phy.writes)
    IN  [phy |-> [s.phy EXCEPT !.writes = Tail(@),
                               !.done = @ \union {[id |-> t.id, data |-> t.data]}],
         img |-> Written(s.img, t.line, t.data)]

\* tick: one slot that is due leaves its FIFO.
PhySteps(phy, img) ==
    LET s == [phy |-> phy, img |-> img]
    IN  (IF phy.reads = <<>> THEN {} ELSE {AfterRead(s)})
        \union (IF phy.writes = <<>> THEN {} ELSE {AfterWrite(s)})

\* take_completion
Completions(phy, id) == {c \in phy.done : c.id = id}

Taken(phy, id) == [phy EXCEPT !.done = @ \ Completions(phy, id)]
=============================================================================
