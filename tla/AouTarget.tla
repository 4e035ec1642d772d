------------------------------ MODULE AouTarget ------------------------------
(***************************************************************************)
(* The memory side of the bridge protocol                                   *)
(* (axi2flit/systemc/integration/aou_target.h): it takes requests and write   *)
(* data off the link, hands whole transactions to the memory and sends the    *)
(* answers back, all in one thread.                                         *)
(*                                                                         *)
(* TargetTick is one clock edge: receive, collect, assemble, submit and       *)
(* transmit, in this order.  Each is an operator from the target's state to    *)
(* its next one.  A failed require() is fatal: it leaves bad = TRUE behind.    *)
(***************************************************************************)
EXTENDS AouBridge

CONSTANTS
    RequestSlots,   \* REQUEST_SLOTS
    WdataGranules,  \* WDATA_GRANULES
    MaxOutstanding, \* MAX_OUTSTANDING
    MemDepth        \* room of the memory's FIFOs

ASSUME TargetAssumption ==
    /\ {RequestSlots, MaxOutstanding, MemDepth} \subseteq Nat \ {0}
    /\ WdataGranules \in Nat
    /\ DataGranules <= WdataGranules

VARIABLES
    tgt,    \* the target
    memreq, \* requests at the memory: [tx, got], got being the write's data
    memrsp  \* its answers on their way to the target, by transaction

targetVars == <<tgt, memreq, memrsp>>

TargetCapacity ==
    [l \in Lanes |-> CASE l[2] \in {"WREQ", "RREQ"} -> RequestSlots * ReqGranules
                       [] l[2] = "WDATA" -> WdataGranules
                       [] OTHER -> 0]

TargetInit ==
    /\ tgt = [writes |-> [rp \in Rps |-> <<>>], reads |-> [rp \in Rps |-> <<>>],
              data |-> [rp \in Rps |-> <<>>], tickets |-> <<>>,
              wrep |-> [rp \in Rps |-> <<>>], rrep |-> [rp \in Rps |-> <<>>],
              cm |-> Manager(TargetCapacity), carry |-> None, spill |-> None,
              out |-> 0, sub |-> 0, rep |-> 0, bad |-> FALSE]
    /\ memreq = <<>>
    /\ memrsp = <<>>

Group(tx) == <<Txns[tx].write, Txns[tx].rp, Txns[tx].id>>

Size(msgs) == SumOver(LAMBDA m : m.size, msgs)

Release(t, l, n) == [t EXCEPT !.cm = ReturnRx(@, TargetCapacity, l, n)]

-----------------------------------------------------------------------------
\* receive: the credits of the header, then the messages in order.
Receive(t, flit) ==
    LET d == Decode(t.carry, flit)
        Enqueue(s, m) ==
            LET rp == m.lane[1] IN
            CASE IsGrant(m) -> [s EXCEPT !.cm = AddGrant(@, m.grant)]
              [] m.lane[2] = "WREQ" ->
                    [s EXCEPT !.writes[rp] = Append(@, [tx |-> m.tx, got |-> <<>>]),
                              !.bad = @ \/ Len(s.writes[rp]) >= RequestSlots]
              [] m.lane[2] = "RREQ" ->
                    [s EXCEPT !.reads[rp] = Append(@, m.tx),
                              !.bad = @ \/ Len(s.reads[rp]) >= RequestSlots]
              [] m.lane[2] = "WDATA" ->
                    [s EXCEPT !.data[rp] = Append(@, m),
                              !.bad = @ \/ Size(s.data[rp]) + m.size > WdataGranules]
    IN  FoldLeft(Enqueue,
                 [t EXCEPT !.carry = d.carry, !.bad = d.bad,
                           !.cm = AddGrant(@, flit.credit)],
                 d.messages)

\* collect: an answer belongs to the oldest ticket of its group.
Collect(t, tx) ==
    LET mine == {i \in DOMAIN t.tickets : Group(t.tickets[i]) = Group(tx)}
        i == CHOOSE i \in mine : \A j \in mine : i <= j
        rp == Txns[tx].rp
    IN  CASE mine = {} -> [t EXCEPT !.bad = TRUE]
          [] mine # {} /\ Txns[tx].write ->
                [t EXCEPT !.tickets = RemoveAt(@, i), !.wrep[rp] = Append(@, tx)]
          [] OTHER ->
                [t EXCEPT !.tickets = RemoveAt(@, i),
                          !.rrep[rp] = Append(@, [tx |-> tx, beat |-> 1]),
                          !.bad = @ \/ Txns[tx].len # Txns[t.tickets[i]].len]

\* A slip: a write is handed over with its first beat.
CompleteEarly(job) == job.got # <<>>

Complete(job) == Len(job.got) = Txns[job.tx].len

\* assemble: on every plane one beat moves to the oldest write that lacks one,
\* and the window it occupied is given back.
Assemble(t) ==
    LET open(rp) == {j \in DOMAIN t.writes[rp] : ~Complete(t.writes[rp][j])}
        moves == {rp \in Rps : open(rp) # {} /\ t.data[rp] # <<>>}
        oldest(rp) == CHOOSE j \in open(rp) : \A k \in open(rp) : j <= k
        Move(s, rp) ==
            Release([s EXCEPT
                        !.writes[rp][oldest(rp)].got = Append(@, Head(s.data[rp])),
                        !.data[rp] = Tail(@)],
                    <<rp, "WDATA">>, Head(s.data[rp]).size)
    IN  FoldLeft(Move, t, SetToSeq(moves))

\* The request slots, two for each plane, reads first.
Slots == 0 .. 2 * NRp - 1

Ready(t) ==
    {s \in Slots : LET rp == s \div 2 IN
        IF s % 2 = 1 THEN t.writes[rp] # <<>> /\ Complete(Head(t.writes[rp]))
                     ELSE t.reads[rp] # <<>>}

NextSlot(t) ==
    CHOOSE s \in Ready(t) : \A o \in Ready(t) :
        (s - t.sub) % (2 * NRp) <= (o - t.sub) % (2 * NRp)

CanSubmit(t) ==
    Ready(t) # {} /\ t.out < MaxOutstanding /\ Len(memreq) < MemDepth

\* What submit writes to the memory's FIFO.
Request(t) ==
    LET rp == NextSlot(t) \div 2 IN
    IF NextSlot(t) % 2 = 1 THEN Head(t.writes[rp])
    ELSE [tx |-> Head(t.reads[rp]), got |-> <<>>]

Submit(t) ==
    LET rp == NextSlot(t) \div 2
        wr == NextSlot(t) % 2 = 1
        s == [t EXCEPT !.tickets = Append(@, Request(t).tx), !.out = @ + 1,
                       !.sub = (NextSlot(t) + 1) % (2 * NRp)]
    IN  IF ~CanSubmit(t) THEN t
        ELSE IF wr THEN Release([s EXCEPT !.writes[rp] = Tail(@)],
                                <<rp, "WREQ">>, ReqGranules)
        ELSE Release([s EXCEPT !.reads[rp] = Tail(@)], <<rp, "RREQ">>, ReqGranules)

-----------------------------------------------------------------------------
\* Planes with an answer the bridge has granted room for.
PayableWrites(t) ==
    {rp \in Rps : t.wrep[rp] # <<>> /\ CanConsume(t.cm, <<rp, "WRESP">>, RespGranules)}
PayableReads(t) ==
    {rp \in Rps : t.rrep[rp] # <<>> /\ CanConsume(t.cm, <<rp, "RDATA">>, DataGranules)}

\* next_message: write responses first, then a beat of read data, the planes in
\* turn.  The message and whether it is the last of its transaction.
NextMessage(t) ==
    IF PayableWrites(t) # {}
    THEN LET rp == FirstFrom(t.rep, PayableWrites(t)) IN
         [msg |-> Message("WRESP", rp, RespGranules, Head(t.wrep[rp]), 1),
          completes |-> TRUE]
    ELSE LET rp == FirstFrom(t.rep, PayableReads(t))
             r  == Head(t.rrep[rp])
         IN  [msg |-> Message("RDATA", rp, DataGranules, r.tx, r.beat),
              completes |-> r.beat = Txns[r.tx].len]

TakeReply(t, n) ==
    LET rp == n.msg.lane[1]
        s == [t EXCEPT !.cm = Consume(@, n.msg.lane, n.msg.size),
                       !.rep = (rp + 1) % NRp]
    IN  CASE n.msg.lane[2] = "WRESP" -> [s EXCEPT !.wrep[rp] = Tail(@)]
          [] n.msg.lane[2] = "RDATA" /\ n.completes -> [s EXCEPT !.rrep[rp] = Tail(@)]
          [] OTHER -> [s EXCEPT !.rrep[rp][1].beat = @ + 1]

Freed(completes) == IF completes THEN 1 ELSE 0

\* The rest of a message that did not fit goes first; its transaction's slot is
\* free when it is through.  State: the target and the flit.
ResumeSpill(c) ==
    LET s    == c.t.spill
        took == Fits(c.f, s.msg, s.done)
    IN  IF s = None THEN c
        ELSE [f |-> PackFragment(c.f, s.msg, s.done),
              t |-> IF s.done + took < s.msg.size
                    THEN [c.t EXCEPT !.spill.done = @ + took]
                    ELSE [c.t EXCEPT !.spill = None,
                                     !.out = @ - Freed(s.completes)]]

\* A slip: the slot of a transaction is free although its last message spills.
PackReplyEarly(c) ==
    LET n    == NextMessage(c.t)
        took == Fits(c.f, n.msg, 0)
        s    == TakeReply(c.t, n)
    IN  [f |-> PackFragment(c.f, n.msg, 0),
         t |-> [s EXCEPT !.out = @ - Freed(n.completes),
                         !.spill = IF took = n.msg.size THEN None
                                   ELSE [msg |-> n.msg, done |-> took,
                                         completes |-> n.completes]]]

PackReply(c) ==
    LET packed(n) ==
            LET took == Fits(c.f, n.msg, 0)
                s    == TakeReply(c.t, n)
            IN  [f |-> PackFragment(c.f, n.msg, 0),
                 t |-> IF took < n.msg.size
                       THEN [s EXCEPT !.spill = [msg |-> n.msg, done |-> took,
                                                 completes |-> n.completes]]
                       ELSE [s EXCEPT !.out = @ - Freed(n.completes)]]
    IN  With(NextMessage(c.t), packed)

\* transmit: at most one flit, none if it would be empty.
Transmit(t) ==
    LET Step(c) ==
            IF c.t.spill = None /\ Room(c.f) > 0
               /\ (PayableWrites(c.t) # {} \/ PayableReads(c.t) # {})
            THEN PackReply(c) ELSE c
        sent(c) == [t |-> [c.t EXCEPT !.cm = AfterHeader(@)],
                    f |-> [c.f EXCEPT !.credit = HeaderGrant(c.t.cm)]]
    IN  IF Len(rev) = LinkDepth THEN [t |-> t, f |-> EmptyFlit]
        ELSE With(Iterate(Step, FlitGranules, ResumeSpill([t |-> t, f |-> EmptyFlit])),
                  sent)

\* One edge of run().
TargetTick ==
    \E r \in {IF fwd = <<>> THEN tgt ELSE Receive(tgt, Head(fwd))} :
    \E c \in {IF memrsp = <<>> THEN r ELSE Collect(r, Head(memrsp))} :
    \E a \in {Assemble(c)} :
    \E s \in {Submit(a)} :
    \E x \in {Transmit(s)} :
        /\ fwd' = IF fwd = <<>> THEN fwd ELSE Tail(fwd)
        /\ memrsp' = IF memrsp = <<>> THEN memrsp ELSE Tail(memrsp)
        /\ memreq' = IF CanSubmit(a) THEN Append(memreq, Request(a)) ELSE memreq
        /\ tgt' = [x.t EXCEPT !.bad = FALSE]
        /\ rev' = IF x.f = EmptyFlit THEN rev ELSE Append(rev, x.f)
        /\ fault' = (fault \/ a.bad)
        /\ UNCHANGED bridgeVars
=============================================================================
