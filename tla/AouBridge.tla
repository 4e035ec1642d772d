------------------------------ MODULE AouBridge ------------------------------
(***************************************************************************)
(* The AXI to flit bridge (axi2flit/systemc/src): the AW, W, AR, B and R       *)
(* channel threads, the packer and the unpacker, between an AXI master and    *)
(* the link's two FIFOs.                                                     *)
(*                                                                         *)
(* An action is what one thread does at one rising clock edge.  The threads   *)
(* share only FIFOs of one writer and one reader, so their order within an    *)
(* edge makes no difference but for when an item is seen, and interleaving    *)
(* them covers every order.  A ready that was promised at an earlier edge     *)
(* holds when it is used, because nobody else fills the FIFO, so a handshake   *)
(* is one action.  The registered handshakes of the UCIe adapter are hand-     *)
(* overs between the packer's output register, the FIFOs and the unpacker.    *)
(*                                                                         *)
(* The AXI master keeps AXI's rules: W beats in the order of their AWs, and    *)
(* ready for a response at some time.  Transactions are known by number.      *)
(***************************************************************************)
EXTENDS CreditManager, SequencesExt

(* Messages and flits: the flit under construction (aou_types.h, AouFlit) and   *)
(* the stream decoder of a receiver (aou_stream_decoder.h), as operators.       *)
(* A message is a record with its lane, its size in granules and the           *)
(* transaction and beat it belongs to; the bytes are abstracted.  A flit is     *)
(* the sequence of the fragments in it, in granule order, with the credit       *)
(* grant of its header.  A fragment that does not begin its message has no      *)
(* MsgStart bit.                                                             *)

CONSTANTS
    FlitGranules,   \* GRANULE_COUNT
    ReqGranules,    \* WREQ_GRANULES and RREQ_GRANULES
    DataGranules,   \* wdata_granules and rdata_granules of the bus width
    FullGranules,   \* wdatafull_granules of the bus width
    RespGranules,   \* WRESP_GRANULES
    GrantGranules   \* MISC_CRDTGRANT_GRANULES

ASSUME WireAssumption ==
    /\ FlitGranules \in Nat
    /\ {ReqGranules, DataGranules, FullGranules, RespGranules, GrantGranules}
           \subseteq 1 .. FlitGranules
    /\ FullGranules <= DataGranules

Message(kind, rp, size, tx, beat) ==
    [lane |-> <<rp, kind>>, size |-> size, tx |-> tx, beat |-> beat]

\* build_crdt_grant_message: credits for any lanes in a message of its own.
CrdtGrant(grant) ==
    [lane |-> <<0, "MISC">>, size |-> GrantGranules, grant |-> grant]

IsGrant(m) == m.lane[2] = "MISC"

None == <<>>

\* The sum of F over the elements of a sequence.
SumOver(F(_), s) ==
    LET sum[i \in 0 .. Len(s)] == IF i = 0 THEN 0 ELSE sum[i - 1] + F(s[i])
    IN  sum[Len(s)]

\* F(x).  (Choosing from a singleton makes TLC evaluate x once, where it would
\* evaluate an argument at each of its uses.)
With(x, F(_)) == CHOOSE y \in {F(z) : z \in {x}} : TRUE

\* F applied n times to x.
Iterate(F(_), n, x) ==
    LET times[i \in 0 .. n] == IF i = 0 THEN x ELSE With(times[i - 1], F)
    IN  times[n]

EmptyFlit == [parts |-> <<>>, used |-> 0, credit |-> <<>>]

Room(flit) == FlitGranules - flit.used

\* pack_fragment: the part of m from granule `from` on that the flit has room for.
Fits(flit, m, from) == Least(m.size - from, Room(flit))

PackFragment(flit, m, from) ==
    [flit EXCEPT
        !.parts = Append(@, [msg |-> m, from |-> from, take |-> Fits(flit, m, from)]),
        !.used = @ + Fits(flit, m, from)]

-----------------------------------------------------------------------------
\* consume: the carry is None or the message begun in an earlier flit with the
\* granules of it at hand.  The result is the messages completed, the new carry,
\* and whether the decoder rejects the flit or would join what does not belong
\* together.
Decode(carry, flit) ==
    LET resumes == carry # None /\ flit.parts # <<>>
        first   == Head(flit.parts)
        joined  == resumes /\ first.msg = carry.msg /\ first.from = carry.have
        last(p) == p.from + p.take = p.msg.size
        ended   == SelectSeq(flit.parts, last)
        open    == SelectSeq(flit.parts, LAMBDA p : ~last(p))
        orphans == {i \in DOMAIN flit.parts :
                        flit.parts[i].from > 0 /\ ~(i = 1 /\ joined)}
    IN  [messages |-> [i \in DOMAIN ended |-> ended[i].msg],
         carry    |-> IF open = <<>> THEN None
                      ELSE [msg |-> Last(open).msg,
                            have |-> Last(open).from + Last(open).take],
         bad      |-> (carry # None /\ ~joined) \/ orphans # {} \/ Len(open) > 1]

-----------------------------------------------------------------------------
(* The bridge. *)

CONSTANTS
    Txns,         \* the transactions: [write, rp, id, len, full], by number
    Programs,     \* sets of transactions, one of which the master issues
    RxDepth,      \* messages a receive FIFO has room for, by lane kind
    TxReqDepth,   \* TX_REQ_FIFO_DEPTH_PER_RP
    TxDataDepth,  \* TX_WDATA_FIFO_DEPTH_PER_RP
    PackPerCycle, \* PACK_MSGS_PER_CYCLE
    RoutePerCycle,\* UNPACK_MSGS_PER_CYCLE
    IdleLimit,    \* CREDIT_RETURN_TIMEOUT_CYCLES
    LinkDepth     \* room of the link's FIFOs, what is on its way included

ASSUME BridgeAssumption ==
    /\ NRp \in 1 .. 4
    /\ \A t \in DOMAIN Txns : Txns[t].rp \in Rps /\ Txns[t].len \in Nat \ {0}
    /\ RxDepth \in [ResponseKinds -> Nat \ {0}]
    /\ Programs \subseteq SUBSET DOMAIN Txns
    /\ {TxReqDepth, TxDataDepth, PackPerCycle, RoutePerCycle, LinkDepth}
           \subseteq Nat \ {0}
    /\ IdleLimit \in Nat \ {0}

VARIABLES
    issued,  \* transactions whose address the master has handed over
    wleft,   \* the master's W beats still to come: [tx, beat], in AW order
    done,    \* response beats the master has taken, by transaction
    guard,   \* RpOrderGuard: the tables, and whether it counted a violation
    routes,  \* write_route_fifo and the W thread's route: [rp, left]
    pk,      \* the packer and its request FIFOs
    upd,     \* credit_update_fifo
    ret,     \* credit_return_fifo
    un,      \* the unpacker
    rx,      \* rdata_fifo and wresp_fifo, by lane
    chan,    \* the B and R threads: the message on the channel, next_rp
    fwd,     \* flits on their way to the target
    rev,     \* flits on their way to the bridge
    fault    \* a fatal report was made

hostVars == <<issued, wleft, done, guard>>
bridgeVars == <<hostVars, routes, pk, upd, ret, un, rx, chan>>

\* What the bridge can receive: its initial capacity.
BridgeCapacity ==
    [l \in Lanes |-> IF l[2] = "RDATA" THEN RxDepth["RDATA"] * DataGranules
                     ELSE IF l[2] = "WRESP" THEN RxDepth["WRESP"] * RespGranules
                     ELSE 0]

Ids == {Txns[t].id : t \in DOMAIN Txns}

Answers(t) == IF Txns[t].write THEN 1 ELSE Txns[t].len

\* After reset: the whole receive capacity waits to be granted, and the first
\* idle edge grants.  Transactions outside the program count as over.
BridgeInit ==
    /\ \E program \in Programs :
           /\ issued = DOMAIN Txns \ program
           /\ done = [t \in DOMAIN Txns |-> IF t \in program THEN 0 ELSE Answers(t)]
    /\ wleft = <<>>
    /\ guard = [bound |-> [k \in BOOLEAN \X Ids |-> [rp |-> 0, n |-> 0]],
                violated |-> FALSE]
    /\ routes = <<>>
    /\ pk = [fifo |-> [l \in Lanes |-> <<>>], slot |-> [l \in Lanes |-> None],
             cm |-> Manager(BridgeCapacity), cur |-> EmptyFlit, out |-> None,
             spill |-> None, idle |-> IdleLimit - 1, next_rp |-> 0]
    /\ upd = <<>>
    /\ ret = <<>>
    /\ un = [holding |-> FALSE, msgs |-> <<>>, creds |-> <<>>, carry |-> None]
    /\ rx = [l \in Rps \X ResponseKinds |-> <<>>]
    /\ chan = [k \in ResponseKinds |-> [msg |-> None, next_rp |-> 0]]

-----------------------------------------------------------------------------
(* The channel threads *)

\* The next transaction of a direction: the master issues them by number.
NextUp(t) ==
    /\ t \in DOMAIN Txns \ issued
    /\ \A u \in 1 .. t - 1 : Txns[u].write = Txns[t].write => u \in issued

\* A slip: one transaction in flight on another plane does not count.
BindOffByOne(t) ==
    LET k == <<Txns[t].write, Txns[t].id>>
        e == guard.bound[k]
        clash == e.n > 1 /\ e.rp # Txns[t].rp
    IN  [bound |-> [guard.bound EXCEPT ![k] =
                        [rp |-> IF clash THEN e.rp ELSE Txns[t].rp, n |-> e.n + 1]],
         violated |-> guard.violated \/ clash]

\* bind: an ID that is in use on another plane is a violation; it is counted.
Bind(t) ==
    LET k == <<Txns[t].write, Txns[t].id>>
        e == guard.bound[k]
        clash == e.n # 0 /\ e.rp # Txns[t].rp
    IN  [bound |-> [guard.bound EXCEPT ![k] =
                        [rp |-> IF clash THEN e.rp ELSE Txns[t].rp, n |-> e.n + 1]],
         violated |-> guard.violated \/ clash]

Retire(t) ==
    [guard EXCEPT !.bound[<<Txns[t].write, Txns[t].id>>].n =
        IF @ = 0 THEN 0 ELSE @ - 1]

Offer(m) == [pk EXCEPT !.fifo[m.lane] = Append(@, m)]

AcceptAw(t) ==
    /\ NextUp(t)
    /\ Txns[t].write
    /\ Len(routes) <= TxReqDepth * NRp    \* one of them in the W thread's register
    /\ \A rp \in Rps : Len(pk.fifo[<<rp, "WREQ">>]) < TxReqDepth
    /\ issued' = issued \cup {t}
    /\ wleft' = Append(wleft, [tx |-> t, beat |-> 1])
    /\ guard' = Bind(t)
    /\ pk' = Offer(Message("WREQ", Txns[t].rp, ReqGranules, t, 0))
    /\ routes' = Append(routes, [rp |-> Txns[t].rp, left |-> Txns[t].len])
    /\ UNCHANGED <<done, upd, ret, un, rx, chan, fwd, rev, fault>>

\* A beat goes where the oldest open route leads.
AcceptW ==
    /\ wleft # <<>>
    /\ routes # <<>>
    /\ LET t    == Head(wleft).tx
           beat == Head(wleft).beat
           r    == Head(routes)
           size == IF Txns[t].full THEN FullGranules ELSE DataGranules
       IN  /\ Len(pk.fifo[<<r.rp, "WDATA">>]) < TxDataDepth
           /\ pk' = Offer(Message("WDATA", r.rp, size, t, beat))
           /\ wleft' = IF beat = Txns[t].len THEN Tail(wleft)
                       ELSE [wleft EXCEPT ![1].beat = beat + 1]
           /\ routes' = IF r.left = 1 THEN Tail(routes)
                        ELSE [routes EXCEPT ![1].left = r.left - 1]
           \* axi_wlast_matches
           /\ fault' = (fault \/ (r.left = 1) # (beat = Txns[t].len))
    /\ UNCHANGED <<issued, done, guard, upd, ret, un, rx, chan, fwd, rev>>

AcceptAr(t) ==
    /\ NextUp(t)
    /\ ~Txns[t].write
    /\ \A rp \in Rps : Len(pk.fifo[<<rp, "RREQ">>]) < TxReqDepth
    /\ issued' = issued \cup {t}
    /\ guard' = Bind(t)
    /\ pk' = Offer(Message("RREQ", Txns[t].rp, ReqGranules, t, 0))
    /\ UNCHANGED <<wleft, done, routes, upd, ret, un, rx, chan, fwd, rev, fault>>

\* The B thread and the R thread: a response that is taken gives its credit
\* back, and at the same edge the next one is fetched, the planes in turn.
\* Only the last beat of a read retires its ID.
ChannelTick(kind, ready) ==
    LET c     == chan[kind]
        taken == c.msg # None /\ ready
        last  == kind = "WRESP" \/ c.msg.beat = Txns[c.msg.tx].len
        full  == {rp \in Rps : rx[<<rp, kind>>] # <<>>}
        rp    == FirstFrom(c.next_rp, full)
    IN  /\ IF taken
           THEN /\ ret' = Append(ret, [lane |-> c.msg.lane, n |-> c.msg.size])
                /\ done' = [done EXCEPT ![c.msg.tx] = @ + 1]
                /\ guard' = IF last THEN Retire(c.msg.tx) ELSE guard
           ELSE UNCHANGED <<ret, done, guard>>
        /\ IF (taken \/ c.msg = None) /\ full # {}
           THEN /\ chan' = [chan EXCEPT ![kind] =
                               [msg |-> Head(rx[<<rp, kind>>]),
                                next_rp |-> (rp + 1) % NRp]]
                /\ rx' = [rx EXCEPT ![<<rp, kind>>] = Tail(@)]
           ELSE /\ chan' = IF taken THEN [chan EXCEPT ![kind].msg = None] ELSE chan
                /\ UNCHANGED rx
        /\ UNCHANGED <<issued, wleft, routes, pk, upd, un, fwd, rev, fault>>

-----------------------------------------------------------------------------
(* The packer *)

\* drain_credit_events: grants of the peer and buffer space given back.
Drained ==
    LET Granted1(cm, u) == AddTx(cm, u.lane, u.n)
        Freed1(cm, u) == ReturnRx(cm, BridgeCapacity, u.lane, u.n)
    IN  [pk EXCEPT !.cm = FoldLeft(Freed1, FoldLeft(Granted1, @, upd), ret)]

\* fill_staging_slots: an empty slot takes the head of its FIFO.
FillSlots(p) ==
    LET moves == {l \in Lanes : p.slot[l] = None /\ p.fifo[l] # <<>>}
    IN  [p EXCEPT
            !.slot = [l \in Lanes |-> IF l \in moves THEN Head(p.fifo[l]) ELSE @[l]],
            !.fifo = [l \in Lanes |-> IF l \in moves THEN Tail(@[l]) ELSE @[l]]]

\* The planes whose staged message of a kind has its credit.
Payable(p, kind) ==
    {rp \in Rps : LET l == <<rp, kind>> IN
        p.slot[l] # None /\ CanConsume(p.cm, l, p.slot[l].size)}

Candidates(p) == {kind \in RequestKinds : Payable(p, kind) # {}}

\* select_candidate: read requests first, then write requests, then data;
\* among the planes of a kind in turn.
Candidate(p) ==
    LET kind == CASE "RREQ" \in Candidates(p) -> "RREQ"
                  [] "RREQ" \notin Candidates(p) /\ "WREQ" \in Candidates(p) -> "WREQ"
                  [] OTHER -> "WDATA"
    IN  <<FirstFrom(p.next_rp, Payable(p, kind)), kind>>

\* consume_candidate: the whole message is paid for at once, and what the flit
\* has no room for spills over to the next.
ConsumeCandidate(p, l) ==
    LET m    == p.slot[l]
        took == Fits(p.cur, m, 0)
    IN  [p EXCEPT !.cm = Consume(@, l, m.size),
                  !.cur = PackFragment(@, m, 0),
                  !.slot[l] = None,
                  !.next_rp = (l[1] + 1) % NRp,
                  !.spill = IF took < m.size THEN [msg |-> m, done |-> took] ELSE None]

\* A slip: the granules that were sent are sent once more.
ResumeFromStart(p) ==
    LET s    == p.spill
        took == Fits(p.cur, s.msg, 0)
    IN  IF s = None THEN p
        ELSE [p EXCEPT !.cur = PackFragment(@, s.msg, 0),
                       !.spill = IF took < s.msg.size
                                 THEN [s EXCEPT !.done = took] ELSE None]

\* What is left of a message goes to the front of the next flit.
Resume(p) ==
    LET s    == p.spill
        took == Fits(p.cur, s.msg, s.done)
    IN  IF s = None THEN p
        ELSE [p EXCEPT !.cur = PackFragment(@, s.msg, s.done),
                       !.spill = IF s.done + took < s.msg.size
                                 THEN [s EXCEPT !.done = @ + took] ELSE None]

\* pack_cycle: n messages at most.  It is exhausted when it stops because no
\* message is left that can be paid for.
PackCycle(p) ==
    LET start(r) == [p |-> r, going |-> r.spill = None, exhausted |-> FALSE]
        Pack(f) ==
            IF Candidates(f) = {} THEN [p |-> f, going |-> FALSE, exhausted |-> TRUE]
            ELSE With(ConsumeCandidate(f, Candidate(f)), start)
        Step(c) == IF c.going /\ Room(c.p.cur) > 0 THEN With(FillSlots(c.p), Pack) ELSE c
    IN  IF p.spill # None /\ p.cur.used # 0
        THEN [p |-> p, going |-> FALSE, exhausted |-> FALSE]
        ELSE Iterate(Step, PackPerCycle, start(Resume(p)))

\* flush_flit with the credit of the header.
Flush(p) ==
    LET grant == HeaderGrant(p.cm)
    IN  [p EXCEPT !.out = [p.cur EXCEPT !.credit = grant],
                  !.cm = AfterHeader(@),
                  !.idle = IF grant = <<>> THEN @ ELSE 0,
                  !.cur = EmptyFlit]

\* A slip: credit returns wait for a flit to ride on.
DedicatedNever(p) == [p EXCEPT !.idle = 0]

\* send_dedicated_credit_grant: a flit with a CrdtGrant and no header credit.
Dedicated(p) ==
    [p EXCEPT !.out = PackFragment(EmptyFlit, CrdtGrant(MiscGrant(p.cm)), 0),
              !.cm = AfterMisc(@),
              !.idle = 0]

\* One edge of packing_thread.  The flush timeout is 0, so a flit leaves as
\* soon as it is full or nothing more can be packed.
PackerTick ==
    \E d \in {Drained} : \E c \in {PackCycle(d)} :
        LET p == c.p IN
        /\ pk' = CASE p.out # None -> p
                   [] p.out = None /\ p.cur.used > 0 ->
                        IF Room(p.cur) = 0 \/ c.exhausted THEN Flush(p) ELSE p
                   [] p.out = None /\ p.cur.used = 0 /\ Pending(p.cm) # {} ->
                        IF p.idle + 1 >= IdleLimit THEN Dedicated(p)
                        ELSE [p EXCEPT !.idle = @ + 1]
                   [] OTHER -> p
        /\ upd' = <<>>
        /\ ret' = <<>>
        /\ UNCHANGED <<hostVars, routes, un, rx, chan, fwd, rev, fault>>

\* The handshake of the output register with the adapter and its FIFO.
SendFlit ==
    /\ pk.out # None
    /\ Len(fwd) < LinkDepth
    /\ fwd' = Append(fwd, pk.out)
    /\ pk' = [pk EXCEPT !.out = None]
    /\ UNCHANGED <<hostVars, routes, upd, ret, un, rx, chan, rev, fault>>

-----------------------------------------------------------------------------
(* The unpacker *)

\* The credit events of a grant, one per lane.
Events(grant) ==
    LET ls == SetToSeq(DOMAIN grant)
    IN  [i \in DOMAIN ls |-> [lane |-> ls[i], n |-> grant[ls[i]]]]

\* route_messages: credit events first, then messages in order until a FIFO is
\* full.  State: what is still to route, the receive FIFOs and the events.
Route(s) ==
    LET Deliver(r) ==
            LET m == Head(r.msgs) IN
            [r EXCEPT !.msgs = Tail(@), !.rx[m.lane] = Append(@, m)]
        Blocked(r) ==
            \/ r.msgs = <<>>
            \/ Len(r.rx[Head(r.msgs).lane]) = RxDepth[Head(r.msgs).lane[2]]
        Step(r) == IF Blocked(r) THEN r ELSE Deliver(r)
    IN  Iterate(Step, RoutePerCycle, [s EXCEPT !.upd = @ \o s.creds, !.creds = <<>>])

\* One edge of unpacking_thread: route what is left, take the next flit if the
\* holding register is free, route again, release the register when empty.
UnpackerTick ==
    LET takes == ~un.holding /\ rev # <<>>
        grantsOf(d) ==
            FoldLeft(LAMBDA e, m : IF IsGrant(m) THEN e \o Events(m.grant) ELSE e,
                     Events(Head(rev).credit), d.messages)
        answers(d) == SelectSeq(d.messages, LAMBDA m : ~IsGrant(m))
    IN  \E before \in {Route([msgs |-> un.msgs, creds |-> un.creds,
                              rx |-> rx, upd |-> upd])} :
        \E d \in {IF takes THEN Decode(un.carry, Head(rev))
                  ELSE [messages |-> <<>>, carry |-> un.carry, bad |-> FALSE]} :
        \E after \in {IF takes THEN Route([before EXCEPT !.msgs = answers(d),
                                                         !.creds = grantsOf(d)])
                      ELSE before} :
            /\ rev' = IF takes THEN Tail(rev) ELSE rev
            /\ un' = [holding |-> (takes \/ un.holding)
                                    /\ (after.msgs # <<>> \/ after.creds # <<>>),
                      msgs |-> after.msgs, creds |-> after.creds, carry |-> d.carry]
            /\ rx' = after.rx
            /\ upd' = after.upd
            /\ fault' = (fault \/ d.bad)
            /\ UNCHANGED <<hostVars, routes, pk, ret, chan, fwd>>

BridgeNext ==
    \/ \E t \in DOMAIN Txns : AcceptAw(t)
    \/ AcceptW
    \/ \E t \in DOMAIN Txns : AcceptAr(t)
    \/ \E kind \in ResponseKinds, ready \in BOOLEAN : ChannelTick(kind, ready)
    \/ PackerTick
    \/ SendFlit
    \/ UnpackerTick
=============================================================================
