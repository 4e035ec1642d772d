---------------------------- MODULE MemController ----------------------------
(***************************************************************************)
(* The controller of one memory channel                                     *)
(* (mem_sim/src/controller/controller.cpp): it queues reads and writes,        *)
(* buffers the data of queued writes, answers reads from that buffer, brings   *)
(* banks and requests together command by command, and inserts maintenance.    *)
(*                                                                         *)
(* A clock tick is cut at its stages, which are actions: a PHY slot, a         *)
(* completion, the managers, and one command per bus.  Which commands' timing   *)
(* is met when, and every latency, is left open: a command that is legal and    *)
(* first in its order may issue, or not yet.                                *)
(*                                                                         *)
(* The frontend submits one request at a time, so that the order of arrival is  *)
(* that of the controller's sequence numbers, which are the ids here.         *)
(***************************************************************************)
EXTENDS DramBanks, SequencesExt, FiniteSetsExt

CONSTANTS
    Confs,       \* configurations to start in
    ReadShapes,  \* the reads submitted: [line, off, cells]
    WriteShapes, \* the writes: [line, off, cells, mask, whole]
    ReadMax, WriteMax, PriorityMax, \* room of the queues
    RespMax,     \* response_queue_capacity
    High, Low    \* watermarks of the write queue

ASSUME QueueAssumption ==
    /\ {ReadMax, WriteMax, PriorityMax, RespMax} \subseteq Nat \ {0}
    /\ Low <= High /\ High <= WriteMax

\* The ranks share the banks; a shape names bytes of its line, and a write without a
\* mask fills them all.
ASSUME ConfAssumption ==
    \A c \in Confs :
        /\ c \in [fcfs : BOOLEAN, dual : BOOLEAN, split : BOOLEAN, behavioral : BOOLEAN,
                  ranks : 1 .. NBanks, allBank : BOOLEAN,
                  policy : {"Open", "Closed", "Cap"}, creditLimit : Nat,
                  requests : Nat, deadlines : Nat]
        /\ NBanks % c.ranks = 0

ASSUME ShapeAssumption ==
    /\ ReadShapes \subseteq [line : Lines, off : Nat, cells : SUBSET Cells]
    /\ WriteShapes \subseteq [line : Lines, off : Nat, cells : SUBSET Cells,
                              mask : SUBSET Cells, whole : BOOLEAN]
    /\ \A w \in WriteShapes : w.mask \subseteq w.cells /\ (w.whole => w.mask = w.cells)

VARIABLES
    conf,   \* [fcfs, dual, split, behavioral, ranks, allBank, policy, creditLimit],
            \* and two bounds: requests accepted, and deadlines of the refresh
    seq,    \* requests accepted so far
    queue,  \* the queues Active, Priority, Read and Write
    wait,   \* pending_maintenance_
    pend,   \* pending_: requests whose data command has issued, and bypasses
    wbuf,   \* buffered_writes_: the data of the queued writes, by address
    wmode,  \* write_mode_
    bank, pol, ref, rfm, phy, img,
    resp,   \* responses_
    golden, \* the number of the last accepted write of every cell
    due     \* deadlines passed, refreshes issued by rank, ticks since the last

vars == <<conf, seq, queue, wait, pend, wbuf, wmode, bank, pol, ref, rfm, phy,
          img, resp, golden, due>>

managers == <<ref, rfm, pol>>

Init ==
    /\ conf \in Confs
    /\ seq = 0
    /\ queue = [k \in {"Active", "Priority", "Read", "Write"} |-> <<>>]
    /\ wait = <<>> /\ pend = <<>> /\ wbuf = {} /\ wmode = FALSE
    /\ bank = Bank0 /\ pol = Policy0 /\ ref = Refresh0(conf) /\ rfm = Rfm0(conf)
    /\ phy = Phy0(conf.behavioral) /\ img = Image0
    /\ resp = <<>>
    /\ golden = [l \in Lines |-> [c \in Cells |-> 0]]
    /\ due = [passed |-> 0, issued |-> [r \in Ranks(conf) |-> 0], since |-> conf.ranks]

-----------------------------------------------------------------------------
\* Enqueueing

Overlap(a, b) == a.line = b.line /\ a.cells \cap b.cells # {}

\* A slip: reads on their way are forgotten.
UnresolvedReadQueued(w, before) ==
    \E r \in Range(queue.Read) \union Range(queue.Active) :
        r.type = "Read" /\ r.id < before /\ Overlap(r, w)

\* has_unresolved_overlapping_read, among the reads before a number.
UnresolvedRead(w, before) ==
    \E r \in Range(queue.Read) \union Range(queue.Active) \union Range(pend) :
        r.type = "Read" /\ r.id < before /\ Overlap(r, w)

\* has_unresolved_overlapping_write
UnresolvedWrite(r) == \E w \in Range(pend) : w.type = "Write" /\ Overlap(r, w)

\* read_hits_buffered_write
Hits(r, w) == w.line = r.line /\ w.cells \cap DOMAIN w.data \cap r.cells # {}

\* read_forward_payload: of every cell the newest buffered write, or the image.
ForwardPayload(r) ==
    LET newest(c) == {w.data[c] : w \in {v \in wbuf : /\ v.line = r.line
                                                      /\ c \in v.cells \cap DOMAIN v.data}}
    IN  [c \in r.cells |-> IF newest(c) = {} THEN Contents(img, r.line)[c]
                                             ELSE Max(newest(c))]

Transaction(type, shape, data, expect) ==
    [type |-> type, id |-> seq + 1, line |-> shape.line, off |-> shape.off,
     cells |-> shape.cells, data |-> data, first |-> FALSE, cmd |-> "None",
     expect |-> expect]

NewRead(shape) ==
    Transaction("Read", shape, <<>>, Restrict(golden[shape.line], shape.cells))

NewWrite(shape) ==
    Transaction("Write", shape, [c \in shape.mask |-> seq + 1], <<>>)

Accept == seq < conf.requests /\ seq' = seq + 1

Record(shape) ==
    golden' = [golden EXCEPT ![shape.line] =
                 [c \in Cells |-> IF c \in shape.mask THEN seq + 1 ELSE @[c]]]

ForwardRead(shape) ==
    LET r == NewRead(shape) IN
    /\ \E w \in wbuf : Hits(r, w)
    /\ Accept
    /\ pend' = Append(pend, [r EXCEPT !.cmd = "Bypass", !.data = ForwardPayload(r)])
    /\ img' = Touched(img, shape.line)
    /\ UNCHANGED <<conf, queue, wait, wbuf, wmode, bank, managers, phy, resp, golden, due>>

QueueRead(shape) ==
    LET r == NewRead(shape) IN
    /\ \A w \in wbuf : ~Hits(r, w)
    /\ Len(queue.Read) < ReadMax
    /\ Accept
    /\ queue' = [queue EXCEPT !.Read = Append(@, r)]
    /\ UNCHANGED <<conf, wait, pend, wbuf, wmode, bank, managers, phy, img, resp, golden, due>>

SameAddress(w, shape) == w.line = shape.line /\ w.off = shape.off

\* The bytes of one write over those of another.
Over(upper, lower) ==
    [c \in DOMAIN upper \union DOMAIN lower |->
        IF c \in DOMAIN upper THEN upper[c] ELSE lower[c]]

\* A slip: the older bytes win.
MergedOldFirst(w, new, whole) == [w EXCEPT !.data = Over(@, new.data)]

\* A write to the address of a buffered one: its data are merged into that
\* one's, or replace them when no byte is masked, and it needs no command.
Merged(w, new, whole) ==
    IF whole THEN [w EXCEPT !.cells = new.cells, !.data = new.data]
             ELSE [w EXCEPT !.data = Over(new.data, @)]

CoalesceWrite(shape) ==
    LET new == NewWrite(shape) IN
    \E w \in wbuf :
        /\ SameAddress(w, shape)
        /\ ~UnresolvedRead(new, seq + 1)
        /\ Accept
        /\ wbuf' = (wbuf \ {w}) \union {Merged(w, new, shape.whole)}
        /\ pend' = Append(pend, [new EXCEPT !.cmd = "Bypass"])
        /\ Record(shape)
        /\ UNCHANGED <<conf, queue, wait, wmode, bank, managers, phy, img, resp, due>>

QueueWrite(shape) ==
    LET new == NewWrite(shape) IN
    /\ \A w \in wbuf : ~SameAddress(w, shape)
    /\ Len(queue.Write) < WriteMax
    /\ Accept
    /\ queue' = [queue EXCEPT !.Write = Append(@, new)]
    /\ wbuf' = wbuf \union {[line |-> shape.line, off |-> shape.off,
                             cells |-> shape.cells, data |-> new.data]}
    /\ Record(shape)
    /\ UNCHANGED <<conf, wait, pend, wmode, bank, managers, phy, img, resp, due>>

Enqueue ==
    \/ \E shape \in ReadShapes : ForwardRead(shape) \/ QueueRead(shape)
    \/ \E shape \in WriteShapes : CoalesceWrite(shape) \/ QueueWrite(shape)

-----------------------------------------------------------------------------
\* Choosing a command

BankIdx(r) == IF r.type = "Maint" THEN r.bank ELSE BankOf[r.line]
Row(r) == IF r.type = "Maint" THEN NoRow ELSE RowOf[r.line]
First(r) == r.type # "Maint" /\ r.first

DataCommand(r) ==
    CASE r.type = "Read"  -> IF conf.policy = "Closed" THEN "RDA" ELSE "RD"
      [] r.type = "Write" -> IF conf.policy = "Closed" THEN "WRA" ELSE "WR"

\* next_command
NextCommand(r) ==
    LET b == BankIdx(r) IN
    IF r.type = "Maint"
    THEN CASE r.cmd \in AllBankCommands /\ RankBusy(conf, bank, b) -> "PREAB"
           [] r.cmd \in {"REFPB", "RFMPB"} /\ Busy(bank, b) -> "PREPB"
           [] OTHER -> r.cmd
    ELSE
    CASE bank[b].row = Row(r) -> DataCommand(r)
      [] Opened(bank, b) /\ bank[b].row # Row(r) -> "PREPB"
      [] bank[b].activating /\ ~Opened(bank, b) -> IF r.first THEN "ACT2" ELSE "None"
      [] OTHER -> IF ~conf.split THEN "ACT" ELSE IF r.first THEN "ACT2" ELSE "ACT1"

OnBus(cmd, bus) ==
    bus = "Unified" \/ (bus = "Column" <=> cmd \in DataCommands)

ActiveOn(b) == \E a \in Range(queue.Active) : BankIdx(a) = b

\* A slip: ordinary requests may close a bank that is in use.
ClosesActiveUnlessPre(r, cmd) ==
    /\ cmd \in AllBankCommands \union {"REFPB", "RFMPB"}
    /\ ActiveOn(BankIdx(r))

\* would_close_active
ClosesActive(r, cmd) ==
    CASE cmd \in AllBankCommands ->
            \E b \in RankBanks(conf.ranks, RankOf(conf.ranks, BankIdx(r))) : ActiveOn(b)
      [] cmd \in Closing \ AllBankCommands -> ActiveOn(BankIdx(r))
      [] OTHER -> FALSE

\* candidate_eligible
Eligible(kind, r, bus) ==
    LET cmd == NextCommand(r) IN
    /\ cmd # "None"
    /\ conf.behavioral /\ cmd \in ReadCommands => ~UnresolvedWrite(r)
    /\ r.type = "Write" => ~UnresolvedRead(r, r.id)
    /\ OnBus(cmd, bus)
    /\ kind # "Active" => ~ClosesActive(r, cmd)

\* phy_admission_ok
Admitted(r) ==
    /\ AcceptsCommand(phy)
    /\ NextCommand(r) \in DataCommands => AcceptsData(phy, r.type)

LegalNext(r) ==
    Legal(conf, bank, BankIdx(r), Row(r), First(r), NextCommand(r))

\* Commands with one gate are ready together.
SameGate(r, q) == BankIdx(r) = BankIdx(q) /\ NextCommand(r) = NextCommand(q)

\* select_scheduled_request: what the scheduler may choose, whatever timing
\* allows.  FCFS lets nobody pass the oldest; FR-FCFS takes the oldest that is
\* ready.
Selected(q, eligible, legal) ==
    IF conf.fcfs
    THEN {i \in legal : \A j \in eligible : q[i].id <= q[j].id}
    ELSE {i \in legal : \A j \in legal : q[j].id < q[i].id => ~SameGate(q[i], q[j])}

\* pick_best_ready_from.  A request whose time has come but which the PHY refuses
\* is no longer eligible.
Scheduled(kind, bus) ==
    LET q == queue[kind]
        eligible == {i \in DOMAIN q : Eligible(kind, q[i], bus)}
        legal == {i \in eligible : LegalNext(q[i])}
        refused == {i \in legal : ~Admitted(q[i])}
    IN  Selected(q, eligible \ refused, legal \ refused)

\* The active queue comes first; it is not looked at for the row bus.
ActiveChoices(bus) == IF bus = "Row" THEN {} ELSE Scheduled("Active", bus)

AheadOf(r, bus) == {i \in ActiveChoices(bus) : SameGate(queue.Active[i], r)}

\* service_pending_maintenance fills the priority queue before each choice.
Moved == Min({Len(wait), PriorityMax - Len(queue.Priority)})
PriorityNow == queue.Priority \o SubSeq(wait, 1, Moved)
WaitNow == SubSeq(wait, Moved + 1, Len(wait))

\* pick_priority_if drops PREPBs at the head whose bank has closed meanwhile.
Satisfied == Max({k \in 0 .. Len(PriorityNow) : \A i \in 1 .. k :
                    /\ PriorityNow[i].cmd = "PREPB"
                    /\ ~Busy(bank, PriorityNow[i].bank)})
PriorityLeft == SubSeq(PriorityNow, Satisfied + 1, Len(PriorityNow))
PolicyNow ==
    LET closed == {PriorityNow[i].bank : i \in 1 .. Satisfied} IN
    [accesses |-> [b \in Banks |-> IF b \in closed THEN 0 ELSE pol.accesses[b]],
     asked |-> [b \in Banks |-> b \notin closed /\ pol.asked[b]]]

\* set_write_mode
WriteModeNow ==
    IF ~wmode THEN Len(queue.Write) > High \/ queue.Read = <<>>
              ELSE ~(Len(queue.Write) < Low /\ queue.Read # <<>>)

\* A slip: in write mode reads never get a turn.
ReadsNeededNever == FALSE

\* pick_rw_if: in write mode the reads get a turn when a queued write waits for
\* one of them.
ReadsNeeded == \E w \in Range(queue.Write) : UnresolvedRead(w, w.id)

OrdinaryChoices(bus) ==
    LET pick(kind) == {<<kind, i>> : i \in Scheduled(kind, bus)}
        after(p, q) == ~SameGate(queue[p[1]][p[2]], queue[q[1]][q[2]])
    IN  IF ~WriteModeNow THEN pick("Read")
        ELSE pick("Write") \union
                (IF ReadsNeeded
                 THEN {p \in pick("Read") : \A w \in pick("Write") : after(p, w)}
                 ELSE {})

Buses == IF conf.dual THEN {"Column", "Row"} ELSE {"Unified"}

-----------------------------------------------------------------------------
\* Issuing it

Asked(b, cmd) == IF cmd \in {"ACT", "ACT1"} THEN RfmAsked(conf, rfm, b) ELSE <<>>

\* The effects of a command on the banks and the managers; before: the row
\* policy's state.
Command(r, cmd, before) ==
    LET b == BankIdx(r) IN
    /\ bank' = BankAfter(conf, bank, b, Row(r), cmd)
    /\ rfm' = RfmAfter(conf, rfm, b, cmd)
    /\ pol' = PolicyAfter(conf, before, b, cmd)
    /\ wait' = WaitNow \o Asked(b, cmd)

\* The write's data are those buffered under its address, which leave the
\* buffer with it.
BufferOf(r) == {w \in wbuf : SameAddress(w, r)}

Issued(r, cmd) ==
    IF r.type = "Write" /\ BufferOf(r) # {}
    THEN [r EXCEPT !.cmd = cmd, !.data = (CHOOSE w \in BufferOf(r) : TRUE).data]
    ELSE [r EXCEPT !.cmd = cmd]

\* retire_or_advance, for the request i of a queue; others: the queues once
\* the priority queue is served.
Advance(others, kind, i, cmd) ==
    LET r == queue[kind][i]
        t == Issued(r, cmd)
        marked == [r EXCEPT !.first = @ \/ cmd = "ACT1"]
    IN
    CASE cmd \in DataCommands ->
            /\ pend' = Append(pend, t)
            /\ wbuf' = IF r.type = "Write" THEN wbuf \ BufferOf(r) ELSE wbuf
            /\ phy' = Submitted(phy, t)
            /\ img' = IF r.type = "Write" /\ ~conf.behavioral
                      THEN Written(img, t.line, t.data) ELSE img
            /\ queue' = [others EXCEPT ![kind] = RemoveAt(@, i)]
      [] cmd \in {"ACT", "ACT1"} /\ kind # "Active" /\ Len(queue.Active) < NBanks ->
            /\ queue' = [others EXCEPT ![kind] = RemoveAt(@, i),
                                       !.Active = Append(@, marked)]
            /\ img' = ImageAfter(conf, img, BankIdx(r), Row(r), cmd)
            /\ UNCHANGED <<pend, wbuf, phy>>
      [] OTHER ->
            /\ queue' = [others EXCEPT ![kind][i] = marked]
            /\ img' = ImageAfter(conf, img, BankIdx(r), Row(r), cmd)
            /\ UNCHANGED <<pend, wbuf, phy>>

\* try_upgrade_row_policy_command
Upgrades(r, cmd) ==
    IF CapReached(conf, pol, BankIdx(r)) /\ cmd \in {"RD", "WR"}
    THEN {cmd, IF cmd = "RD" THEN "RDA" ELSE "WRA"} ELSE {cmd}

IssueActive(bus) ==
    \E i \in ActiveChoices(bus) :
        LET r == queue.Active[i] IN
        \E cmd \in Upgrades(r, NextCommand(r)) :
            /\ Command(r, cmd, pol)
            /\ Advance([queue EXCEPT !.Priority = PriorityNow], "Active", i, cmd)
            /\ UNCHANGED <<conf, seq, wmode, ref, resp, golden, due>>

\* Only the head of the priority queue is looked at.
IssueMaintenance(bus) ==
    /\ PriorityLeft # <<>>
    /\ LET r == Head(PriorityLeft)
           cmd == NextCommand(r)
           rank == RankOf(conf.ranks, r.bank)
       IN  /\ Eligible("Priority", r, bus) /\ LegalNext(r) /\ Admitted(r)
           /\ AheadOf(r, bus) = {}
           /\ Command(r, cmd, PolicyNow)
           /\ img' = ImageAfter(conf, img, r.bank, NoRow, cmd)
           /\ queue' = [queue EXCEPT !.Priority = IF cmd = r.cmd THEN Tail(PriorityLeft)
                                                                ELSE PriorityLeft]
           /\ due' = IF cmd \in {"REFPB", "REFAB"}
                     THEN [due EXCEPT !.issued[rank] = @ + 1] ELSE due
    /\ UNCHANGED <<conf, seq, pend, wbuf, wmode, ref, phy, resp, golden>>

\* Reads and writes are looked at only while no maintenance is queued.
IssueOrdinary(bus) ==
    /\ PriorityLeft = <<>>
    /\ wmode' = WriteModeNow
    /\ \E p \in OrdinaryChoices(bus) :
        LET r == queue[p[1]][p[2]] IN
        \E cmd \in Upgrades(r, NextCommand(r)) :
            /\ AheadOf(r, bus) = {}
            /\ Command(r, cmd, PolicyNow)
            /\ Advance([queue EXCEPT !.Priority = <<>>], p[1], p[2], cmd)
            /\ UNCHANGED <<conf, seq, ref, resp, golden, due>>

\* No timing is met: the choice still serves the priority queue and the mode.
NothingIssued ==
    /\ PriorityLeft = <<>>
    /\ wmode' = WriteModeNow
    /\ queue' = [queue EXCEPT !.Priority = <<>>]
    /\ wait' = WaitNow /\ pol' = PolicyNow
    /\ <<wmode, queue, wait, pol>>' # <<wmode, queue, wait, pol>>
    /\ UNCHANGED <<conf, seq, pend, wbuf, bank, ref, rfm, phy, img, resp, golden, due>>

Issue == \E bus \in Buses : IssueActive(bus) \/ IssueMaintenance(bus) \/ IssueOrdinary(bus)

-----------------------------------------------------------------------------
\* The other stages of a tick

\* advance_lifecycle ends in Ready.
PhyReady ==
    /\ ~phy.ready
    /\ phy' = [phy EXCEPT !.ready = TRUE]
    /\ UNCHANGED <<conf, seq, queue, wait, pend, wbuf, wmode, bank, managers, img,
                   resp, golden, due>>

PhyMoves ==
    /\ \E s \in PhySteps(phy, img) : phy' = s.phy /\ img' = s.img
    /\ UNCHANGED <<conf, seq, queue, wait, pend, wbuf, wmode, bank, managers,
                   resp, golden, due>>

\* complete_pending, for one request whose time has come: a bypass has its data,
\* a behavioral PHY delivers them, and with a direct one they are read now.
CompletePending ==
    \E i \in DOMAIN pend :
        LET t == pend[i]
            bypass == t.cmd = "Bypass"
            data == CASE bypass \/ t.type = "Write" -> t.data
                      [] ~bypass /\ t.type = "Read" /\ conf.behavioral ->
                            (CHOOSE c \in Completions(phy, t.id) : TRUE).data
                      [] OTHER -> Restrict(Contents(img, t.line), t.cells)
            touched == IF bypass \/ t.type = "Write" \/ conf.behavioral
                       THEN img ELSE Touched(img, t.line)
        IN  /\ Len(resp) < RespMax
            /\ bypass \/ ~conf.behavioral \/ Completions(phy, t.id) # {}
            /\ pend' = RemoveAt(pend, i)
            /\ phy' = IF bypass THEN phy ELSE Taken(phy, t.id)
            /\ img' = IF t.cmd \in {"RDA", "WRA"} THEN Precharged(touched, {BankOf[t.line]})
                                                  ELSE touched
            /\ resp' = Append(resp, [id |-> t.id, forwarded |-> bypass /\ t.type = "Read",
                                     matches |-> t.type = "Read" => data = t.expect])
            /\ UNCHANGED <<conf, seq, queue, wait, wbuf, wmode, bank, managers, golden, due>>

Ordinary == queue.Active # <<>> \/ queue.Read # <<>> \/ queue.Write # <<>>

\* schedule_refresh.  All ranks have the same deadlines, which are further apart
\* than the ranks are many.
ScheduleRefresh ==
    \E passed, window \in {{}, Ranks(conf)} :
        LET quiet == ~Ordinary /\ queue.Priority = <<>> /\ wait = <<>> /\ pend = <<>>
            t == RefreshTick(conf, ref, passed, window, Ordinary, quiet)
        IN  /\ passed # {} => due.passed < conf.deadlines /\ due.since = conf.ranks
            /\ window # {} => due.since = conf.ranks
            /\ ref' = t.ref
            /\ wait' = wait \o t.batch
            /\ due' = IF passed # {} THEN [due EXCEPT !.passed = @ + 1, !.since = 0]
                      ELSE [due EXCEPT !.since = Min({@ + 1, conf.ranks})]
            /\ <<ref, wait, due>>' # <<ref, wait, due>>
            /\ UNCHANGED <<conf, seq, queue, pend, wbuf, wmode, bank, rfm, pol, phy, img,
                           resp, golden>>

\* apply_row_policy_pre_schedule, for one bank.
ApplyRowPolicy ==
    \E b \in Banks :
        /\ WantsPrecharge(conf, pol, b) /\ ~ActiveOn(b)
        /\ Legal(conf, bank, b, NoRow, FALSE, "PREPB")
        /\ Len(queue.Priority) < PriorityMax
        /\ queue' = [queue EXCEPT !.Priority = Append(@, Maint("PREPB", b))]
        /\ pol' = [pol EXCEPT !.asked[b] = TRUE]
        /\ UNCHANGED <<conf, seq, wait, pend, wbuf, wmode, bank, ref, rfm, phy, img,
                       resp, golden, due>>

\* The memory system takes a response.
PopResponse ==
    /\ resp # <<>>
    /\ resp' = Tail(resp)
    /\ UNCHANGED <<conf, seq, queue, wait, pend, wbuf, wmode, bank, managers, phy, img,
                   golden, due>>

Tick == \/ PhyReady \/ PhyMoves \/ CompletePending \/ ScheduleRefresh
        \/ ApplyRowPolicy \/ Issue \/ NothingIssued

\* A controller with nothing to do only counts cycles.
Finished ==
    /\ seq = conf.requests /\ pend = <<>> /\ resp = <<>> /\ ~Ordinary
    /\ queue.Priority = <<>> /\ wait = <<>> /\ PhyIdle(phy)
    /\ UNCHANGED vars

Next == Enqueue \/ Tick \/ PopResponse \/ Finished

Spec == Init /\ [][Next]_vars

\* The clock goes on: while some timing gate can open, some latency end or a
\* response be taken, something of that happens.
FairSpec == Spec /\ WF_vars(PopResponse \/ Tick)

-----------------------------------------------------------------------------
\* Properties

Ids == 0 .. conf.requests

\* What retire_or_advance says of the active queue: nobody takes the bank that
\* a request has activated before the request's data command.  So an active
\* request's bank is being opened for it or holds its row, and it is alone there.
ActiveKeepsRow ==
    /\ \A a \in Range(queue.Active) :
          IF a.first /\ bank[BankIdx(a)].activating THEN TRUE
          ELSE bank[BankIdx(a)].row = Row(a)
    /\ \A i, j \in DOMAIN queue.Active :
          BankIdx(queue.Active[i]) = BankIdx(queue.Active[j]) => i = j

\* With the open-page policy the above holds: refresh, RFM, conflicting requests
\* and the scheduler never close the row under an active request.
OpenPageKeepsRow == conf.policy = "Open" => ActiveKeepsRow

\* What enqueue says of forwarded reads and the data check verifies: a read
\* returns the writes accepted before it and none accepted after it.
ReadsSeeAccepted == \A i \in DOMAIN resp : resp[i].matches

\* The same, but for a read answered from the write buffer in front of a
\* behavioral PHY (read_forward_payload fills up from an image that lacks the
\* writes in flight).  A read that went to the memory is never wrong, in
\* whatever order the scheduler served it.
MemoryReadsSeeAccepted ==
    \A i \in DOMAIN resp : (resp[i].forwarded /\ conf.behavioral) \/ resp[i].matches

\* A write leaves the buffer for the PHY and the PHY for the row buffer: when
\* nothing is on the way to a line, it holds the newest write of every cell.
LastWriteWins ==
    \A l \in Lines :
        \/ \E w \in wbuf : w.line = l
        \/ \E t \in Range(phy.writes) : t.line = l
        \/ Contents(img, l) = golden[l]

\* A deadline is served exactly once, early, at once or late: deadlines passed
\* are the refreshes issued, queued and owed, and a rank is ahead by at most one.
RefreshOwed ==
    \A r \in Ranks(conf) :
        LET queued(q) == Cardinality({i \in DOMAIN q :
                            /\ q[i].cmd \in {"REFPB", "REFAB"}
                            /\ RankOf(conf.ranks, q[i].bank) = r})
            credit == ref.rank[r].credit
        IN  /\ due.passed = due.issued[r] + queued(queue.Priority) + queued(wait) + credit
            /\ -1 <= credit

\* What refresh.cpp:64-84 makes of the limits, whenever work comes and goes between
\* deadlines: postponements are counted up to the limit until the rank owes nothing;
\* once every rank has had its turn after a deadline, one that still owes has postponed;
\* and a single rank owes what it postponed at most, and no more than the credit limit.
PostponedWithinLimits ==
    \A r \in Ranks(conf) :
        LET x == ref.rank[r] IN
        /\ x.postponed <= PostponeLimit
        /\ due.since = conf.ranks /\ x.credit > 0 => x.postponed > 0
        /\ conf.ranks = 1 =>
              /\ x.credit <= x.postponed
              /\ conf.creditLimit > 0 => x.credit <= conf.creditLimit

\* A bank is never activated past the threshold: when its count reaches it an
\* RFM for it is on the way, and nothing but that RFM activates it further.
RfmInTime ==
    \A b \in Banks :
        /\ rfm.acts[b] <= RfmThreshold
        /\ rfm.acts[b] = RfmThreshold =>
              /\ RfmPending(conf, rfm, b)
              /\ \E m \in Range(queue.Priority) \union Range(wait) :
                    m.cmd \in {"RFMPB", "RFMAB"}

\* Refresh and RFM keep their limits together: both wait in one priority queue, and
\* each refresh and RFM takes banks away from the other (refresh.cpp, rfm.cpp).
MaintenanceInTime == RefreshOwed /\ PostponedWithinLimits /\ RfmInTime

Drained ==
    /\ pend = <<>> /\ resp = <<>> /\ ~Ordinary /\ wbuf = {}
    /\ queue.Priority = <<>> /\ wait = <<>> /\ PhyIdle(phy)
    /\ \A r \in Ranks(conf) : ref.rank[r].credit <= 0

\* Every accepted request is answered and every owed refresh issued, although
\* maintenance holds ordinary requests back, active ones hold maintenance back,
\* write mode holds reads back and writes wait for older reads.
Drains == conf.policy = "Open" => <>[]Drained
=============================================================================
