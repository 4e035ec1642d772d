------------------------------ MODULE HostPath ------------------------------
(***************************************************************************)
(* The compute die of the gem5 system: a host and the Vortex device send packets   *)
(* through the traffic monitor and gem5's TLM bridge to the AXI master, which       *)
(* splits them for the bus (gem5_axi/configs/run_vortex.py joins the parts).        *)
(*                                                                         *)
(* External: gem5's bridge, which hands over one packet at a time until END_REQ and  *)
(* refuses others meanwhile; the device's DMA port, which sends an access as one     *)
(* packet, in order, and reports its end some time after the answer; the host, which  *)
(* does not wait for answers.  Time passes only while an atomic answer lies ahead.    *)
(***************************************************************************)
EXTENDS AxiBus, VortexDevice

CONSTANTS
    TraceIds,  \* how many IDs the traffic monitor has, 2^axi_id_bits
    Scenarios, \* [slave, atomics, host, commands], one of which is run
    MaxNow     \* bound on the time

ASSUME TraceAssumption == TraceIds \in Nat \ {0}

-----------------------------------------------------------------------------
(* The traffic monitor (het_axi_monitor.cc with unique_packet_ids) for one       *)
(* source: the ID of every packet on its way, the answers of atomic accesses      *)
(* that lie in the future, and what it writes to the trace (writer.h).            *)
(* A reader of the trace (ghost) checks that times do not go back, that no ID is  *)
(* begun twice, and that what is completed was begun.                             *)

\* ids: by packet; waiting: answers that are not written yet; open, last: the reader's.
Writer0 == [next |-> 0, ids |-> <<>>, waiting |-> {}, sequence |-> 0,
            open |-> {}, last |-> 0, ok |-> TRUE]

Live(t) == {t.ids[n] : n \in DOMAIN t.ids}

\* The first ID from next on, round, that is not in use.
Allocated(t) ==
    LET free == (0 .. TraceIds - 1) \ Live(t)
        ahead(i) == (i + TraceIds - t.next) % TraceIds
    IN  CHOOSE i \in free : \A j \in free : ahead(i) <= ahead(j)

At(t, now) == [t EXCEPT !.last = now, !.ok = @ /\ t.last <= now]

\* emitBegin: all segments of the packet n get one ID.
Begin(t, n, now) ==
    IF Cardinality(Live(t)) = TraceIds THEN [t EXCEPT !.ok = FALSE]
    ELSE LET id == Allocated(t) IN
         At([t EXCEPT !.next = (id + 1) % TraceIds,
                      !.ids = [i \in DOMAIN @ \union {n} |-> IF i = n THEN id ELSE @[i]],
                      !.open = @ \union {id}, !.ok = @ /\ id \notin t.open], now)

\* emitComplete.
Complete(t, n, now) ==
    IF n \notin DOMAIN t.ids THEN [t EXCEPT !.ok = FALSE]
    ELSE LET id == t.ids[n] IN
         At([t EXCEPT !.ids = [i \in DOMAIN @ \ {n} |-> @[i]],
                      !.open = @ \ {id}, !.ok = @ /\ id \in t.open], now)

\* flushAtomicCompletions: by time, then in the order of the requests.
Flush(t, until) ==
    LET due == {w \in t.waiting : w.at <= until}
        before(x, y) == x.at < y.at \/ (x.at = y.at /\ x.sequence < y.sequence)
        order == SetToSortSeq(due, before)
    IN  FoldLeft(LAMBDA s, w : Complete(s, w.n, w.at), [t EXCEPT !.waiting = @ \ due], order)

\* recvAtomic: the answer comes later than now, although the call returns now.
TraceAtomic(t, n, now, delay) ==
    LET s == Begin(Flush(t, now), n, now) IN
    Flush([s EXCEPT !.waiting = @ \union {[at |-> now + delay, n |-> n,
                                           sequence |-> s.sequence]},
                    !.sequence = @ + 1], now)

\* recvTimingReq, when the request is accepted: one that is refused leaves no trace.
TraceRequest(t, n, now) == Begin(Flush(t, now), n, now)

\* recvTimingResp, when the answer is accepted.
TraceResponse(t, n, now) == Complete(Flush(t, now), n, now)

\* closeTrace.
TraceClosed(t, forever) == Flush(t, forever)

-----------------------------------------------------------------------------
(* The compute die                                                           *)

VARIABLES
    plan,    \* what is left of the scenario: [atomics, host]
    now,
    m,       \* the master
    slave,
    d,       \* the device
    due,     \* accesses of the device that are answered and not reported
    traces,  \* the two writers, "host" and "vortex"
    pkts,    \* GHOST: every packet, with the answered ones when it was issued
    answers  \* GHOST: by packet, status and data

vars == <<plan, now, m, slave, d, due, traces, pkts, answers>>

Init ==
    \E s \in Scenarios :
        /\ plan = [atomics |-> s.atomics, host |-> s.host]
        /\ now = 0
        /\ m = Master0
        /\ slave = s.slave
        /\ d = Device0(s.commands)
        /\ due = {}
        /\ traces = [source \in {"host", "vortex"} |-> Writer0]
        /\ pkts = <<>> /\ answers = <<>>

Packet(access) == access @@ [n |-> Len(pkts) + 1]

Record(access, from, command) ==
    pkts' = Append(pkts, [p |-> Packet(access), from |-> from, command |-> command,
                          before |-> DOMAIN answers])

Source(from) == IF from = "host" THEN "host" ELSE "vortex"

\* What a functional access answers.
Functional(p) ==
    IF slave.kind = "aou" \/ p.cmd \notin {"read", "write"}
    THEN [status |-> "command error", got |-> {}]
    ELSE IF ~Inside(p.addr, p.len) THEN [status |-> "address error", got |-> {}]
    ELSE [status |-> "ok",
          got |-> IF p.cmd = "write" THEN {}
                  ELSE {<<j, Newest(slave.bytes, p.addr + j)>> : j \in p.on}]

\* Before the system switches to timing: the whole access at once (Master::blocking).
AtomicAccess(delay) ==
    /\ plan.atomics # <<>>
    /\ LET p == Packet(Head(plan.atomics)) IN
        /\ slave' = IF slave.kind = "ram" THEN RamAccess(slave, p) ELSE slave
        /\ m' = [m EXCEPT !.ok = @ /\ Idle(m)]
        /\ traces' = [traces EXCEPT !.host = TraceAtomic(@, p.n, now, delay)]
        /\ answers' = (p.n :> Functional(p)) @@ answers
    /\ Record(Head(plan.atomics), "host", 0)
    /\ plan' = [plan EXCEPT !.atomics = Tail(@)]
    /\ UNCHANGED <<now, d, due>>

TimePasses ==
    /\ now < MaxNow /\ \E source \in DOMAIN traces : traces[source].waiting # {}
    /\ now' = now + 1
    /\ UNCHANGED <<plan, m, slave, d, due, traces, pkts, answers>>

\* BEGIN_REQ: recvTimingReq of the monitor with a bridge that is free.
Request(access, from, command) ==
    /\ plan.atomics = <<>> /\ m.pending = <<>>
    /\ m' = [m EXCEPT !.pending = <<Packet(access)>>]
    /\ traces' = [traces EXCEPT ![Source(from)] = TraceRequest(@, Len(pkts) + 1, now)]
    /\ Record(access, from, command)

IsBell(step) == step.cmd = "bell"

HostIssues ==
    /\ plan.host # <<>> /\ ~IsBell(Head(plan.host))
    /\ Request(Head(plan.host), "host", 0)
    /\ plan' = [plan EXCEPT !.host = Tail(@)]
    /\ UNCHANGED <<now, slave, d, due, answers>>

HostRings ==
    /\ plan.host # <<>> /\ IsBell(Head(plan.host))
    /\ d' = Doorbell(d)
    /\ plan' = [plan EXCEPT !.host = Tail(@)]
    /\ UNCHANGED <<now, m, slave, due, traces, pkts, answers>>

DeviceIssues ==
    /\ d.port # <<>>
    /\ Request(Head(d.port).access, Head(d.port).kind, Head(d.port).command)
    /\ d' = [d EXCEPT !.port = Tail(@)]
    /\ due' = due \union {[kind |-> Head(d.port).kind, token |-> Head(d.port).token,
                           n |-> Len(pkts) + 1]}
    /\ UNCHANGED <<plan, now, slave, answers>>

\* One edge of the clock for master and slave.
BusTick(takes, r, b, admits, shows) ==
    LET master == MasterTick(m, takes, r, b, admits)
        other == SlaveTick(slave, m, takes, r, b, shows)
    IN  /\ m' = [master EXCEPT !.ok = @ /\ Steady(m, master, takes)]
        /\ slave' = [other EXCEPT !.ok = @ /\ SteadySlave(slave, other, r, b)]
    /\ UNCHANGED <<plan, now, d, due, traces, pkts, answers>>

\* The memory behind the fabric serves a burst.
MemoryServes ==
    /\ slave.kind = "aou" /\ slave' \in Served(slave)
    /\ UNCHANGED <<plan, now, m, d, due, traces, pkts, answers>>

\* END_RESP: recvTimingResp of the monitor.
Deliver ==
    /\ m.responding # <<>>
    /\ LET t == m.active[m.responding[1]] IN
        /\ answers' = (t.p.n :> [status |-> t.status, got |-> t.got]) @@ answers
        /\ traces' = [traces EXCEPT ![Source(pkts[t.p.n].from)] =
                          TraceResponse(@, t.p.n, now)]
    /\ m' = Responded(m)
    /\ UNCHANGED <<plan, now, slave, d, due, pkts>>

DmaDone(x) ==
    /\ x.n \in DOMAIN answers
    /\ d' = IF x.kind = "cp" THEN DmaComplete(d) ELSE CoreDmaComplete(d, x.token)
    /\ due' = due \ {x}
    /\ UNCHANGED <<plan, now, m, slave, traces, pkts, answers>>

CpEvent(waits) ==
    /\ d.cpEvent
    /\ d' = CpTick(d, waits)
    /\ UNCHANGED <<plan, now, m, slave, due, traces, pkts, answers>>

VortexEvent(k, issues) ==
    /\ d.vxEvent
    /\ d' = VortexTick(d, k, issues)
    /\ UNCHANGED <<plan, now, m, slave, due, traces, pkts, answers>>

Done ==
    /\ plan.atomics = <<>> /\ plan.host = <<>> /\ d.command = Len(d.commands) + 1
    /\ DOMAIN answers = DOMAIN pkts

\* The end of the simulation.
CloseTrace ==
    /\ Done
    /\ traces' = [source \in DOMAIN traces |-> TraceClosed(traces[source], 2 * MaxNow)]
    /\ UNCHANGED <<plan, now, m, slave, d, due, pkts, answers>>

Next ==
    \/ \E delay \in 0 .. MaxNow : AtomicAccess(delay)
    \/ TimePasses
    \/ HostIssues \/ HostRings \/ DeviceIssues
    \/ \E takes \in SUBSET Possible(m, slave), r \in RWires(slave) \union {<<>>},
          b \in BWires(slave) \union {<<>>}, admits, shows \in BOOLEAN :
          BusTick(takes, r, b, admits, shows)
    \/ MemoryServes \/ Deliver
    \/ \E x \in due : DmaDone(x)
    \/ \E waits \in BOOLEAN : CpEvent(waits)
    \/ \E k \in Deliverable(d), issues \in BOOLEAN : VortexEvent(k, issues)
    \/ CloseTrace

Spec == Init /\ [][Next]_vars

\* gem5 runs the events that are scheduled, the clock among them.  A step that changes
\* anything brings the work forward (an edge at which nothing is ready changes nothing), so
\* that it need not be said which of them happen.
FairSpec == Spec /\ WF_vars(Next)

-----------------------------------------------------------------------------
\* Properties

\* No assertion fails on the way: the master finds the packet of every answer, beats
\* and last flags agree with both slaves' cursors, an offered payload stays until it is
\* taken (axi_master.cc:141-160, axi_ram.cc, aou_backend.cc:198-220, axi_demo.cc:93);
\* no event is scheduled twice and no token is completed twice or unknown; a trace has
\* no ID twice and times that never go back; and when the master is idle nothing is left
\* in the slave (AouBackend::finish).
NothingFails ==
    /\ m.ok /\ slave.ok /\ d.ok
    /\ \A source \in DOMAIN traces : traces[source].ok
    /\ Idle(m) => Drained(slave)

\* An answer is the truth about its packet: good if the packet is legal and inside the
\* memory (and no atomic access to the fabric), and then each byte it enables
\* was written once, or read.
Truthful(n) ==
    LET p == pkts[n].p
        a == answers[n]
    IN  /\ a.status = "ok" <=> /\ a.status # "command error"
                               /\ Legal(p) /\ Inside(p.addr, p.len)
        /\ a.status = "ok" /\ p.cmd = "write" =>
              \A j \in p.on :
                  Cardinality({i \in DOMAIN slave.bytes[p.addr + j] :
                                  slave.bytes[p.addr + j][i] = n}) = 1
        /\ a.status = "ok" /\ p.cmd = "read" =>
              {g[1] : g \in a.got} = p.on /\ Cardinality(a.got) = Cardinality(p.on)

\* When the packet n wrote the byte x, 0 for its contents at first.
Position(x, n) ==
    IF n = 0 THEN 0 ELSE CHOOSE i \in DOMAIN slave.bytes[x] : slave.bytes[x][i] = n

Good(cmd) == {n \in DOMAIN answers : answers[n].status = "ok" /\ pkts[n].p.cmd = cmd}

\* A read has, in every byte, a value no older than the writes answered before it was
\* issued, and one that was in the memory.
ReadsAreRecent ==
    \A n \in Good("read") : \A g \in answers[n].got :
        LET x == pkts[n].p.addr + g[1] IN
        /\ g[2] \in {0} \union Range(slave.bytes[x])
        /\ \A w \in pkts[n].before \cap Good("write") :
              x - pkts[w].p.addr \in pkts[w].p.on => Position(x, w) <= Position(x, g[2])

\* The command processor goes on only with the answer to its last access, and the core
\* starts only when those of its command are answered; a retired command has nothing
\* left on the way: a launch is over when its writes are in the memory
\* (any_running and has_external_pending).
CommandsAreWhole ==
    /\ \A i, j \in DOMAIN pkts :
          /\ i < j /\ pkts[i].from = "cp" /\ pkts[j].from # "host" => i \in pkts[j].before
          /\ i < j /\ pkts[i].from = "core" /\ pkts[j].from # "host"
             /\ pkts[i].command < pkts[j].command => i \in pkts[j].before
    /\ \A i \in DOMAIN pkts :
          pkts[i].from # "host" /\ pkts[i].command < d.command => i \in DOMAIN answers

AccessesAreSeen ==
    (\A n \in DOMAIN answers : Truthful(n)) /\ ReadsAreRecent /\ CommandsAreWhole

\* Every packet is answered, every command retired and every trace complete: no wake-up
\* of command processor or core is lost, whichever comes first of a doorbell, an access'
\* end and the end of a kernel (vortex_gpgpu_dev.cc:497-553).
EverythingDone ==
    <>[](Done /\ \A source \in DOMAIN traces : traces[source].open = {})
=============================================================================
