---------------------------- MODULE CommandEngine ----------------------------
(***************************************************************************)
(* The command path of the channel controller (controller/controller.cpp): its   *)
(* four queues, what a request needs next, which command a bus takes in a tick,   *)
(* power down and self refresh, the PHY's admission; with the DRAM's timing of   *)
(* CommandTiming, and the trace it leaves given to the offline validator.      *)
(*                                                                         *)
(* A scenario is a specification, the controller's options and a program: the    *)
(* requests and controls of the front end (Access, Control), and the maintenance  *)
(* that refresh or RFM ask for (Internal), each with the most ticks it may wait    *)
(* for, and the fewest.  The requests are of distinct lines; what the queues do with one line,   *)
(* and the closed-cap row policy, are MemController's.                         *)
(***************************************************************************)
EXTENDS TraceValidator, SequencesExt

CONSTANT Scenarios

VARIABLES
    sc,     \* the scenario: the specification, the policy and the program
    sent,   \* the items of its program that have arrived
    gap,    \* the ticks since the last of them
    stamp,  \* the items that had arrived by the last tick: the time of arrival
    queue,  \* request_queues_: Active, Priority, Read, Write
    wait,   \* pending_maintenance_
    pend,   \* pending_: the ticks left of each data transfer
    dram,   \* banks and gates
    low,    \* power down and self refresh
    phy,    \* the state of the behavioral PHY
    edge,   \* clk_ % 2: 1 is a rising edge
    rise,   \* rising_edge_
    wmode,  \* write_mode_
    stage,  \* the bus that the tick has come to, or "Idle" between ticks
    val     \* the validator's replay of the trace

vars == <<sc, sent, gap, stamp, queue, wait, pend, dram, low, phy, edge, rise, wmode, stage, val>>

sp == sc.spec

\* generate_control_sequence: the controls that a firmware sends to a channel before the
\* workload, those of its options; the full sequence goes through low power and back.
Asked(spec, cmd) ==
    CASE cmd = "DVFS"     -> spec.dvfs
      [] cmd = "WCKTRAIN" -> spec.retrain
      [] cmd = "ECCSCRUB" -> spec.ecc
      [] cmd = "RASERR"   -> spec.retry
      [] OTHER -> TRUE

ControlSequence(spec, full) ==
    LET lpddr == <<"MRW", "MRR", "DVFS", "WCKTRAIN", "ECCSCRUB", "RASERR">>
        hbm   == <<"MRW", "MRR", "ECCSCRUB", "RASERR">>
    IN  SelectSeq(IF spec.lpddr THEN lpddr ELSE hbm, LAMBDA cmd : Asked(spec, cmd))
        \o (IF spec.lpddr /\ full THEN <<"PDE", "PDX", "SREFEN", "SREFEX">> ELSE <<>>)

\* The constructor's checks.
ASSUME ScenariosAssumption ==
    \A c \in DOMAIN Scenarios :
        /\ ValidSpec(Scenarios[c].spec)
        /\ \A q \in {"Priority", "Read", "Write"} : Scenarios[c].size[q] > 0
        /\ 0 <= Scenarios[c].lowWater
        /\ Scenarios[c].lowWater < Scenarios[c].highWater
        /\ Scenarios[c].highWater <= Scenarios[c].size.Write

Request(kind, cmd, id, d, row) ==
    [kind |-> kind, cmd |-> cmd, id |-> id, d |-> d, row |-> row, first |-> FALSE, at |-> stamp]

Maintenance(cmd, d) == Request("Maintenance", cmd, NoRequest, d, NoRow)

IsMaintenance(r) == r.kind = "Maintenance"

Item == sc.program[sent + 1]
Due == sent < Len(sc.program) /\ gap >= Item.wait

Idle == (\A q \in DOMAIN queue : queue[q] = <<>>) /\ wait = <<>> /\ DOMAIN pend = {} \* done

Done == Idle /\ sent = Len(sc.program) /\ stage = "Idle"

Init ==
    /\ \E c \in DOMAIN Scenarios : sc = Scenarios[c]
    /\ sent = 0 /\ gap = 0 /\ stamp = 0
    /\ queue = [q \in {"Active", "Priority", "Read", "Write"} |-> <<>>]
    /\ wait = <<>> /\ pend = <<>>
    /\ dram = Dram0(sp)
    /\ low = [active |-> FALSE, down |-> FALSE, self |-> FALSE, exit |-> "NOP",
              until |-> 0, idle |-> 0, retrain |-> FALSE]
    /\ phy = "Ready" /\ edge = 0 /\ rise = NoPairing /\ wmode = FALSE
    /\ stage = "Idle"
    /\ val = V0(sp)

-----------------------------------------------------------------------------
(* Arrivals, between two ticks: enqueue. *)

BufferOf(item) == IF item.kind \in {"Read", "Write"} THEN item.kind ELSE "Priority"

HasSpace(q) == Len(queue[q]) < sc.size[q]

\* An access wakes the channel, whether it is then taken or not.
Wakes(item) == item.kind \in {"Read", "Write"} /\ low.active

ExitOf == IF low.self THEN "SREFEX" ELSE "PDX"

Wake(item) ==
    CASE Wakes(item) /\ (low.down \/ low.self) ->
            /\ low' = [low EXCEPT !.exit = IF @ = "NOP" THEN ExitOf ELSE @]
            /\ wait' = IF low.exit = "NOP" THEN Append(wait, Maintenance(ExitOf, item.d)) ELSE wait
      [] Wakes(item) /\ ~(low.down \/ low.self) ->
            /\ low' = [low EXCEPT !.active = FALSE, !.until = Max({@, Delay(sp, sc.exitClocks)})]
            /\ UNCHANGED wait
      [] ~Wakes(item) -> UNCHANGED <<low, wait>>

Between == stage = "Idle" /\ sent < Len(sc.program) /\ gap >= Item.from

Arrived == sent' = sent + 1 /\ gap' = 0

Submit ==
    /\ Between /\ Item.kind # "Internal" /\ HasSpace(BufferOf(Item))
    /\ Wake(Item)
    /\ queue' = [queue EXCEPT ![BufferOf(Item)] =
                    Append(@, IF Item.kind = "Control" THEN Maintenance(Item.cmd, Item.d)
                              ELSE Request(Item.kind, Item.cmd, sent + 1, Item.d, Item.row))]
    /\ Arrived
    /\ UNCHANGED <<sc, stamp, pend, dram, phy, edge, rise, wmode, stage, val>>

\* The queue is full; the front end will try again.
Refuse ==
    /\ Between /\ Item.kind # "Internal" /\ ~HasSpace(BufferOf(Item))
    /\ Wakes(Item) /\ low.exit = "NOP"
    /\ Wake(Item)
    /\ UNCHANGED <<sc, sent, gap, stamp, queue, pend, dram, phy, edge, rise, wmode, stage, val>>

\* schedule_refresh and RFM, in the tick that follows
Schedule ==
    /\ Between /\ Item.kind = "Internal" /\ low.until <= 1
    /\ wait' = Append(wait, Maintenance(Item.cmd, Item.d))
    /\ Arrived
    /\ UNCHANGED <<sc, stamp, queue, pend, dram, low, phy, edge, rise, wmode, stage, val>>

-----------------------------------------------------------------------------
(* The next command of a request, as a set: none while it has to wait. *)

BusyHere(r) == BusyBank(dram, r.d)

DualIdle(d) ==
    \A b \in {d, Partner(d)} : ~BusyBank(dram, b) /\ <<"next_act", b>> \notin DOMAIN dram.left

\* A slip: an all-bank refresh does not close the banks of its rank first.
MaintenanceNextNoPreab(r) ==
    CASE r.cmd \in {"REFPB", "REFDB", "RFMPB"} /\ BusyHere(r) -> "PREPB"
      [] OTHER -> r.cmd

MaintenanceNext(r) ==
    CASE r.cmd \in {"REFAB", "RFMAB"} /\ BusyRank(sp, dram, r.d) -> "PREAB"
      [] r.cmd \in {"REFPB", "REFDB", "RFMPB"} /\ BusyHere(r) -> "PREPB"
      [] r.cmd = "REFDB" /\ ~BusyHere(r) /\ ~DualIdle(r.d) /\ BusyRank(sp, dram, r.d) -> "PREAB"
      [] OTHER -> r.cmd

Data(r) ==
    CASE r.kind = "Read"  /\ sc.policy = "Open" -> "RD"
      [] r.kind = "Read"  /\ sc.policy # "Open" -> "RDA"
      [] r.kind = "Write" /\ sc.policy = "Open" -> "WR"
      [] r.kind = "Write" /\ sc.policy # "Open" -> "WRA"

\* A CAS that would open its window too early for the data waits, and so does one
\* whose window is opening.
CasMayStart(r) ==
    LET wck(n)   == <<n, At(sp.wck, r.d)>>
        plain    == IF r.kind = "Read" THEN "RD" ELSE "WR"
        own      == IF r.kind = "Read" THEN "next_rd" ELSE "next_wr"
        gate     == Max({Left(dram.left, <<own, r.d>>), RulesOpenIn(sp, dram.left, plain, r.d)})
        ready    == Delay(sp, Max({1, sp.t.nCAS, sp.t.nWCK2CK}))
        end      == Delay(sp, Max({sp.t.nWCKPST, sp.t.nWCK2CK + 1}))
    IN  /\ ~(wck("wck_ready") \in DOMAIN dram.left /\ wck("wck_until") \in DOMAIN dram.left)
        /\ Max({gate, ready}) < end

HitNext(r) ==
    CASE WckReady(sp, dram, r.d) -> {Data(r)}
      [] ~WckReady(sp, dram, r.d) /\ CasMayStart(r) -> {IF r.kind = "Read" THEN "CASRD" ELSE "CASWR"}
      [] OTHER -> {}

NextCommand(r) ==
    CASE IsMaintenance(r) -> {MaintenanceNext(r)}
      [] ~IsMaintenance(r) /\ dram.row[r.d] = r.row -> HitNext(r)
      [] ~IsMaintenance(r) /\ dram.row[r.d] \notin {r.row, NoRow} -> {"PREPB"}
      [] ~IsMaintenance(r) /\ dram.row[r.d] = NoRow ->
            IF r.first THEN {"ACT2"}
            ELSE IF r.d \in dram.act THEN {}
            ELSE {IF sp.lpddr THEN "ACT1" ELSE "ACT"}

-----------------------------------------------------------------------------
(* Whether it may be issued: check_command_state, timing_ok, the PHY. *)

Dozing == low.down \/ (low.active /\ sc.lowMode # "SelfRefresh")
Sleeping == low.self \/ (low.active /\ sc.lowMode = "SelfRefresh")
Awake == ~Dozing /\ ~Sleeping

StateOk(r, cmd) ==
    LET closed == ~BusyHere(r)
        hit    == dram.row[r.d] = r.row /\ r.row # NoRow
        still  == ~BusyChannel(sp, dram)
        maint  == IsMaintenance(r)
    IN  CASE cmd = "ACT" -> ~sp.lpddr /\ closed
          [] cmd = "ACT1" -> sp.lpddr /\ closed /\ \A b \in RankMates(sp, r.d) : b \notin dram.act
          [] cmd = "ACT2" -> r.d \in dram.act /\ r.first
          [] cmd = "PREPB" -> dram.row[r.d] # NoRow
          [] cmd = "PREAB" -> BusyRank(sp, dram, r.d)
          [] cmd \in CasCmds -> sp.lpddr /\ hit /\ ~low.retrain
          [] cmd \in DataCmds -> hit /\ (sp.lpddr => WckReady(sp, dram, r.d) /\ ~low.retrain)
          [] cmd \in {"REFPB", "RFMPB"} -> maint /\ closed
          [] cmd = "REFDB" -> maint /\ DualIdle(r.d)
          [] cmd \in {"REFAB", "RFMAB"} -> maint /\ ~BusyRank(sp, dram, r.d)
          [] cmd \in {"MRW", "MRR", "PDE"} -> maint /\ still /\ Awake
          [] cmd = "WCKSYNC" -> sp.lpddr /\ Awake /\ ~low.retrain
          [] cmd \in {"WCKTRAIN", "DVFS"} -> sp.lpddr /\ maint /\ still /\ Awake
          [] cmd = "PDX" -> maint /\ Dozing /\ ~Sleeping
          [] cmd = "SREFEN" -> maint /\ still /\ ~Sleeping
          [] cmd = "SREFEX" -> maint /\ Sleeping
          [] cmd = "ECCSCRUB" -> maint /\ sp.ecc /\ still /\ Awake
          [] cmd = "RASERR" -> maint /\ (sp.ecc \/ sp.retry)

\* A slip: the rules of the wider scopes are forgotten, the bank's gates are kept.
TimingOkOwnGates(r, cmd) ==
    StateOk(r, cmd) /\ AllOpen(dram.left, OwnGates(sp, cmd, r.d))

TimingOk(r, cmd) == StateOk(r, cmd) /\ GatesOpen(sp, dram, cmd, r.d)

\* can_accept_command
PhyAccepts(cmd) ==
    sc.behavioral =>
        CASE phy = "Training" -> cmd = "WCKTRAIN"
          [] phy = "LowPower" -> cmd \in {"PDX", "SREFEX"}
          [] phy = "Ready"    -> TRUE

\* can_issue_falling_edge_pre
FallingPre(r, cmd) ==
    /\ cmd \in {"PREPB", "PREAB"}
    /\ (rise.in = 0 /\ rise.pc = r.d[1]) =>
            /\ rise.cmd \notin AllBankCmds
            /\ cmd = "PREPB" /\ BankKey(r.d) # rise.bank

BusMatches(r, cmd, bus) ==
    CASE bus = "Unified" -> TRUE
      [] bus # "Unified" /\ edge = 0 -> bus = "Row" /\ FallingPre(r, cmd)
      [] bus # "Unified" /\ edge = 1 -> (bus = "Column") <=> (cmd \in ColumnCmds)

ActiveOn(banks) == \E i \in DOMAIN queue.Active : queue.Active[i].d \in banks

WouldClose(r, cmd) ==
    CASE cmd \in {"PREAB", "REFAB", "RFMAB"} -> ActiveOn(RankMates(sp, r.d))
      [] cmd \in {"PREPB", "REFPB", "REFDB", "RFMPB"} -> ActiveOn({r.d})
      [] OTHER -> FALSE

Eligible(q, r, cmd, bus) == BusMatches(r, cmd, bus) /\ (q # "Active" => ~WouldClose(r, cmd))

-----------------------------------------------------------------------------
(* choose: the candidates of a bus, as sets of [q, i, cmd]. *)

Views(q, bus) ==
    {v \in UNION {{[q |-> q, i |-> i, cmd |-> c] : c \in NextCommand(queue[q][i])} :
                     i \in DOMAIN queue[q]} :
        Eligible(q, queue[q][v.i], v.cmd, bus)}

ReadyOf(v) == TimingOk(queue[v.q][v.i], v.cmd)

CanGo(v) == ReadyOf(v) /\ PhyAccepts(v.cmd)

Oldest(views) ==
    LET at(v) == queue[v.q][v.i].at
    IN  {v \in views : \A w \in views : at(v) < at(w) \/ (at(v) = at(w) /\ v.i <= w.i)}

\* A ready command that the PHY refuses is not eligible.
Scheduled(views) ==
    IF sc.fcfs THEN {v \in Oldest({w \in views : ReadyOf(w) => CanGo(w)}) : ReadyOf(v)}
    ELSE Oldest({v \in views : CanGo(v)})

Act2Left(v) == Left(dram.left, <<"act2_until", queue[v.q][v.i].d>>)

UrgentAct2(bus) ==
    IF bus = "Column" THEN {}
    ELSE Oldest({v \in Views("Active", bus) : v.cmd = "ACT2" /\ Act2Left(v) = 1 /\ CanGo(v)})

FromActive(bus) == IF bus = "Row" THEN {} ELSE Scheduled(Views("Active", bus))

FromPriority(bus) == {v \in Views("Priority", bus) : v.i = 1 /\ CanGo(v)}

\* set_write_mode
WriteMode ==
    IF wmode THEN ~(Len(queue.Write) < sc.lowWater /\ queue.Read # <<>>)
    ELSE Len(queue.Write) > sc.highWater \/ queue.Read = <<>>

FromOrdinary(bus) == Scheduled(Views(IF WriteMode THEN "Write" ELSE "Read", bus))

\* Ordinary requests are looked at only behind an empty Priority queue.
ReachesOrdinary(bus) ==
    UrgentAct2(bus) = {} /\ FromActive(bus) = {} /\ queue.Priority = <<>>

Choice(bus) ==
    LET urgent == UrgentAct2(bus)
        active == FromActive(bus)
    IN  CASE urgent # {} -> urgent
          [] urgent = {} /\ active # {} -> active
          [] urgent = {} /\ active = {} /\ queue.Priority # <<>> -> FromPriority(bus)
          [] OTHER -> FromOrdinary(bus)

-----------------------------------------------------------------------------
(* issue and retire_or_advance *)

Latency(cmd) ==
    LET read  == sp.t.nCL + sp.t.nBL
        close == IF cmd = "RDA" THEN Delay(sp, sp.t.nRTP)
                 ELSE IF cmd = "WRA" THEN Delay(sp, sp.t.nCWL + sp.t.nBL + sp.t.nWR) ELSE 0
        data  == IF cmd \in ReadCmds THEN Delay(sp, read)
                 ELSE IF sc.behavioral THEN Delay(sp, sp.t.nCWL) ELSE 1
    IN  Max({data, close})

LowAfter(cmd) ==
    LET left(x) == IF low.exit = x THEN "NOP" ELSE low.exit IN
    CASE cmd = "PDE"    -> [low EXCEPT !.down = TRUE, !.active = TRUE]
      [] cmd = "PDX"    -> [low EXCEPT !.down = FALSE, !.exit = left("PDX"), !.active = low.self]
      [] cmd = "SREFEN" -> [low EXCEPT !.self = TRUE, !.active = TRUE]
      [] cmd = "SREFEX" -> [low EXCEPT !.self = FALSE, !.exit = left("SREFEX"), !.active = low.down]
      [] cmd = "DVFS"   -> [low EXCEPT !.retrain = @ \/ sp.retrain]
      [] cmd = "WCKTRAIN" -> [low EXCEPT !.retrain = FALSE]
      [] OTHER -> low

PhyAfter(cmd) == \* accept_command
    CASE cmd \in {"PDE", "SREFEN"} -> "LowPower"
      [] cmd \in {"PDX", "SREFEX", "WCKTRAIN"} -> "Ready"
      [] cmd = "DVFS" /\ sp.lpddr /\ sp.retrain -> "Training"
      [] OTHER -> phy

Without(q, i) == [queue EXCEPT ![q] = RemoveAt(@, i)]

QueueAfter(v, r) ==
    LET went == IF v.cmd = "ACT1" THEN [r EXCEPT !.first = TRUE] ELSE r
    IN  CASE v.cmd \in DataCmds \/ (IsMaintenance(r) /\ v.cmd = r.cmd) -> Without(v.q, v.i)
          [] v.cmd \in ActCmds /\ v.q # "Active" ->
                [Without(v.q, v.i) EXCEPT !.Active = Append(@, went)]
          [] OTHER -> [queue EXCEPT ![v.q][v.i] = went]

StageAfter(bus) ==
    CASE bus = "Column" -> "Row"
      [] bus # "Column" -> IF sc.lowMode = "Off" THEN "Idle" ELSE "Settle"

Issue(bus) ==
    /\ stage = bus
    /\ \E v \in Choice(bus) :
        LET r == queue[v.q][v.i]
            e == [cmd |-> v.cmd, bus |-> bus, id |-> r.id, d |-> r.d, row |-> r.row]
        IN  /\ val' = Replay(sp, val, e, edge = 1)
            /\ dram' = Executed(sp, dram, v.cmd, r.d, r.row)
            /\ low' = LowAfter(v.cmd)
            /\ phy' = IF sc.behavioral THEN PhyAfter(v.cmd) ELSE phy
            /\ rise' = IF bus = "Row" /\ edge = 1 THEN PairingAfter(v.cmd, r.d) ELSE rise
            /\ queue' = QueueAfter(v, r)
            /\ pend' = IF v.cmd \in DataCmds THEN (r.id :> Latency(v.cmd)) @@ pend ELSE pend
    /\ wmode' = IF ReachesOrdinary(bus) THEN WriteMode ELSE wmode
    /\ stage' = StageAfter(bus)
    /\ UNCHANGED <<sc, sent, gap, stamp, wait, edge>>

Skip(bus) ==
    /\ stage = bus /\ Choice(bus) = {}
    /\ wmode' = IF ReachesOrdinary(bus) THEN WriteMode ELSE wmode
    /\ stage' = StageAfter(bus)
    /\ UNCHANGED <<sc, sent, gap, stamp, queue, wait, pend, dram, low, phy, edge, rise, val>>

-----------------------------------------------------------------------------
(* A tick: time passes, data completes, maintenance moves up. *)

FirstStage == IF sp.lpddr THEN "Unified" ELSE IF edge = 0 THEN "Column" ELSE "Row"

Room == Min({Len(wait), sc.size.Priority - Len(queue.Priority)})

\* The front end offers what is due before every tick.
MayTick ==
    Due => \/ Item.kind = "Internal" /\ low.until > 1
           \/ /\ Item.kind # "Internal" /\ ~HasSpace(BufferOf(Item))
              /\ ~(Wakes(Item) /\ low.exit = "NOP")

IdleEnough == 1 + Delay(sp, sc.entryClocks)

BeginTick ==
    /\ stage = "Idle" /\ ~Done /\ MayTick
    /\ gap' = IF sent < Len(sc.program) /\ ~Due THEN gap + 1 ELSE gap
    /\ stamp' = sent
    /\ edge' = 1 - edge
    /\ rise' = AgedPairing(rise)
    /\ dram' = AgedDram(dram)
    /\ val' = VAged(val)
    /\ pend' = Aged(pend)
    /\ low' = [low EXCEPT !.until = Max({0, @ - 1}),
                          !.idle = IF @ \in 1 .. IdleEnough - 1 THEN @ + 1 ELSE @]
    /\ IF low.until > 1
       THEN UNCHANGED <<queue, wait, stage>>
       ELSE /\ queue' = [queue EXCEPT !.Priority = @ \o SubSeq(wait, 1, Room)]
            /\ wait' = SubSeq(wait, Room + 1, Len(wait))
            /\ stage' = FirstStage
    /\ UNCHANGED <<sc, sent, phy, wmode>>

\* The automatic low-power mode, at the end of a tick.
Settle ==
    /\ stage = "Settle"
    /\ low' = IF ~Idle THEN [low EXCEPT !.idle = 0]
              ELSE LET ticks == Max({1, low.idle}) IN
                   [low EXCEPT !.idle = ticks, !.active = @ \/ ticks >= IdleEnough]
    /\ stage' = "Idle"
    /\ UNCHANGED <<sc, sent, gap, stamp, queue, wait, pend, dram, phy, edge, rise, wmode, val>>

Finished == Done /\ UNCHANGED vars

Buses == {"Column", "Row", "Unified"}

Tick == BeginTick \/ Settle \/ \E bus \in Buses : Issue(bus) \/ Skip(bus)

Next == Submit \/ Refuse \/ Schedule \/ Tick \/ Finished

Spec == Init /\ [][Next]_vars

\* The loop around the controller goes on as long as requests are left: it offers what
\* is due, ticks, and every tick comes to its end.  A tick alone moves the edge, and
\* its stages move the stage: to say no more makes it cheap to see what is possible.
Offers == Submit \/ Refuse \/ Schedule
TicksOn == stage = "Idle" /\ ~Done /\ MayTick /\ edge' = 1 - edge
Stages == \/ stage \in Buses /\ stage' = StageAfter(stage)
          \/ stage = "Settle" /\ stage' = "Idle"

FairSpec == Spec /\ WF_vars(Offers) /\ WF_edge(TicksOn) /\ WF_stage(Stages)

-----------------------------------------------------------------------------
TypeOK ==
    /\ \E c \in DOMAIN Scenarios : sc = Scenarios[c]
    /\ sent \in 0 .. Len(sc.program) /\ gap \in Nat /\ stamp \in 0 .. sent
    /\ \A q \in DOMAIN sc.size : Len(queue[q]) <= sc.size[q]
    /\ \A k \in DOMAIN dram.left : dram.left[k] > 0
    /\ dram.act \subseteq BanksOf(sp)
    /\ phy \in {"Ready", "LowPower", "Training"} /\ edge \in {0, 1} /\ wmode \in BOOLEAN
    /\ stage \in {"Idle", "Column", "Row", "Unified", "Settle"}

\* The offline validator, which replays the trace on state of its own
\* (validation/validator.cpp), finds no error in what the controller issues: no rule,
\* window, edge or state of the protocol is broken, and no trace ends in an ACT1
\* without its ACT2.
TraceAccepted == val.errs = {} /\ (Done => MayEnd(sp, val))

\* A request between ACT1 and ACT2 gets its second activate before nAADMax has
\* passed: pick_urgent_act2 would otherwise throw (controller.cpp:1103).
Act2InTime ==
    stage = "Unified" =>
        \A i \in DOMAIN queue.Active :
            NextCommand(queue.Active[i]) = {"ACT2"} =>
                <<"act2_until", queue.Active[i].d>> \in DOMAIN dram.left

\* Every request, control and refresh of the program is issued and completed: the
\* scheduler neither starves one nor leaves one that can never be issued.
EveryRequestServed == <>[]Done
=============================================================================
