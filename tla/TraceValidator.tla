---------------------------- MODULE TraceValidator ----------------------------
(***************************************************************************)
(* The offline validator of command traces (validation/validator.cpp): it      *)
(* replays a trace on banks, windows and gates of its own and reports what the  *)
(* protocol forbids.  It shares nothing with the engine but the specification   *)
(* with its rules and the shapes of CommandTiming.                            *)
(*                                                                         *)
(* An event e of the trace is [cmd, bus, id, d, row] at the current tick; odd     *)
(* says that the tick is a rising edge.  A stack is validated on its own.        *)
(***************************************************************************)
EXTENDS CommandTiming

NoRequest == 0

V0(sp) ==
    [banks  |-> [b \in BanksOf(sp) |-> [row |-> NoRow, next |-> NoRow, req |-> NoRequest]],
     left   |-> <<>>,   \* the gates of the rules, the windows of ACT2, WCK and REFDB
     acts   |-> [p \in PlacesOf(sp, sp.act) |-> <<>>],
     sweep  |-> [p \in PlacesOf(sp, Rank) |-> [n |-> 0, seen |-> {}]],
     down   |-> FALSE, self |-> FALSE, retrain |-> FALSE,
     rise   |-> NoPairing,
     errs   |-> {}]

\* The cycles of the trace pass.
VAged(v) ==
    [v EXCEPT !.left = Aged(@), !.acts = AgedActs(@),
              !.rise = AgedPairing(@)]

Activating(v, b) == v.banks[b].req # NoRequest
VBusy(v, b) == Activating(v, b) \/ v.banks[b].row # NoRow
VRankIdle(sp, v, d) == \A b \in RankMates(sp, d) : ~VBusy(v, b)
VChannelIdle(sp, v) == \A b \in BanksOf(sp) : ~VBusy(v, b)
VAwake(v) == ~v.down /\ ~v.self

Report(name, bad) == IF bad THEN {name} ELSE {}

-----------------------------------------------------------------------------
\* validate_and_replay_bank_state: what it requires, and what it replays.
StateErrors(sp, v, e) ==
    LET d == e.d
        b == v.banks[d]
        opened == ~Activating(v, d) /\ b.row = e.row
        idle == VChannelIdle(sp, v)
        ok == CASE e.cmd = "ACT" -> ~sp.lpddr /\ ~VBusy(v, d)
                [] e.cmd = "ACT1" -> /\ sp.lpddr /\ ~VBusy(v, d)
                                     /\ \A c \in RankMates(sp, d) : ~Activating(v, c)
                [] e.cmd = "ACT2" -> /\ sp.lpddr /\ b.req = e.id /\ b.next = e.row
                                     /\ <<"next_act2", d>> \notin DOMAIN v.left
                                     /\ <<"act2_until", d>> \in DOMAIN v.left
                [] e.cmd \in {"PRE", "PREPB"} -> ~Activating(v, d) /\ b.row # NoRow
                [] e.cmd = "PREAB" -> ~VRankIdle(sp, v, d)
                [] e.cmd \in CasCmds -> sp.lpddr /\ opened /\ ~v.retrain
                [] e.cmd \in DataCmds -> opened /\ ~v.retrain
                [] e.cmd \in {"REFPB", "RFMPB"} -> ~VBusy(v, d)
                [] e.cmd = "REFDB" -> sp.dual /\ ~VBusy(v, d) /\ ~VBusy(v, Partner(d))
                [] e.cmd \in {"REFAB", "RFMAB"} -> VRankIdle(sp, v, d)
                [] e.cmd \in {"MRW", "MRR", "PDE"} -> idle /\ VAwake(v)
                [] e.cmd = "WCKSYNC" -> sp.lpddr /\ ~v.self /\ ~v.retrain
                [] e.cmd = "WCKTRAIN" -> sp.lpddr /\ idle /\ VAwake(v)
                [] e.cmd = "DVFS" -> sp.lpddr /\ idle
                [] e.cmd = "PDX" -> v.down
                [] e.cmd = "SREFEN" -> idle /\ ~v.self
                [] e.cmd = "SREFEX" -> v.self
                [] e.cmd = "ECCSCRUB" -> sp.ecc /\ idle
                [] e.cmd = "RASERR" -> sp.ecc \/ sp.retry
                [] OTHER -> FALSE
    IN  Report("state", ~ok)

BanksAfter(sp, v, e) ==
    LET shut == [row |-> NoRow, next |-> NoRow, req |-> NoRequest]
        open == [shut EXCEPT !.row = e.row]
    IN  CASE e.cmd \in {"ACT", "ACT2"} -> [v.banks EXCEPT ![e.d] = open]
          [] e.cmd = "ACT1" -> [v.banks EXCEPT ![e.d] = [shut EXCEPT !.next = e.row, !.req = e.id]]
          [] e.cmd \in {"PRE", "PREPB"} -> [v.banks EXCEPT ![e.d] = shut]
          [] e.cmd \in {"RDA", "WRA"} -> [v.banks EXCEPT ![e.d].row = NoRow]
          [] e.cmd = "PREAB" ->
                [b \in DOMAIN v.banks |-> IF b \in RankMates(sp, e.d) THEN shut ELSE v.banks[b]]
          [] OTHER -> v.banks

ModesAfter(sp, v, cmd) ==
    CASE cmd = "PDE" -> [v EXCEPT !.down = TRUE]
      [] cmd = "PDX" -> [v EXCEPT !.down = FALSE]
      [] cmd = "SREFEN" -> [v EXCEPT !.self = TRUE]
      [] cmd = "SREFEX" -> [v EXCEPT !.self = FALSE]
      [] cmd = "DVFS" -> [v EXCEPT !.retrain = @ \/ sp.retrain]
      [] cmd = "WCKTRAIN" -> [v EXCEPT !.retrain = FALSE]
      [] OTHER -> v

-----------------------------------------------------------------------------
\* The sweep of dual-bank refreshes, counted and remembered by bank.
SweepErrors(sp, v, e) ==
    LET s == v.sweep[At(Rank, e.d)] IN
    IF sp.dual /\ e.cmd = "REFDB"
    THEN Report("sweep interval", <<"refdb", At(Rank, e.d)>> \in DOMAIN v.left)
         \union Report("sweep repeats", {e.d, Partner(e.d)} \cap s.seen # {})
    ELSE {}

SweepEnds(sp, v, e) ==
    v.sweep[At(Rank, e.d)].n + 1 = (sp.org.groups * sp.org.banks) \div 2

VSweep(sp, v, e) ==
    LET fresh == [n |-> 0, seen |-> {}]
        r == At(Rank, e.d)
    IN  CASE sp.dual /\ e.cmd = "REFDB" ->
                [v.sweep EXCEPT ![r] = IF SweepEnds(sp, v, e) THEN fresh
                                       ELSE [n |-> @.n + 1, seen |-> @.seen \union {e.d, Partner(e.d)}]]
          [] sp.dual /\ e.cmd = "REFAB" -> [v.sweep EXCEPT ![r] = fresh]
          [] sp.dual /\ e.cmd = "SREFEX" -> [p \in DOMAIN v.sweep |-> fresh]
          [] OTHER -> v.sweep

VSweepGate(sp, v, e) ==
    LET key == <<"refdb", At(Rank, e.d)>>
        gap == IF SweepEnds(sp, v, e) /\ sp.t.nREFDB2REFDBL > 0 THEN sp.t.nREFDB2REFDBL
               ELSE Or(sp.t.nREFDB2REFDBS, sp.t.nRRDL)
    IN  CASE sp.dual /\ e.cmd = "REFDB" -> key :> Delay(sp, gap)
          [] sp.dual /\ e.cmd = "REFAB" -> key :> Delay(sp, sp.t.nRFC)
          [] sp.dual /\ e.cmd = "SREFEX" -> [k \in {"refdb"} \X DOMAIN v.sweep |-> 0]
          [] OTHER -> <<>>

-----------------------------------------------------------------------------
\* The two buses of HBM, and the edges of its clock.
BusErrors(sp, e) ==
    Report("bus", ~sp.lpddr /\ e.bus # (IF e.cmd \in ColumnCmds THEN "Column" ELSE "Row"))

\* validate_hbm_edge_pairing_matrix
PairingErrors(v, e) ==
    Report("pairing",
           /\ v.rise.in = 0 /\ e.d[1] = v.rise.pc
           /\ ~(/\ v.rise.cmd \notin AllBankCmds
                /\ e.cmd = "PREPB" /\ BankKey(e.d) # v.rise.bank))

EdgeErrors(sp, v, e, odd) ==
    IF sp.lpddr \/ odd THEN {}
    ELSE Report("edge", e.cmd \notin {"PREPB", "PREAB"}) \union PairingErrors(v, e)

\* record_hbm_rising_row_command
RiseAfter(sp, v, e, odd) ==
    IF ~sp.lpddr /\ odd /\ e.bus = "Row" /\ e.cmd \notin ColumnCmds
    THEN PairingAfter(e.cmd, e.d) ELSE v.rise

-----------------------------------------------------------------------------
\* The rules, the activation window and the window of WCK.
RuleErrors(sp, v, e) == Report("rule", ~AllOpen(v.left, RuleGates(sp, e.cmd, e.d)))

FawErrors(sp, v, e) == Report("faw", e.cmd \in FawCmds /\ ~FawReady(sp, v.acts, e.d))

WckErrors(sp, v, e) ==
    Report("wck", /\ sp.lpddr /\ ~sp.always /\ e.cmd \in DataCmds
                  /\ \/ <<"wck_ready", At(sp.wck, e.d)>> \in DOMAIN v.left
                     \/ <<"wck_until", At(sp.wck, e.d)>> \notin DOMAIN v.left)

\* What a command opens and closes of the windows that the validator times.
VWindows(sp, e) ==
    LET t == sp.t
        ready(n) == <<"wck_ready", At(sp.wck, e.d)>> :> Delay(sp, n)
        until(n) == <<"wck_until", At(sp.wck, e.d)>> :> Delay(sp, n)
        sync == IF e.cmd = "WCKSYNC" THEN t.nWCKSYNC ELSE t.nWCK2CK
    IN  CASE e.cmd = "ACT1" ->
                (<<"next_act2", e.d>> :> Delay(sp, AtLeast1(t.nAADMin)))
                @@ (<<"act2_until", e.d>> :> Delay(sp, Max({t.nAADMin, t.nAADMax})) + 1)
          [] e.cmd = "ACT2" -> (<<"next_act2", e.d>> :> 0) @@ (<<"act2_until", e.d>> :> 0)
          [] sp.lpddr /\ ~sp.always /\ e.cmd \in CasCmds \union {"WCKSYNC"} ->
                ready(AtLeast1(sync)) @@ until(Max({t.nWCKPST, sync + 1}))
          [] sp.lpddr /\ ~sp.always /\ e.cmd = "WCKTRAIN" ->
                ready(AtLeast1(t.nWCKTRAIN)) @@ until(AtLeast1(t.nWCKTRAIN) + AtLeast1(t.nWCKPST))
          [] OTHER -> <<>>

VStretched(sp, e) ==
    LET until(n) == <<"wck_until", At(sp.wck, e.d)>> :> Delay(sp, n) IN
    CASE sp.lpddr /\ ~sp.always /\ e.cmd \in ReadCmds -> until(sp.t.nCL + sp.t.nBL + sp.t.nWCKPST)
      [] sp.lpddr /\ ~sp.always /\ e.cmd \in WriteCmds -> until(sp.t.nCWL + sp.t.nBL + sp.t.nWCKPST)
      [] OTHER -> <<>>

\* validate_single_stack_trace: one command of the trace.
Replay(sp, v, e, odd) ==
    LET errs == SweepErrors(sp, v, e) \union BusErrors(sp, e) \union EdgeErrors(sp, v, e, odd)
                \union StateErrors(sp, v, e) \union RuleErrors(sp, v, e)
                \union FawErrors(sp, v, e) \union WckErrors(sp, v, e)
        left == Raised(Assigned(v.left, VWindows(sp, e) @@ VSweepGate(sp, v, e)),
                       VStretched(sp, e))
    IN  [ModesAfter(sp, v, e.cmd) EXCEPT
            !.banks = BanksAfter(sp, v, e),
            !.left  = Raised(left, RuleDelays(sp, e.cmd, e.d)),
            !.acts  = RecordedActs(sp, v.acts, e.cmd, e.d),
            !.sweep = VSweep(sp, v, e),
            !.rise  = RiseAfter(sp, v, e, odd),
            !.errs  = @ \union {<<e.cmd, x>> : x \in errs}]

\* The trace may end here: no ACT1 still waits for its ACT2.
MayEnd(sp, v) == \A b \in BanksOf(sp) : ~Activating(v, b)
=============================================================================
