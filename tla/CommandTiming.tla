---------------------------- MODULE CommandTiming ----------------------------
(***************************************************************************)
(* The timing of DRAM commands: the rules of the two families                *)
(* (mem_sim/src/dram/spec.cpp), the gates they set (controller/timing.cpp) and  *)
(* what a command does to the banks and to their own gates                   *)
(* (controller/executor.cpp).                                              *)
(*                                                                         *)
(* sp is the DramSpec: sp.lpddr the family (LPDDR: one bus, ACT1 and ACT2, CAS   *)
(* before data; HBM: a row and a column bus, half-clock ticks), sp.org its      *)
(* dimensions, sp.t its timing in clocks, sp.mult the ticks of a clock.         *)
(*                                                                         *)
(* A coordinate d is <<pseudo-channel, SID, rank, bank group, bank>> of the one  *)
(* channel; a scope is how much of it is shared, so that a place is a prefix.   *)
(* The code keeps for every gate the tick from which it is open; here a gate is *)
(* the number of ticks left, and one that is open is not kept.               *)
(***************************************************************************)
EXTENDS Integers, Sequences, FiniteSets, FiniteSetsExt, TLC

Channel == 0
PseudoChannel == 1
Sid == 2
Rank == 3
BankGroup == 4
Bank == 5

At(scope, d) == SubSeq(d, 1, scope) \* scope_index

BanksOf(sp) ==
    (0 .. sp.org.pcs - 1) \X (0 .. sp.org.sids - 1) \X (0 .. sp.org.ranks - 1)
        \X (0 .. sp.org.groups - 1) \X (0 .. sp.org.banks - 1)

PlacesOf(sp, scope) == {At(scope, d) : d \in BanksOf(sp)}

\* sibling_range, without the place itself
Siblings(sp, scope, d) ==
    {p \in PlacesOf(sp, scope) \ {At(scope, d)} : At(scope - 1, p) = At(scope - 1, d)}

RankMates(sp, d) == {b \in BanksOf(sp) : At(Rank, b) = At(Rank, d)}

\* lpddr_refdb_partner: the same bank of the adjacent group.
Partner(d) == [d EXCEPT ![4] = IF @ % 2 = 0 THEN @ + 1 ELSE @ - 1]

Or(a, b) == IF a > 0 THEN a ELSE b

AtLeast1(n) == Max({1, n})

Delay(sp, n) == IF n <= 0 THEN 0 ELSE n * sp.mult

ReadCmds == {"RD", "RDA"}
WriteCmds == {"WR", "WRA"}
DataCmds == ReadCmds \union WriteCmds
CasCmds == {"CASRD", "CASWR"}
PreCmds == {"PRE", "PREPB", "PREAB"}
ActCmds == {"ACT", "ACT1"}
FawCmds == ActCmds \union {"REFPB", "REFDB"}
ColumnCmds == DataCmds \union CasCmds \union {"WCKSYNC"}
AllBankCmds == {"PREAB", "REFAB", "RFMAB", "MRW", "MRR", "WCKTRAIN", "DVFS", "PDE",
                "PDX", "SREFEN", "SREFEX", "ECCSCRUB", "RASERR"}

-----------------------------------------------------------------------------
(* The rules: after a command of prev, none of next for lat clocks in the same  *)
(* place of the scope, or (sib) in its siblings.  The window rule nFAW is apart. *)

Rule(scope, prev, next, lat) ==
    [scope |-> scope, prev |-> prev, next |-> next, lat |-> Max({0, lat}), sib |-> FALSE]

SiblingRule(scope, prev, next, lat) == [Rule(scope, prev, next, lat) EXCEPT !.sib = TRUE]

\* make_hbm_constraints
HbmRules(t) ==
    {Rule(PseudoChannel, ReadCmds, ReadCmds, t.nBL),
     Rule(PseudoChannel, WriteCmds, WriteCmds, t.nBL),
     Rule(PseudoChannel, ReadCmds, WriteCmds, t.nRTW),
     Rule(PseudoChannel, WriteCmds, ReadCmds, t.nCWL + t.nBL + t.nWTRS),
     Rule(PseudoChannel, {"ACT"}, {"ACT"}, t.nRRDS),
     Rule(Sid, ReadCmds, ReadCmds, t.nCCDS),
     SiblingRule(Sid, ReadCmds, ReadCmds, Or(t.nCCDR, t.nCCDS)),
     Rule(Sid, WriteCmds, WriteCmds, t.nCCDS),
     Rule(BankGroup, ReadCmds, ReadCmds, t.nCCDL),
     Rule(BankGroup, WriteCmds, WriteCmds, t.nCCDL),
     Rule(BankGroup, WriteCmds, ReadCmds, t.nCWL + t.nBL + t.nWTRL),
     Rule(BankGroup, {"ACT"}, {"ACT"}, t.nRRDL),
     Rule(PseudoChannel, PreCmds, PreCmds, t.nPPD),
     Rule(Bank, {"ACT"}, {"ACT"}, t.nRC),
     Rule(Bank, {"ACT"}, ReadCmds, t.nRCDRD),
     Rule(Bank, {"ACT"}, WriteCmds, t.nRCDWR),
     Rule(Bank, {"ACT"}, {"PREPB"}, t.nRAS),
     Rule(Bank, {"PREPB"}, {"ACT"}, t.nRP),
     Rule(Bank, {"RD"}, {"PREPB"}, t.nRTP),
     Rule(Bank, {"WR"}, {"PREPB"}, t.nCWL + t.nBL + t.nWR),
     Rule(Bank, {"REFPB"}, {"ACT"}, t.nRFCpb),
     Rule(PseudoChannel, {"REFPB"}, {"ACT"}, Or(t.nRREFD, t.nRFCpb)),
     Rule(PseudoChannel, {"REFAB"}, {"ACT", "PREPB", "REFPB"}, t.nRFC),
     Rule(Bank, {"RFMPB"}, {"ACT"}, t.nRFMpb),
     Rule(PseudoChannel, {"RFMAB"}, {"ACT", "PREPB", "RFMPB"}, t.nRFMab),
     Rule(Channel, {"MRW"}, {"ACT", "RD", "WR", "MRW", "MRR"}, t.nMRW),
     Rule(Channel, {"MRR"}, {"ACT", "RD", "WR", "MRW", "MRR"}, t.nMRR),
     Rule(Channel, {"ECCSCRUB", "RASERR"}, {"ACT", "REFPB", "RFMPB", "MRW", "MRR"},
          Max({t.nECCSCRUB, t.nRASERR})),
     Rule(Channel, {"RASERR"}, {"RD", "WR"}, t.nLINKRETRY)}

\* make_lpddr_constraints
LpddrRules(t) ==
    LET activate == {"ACT1"}
        gated    == {"ACT1"} \union CasCmds
        refToAct == Or(t.nREFDB2ACT, Or(t.nRREFD, t.nRRDS))
    IN  {Rule(Channel, ReadCmds, ReadCmds, t.nBL),
         Rule(Channel, WriteCmds, WriteCmds, t.nBL),
         Rule(Bank, {"CASRD"}, ReadCmds, t.nCAS),
         Rule(Bank, {"CASWR"}, WriteCmds, t.nCAS),
         Rule(Rank, ReadCmds, ReadCmds, t.nCCDS),
         Rule(Rank, WriteCmds, WriteCmds, t.nCCDS),
         Rule(Rank, ReadCmds, WriteCmds, t.nCL + t.nBL + 2 - t.nCWL),
         Rule(Rank, WriteCmds, ReadCmds, t.nCWL + t.nBL + t.nWTRS),
         Rule(Rank, activate, activate, t.nRRDS),
         Rule(BankGroup, ReadCmds, ReadCmds, t.nCCDL),
         Rule(BankGroup, WriteCmds, WriteCmds, t.nCCDL),
         Rule(BankGroup, WriteCmds, ReadCmds, t.nCWL + t.nBL + t.nWTRL),
         Rule(BankGroup, activate, activate, t.nRRDL),
         Rule(Channel, PreCmds, PreCmds, t.nPPD),
         Rule(Bank, activate, activate, t.nRC),
         Rule(Bank, activate, ReadCmds, t.nRCDRD),
         Rule(Bank, activate, WriteCmds, t.nRCDWR),
         Rule(Bank, activate, {"PREPB"}, t.nRAS),
         Rule(Bank, {"PREPB"}, {"ACT1", "REFDB"}, t.nRP),
         Rule(Rank, {"PREAB"}, {"REFDB"}, t.nRPab),
         Rule(Bank, {"RD"}, {"PREPB"}, t.nRTP),
         Rule(Bank, {"WR"}, {"PREPB"}, t.nCWL + t.nBL + t.nWR),
         Rule(Bank, {"REFPB", "REFDB"}, activate, t.nRFCpb),
         Rule(Bank, {"RFMPB"}, activate, Or(t.nRFMpb, t.nRFCpb)),
         Rule(PseudoChannel, {"REFDB", "RFMPB"}, activate, refToAct),
         Rule(Bank, {"REFDB"}, {"REFDB"}, t.nRFCpb),
         Rule(Rank, {"REFDB"}, {"REFAB"}, t.nRFCpb),
         Rule(Rank, {"REFAB"}, {"REFDB", "REFAB", "ACT1", "PREAB"}, t.nRFC),
         Rule(PseudoChannel, {"RFMPB"}, {"RFMPB"}, t.nRRDL),
         Rule(Rank, {"RFMAB"}, {"ACT1", "PREAB", "RFMPB"}, Or(t.nRFMab, t.nRFC)),
         Rule(Channel, {"MRW"}, gated \union {"MRW", "MRR"}, t.nMRW),
         Rule(Channel, {"MRR"}, gated \union {"MRW", "MRR"}, t.nMRR),
         Rule(PseudoChannel, {"WCKSYNC"}, {"RD", "WR"}, t.nWCKSYNC),
         Rule(Channel, {"WCKTRAIN"}, gated, t.nWCKTRAIN),
         Rule(Channel, {"DVFS"}, gated \union {"MRW"}, t.nDVFS),
         Rule(Channel, {"PDE", "PDX"}, gated, t.nPDEX),
         Rule(Channel, {"SREFEN", "SREFEX"}, {"ACT1", "REFDB", "RFMPB"}, t.nSREFEX),
         Rule(Channel, {"ECCSCRUB", "RASERR"}, gated \union {"REFDB", "RFMPB"},
              Max({t.nECCSCRUB, t.nRASERR}))}

\* finalize_spec: the rules are part of the specification.
Finalized(sp) == [rules |-> IF sp.lpddr THEN LpddrRules(sp.t) ELSE HbmRules(sp.t)] @@ sp

\* apply_standard_traits: what the family fixes, HBM4 and LPDDR6 as delivered.
HbmTraits ==
    [lpddr |-> FALSE, mult |-> 2, row |-> PseudoChannel, col |-> PseudoChannel, act |-> Rank,
     wck |-> PseudoChannel, dual |-> FALSE, always |-> FALSE, dvfs |-> FALSE, retrain |-> FALSE,
     ecc |-> TRUE, retry |-> FALSE]

LpddrTraits ==
    [lpddr |-> TRUE, mult |-> 1, row |-> PseudoChannel, col |-> PseudoChannel,
     act |-> PseudoChannel, wck |-> PseudoChannel, dual |-> TRUE, always |-> FALSE, dvfs |-> TRUE, retrain |-> TRUE,
     ecc |-> FALSE, retry |-> FALSE]

\* validate_spec, of the fields modelled
ValidSpec(sp) ==
    /\ \A n \in {sp.org.pcs, sp.org.sids, sp.org.ranks, sp.org.groups, sp.org.banks,
                 sp.mult} : n > 0
    /\ sp.lpddr => 0 < sp.t.nAADMin /\ sp.t.nAADMin <= sp.t.nAADMax
    /\ sp.dual => sp.org.groups % 2 = 0
    /\ sp.t.nRAS >= 0 /\ sp.t.nRP >= 0 /\ sp.t.nRC >= sp.t.nRAS + sp.t.nRP

-----------------------------------------------------------------------------
\* The pairing of the two edges of a clock: after a row command of a rising edge,
\* a falling edge that allows few PREs, in ticks; record_rising_row_command.
NoPairing == [cmd |-> "NOP", pc |-> 0, bank |-> <<>>, in |-> -1]

AgedPairing(p) == IF p.in > 0 THEN [p EXCEPT !.in = @ - 1] ELSE NoPairing

BankKey(d) == <<d[2], d[4], d[5]>>

PairingAfter(cmd, d) ==
    [cmd |-> cmd, pc |-> d[1], bank |-> IF cmd \in AllBankCmds THEN <<>> ELSE BankKey(d),
     in |-> IF cmd = "ACT" THEN 3 ELSE 1]

-----------------------------------------------------------------------------
(* Gates: a function from <<name, place>> to the ticks left. *)

Left(g, k) == IF k \in DOMAIN g THEN g[k] ELSE 0

\* A tick passes.
Aged(g) == [k \in {x \in DOMAIN g : g[x] > 1} |-> g[k] - 1]

\* Gates put to new values, whatever they were.
Assigned(g, new) ==
    LET all == new @@ g IN [k \in {x \in DOMAIN all : all[x] > 0} |-> all[k]]

\* Gates never lowered.
Raised(g, new) == Assigned(g, [k \in DOMAIN new |-> Max({new[k], Left(g, k)})])

AllOpen(g, keys) == \A k \in keys : k \notin DOMAIN g

\* The rules' gates that a command waits for.  A place that no rule closes for
\* the command has no gate.
RuleGates(sp, cmd, d) ==
    {<<cmd, At(s, d)>> : s \in Channel .. Bank}
        \union (IF cmd = "REFDB" /\ sp.dual THEN {<<cmd, Partner(d)>>} ELSE {})

\* constraint_ready_at, as ticks from now, of the commands it is asked for
RulesOpenIn(sp, g, cmd, d) == Max({Left(g, k) : k \in RuleGates(sp, cmd, d)})

\* The places a rule closes.
Closed(sp, r, cmd, d) ==
    IF r.sib THEN Siblings(sp, r.scope, d)
    ELSE {At(r.scope, d)} \union
         (IF cmd = "REFDB" /\ sp.dual /\ r.scope = Bank THEN {Partner(d)} ELSE {})

\* The gates a command closes, and for how long: apply_constraints
RuleDelays(sp, cmd, d) ==
    LET hit == UNION {r.next \X Closed(sp, r, cmd, d) \X {r} :
                        r \in {x \in sp.rules : cmd \in x.prev}}
    IN  [k \in {<<h[1], h[2]>> : h \in hit} |->
            Max({Delay(sp, h[3].lat) : h \in {x \in hit : <<x[1], x[2]>> = k}})]

\* The activation window: every FawCmds command of the last nFAW clocks, as the
\* ticks until it leaves the window (prune_recent_acts, faw_ready).
FawWindow(sp) == Delay(sp, AtLeast1(sp.t.nFAW))

AgedActs(acts) ==
    [p \in DOMAIN acts |->
        LET old == [i \in DOMAIN acts[p] |-> acts[p][i] - 1]
        IN  SelectSeq(old, LAMBDA n : n > 0)]

FawReady(sp, acts, d) == Len(acts[At(sp.act, d)]) < 4

RecordedActs(sp, acts, cmd, d) ==
    IF cmd \in FawCmds THEN [acts EXCEPT ![At(sp.act, d)] = Append(@, FawWindow(sp))]
                       ELSE acts

-----------------------------------------------------------------------------
(* The banks, and the gates of each command: BankState, the scopes' gates.      *)
(* dram.row: the open row of a bank, or NoRow; dram.act: the banks between      *)
(* ACT1 and ACT2; dram.refdb: the pairs refreshed in a rank's sweep.           *)

NoRow == 0

Dram0(sp) ==
    [row   |-> [b \in BanksOf(sp) |-> NoRow],
     act   |-> {},
     left  |-> <<>>,
     acts  |-> [p \in PlacesOf(sp, sp.act) |-> <<>>],
     refdb |-> [p \in PlacesOf(sp, Rank) |-> {}]]

AgedDram(dram) == [dram EXCEPT !.left = Aged(@), !.acts = AgedActs(@)]

BusyBank(dram, b) == dram.row[b] # NoRow \/ b \in dram.act
BusyRank(sp, dram, d) == \E b \in RankMates(sp, d) : BusyBank(dram, b)
BusyChannel(sp, dram) == \E b \in BanksOf(sp) : BusyBank(dram, b)

Pair(d) == <<d[4] \div 2, d[5]>>
Pairs(sp) == (0 .. sp.org.groups \div 2 - 1) \X (0 .. sp.org.banks - 1)

WckReady(sp, dram, d) ==
    (sp.lpddr /\ ~sp.always) =>
        /\ <<"wck_ready", At(sp.wck, d)>> \notin DOMAIN dram.left
        /\ <<"wck_until", At(sp.wck, d)>> \in DOMAIN dram.left

\* The gates timing_ok reads itself, beside the rules'.
OwnGates(sp, cmd, d) ==
    LET bank(n) == <<n, d>>
        row(n)  == <<n, At(sp.row, d)>>
        col(n)  == <<n, At(sp.col, d)>>
        grp(n)  == <<n, At(BankGroup, d)>>
        wck(n)  == <<n, At(sp.wck, d)>>
    IN  CASE cmd \in ActCmds ->
                 {bank("next_act"), row("next_row"), row("next_act"), grp("next_act")}
          [] cmd = "ACT2" -> {bank("next_act2"), row("next_row")}
          [] cmd \in {"PRE", "PREPB"} -> {bank("next_pre"), row("next_row")}
          [] cmd \in CasCmds \union {"WCKSYNC"} -> {col("next_col"), wck("next_cas")}
          [] cmd \in ReadCmds ->
                 {bank("next_rd"), bank("next_any_col"), col("next_col"), grp("next_col")}
          [] cmd \in WriteCmds ->
                 {bank("next_wr"), bank("next_any_col"), col("next_col"), grp("next_col")}
          [] cmd \in {"REFPB", "RFMPB"} -> {bank("next_act"), row("next_row")}
          [] cmd = "REFDB" ->
                 {bank("next_act"), <<"next_act", Partner(d)>>, row("next_row")}
          [] OTHER -> {row("next_row")}

\* constraint_ready and the gates of timing_ok
GatesOpen(sp, dram, cmd, d) ==
    /\ AllOpen(dram.left, RuleGates(sp, cmd, d) \union OwnGates(sp, cmd, d))
    /\ cmd \in FawCmds => FawReady(sp, dram.acts, d)
    /\ cmd \in DataCmds => WckReady(sp, dram, d)
    /\ (cmd = "REFDB" /\ sp.dual) =>
            /\ <<"refdb", At(Rank, d)>> \notin DOMAIN dram.left
            /\ Pair(d) \notin dram.refdb[At(Rank, d)]

\* What a command assigns to gates, in clocks; CommandExecutor::issue.
AssignedClocks(sp, cmd, d) ==
    LET t == sp.t
        bank(n, v) == <<n, d>> :> v
        row(n, v)  == <<n, At(sp.row, d)>> :> v
        col(n, v)  == <<n, At(sp.col, d)>> :> v
        grp(n, v)  == <<n, At(BankGroup, d)>> :> v
        wck(n, v)  == <<n, At(sp.wck, d)>> :> v
        data(own) == bank("next_any_col", t.nCCDL) @@ bank(own, t.nCCDL)
                     @@ col("next_col", t.nCCDS) @@ grp("next_col", t.nCCDL)
    IN  CASE cmd \in ActCmds ->
                 bank("next_rd", t.nRCDRD) @@ bank("next_wr", t.nRCDWR)
                 @@ bank("next_pre", t.nRAS) @@ bank("next_act", t.nRC)
                 @@ row("next_act", t.nRRDS) @@ grp("next_act", t.nRRDL)
                 @@ (IF cmd = "ACT1" THEN bank("next_act2", AtLeast1(t.nAADMin)) ELSE <<>>)
          [] cmd = "ACT2" -> bank("next_act2", 0) @@ bank("act2_until", 0)
          [] cmd \in {"PRE", "PREPB"} -> bank("next_act", t.nRP)
          [] cmd \in CasCmds ->
                 wck("wck_ready", AtLeast1(t.nWCK2CK))
                 @@ wck("wck_until", Max({t.nWCKPST, t.nWCK2CK + 1}))
          [] cmd \in ReadCmds -> data("next_rd")
          [] cmd \in WriteCmds -> data("next_wr")
          [] cmd \in {"REFPB", "REFDB"} -> bank("next_act", t.nRFCpb)
          [] cmd = "RFMPB" -> bank("next_act", Or(t.nRFMpb, t.nRFCpb))
          [] cmd = "MRW" -> row("next_row", AtLeast1(t.nMRW))
          [] cmd = "MRR" -> row("next_row", AtLeast1(t.nMRR))
          [] cmd = "WCKSYNC" -> wck("next_cas", AtLeast1(t.nWCKSYNC))
                                @@ wck("wck_ready", AtLeast1(t.nWCKSYNC))
          [] cmd = "WCKTRAIN" ->
                 row("next_row", AtLeast1(t.nWCKTRAIN)) @@ wck("next_cas", AtLeast1(t.nWCKTRAIN))
                 @@ wck("wck_ready", AtLeast1(t.nWCKTRAIN))
                 @@ wck("wck_until", AtLeast1(t.nWCKTRAIN) + AtLeast1(t.nWCKPST))
          [] cmd = "DVFS" -> row("next_row", AtLeast1(t.nDVFS)) @@ col("next_col", AtLeast1(t.nDVFS))
                             @@ wck("next_cas", AtLeast1(t.nDVFS))
          [] cmd = "PDX" -> row("next_row", AtLeast1(t.nPDEX))
          [] cmd = "SREFEX" -> row("next_row", AtLeast1(t.nSREFEX))
          [] cmd = "ECCSCRUB" -> row("next_row", AtLeast1(t.nECCSCRUB))
          [] cmd = "RASERR" -> row("next_row", AtLeast1(t.nRASERR))
          [] OTHER -> <<>>

\* What a command raises gates to, in clocks.
RaisedClocks(sp, cmd, d) ==
    LET t == sp.t
        write == t.nCWL + t.nBL + t.nWR
        bank(n, v) == <<n, d>> :> v
        wck(v) == IF sp.lpddr THEN <<"wck_until", At(sp.wck, d)>> :> v ELSE <<>>
        mates(v) == [k \in {"next_act"} \X RankMates(sp, d) |-> v]
    IN  CASE cmd \in ReadCmds ->
                 bank("next_pre", t.nRTP) @@ wck(t.nCL + t.nBL + t.nWCKPST)
                 @@ (IF cmd = "RDA" THEN bank("next_act", t.nRTP + t.nRP) ELSE <<>>)
          [] cmd \in WriteCmds ->
                 bank("next_pre", write) @@ wck(t.nCWL + t.nBL + t.nWCKPST)
                 @@ (IF cmd = "WRA" THEN bank("next_act", write + t.nRP) ELSE <<>>)
          [] cmd = "REFDB" -> <<"next_act", Partner(d)>> :> t.nRFCpb
          [] cmd = "PREAB" -> mates(Or(t.nRPab, t.nRP))
          [] cmd = "REFAB" -> mates(t.nRFC)
          [] cmd = "RFMAB" -> mates(Or(t.nRFMab, t.nRFC))
          [] cmd = "WCKSYNC" -> wck(Max({t.nWCKPST, t.nWCKSYNC + 1}))
          [] cmd = "RASERR" -> <<"next_col", At(sp.col, d)>> :> AtLeast1(t.nLINKRETRY)
          [] OTHER -> <<>>

\* Gates closed by ticks and not clocks: the bus for the rest of this one, and
\* the last tick of ACT2.
AssignedTicks(sp, cmd, d) ==
    CASE cmd \in CasCmds -> (<<"next_col", At(sp.col, d)>> :> 1) @@ (<<"next_cas", At(sp.wck, d)>> :> 1)
      [] cmd = "WCKSYNC" -> <<"next_col", At(sp.col, d)>> :> 1
      [] cmd \in DataCmds -> <<>>
      [] cmd = "ACT1" -> (<<"next_row", At(sp.row, d)>> :> 1)
                         @@ (<<"act2_until", d>> :> Delay(sp, Max({sp.t.nAADMin, sp.t.nAADMax})) + 1)
      [] OTHER -> <<"next_row", At(sp.row, d)>> :> 1

Ticks(sp, clocks) == [k \in DOMAIN clocks |-> Delay(sp, clocks[k])]

-----------------------------------------------------------------------------
\* The sweep of dual-bank refreshes (apply_constraints).
SweepAfter(sp, sweep, cmd, d) ==
    LET r == At(Rank, d) IN
    CASE ~sp.dual -> sweep
      [] sp.dual /\ cmd = "REFDB" ->
            [sweep EXCEPT ![r] = IF @ \union {Pair(d)} = Pairs(sp) THEN {} ELSE @ \union {Pair(d)}]
      [] sp.dual /\ cmd = "REFAB" -> [sweep EXCEPT ![r] = {}]
      [] sp.dual /\ cmd = "SREFEX" -> [p \in DOMAIN sweep |-> {}]
      [] OTHER -> sweep

SweepGates(sp, sweep, cmd, d) ==
    LET r     == At(Rank, d)
        short == Or(sp.t.nREFDB2REFDBS, sp.t.nRRDL)
        long  == Or(sp.t.nREFDB2REFDBL, short)
    IN  CASE ~sp.dual -> <<>>
          [] sp.dual /\ cmd = "REFDB" ->
                <<"refdb", r>> :>
                    Delay(sp, IF SweepAfter(sp, sweep, cmd, d)[r] = {} THEN long ELSE short)
          [] sp.dual /\ cmd = "REFAB" -> <<"refdb", r>> :> Delay(sp, sp.t.nRFC)
          [] sp.dual /\ cmd = "SREFEX" -> [k \in {"refdb"} \X DOMAIN sweep |-> 0]
          [] OTHER -> <<>>

RowsAfter(sp, rows, cmd, d, row) ==
    CASE cmd \in {"ACT", "ACT2"} -> [rows EXCEPT ![d] = row]
      [] cmd \in {"PRE", "PREPB", "RDA", "WRA"} -> [rows EXCEPT ![d] = NoRow]
      [] cmd = "PREAB" -> [b \in DOMAIN rows |-> IF b \in RankMates(sp, d) THEN NoRow ELSE rows[b]]
      [] OTHER -> rows

ActivatingAfter(sp, act, cmd, d) ==
    CASE cmd = "ACT1" -> act \union {d}
      [] cmd \in {"ACT2", "PRE", "PREPB"} -> act \ {d}
      [] cmd = "PREAB" -> act \ RankMates(sp, d)
      [] OTHER -> act

\* CommandExecutor::issue
Executed(sp, dram, cmd, d, row) ==
    LET own == Raised(Assigned(dram.left,
                               Ticks(sp, AssignedClocks(sp, cmd, d)) @@ AssignedTicks(sp, cmd, d)),
                      Ticks(sp, RaisedClocks(sp, cmd, d)))
    IN  [row   |-> RowsAfter(sp, dram.row, cmd, d, row),
         act   |-> ActivatingAfter(sp, dram.act, cmd, d),
         left  |-> Raised(Assigned(own, SweepGates(sp, dram.refdb, cmd, d)),
                          RuleDelays(sp, cmd, d)),
         acts  |-> RecordedActs(sp, dram.acts, cmd, d),
         refdb |-> SweepAfter(sp, dram.refdb, cmd, d)]
=============================================================================
