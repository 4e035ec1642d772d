------------------------------ MODULE DramBanks ------------------------------
(***************************************************************************)
(* The banks as the controller sees them: which commands are legal            *)
(* (mem_sim/src/dram/state.cpp and the state conditions of timing_ok), what a   *)
(* command does to the banks (controller/executor.cpp) and to the row buffers    *)
(* of the image, and the row policy's bookkeeping (controller/row_policy.cpp).  *)
(* When a legal command may issue, the timing, is left open.                  *)
(*                                                                         *)
(* conf.split: activation takes two commands, ACT1 and ACT2.                  *)
(* conf.policy: "Open" leaves a row open, "Closed" closes it with every access, *)
(* "Cap" after RowCap of them.                                              *)
(***************************************************************************)
EXTENDS Maintenance

CONSTANT RowCap \* row_policy_cap

ASSUME CapAssumption == RowCap \in Nat \ {0}

ReadCommands == {"RD", "RDA"}
WriteCommands == {"WR", "WRA"}
DataCommands == ReadCommands \union WriteCommands
AllBankCommands == {"PREAB", "REFAB", "RFMAB"}
Closing == {"PREPB", "REFPB", "RFMPB"} \union AllBankCommands

Bank0 == [b \in Banks |-> [row |-> NoRow, activating |-> FALSE]]

Opened(bank, b) == bank[b].row # NoRow
Busy(bank, b) == Opened(bank, b) \/ bank[b].activating
RankBusy(conf, bank, b) ==
    \E c \in RankBanks(conf.ranks, RankOf(conf.ranks, b)) : Busy(bank, c)

\* check_command_state, and timing_ok's conditions on the state.  first: the
\* request issued the bank's ACT1.
Legal(conf, bank, b, row, first, cmd) ==
    CASE cmd = "ACT"   -> ~conf.split /\ ~Busy(bank, b)
      [] cmd = "ACT1"  -> /\ conf.split /\ ~Busy(bank, b)
                          /\ \A c \in RankBanks(conf.ranks, RankOf(conf.ranks, b)) :
                                ~bank[c].activating
      [] cmd = "ACT2"  -> bank[b].activating /\ first
      [] cmd = "PREPB" -> Opened(bank, b) /\ ~bank[b].activating
      [] cmd = "PREAB" -> RankBusy(conf, bank, b)
      [] cmd \in DataCommands -> bank[b].row = row
      [] cmd \in {"REFPB", "RFMPB"} -> ~Busy(bank, b)
      [] cmd \in {"REFAB", "RFMAB"} -> ~RankBusy(conf, bank, b)

\* CommandExecutor::issue
BankAfter(conf, bank, b, row, cmd) ==
    CASE cmd \in {"ACT", "ACT2"} -> [bank EXCEPT ![b] = [row |-> row, activating |-> FALSE]]
      [] cmd = "ACT1" -> [bank EXCEPT ![b].activating = TRUE]
      [] cmd = "PREPB" -> [bank EXCEPT ![b] = Bank0[b]]
      [] cmd \in {"RDA", "WRA"} -> [bank EXCEPT ![b].row = NoRow]
      [] cmd = "PREAB" ->
            [c \in Banks |-> IF RankOf(conf.ranks, c) = RankOf(conf.ranks, b)
                             THEN Bank0[c] ELSE bank[c]]
      [] OTHER -> bank

RfmAfter(conf, rfm, b, cmd) ==
    CASE cmd \in {"ACT", "ACT1"} -> OnActivate(conf, rfm, b)
      [] cmd = "RFMPB" -> Mitigated(rfm, {b}, {})
      [] cmd = "RFMAB" -> LET r == RankOf(conf.ranks, b) IN
                          Mitigated(rfm, RankBanks(conf.ranks, r), {r})
      [] OTHER -> rfm

\* apply_storage_command_event.  A bank closed by RDA or WRA closes in the
\* image when the data are done.
ImageAfter(conf, img, b, row, cmd) ==
    CASE cmd \in {"ACT", "ACT2"} -> Activated(img, b, row)
      [] cmd \in {"PREPB", "REFPB", "RFMPB"} -> Precharged(img, {b})
      [] cmd \in AllBankCommands ->
            Precharged(img, RankBanks(conf.ranks, RankOf(conf.ranks, b)))
      [] OTHER -> img

-----------------------------------------------------------------------------
\* RowPolicyEngine: accesses to the open row, and PREPBs it has asked for.
Policy0 == [accesses |-> [b \in Banks |-> 0], asked |-> [b \in Banks |-> FALSE]]

\* on_issue.  A PREAB clears the counters of every bank, in any rank.
PolicyAfter(conf, pol, b, cmd) ==
    CASE conf.policy # "Cap" -> pol
      [] conf.policy = "Cap" /\ cmd = "PREAB" -> Policy0
      [] conf.policy = "Cap" /\ cmd \in {"PREPB", "RDA", "WRA"} ->
            [accesses |-> [pol.accesses EXCEPT ![b] = 0],
             asked |-> [pol.asked EXCEPT ![b] = FALSE]]
      [] conf.policy = "Cap" /\ cmd \in {"RD", "WR"} ->
            [pol EXCEPT !.accesses[b] = IF @ < RowCap THEN @ + 1 ELSE @]
      [] OTHER -> pol

\* should_auto_precharge, and the bank conditions of should_schedule_precharge.
CapReached(conf, pol, b) == conf.policy = "Cap" /\ pol.accesses[b] >= RowCap

WantsPrecharge(conf, pol, b) == CapReached(conf, pol, b) /\ ~pol.asked[b]
=============================================================================
