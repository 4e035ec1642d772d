---------------------------- MODULE Maintenance ----------------------------
(***************************************************************************)
(* The two sources of maintenance commands of the controller:                *)
(* RefreshManager (mem_sim/src/controller/refresh.cpp), which owes every rank  *)
(* one refresh per deadline, may postpone some while there is ordinary work    *)
(* and pull one in while there is none; and RfmManager (rfm.cpp), which counts  *)
(* the activations of a bank and asks for refresh management at a threshold.   *)
(*                                                                         *)
(* conf.ranks is the number of ranks, conf.creditLimit refresh_credit_limit (0 for*)
(* none), and conf.allBank the policy: refreshes and RFM per rank, or per bank.*)
(* Operators map a manager's state to its next one.                         *)
(***************************************************************************)
EXTENDS MemPhy, Integers, Sequences

CONSTANTS
    PostponeLimit, \* refresh_postpone_limit
    PullinLimit,   \* refresh_pullin_limit
    RfmThreshold,  \* rfm_act_threshold
    RfmDecrement   \* rfm_decrement

ASSUME MaintenanceAssumption ==
    /\ {PostponeLimit, PullinLimit} \subseteq Nat
    /\ {RfmThreshold, RfmDecrement} \subseteq Nat \ {0}

Ranks(conf) == 0 .. conf.ranks - 1

Maint(cmd, bank) == [type |-> "Maint", cmd |-> cmd, bank |-> bank]

-----------------------------------------------------------------------------
\* RefreshManager.  credit: deadlines passed and not yet served.
Refresh0(conf) ==
    [rank |-> [r \in Ranks(conf) |-> [credit |-> 0, postponed |-> 0,
                                      pulled |-> 0, cursor |-> 0]],
     turn |-> 0]

\* A slip: a refresh done ahead is not set off.
CreditedOnce(conf, ref, due) ==
    [ref EXCEPT !.rank = [r \in Ranks(conf) |->
        [@[r] EXCEPT !.credit = IF r \in due THEN 1 ELSE @]]]

\* The ranks of due pass a deadline.
Credited(conf, ref, due) ==
    LET credit(r) == ref.rank[r].credit + (IF r \in due THEN 1 ELSE 0)
    IN  [rank |-> [r \in Ranks(conf) |->
                     [ref.rank[r] EXCEPT !.credit = credit(r),
                                         !.pulled = IF credit(r) >= 0 THEN 0 ELSE @]],
         turn |-> ref.turn]

\* The first rank of a set from the cursor on.
FirstRank(conf, ref, ranks) ==
    LET offset(r) == (r + conf.ranks - ref.turn) % conf.ranks
    IN  CHOOSE r \in ranks : \A q \in ranks : offset(r) <= offset(q)

\* seed_refresh_batch: all banks of the rank, or the bank whose turn it is.
Batch(conf, ref, r) ==
    LET first == CHOOSE b \in RankBanks(conf.ranks, r) :
                    \A c \in RankBanks(conf.ranks, r) : b <= c
    IN  IF conf.allBank THEN <<Maint("REFAB", first)>>
                        ELSE <<Maint("REFPB", first + ref.rank[r].cursor)>>

SeededRank(conf, x) ==
    [x EXCEPT !.credit = @ - 1,
              !.cursor = IF conf.allBank THEN @ ELSE (@ + 1) % (NBanks \div conf.ranks)]

Seeded(conf, ref, r) ==
    [rank |-> [ref.rank EXCEPT ![r] = SeededRank(conf, @)], turn |-> (r + 1) % conf.ranks]

\* Slips: one more than either limit.
PostponeOneMore(conf, now, due, busy, r) ==
    /\ r \in due /\ busy
    /\ now.rank[r].postponed <= PostponeLimit
    /\ conf.creditLimit = 0 \/ now.rank[r].credit <= conf.creditLimit

OweOneMore(conf, now, due, busy, r) ==
    /\ r \in due /\ busy
    /\ now.rank[r].postponed < PostponeLimit
    /\ conf.creditLimit = 0 \/ now.rank[r].credit <= conf.creditLimit + 1

\* Whether a rank that owes refreshes puts the latest off.  due: the ranks whose
\* deadline passes now; busy: ordinary work is waiting.
MayPostpone(conf, now, due, busy, r) ==
    /\ r \in due /\ busy
    /\ now.rank[r].postponed < PostponeLimit
    /\ conf.creditLimit = 0 \/ now.rank[r].credit <= conf.creditLimit

\* What was postponed waits for the next deadline or the end of the work, unless
\* the limit is reached.
Waits(now, due, busy, r) ==
    /\ busy /\ r \notin due
    /\ now.rank[r].postponed \in 1 .. PostponeLimit - 1

\* tick.  window: the ranks whose next deadline is less than half an interval away;
\* quiet: nothing at all is waiting.  The result holds the batch it seeds, if any.
RefreshTick(conf, ref, due, window, busy, quiet) ==
    LET now == Credited(conf, ref, due)
        owing == {r \in Ranks(conf) : now.rank[r].credit > 0 /\ ~Waits(now, due, busy, r)}
        early == {r \in Ranks(conf) : /\ quiet /\ r \in window
                                      /\ now.rank[r].credit = 0
                                      /\ now.rank[r].pulled < PullinLimit}
        served == FirstRank(conf, now, owing)
        ahead == FirstRank(conf, now, early)
    IN  CASE owing # {} /\ MayPostpone(conf, now, due, busy, served) ->
                [ref |-> [rank |-> [now.rank EXCEPT ![served].postponed = @ + 1],
                          turn |-> (served + 1) % conf.ranks],
                 batch |-> <<>>]
          [] owing # {} /\ ~MayPostpone(conf, now, due, busy, served) ->
                LET after == Seeded(conf, now, served) IN
                [ref |-> IF after.rank[served].credit > 0 THEN after
                         ELSE [after EXCEPT !.rank[served].postponed = 0],
                 batch |-> Batch(conf, now, served)]
          [] owing = {} /\ early # {} ->
                [ref |-> [Seeded(conf, now, ahead) EXCEPT !.rank[ahead].pulled = @ + 1],
                 batch |-> Batch(conf, now, ahead)]
          [] OTHER -> [ref |-> now, batch |-> <<>>]

-----------------------------------------------------------------------------
\* RfmManager
Rfm0(conf) == [acts |-> [b \in Banks |-> 0],
               bank |-> [b \in Banks |-> FALSE],
               rank |-> [r \in Ranks(conf) |-> FALSE]]

\* An RFM for the bank is on its way.
RfmPending(conf, rfm, b) ==
    IF conf.allBank THEN rfm.rank[RankOf(conf.ranks, b)] ELSE rfm.bank[b]

\* on_activate, and the RFM it asks for.
OnActivate(conf, rfm, b) ==
    LET counted == [rfm EXCEPT !.acts[b] = @ + 1] IN
    CASE counted.acts[b] < RfmThreshold -> counted
      [] counted.acts[b] >= RfmThreshold /\ conf.allBank ->
            [counted EXCEPT !.rank[RankOf(conf.ranks, b)] = TRUE]
      [] OTHER -> [counted EXCEPT !.bank[b] = TRUE]

RfmAsked(conf, rfm, b) ==
    IF rfm.acts[b] + 1 < RfmThreshold \/ RfmPending(conf, rfm, b) THEN <<>>
    ELSE <<Maint(IF conf.allBank THEN "RFMAB" ELSE "RFMPB", b)>>

\* on_rfmpb, on_rfmab: the banks they mitigate.
Mitigated(rfm, banks, ranks) ==
    [acts |-> [b \in Banks |->
                 IF b \notin banks THEN rfm.acts[b]
                 ELSE IF rfm.acts[b] < RfmDecrement THEN 0
                 ELSE rfm.acts[b] - RfmDecrement],
     bank |-> [b \in Banks |-> b \notin banks /\ rfm.bank[b]],
     rank |-> [r \in DOMAIN rfm.rank |-> r \notin ranks /\ rfm.rank[r]]]
=============================================================================
