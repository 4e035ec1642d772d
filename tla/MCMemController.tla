--------------------------- MODULE MCMemController ---------------------------
\* Small instances of MemController: two banks, two rows of one of them, and the
\* configurations of the controller that differ in control.
EXTENDS MemController

\* Lines 1 and 2 are two rows of bank 0; line 3 is another column of row 1.
MCBankOf == <<0, 0, 0>>
MCRowOf == <<1, 2, 1>>

\* The online interface's: HBM, a PHY model, FR-FCFS.
Hbm == [fcfs |-> FALSE, dual |-> TRUE, split |-> FALSE, behavioral |-> TRUE,
        ranks |-> 1, allBank |-> FALSE, policy |-> "Open", creditLimit |-> 1,
        requests |-> 3, deadlines |-> 1]

\* One command bus and two-step activation, in order, refresh per rank.
Lpddr == [Hbm EXCEPT !.requests = 2, !.fcfs = TRUE, !.dual = FALSE, !.split = TRUE,
                     !.behavioral = FALSE, !.allBank = TRUE]

\* Rows that close after some accesses, and with each.
Capped == [Hbm EXCEPT !.requests = 2, !.policy = "Cap", !.behavioral = FALSE]

\* The refresh of two ranks beside requests, and more deadlines while the first may
\* still be owed.
TwoRanks == [Hbm EXCEPT !.ranks = 2, !.requests = 2]
RanksOwing == [TwoRanks EXCEPT !.requests = 1, !.deadlines = 3]

\* One rank that may reach the limit of postponements, or the one of its credit, and
\* has a deadline more than that while a request waits.
Postponing == [Hbm EXCEPT !.behavioral = FALSE, !.creditLimit = 0,
                          !.requests = 2, !.deadlines = 4]
CreditBound == [Postponing EXCEPT !.creditLimit = 1, !.requests = 1]

MCConfs == {Hbm, Lpddr, Capped, TwoRanks, RanksOwing, Postponing, CreditBound}
OnlyHbm == {Hbm}

ReadOf(l) == [line |-> l, off |-> 1, cells |-> {1, 2}]
WriteOf(l, mask, whole) ==
    [line |-> l, off |-> 1, cells |-> {1, 2}, mask |-> mask, whole |-> whole]

MCReads == {ReadOf(1)}
MCWrites == {WriteOf(1, {1, 2}, TRUE), WriteOf(1, {2}, FALSE), WriteOf(2, {1, 2}, TRUE)}
SameRowWrites == {WriteOf(3, {1, 2}, TRUE)}
=============================================================================
