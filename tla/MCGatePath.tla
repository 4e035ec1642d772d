----------------------------- MODULE MCGatePath -----------------------------
\* Small instances of GatePath: three requests of a host and an access of the
\* engine, queues of one entry.
EXTENDS GatePath

Ram(write, id, lines) ==
    [write |-> write, rp |-> 0, id |-> id, mmio |-> FALSE, lock |-> FALSE, lines |-> lines]
Register(write, id) ==
    [write |-> write, rp |-> 0, id |-> id, mmio |-> TRUE, lock |-> FALSE, lines |-> <<0>>]
Locked(r) == [r EXCEPT !.lock = TRUE]

Both == <<1, 2>>

MCPrograms == {
    \* a write and a read of the same lines, and a read of the same group
    <<Ram(TRUE, 1, Both), Ram(FALSE, 1, Both), Ram(FALSE, 1, Both)>>,
    \* two writes of different groups, and a read
    <<Ram(TRUE, 1, Both), Ram(TRUE, 2, Both), Ram(FALSE, 1, Both)>>,
    \* a register access behind a burst of its group
    <<Ram(TRUE, 1, <<1>>), Register(TRUE, 1), Register(FALSE, 1)>>,
    \* refused accesses and accepted ones of one group
    <<Locked(Register(FALSE, 1)), Ram(FALSE, 1, <<3>>), Locked(Ram(FALSE, 1, <<2>>))>>}

MCDmaOps == {[write |-> TRUE, lines |-> <<1>>], [write |-> FALSE, lines |-> <<1>>]}
=============================================================================
