------------------------------ MODULE MCAouLoop ------------------------------
\* Small instances of AouLoop: short flits, so that messages spill over, and
\* buffers of a few messages, so that the credit runs out.
EXTENDS AouLoop

Write(rp, id, len, full) ==
    [write |-> TRUE, rp |-> rp, id |-> id, len |-> len, full |-> full]
Read(rp, id, len) ==
    [write |-> FALSE, rp |-> rp, id |-> id, len |-> len, full |-> FALSE]

MCRxDepth == [RDATA |-> 2, WRESP |-> 1]

\* Two writes of one ID on two planes, which the order guard has to notice, or a
\* write and a read of several beats on one plane.
MCTxns == <<Write(0, 1, 2, FALSE), Write(1, 1, 1, TRUE),
            Write(0, 2, 2, FALSE), Read(0, 2, 3)>>
MCPrograms == {{1, 2}, {3, 4}}
=============================================================================
