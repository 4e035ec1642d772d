----------------------------- MODULE MCDataImage -----------------------------
\* Small instances of DataImage: three lines, of which two share a row, in two
\* chunks, of which one fits the cache.
EXTENDS DataImage

\* Lines 0 and 2 are in one row and in different chunks.
MCRowOf == [l \in Lines |-> IF l = 1 THEN 2 ELSE 1]

Whole(l) == [line |-> l, data |-> [b \in Bits |-> 1]]
Part(l, b, v) == [line |-> l, data |-> [c \in {b} |-> v]]

MCWrites == {Whole(0), Part(2, 1, 1)}
=============================================================================
