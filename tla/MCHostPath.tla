----------------------------- MODULE MCHostPath -----------------------------
(***************************************************************************)
(* A bus of two lanes, pages of four bytes, a memory of six.                    *)
(***************************************************************************)
EXTENDS HostPath

Access(cmd, addr, len, off) ==
    [cmd |-> cmd, addr |-> addr, len |-> len, on |-> (0 .. len - 1) \ off]

W(addr, len) == Access("write", addr, len, {})
R(addr, len) == Access("read", addr, len, {})
Bell == [cmd |-> "bell"]

\* The segments cover a packet without a gap, each of aligned beats and in one page.
ASSUME SplitAssumption ==
    \A addr \in 0 .. 2 * PageBytes : \A len \in 1 .. MaxLength :
        LET segs == Split(addr, 0, len) IN
        /\ \A i \in DOMAIN segs :
              LET s == segs[i]
                  end == s.addr + s.beat * s.beats
              IN  /\ s.addr = addr + s.offset /\ s.addr % s.beat = 0
                  /\ s.beats \in 1 .. MaxBeats
                  /\ s.addr \div PageBytes = (end - 1) \div PageBytes
                  /\ end = IF i = Len(segs) THEN addr + len ELSE segs[i + 1].addr
        /\ segs[1].offset = 0

\* A command that launches a kernel, and one that does not.
Launch(accesses, kernel) == [accesses |-> accesses, kernel |-> kernel, launch |-> TRUE]
Plain(accesses) == [accesses |-> accesses, kernel |-> <<>>, launch |-> FALSE]

Scenario(slaves, atomics, host, commands) ==
    {[slave |-> s, atomics |-> atomics, host |-> host, commands |-> commands] :
        s \in slaves}

Both == {Ram0, Fabric0}

MCScenarios ==
    \* Segments, masks and overlaps.
    Scenario(Both, <<>>, <<Access("write", 1, 4, {1}), R(0, 4), W(2, 2), R(3, 2)>>, <<>>)
    \union Scenario(Both, <<>>, <<W(0, 3), W(1, 4), R(1, 1), Access("read", 0, 4, {2})>>, <<>>)
    \* Errors.
    \union Scenario(Both, <<>>, <<W(3, 4), R(2, 5), Access("other", 0, 2, {}), R(5, 2)>>, <<>>)
    \* Atomic accesses before.
    \union Scenario(Both, <<W(0, 2), R(1, 2)>>, <<R(0, 2)>>, <<>>)
    \* A kernel between the accesses of two commands.
    \union Scenario(Both, <<>>, <<Bell, Bell>>,
                    <<Launch(<<R(0, 2)>>, <<W(2, 2), R(2, 1), W(1, 2)>>),
                      Plain(<<R(1, 2), W(2, 2)>>)>>)
    \* The host beside the device.
    \union Scenario(Both, <<>>, <<Bell, W(0, 2), Bell>>,
                    <<Launch(<<W(0, 1)>>, <<R(0, 2), W(1, 1)>>), Launch(<<>>, <<W(0, 1)>>)>>)
=============================================================================
