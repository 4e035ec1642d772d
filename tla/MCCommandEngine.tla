---------------------------- MODULE MCCommandEngine ----------------------------
(* Scenarios of the command path: two channels with a few clocks for each      *)
(* latency, and programs in which requests, controls and maintenance meet.      *)
EXTENDS CommandEngine

\* Latencies in their usual order, small enough for a request to take tens of ticks.
Timing ==
    [nBL |-> 2, nCL |-> 4, nCWL |-> 2, nRCDRD |-> 3, nRCDWR |-> 2, nRAS |-> 5, nRP |-> 2,
     nRPab |-> 3, nRC |-> 8, nRTP |-> 2, nWR |-> 3, nRTW |-> 5, nWTRS |-> 1, nWTRL |-> 2,
     nCCDS |-> 2, nCCDL |-> 3, nCCDR |-> 3, nRRDS |-> 1, nRRDL |-> 2, nFAW |-> 12, nPPD |-> 1,
     nRFC |-> 7, nRFCpb |-> 4, nRREFD |-> 3, nRFMpb |-> 4, nRFMab |-> 6, nMRW |-> 3,
     nMRR |-> 2, nECCSCRUB |-> 3, nRASERR |-> 2, nLINKRETRY |-> 2, nCAS |-> 1, nWCK2CK |-> 1,
     nWCKPST |-> 4, nWCKSYNC |-> 2, nWCKTRAIN |-> 4, nDVFS |-> 3, nPDEX |-> 3, nSREFEX |-> 5,
     nREFDB2ACT |-> 3, nREFDB2REFDBS |-> 2, nREFDB2REFDBL |-> 5, nAADMin |-> 1, nAADMax |-> 3]

\* its SIDs interleaved, as the profile has it
HBM ==
    Finalized([t |-> Timing, org |-> [pcs |-> 2, sids |-> 2, ranks |-> 1, groups |-> 2, banks |-> 1],
               col |-> Sid] @@ HbmTraits)

\* with its link ECC and link protection on
LPDDR ==
    Finalized([t |-> Timing, org |-> [pcs |-> 1, sids |-> 1, ranks |-> 1, groups |-> 2, banks |-> 2],
               ecc |-> TRUE, retry |-> TRUE] @@ LpddrTraits)

Hasty == [LPDDR EXCEPT !.t.nAADMax = 1] \* ACT2 in the one tick after ACT1

B(pc, sid, group, bank) == <<pc, sid, 0, group, bank>>

Access(kind, d, row, late) == [kind |-> kind, cmd |-> "NOP", d |-> d, row |-> row, from |-> 0, wait |-> late]
Control(cmd, late) ==
    [kind |-> "Control", cmd |-> cmd, d |-> B(0, 0, 0, 0), row |-> NoRow, from |-> 0, wait |-> late]
Internal(cmd, d, late) == [kind |-> "Internal", cmd |-> cmd, d |-> d, row |-> NoRow, from |-> 0, wait |-> late]

\* The start-up sequence, a control every so many ticks.
Boot(spec, full, interval) ==
    LET cmds == ControlSequence(spec, full)
    IN  [i \in DOMAIN cmds |-> Control(cmds[i], IF i = 1 THEN 0 ELSE interval)]

Base ==
    [spec |-> LPDDR, policy |-> "Open", fcfs |-> FALSE, behavioral |-> FALSE,
     size |-> [Priority |-> 2, Read |-> 2, Write |-> 3], lowWater |-> 1, highWater |-> 2,
     lowMode |-> "Off", entryClocks |-> 0, exitClocks |-> 0, program |-> <<>>]

HbmOpen ==
    [Base EXCEPT !.spec = HBM, !.program =
        Boot(HBM, FALSE, 1) \o
        <<Access("Read", B(0, 0, 0, 0), 1, 0), Access("Write", B(0, 0, 0, 0), 2, 1),
          Access("Read", B(0, 1, 1, 0), 1, 3), Access("Read", B(1, 0, 0, 0), 1, 0),
          Internal("REFAB", B(0, 0, 0, 0), 8), Internal("REFPB", B(0, 1, 1, 0), 4),
          Access("Read", B(0, 0, 1, 0), 1, 1)>>]

HbmClosed ==
    [Base EXCEPT !.spec = HBM, !.policy = "Closed", !.fcfs = TRUE, !.behavioral = TRUE, !.program =
        <<Control("MRR", 1), Control("RASERR", 0),
          Access("Write", B(0, 0, 0, 0), 1, 1), Access("Write", B(0, 0, 1, 0), 1, 0),
          Access("Read", B(0, 0, 0, 0), 2, 8), Internal("RFMPB", B(0, 0, 0, 0), 6),
          Internal("RFMAB", B(0, 0, 0, 0), 1), Access("Read", B(0, 1, 0, 0), 1, 2)>>]

LpddrOpen ==
    [Base EXCEPT !.program =
        <<Access("Read", B(0, 0, 0, 0), 1, 0), Access("Write", B(0, 0, 0, 1), 1, 6),
          Internal("REFDB", B(0, 0, 0, 0), 9), Access("Read", B(0, 0, 0, 0), 2, 6),
          Internal("REFDB", B(0, 0, 0, 1), 4), Access("Write", B(0, 0, 1, 0), 1, 2),
          Internal("REFAB", B(0, 0, 0, 0), 3)>>]

\* The start-up sequence of the command line, with requests behind it; and the full
\* one, whose requests wait until it is over.
LpddrBoot ==
    [Base EXCEPT !.policy = "Closed", !.behavioral = TRUE, !.program =
        Boot(LPDDR, FALSE, 1) \o
        <<Control("WCKSYNC", 1),
          Access("Read", B(0, 0, 0, 0), 1, 6), Access("Write", B(0, 0, 0, 0), 2, 3),
          Internal("RFMPB", B(0, 0, 1, 0), 2)>>]

LpddrFull ==
    [Base EXCEPT !.behavioral = TRUE, !.program =
        Boot(LPDDR, TRUE, 2) \o <<[Access("Read", B(0, 0, 1, 1), 1, 42) EXCEPT !.from = 40]>>]

LpddrHasty ==
    [Base EXCEPT !.spec = Hasty, !.size.Read = 3, !.program =
        <<Access("Read", B(0, 0, 0, 0), 1, 0), Access("Read", B(0, 0, 0, 1), 1, 6),
          Access("Read", B(0, 0, 0, 0), 1, 8), Access("Read", B(0, 0, 1, 0), 1, 3)>>]

After(item, ticks) == [item EXCEPT !.from = ticks]

\* Power down and self refresh asked for, with a read that finds its queue full and a
\* write; or power down of its own, after two idle clocks.
PowerDown ==
    [Base EXCEPT !.policy = "Closed", !.behavioral = TRUE, !.size.Read = 1, !.program =
        <<Access("Read", B(0, 0, 0, 0), 1, 0), Control("PDE", 0), Access("Read", B(0, 0, 0, 1), 1, 9),
          After(Control("SREFEN", 42), 40), After(Access("Write", B(0, 0, 0, 0), 1, 9), 3)>>]

Drowsy ==
    [Base EXCEPT !.policy = "Closed", !.lowMode = "PowerDown", !.entryClocks = 2,
                 !.exitClocks = 3, !.program =
        <<Access("Read", B(0, 0, 0, 0), 1, 5), Internal("REFPB", B(0, 0, 1, 1), 25),
          Access("Read", B(0, 0, 0, 1), 1, 25), Access("Write", B(0, 0, 1, 0), 1, 3)>>]

MCScenarios == <<HbmOpen, HbmClosed, LpddrOpen, LpddrBoot, LpddrFull, LpddrHasty, PowerDown, Drowsy>>

\* A write and reads to one row, each data command with its precharge.
SharedRow ==
    [Base EXCEPT !.policy = "Closed", !.program =
        <<Access("Write", B(0, 0, 0, 0), 1, 3), Access("Read", B(0, 0, 0, 0), 1, 6),
          Access("Read", B(0, 0, 0, 0), 1, 6)>>]

MCSharedRow == <<SharedRow>>
=============================================================================
