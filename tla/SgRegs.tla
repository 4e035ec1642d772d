------------------------------- MODULE SgRegs -------------------------------
(***************************************************************************)
(* The write channels of the SparseGate register slave                      *)
(* (rtl/sparse_gate_axi/sparse_gate_axi.sv:74-124).                         *)
(*                                                                         *)
(* A step is a rising clock edge; busy is the engine's flag, as it is before *)
(* the edge.  The host is chosen anew at every edge: it presents address and *)
(* data beats in either order and takes answers when it likes.  What a beat  *)
(* holds is chosen when it is looked at, which nobody can tell from its     *)
(* being latched earlier.  A 32-byte beat covers eight of the registers, so  *)
(* the configuration is kept as the three lines one beat can write:         *)
(*   line0: COMMAND, mode and the bases of Q and K (registers 2 to 7)        *)
(*   line1: the bases of candidates, output, KV and gather (8 to 15)         *)
(*   line2: counts, heads, context, epoch and the record size (16 to 22).    *)
(* A beat that writes some lanes of a line is a beat that leaves the others  *)
(* with the value they had.                                                 *)
(***************************************************************************)
EXTENDS Naturals

CONSTANTS
    Line0, Line1, Line2,  \* what hosts write to each line
    Zero0, Zero1, Zero2   \* the lines after reset

VARIABLES
    slave,  \* aw_have, w_have, write_drain, the B channel and the three pulses
    cfg     \* the configuration registers

Commands == {"none", "start", "invalidate", "illegal"}

RegsInit ==
    /\ slave = [aw_have |-> FALSE, w_have |-> FALSE, write_drain |-> FALSE,
                bvalid |-> FALSE, bresp |-> "OKAY",
                start |-> FALSE, invalidate |-> FALSE, illegal |-> FALSE]
    /\ cfg = [line0 |-> Zero0, line1 |-> Zero1, line2 |-> Zero2]

AwReady == ~slave.aw_have /\ ~slave.bvalid /\ ~slave.write_drain
WReady == ~slave.w_have /\ ~slave.bvalid

\* What every edge does before a beat is looked at: the pulses end, and an address,
\* a data beat and an answer are handed over or not.
Latched(aw, w, b) ==
    [slave EXCEPT !.start = FALSE,
                  !.invalidate = FALSE,
                  !.illegal = FALSE,
                  !.bvalid = @ /\ ~b,
                  !.aw_have = @ \/ aw,
                  !.w_have = @ \/ w]

\* The beats of a burst that was refused are dropped up to the last one.
DropBeat(s) ==
    /\ slave.write_drain
    /\ slave.w_have
    /\ \E last \in BOOLEAN :
          slave' = IF last
                   THEN [s EXCEPT !.w_have = FALSE, !.write_drain = FALSE,
                                  !.aw_have = FALSE, !.bvalid = TRUE,
                                  !.bresp = "SLVERR"]
                   ELSE [s EXCEPT !.w_have = FALSE]
    /\ UNCHANGED cfg

BeatComplete ==
    /\ ~slave.write_drain
    /\ slave.aw_have
    /\ slave.w_have
    /\ ~slave.bvalid

\* bad_write for the whole beat: the engine is busy, or the burst, its address,
\* its size or its strobes are not those of one register access.
RejectBeat(s) ==
    /\ BeatComplete
    /\ \E last \in BOOLEAN :
          slave' = IF last
                   THEN [s EXCEPT !.w_have = FALSE, !.aw_have = FALSE,
                                  !.bvalid = TRUE, !.bresp = "SLVERR"]
                   ELSE [s EXCEPT !.w_have = FALSE, !.write_drain = TRUE]
    /\ UNCHANGED cfg

\* A beat the checks let through: its lanes are written, and a command in it is
\* carried out.  An illegal command is answered with SLVERR; the lanes written
\* with it stay written.
Commit(s, line, value, command) ==
    /\ cfg' = [cfg EXCEPT ![line] = value]
    /\ slave' = [s EXCEPT !.w_have = FALSE,
                          !.aw_have = FALSE,
                          !.bvalid = TRUE,
                          !.bresp = IF command = "illegal" THEN "SLVERR" ELSE "OKAY",
                          !.start = command = "start",
                          !.invalidate = command = "invalidate",
                          !.illegal = command = "illegal"]

\* A slip: the beat is carried out although a job runs.
CommitWhileBusy(s, busy) ==
    /\ BeatComplete
    /\ \/ \E value \in Line0 \cup {cfg.line0}, command \in Commands :
             Commit(s, "line0", value, command)
       \/ \E value \in Line1 : Commit(s, "line1", value, "none")
       \/ \E value \in Line2 : Commit(s, "line2", value, "none")

CommitBeat(s, busy) ==
    /\ BeatComplete
    /\ ~busy
    /\ \/ \E value \in Line0 \cup {cfg.line0}, command \in Commands :
             Commit(s, "line0", value, command)
       \/ \E value \in Line1 : Commit(s, "line1", value, "none")
       \/ \E value \in Line2 : Commit(s, "line2", value, "none")

NoBeat(s) ==
    /\ ~(slave.write_drain /\ slave.w_have)
    /\ ~BeatComplete
    /\ slave' = s
    /\ UNCHANGED cfg

RegsStep(busy) ==
    \E aw \in {FALSE, AwReady}, w \in {FALSE, WReady}, b \in {FALSE, slave.bvalid} :
        LET s == Latched(aw, w, b)
        IN  \/ DropBeat(s)
            \/ RejectBeat(s)
            \/ CommitBeat(s, busy)
            \/ NoBeat(s)
=============================================================================
