------------------------------- MODULE SgCore -------------------------------
(***************************************************************************)
(* What the scoring core promises at its ports (rtl/sparse_gate/INTERFACE.md *)
(* and the assigns of sg_index_core.sv:77-90): a job is taken, keys are       *)
(* accepted one at a time and answered, and at the end the kept keys come out *)
(* one by one, in any order.  At most limit keys are kept, as many as were    *)
(* scored if there are fewer; which ones is not said here.                    *)
(*                                                                         *)
(* A step is a rising clock edge with the inputs p, a record of the ports:    *)
(*   reset, job, job_ok, limit, key_valid, key, finish, score_ready,          *)
(*   result_ready and done_ready.                                             *)
(***************************************************************************)
EXTENDS Naturals, FiniteSets

VARIABLE core

CoreReset == [state |-> "IDLE", limit |-> 0, key |-> 0, kept |-> {},
              failed |-> FALSE, head |-> 0]

CoreInit == core = CoreReset

\* The job is over: what was kept is gone.
CoreDone(failed) == [CoreReset EXCEPT !.state = "DONE", !.failed = failed]

\* The key that was scored enters the heap, or replaces one of its entries, or
\* is worse than all of them.
CoreKeeps ==
    LET both == core.kept \cup {core.key}
    IN  IF Cardinality(core.kept) < core.limit
        THEN {both}
        ELSE {both \ {worst} : worst \in both}

CoreTakesJob(p) ==
    /\ core.state = "IDLE"
    /\ core' = IF ~p.job THEN core
               ELSE IF p.job_ok
               THEN [CoreReset EXCEPT !.state = "READY", !.limit = p.limit]
               ELSE CoreDone(TRUE)

\* A key whose record is incomplete or malformed is answered at once.
CoreAccepts(p) ==
    /\ core.state = "READY"
    /\ p.key_valid
    /\ \E failed \in BOOLEAN :
          core' = [core EXCEPT !.state = IF failed THEN "SCORE" ELSE "BUSY",
                               !.key = IF failed THEN 0 ELSE p.key,
                               !.failed = failed]

CoreFinishes(p) ==
    /\ core.state = "READY"
    /\ ~p.key_valid
    /\ p.finish
    /\ \/ /\ core.kept = {}
          /\ core' = CoreDone(FALSE)
       \/ \E first \in core.kept :
             core' = [core EXCEPT !.state = "OUTPUTS", !.head = first]

CoreWaits(p) ==
    /\ core.state = "READY"
    /\ ~p.key_valid
    /\ ~p.finish
    /\ UNCHANGED core

CoreScores ==
    /\ core.state = "BUSY"
    /\ \/ core' = [core EXCEPT !.state = "SCORE", !.key = 0, !.failed = TRUE]
       \/ \E kept \in CoreKeeps :
             core' = [core EXCEPT !.state = "SCORE", !.key = 0, !.kept = kept]

CoreAnswers(p) ==
    /\ core.state = "SCORE"
    /\ core' = IF ~p.score_ready THEN core
               ELSE IF core.failed THEN CoreDone(TRUE)
               ELSE [core EXCEPT !.state = "READY"]

CoreOutputs(p) ==
    /\ core.state = "OUTPUTS"
    /\ \/ ~p.result_ready /\ UNCHANGED core
       \/ /\ p.result_ready
          /\ core.kept = {core.head}
          /\ core' = CoreDone(FALSE)
       \/ /\ p.result_ready
          /\ \E next \in core.kept \ {core.head} :
                core' = [core EXCEPT !.kept = @ \ {core.head}, !.head = next]

CoreEnds(p) ==
    /\ core.state = "DONE"
    /\ core' = IF p.done_ready THEN CoreReset ELSE core

CoreStep(p) ==
    \/ p.reset /\ core' = CoreReset
    \/ /\ ~p.reset
       /\ \/ CoreTakesJob(p)
          \/ CoreAccepts(p)
          \/ CoreFinishes(p)
          \/ CoreWaits(p)
          \/ CoreScores
          \/ CoreAnswers(p)
          \/ CoreOutputs(p)
          \/ CoreEnds(p)
=============================================================================
