--------------------------- MODULE MCSparseGateAxi ---------------------------
(***************************************************************************)
(* A small SparseGate for TLC: an aperture of lines 1 to 16 with the         *)
(* register window in line 16.  Laid out well, Q has line 1, the K records   *)
(* lines 2 to 4, the candidates 5 and 6, the results 7 to 9, the KV records  *)
(* 10 to 12 and the gathered records 13 to 15.                               *)
(***************************************************************************)
EXTENDS SparseGateAxi

MCZero0 == [mode |-> 0, qbase |-> 0, kbase |-> 0]
MCZero1 == [cbase |-> 0, obase |-> 0, kvbase |-> 0, gbase |-> 0]
MCZero2 == [nkeys |-> 0, ncand |-> 0, topk |-> 0, heads |-> 0,
            context |-> 0, epoch |-> 0, kv |-> 0]

MCLine0 == {[mode |-> m, qbase |-> 1, kbase |-> 2] : m \in 0 .. 2}
MCLine1 == {[cbase |-> 5, obase |-> o, kvbase |-> 10, gbase |-> 13] : o \in {3, 7}}
MCLine2 == {[nkeys |-> 2, ncand |-> 2, topk |-> k, heads |-> 1,
             context |-> 1, epoch |-> 1, kv |-> k - 1] : k \in {1, 2}}

\* Candidates come with two results, and the layout whose results would overwrite
\* the K records with two results of a full scan only.
Chosen ==
    /\ cfg.line0.mode = 1 => cfg.line2.topk # 1
    /\ cfg.line1.obase = 3 => cfg.line2.topk # 1 /\ cfg.line0.mode = 0

MCSpec == Init /\ [][Tick /\ Chosen']_vars /\ WF_vars(Tick /\ MemoryAnswers)
=============================================================================
