--------------------------- MODULE MCSgIndexCore ---------------------------
(***************************************************************************)
(* TLC instances of the scoring core and the sorter: small jobs that follow   *)
(* each other, with errors and resets in between, or one job with a heap of    *)
(* three levels.                                                            *)
(***************************************************************************)
EXTENDS SgSelection

CONSTANTS SmallLimits, SmallKeys, SmallScores

IsLarge == limit_k' = TopkMax

\* The small jobs: a limit, keys and scores of few values.
Small ==
    /\ limit_k # TopkMax
    /\ limit_k' \in SmallLimits
    /\ active_index' \in SmallKeys
    /\ candidate' \in SmallScores

\* The large job comes first and last, without errors and resets.
Large ==
    /\ error_code' = 0
    /\ heads' = 1 /\ q_loaded' \subseteq {0}
    /\ state' = "SCORING" => 0 \in q_loaded
    /\ state = "IDLE" /\ ~Sorting =>
           /\ limit_k # TopkMax
           /\ heap = [i \in Places |-> NoEntry]
           /\ cache_idx = [i \in Places |-> 0]

Rest ==
    /\ state = "IDLE" /\ limit_k = TopkMax /\ ~Sorting
    /\ UNCHANGED selectionVars

MCNext ==
    \/ SelectionNext /\ (IsLarge \/ Small) /\ (IsLarge => Large)
    \/ Rest

MCSpec == SelectionInit /\ [][MCNext]_selectionVars
=============================================================================
