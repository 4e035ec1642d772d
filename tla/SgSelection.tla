----------------------------- MODULE SgSelection -----------------------------
(***************************************************************************)
(* The scoring core and the sorter of the engine behind it: the results leave  *)
(* the heap in its order, the engine's state S_RESULTS stores them, and after   *)
(* the last one S_SORT_SIFT and S_SORT_TAKE put them in ascending order         *)
(* (rtl/sparse_gate_axi/sparse_gate_axi.sv).  SparseGateAxi has the engine     *)
(* whole, with a core that keeps any keys; here the core is the detailed one    *)
(* and the selections are longer.                                           *)
(***************************************************************************)
EXTENDS SgIndexCore, SgSort

VARIABLES
    cache_idx,    \* cache_idx
    result_count, \* result_count
    sort          \* the sorter's registers

selVars == <<cache_idx, result_count, sort>>
selectionVars == <<vars, selVars>>

NoSort == [SortStart(0) EXCEPT !.at = "DONE"]

SelectionInit ==
    /\ Init
    /\ cache_idx = [i \in Places |-> 0]
    /\ result_count = 0
    /\ sort = NoSort

\* S_RESULTS with core_result_valid.
StoreResult ==
    /\ TakeResult
    /\ cache_idx' = [cache_idx EXCEPT ![result_count] = heap[out_pos].index]
    /\ result_count' = result_count + 1
    /\ sort' = IF state' = "DONE" /\ result_count # 0
               THEN SortStart(result_count) ELSE sort

Sorting == sort.at # "DONE"

SortStep ==
    /\ Sorting
    /\ \E step \in {IF sort.at = "SIFT" THEN SortSift(cache_idx, sort)
                    ELSE SortTake(cache_idx, sort)} :
          /\ cache_idx' = step.idx
          /\ sort' = step.sort
    /\ UNCHANGED <<vars, result_count>>

\* S_START: the engine begins a job when the last one is over.
BeginJob ==
    /\ ~Sorting
    /\ StartJob
    /\ result_count' = 0
    /\ UNCHANGED <<cache_idx, sort>>

\* rst_n resets the engine too; the cache keeps its contents.
ResetBoth ==
    /\ Reset
    /\ result_count' = 0
    /\ sort' = NoSort
    /\ UNCHANGED cache_idx

SelectionNext ==
    \/ BeginJob
    \/ (LoadQ \/ LoadK \/ AcceptKey \/ Internal \/ TakeScore \/ Finish \/ TakeDone)
          /\ UNCHANGED selVars
    \/ StoreResult
    \/ SortStep
    \/ ResetBoth

SelectionSpec == SelectionInit /\ [][SelectionNext]_selectionVars

-----------------------------------------------------------------------------
\* When the engine writes its results out they are the best limit_k of the keys
\* scored, each once and in ascending order (interface.md), whatever order the
\* heap gave them in.
SortedSelection ==
    /\ ~Sorting
    /\ result_count > 0
    /\ state \in {"DONE", "IDLE"}
    => /\ {cache_idx[i] : i \in 0 .. result_count - 1}
              = {e.index : e \in TopK(scored, limit_k)}
       /\ \A i \in 1 .. result_count - 1 : cache_idx[i - 1] < cache_idx[i]
=============================================================================
