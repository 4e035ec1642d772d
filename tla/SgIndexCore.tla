---------------------------- MODULE SgIndexCore ----------------------------
(***************************************************************************)
(* The scoring core with its min-heap (rtl/sparse_gate/sg_index_core.sv).    *)
(*                                                                         *)
(* An action is a rising clock edge at which something happens, with the      *)
(* inputs that make it happen.  The arithmetic (CHECK_Q, DOT, GCONVERT, GADD, *)
(* HMUL, HADD) is one action that comes out with a score or an error; a score *)
(* is its place in the order of sg_order.  A Q or K record is loaded or not;  *)
(* the bytes are not counted.                                                 *)
(***************************************************************************)
EXTENDS Naturals, FiniteSets

CONSTANTS
    TopkMax,    \* TOPK_MAX: 512
    MaxHeads,   \* MAX_HEADS: 32
    Keys,       \* the key numbers a caller may use
    MaxScore    \* BOUND: scores are 0 .. MaxScore

ASSUME CoreAssumption ==
    /\ TopkMax \in Nat \ {0}
    /\ MaxHeads \in Nat \ {0}
    /\ Keys \subseteq Nat
    /\ MaxScore \in Nat

VARIABLES
    state,        \* state
    heads,        \* heads
    limit_k,      \* limit_k
    q_loaded,     \* the heads whose Q record is complete
    k_loaded,     \* the K record is complete
    keys_scored,  \* keys_scored
    active_index, \* active_index
    candidate,    \* candidate_score
    heap,         \* heap_score and heap_index
    heap_count,   \* heap_count
    heap_pos,     \* heap_pos
    out_pos,      \* out_pos
    error_code,   \* error_code
    scored        \* GHOST: every key scored in this job, with its score

loads == <<heads, limit_k, q_loaded, k_loaded>>
active == <<keys_scored, active_index, candidate>>
tree == <<heap, heap_count, heap_pos>>
vars == <<state, loads, active, tree, out_pos, error_code, scored>>

Entry == [score : 0 .. MaxScore, index : Keys \cup {0}]
NoEntry == [score |-> 0, index |-> 0]
Places == 0 .. TopkMax - 1

Init ==
    /\ state = "IDLE"
    /\ heads = 0
    /\ limit_k = 0
    /\ q_loaded = {}
    /\ k_loaded = FALSE
    /\ keys_scored = 0
    /\ active_index = 0
    /\ candidate = 0
    /\ heap = [i \in Places |-> NoEntry]
    /\ heap_count = 0
    /\ heap_pos = 0
    /\ out_pos = 0
    /\ error_code = 0
    /\ scored = {}

-----------------------------------------------------------------------------
\* sg_worse: a lower score, or the same score and a larger number.
Worse(a, b) ==
    \/ a.score < b.score
    \/ a.score = b.score /\ a.index > b.index

Candidate == [score |-> candidate, index |-> active_index]

Parent(pos) == (pos - 1) \div 2

\* chosen: the worse child of heap_pos.
Chosen ==
    LET left == 2 * heap_pos + 1
        right == left + 1
    IN  IF right < heap_count /\ Worse(heap[right], heap[left]) THEN right ELSE left

-----------------------------------------------------------------------------
\* A slip: the heap of the job before is kept.
StartWithOldHeap ==
    /\ state = "IDLE"
    /\ \E h \in 0 .. MaxHeads + 1, k \in 0 .. TopkMax + 1 :
          LET bad == h \notin 1 .. MaxHeads \/ k \notin 1 .. TopkMax
          IN  /\ heads' = h
              /\ limit_k' = k
              /\ error_code' = IF bad THEN 1 ELSE 0
              /\ state' = IF bad THEN "DONE" ELSE "READY"
    /\ q_loaded' = {}
    /\ k_loaded' = FALSE
    /\ keys_scored' = 0
    /\ scored' = {}
    /\ UNCHANGED <<active_index, candidate, tree, out_pos>>

\* A job is accepted; the heap and what was loaded before are forgotten.  The
\* numbers are those the ports can carry.
StartJob ==
    /\ state = "IDLE"
    /\ \E h \in 0 .. MaxHeads + 1, k \in 0 .. TopkMax + 1 :
          LET bad == h \notin 1 .. MaxHeads \/ k \notin 1 .. TopkMax
          IN  /\ heads' = h
              /\ limit_k' = k
              /\ error_code' = IF bad THEN 1 ELSE 0
              /\ state' = IF bad THEN "DONE" ELSE "READY"
    /\ heap_count' = 0
    /\ q_loaded' = {}
    /\ k_loaded' = FALSE
    /\ keys_scored' = 0
    /\ scored' = {}
    /\ UNCHANGED <<active_index, candidate, heap, heap_pos, out_pos>>

\* The rest of a Q record arrives: only before the first key is scored.
LoadQ ==
    /\ state = "READY"
    /\ keys_scored = 0
    /\ \E h \in 0 .. MaxHeads - 1 : q_loaded' = q_loaded \cup {h}
    /\ UNCHANGED <<state, heads, limit_k, k_loaded, active, tree, out_pos,
                   error_code, scored>>

LoadK ==
    /\ state = "READY"
    /\ k_loaded' = TRUE
    /\ UNCHANGED <<state, heads, limit_k, q_loaded, active, tree, out_pos,
                   error_code, scored>>

\* A key is to be scored; its K record must be complete and its scales legal.
AcceptKey ==
    /\ state = "READY"
    /\ \E index \in Keys :
          /\ \A e \in scored : e.index # index
          /\ active_index' = index
    /\ candidate' = 0
    /\ k_loaded' = FALSE
    /\ \/ /\ ~k_loaded
          /\ error_code' = 3
          /\ state' = "SCORE"
       \/ /\ k_loaded
          /\ error_code' = 4
          /\ state' = "SCORE"
       \/ /\ k_loaded
          /\ state' = "SCORING"
          /\ UNCHANGED error_code
    /\ UNCHANGED <<heads, limit_k, q_loaded, keys_scored, tree, out_pos, scored>>

\* CHECK_Q to HADD: a score, if every Q record is complete, or an error.
Score ==
    /\ state = "SCORING"
    /\ \/ /\ 0 .. heads - 1 \subseteq q_loaded
          /\ candidate' \in 0 .. MaxScore
          /\ keys_scored' = keys_scored + 1
          /\ state' = "HEAP_BEGIN"
          /\ UNCHANGED error_code
       \/ /\ ~(0 .. heads - 1 \subseteq q_loaded)
          /\ error_code' = 2
          /\ state' = "SCORE"
          /\ UNCHANGED <<candidate, keys_scored>>
       \/ /\ error_code' \in 4 .. 6
          /\ state' = "SCORE"
          /\ UNCHANGED <<candidate, keys_scored>>
    /\ UNCHANGED <<loads, active_index, tree, out_pos, scored>>

\* The update of the heap is complete.
Scored ==
    /\ state' = "SCORE"
    /\ scored' = scored \cup {Candidate}

HeapBegin ==
    /\ state = "HEAP_BEGIN"
    /\ \/ /\ heap_count < limit_k
          /\ heap_pos' = heap_count
          /\ heap_count' = heap_count + 1
          /\ state' = "HEAP_UP"
          /\ UNCHANGED scored
       \/ /\ heap_count >= limit_k
          /\ Worse(heap[0], Candidate)
          /\ heap_pos' = 0
          /\ state' = "HEAP_DOWN"
          /\ UNCHANGED <<heap_count, scored>>
       \/ /\ heap_count >= limit_k
          /\ ~Worse(heap[0], Candidate)
          /\ Scored
          /\ UNCHANGED <<heap_pos, heap_count>>
    /\ UNCHANGED <<loads, active, heap, out_pos, error_code>>

\* The candidate is worse than the parent of heap_pos.
CandidateRises ==
    /\ heap_pos # 0
    /\ Worse(Candidate, heap[Parent(heap_pos)])

HeapUp ==
    /\ state = "HEAP_UP"
    /\ \/ /\ CandidateRises
          /\ heap' = [heap EXCEPT ![heap_pos] = heap[Parent(heap_pos)]]
          /\ heap_pos' = Parent(heap_pos)
          /\ UNCHANGED <<state, scored>>
       \/ /\ ~CandidateRises
          /\ heap' = [heap EXCEPT ![heap_pos] = Candidate]
          /\ Scored
          /\ UNCHANGED heap_pos
    /\ UNCHANGED <<loads, active, heap_count, out_pos, error_code>>

\* A child of heap_pos is worse than the candidate.
CandidateSinks ==
    /\ 2 * heap_pos + 1 < heap_count
    /\ Worse(heap[Chosen], Candidate)

HeapDown ==
    /\ state = "HEAP_DOWN"
    /\ \/ /\ CandidateSinks
          /\ heap' = [heap EXCEPT ![heap_pos] = heap[Chosen]]
          /\ heap_pos' = Chosen
          /\ UNCHANGED <<state, scored>>
       \/ /\ ~CandidateSinks
          /\ heap' = [heap EXCEPT ![heap_pos] = Candidate]
          /\ Scored
          /\ UNCHANGED heap_pos
    /\ UNCHANGED <<loads, active, heap_count, out_pos, error_code>>

\* A slip: the job goes on after an error.
TakeScoreGoesOn ==
    /\ state = "SCORE"
    /\ state' = "READY"
    /\ UNCHANGED <<loads, active, tree, out_pos, error_code, scored>>

\* The caller takes the answer; an error ends the job.
TakeScore ==
    /\ state = "SCORE"
    /\ state' = IF error_code # 0 THEN "DONE" ELSE "READY"
    /\ UNCHANGED <<loads, active, tree, out_pos, error_code, scored>>

Finish ==
    /\ state = "READY"
    /\ out_pos' = 0
    /\ state' = IF heap_count = 0 THEN "DONE" ELSE "OUTPUTS"
    /\ UNCHANGED <<loads, active, tree, error_code, scored>>

TakeResult ==
    /\ state = "OUTPUTS"
    /\ IF out_pos + 1 = heap_count
       THEN state' = "DONE" /\ UNCHANGED out_pos
       ELSE out_pos' = out_pos + 1 /\ UNCHANGED state
    /\ UNCHANGED <<loads, active, tree, error_code, scored>>

TakeDone ==
    /\ state = "DONE"
    /\ state' = "IDLE"
    /\ UNCHANGED <<loads, active, tree, out_pos, error_code, scored>>

\* rst_n goes low, at any time; the heap array is not cleared.
Reset ==
    /\ state' = "IDLE"
    /\ heads' = 0
    /\ limit_k' = 0
    /\ q_loaded' = {}
    /\ k_loaded' = FALSE
    /\ keys_scored' = 0
    /\ active_index' = 0
    /\ candidate' = 0
    /\ heap_count' = 0
    /\ heap_pos' = 0
    /\ out_pos' = 0
    /\ error_code' = 0
    /\ scored' = {}
    /\ UNCHANGED heap

Internal == Score \/ HeapBegin \/ HeapUp \/ HeapDown

Next ==
    \/ StartJob
    \/ LoadQ
    \/ LoadK
    \/ AcceptKey
    \/ Internal
    \/ TakeScore
    \/ Finish
    \/ TakeResult
    \/ TakeDone
    \/ Reset

Spec == Init /\ [][Next]_vars

-----------------------------------------------------------------------------
(* Properties                                                                *)

\* The best k entries: higher scores first, among equal scores smaller numbers.
Beats(f, e) == f.score > e.score \/ (f.score = e.score /\ f.index < e.index)

TopK(entries, k) ==
    {e \in entries : Cardinality({f \in entries : Beats(f, e)}) < k}

Stored == {heap[i] : i \in 0 .. heap_count - 1}

HeapAtRest == state \in {"READY", "SCORING", "HEAP_BEGIN", "SCORE", "OUTPUTS"}

\* The heap holds exactly the best limit_k of all keys scored so far, ties going to
\* the smaller number, and none of them twice - with failures, rejected keys and
\* earlier jobs in between.
HeapIsTopK ==
    HeapAtRest =>
        /\ Stored = TopK(scored, limit_k)
        /\ Cardinality(Stored) = heap_count

\* One handshake at an edge is enough: the core looks at one in every state.
NoInput == [reset |-> FALSE, job |-> FALSE, job_ok |-> FALSE, limit |-> 0,
            key_valid |-> FALSE, key |-> 0, finish |-> FALSE, score_ready |-> FALSE,
            result_ready |-> FALSE, done_ready |-> FALSE]

Inputs ==
    {NoInput,
     [NoInput EXCEPT !.reset = TRUE],
     [NoInput EXCEPT !.job = TRUE],
     [NoInput EXCEPT !.finish = TRUE],
     [NoInput EXCEPT !.score_ready = TRUE],
     [NoInput EXCEPT !.result_ready = TRUE],
     [NoInput EXCEPT !.done_ready = TRUE]}
    \cup {[NoInput EXCEPT !.job = TRUE, !.job_ok = TRUE, !.limit = k] : k \in 1 .. TopkMax}
    \cup {[NoInput EXCEPT !.key_valid = TRUE, !.key = key] : key \in Keys}

\* What the core shows at its ports: SgCore with the best keys as the kept ones.
InJob == state \notin {"IDLE", "DONE"}
InScoring == state \in {"SCORING", "HEAP_BEGIN", "HEAP_UP", "HEAP_DOWN"}

Shown ==
    [state |-> IF InScoring THEN "BUSY" ELSE state,
     limit |-> IF InJob THEN limit_k ELSE 0,
     key |-> IF InScoring THEN active_index ELSE 0,
     kept |-> IF state = "OUTPUTS"
              THEN {heap[i].index : i \in out_pos .. heap_count - 1}
              ELSE IF InJob THEN {e.index : e \in TopK(scored, limit_k)}
              ELSE {},
     failed |-> state \in {"SCORE", "DONE"} /\ error_code # 0,
     head |-> IF state = "OUTPUTS" THEN heap[out_pos].index ELSE 0]

Core == INSTANCE SgCore WITH core <- Shown

\* The core with its heap behaves as the engine takes it to.
ImplementsCore == Core!CoreInit /\ [][\E p \in Inputs : Core!CoreStep(p)]_Shown
=============================================================================
