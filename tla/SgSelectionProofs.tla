------------------------- MODULE SgSelectionProofs -------------------------
(***************************************************************************)
(* Proofs about the scoring core and the sorter behind it, for every heap      *)
(* size, number of keys and order of scores.                                 *)
(*                                                                         *)
(* HeapInv is the invariant of the heap through its updates: while an entry is  *)
(* on its way, the heap is looked at as if the candidate stood at heap_pos      *)
(* already.  From it follow that the heap holds the best keys, that the core    *)
(* behaves at its ports as SgCore says, which is what SparseGateProofs relies   *)
(* on, and that the sorted selection is that of the best keys.               *)
(***************************************************************************)
EXTENDS SgSelection, FiniteSetTheorems, TLAPS

-----------------------------------------------------------------------------
(* The order of the entries                                                  *)

\* sg_worse is a strict order of all entries: of two different ones, one is worse.
LEMMA WorseIsOrder ==
    /\ \A a, b \in Entry : Worse(a, b) => ~Worse(b, a)
    /\ \A a, b, c \in Entry : Worse(a, b) /\ Worse(b, c) => Worse(a, c)
    /\ \A a, b \in Entry : a # b => Worse(a, b) \/ Worse(b, a)
    /\ \A a, b \in Entry : Beats(a, b) <=> Worse(b, a)
  <1>1. \A a \in Entry : a.score \in Nat /\ a.index \in Nat
    <2>1. 0 .. MaxScore \subseteq Nat /\ Keys \cup {0} \subseteq Nat
      BY CoreAssumption
    <2>2. \A a \in Entry : a.score \in 0 .. MaxScore /\ a.index \in Keys \cup {0}
      BY DEF Entry
    <2> QED
      BY <2>1, <2>2
  <1>2. ASSUME NEW a \in Entry, NEW b \in Entry, a.score = b.score, a.index = b.index
        PROVE  a = b
    BY <1>2 DEF Entry
  <1>3. \A a, b \in Entry : Worse(a, b) => ~Worse(b, a)
    BY <1>1 DEF Worse
  <1>4. \A a, b, c \in Entry : Worse(a, b) /\ Worse(b, c) => Worse(a, c)
    BY <1>1 DEF Worse
  <1>5. ASSUME NEW a \in Entry, NEW b \in Entry, a # b
        PROVE  Worse(a, b) \/ Worse(b, a)
    BY <1>1, <1>2, <1>5 DEF Worse
  <1>6. \A a, b \in Entry : Beats(a, b) <=> Worse(b, a)
    BY <1>1 DEF Worse, Beats
  <1> QED
    BY <1>3, <1>4, <1>5, <1>6

\* Not to be worse is transitive, and so is the mixture of both.
LEMMA NotWorse ==
    /\ \A a \in Entry : ~Worse(a, a)
    /\ \A a, b, c \in Entry : ~Worse(a, b) /\ ~Worse(b, c) => ~Worse(a, c)
    /\ \A a, b, c \in Entry : Worse(a, b) /\ ~Worse(c, b) => ~Worse(c, a)
    /\ \A a, b, c \in Entry : ~Worse(b, a) /\ Worse(b, c) => Worse(a, c)
  <1>1. \A a \in Entry : ~Worse(a, a)
    BY WorseIsOrder
  <1>2. ASSUME NEW a \in Entry, NEW b \in Entry, NEW c \in Entry,
               ~Worse(a, b), ~Worse(b, c), Worse(a, c)
        PROVE  FALSE
    <2>1. b # c /\ a # b
      BY <1>2
    <2>2. Worse(c, b) /\ Worse(b, a)
      BY <1>2, <2>1, WorseIsOrder
    <2> QED
      BY <1>2, <2>2, WorseIsOrder
  <1>3. \A a, b, c \in Entry : Worse(a, b) /\ ~Worse(c, b) => ~Worse(c, a)
    BY WorseIsOrder
  <1>4. ASSUME NEW a \in Entry, NEW b \in Entry, NEW c \in Entry,
               ~Worse(b, a), Worse(b, c), ~Worse(a, c)
        PROVE  FALSE
    BY <1>2, <1>4
  <1> QED
    BY <1>1, <1>2, <1>3, <1>4

-----------------------------------------------------------------------------
(* The heap                                                                  *)

\* The first n places are a heap: no entry is worse than its parent.
HeapOrder(h, n) == \A i \in 1 .. n - 1 : ~Worse(h[i], h[Parent(i)])

\* A heap but for the entry at pos, which may be worse than its parent: it is on
\* its way up.  Its children are not worse than the parent either.
OrderUp(h, n, pos) ==
    \A i \in 1 .. n - 1 :
        /\ i # pos => ~Worse(h[i], h[Parent(i)])
        /\ Parent(i) = pos /\ pos # 0 => ~Worse(h[i], h[Parent(pos)])

\* A heap but for the children of pos, which may be worse than the entry there: it
\* is on its way down.
OrderDown(h, n, pos) ==
    \A i \in 1 .. n - 1 :
        /\ Parent(i) # pos => ~Worse(h[i], h[Parent(i)])
        /\ Parent(i) = pos /\ pos # 0 => ~Worse(h[i], h[Parent(pos)])

\* Where parents and children are.
LEMMA ParentFacts ==
    /\ \A i \in Nat \ {0} : Parent(i) \in Nat /\ Parent(i) < i
    /\ \A i \in Nat \ {0}, p \in Nat : Parent(i) = p <=> (i = 2 * p + 1 \/ i = 2 * p + 2)
  BY DEF Parent

\* The first entry of a heap is none better than another.
LEMMA RootIsWorst ==
    ASSUME NEW n \in Nat, NEW h, \A i \in 0 .. n - 1 : h[i] \in Entry, HeapOrder(h, n)
    PROVE  \A i \in 0 .. n - 1 : ~Worse(h[i], h[0])
  <1> DEFINE T == {i \in 0 .. n - 1 : Worse(h[i], h[0])}
  <1>1. SUFFICES ASSUME T # {} PROVE FALSE
    OBVIOUS
  <1>2. PICK i \in T : \A j \in T : i <= j
    <2>1. T \in SUBSET Nat
      OBVIOUS
    <2> QED
      BY <1>1, <2>1, LeastNumber, Zenon
  <1>3. i \in 1 .. n - 1 /\ Worse(h[i], h[0]) /\ 0 \in 0 .. n - 1
    BY <1>2, NotWorse
  <1>4. Parent(i) \in 0 .. n - 1 /\ Parent(i) < i
    BY <1>3, ParentFacts
  <1>5. ~Worse(h[Parent(i)], h[0])
    BY <1>2, <1>3, <1>4
  <1>6. ~Worse(h[i], h[Parent(i)])
    BY <1>3 DEF HeapOrder
  <1> QED
    BY <1>3, <1>4, <1>5, <1>6, NotWorse

\* The entries on their way, and what becomes of them.
LEMMA SwapMoves ==
    ASSUME NEW h \in [Places -> Entry], NEW n \in 0 .. TopkMax,
           NEW i \in 0 .. n - 1, NEW j \in 0 .. n - 1
    PROVE  LET new == SwapEntries(h, i, j)
           IN  /\ new \in [Places -> Entry]
               /\ new[i] = h[j] /\ new[j] = h[i]
               /\ \A k \in 0 .. n - 1 : k # i /\ k # j => new[k] = h[k]
               /\ Entries(new, n) = Entries(h, n)
               /\ Distinct(h, n) => Distinct(new, n)
  <1>1. TopkMax \in Nat /\ n \in Nat /\ 0 .. n - 1 \subseteq Places
    BY CoreAssumption DEF Places
  <1>2. Exchanged(h, SwapEntries(h, i, j), Places, Entry, n, i, j)
    BY <1>1, SwapKeeps
  <1> QED
    BY <1>1, <1>2 DEF Exchanged

\* HEAP_UP: an entry worse than its parent changes places with it.
LEMMA UpMoves ==
    ASSUME NEW h \in [Places -> Entry], NEW n \in 0 .. TopkMax, NEW pos \in 1 .. n - 1,
           OrderUp(h, n, pos), Worse(h[pos], h[Parent(pos)])
    PROVE  OrderUp(SwapEntries(h, pos, Parent(pos)), n, Parent(pos))
  <1> DEFINE p == Parent(pos)
             new == SwapEntries(h, pos, p)
  <1>1. n \in Nat /\ TopkMax \in Nat /\ 0 .. n - 1 \subseteq Places
    BY CoreAssumption DEF Places
  <1>2. pos \in Nat \ {0} /\ p \in 0 .. n - 1 /\ p # pos /\ p < pos
    BY <1>1, ParentFacts
  <1>3. /\ new[pos] = h[p] /\ new[p] = h[pos]
        /\ \A k \in 0 .. n - 1 : k # pos /\ k # p => new[k] = h[k]
    BY <1>2, SwapMoves
  <1>4. \A k \in 0 .. n - 1 : h[k] \in Entry
    BY <1>1
  <1>5. Worse(h[pos], h[p])
    OBVIOUS
  <1> HIDE DEF new, p
  <1> SUFFICES ASSUME NEW i \in 1 .. n - 1
               PROVE  /\ i # p => ~Worse(new[i], new[Parent(i)])
                      /\ Parent(i) = p /\ p # 0 => ~Worse(new[i], new[Parent(p)])
    BY DEF OrderUp, new, p
  <1>6. i \in 0 .. n - 1 /\ i # 0 /\ Parent(i) \in 0 .. n - 1 /\ Parent(i) # i
    BY <1>1, ParentFacts
  <1>7. /\ i # pos => ~Worse(h[i], h[Parent(i)])
        /\ Parent(i) = pos => ~Worse(h[i], h[p])
    BY <1>2 DEF OrderUp, p
  <1>8. ASSUME p # 0
        PROVE  Parent(p) \in 0 .. n - 1 /\ Parent(p) # p /\ Parent(p) # pos
               /\ ~Worse(h[p], h[Parent(p)])
    <2>1. p \in Nat \ {0} /\ p \in 1 .. n - 1
      BY <1>1, <1>2, <1>8
    <2>2. Parent(p) \in Nat /\ Parent(p) < p
      BY <2>1, ParentFacts
    <2> QED
      BY <1>1, <1>2, <2>1, <2>2 DEF OrderUp
  <1>9. ASSUME i # p PROVE ~Worse(new[i], new[Parent(i)])
    <2>1. CASE i = pos
      BY <1>3, <1>4, <1>2, <1>5, <2>1, WorseIsOrder DEF p
    <2>2. CASE i # pos /\ Parent(i) = pos
      BY <1>3, <1>6, <1>7, <1>9, <2>2
    <2>3. CASE i # pos /\ Parent(i) = p
      <3>1. ~Worse(h[i], h[p])
        BY <1>7, <2>3
      <3>2. ~Worse(h[i], h[pos])
        BY <1>2, <1>4, <1>5, <1>6, <3>1, NotWorse
      <3> QED
        BY <1>3, <1>6, <1>9, <2>3, <3>2
    <2>4. CASE i # pos /\ Parent(i) # pos /\ Parent(i) # p
      BY <1>3, <1>6, <1>7, <1>9, <2>4
    <2> QED
      BY <2>1, <2>2, <2>3, <2>4
  <1>10. ASSUME Parent(i) = p, p # 0 PROVE ~Worse(new[i], new[Parent(p)])
    <2>1. new[Parent(p)] = h[Parent(p)]
      BY <1>3, <1>8, <1>10
    <2>2. CASE i = pos
      BY <1>3, <1>8, <1>10, <2>1, <2>2
    <2>3. CASE i # pos
      <3>1. ~Worse(h[i], h[p]) /\ i # p
        BY <1>6, <1>7, <1>10, <2>3
      <3>2. ~Worse(h[i], h[Parent(p)])
        BY <1>2, <1>4, <1>6, <1>8, <1>10, <3>1, NotWorse
      <3> QED
        BY <1>3, <1>6, <2>1, <2>3, <3>1, <3>2
    <2> QED
      BY <2>2, <2>3
  <1> QED
    BY <1>9, <1>10

\* HEAP_UP: one that is not worse than its parent, or is the first, is in place.
LEMMA UpEnds ==
    ASSUME NEW n \in Nat, NEW h, NEW pos \in Nat, OrderUp(h, n, pos),
           pos = 0 \/ ~Worse(h[pos], h[Parent(pos)])
    PROVE  HeapOrder(h, n)
  BY DEF OrderUp, HeapOrder

\* HEAP_DOWN: the worse of the children, where one is worse than the entry, changes
\* places with it.
LEMMA DownMoves ==
    ASSUME NEW h \in [Places -> Entry], NEW n \in 0 .. TopkMax, NEW pos \in 0 .. n - 1,
           NEW ch \in 1 .. n - 1, Parent(ch) = pos,
           \A c \in 1 .. n - 1 : Parent(c) = pos => ~Worse(h[c], h[ch]),
           OrderDown(h, n, pos), Worse(h[ch], h[pos])
    PROVE  OrderDown(SwapEntries(h, pos, ch), n, ch)
  <1> DEFINE new == SwapEntries(h, pos, ch)
  <1>1. n \in Nat /\ TopkMax \in Nat /\ 0 .. n - 1 \subseteq Places
    BY CoreAssumption DEF Places
  <1>2. ch \in 0 .. n - 1 /\ ch # 0 /\ pos < ch
    BY <1>1, ParentFacts
  <1>3. /\ new[pos] = h[ch] /\ new[ch] = h[pos]
        /\ \A k \in 0 .. n - 1 : k # pos /\ k # ch => new[k] = h[k]
    BY <1>2, SwapMoves
  <1>4. \A k \in 0 .. n - 1 : h[k] \in Entry
    BY <1>1
  <1> HIDE DEF new
  <1> SUFFICES ASSUME NEW i \in 1 .. n - 1
               PROVE  /\ Parent(i) # ch => ~Worse(new[i], new[Parent(i)])
                      /\ Parent(i) = ch => ~Worse(new[i], new[Parent(ch)])
    BY DEF OrderDown, new
  <1>6. i \in 0 .. n - 1 /\ i # 0 /\ Parent(i) \in 0 .. n - 1 /\ Parent(i) < i
    BY <1>1, ParentFacts
  <1>7. /\ Parent(i) # pos => ~Worse(h[i], h[Parent(i)])
        /\ Parent(i) = pos /\ pos # 0 => ~Worse(h[i], h[Parent(pos)])
    BY DEF OrderDown
  <1>8. ASSUME Parent(i) # ch PROVE ~Worse(new[i], new[Parent(i)])
    <2>1. CASE i = ch
      BY <1>2, <1>3, <1>4, <2>1, WorseIsOrder
    <2>2. CASE i # ch /\ Parent(i) = pos
      BY <1>3, <1>6, <2>2
    <2>3. CASE i = pos
      <3>1. pos # 0 /\ Parent(pos) \in 0 .. n - 1 /\ Parent(pos) < pos
        BY <1>6, <2>3
      <3>2. ~Worse(h[ch], h[Parent(pos)])
        BY <3>1 DEF OrderDown
      <3>3. Parent(pos) # ch
        BY <1>2, <3>1
      <3> QED
        BY <1>3, <2>3, <3>1, <3>2, <3>3
    <2>4. CASE i # ch /\ i # pos /\ Parent(i) # pos
      BY <1>3, <1>6, <1>7, <1>8, <2>4
    <2> QED
      BY <2>1, <2>2, <2>3, <2>4
  <1>9. ASSUME Parent(i) = ch PROVE ~Worse(new[i], new[Parent(ch)])
    <2>1. i # ch /\ i # pos /\ ch # pos
      BY <1>2, <1>6, <1>9
    <2> QED
      BY <1>3, <1>6, <1>7, <1>9, <2>1
  <1> QED
    BY <1>8, <1>9

\* HEAP_DOWN: an entry with no worse child is in place.
LEMMA DownEnds ==
    ASSUME NEW n \in Nat, NEW h, NEW pos \in Nat, OrderDown(h, n, pos),
           \A c \in 1 .. n - 1 : Parent(c) = pos => ~Worse(h[c], h[pos])
    PROVE  HeapOrder(h, n)
  BY DEF OrderDown, HeapOrder

-----------------------------------------------------------------------------
(* The best keys                                                             *)

\* T holds n entries of S, no more than k, and none of the others is as good as one
\* of these; there are others only if T is full.
BestOf(T, n, S, k) ==
    /\ T \subseteq S
    /\ n <= k
    /\ n < k => T = S
    /\ \A t \in T, e \in S \ T : Worse(e, t)

\* Entries of which none occurs twice are as many as their places.
LEMMA EntriesCount ==
    ASSUME NEW n \in Nat, NEW h, Distinct(h, n)
    PROVE  IsFiniteSet(Entries(h, n)) /\ Cardinality(Entries(h, n)) = n
  <1> DEFINE f == [i \in 0 .. n - 1 |-> h[i]]
  <1>1. f \in Bijection(0 .. n - 1, Entries(h, n))
    <2>1. f \in [0 .. n - 1 -> Entries(h, n)]
      BY DEF Entries
    <2>2. IsInjective(f)
      BY DEF Distinct, IsInjective
    <2>3. \A t \in Entries(h, n) : \E i \in 0 .. n - 1 : f[i] = t
      BY DEF Entries
    <2> HIDE DEF f
    <2> QED
      BY <2>1, <2>2, <2>3, Zenon DEF Bijection, Injection, Surjection
  <1>2. ExistsBijection(0 .. n - 1, Entries(h, n))
    BY <1>1 DEF ExistsBijection
  <1>3. IsFiniteSet(0 .. n - 1) /\ Cardinality(0 .. n - 1) = n
    BY FS_Interval
  <1> QED
    BY <1>2, <1>3, FS_Bijection

\* The set so described is the one that counting the better entries gives.
LEMMA BestIsTopK ==
    ASSUME NEW S \in SUBSET Entry, IsFiniteSet(S), NEW n \in Nat, NEW k \in Nat,
           NEW T, BestOf(T, n, S, k), Cardinality(T) = n
    PROVE  T = TopK(S, k)
  <1> DEFINE Better(e) == {f \in S : Beats(f, e)}
  <1>1. IsFiniteSet(T) /\ T \subseteq S
    BY FS_Subset DEF BestOf
  <1>2. \A e \in S : Better(e) \in SUBSET S /\ IsFiniteSet(Better(e)) /\ Cardinality(Better(e)) \in Nat
    BY FS_Subset, FS_CardinalityType
  <1>3. ASSUME NEW e \in T PROVE e \in TopK(S, k)
    <2>1. Better(e) \subseteq T \ {e}
      <3> SUFFICES ASSUME NEW f \in S, Beats(f, e) PROVE f \in T /\ f # e
        OBVIOUS
      <3>1. f \in Entry /\ e \in Entry /\ Worse(e, f)
        BY <1>1, WorseIsOrder
      <3>2. ~Worse(f, e)
        BY <3>1, WorseIsOrder
      <3> QED
        BY <3>1, <3>2 DEF BestOf
    <2>2. IsFiniteSet(T \ {e}) /\ Cardinality(T \ {e}) = n - 1
      BY <1>1, FS_RemoveElement
    <2>3. Cardinality(Better(e)) <= n - 1
      BY <2>1, <2>2, FS_Subset
    <2>4. n <= k /\ e \in S
      BY <1>1 DEF BestOf
    <2> HIDE DEF Better
    <2>5. Cardinality(Better(e)) < k
      BY <1>2, <2>3, <2>4
    <2> USE DEF Better
    <2> QED
      BY <2>4, <2>5 DEF TopK
  <1>4. ASSUME NEW e \in S, e \notin T PROVE e \notin TopK(S, k)
    <2>1. T \subseteq Better(e)
      <3> SUFFICES ASSUME NEW t \in T PROVE t \in S /\ Beats(t, e)
        OBVIOUS
      <3>1. t \in Entry /\ e \in Entry /\ Worse(e, t)
        BY <1>1, <1>4 DEF BestOf
      <3> QED
        BY <1>1, <3>1, WorseIsOrder
    <2>2. n <= Cardinality(Better(e))
      BY <1>2, <2>1, FS_Subset
    <2>3. n = k
      BY <1>4 DEF BestOf
    <2> QED
      BY <1>2, <2>2, <2>3 DEF TopK
  <1>5. TopK(S, k) \subseteq S
    BY DEF TopK
  <1> QED
    BY <1>1, <1>3, <1>4, <1>5

\* When the heap is full the new entry takes the place of the worst,
LEMMA BestReplaces ==
    ASSUME NEW S \in SUBSET Entry, NEW T, NEW k \in Nat, BestOf(T, k, S, k),
           NEW c \in Entry, c \notin S, NEW r \in T, \A t \in T : ~Worse(t, r), Worse(r, c)
    PROVE  BestOf((T \ {r}) \cup {c}, k, S \cup {c}, k)
  <1>1. T \subseteq S /\ r \in Entry
    BY DEF BestOf
  <1>2. ASSUME NEW t \in (T \ {r}) \cup {c}, NEW e \in (S \cup {c}) \ ((T \ {r}) \cup {c})
        PROVE  Worse(e, t)
    <2>1. e \in S /\ e \in Entry /\ t \in Entry /\ (e = r \/ e \notin T)
      BY <1>1
    <2>2. Worse(r, t)
      <3>1. CASE t = c
        BY <3>1
      <3>2. CASE t \in T /\ t # r
        BY <1>1, <2>1, <3>2, WorseIsOrder
      <3> QED
        BY <3>1, <3>2
    <2>3. CASE e = r
      BY <2>2, <2>3
    <2>4. CASE e # r
      <3>1. Worse(e, r)
        BY <2>1, <2>4 DEF BestOf
      <3> QED
        BY <1>1, <2>1, <2>2, <3>1, WorseIsOrder
    <2> QED
      BY <2>3, <2>4
  <1> QED
    BY <1>1, <1>2 DEF BestOf

\* or is not better than the worst and stays outside.
LEMMA BestRejects ==
    ASSUME NEW S \in SUBSET Entry, NEW T, NEW k \in Nat, BestOf(T, k, S, k),
           NEW c \in Entry, c \notin S, NEW r \in T, \A t \in T : ~Worse(t, r), ~Worse(r, c)
    PROVE  BestOf(T, k, S \cup {c}, k)
  <1>1. T \subseteq S /\ r \in Entry /\ r # c
    BY DEF BestOf
  <1>2. \A t \in T : Worse(c, t)
    <2> SUFFICES ASSUME NEW t \in T PROVE Worse(c, t)
      OBVIOUS
    <2>1. Worse(c, r)
      BY <1>1, WorseIsOrder
    <2>2. t \in Entry
      BY <1>1
    <2> QED
      BY <1>1, <2>1, <2>2, NotWorse
  <1> QED
    BY <1>1, <1>2 DEF BestOf

-----------------------------------------------------------------------------
(* The invariant of the core                                                 *)

States == {"IDLE", "READY", "SCORING", "HEAP_BEGIN", "HEAP_UP", "HEAP_DOWN", "SCORE",
           "OUTPUTS", "DONE"}

CoreTypeOK ==
    /\ state \in States
    /\ limit_k \in Nat
    /\ active_index \in Keys \cup {0}
    /\ candidate \in 0 .. MaxScore
    /\ heap \in [Places -> Entry]
    /\ heap_count \in Nat
    /\ heap_pos \in Nat
    /\ out_pos \in Nat
    /\ error_code \in Nat
    /\ scored \in SUBSET Entry /\ IsFiniteSet(scored)

\* A caller names a key once in a job.
KeysOnce ==
    /\ \A e, f \in scored : e.index = f.index => e = f
    /\ InScoring => \A e \in scored : e.index # active_index

\* A job that runs has a legal limit, and no error but the one it is about to report.
JobLegal ==
    /\ InJob => limit_k \in 1 .. TopkMax
    /\ InJob /\ state # "SCORE" => error_code = 0
    /\ state = "OUTPUTS" => out_pos < heap_count

\* The first n places hold the best k entries of S, ordered so or so.
Holds(h, n, S, k) == Distinct(h, n) /\ BestOf(Entries(h, n), n, S, k)

AtRest == HeapAtRest => HeapOrder(heap, heap_count) /\ Holds(heap, heap_count, scored, limit_k)

\* The heap with the candidate where it is to go.
OnItsWay == [heap EXCEPT ![heap_pos] = Candidate]

Updating ==
    /\ state \in {"HEAP_UP", "HEAP_DOWN"} =>
           /\ heap_pos < heap_count
           /\ Holds(OnItsWay, heap_count, scored \cup {Candidate}, limit_k)
    /\ state = "HEAP_UP" =>
           /\ OrderUp(OnItsWay, heap_count, heap_pos)
           /\ Entries(OnItsWay, heap_count) = scored \cup {Candidate}
    /\ state = "HEAP_DOWN" =>
           /\ OrderDown(OnItsWay, heap_count, heap_pos)
           /\ heap_count = limit_k
           /\ Cardinality(TopK(scored, limit_k)) = limit_k

HeapInv == CoreTypeOK /\ KeysOnce /\ JobLegal /\ AtRest /\ Updating

\* What the invariant says of the candidate while it is scored and put into place.
LEMMA CandidateIsNew ==
    ASSUME HeapInv
    PROVE  /\ Candidate \in Entry
           /\ InScoring => Candidate \notin scored
           /\ Candidate.index = active_index /\ Candidate.score = candidate
  BY DEF HeapInv, CoreTypeOK, KeysOnce, Candidate, Entry

\* Before an update, and after it.
LEMMA AtRestFacts ==
    ASSUME HeapInv, HeapAtRest
    PROVE  /\ heap_count \in 0 .. TopkMax /\ heap_count <= limit_k
           /\ limit_k \in 1 .. TopkMax
           /\ \A i \in 0 .. heap_count - 1 : heap[i] \in Entry
           /\ 0 .. heap_count - 1 \subseteq Places
           /\ HeapOrder(heap, heap_count)
           /\ Distinct(heap, heap_count)
           /\ BestOf(Entries(heap, heap_count), heap_count, scored, limit_k)
  <1>1. heap_count \in Nat /\ TopkMax \in Nat
    BY CoreAssumption DEF HeapInv, CoreTypeOK
  <1>2. HeapOrder(heap, heap_count) /\ Holds(heap, heap_count, scored, limit_k)
    BY DEF HeapInv, AtRest
  <1>3. limit_k \in 1 .. TopkMax
    BY DEF HeapInv, JobLegal, InJob, HeapAtRest
  <1>4. heap_count <= limit_k
    BY <1>2 DEF Holds, BestOf
  <1>5. heap_count \in 0 .. TopkMax /\ 0 .. heap_count - 1 \subseteq Places
    BY <1>1, <1>3, <1>4 DEF Places
  <1>6. heap \in [Places -> Entry]
    BY DEF HeapInv, CoreTypeOK
  <1> QED
    BY <1>2, <1>3, <1>4, <1>5, <1>6 DEF Holds

\* A heap at rest holds the best keys.
LEMMA RestingHeap ==
    ASSUME HeapInv, HeapAtRest
    PROVE  /\ Entries(heap, heap_count) = TopK(scored, limit_k)
           /\ IsFiniteSet(Entries(heap, heap_count))
           /\ Cardinality(Entries(heap, heap_count)) = heap_count
  <1>1. heap_count \in Nat /\ limit_k \in Nat /\ scored \in SUBSET Entry /\ IsFiniteSet(scored)
    BY DEF HeapInv, CoreTypeOK
  <1>2. IsFiniteSet(Entries(heap, heap_count)) /\ Cardinality(Entries(heap, heap_count)) = heap_count
    BY <1>1, AtRestFacts, EntriesCount
  <1> QED
    BY <1>1, <1>2, AtRestFacts, BestIsTopK

\* new is h with c in place of the entry at pos.
IsPut(h, new, n, pos, c) ==
    /\ new \in [Places -> Entry]
    /\ new[pos] = c /\ \A k \in 0 .. n - 1 : k # pos => new[k] = h[k]
    /\ Distinct(new, n)
    /\ Entries(new, n) = (Entries(h, n) \ {h[pos]}) \cup {c}

\* An entry that was not there is put in a place of the heap.
LEMMA PutAt ==
    ASSUME NEW h \in [Places -> Entry], NEW n \in 0 .. TopkMax, NEW pos \in 0 .. n - 1,
           NEW c \in Entry, c \notin Entries(h, n), Distinct(h, n)
    PROVE  IsPut(h, [h EXCEPT ![pos] = c], n, pos, c)
  <1> DEFINE new == [h EXCEPT ![pos] = c]
  <1>1. TopkMax \in Nat /\ n \in Nat /\ 0 .. n - 1 \subseteq Places
    BY CoreAssumption DEF Places
  <1>2. /\ new \in [Places -> Entry]
        /\ new[pos] = c /\ \A k \in 0 .. n - 1 : k # pos => new[k] = h[k]
    BY <1>1
  <1> HIDE DEF new
  <1>3. \A k \in 0 .. n - 1 : h[k] # c
    BY DEF Entries
  <1>4. Distinct(new, n)
    BY <1>2, <1>3 DEF Distinct
  <1>5. ASSUME NEW k \in 0 .. n - 1 PROVE new[k] \in (Entries(h, n) \ {h[pos]}) \cup {c}
    <2>1. CASE k = pos
      BY <1>2, <2>1
    <2>2. CASE k # pos
      <3>1. h[k] # h[pos]
        BY <2>2 DEF Distinct
      <3> QED
        BY <1>2, <2>2, <3>1 DEF Entries
    <2> QED
      BY <2>1, <2>2
  <1>6. ASSUME NEW k \in 0 .. n - 1, h[k] # h[pos] PROVE h[k] \in Entries(new, n)
    <2>1. k # pos /\ new[k] = h[k]
      BY <1>2, <1>6
    <2> QED
      BY <2>1 DEF Entries
  <1>7. c \in Entries(new, n)
    BY <1>2 DEF Entries
  <1>8. Entries(new, n) = (Entries(h, n) \ {h[pos]}) \cup {c}
    BY <1>5, <1>6, <1>7 DEF Entries
  <1> QED
    BY <1>2, <1>4, <1>8 DEF new, IsPut

-----------------------------------------------------------------------------
(* The steps of an update                                                    *)

\* There is room: the candidate is put behind the last entry.
LEMMA BeginGrows ==
    ASSUME HeapInv, HeapBegin, heap_count < limit_k
    PROVE  /\ heap_pos' < heap_count' /\ heap_count' = heap_count + 1
           /\ state' = "HEAP_UP" /\ heap' = heap /\ scored' = scored /\ Candidate' = Candidate
           /\ Distinct(OnItsWay', heap_count')
           /\ Entries(OnItsWay', heap_count') = scored \cup {Candidate}
           /\ BestOf(Entries(OnItsWay', heap_count'), heap_count', scored \cup {Candidate}, limit_k)
           /\ OrderUp(OnItsWay', heap_count', heap_pos')
  <1> DEFINE n == heap_count
             c == Candidate
             new == [heap EXCEPT ![n] = c]
  <1>1. state = "HEAP_BEGIN" /\ HeapAtRest /\ InScoring
    BY DEF HeapBegin, HeapAtRest, InScoring
  <1>2. /\ n \in 0 .. TopkMax /\ n \in Nat /\ limit_k \in 1 .. TopkMax /\ TopkMax \in Nat
        /\ HeapOrder(heap, n) /\ Distinct(heap, n)
        /\ BestOf(Entries(heap, n), n, scored, limit_k)
    BY <1>1, AtRestFacts, CoreAssumption
  <1>3. /\ heap_pos' = n /\ heap_count' = n + 1 /\ state' = "HEAP_UP" /\ scored' = scored
        /\ heap' = heap /\ Candidate' = c /\ limit_k' = limit_k
    BY <1>2 DEF HeapBegin, loads, active, Candidate
  <1>4. heap \in [Places -> Entry] /\ n \in Places /\ 0 .. n \subseteq Places
    BY <1>2 DEF HeapInv, CoreTypeOK, Places
  <1>5. c \in Entry /\ c \notin scored
    BY <1>1, CandidateIsNew
  <1>6. OnItsWay' = new
    BY <1>3 DEF OnItsWay
  <1>7. new[n] = c /\ \A k \in 0 .. n - 1 : new[k] = heap[k]
    BY <1>2, <1>4
  <1> HIDE DEF new
  <1>8. Entries(heap, n) \subseteq scored
    BY <1>2 DEF BestOf
  <1>9. \A k \in 0 .. n - 1 : heap[k] # c
    BY <1>5, <1>8 DEF Entries
  <1>10. \A k \in 0 .. (n + 1) - 1 : k = n \/ k \in 0 .. n - 1
    BY <1>2
  <1>11. Distinct(new, n + 1)
    BY <1>2, <1>7, <1>9, <1>10 DEF Distinct
  <1>12. Entries(new, n + 1) = Entries(heap, n) \cup {c}
    <2>1. Entries(new, n + 1) \subseteq Entries(heap, n) \cup {c}
      BY <1>7, <1>10 DEF Entries
    <2>2. \A k \in 0 .. n - 1 : heap[k] \in Entries(new, n + 1)
      <3>1. \A k \in 0 .. n - 1 : k \in 0 .. (n + 1) - 1 /\ heap[k] = new[k]
        BY <1>2, <1>7
      <3> QED
        BY <3>1 DEF Entries
    <2>3. c \in Entries(new, n + 1)
      <3>1. n \in 0 .. (n + 1) - 1
        BY <1>2
      <3> QED
        BY <1>7, <3>1 DEF Entries
    <2>4. Entries(heap, n) \subseteq Entries(new, n + 1)
      BY <2>2 DEF Entries
    <2> QED
      BY <2>1, <2>3, <2>4
  <1>13. /\ BestOf(Entries(new, n + 1), n + 1, scored \cup {c}, limit_k)
         /\ Entries(new, n + 1) = scored \cup {c}
    <2>1. limit_k \in Nat
      BY <1>2
    <2>2. /\ BestOf(Entries(heap, n) \cup {c}, n + 1, scored \cup {c}, limit_k)
          /\ Entries(heap, n) \cup {c} = scored \cup {c}
      BY <1>2 DEF BestOf
    <2> QED
      BY <1>12, <2>2
  <1>14. OrderUp(new, n + 1, n)
    <2> SUFFICES ASSUME NEW i \in 1 .. (n + 1) - 1
                 PROVE  /\ i # n => ~Worse(new[i], new[Parent(i)])
                        /\ Parent(i) # n
      BY DEF OrderUp
    <2>1. Parent(i) \in 0 .. n - 1 /\ Parent(i) < i /\ i <= n /\ i \in Nat
      BY <1>2, ParentFacts
    <2>2. ASSUME i # n PROVE ~Worse(new[i], new[Parent(i)])
      <3>1. i \in 1 .. n - 1 /\ i \in 0 .. n - 1
        BY <1>2, <2>1, <2>2
      <3> QED
        BY <1>2, <1>7, <2>1, <3>1 DEF HeapOrder
    <2> QED
      BY <1>2, <2>1, <2>2
  <1>15. heap_pos' < heap_count'
    BY <1>2, <1>3
  <1> QED
    BY <1>3, <1>6, <1>11, <1>13, <1>14, <1>15

\* The heap is full and its first entry worse: the candidate takes its place.
LEMMA BeginReplaces ==
    ASSUME HeapInv, HeapBegin, ~(heap_count < limit_k), Worse(heap[0], Candidate)
    PROVE  /\ heap_pos' = 0 /\ heap_count' = heap_count /\ heap_count = limit_k
           /\ state' = "HEAP_DOWN" /\ heap' = heap /\ scored' = scored /\ Candidate' = Candidate
           /\ Distinct(OnItsWay', heap_count)
           /\ BestOf(Entries(OnItsWay', heap_count), heap_count, scored \cup {Candidate}, limit_k)
           /\ OrderDown(OnItsWay', heap_count, 0)
  <1> DEFINE n == heap_count
             c == Candidate
             new == [heap EXCEPT ![0] = c]
  <1>1. state = "HEAP_BEGIN" /\ HeapAtRest /\ InScoring
    BY DEF HeapBegin, HeapAtRest, InScoring
  <1>2. /\ n \in 0 .. TopkMax /\ n \in Nat /\ limit_k \in 1 .. TopkMax /\ TopkMax \in Nat
        /\ n <= limit_k
        /\ HeapOrder(heap, n) /\ Distinct(heap, n)
        /\ BestOf(Entries(heap, n), n, scored, limit_k)
        /\ \A i \in 0 .. n - 1 : heap[i] \in Entry
    BY <1>1, AtRestFacts, CoreAssumption
  <1>3. /\ heap_pos' = 0 /\ heap_count' = n /\ state' = "HEAP_DOWN" /\ scored' = scored
        /\ heap' = heap /\ Candidate' = c /\ limit_k' = limit_k
    BY <1>2 DEF HeapBegin, loads, active, Candidate
  <1>4. n = limit_k /\ 0 \in 0 .. n - 1
    BY <1>2
  <1>5. c \in Entry /\ c \notin scored /\ heap \in [Places -> Entry] /\ scored \in SUBSET Entry
    BY <1>1, CandidateIsNew DEF HeapInv, CoreTypeOK
  <1>6. OnItsWay' = new
    BY <1>3 DEF OnItsWay
  <1>7. c \notin Entries(heap, n)
    BY <1>2, <1>5 DEF BestOf
  <1>8. /\ new[0] = c /\ \A k \in 0 .. n - 1 : k # 0 => new[k] = heap[k]
        /\ Distinct(new, n)
        /\ Entries(new, n) = (Entries(heap, n) \ {heap[0]}) \cup {c}
    <2>1. IsPut(heap, new, n, 0, c)
      BY <1>2, <1>4, <1>5, <1>7, PutAt
    <2> QED
      BY <2>1 DEF IsPut
  <1> HIDE DEF new
  <1>9. heap[0] \in Entries(heap, n) /\ \A t \in Entries(heap, n) : ~Worse(t, heap[0])
    BY <1>2, <1>4, RootIsWorst DEF Entries
  <1>10. BestOf(Entries(new, n), n, scored \cup {c}, limit_k)
    BY <1>2, <1>4, <1>5, <1>8, <1>9, BestReplaces
  <1>11. OrderDown(new, n, 0)
    <2> SUFFICES ASSUME NEW i \in 1 .. n - 1, Parent(i) # 0
                 PROVE  ~Worse(new[i], new[Parent(i)])
      BY DEF OrderDown
    <2>1. Parent(i) \in 0 .. n - 1 /\ i \in 0 .. n - 1 /\ i # 0
      BY <1>2, ParentFacts
    <2> QED
      BY <1>2, <1>8, <2>1 DEF HeapOrder
  <1> QED
    BY <1>3, <1>4, <1>6, <1>8, <1>10, <1>11

\* The heap is full and the candidate no better than its first entry.
LEMMA BeginRejects ==
    ASSUME HeapInv, HeapBegin, ~(heap_count < limit_k), ~Worse(heap[0], Candidate)
    PROVE  /\ heap_count' = heap_count /\ heap_count = limit_k
           /\ state' = "SCORE" /\ heap' = heap /\ scored' = scored \cup {Candidate}
           /\ BestOf(Entries(heap, heap_count), heap_count, scored \cup {Candidate}, limit_k)
  <1> DEFINE n == heap_count
             c == Candidate
  <1>1. state = "HEAP_BEGIN" /\ HeapAtRest /\ InScoring
    BY DEF HeapBegin, HeapAtRest, InScoring
  <1>2. /\ n \in 0 .. TopkMax /\ n \in Nat /\ limit_k \in 1 .. TopkMax /\ TopkMax \in Nat
        /\ n <= limit_k
        /\ HeapOrder(heap, n) /\ Distinct(heap, n)
        /\ BestOf(Entries(heap, n), n, scored, limit_k)
        /\ \A i \in 0 .. n - 1 : heap[i] \in Entry
    BY <1>1, AtRestFacts, CoreAssumption
  <1>3. heap_count' = n /\ state' = "SCORE" /\ heap' = heap /\ scored' = scored \cup {c}
    BY <1>2 DEF HeapBegin, Scored
  <1>4. n = limit_k /\ 0 \in 0 .. n - 1
    BY <1>2
  <1>5. c \in Entry /\ c \notin scored /\ scored \in SUBSET Entry
    BY <1>1, CandidateIsNew DEF HeapInv, CoreTypeOK
  <1>6. heap[0] \in Entries(heap, n) /\ \A t \in Entries(heap, n) : ~Worse(t, heap[0])
    BY <1>2, <1>4, RootIsWorst DEF Entries
  <1>7. BestOf(Entries(heap, n), n, scored \cup {c}, limit_k)
    BY <1>2, <1>4, <1>5, <1>6, BestRejects
  <1> QED
    BY <1>3, <1>4, <1>7

\* An entry on its way.
LEMMA UpdatingFacts ==
    ASSUME HeapInv, state \in {"HEAP_UP", "HEAP_DOWN"}
    PROVE  /\ heap_count \in 0 .. TopkMax /\ heap_pos \in 0 .. heap_count - 1
           /\ 0 .. heap_count - 1 \subseteq Places
           /\ heap \in [Places -> Entry] /\ OnItsWay \in [Places -> Entry]
           /\ OnItsWay[heap_pos] = Candidate
           /\ \A i \in Places : i # heap_pos => OnItsWay[i] = heap[i]
           /\ Distinct(OnItsWay, heap_count)
           /\ BestOf(Entries(OnItsWay, heap_count), heap_count,
                     scored \cup {Candidate}, limit_k)
  <1>1. /\ heap_count \in Nat /\ heap_pos \in Nat /\ TopkMax \in Nat
        /\ heap \in [Places -> Entry] /\ Candidate \in Entry
    BY CoreAssumption, CandidateIsNew DEF HeapInv, CoreTypeOK
  <1>2. heap_pos < heap_count /\ Holds(OnItsWay, heap_count, scored \cup {Candidate}, limit_k)
    BY DEF HeapInv, Updating
  <1>3. limit_k \in 1 .. TopkMax
    BY DEF HeapInv, JobLegal, InJob
  <1>4. heap_count <= limit_k
    BY <1>2 DEF Holds, BestOf
  <1>5. /\ heap_count \in 0 .. TopkMax /\ heap_pos \in 0 .. heap_count - 1
        /\ 0 .. heap_count - 1 \subseteq Places
    BY <1>1, <1>2, <1>3, <1>4 DEF Places
  <1>6. /\ OnItsWay \in [Places -> Entry] /\ OnItsWay[heap_pos] = Candidate
        /\ \A i \in Places : i # heap_pos => OnItsWay[i] = heap[i]
    BY <1>1, <1>5 DEF OnItsWay
  <1> QED
    BY <1>1, <1>2, <1>5, <1>6 DEF Holds

\* A step of the hole is an exchange of the candidate with the entry it passes.
LEMMA HoleMoves ==
    ASSUME HeapInv, state \in {"HEAP_UP", "HEAP_DOWN"},
           NEW to \in 0 .. heap_count - 1, to # heap_pos,
           heap' = [heap EXCEPT ![heap_pos] = heap[to]], heap_pos' = to,
           UNCHANGED <<active, heap_count>>
    PROVE  /\ OnItsWay' = SwapEntries(OnItsWay, heap_pos, to)
           /\ heap' \in [Places -> Entry]
           /\ Candidate' = Candidate
           /\ Distinct(OnItsWay', heap_count)
           /\ Entries(OnItsWay', heap_count) = Entries(OnItsWay, heap_count)
  <1>1. /\ heap_count \in 0 .. TopkMax /\ heap_pos \in 0 .. heap_count - 1
        /\ 0 .. heap_count - 1 \subseteq Places
        /\ heap \in [Places -> Entry] /\ OnItsWay \in [Places -> Entry]
        /\ OnItsWay[heap_pos] = Candidate
        /\ \A i \in Places : i # heap_pos => OnItsWay[i] = heap[i]
        /\ Distinct(OnItsWay, heap_count)
    BY UpdatingFacts
  <1>2. heap_pos \in Places /\ to \in Places
    BY <1>1
  <1>3. Candidate' = Candidate
    BY DEF active, Candidate
  <1>4. heap' \in [Places -> Entry]
    BY <1>1, <1>2
  <1>5. OnItsWay' = [heap' EXCEPT ![to] = Candidate]
    BY <1>3 DEF OnItsWay
  <1>6. SwapEntries(OnItsWay, heap_pos, to)
            = [OnItsWay EXCEPT ![heap_pos] = heap[to], ![to] = Candidate]
    BY <1>1, <1>2 DEF SwapEntries
  <1>7. OnItsWay' = SwapEntries(OnItsWay, heap_pos, to)
    BY <1>1, <1>2, <1>5, <1>6 DEF OnItsWay
  <1>8. TopkMax \in Nat /\ heap_count \in Nat
    BY <1>1, CoreAssumption
  <1>9. Exchanged(OnItsWay, SwapEntries(OnItsWay, heap_pos, to), Places, Entry,
                  heap_count, heap_pos, to)
    BY <1>1, <1>8, SwapKeeps
  <1>10. /\ Distinct(SwapEntries(OnItsWay, heap_pos, to), heap_count)
         /\ Entries(SwapEntries(OnItsWay, heap_pos, to), heap_count)
                = Entries(OnItsWay, heap_count)
    BY <1>1, <1>9 DEF Exchanged
  <1> QED
    BY <1>3, <1>4, <1>7, <1>10

\* HEAP_UP: the candidate goes to the place of its parent,
LEMMA UpStep ==
    ASSUME HeapInv, HeapUp, CandidateRises
    PROVE  /\ heap_pos' < heap_count /\ heap_pos' \in Nat /\ heap' \in [Places -> Entry]
           /\ Candidate' = Candidate /\ state' = state /\ scored' = scored
           /\ Distinct(OnItsWay', heap_count)
           /\ Entries(OnItsWay', heap_count) = Entries(OnItsWay, heap_count)
           /\ OrderUp(OnItsWay', heap_count, heap_pos')
  <1> DEFINE n == heap_count
             p == Parent(heap_pos)
  <1>1. /\ state = "HEAP_UP" /\ state' = state /\ scored' = scored /\ heap_pos' = p
        /\ heap' = [heap EXCEPT ![heap_pos] = heap[p]]
        /\ UNCHANGED <<active, heap_count>>
    BY DEF HeapUp
  <1>2. /\ n \in 0 .. TopkMax /\ heap_pos \in 0 .. n - 1 /\ 0 .. n - 1 \subseteq Places
        /\ OnItsWay \in [Places -> Entry]
        /\ OnItsWay[heap_pos] = Candidate
        /\ \A i \in Places : i # heap_pos => OnItsWay[i] = heap[i]
        /\ TopkMax \in Nat
    BY <1>1, UpdatingFacts, CoreAssumption
  <1>3. heap_pos # 0 /\ heap_pos \in 1 .. n - 1 /\ Worse(Candidate, heap[p])
    BY <1>2 DEF CandidateRises
  <1>4. p \in Nat /\ p < heap_pos /\ p \in 0 .. n - 1 /\ p # heap_pos
    BY <1>2, <1>3, ParentFacts
  <1>5. OrderUp(OnItsWay, n, heap_pos)
    BY <1>1 DEF HeapInv, Updating
  <1>6. Worse(OnItsWay[heap_pos], OnItsWay[p])
    BY <1>2, <1>3, <1>4
  <1>7. OrderUp(SwapEntries(OnItsWay, heap_pos, p), n, p)
    BY <1>2, <1>3, <1>5, <1>6, UpMoves
  <1> HIDE DEF p
  <1>8. /\ OnItsWay' = SwapEntries(OnItsWay, heap_pos, p)
        /\ heap' \in [Places -> Entry] /\ Candidate' = Candidate
        /\ Distinct(OnItsWay', n)
        /\ Entries(OnItsWay', n) = Entries(OnItsWay, n)
    BY <1>1, <1>4, HoleMoves
  <1>9. p < n
    BY <1>2, <1>4
  <1> QED
    BY <1>1, <1>4, <1>7, <1>8, <1>9

\* or stays where it is.
LEMMA UpRests ==
    ASSUME HeapInv, HeapUp, ~CandidateRises
    PROVE  /\ heap' = OnItsWay /\ scored' = scored \cup {Candidate} /\ state' = "SCORE"
           /\ HeapOrder(OnItsWay, heap_count)
  <1>1. /\ state = "HEAP_UP" /\ state' = "SCORE" /\ scored' = scored \cup {Candidate}
        /\ heap' = OnItsWay
    BY DEF HeapUp, Scored, OnItsWay
  <1>2. /\ heap_count \in 0 .. TopkMax /\ heap_pos \in 0 .. heap_count - 1
        /\ 0 .. heap_count - 1 \subseteq Places /\ TopkMax \in Nat
        /\ OnItsWay[heap_pos] = Candidate
        /\ \A i \in Places : i # heap_pos => OnItsWay[i] = heap[i]
    BY <1>1, UpdatingFacts, CoreAssumption
  <1>3. OrderUp(OnItsWay, heap_count, heap_pos)
    BY <1>1 DEF HeapInv, Updating
  <1>4. ASSUME heap_pos # 0
        PROVE  ~Worse(OnItsWay[heap_pos], OnItsWay[Parent(heap_pos)])
    <2>1. heap_pos \in Nat \ {0}
      BY <1>2, <1>4
    <2>2. Parent(heap_pos) \in Nat /\ Parent(heap_pos) < heap_pos
      BY <2>1, ParentFacts
    <2>3. Parent(heap_pos) \in Places /\ Parent(heap_pos) # heap_pos
      BY <1>2, <2>1, <2>2 DEF Places
    <2> QED
      BY <1>2, <1>4, <2>3 DEF CandidateRises
  <1>5. HeapOrder(OnItsWay, heap_count)
    <2>1. heap_count \in Nat /\ heap_pos \in Nat
      BY <1>2
    <2> QED
      BY <1>3, <1>4, <2>1, UpEnds
  <1> QED
    BY <1>1, <1>5

\* Chosen is the worse child, if there is one.
LEMMA WorseChild ==
    ASSUME HeapInv, state = "HEAP_DOWN", 2 * heap_pos + 1 < heap_count
    PROVE  /\ Chosen \in 1 .. heap_count - 1 /\ Parent(Chosen) = heap_pos
           /\ \A c \in 1 .. heap_count - 1 :
                  Parent(c) = heap_pos => ~Worse(heap[c], heap[Chosen])
  <1> DEFINE left == 2 * heap_pos + 1
             right == left + 1
  <1>1. /\ heap_count \in 0 .. TopkMax /\ heap_pos \in 0 .. heap_count - 1
        /\ 0 .. heap_count - 1 \subseteq Places /\ TopkMax \in Nat
        /\ heap \in [Places -> Entry]
    BY UpdatingFacts, CoreAssumption
  <1>2. left \in 1 .. heap_count - 1 /\ right \in Nat /\ heap_pos \in Nat
    BY <1>1
  <1>3. \A c \in 1 .. heap_count - 1 : Parent(c) = heap_pos <=> (c = left \/ c = right)
    <2> SUFFICES ASSUME NEW c \in 1 .. heap_count - 1
                 PROVE  Parent(c) = heap_pos <=> (c = left \/ c = right)
      OBVIOUS
    <2>1. c \in Nat \ {0}
      BY <1>1
    <2> QED
      BY <1>2, <2>1, ParentFacts
  <1>4. \A c \in 1 .. heap_count - 1 : heap[c] \in Entry
    BY <1>1
  <1>5. Chosen = IF right < heap_count /\ Worse(heap[right], heap[left]) THEN right ELSE left
    BY DEF Chosen
  <1> HIDE DEF left
  <1>6. CASE right < heap_count /\ Worse(heap[right], heap[left])
    <2>1. Chosen = right /\ right \in 1 .. heap_count - 1
      BY <1>1, <1>2, <1>5, <1>6
    <2> QED
      BY <1>2, <1>3, <1>4, <1>6, <2>1, WorseIsOrder
  <1>7. CASE ~(right < heap_count /\ Worse(heap[right], heap[left]))
    <2>1. Chosen = left
      BY <1>5, <1>7
    <2>2. \A c \in 1 .. heap_count - 1 : c = right => right < heap_count
      BY <1>1
    <2> QED
      BY <1>2, <1>3, <1>4, <1>7, <2>1, <2>2, NotWorse
  <1> QED
    BY <1>6, <1>7

\* HEAP_DOWN: the candidate goes to the place of its worse child,
LEMMA DownStep ==
    ASSUME HeapInv, HeapDown, CandidateSinks
    PROVE  /\ heap_pos' < heap_count /\ heap_pos' \in Nat /\ heap' \in [Places -> Entry]
           /\ Candidate' = Candidate /\ state' = state /\ scored' = scored
           /\ Distinct(OnItsWay', heap_count)
           /\ Entries(OnItsWay', heap_count) = Entries(OnItsWay, heap_count)
           /\ OrderDown(OnItsWay', heap_count, heap_pos')
  <1> DEFINE n == heap_count
             ch == Chosen
  <1>1. /\ state = "HEAP_DOWN" /\ state' = state /\ scored' = scored /\ heap_pos' = ch
        /\ heap' = [heap EXCEPT ![heap_pos] = heap[ch]]
        /\ UNCHANGED <<active, heap_count>>
        /\ 2 * heap_pos + 1 < heap_count /\ Worse(heap[ch], Candidate)
    BY DEF HeapDown, CandidateSinks
  <1>2. /\ n \in 0 .. TopkMax /\ heap_pos \in 0 .. n - 1 /\ 0 .. n - 1 \subseteq Places
        /\ OnItsWay \in [Places -> Entry]
        /\ OnItsWay[heap_pos] = Candidate
        /\ \A i \in Places : i # heap_pos => OnItsWay[i] = heap[i]
        /\ TopkMax \in Nat
    BY <1>1, UpdatingFacts, CoreAssumption
  <1>3. /\ ch \in 1 .. n - 1 /\ Parent(ch) = heap_pos
        /\ \A c \in 1 .. n - 1 : Parent(c) = heap_pos => ~Worse(heap[c], heap[ch])
    BY <1>1, WorseChild
  <1> HIDE DEF ch
  <1>4. ch \in Nat /\ ch \in 0 .. n - 1
    BY <1>2, <1>3
  <1>5. \A c \in 1 .. n - 1 : Parent(c) = heap_pos => c # heap_pos /\ c \in Places
    <2> SUFFICES ASSUME NEW c \in 1 .. n - 1, Parent(c) = heap_pos
                 PROVE  c # heap_pos /\ c \in Places
      OBVIOUS
    <2>1. c \in Nat \ {0} /\ c \in 0 .. n - 1
      BY <1>2
    <2>2. Parent(c) < c
      BY <2>1, ParentFacts
    <2> QED
      BY <1>2, <2>1, <2>2
  <1>6. /\ Worse(OnItsWay[ch], OnItsWay[heap_pos])
        /\ \A c \in 1 .. n - 1 : Parent(c) = heap_pos => ~Worse(OnItsWay[c], OnItsWay[ch])
    BY <1>1, <1>2, <1>3, <1>5
  <1>7. OrderDown(OnItsWay, n, heap_pos)
    BY <1>1 DEF HeapInv, Updating
  <1>8. OrderDown(SwapEntries(OnItsWay, heap_pos, ch), n, ch)
    BY <1>2, <1>3, <1>6, <1>7, DownMoves
  <1>9. /\ OnItsWay' = SwapEntries(OnItsWay, heap_pos, ch)
        /\ heap' \in [Places -> Entry] /\ Candidate' = Candidate
        /\ Distinct(OnItsWay', n)
        /\ Entries(OnItsWay', n) = Entries(OnItsWay, n)
    BY <1>1, <1>3, <1>4, <1>5, HoleMoves
  <1>10. ch < n
    BY <1>2, <1>4
  <1> QED
    BY <1>1, <1>4, <1>8, <1>9, <1>10

\* or stays where it is.
LEMMA DownRests ==
    ASSUME HeapInv, HeapDown, ~CandidateSinks
    PROVE  /\ heap' = OnItsWay /\ scored' = scored \cup {Candidate} /\ state' = "SCORE"
           /\ HeapOrder(OnItsWay, heap_count)
  <1>1. /\ state = "HEAP_DOWN" /\ state' = "SCORE" /\ scored' = scored \cup {Candidate}
        /\ heap' = OnItsWay
    BY DEF HeapDown, Scored, OnItsWay
  <1>2. /\ heap_count \in 0 .. TopkMax /\ heap_pos \in 0 .. heap_count - 1
        /\ 0 .. heap_count - 1 \subseteq Places /\ TopkMax \in Nat
        /\ heap \in [Places -> Entry] /\ OnItsWay \in [Places -> Entry]
        /\ OnItsWay[heap_pos] = Candidate
        /\ \A i \in Places : i # heap_pos => OnItsWay[i] = heap[i]
    BY <1>1, UpdatingFacts, CoreAssumption
  <1>3. OrderDown(OnItsWay, heap_count, heap_pos)
    BY <1>1 DEF HeapInv, Updating
  <1>4. ASSUME NEW c \in 1 .. heap_count - 1, Parent(c) = heap_pos
        PROVE  ~Worse(OnItsWay[c], OnItsWay[heap_pos])
    <2>1. c \in Nat \ {0} /\ c \in 0 .. heap_count - 1 /\ heap_pos \in Nat
      BY <1>2
    <2>2. Parent(c) < c /\ (c = 2 * heap_pos + 1 \/ c = 2 * heap_pos + 2)
      BY <1>4, <2>1, ParentFacts
    <2>3. 2 * heap_pos + 1 < heap_count
      BY <1>2, <2>1, <2>2
    <2>4. /\ Chosen \in 1 .. heap_count - 1 /\ Parent(Chosen) = heap_pos
          /\ ~Worse(heap[c], heap[Chosen])
      BY <1>1, <1>4, <2>3, WorseChild
    <2>5. ~Worse(heap[Chosen], Candidate)
      BY <2>3 DEF CandidateSinks
    <2>6. Chosen \in Places /\ c \in Places /\ c # heap_pos
      BY <1>2, <1>4, <2>1, <2>2, <2>4
    <2>7. heap[c] \in Entry /\ heap[Chosen] \in Entry /\ Candidate \in Entry
      BY <1>2, <2>6, CandidateIsNew
    <2>8. ~Worse(heap[c], Candidate)
      BY <2>4, <2>5, <2>7, NotWorse
    <2> QED
      BY <1>2, <2>6, <2>8
  <1>5. HeapOrder(OnItsWay, heap_count)
    <2>1. heap_count \in Nat /\ heap_pos \in Nat
      BY <1>2
    <2> QED
      BY <1>3, <1>4, <2>1, DownEnds
  <1> QED
    BY <1>1, <1>5

-----------------------------------------------------------------------------
(* The invariant holds                                                       *)

\* An empty heap holds the best of no keys.
LEMMA EmptyHeap ==
    ASSUME NEW h, NEW k \in Nat
    PROVE  HeapOrder(h, 0) /\ Holds(h, 0, {}, k)
  <1>1. Entries(h, 0) = {}
    BY DEF Entries
  <1>2. BestOf(Entries(h, 0), 0, {}, k)
    BY <1>1 DEF BestOf
  <1>3. Distinct(h, 0) /\ HeapOrder(h, 0)
    BY DEF Distinct, HeapOrder
  <1> QED
    BY <1>2, <1>3 DEF Holds

\* A step that leaves the heap alone.
LEMMA HeapUntouched ==
    ASSUME HeapInv, CoreTypeOK', KeysOnce', JobLegal', HeapAtRest' => HeapAtRest,
           state' \notin {"HEAP_UP", "HEAP_DOWN"},
           UNCHANGED <<heap, heap_count, scored, limit_k>>
    PROVE  HeapInv'
  <1>1. AtRest'
    BY DEF HeapInv, AtRest
  <1>2. Updating'
    BY DEF Updating
  <1> QED
    BY <1>1, <1>2 DEF HeapInv

\* The heap is empty when the core comes out of reset.
LEMMA InitHeap == Init => HeapInv
  <1> SUFFICES ASSUME Init PROVE HeapInv
    OBVIOUS
  <1>1. /\ 0 \in 0 .. MaxScore /\ 0 \in Nat /\ NoEntry \in Entry
    BY CoreAssumption DEF NoEntry, Entry
  <1>2. CoreTypeOK
    BY <1>1, FS_EmptySet DEF Init, CoreTypeOK, States
  <1>3. KeysOnce /\ JobLegal /\ AtRest /\ Updating
    BY DEF Init, KeysOnce, JobLegal, AtRest, Updating, InScoring, InJob, HeapAtRest
  <1> QED
    BY <1>2, <1>3 DEF HeapInv

\* A job starts with an empty heap,
LEMMA StartHeap == HeapInv /\ StartJob => HeapInv'
  <1> SUFFICES ASSUME HeapInv, StartJob PROVE HeapInv'
    OBVIOUS
  <1>1. /\ state' \in {"DONE", "READY"} /\ limit_k' \in 0 .. TopkMax + 1
        /\ error_code' \in {0, 1}
        /\ state' = "READY" => limit_k' \in 1 .. TopkMax /\ error_code' = 0
        /\ heap_count' = 0 /\ scored' = {}
        /\ UNCHANGED <<active_index, candidate, heap, heap_pos, out_pos>>
    BY DEF StartJob
  <1>2. limit_k' \in Nat
    BY <1>1, CoreAssumption
  <1>3. CoreTypeOK'
    BY <1>1, <1>2, FS_EmptySet DEF HeapInv, CoreTypeOK, States
  <1>4. KeysOnce' /\ JobLegal' /\ Updating'
    BY <1>1 DEF KeysOnce, JobLegal, InScoring, InJob, Updating
  <1>5. HeapOrder(heap', 0) /\ Holds(heap', 0, {}, limit_k')
    BY <1>2, EmptyHeap
  <1>6. AtRest'
    BY <1>1, <1>5 DEF AtRest
  <1> QED
    BY <1>3, <1>4, <1>6 DEF HeapInv

\* and a reset forgets it.
LEMMA ResetHeap == HeapInv /\ Reset => HeapInv'
  <1> SUFFICES ASSUME HeapInv, Reset PROVE HeapInv'
    OBVIOUS
  <1>1. CoreTypeOK'
    BY CoreAssumption, FS_EmptySet DEF HeapInv, CoreTypeOK, Reset, States
  <1>2. KeysOnce' /\ JobLegal' /\ AtRest' /\ Updating'
    BY DEF Reset, KeysOnce, JobLegal, InScoring, InJob, AtRest, HeapAtRest, Updating
  <1> QED
    BY <1>1, <1>2 DEF HeapInv

\* Records and keys arrive without touching the heap.
LEMMA InputsKeepHeap == HeapInv /\ (LoadQ \/ LoadK \/ AcceptKey) => HeapInv'
  <1> SUFFICES ASSUME HeapInv, LoadQ \/ LoadK \/ AcceptKey PROVE HeapInv'
    OBVIOUS
  <1>1. CASE LoadQ \/ LoadK
    <2>1. UNCHANGED <<state, limit_k, active_index, candidate, heap, heap_count, heap_pos,
                      out_pos, error_code, scored>>
      BY <1>1 DEF LoadQ, LoadK, active, tree
    <2>2. state' = "READY" /\ state = "READY"
      BY <1>1, <2>1 DEF LoadQ, LoadK
    <2>3. CoreTypeOK' /\ KeysOnce' /\ JobLegal'
      BY <2>1 DEF HeapInv, CoreTypeOK, KeysOnce, JobLegal, InScoring, InJob
    <2> QED
      BY <2>1, <2>2, <2>3, HeapUntouched DEF HeapAtRest
  <1>2. CASE AcceptKey
    <2>1. /\ state = "READY" /\ state' \in {"SCORE", "SCORING"}
          /\ active_index' \in Keys /\ \A e \in scored : e.index # active_index'
          /\ candidate' = 0 /\ error_code' \in {error_code, 3, 4}
          /\ state' = "SCORING" => error_code' = error_code
          /\ UNCHANGED <<limit_k, heap, heap_count, heap_pos, out_pos, scored>>
      BY <1>2 DEF AcceptKey, tree
    <2>2. CoreTypeOK'
      BY <2>1, CoreAssumption DEF HeapInv, CoreTypeOK, States
    <2>3. KeysOnce' /\ JobLegal'
      BY <2>1 DEF HeapInv, KeysOnce, JobLegal, InScoring, InJob
    <2> QED
      BY <2>1, <2>2, <2>3, HeapUntouched DEF HeapAtRest
  <1> QED
    BY <1>1, <1>2

\* A key gets its score, or an error.
LEMMA ScoreKeepsHeap == HeapInv /\ Score => HeapInv'
  <1> SUFFICES ASSUME HeapInv, Score PROVE HeapInv'
    OBVIOUS
  <1>1. /\ state = "SCORING" /\ state' \in {"SCORE", "HEAP_BEGIN"}
        /\ candidate' \in {candidate} \cup 0 .. MaxScore
        /\ error_code' \in {error_code} \cup 2 .. 6
        /\ state' = "HEAP_BEGIN" => error_code' = error_code
        /\ UNCHANGED <<limit_k, active_index, heap, heap_count, heap_pos, out_pos, scored>>
    BY DEF Score, tree, loads
  <1>2. CoreTypeOK'
    BY <1>1 DEF HeapInv, CoreTypeOK, States
  <1>3. KeysOnce' /\ JobLegal'
    BY <1>1 DEF HeapInv, KeysOnce, JobLegal, InScoring, InJob
  <1> QED
    BY <1>1, <1>2, <1>3, HeapUntouched DEF HeapAtRest

\* Answers and results are taken.
LEMMA OutputsKeepHeap == HeapInv /\ (TakeScore \/ Finish \/ TakeResult \/ TakeDone) => HeapInv'
  <1> SUFFICES ASSUME HeapInv, TakeScore \/ Finish \/ TakeResult \/ TakeDone PROVE HeapInv'
    OBVIOUS
  <1>1. UNCHANGED <<limit_k, active_index, candidate, heap, heap_count, heap_pos, error_code,
                    scored>>
    BY DEF TakeScore, Finish, TakeResult, TakeDone, loads, active, tree
  <1>2. /\ state \in {"SCORE", "READY", "OUTPUTS", "DONE"}
        /\ state' \in {"READY", "OUTPUTS", "DONE", "IDLE"}
        /\ state' = "READY" => state = "SCORE" /\ error_code = 0
        /\ state' = "OUTPUTS" => state \in {"READY", "OUTPUTS"}
        /\ out_pos' \in {out_pos, 0, out_pos + 1}
    BY DEF TakeScore, Finish, TakeResult, TakeDone
  <1>3. out_pos \in Nat /\ heap_count \in Nat
    BY DEF HeapInv, CoreTypeOK
  <1>4. state' = "OUTPUTS" => out_pos' < heap_count
    <2>1. CASE Finish
      BY <1>3, <2>1 DEF Finish
    <2>2. CASE TakeResult
      BY <1>3, <2>2 DEF TakeResult, HeapInv, JobLegal
    <2>3. CASE TakeScore \/ TakeDone
      BY <2>3 DEF TakeScore, TakeDone
    <2> QED
      BY <2>1, <2>2, <2>3
  <1>5. CoreTypeOK'
    BY <1>1, <1>2, <1>3 DEF HeapInv, CoreTypeOK, States
  <1>6. KeysOnce' /\ JobLegal'
    BY <1>1, <1>2, <1>4 DEF HeapInv, KeysOnce, JobLegal, InScoring, InJob
  <1> QED
    BY <1>1, <1>2, <1>5, <1>6, HeapUntouched DEF HeapAtRest

\* When the candidate is in place it is one of the keys scored.
LEMMA ScoredKeepsHeap ==
    ASSUME HeapInv, InScoring, state' = "SCORE", scored' = scored \cup {Candidate},
           heap' \in [Places -> Entry], heap_count' = heap_count, heap_pos' = heap_pos,
           UNCHANGED <<limit_k, active_index, candidate, out_pos, error_code>>,
           HeapOrder(heap', heap_count), Distinct(heap', heap_count),
           BestOf(Entries(heap', heap_count), heap_count, scored \cup {Candidate}, limit_k)
    PROVE  HeapInv'
  <1>1. /\ Candidate \in Entry /\ Candidate \notin scored
        /\ Candidate.index = active_index
    BY CandidateIsNew
  <1>2. CoreTypeOK'
    <2>1. scored' \in SUBSET Entry /\ IsFiniteSet(scored')
      BY <1>1, FS_AddElement DEF HeapInv, CoreTypeOK
    <2> QED
      BY <2>1 DEF HeapInv, CoreTypeOK, States
  <1>3. KeysOnce'
    <2>1. \A e \in scored : e.index # Candidate.index
      BY <1>1 DEF HeapInv, KeysOnce
    <2>2. \A e, f \in scored' : e.index = f.index => e = f
      BY <2>1 DEF HeapInv, KeysOnce
    <2> QED
      BY <2>2 DEF KeysOnce, InScoring
  <1>4. JobLegal'
    BY DEF HeapInv, JobLegal, InJob, InScoring
  <1>5. AtRest' /\ Updating'
    BY DEF AtRest, Updating, Holds
  <1> QED
    BY <1>2, <1>3, <1>4, <1>5 DEF HeapInv

\* HEAP_BEGIN: the three ways an update begins.
LEMMA BeginKeepsHeap == HeapInv /\ HeapBegin => HeapInv'
  <1> SUFFICES ASSUME HeapInv, HeapBegin PROVE HeapInv'
    OBVIOUS
  <1>1. /\ state = "HEAP_BEGIN" /\ HeapAtRest /\ InScoring
        /\ UNCHANGED <<limit_k, active_index, candidate, heap, out_pos, error_code>>
    BY DEF HeapBegin, HeapAtRest, InScoring, loads, active
  <1>2. ASSUME NEW s \in {"HEAP_UP", "HEAP_DOWN"}, state' = s, scored' = scored,
               heap_pos' \in Nat, heap_count' \in Nat
        PROVE  CoreTypeOK' /\ KeysOnce' /\ JobLegal' /\ AtRest'
    <2>1. CoreTypeOK'
      BY <1>1, <1>2 DEF HeapInv, CoreTypeOK, States
    <2>2. KeysOnce' /\ JobLegal' /\ AtRest'
      BY <1>1, <1>2 DEF HeapInv, KeysOnce, JobLegal, AtRest, InScoring, InJob, HeapAtRest
    <2> QED
      BY <2>1, <2>2
  <1>3. heap_count \in Nat
    BY DEF HeapInv, CoreTypeOK
  <1>4. CASE heap_count < limit_k
    <2>1. /\ heap_pos' < heap_count' /\ heap_count' = heap_count + 1
          /\ state' = "HEAP_UP" /\ scored' = scored /\ Candidate' = Candidate
          /\ Distinct(OnItsWay', heap_count')
          /\ Entries(OnItsWay', heap_count') = scored \cup {Candidate}
          /\ BestOf(Entries(OnItsWay', heap_count'), heap_count', scored \cup {Candidate}, limit_k)
          /\ OrderUp(OnItsWay', heap_count', heap_pos')
      BY <1>4, BeginGrows
    <2>2. Updating'
      BY <1>1, <2>1 DEF Updating, Holds
    <2>3. heap_pos' \in Nat /\ heap_count' \in Nat
      BY <1>3, <1>4, <2>1 DEF HeapBegin
    <2> QED
      BY <1>2, <2>1, <2>2, <2>3 DEF HeapInv
  <1>5. CASE ~(heap_count < limit_k) /\ Worse(heap[0], Candidate)
    <2>1. /\ heap_pos' = 0 /\ heap_count' = heap_count /\ heap_count = limit_k
          /\ state' = "HEAP_DOWN" /\ scored' = scored /\ Candidate' = Candidate
          /\ Distinct(OnItsWay', heap_count)
          /\ BestOf(Entries(OnItsWay', heap_count), heap_count, scored \cup {Candidate}, limit_k)
          /\ OrderDown(OnItsWay', heap_count, 0)
      BY <1>5, BeginReplaces
    <2>2. Cardinality(TopK(scored, limit_k)) = limit_k
      BY <1>1, <2>1, RestingHeap
    <2>3. TopK(scored', limit_k') = TopK(scored, limit_k)
      BY <1>1, <2>1
    <2>4. heap_pos' < heap_count'
      BY <1>1, <2>1 DEF HeapInv, JobLegal, InJob
    <2>5. Updating'
      BY <1>1, <2>1, <2>2, <2>3, <2>4 DEF Updating, Holds
    <2> QED
      BY <1>2, <1>3, <2>1, <2>5 DEF HeapInv
  <1>6. CASE ~(heap_count < limit_k) /\ ~Worse(heap[0], Candidate)
    <2>1. /\ heap_count' = heap_count /\ state' = "SCORE" /\ heap' = heap
          /\ scored' = scored \cup {Candidate}
          /\ BestOf(Entries(heap, heap_count), heap_count, scored \cup {Candidate}, limit_k)
      BY <1>6, BeginRejects
    <2>2. heap_pos' = heap_pos
      BY <1>3, <1>6 DEF HeapBegin
    <2>3. HeapOrder(heap, heap_count) /\ Distinct(heap, heap_count) /\ heap \in [Places -> Entry]
      BY <1>1, AtRestFacts DEF HeapInv, CoreTypeOK
    <2> QED
      BY <1>1, <2>1, <2>2, <2>3, ScoredKeepsHeap
  <1> QED
    BY <1>4, <1>5, <1>6

\* HEAP_UP and HEAP_DOWN: the candidate goes on or is in place.
LEMMA MoveKeepsHeap == HeapInv /\ (HeapUp \/ HeapDown) => HeapInv'
  <1> SUFFICES ASSUME HeapInv, HeapUp \/ HeapDown PROVE HeapInv'
    OBVIOUS
  <1>1. /\ state \in {"HEAP_UP", "HEAP_DOWN"} /\ InScoring
        /\ UNCHANGED <<limit_k, active_index, candidate, heap_count, out_pos, error_code>>
    BY DEF HeapUp, HeapDown, InScoring, loads, active
  <1>2. /\ OnItsWay \in [Places -> Entry] /\ Distinct(OnItsWay, heap_count)
        /\ BestOf(Entries(OnItsWay, heap_count), heap_count, scored \cup {Candidate}, limit_k)
    BY <1>1, UpdatingFacts
  <1>3. ASSUME state' = state, scored' = scored, heap' \in [Places -> Entry], heap_pos' \in Nat
        PROVE  CoreTypeOK' /\ KeysOnce' /\ JobLegal' /\ AtRest'
    <2>1. CoreTypeOK'
      BY <1>1, <1>3 DEF HeapInv, CoreTypeOK
    <2>2. KeysOnce' /\ JobLegal' /\ AtRest'
      BY <1>1, <1>3 DEF HeapInv, KeysOnce, JobLegal, AtRest, InScoring, InJob, HeapAtRest
    <2> QED
      BY <2>1, <2>2
  <1>4. CASE HeapUp /\ CandidateRises
    <2>1. /\ heap_pos' < heap_count /\ heap_pos' \in Nat /\ heap' \in [Places -> Entry]
          /\ Candidate' = Candidate /\ state' = state /\ scored' = scored
          /\ Distinct(OnItsWay', heap_count)
          /\ Entries(OnItsWay', heap_count) = Entries(OnItsWay, heap_count)
          /\ OrderUp(OnItsWay', heap_count, heap_pos')
      BY <1>4, UpStep
    <2>2. state = "HEAP_UP" /\ Entries(OnItsWay, heap_count) = scored \cup {Candidate}
      BY <1>4 DEF HeapUp, HeapInv, Updating
    <2>3. Updating'
      BY <1>1, <1>2, <2>1, <2>2 DEF Updating, Holds
    <2> QED
      BY <1>3, <2>1, <2>3 DEF HeapInv
  <1>5. CASE HeapDown /\ CandidateSinks
    <2>1. /\ heap_pos' < heap_count /\ heap_pos' \in Nat /\ heap' \in [Places -> Entry]
          /\ Candidate' = Candidate /\ state' = state /\ scored' = scored
          /\ Distinct(OnItsWay', heap_count)
          /\ Entries(OnItsWay', heap_count) = Entries(OnItsWay, heap_count)
          /\ OrderDown(OnItsWay', heap_count, heap_pos')
      BY <1>5, DownStep
    <2>2. /\ state = "HEAP_DOWN" /\ heap_count = limit_k
          /\ Cardinality(TopK(scored, limit_k)) = limit_k
      BY <1>5 DEF HeapDown, HeapInv, Updating
    <2>3. TopK(scored', limit_k') = TopK(scored, limit_k)
      BY <1>1, <2>1
    <2>4. Updating'
      BY <1>1, <1>2, <2>1, <2>2, <2>3 DEF Updating, Holds
    <2> QED
      BY <1>3, <2>1, <2>4 DEF HeapInv
  <1>6. ASSUME heap' = OnItsWay, scored' = scored \cup {Candidate}, state' = "SCORE",
               heap_pos' = heap_pos, HeapOrder(OnItsWay, heap_count)
        PROVE  HeapInv'
    BY <1>1, <1>2, <1>6, ScoredKeepsHeap
  <1>7. CASE HeapUp /\ ~CandidateRises
    <2>1. heap_pos' = heap_pos
      BY <1>7 DEF HeapUp
    <2> QED
      BY <1>6, <1>7, <2>1, UpRests
  <1>8. CASE HeapDown /\ ~CandidateSinks
    <2>1. heap_pos' = heap_pos
      BY <1>8 DEF HeapDown
    <2> QED
      BY <1>6, <1>8, <2>1, DownRests
  <1> QED
    BY <1>4, <1>5, <1>7, <1>8

\* A step of the core keeps the invariant.
LEMMA NextHeap == HeapInv /\ [Next]_vars => HeapInv'
  <1> SUFFICES ASSUME HeapInv, [Next]_vars PROVE HeapInv'
    OBVIOUS
  <1>1. CASE UNCHANGED vars
    <2>1. UNCHANGED <<state, limit_k, active_index, candidate, heap, heap_count, heap_pos,
                      out_pos, error_code, scored>>
      BY <1>1 DEF vars, loads, active, tree
    <2>2. CoreTypeOK' /\ KeysOnce' /\ JobLegal'
      BY <2>1 DEF HeapInv, CoreTypeOK, KeysOnce, JobLegal, InScoring, InJob
    <2>3. AtRest' /\ (Updating <=> Updating')
      BY <2>1 DEF HeapInv, AtRest, HeapAtRest, Updating, OnItsWay, Candidate
    <2> QED
      BY <2>2, <2>3 DEF HeapInv
  <1>2. CASE Next
    BY <1>2, StartHeap, ResetHeap, InputsKeepHeap, ScoreKeepsHeap, OutputsKeepHeap,
       BeginKeepsHeap, MoveKeepsHeap DEF Next, Internal
  <1> QED
    BY <1>1, <1>2

\* The heap is a heap, of the best keys, in every state of the core but for the entry
\* an update has on its way (sg_index_core.sv:154-189).
THEOREM HeapInvariant == Spec => []HeapInv
  BY InitHeap, NextHeap, PTL DEF Spec

\* The heap holds exactly the best limit_k of the keys scored, each once, whatever
\* keys came in whatever order, with errors and earlier jobs in between: for every
\* TOPK_MAX, every set of keys and every range of scores.
THEOREM HeapHoldsTopK == Spec => []HeapIsTopK
  <1>1. HeapInv => HeapIsTopK
    <2> SUFFICES ASSUME HeapInv, HeapAtRest
                 PROVE  Stored = TopK(scored, limit_k) /\ Cardinality(Stored) = heap_count
      BY DEF HeapIsTopK
    <2>1. Stored = Entries(heap, heap_count)
      BY DEF Stored, Entries
    <2> QED
      BY <2>1, RestingHeap
  <1> QED
    BY <1>1, HeapInvariant, PTL

-----------------------------------------------------------------------------
(* The core implements SgCore                                                *)

Numbers(T) == {e.index : e \in T}

\* What is shown at the ports, state by state.
Ports(s, limit, key, kept, failed, head) ==
    [state |-> s, limit |-> limit, key |-> key, kept |-> kept, failed |-> failed, head |-> head]

BestNumbers == Numbers(TopK(scored, limit_k))

Fine == FALSE
Failed == TRUE
ErrorShown == IF error_code # 0 THEN Failed ELSE Fine

ShownByState ==
    /\ state = "IDLE" => Shown = Ports("IDLE", 0, 0, {}, Fine, 0)
    /\ state = "DONE" => Shown = Ports("DONE", 0, 0, {}, ErrorShown, 0)
    /\ state = "READY" => Shown = Ports("READY", limit_k, 0, BestNumbers, Fine, 0)
    /\ InScoring => Shown = Ports("BUSY", limit_k, active_index, BestNumbers, Fine, 0)
    /\ state = "SCORE" => Shown = Ports("SCORE", limit_k, 0, BestNumbers, ErrorShown, 0)
    /\ state = "OUTPUTS" =>
           Shown = Ports("OUTPUTS", limit_k, 0,
                         {heap[i].index : i \in out_pos .. heap_count - 1}, Fine,
                         heap[out_pos].index)

\* The ports of each state, before and after a step.
LEMMA ShownIs == ShownByState /\ ShownByState'
  <1>1. ShownByState
    BY DEF ShownByState, Shown, Ports, BestNumbers, Numbers, InScoring, InJob,
           Fine, Failed, ErrorShown
  <1>2. ShownByState'
    BY DEF ShownByState, Shown, Ports, BestNumbers, Numbers, InScoring, InJob,
           Fine, Failed, ErrorShown
  <1> QED
    BY <1>1, <1>2

\* What the steps of SgCore change.
SetState(r, s) == [r EXCEPT !.state = s]
SetEnd(r, s, failed) == [r EXCEPT !.state = s, !.failed = failed]
SetAnswer(r, s, key, failed) == [r EXCEPT !.state = s, !.key = key, !.failed = failed]
SetKept(r, s, key, kept) == [r EXCEPT !.state = s, !.key = key, !.kept = kept]
SetFirst(r, s, head) == [r EXCEPT !.state = s, !.head = head]
SetNext(r, kept, head) == [r EXCEPT !.kept = kept, !.head = head]

\* Each of these changes leaves the other ports as they are.
LEMMA PortsChange ==
    ASSUME NEW s, NEW l, NEW k, NEW kept, NEW f, NEW h
    PROVE  LET ports == Ports(s, l, k, kept, f, h)
           IN  /\ \A s2 : SetState(ports, s2) = Ports(s2, l, k, kept, f, h)
               /\ \A s2, f2 : SetEnd(ports, s2, f2) = Ports(s2, l, k, kept, f2, h)
               /\ \A s2, k2, f2 : SetAnswer(ports, s2, k2, f2) = Ports(s2, l, k2, kept, f2, h)
               /\ \A s2, k2, kept2 :
                      SetKept(ports, s2, k2, kept2) = Ports(s2, l, k2, kept2, f, h)
               /\ \A s2, h2 : SetFirst(ports, s2, h2) = Ports(s2, l, k, kept, f, h2)
               /\ \A kept2, h2 : SetNext(ports, kept2, h2) = Ports(s, l, k, kept2, f, h2)
  <1> SUFFICES ASSUME NEW s2, NEW k2, NEW kept2, NEW f2, NEW h2
               PROVE  LET ports == Ports(s, l, k, kept, f, h)
                      IN  /\ SetState(ports, s2) = Ports(s2, l, k, kept, f, h)
                          /\ SetEnd(ports, s2, f2) = Ports(s2, l, k, kept, f2, h)
                          /\ SetAnswer(ports, s2, k2, f2) = Ports(s2, l, k2, kept, f2, h)
                          /\ SetKept(ports, s2, k2, kept2) = Ports(s2, l, k2, kept2, f, h)
                          /\ SetFirst(ports, s2, h2) = Ports(s2, l, k, kept, f, h2)
                          /\ SetNext(ports, kept2, h2) = Ports(s, l, k, kept2, f, h2)
    BY ZenonT(60)
  <1> DEFINE ports == Ports(s, l, k, kept, f, h)
  <1>1. [ports EXCEPT !.state = s2] = Ports(s2, l, k, kept, f, h)
    BY DEF Ports
  <1>2. [Ports(s2, l, k, kept, f, h) EXCEPT !.key = k2] = Ports(s2, l, k2, kept, f, h)
    BY DEF Ports
  <1>3. [Ports(s2, l, k2, kept, f, h) EXCEPT !.failed = f2] = Ports(s2, l, k2, kept, f2, h)
    BY DEF Ports
  <1>4. [Ports(s2, l, k2, kept, f, h) EXCEPT !.kept = kept2] = Ports(s2, l, k2, kept2, f, h)
    BY DEF Ports
  <1>5. [Ports(s2, l, k, kept, f, h) EXCEPT !.head = h2] = Ports(s2, l, k, kept, f, h2)
    BY DEF Ports
  <1>6. [ports EXCEPT !.kept = kept2] = Ports(s, l, k, kept2, f, h)
    BY DEF Ports
  <1>7. [Ports(s, l, k, kept2, f, h) EXCEPT !.head = h2] = Ports(s, l, k, kept2, f, h2)
    BY DEF Ports
  <1> HIDE DEF ports
  <1>8. SetAnswer(ports, s2, k2, f2) = Ports(s2, l, k2, kept, f2, h)
    BY <1>1, <1>2, <1>3 DEF SetAnswer
  <1>9. SetKept(ports, s2, k2, kept2) = Ports(s2, l, k2, kept2, f, h)
    BY <1>1, <1>2, <1>4 DEF SetKept
  <1>10. SetFirst(ports, s2, h2) = Ports(s2, l, k, kept, f, h2)
    BY <1>1, <1>5 DEF SetFirst
  <1>11. SetNext(ports, kept2, h2) = Ports(s, l, k, kept2, f, h2)
    BY <1>6, <1>7 DEF SetNext
  <1>12. SetState(ports, s2) = Ports(s2, l, k, kept, f, h)
    BY <1>1 DEF SetState
  <1>13. SetEnd(ports, s2, f2) = Ports(s2, l, k, kept, f2, h)
    <2>1. [Ports(s2, l, k, kept, f, h) EXCEPT !.failed = f2] = Ports(s2, l, k, kept, f2, h)
      BY DEF Ports
    <2> QED
      BY <1>1, <2>1 DEF SetEnd
  <1> QED
    BY <1>8, <1>9, <1>10, <1>11, <1>12, <1>13 DEF ports

\* The end of a job without an error.
LEMMA FineEnd == Core!CoreDone(FALSE) = Ports("DONE", 0, 0, {}, Fine, 0)
  <1>1. Core!CoreReset = Ports("IDLE", 0, 0, {}, Fine, 0)
    BY DEF Core!CoreReset, Ports, Fine
  <1>2. SetEnd(Core!CoreReset, "DONE", Fine) = Ports("DONE", 0, 0, {}, Fine, 0)
    BY <1>1, PortsChange
  <1>3. Core!CoreDone(FALSE) = SetEnd(Core!CoreReset, "DONE", Fine)
    BY DEF Core!CoreDone, SetEnd, Fine
  <1> QED
    BY <1>2, <1>3

\* The inputs a step may come with.
LEMMA InputsOffer ==
    /\ \E p \in Inputs : p.reset
    /\ \E p \in Inputs : ~p.reset /\ p.job /\ ~p.job_ok
    /\ \A k \in 1 .. TopkMax : \E p \in Inputs : ~p.reset /\ p.job /\ p.job_ok /\ p.limit = k
    /\ \A key \in Keys : \E p \in Inputs : ~p.reset /\ p.key_valid /\ p.key = key
    /\ \E p \in Inputs : ~p.reset /\ ~p.key_valid /\ p.finish
    /\ \E p \in Inputs : ~p.reset /\ p.score_ready
    /\ \E p \in Inputs : ~p.reset /\ p.result_ready
    /\ \E p \in Inputs : ~p.reset /\ p.done_ready
  <1>1. \E p \in Inputs : p.reset
    <2>1. [NoInput EXCEPT !.reset = TRUE] \in Inputs
      BY DEF Inputs
    <2> QED
      BY <2>1 DEF NoInput
  <1>2. \E p \in Inputs : ~p.reset /\ p.job /\ ~p.job_ok
    <2>1. [NoInput EXCEPT !.job = TRUE] \in Inputs
      BY DEF Inputs
    <2> QED
      BY <2>1 DEF NoInput
  <1>3. ASSUME NEW k \in 1 .. TopkMax
        PROVE  \E p \in Inputs : ~p.reset /\ p.job /\ p.job_ok /\ p.limit = k
    <2>1. [NoInput EXCEPT !.job = TRUE, !.job_ok = TRUE, !.limit = k] \in Inputs
      BY DEF Inputs
    <2> QED
      BY <2>1 DEF NoInput
  <1>4. ASSUME NEW key \in Keys
        PROVE  \E p \in Inputs : ~p.reset /\ p.key_valid /\ p.key = key
    <2>1. [NoInput EXCEPT !.key_valid = TRUE, !.key = key] \in Inputs
      BY DEF Inputs
    <2> QED
      BY <2>1 DEF NoInput
  <1>5. \E p \in Inputs : ~p.reset /\ ~p.key_valid /\ p.finish
    <2>1. [NoInput EXCEPT !.finish = TRUE] \in Inputs
      BY DEF Inputs
    <2> QED
      BY <2>1 DEF NoInput
  <1>6. \E p \in Inputs : ~p.reset /\ p.score_ready
    <2>1. [NoInput EXCEPT !.score_ready = TRUE] \in Inputs
      BY DEF Inputs
    <2> QED
      BY <2>1 DEF NoInput
  <1>7. \E p \in Inputs : ~p.reset /\ p.result_ready
    <2>1. [NoInput EXCEPT !.result_ready = TRUE] \in Inputs
      BY DEF Inputs
    <2> QED
      BY <2>1 DEF NoInput
  <1>8. \E p \in Inputs : ~p.reset /\ p.done_ready
    <2>1. [NoInput EXCEPT !.done_ready = TRUE] \in Inputs
      BY DEF Inputs
    <2> QED
      BY <2>1 DEF NoInput
  <1> QED
    BY <1>1, <1>2, <1>3, <1>4, <1>5, <1>6, <1>7, <1>8

\* Entries with different numbers are as many as their numbers.
LEMMA NumbersCount ==
    ASSUME NEW T, IsFiniteSet(T), \A e, f \in T : e.index = f.index => e = f
    PROVE  IsFiniteSet(Numbers(T)) /\ Cardinality(Numbers(T)) = Cardinality(T)
  <1> DEFINE g == [e \in T |-> e.index]
  <1>1. g \in Bijection(T, Numbers(T))
    <2>1. g \in [T -> Numbers(T)]
      BY DEF Numbers
    <2>2. IsInjective(g)
      BY DEF IsInjective
    <2>3. \A t \in Numbers(T) : \E e \in T : g[e] = t
      BY DEF Numbers
    <2> HIDE DEF g
    <2> QED
      BY <2>1, <2>2, <2>3, Zenon DEF Bijection, Injection, Surjection
  <1>2. ExistsBijection(T, Numbers(T))
    BY <1>1 DEF ExistsBijection
  <1> QED
    BY <1>2, FS_Bijection

\* A key more, and the best k are those of before and the key, without one of them.
LEMMA KeepsOne ==
    ASSUME NEW S \in SUBSET Entry, IsFiniteSet(S), NEW c \in Entry, c \notin S, NEW k \in Nat,
           Cardinality(TopK(S, k)) = k, Cardinality(TopK(S \cup {c}, k)) = k
    PROVE  \E w \in TopK(S, k) \cup {c} :
               TopK(S \cup {c}, k) = (TopK(S, k) \cup {c}) \ {w}
  <1> DEFINE T == TopK(S, k)
             U == TopK(S \cup {c}, k)
             B == T \cup {c}
  <1>1. T \subseteq S /\ U \subseteq S \cup {c}
    BY DEF TopK
  <1>2. IsFiniteSet(S \cup {c})
    BY FS_AddElement
  <1>3. ASSUME NEW e \in U, e # c PROVE e \in T
    <2> DEFINE F == {f \in S : Beats(f, e)}
               G == {f \in S \cup {c} : Beats(f, e)}
    <2>1. e \in S /\ Cardinality(G) < k
      BY <1>1, <1>3 DEF TopK
    <2>2. IsFiniteSet(G) /\ G \subseteq S \cup {c}
      BY <1>2, FS_Subset
    <2>3. F \subseteq G
      OBVIOUS
    <2>4. IsFiniteSet(F) /\ Cardinality(F) <= Cardinality(G)
      BY <2>2, <2>3, FS_Subset
    <2>5. Cardinality(F) \in Nat /\ Cardinality(G) \in Nat
      BY <2>2, <2>4, FS_CardinalityType
    <2> HIDE DEF F, G
    <2>6. Cardinality(F) < k
      BY <2>1, <2>4, <2>5
    <2> USE DEF F
    <2> QED
      BY <2>1, <2>6 DEF TopK
  <1> HIDE DEF T, U
  <1>4. U \subseteq B
    BY <1>3
  <1>5. IsFiniteSet(T) /\ IsFiniteSet(B) /\ Cardinality(T) = k /\ Cardinality(B) = k + 1
    <2>1. IsFiniteSet(T) /\ Cardinality(T) = k /\ c \notin T
      BY <1>1, FS_Subset DEF T
    <2> QED
      BY <2>1, FS_AddElement
  <1>6. IsFiniteSet(U) /\ Cardinality(U) = k
    BY <1>4, <1>5, FS_Subset DEF U
  <1>7. PICK w \in B : w \notin U
    <2>1. U # B
      BY <1>5, <1>6
    <2> QED
      BY <1>4, <2>1
  <1>8. U = B \ {w}
    <2>1. U \subseteq B \ {w}
      BY <1>4, <1>7
    <2> HIDE DEF B
    <2>2. IsFiniteSet(B \ {w}) /\ Cardinality(B \ {w}) = k
      <3>1. /\ IsFiniteSet(B \ {w})
            /\ Cardinality(B \ {w}) = IF w \in B THEN Cardinality(B) - 1 ELSE Cardinality(B)
        BY <1>5, FS_RemoveElement, Zenon
      <3>2. w \in B
        BY <1>7
      <3> QED
        BY <1>5, <3>1, <3>2
    <2> QED
      BY <1>6, <2>1, <2>2, FS_Subset
  <1> QED
    BY <1>7, <1>8 DEF T, U

\* The key that was scored enters the kept numbers, or replaces one, or stays outside.
LEMMA NumbersKept ==
    ASSUME NEW S \in SUBSET Entry, IsFiniteSet(S), NEW c \in Entry, c \notin S, NEW k \in Nat,
           \A e, f \in S \cup {c} : e.index = f.index => e = f,
           Cardinality(TopK(S, k)) = k, Cardinality(TopK(S \cup {c}, k)) = k
    PROVE  /\ Cardinality(Numbers(TopK(S, k))) = k
           /\ \E worst \in Numbers(TopK(S, k)) \cup {c.index} :
                  Numbers(TopK(S \cup {c}, k))
                      = (Numbers(TopK(S, k)) \cup {c.index}) \ {worst}
  <1>1. TopK(S, k) \subseteq S
    BY DEF TopK
  <1>2. Cardinality(Numbers(TopK(S, k))) = k
    <2>1. IsFiniteSet(TopK(S, k))
      BY <1>1, FS_Subset
    <2> QED
      BY <1>1, <2>1, NumbersCount
  <1>3. PICK w \in TopK(S, k) \cup {c} :
            TopK(S \cup {c}, k) = (TopK(S, k) \cup {c}) \ {w}
    BY KeepsOne
  <1>4. w.index \in Numbers(TopK(S, k)) \cup {c.index}
    BY DEF Numbers
  <1>5. Numbers(TopK(S \cup {c}, k)) = (Numbers(TopK(S, k)) \cup {c.index}) \ {w.index}
    <2> DEFINE T == TopK(S, k)
    <2>1. T \subseteq S
      BY <1>1
    <2> HIDE DEF T
    <2>2. Numbers((T \cup {c}) \ {w}) = (Numbers(T) \cup {c.index}) \ {w.index}
      <3>1. w \in S \cup {c}
        BY <1>1
      <3>2. \A e \in T \cup {c} : e # w => e.index # w.index
        BY <2>1, <3>1
      <3> QED
        BY <3>2 DEF Numbers
    <2> QED
      BY <1>3, <2>2 DEF T
  <1> QED
    BY <1>2, <1>4, <1>5

\* All keys are kept while there are no more than k.
LEMMA AllKept ==
    ASSUME NEW S \in SUBSET Entry, IsFiniteSet(S), NEW k \in Nat, Cardinality(S) <= k
    PROVE  TopK(S, k) = S
  <1>1. Cardinality(S) \in Nat
    BY FS_CardinalityType
  <1>2. BestOf(S, Cardinality(S), S, k)
    BY DEF BestOf
  <1> QED
    BY <1>1, <1>2, BestIsTopK

\* The core out of reset is SgCore out of reset.
LEMMA InitIsCoreInit == Init => Core!CoreInit
  <1> SUFFICES ASSUME Init PROVE Core!CoreInit
    OBVIOUS
  <1>1. state = "IDLE"
    BY DEF Init
  <1>2. Shown = Ports("IDLE", 0, 0, {}, Fine, 0)
    BY <1>1, ShownIs DEF ShownByState
  <1> QED
    BY <1>2 DEF Core!CoreInit, Core!CoreReset, Ports, Fine, Failed

StepsAsCore == \E p \in Inputs : Core!CoreStep(p)

\* A job starts, well or badly formed.
LEMMA StartIsCoreStep == StartJob => StepsAsCore
  <1> SUFFICES ASSUME StartJob PROVE StepsAsCore
    OBVIOUS
  <1>1. /\ state = "IDLE" /\ state' \in {"DONE", "READY"}
        /\ state' = "READY" => limit_k' \in 1 .. TopkMax
        /\ state' = "DONE" => error_code' # 0
        /\ scored' = {}
    BY DEF StartJob
  <1>2. Shown = Ports("IDLE", 0, 0, {}, Fine, 0)
    BY <1>1, ShownIs DEF ShownByState
  <1>3. CASE state' = "DONE"
    <2>1. Shown' = Ports("DONE", 0, 0, {}, Failed, 0)
      <3>1. Shown' = Ports("DONE", 0, 0, {}, ErrorShown', 0)
        BY <1>3, ShownIs DEF ShownByState
      <3>2. ErrorShown' = Failed
        BY <1>1, <1>3 DEF ErrorShown
      <3> QED
        BY <3>1, <3>2
    <2>2. PICK p \in Inputs : ~p.reset /\ p.job /\ ~p.job_ok
      BY InputsOffer
    <2>3. Core!CoreTakesJob(p)
      BY <1>2, <2>1, <2>2 DEF Core!CoreTakesJob, Core!CoreDone, Core!CoreReset, Ports, Fine, Failed
    <2> QED
      BY <2>2, <2>3 DEF StepsAsCore, Core!CoreStep
  <1>4. CASE state' = "READY"
    <2>1. Shown' = Ports("READY", limit_k', 0, {}, Fine, 0)
      <3>1. Shown' = Ports("READY", limit_k', 0, BestNumbers', Fine, 0)
        BY <1>4, ShownIs DEF ShownByState
      <3>2. BestNumbers' = {}
        BY <1>1 DEF BestNumbers, Numbers, TopK
      <3> QED
        BY <3>1, <3>2
    <2>2. PICK p \in Inputs : ~p.reset /\ p.job /\ p.job_ok /\ p.limit = limit_k'
      BY <1>1, <1>4, InputsOffer
    <2>3. Core!CoreTakesJob(p)
      BY <1>2, <2>1, <2>2 DEF Core!CoreTakesJob, Core!CoreReset, Ports, Fine, Failed
    <2> QED
      BY <2>2, <2>3 DEF StepsAsCore, Core!CoreStep
  <1> QED
    BY <1>1, <1>3, <1>4

\* A reset shows the core as it begins.
LEMMA ResetIsCoreStep == Reset => StepsAsCore
  <1> SUFFICES ASSUME Reset PROVE StepsAsCore
    OBVIOUS
  <1>1. state' = "IDLE"
    BY DEF Reset
  <1>2. Shown' = Ports("IDLE", 0, 0, {}, Fine, 0)
    BY <1>1, ShownIs DEF ShownByState
  <1>3. PICK p \in Inputs : p.reset
    BY InputsOffer
  <1> QED
    BY <1>2, <1>3 DEF StepsAsCore, Core!CoreStep, Core!CoreReset, Ports, Fine, Failed

\* Records arrive unseen.
LEMMA LoadIsStutter == LoadQ \/ LoadK => UNCHANGED Shown
  <1> SUFFICES ASSUME LoadQ \/ LoadK PROVE Shown' = Shown
    OBVIOUS
  <1>1. state = "READY" /\ state' = "READY" /\ scored' = scored /\ limit_k' = limit_k
    BY DEF LoadQ, LoadK
  <1>2. BestNumbers' = BestNumbers
    BY <1>1 DEF BestNumbers
  <1> QED
    BY <1>1, <1>2, ShownIs DEF ShownByState

\* A key is accepted, or refused at once.
LEMMA AcceptIsCoreStep == AcceptKey => StepsAsCore
  <1> SUFFICES ASSUME AcceptKey PROVE StepsAsCore
    OBVIOUS
  <1>1. /\ state = "READY" /\ state' \in {"SCORE", "SCORING"} /\ active_index' \in Keys
        /\ state' = "SCORE" => error_code' # 0
        /\ scored' = scored /\ limit_k' = limit_k
    BY DEF AcceptKey
  <1>2. BestNumbers' = BestNumbers
    BY <1>1 DEF BestNumbers
  <1>3. Shown = Ports("READY", limit_k, 0, BestNumbers, Fine, 0)
    BY <1>1, ShownIs DEF ShownByState
  <1>4. PICK p \in Inputs : ~p.reset /\ p.key_valid /\ p.key = active_index'
    BY <1>1, InputsOffer
  <1>5. CASE state' = "SCORE"
    <2>1. Shown' = Ports("SCORE", limit_k, 0, BestNumbers, Failed, 0)
      <3>1. Shown' = Ports("SCORE", limit_k, 0, BestNumbers, ErrorShown', 0)
        BY <1>1, <1>2, <1>5, ShownIs DEF ShownByState
      <3>2. ErrorShown' = Failed
        BY <1>1, <1>5 DEF ErrorShown
      <3> QED
        BY <3>1, <3>2
    <2>2. Shown' = SetAnswer(Shown, "SCORE", 0, Failed)
      BY <1>3, <2>1, PortsChange
    <2>3. Shown.state = "READY"
      BY <1>3 DEF Ports
    <2>4. Core!CoreAccepts(p)
      BY <1>4, <2>2, <2>3 DEF Core!CoreAccepts, SetAnswer, Fine, Failed
    <2> QED
      BY <1>4, <2>4 DEF StepsAsCore, Core!CoreStep
  <1>6. CASE state' = "SCORING"
    <2>1. Shown' = Ports("BUSY", limit_k, active_index', BestNumbers, Fine, 0)
      BY <1>1, <1>2, <1>6, ShownIs DEF ShownByState, InScoring
    <2>2. Shown' = SetAnswer(Shown, "BUSY", p.key, Fine)
      BY <1>3, <1>4, <2>1, PortsChange
    <2>3. Shown.state = "READY"
      BY <1>3 DEF Ports
    <2>4. Core!CoreAccepts(p)
      BY <1>4, <2>2, <2>3 DEF Core!CoreAccepts, SetAnswer, Fine, Failed
    <2> QED
      BY <1>4, <2>4 DEF StepsAsCore, Core!CoreStep
  <1> QED
    BY <1>1, <1>5, <1>6

\* Scoring goes on unseen, or fails.
LEMMA ScoreIsCoreStep == Score => StepsAsCore \/ UNCHANGED Shown
  <1> SUFFICES ASSUME Score PROVE StepsAsCore \/ Shown' = Shown
    OBVIOUS
  <1>1. /\ state = "SCORING" /\ state' \in {"SCORE", "HEAP_BEGIN"}
        /\ state' = "SCORE" => error_code' # 0
        /\ scored' = scored /\ limit_k' = limit_k /\ active_index' = active_index
    BY DEF Score, loads
  <1>2. BestNumbers' = BestNumbers
    BY <1>1 DEF BestNumbers
  <1>3. Shown = Ports("BUSY", limit_k, active_index, BestNumbers, Fine, 0)
    BY <1>1, ShownIs DEF ShownByState, InScoring
  <1>4. CASE state' = "HEAP_BEGIN"
    BY <1>1, <1>2, <1>3, <1>4, ShownIs DEF ShownByState, InScoring
  <1>5. CASE state' = "SCORE"
    <2>1. Shown' = Ports("SCORE", limit_k, 0, BestNumbers, Failed, 0)
      <3>1. Shown' = Ports("SCORE", limit_k, 0, BestNumbers, ErrorShown', 0)
        BY <1>1, <1>2, <1>5, ShownIs DEF ShownByState
      <3>2. ErrorShown' = Failed
        BY <1>1, <1>5 DEF ErrorShown
      <3> QED
        BY <3>1, <3>2
    <2>2. PICK p \in Inputs : ~p.reset
      BY InputsOffer
    <2>3. Shown' = SetAnswer(Shown, "SCORE", 0, Failed)
      BY <1>3, <2>1, PortsChange
    <2>4. Shown.state = "BUSY"
      BY <1>3 DEF Ports
    <2>5. Core!CoreScores
      BY <2>3, <2>4 DEF Core!CoreScores, SetAnswer, Failed
    <2> QED
      BY <2>2, <2>5 DEF StepsAsCore, Core!CoreStep
  <1> QED
    BY <1>1, <1>4, <1>5

\* SgCore counts as this module does.
LEMMA SameCardinality ==
    ASSUME NEW T
    PROVE  Core!Cardinality(T) = Cardinality(T)
  BY DEF Core!Cardinality, Cardinality

\* A key is scored and the heap updated: one key more is kept, or one is replaced, or
\* the same keys are.
LEMMA ScoredIsCoreStep ==
    ASSUME HeapInv, InScoring, state' = "SCORE", scored' = scored \cup {Candidate},
           UNCHANGED <<limit_k, error_code>>,
           \/ Cardinality(scored) < limit_k
           \/ /\ Cardinality(TopK(scored, limit_k)) = limit_k
              /\ Cardinality(TopK(scored \cup {Candidate}, limit_k)) = limit_k
    PROVE  StepsAsCore
  <1> DEFINE S == scored
             c == Candidate
             k == limit_k
             both == BestNumbers \cup {active_index}
  <1>1. /\ S \in SUBSET Entry /\ IsFiniteSet(S) /\ Cardinality(S) \in Nat
        /\ c \in Entry /\ c \notin S /\ c.index = active_index /\ k \in Nat
        /\ error_code = 0
    BY CandidateIsNew, FS_CardinalityType
       DEF HeapInv, CoreTypeOK, JobLegal, InJob, InScoring
  <1>2. \A e, f \in S \cup {c} : e.index = f.index => e = f
    BY <1>1 DEF HeapInv, KeysOnce
  <1>3. BestNumbers' = Numbers(TopK(S \cup {c}, k))
    BY DEF BestNumbers
  <1>4. /\ Shown = Ports("BUSY", limit_k, active_index, BestNumbers, Fine, 0)
        /\ Shown' = Ports("SCORE", limit_k, 0, BestNumbers', Fine, 0)
    <2>1. ErrorShown' = Fine
      BY <1>1 DEF ErrorShown
    <2> QED
      BY <2>1, ShownIs DEF ShownByState
  <1>5. \/ Cardinality(BestNumbers) < k /\ BestNumbers' = both
        \/ /\ ~(Cardinality(BestNumbers) < k)
           /\ \E worst \in both : BestNumbers' = both \ {worst}
    <2>1. CASE Cardinality(S) < k
      <3>1. IsFiniteSet(S \cup {c}) /\ Cardinality(S \cup {c}) = Cardinality(S) + 1
        BY <1>1, FS_AddElement
      <3>2. S \cup {c} \in SUBSET Entry /\ Cardinality(S) <= k /\ Cardinality(S \cup {c}) <= k
        BY <1>1, <2>1, <3>1
      <3>3. TopK(S, k) = S
        BY <1>1, <3>2, AllKept
      <3>4. TopK(S \cup {c}, k) = S \cup {c}
        BY <1>1, <3>1, <3>2, AllKept
      <3>5. Cardinality(Numbers(S)) = Cardinality(S)
        BY <1>1, <1>2, NumbersCount
      <3>6. Numbers(S \cup {c}) = Numbers(S) \cup {active_index}
        BY <1>1 DEF Numbers
      <3> QED
        BY <1>3, <2>1, <3>3, <3>4, <3>5, <3>6 DEF BestNumbers
    <2>2. CASE Cardinality(TopK(S, k)) = k /\ Cardinality(TopK(S \cup {c}, k)) = k
      <3> HIDE DEF S, c, k
      <3>1. /\ Cardinality(Numbers(TopK(S, k))) = k
            /\ \E worst \in Numbers(TopK(S, k)) \cup {c.index} :
                   Numbers(TopK(S \cup {c}, k))
                       = (Numbers(TopK(S, k)) \cup {c.index}) \ {worst}
        <4>1. /\ S \in SUBSET Entry /\ IsFiniteSet(S) /\ c \in Entry /\ c \notin S
              /\ k \in Nat /\ \A e, f \in S \cup {c} : e.index = f.index => e = f
          BY <1>1, <1>2
        <4> QED
          BY <2>2, <4>1, NumbersKept, SMTT(30)
      <3>2. BestNumbers = Numbers(TopK(S, k))
        BY DEF BestNumbers, S, k
      <3>3. ~(Cardinality(BestNumbers) < k)
        BY <1>1, <3>1, <3>2
      <3> QED
        BY <1>1, <1>3, <3>1, <3>2, <3>3
    <2> QED
      BY <2>1, <2>2
  <1>6. /\ Shown.state = "BUSY" /\ Shown.limit = k /\ Shown.key = active_index
        /\ Shown.kept = BestNumbers
    BY <1>4 DEF Ports
  <1>7. BestNumbers' \in Core!CoreKeeps
    <2>1. Core!CoreKeeps
              = IF Cardinality(Shown.kept) < Shown.limit
                THEN {Shown.kept \cup {Shown.key}}
                ELSE {(Shown.kept \cup {Shown.key}) \ {worst} :
                          worst \in Shown.kept \cup {Shown.key}}
      BY SameCardinality, Zenon DEF Core!CoreKeeps
    <2>2. Shown.kept \cup {Shown.key} = both
      BY <1>6
    <2>3. Cardinality(Shown.kept) < Shown.limit <=> Cardinality(BestNumbers) < k
      BY <1>6
    <2> HIDE DEF both, k
    <2> QED
      BY <1>5, <2>1, <2>2, <2>3
  <1>8. Shown' = SetKept(Shown, "SCORE", 0, BestNumbers')
    BY <1>4, PortsChange
  <1>9. Core!CoreScores
    BY <1>6, <1>7, <1>8 DEF Core!CoreScores, SetKept
  <1>10. PICK p \in Inputs : ~p.reset
    BY InputsOffer
  <1> QED
    BY <1>9, <1>10 DEF StepsAsCore, Core!CoreStep

\* An update is seen only when it is complete.
LEMMA UpdateIsCoreStep ==
    HeapInv /\ (HeapBegin \/ HeapUp \/ HeapDown) => StepsAsCore \/ UNCHANGED Shown
  <1> SUFFICES ASSUME HeapInv, HeapBegin \/ HeapUp \/ HeapDown
               PROVE  StepsAsCore \/ Shown' = Shown
    OBVIOUS
  <1>1. InScoring /\ UNCHANGED <<limit_k, active_index, error_code>>
    BY DEF HeapBegin, HeapUp, HeapDown, InScoring, loads, active
  <1>2. ASSUME InScoring', scored' = scored PROVE Shown' = Shown
    <2>1. BestNumbers' = BestNumbers
      BY <1>1, <1>2 DEF BestNumbers
    <2> QED
      BY <1>1, <1>2, <2>1, ShownIs DEF ShownByState
  <1>3. /\ scored \in SUBSET Entry /\ IsFiniteSet(scored) /\ Cardinality(scored) \in Nat
        /\ heap_count \in Nat /\ limit_k \in Nat
        /\ Candidate \in Entry /\ Candidate \notin scored
        /\ scored \cup {Candidate} \in SUBSET Entry /\ IsFiniteSet(scored \cup {Candidate})
    BY <1>1, CandidateIsNew, FS_CardinalityType, FS_AddElement DEF HeapInv, CoreTypeOK
  <1>4. CASE HeapBegin
    <2>0. state = "HEAP_BEGIN" /\ HeapAtRest
      BY <1>4 DEF HeapBegin, HeapAtRest
    <2>1. CASE heap_count < limit_k
      BY <1>2, <1>4, <2>1, BeginGrows DEF InScoring
    <2>2. CASE ~(heap_count < limit_k) /\ Worse(heap[0], Candidate)
      BY <1>2, <1>4, <2>2, BeginReplaces DEF InScoring
    <2>3. CASE ~(heap_count < limit_k) /\ ~Worse(heap[0], Candidate)
      <3>1. /\ heap_count = limit_k /\ state' = "SCORE"
            /\ scored' = scored \cup {Candidate}
            /\ BestOf(Entries(heap, heap_count), heap_count, scored \cup {Candidate}, limit_k)
        BY <1>4, <2>3, BeginRejects
      <3>2. /\ Cardinality(TopK(scored, limit_k)) = limit_k
            /\ Cardinality(Entries(heap, heap_count)) = heap_count
        BY <2>0, <3>1, RestingHeap
      <3>3. Entries(heap, heap_count) = TopK(scored \cup {Candidate}, limit_k)
        BY <1>3, <3>1, <3>2, BestIsTopK
      <3> QED
        BY <1>1, <3>1, <3>2, <3>3, ScoredIsCoreStep
    <2> QED
      BY <2>1, <2>2, <2>3
  <1>5. ASSUME state \in {"HEAP_UP", "HEAP_DOWN"}
        PROVE  /\ Cardinality(Entries(OnItsWay, heap_count)) = heap_count
               /\ Entries(OnItsWay, heap_count) = TopK(scored \cup {Candidate}, limit_k)
               /\ heap_count <= limit_k
    <2>1. /\ Distinct(OnItsWay, heap_count)
          /\ BestOf(Entries(OnItsWay, heap_count), heap_count,
                    scored \cup {Candidate}, limit_k)
      BY <1>5, UpdatingFacts
    <2>2. Cardinality(Entries(OnItsWay, heap_count)) = heap_count
      BY <1>3, <2>1, EntriesCount
    <2>3. Entries(OnItsWay, heap_count) = TopK(scored \cup {Candidate}, limit_k)
      BY <1>3, <2>1, <2>2, BestIsTopK
    <2>4. heap_count <= limit_k
      BY <2>1 DEF BestOf
    <2> QED
      BY <2>2, <2>3, <2>4
  <1>6. CASE HeapUp
    <2>1. state = "HEAP_UP" /\ Entries(OnItsWay, heap_count) = scored \cup {Candidate}
      BY <1>6 DEF HeapUp, HeapInv, Updating
    <2>2. CASE CandidateRises
      BY <1>2, <1>6, <2>1, <2>2, UpStep DEF InScoring
    <2>3. CASE ~CandidateRises
      <3>1. state' = "SCORE" /\ scored' = scored \cup {Candidate}
        BY <1>6, <2>3, UpRests
      <3>2. Cardinality(scored \cup {Candidate}) = Cardinality(scored) + 1
        BY <1>3, FS_AddElement
      <3>3. Cardinality(scored) < limit_k
        BY <1>3, <1>5, <2>1, <3>2
      <3> QED
        BY <1>1, <3>1, <3>3, ScoredIsCoreStep
    <2> QED
      BY <2>2, <2>3
  <1>7. CASE HeapDown
    <2>1. /\ state = "HEAP_DOWN" /\ heap_count = limit_k
          /\ Cardinality(TopK(scored, limit_k)) = limit_k
      BY <1>7 DEF HeapDown, HeapInv, Updating
    <2>2. CASE CandidateSinks
      BY <1>2, <1>7, <2>1, <2>2, DownStep DEF InScoring
    <2>3. CASE ~CandidateSinks
      <3>1. state' = "SCORE" /\ scored' = scored \cup {Candidate}
        BY <1>7, <2>3, DownRests
      <3>2. Cardinality(TopK(scored \cup {Candidate}, limit_k)) = limit_k
        BY <1>5, <2>1
      <3> QED
        BY <1>1, <2>1, <3>1, <3>2, ScoredIsCoreStep
    <2> QED
      BY <2>2, <2>3
  <1> QED
    BY <1>4, <1>6, <1>7

\* An answer is taken: an error ends the job.
LEMMA AnswerIsCoreStep == HeapInv /\ TakeScore => StepsAsCore
  <1> SUFFICES ASSUME HeapInv, TakeScore PROVE StepsAsCore
    OBVIOUS
  <1>1. /\ state = "SCORE" /\ state' = IF error_code # 0 THEN "DONE" ELSE "READY"
        /\ scored' = scored /\ limit_k' = limit_k /\ error_code' = error_code
    BY DEF TakeScore, loads
  <1>2. BestNumbers' = BestNumbers
    BY <1>1 DEF BestNumbers
  <1>3. Shown = Ports("SCORE", limit_k, 0, BestNumbers, ErrorShown, 0)
    BY <1>1, ShownIs DEF ShownByState
  <1>4. PICK p \in Inputs : ~p.reset /\ p.score_ready
    BY InputsOffer
  <1>5. CASE error_code # 0
    <2>1. /\ Shown = Ports("SCORE", limit_k, 0, BestNumbers, Failed, 0)
          /\ Shown' = Ports("DONE", 0, 0, {}, Failed, 0)
      <3>1. ErrorShown = Failed /\ ErrorShown' = Failed
        BY <1>1, <1>5 DEF ErrorShown
      <3> QED
        BY <1>1, <1>3, <1>5, <3>1, ShownIs DEF ShownByState
    <2>2. Core!CoreAnswers(p)
      BY <1>4, <2>1 DEF Core!CoreAnswers, Core!CoreDone, Core!CoreReset, Ports, Failed
    <2> QED
      BY <1>4, <2>2 DEF StepsAsCore, Core!CoreStep
  <1>6. CASE error_code = 0
    <2>1. /\ Shown = Ports("SCORE", limit_k, 0, BestNumbers, Fine, 0)
          /\ Shown' = Ports("READY", limit_k, 0, BestNumbers, Fine, 0)
      <3>1. ErrorShown = Fine
        BY <1>6 DEF ErrorShown
      <3> QED
        BY <1>1, <1>2, <1>3, <1>6, <3>1, ShownIs DEF ShownByState
    <2>2. Shown' = SetState(Shown, "READY")
      BY <2>1, PortsChange
    <2>3. Shown.state = "SCORE" /\ ~Shown.failed
      BY <2>1 DEF Ports, Fine
    <2>4. Core!CoreAnswers(p)
      BY <1>4, <2>2, <2>3 DEF Core!CoreAnswers, SetState
    <2> QED
      BY <1>4, <2>4 DEF StepsAsCore, Core!CoreStep
  <1> QED
    BY <1>5, <1>6

\* The numbers in the places from first on.
NumbersFrom(first) == {heap[i].index : i \in first .. heap_count - 1}

\* No two places of a heap at rest hold the same number.
LEMMA NumbersDiffer ==
    ASSUME HeapInv, HeapAtRest, NEW i \in 0 .. heap_count - 1, NEW j \in 0 .. heap_count - 1,
           heap[i].index = heap[j].index
    PROVE  i = j
  <1>1. /\ Distinct(heap, heap_count)
        /\ Entries(heap, heap_count) \subseteq scored
    BY AtRestFacts DEF BestOf
  <1>2. heap[i] \in scored /\ heap[j] \in scored
    BY <1>1 DEF Entries
  <1>3. heap[i] = heap[j]
    BY <1>2 DEF HeapInv, KeysOnce
  <1> QED
    BY <1>1, <1>3 DEF Distinct

\* The kept keys begin to come out, or there are none.
LEMMA FinishIsCoreStep == HeapInv /\ Finish => StepsAsCore
  <1> SUFFICES ASSUME HeapInv, Finish PROVE StepsAsCore
    OBVIOUS
  <1>1. /\ state = "READY" /\ state' = IF heap_count = 0 THEN "DONE" ELSE "OUTPUTS"
        /\ out_pos' = 0 /\ heap_count' = heap_count /\ heap' = heap
        /\ limit_k' = limit_k /\ error_code' = error_code
        /\ HeapAtRest /\ error_code = 0
    BY DEF Finish, loads, tree, HeapAtRest, HeapInv, JobLegal, InJob
  <1>2. Shown = Ports("READY", limit_k, 0, BestNumbers, Fine, 0)
    BY <1>1, ShownIs DEF ShownByState
  <1>3. BestNumbers = NumbersFrom(0)
    <2>1. Entries(heap, heap_count) = TopK(scored, limit_k)
      BY <1>1, RestingHeap
    <2> QED
      BY <2>1 DEF BestNumbers, Numbers, NumbersFrom, Entries
  <1>4. PICK p \in Inputs : ~p.reset /\ ~p.key_valid /\ p.finish
    BY InputsOffer
  <1>5. heap_count \in Nat
    BY DEF HeapInv, CoreTypeOK
  <1>6. CASE heap_count = 0
    <2>1. BestNumbers = {}
      BY <1>3, <1>6 DEF NumbersFrom
    <2>2. Shown' = Ports("DONE", 0, 0, {}, Fine, 0)
      <3>1. ErrorShown' = Fine
        BY <1>1 DEF ErrorShown
      <3> QED
        BY <1>1, <1>6, <3>1, ShownIs DEF ShownByState
    <2>3. Shown.state = "READY" /\ Shown.kept = {}
      BY <1>2, <2>1 DEF Ports
    <2>4. Shown' = Core!CoreDone(FALSE)
      BY <2>2, FineEnd
    <2>5. Core!CoreFinishes(p)
      BY <1>4, <2>3, <2>4 DEF Core!CoreFinishes
    <2> QED
      BY <1>4, <2>5 DEF StepsAsCore, Core!CoreStep
  <1>7. CASE heap_count # 0
    <2>1. Shown' = Ports("OUTPUTS", limit_k, 0, BestNumbers, Fine, heap[0].index)
      BY <1>1, <1>3, <1>7, ShownIs DEF ShownByState, NumbersFrom
    <2>2. heap[0].index \in BestNumbers
      <3>1. 0 \in 0 .. heap_count - 1
        BY <1>5, <1>7
      <3> QED
        BY <1>3, <3>1 DEF NumbersFrom
    <2>3. Shown' = SetFirst(Shown, "OUTPUTS", heap[0].index)
      BY <1>2, <2>1, PortsChange
    <2>4. Shown.state = "READY" /\ Shown.kept = BestNumbers
      BY <1>2 DEF Ports
    <2>5. Core!CoreFinishes(p)
      BY <1>4, <2>2, <2>3, <2>4 DEF Core!CoreFinishes, SetFirst
    <2> QED
      BY <1>4, <2>5 DEF StepsAsCore, Core!CoreStep
  <1> QED
    BY <1>6, <1>7

\* The kept keys come out one by one.
LEMMA ResultIsCoreStep == HeapInv /\ TakeResult => StepsAsCore
  <1> SUFFICES ASSUME HeapInv, TakeResult PROVE StepsAsCore
    OBVIOUS
  <1>1. /\ state = "OUTPUTS" /\ HeapAtRest /\ error_code = 0
        /\ out_pos \in Nat /\ heap_count \in Nat /\ out_pos < heap_count
        /\ heap_count' = heap_count /\ heap' = heap
        /\ limit_k' = limit_k /\ error_code' = error_code
    BY DEF TakeResult, loads, tree, HeapAtRest, HeapInv, CoreTypeOK, JobLegal, InJob
  <1> DEFINE head == heap[out_pos].index
  <1>2. Shown = Ports("OUTPUTS", limit_k, 0, NumbersFrom(out_pos), Fine, head)
    BY <1>1, ShownIs DEF ShownByState, NumbersFrom
  <1>3. PICK p \in Inputs : ~p.reset /\ p.result_ready
    BY InputsOffer
  <1>4. Shown.state = "OUTPUTS" /\ Shown.kept = NumbersFrom(out_pos) /\ Shown.head = head
    BY <1>2 DEF Ports
  <1>5. CASE out_pos + 1 = heap_count
    <2>1. NumbersFrom(out_pos) = {head}
      <3>1. out_pos .. heap_count - 1 = {out_pos}
        BY <1>1, <1>5
      <3> QED
        BY <3>1 DEF NumbersFrom
    <2>2. Shown' = Ports("DONE", 0, 0, {}, Fine, 0)
      <3>1. ErrorShown' = Fine /\ state' = "DONE"
        BY <1>1, <1>5 DEF ErrorShown, TakeResult
      <3> QED
        BY <3>1, ShownIs DEF ShownByState
    <2>3. Shown' = Core!CoreDone(FALSE)
      BY <2>2, FineEnd
    <2>4. Core!CoreOutputs(p)
      BY <1>3, <1>4, <2>1, <2>3 DEF Core!CoreOutputs
    <2> QED
      BY <1>3, <2>4 DEF StepsAsCore, Core!CoreStep
  <1>6. CASE out_pos + 1 # heap_count
    <2> DEFINE next == heap[out_pos + 1].index
               rest == NumbersFrom(out_pos) \ {head}
    <2>1. out_pos' = out_pos + 1 /\ state' = "OUTPUTS"
      BY <1>1, <1>6 DEF TakeResult
    <2>2. /\ out_pos \in 0 .. heap_count - 1
          /\ \A i \in out_pos .. heap_count - 1 : i \in 0 .. heap_count - 1
          /\ \A i \in out_pos .. heap_count - 1 : i = out_pos \/ i \in out_pos + 1 .. heap_count - 1
          /\ out_pos + 1 .. heap_count - 1 \subseteq out_pos .. heap_count - 1
          /\ out_pos + 1 \in out_pos + 1 .. heap_count - 1
          /\ out_pos \notin out_pos + 1 .. heap_count - 1
      BY <1>1, <1>6
    <2>3. \A i \in out_pos + 1 .. heap_count - 1 : heap[i].index # head
      BY <1>1, <2>2, NumbersDiffer
    <2>4. NumbersFrom(out_pos + 1) = rest
      BY <2>2, <2>3 DEF NumbersFrom
    <2>5. next \in rest
      <3>1. next \in NumbersFrom(out_pos + 1)
        BY <2>2 DEF NumbersFrom
      <3> QED
        BY <2>4, <3>1
    <2>6. Shown' = Ports("OUTPUTS", limit_k, 0, rest, Fine, next)
      <3>1. Shown' = Ports("OUTPUTS", limit_k, 0, NumbersFrom(out_pos + 1), Fine, next)
        BY <1>1, <2>1, ShownIs DEF ShownByState, NumbersFrom
      <3> QED
        BY <2>4, <3>1
    <2> HIDE DEF next
    <2>7. Shown' = SetNext(Shown, rest, next)
      BY <1>2, <2>6, PortsChange
    <2>8. Core!CoreOutputs(p)
      BY <1>3, <1>4, <2>5, <2>7 DEF Core!CoreOutputs, SetNext
    <2> QED
      BY <1>3, <2>8 DEF StepsAsCore, Core!CoreStep
  <1> QED
    BY <1>5, <1>6

\* The end of the job is taken.
LEMMA DoneIsCoreStep == TakeDone => StepsAsCore
  <1> SUFFICES ASSUME TakeDone PROVE StepsAsCore
    OBVIOUS
  <1>1. state = "DONE" /\ state' = "IDLE"
    BY DEF TakeDone
  <1>2. /\ Shown = Ports("DONE", 0, 0, {}, ErrorShown, 0)
        /\ Shown' = Ports("IDLE", 0, 0, {}, Fine, 0)
    BY <1>1, ShownIs DEF ShownByState
  <1>3. PICK p \in Inputs : ~p.reset /\ p.done_ready
    BY InputsOffer
  <1>4. Shown.state = "DONE" /\ Shown' = Core!CoreReset
    BY <1>2 DEF Ports, Fine, Core!CoreReset
  <1>5. Core!CoreEnds(p)
    BY <1>3, <1>4 DEF Core!CoreEnds
  <1> QED
    BY <1>3, <1>5 DEF StepsAsCore, Core!CoreStep

\* What is shown depends on the state alone.
LEMMA StutterIsStutter == UNCHANGED vars => UNCHANGED Shown
  BY DEF vars, loads, active, tree, Shown, InJob, InScoring, TopK

\* The core with its heap behaves at its ports as SgCore says, step by step: SgCore is
\* the core SparseGateAxi has, and all that SparseGateProofs relies on.
THEOREM CoreImplementsSgCore == Spec => ImplementsCore
  <1>1. Init => Core!CoreInit
    BY InitIsCoreInit
  <1>2. HeapInv /\ [Next]_vars => [\E p \in Inputs : Core!CoreStep(p)]_Shown
    <2> SUFFICES ASSUME HeapInv, [Next]_vars
                 PROVE  StepsAsCore \/ UNCHANGED Shown
      BY DEF StepsAsCore
    <2> QED
      BY StartIsCoreStep, LoadIsStutter, AcceptIsCoreStep, ScoreIsCoreStep, UpdateIsCoreStep,
         AnswerIsCoreStep, FinishIsCoreStep, ResultIsCoreStep, DoneIsCoreStep,
         ResetIsCoreStep, StutterIsStutter DEF Next, Internal
  <1> QED
    BY <1>1, <1>2, HeapInvariant, PTL DEF Spec, ImplementsCore

-----------------------------------------------------------------------------
(* The sorted selection                                                      *)

\* The results so far stand in the cache; all of them are the best keys; and the
\* sorter has them in hand or has put them in order.
SelectionInv ==
    /\ cache_idx \in [Places -> Nat]
    /\ result_count \in 0 .. TopkMax
    /\ state = "OUTPUTS" =>
           /\ result_count = out_pos
           /\ \A i \in 0 .. out_pos - 1 : cache_idx[i] = heap[i].index
    /\ state \notin {"OUTPUTS", "DONE", "IDLE"} => result_count = 0
    /\ state \notin {"DONE", "IDLE"} => ~Sorting
    /\ state \in {"DONE", "IDLE"} /\ result_count # 0 =>
           Entries(cache_idx, result_count) = BestNumbers
    /\ Sorting =>
           /\ result_count # 0
           /\ SortInv(cache_idx, sort, result_count) /\ sort.at \in {"SIFT", "TAKE"}
    /\ ~Sorting /\ state \in {"DONE", "IDLE"} =>
           \A i, j \in 0 .. result_count - 1 : i < j => cache_idx[i] < cache_idx[j]

\* The steps of the core are those of its own specification.
LEMMA SelectionRunsCore == [SelectionNext]_selectionVars => [Next]_vars
  BY DEF SelectionNext, selectionVars, BeginJob, StoreResult, SortStep, ResetBoth, Next

\* The heap of the core is in order here too.
LEMMA SelectionHeap == SelectionSpec => []HeapInv
  <1>1. SelectionInit => Init
    BY DEF SelectionInit
  <1> QED
    BY <1>1, InitHeap, NextHeap, SelectionRunsCore, PTL DEF SelectionSpec

\* Nothing is selected at first.
LEMMA InitSelection == SelectionInit => SelectionInv
  <1> SUFFICES ASSUME SelectionInit PROVE SelectionInv
    OBVIOUS
  <1>1. /\ state = "IDLE" /\ result_count = 0 /\ cache_idx = [i \in Places |-> 0]
        /\ ~Sorting /\ TopkMax \in Nat
    BY CoreAssumption DEF SelectionInit, Init, Sorting, NoSort, SortStart
  <1> QED
    BY <1>1 DEF SelectionInv

\* What the invariant says of the cache and the sorter is kept while these and the
\* best keys stay the same.
LEMMA SelectionUntouched ==
    ASSUME SelectionInv, UNCHANGED <<selVars, scored, limit_k>>,
           state' \in {"OUTPUTS", "DONE", "IDLE"} \/ result_count = 0,
           state' \in {"DONE", "IDLE"} \/ ~Sorting,
           state' = "OUTPUTS" => result_count = 0 /\ out_pos' = 0,
           state' \in {"DONE", "IDLE"} => state \in {"DONE", "IDLE"} \/ result_count = 0
    PROVE  SelectionInv'
  <1>1. /\ cache_idx' = cache_idx /\ result_count' = result_count /\ sort' = sort
        /\ (Sorting <=> Sorting') /\ BestNumbers' = BestNumbers
    BY DEF selVars, Sorting, BestNumbers
  <1> QED
    BY <1>1 DEF SelectionInv

\* The core works on a job, or its end is taken.
LEMMA CoreStepKeepsSelection ==
    ASSUME HeapInv, SelectionInv, UNCHANGED selVars,
           LoadQ \/ LoadK \/ AcceptKey \/ Internal \/ TakeScore \/ Finish \/ TakeDone
    PROVE  SelectionInv'
  <1>1. CASE LoadQ \/ LoadK \/ AcceptKey \/ TakeScore \/ Finish \/ TakeDone
    <2>1. /\ state \in {"READY", "SCORE", "DONE"} /\ UNCHANGED <<scored, limit_k>>
          /\ state' \in {"READY", "SCORING", "SCORE", "DONE", "OUTPUTS", "IDLE"}
          /\ state' \in {"READY", "SCORING", "SCORE", "OUTPUTS"} => state # "DONE"
          /\ state' = "OUTPUTS" => out_pos' = 0
      BY <1>1 DEF LoadQ, LoadK, AcceptKey, TakeScore, Finish, TakeDone, loads
    <2>2. state # "DONE" => result_count = 0 /\ ~Sorting
      BY <2>1 DEF SelectionInv
    <2> QED
      BY <2>1, <2>2, SelectionUntouched
  <1>2. CASE Internal
    <2>1. /\ InScoring /\ limit_k' = limit_k
          /\ state' \in {"SCORING", "HEAP_BEGIN", "HEAP_UP", "HEAP_DOWN", "SCORE"}
      BY <1>2 DEF Internal, Score, HeapBegin, HeapUp, HeapDown, Scored, InScoring, loads
    <2>2. result_count = 0 /\ ~Sorting
      BY <2>1 DEF SelectionInv, InScoring
    <2>3. /\ cache_idx' = cache_idx /\ result_count' = 0 /\ ~Sorting'
      BY <2>2 DEF selVars, Sorting
    <2> QED
      BY <2>1, <2>2, <2>3 DEF SelectionInv
  <1> QED
    BY <1>1, <1>2

\* A job begins, or everything is reset: no results.
LEMMA NoResultsYet ==
    ASSUME SelectionInv, cache_idx' = cache_idx, result_count' = 0, ~Sorting',
           state' # "OUTPUTS"
    PROVE  SelectionInv'
  BY CoreAssumption DEF SelectionInv

\* Both leave no results.
LEMMA BeginKeepsSelection == SelectionInv /\ (BeginJob \/ ResetBoth) => SelectionInv'
  <1>1. ASSUME BeginJob
        PROVE  cache_idx' = cache_idx /\ result_count' = 0 /\ ~Sorting' /\ state' # "OUTPUTS"
    BY <1>1 DEF BeginJob, StartJob, Sorting
  <1>2. ASSUME ResetBoth
        PROVE  cache_idx' = cache_idx /\ result_count' = 0 /\ ~Sorting' /\ state' # "OUTPUTS"
    BY <1>2 DEF ResetBoth, Reset, Sorting, NoSort, SortStart
  <1> QED
    BY <1>1, <1>2, NoResultsYet

\* A result is stored behind the others; after the last the sorter starts.
LEMMA StoreKeepsSelection == HeapInv /\ SelectionInv /\ StoreResult => SelectionInv'
  <1> SUFFICES ASSUME HeapInv, SelectionInv, StoreResult PROVE SelectionInv'
    OBVIOUS
  <1> DEFINE n == result_count
             new == [cache_idx EXCEPT ![n] = heap[n].index]
  <1>1. /\ state = "OUTPUTS" /\ HeapAtRest
        /\ out_pos = n /\ n \in Nat /\ heap_count \in Nat /\ n < heap_count
        /\ \A i \in 0 .. n - 1 : cache_idx[i] = heap[i].index
        /\ cache_idx \in [Places -> Nat]
        /\ ~Sorting
    BY DEF StoreResult, TakeResult, HeapAtRest, SelectionInv, HeapInv, CoreTypeOK, JobLegal
  <1>2. /\ heap' = heap /\ heap_count' = heap_count /\ scored' = scored /\ limit_k' = limit_k
        /\ state' = IF n + 1 = heap_count THEN "DONE" ELSE "OUTPUTS"
        /\ out_pos' = IF n + 1 = heap_count THEN out_pos ELSE n + 1
        /\ cache_idx' = new /\ result_count' = n + 1
        /\ sort' = IF state' = "DONE" /\ n # 0 THEN SortStart(n) ELSE sort
    BY <1>1 DEF StoreResult, TakeResult, loads, tree
  <1>3. /\ heap_count \in 0 .. TopkMax /\ TopkMax \in Nat
        /\ n \in 0 .. TopkMax - 1 /\ n \in Places /\ n + 1 \in 0 .. TopkMax
        /\ \A i \in 0 .. heap_count - 1 : heap[i] \in Entry
        /\ Entries(heap, heap_count) = TopK(scored, limit_k)
    BY <1>1, AtRestFacts, RestingHeap, CoreAssumption DEF Places
  <1>4. heap[n].index \in Nat
    <2>1. heap[n] \in Entry
      BY <1>1, <1>3
    <2>2. Keys \cup {0} \subseteq Nat
      BY CoreAssumption
    <2>3. \A e \in Entry : e.index \in Keys \cup {0}
      BY DEF Entry
    <2> QED
      BY <2>1, <2>2, <2>3
  <1>5. /\ new \in [Places -> Nat]
        /\ \A i \in 0 .. n : new[i] = heap[i].index
    <2>1. new \in [Places -> Nat] /\ new[n] = heap[n].index
      BY <1>1, <1>3, <1>4
    <2>2. \A i \in 0 .. n - 1 : i \in Places /\ i # n /\ new[i] = cache_idx[i]
      BY <1>1, <1>3 DEF Places
    <2>3. \A i \in 0 .. n : i = n \/ i \in 0 .. n - 1
      BY <1>1
    <2> QED
      BY <1>1, <2>1, <2>2, <2>3
  <1> HIDE DEF new
  <1>6. BestNumbers' = BestNumbers
    BY <1>2 DEF BestNumbers
  <1>7. CASE n + 1 = heap_count
    <2>1. 0 .. (n + 1) - 1 = 0 .. heap_count - 1 /\ 0 .. (n + 1) - 1 = 0 .. n
      BY <1>1, <1>7
    <2>2. Distinct(new, n + 1)
      <3> SUFFICES ASSUME NEW i \in 0 .. (n + 1) - 1, NEW j \in 0 .. (n + 1) - 1,
                          new[i] = new[j]
                   PROVE  i = j
        BY DEF Distinct
      <3>1. heap[i].index = heap[j].index
        BY <1>5, <2>1
      <3> QED
        BY <1>1, <2>1, <3>1, NumbersDiffer
    <2>3. Entries(new, n + 1) = BestNumbers
      <3>1. Entries(new, n + 1) = {heap[i].index : i \in 0 .. heap_count - 1}
        BY <1>5, <2>1 DEF Entries
      <3> QED
        BY <1>3, <3>1 DEF BestNumbers, Numbers, Entries
    <2>4. CASE n = 0
      <3>1. ~Sorting' /\ state' = "DONE" /\ result_count' = 1
        BY <1>1, <1>2, <1>7, <2>4 DEF Sorting
      <3>2. \A i, j \in 0 .. 1 - 1 : ~(i < j)
        OBVIOUS
      <3>3. 1 \in 0 .. TopkMax
        BY <1>3, <2>4
      <3> QED
        BY <1>2, <1>5, <1>6, <2>3, <2>4, <3>1, <3>2, <3>3 DEF SelectionInv
    <2>5. CASE n # 0
      <3>1. state' = "DONE" /\ result_count' = n + 1 /\ sort' = SortStart(n)
        BY <1>2, <1>7, <2>5
      <3>2. SortInv(new, SortStart(n), n + 1)
        BY <1>3, <1>5, <2>2, SortBegins DEF Places
      <3>3. SortStart(n).at = "SIFT"
        BY DEF SortStart
      <3>4. Sorting' /\ n + 1 # 0
        BY <1>1, <3>1, <3>3 DEF Sorting
      <3> HIDE DEF n
      <3> QED
        BY <1>2, <1>3, <1>5, <1>6, <2>3, <3>1, <3>2, <3>3, <3>4 DEF SelectionInv
    <2> QED
      BY <2>4, <2>5
  <1>8. CASE n + 1 # heap_count
    <2>1. state' = "OUTPUTS" /\ out_pos' = n + 1 /\ ~Sorting'
      BY <1>1, <1>2, <1>8 DEF Sorting
    <2>2. \A i \in 0 .. (n + 1) - 1 : new[i] = heap[i].index
      BY <1>1, <1>5
    <2> QED
      BY <1>2, <1>3, <1>5, <2>1, <2>2 DEF SelectionInv
  <1> QED
    BY <1>7, <1>8

\* The sorter keeps the selection, and leaves it in order.
LEMMA SortKeepsSelection == SelectionInv /\ SortStep => SelectionInv'
  <1> SUFFICES ASSUME SelectionInv, SortStep PROVE SelectionInv'
    OBVIOUS
  <1> DEFINE n == result_count
             step == IF sort.at = "SIFT" THEN SortSift(cache_idx, sort)
                     ELSE SortTake(cache_idx, sort)
  <1>1. /\ Sorting /\ cache_idx' = step.idx /\ sort' = step.sort
        /\ UNCHANGED <<state, scored, limit_k, result_count>>
    BY DEF SortStep, vars, loads
  <1>2. /\ cache_idx \in [0 .. TopkMax - 1 -> Nat] /\ TopkMax \in Nat
        /\ n \in 0 .. TopkMax /\ n # 0 /\ state \in {"DONE", "IDLE"}
        /\ SortInv(cache_idx, sort, n) /\ sort.at \in {"SIFT", "TAKE"}
        /\ Entries(cache_idx, n) = BestNumbers
    BY <1>1, CoreAssumption DEF SelectionInv, Places
  <1>3. /\ step.idx \in [0 .. TopkMax - 1 -> Nat]
        /\ Entries(step.idx, n) = Entries(cache_idx, n)
        /\ SortInv(step.idx, step.sort, n)
        /\ step.sort.at \in {"SIFT", "TAKE", "DONE"}
    <2>1. CASE sort.at = "SIFT"
      <3>1. step = SortSift(cache_idx, sort)
        BY <2>1
      <3> HIDE DEF step, n
      <3> QED
        BY <1>2, <2>1, <3>1, SiftKeeps
    <2>2. CASE sort.at = "TAKE"
      <3>1. step = SortTake(cache_idx, sort)
        BY <2>2
      <3> HIDE DEF step, n
      <3> QED
        BY <1>2, <2>2, <3>1, TakeKeeps
    <2> QED
      BY <1>2, <2>1, <2>2
  <1> HIDE DEF step
  <1>4. BestNumbers' = BestNumbers
    BY <1>1 DEF BestNumbers
  <1>5. ASSUME ~Sorting'
        PROVE  \A i, j \in 0 .. n - 1 : i < j => cache_idx'[i] < cache_idx'[j]
    <2>1. step.sort.at = "DONE" /\ n \in Nat
      BY <1>1, <1>2, <1>5 DEF Sorting
    <2> HIDE DEF n
    <2> QED
      BY <1>1, <1>3, <2>1, SortEnds
  <1>6. Sorting' => sort'.at \in {"SIFT", "TAKE"}
    BY <1>1, <1>3 DEF Sorting
  <1> QED
    BY <1>1, <1>2, <1>3, <1>4, <1>5, <1>6 DEF SelectionInv, Places

\* Every step of the core and the sorter keeps the invariant.
LEMMA NextSelection ==
    HeapInv /\ SelectionInv /\ [SelectionNext]_selectionVars => SelectionInv'
  <1> SUFFICES ASSUME HeapInv, SelectionInv, [SelectionNext]_selectionVars
               PROVE  SelectionInv'
    OBVIOUS
  <1>1. CASE UNCHANGED selectionVars
    <2>1. UNCHANGED <<selVars, scored, limit_k, state, heap, out_pos>>
      BY <1>1 DEF selectionVars, vars, loads, tree
    <2>2. /\ cache_idx' = cache_idx /\ result_count' = result_count /\ sort' = sort
          /\ (Sorting <=> Sorting') /\ BestNumbers' = BestNumbers
      BY <2>1 DEF selVars, Sorting, BestNumbers
    <2> QED
      BY <2>1, <2>2 DEF SelectionInv
  <1>2. CASE SelectionNext
    BY <1>2, BeginKeepsSelection, CoreStepKeepsSelection, StoreKeepsSelection,
       SortKeepsSelection DEF SelectionNext
  <1> QED
    BY <1>1, <1>2

\* When the engine leaves the sorter its cache holds the numbers of the best limit_k
\* keys scored, each once and in ascending order, whatever the order they were scored
\* and came out of the heap in.
THEOREM SelectionSorted == SelectionSpec => []SortedSelection
  <1>1. SelectionInv => SortedSelection
    <2> SUFFICES ASSUME SelectionInv, ~Sorting, result_count > 0, state \in {"DONE", "IDLE"}
                 PROVE  /\ {cache_idx[i] : i \in 0 .. result_count - 1}
                               = {e.index : e \in TopK(scored, limit_k)}
                        /\ \A i \in 1 .. result_count - 1 : cache_idx[i - 1] < cache_idx[i]
      BY DEF SortedSelection
    <2>1. /\ result_count \in Nat /\ result_count # 0
          /\ Entries(cache_idx, result_count) = BestNumbers
          /\ \A i, j \in 0 .. result_count - 1 : i < j => cache_idx[i] < cache_idx[j]
      BY CoreAssumption DEF SelectionInv
    <2>2. \A i \in 1 .. result_count - 1 :
              i - 1 \in 0 .. result_count - 1 /\ i \in 0 .. result_count - 1 /\ i - 1 < i
      BY <2>1
    <2> QED
      BY <2>1, <2>2 DEF Entries, BestNumbers, Numbers
  <1> QED
    BY <1>1, InitSelection, NextSelection, SelectionHeap, PTL DEF SelectionSpec
=============================================================================
