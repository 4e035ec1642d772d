------------------------------- MODULE SgSort -------------------------------
(***************************************************************************)
(* The heap sort that puts a selection in ascending order before it is      *)
(* written out: states S_SORT_SIFT and S_SORT_TAKE of                       *)
(* rtl/sparse_gate_axi/sparse_gate_axi.sv and the comparator that chooses a *)
(* child.  cache_idx is the array sorted, in place; its entries are distinct *)
(* key numbers, and cache_score moves along with them.                      *)
(*                                                                         *)
(* A sorter is a record of the registers pos, root, size and extract and of *)
(* the state the engine is in, "SIFT" or "TAKE", or "DONE" when it leaves.  *)
(***************************************************************************)
EXTENDS Naturals, WellFoundedInduction, TLAPS

\* A slip: the left child is always chosen.
LeftChild(idx, sort) == 2 * sort.pos + 1

\* sort_child: the larger child of position pos within the heap, if it has one.
SortChild(idx, sort) ==
    LET left == 2 * sort.pos + 1
        right == left + 1
    IN  IF right < sort.size /\ idx[right] > idx[left] THEN right ELSE left

SwapEntries(idx, i, j) == [idx EXCEPT ![i] = idx[j], ![j] = idx[i]]

\* The registers as the last result arrives at cache_idx[last].
SortStart(last) ==
    [at |-> "SIFT", pos |-> last \div 2, root |-> last \div 2,
     size |-> last + 1, extract |-> FALSE]

\* The entry at pos must go further down.
MustSink(idx, sort) ==
    /\ 2 * sort.pos + 1 < sort.size
    /\ idx[SortChild(idx, sort)] > idx[sort.pos]

SinkOne(idx, sort) ==
    [idx |-> SwapEntries(idx, sort.pos, SortChild(idx, sort)),
     sort |-> [sort EXCEPT !.pos = SortChild(idx, sort)]]

\* S_SORT_SIFT: sink the entry, or go on to the next root while the heap is
\* built, or take the largest entry out.
SortSift(idx, sort) ==
    IF MustSink(idx, sort) THEN SinkOne(idx, sort)
    ELSE IF ~sort.extract /\ sort.root # 0
    THEN [idx |-> idx, sort |-> [sort EXCEPT !.root = @ - 1, !.pos = sort.root - 1]]
    ELSE [idx |-> idx, sort |-> [sort EXCEPT !.at = "TAKE", !.extract = TRUE]]

\* S_SORT_TAKE: the largest entry goes behind the heap.
SortTake(idx, sort) ==
    IF sort.size <= 1
    THEN [idx |-> idx, sort |-> [sort EXCEPT !.at = "DONE"]]
    ELSE [idx |-> SwapEntries(idx, 0, sort.size - 1),
          sort |-> [sort EXCEPT !.at = "SIFT", !.size = @ - 1, !.pos = 0]]

-----------------------------------------------------------------------------
(* Proofs: the sorter sorts, for every number of results and every order in   *)
(* which the scoring core hands them over.                                   *)
(*                                                                         *)
(* SortInv is the invariant of heap sort, carried through the two states of  *)
(* the engine.  While the heap is built its part from root on is a heap but   *)
(* for the entry that sinks, at pos; while it is taken apart, all of it.      *)
(* Behind the heap the largest entries stand in order.  None of this is about *)
(* the engine: SparseGateProofs carries SortInv along the engine's steps.      *)

Sorters == [at : {"SIFT", "TAKE", "DONE"}, pos : Nat, root : Nat, size : Nat,
            extract : BOOLEAN]

\* sort_child reads the entries 2 pos + 1 and 2 pos + 2.
IsChild(c, p) == c = 2 * p + 1 \/ c = 2 * p + 2

\* The entry at p is not below its children within a heap of this size.
HeapAt(idx, size, p) == \A c \in 0 .. size - 1 : IsChild(c, p) => idx[c] <= idx[p]

\* Where the heap begins: root while it is built, then at the front.
Lowest(sort) == IF sort.extract THEN 0 ELSE sort.root

Distinct(idx, n) == \A i, j \in 0 .. n - 1 : idx[i] = idx[j] => i = j

Entries(idx, n) == {idx[i] : i \in 0 .. n - 1}

\* The entries behind the heap are in order, and above those of the heap.
TailInOrder(idx, sort, n) ==
    \A i \in 0 .. n - 1, j \in sort.size .. n - 1 : i < j => idx[i] < idx[j]

\* The heap but for the entry that sinks, whose children its parent is above.
HeapBut(idx, sort) ==
    \A p \in Lowest(sort) .. sort.size - 1 :
        /\ p # sort.pos => HeapAt(idx, sort.size, p)
        /\ IsChild(sort.pos, p) =>
               \A c \in 0 .. sort.size - 1 : IsChild(c, sort.pos) => idx[c] <= idx[p]

SortInv(idx, sort, n) ==
    /\ sort \in Sorters
    /\ sort.size \in 1 .. n
    /\ Distinct(idx, n)
    /\ TailInOrder(idx, sort, n)
    /\ ~sort.extract => sort.size = n /\ sort.at = "SIFT"
    /\ sort.at = "SIFT" => sort.pos < sort.size /\ Lowest(sort) <= sort.pos /\ HeapBut(idx, sort)
    /\ sort.at = "TAKE" => \A p \in 0 .. sort.size - 1 : HeapAt(idx, sort.size, p)
    /\ sort.at = "DONE" => sort.size = 1

-----------------------------------------------------------------------------
\* A set of numbers that is not empty has a least one.
LEMMA LeastNumber ==
    ASSUME NEW T \in SUBSET Nat, T # {}
    PROVE  \E x \in T : \A y \in T : x <= y
  <1> DEFINE R == OpToRel(<, Nat)
  <1>1. IsWellFoundedOn(R, Nat)
    BY NatLessThanWellFounded
  <1> HIDE DEF R
  <1>2. PICK x \in T : \A y \in T : ~(<<y, x>> \in R)
    BY <1>1, WFMin, Zenon
  <1>3. \A y \in Nat : y < x => <<y, x>> \in R
    <2>1. R = {ss \in Nat \X Nat : ss[1] < ss[2]}
      BY DEF R, OpToRel
    <2> QED
      BY <2>1
  <1>4. \A y \in T : ~(y < x)
    BY <1>2, <1>3
  <1>5. \A y \in T : x <= y
    BY <1>4
  <1> QED
    BY <1>5

\* What S_SORT_TAKE takes from the front is the largest entry.
LEMMA FrontIsLargest ==
    ASSUME NEW size \in Nat \ {0}, NEW idx,
           \A i \in 0 .. size - 1 : idx[i] \in Nat,
           \A p \in 0 .. size - 1 : HeapAt(idx, size, p)
    PROVE  \A i \in 0 .. size - 1 : idx[i] <= idx[0]
  <1> DEFINE T == {i \in 0 .. size - 1 : ~(idx[i] <= idx[0])}
  <1>1. SUFFICES ASSUME T # {} PROVE FALSE
    OBVIOUS
  <1>2. PICK i \in T : \A j \in T : i <= j
    <2>1. T \in SUBSET Nat
      OBVIOUS
    <2> QED
      BY <1>1, <2>1, LeastNumber, Zenon
  <1>3. i \in 1 .. size - 1 /\ ~(idx[i] <= idx[0])
    BY <1>2
  <1>4. PICK p \in 0 .. i - 1 : IsChild(i, p)
    <2>1. (i - 1) \div 2 \in 0 .. i - 1 /\ IsChild(i, (i - 1) \div 2)
      BY <1>3 DEF IsChild
    <2> QED
      BY <2>1
  <1>5. idx[p] <= idx[0]
    BY <1>2, <1>3, <1>4
  <1>6. idx[i] <= idx[p]
    BY <1>3, <1>4 DEF HeapAt
  <1> QED
    BY <1>3, <1>4, <1>5, <1>6

\* An exchange of two entries loses none and doubles none.
Exchanged(idx, new, D, R, n, i, j) ==
    /\ new \in [D -> R]
    /\ new[i] = idx[j] /\ new[j] = idx[i]
    /\ \A k \in D : k # i /\ k # j => new[k] = idx[k]
    /\ Entries(new, n) = Entries(idx, n)
    /\ Distinct(idx, n) => Distinct(new, n)

\* A swap of two places keeps the entries of the front and their distinctness
\* (the exchange in S_SORT_SIFT and in S_SORT_TAKE).
LEMMA SwapKeeps ==
    ASSUME NEW D, NEW R, NEW idx \in [D -> R], NEW n \in Nat, 0 .. n - 1 \subseteq D,
           NEW i \in 0 .. n - 1, NEW j \in 0 .. n - 1
    PROVE  Exchanged(idx, SwapEntries(idx, i, j), D, R, n, i, j)
  <1> DEFINE new == SwapEntries(idx, i, j)
  <1>1. /\ new \in [D -> R]
        /\ new[i] = idx[j] /\ new[j] = idx[i]
        /\ \A k \in D : k # i /\ k # j => new[k] = idx[k]
    BY DEF SwapEntries
  <1> HIDE DEF new
  <1>2. Entries(new, n) = Entries(idx, n)
    <2>1. ASSUME NEW k \in 0 .. n - 1 PROVE new[k] \in Entries(idx, n)
      BY <1>1 DEF Entries
    <2>2. ASSUME NEW k \in 0 .. n - 1 PROVE idx[k] \in Entries(new, n)
      BY <1>1 DEF Entries
    <2> QED
      BY <2>1, <2>2 DEF Entries
  <1>3. Distinct(idx, n) => Distinct(new, n)
    BY <1>1 DEF Distinct
  <1> QED
    BY <1>1, <1>2, <1>3 DEF Exchanged, new

\* A place has one parent, and lies behind it.
LEMMA OneParent ==
    ASSUME NEW c \in Int, NEW p \in Nat, NEW q \in Nat, IsChild(c, p)
    PROVE  c > p /\ (IsChild(c, q) => p = q)
  BY DEF IsChild

-----------------------------------------------------------------------------
\* SortChild is the larger child, if the entry has one.
LEMMA LargerChild ==
    ASSUME NEW idx, NEW sort \in Sorters,
           \A i \in 0 .. sort.size - 1 : idx[i] \in Nat,
           2 * sort.pos + 1 < sort.size
    PROVE  /\ SortChild(idx, sort) \in 0 .. sort.size - 1
           /\ IsChild(SortChild(idx, sort), sort.pos)
           /\ \A c \in 0 .. sort.size - 1 :
                  IsChild(c, sort.pos) => idx[c] <= idx[SortChild(idx, sort)]
  <1>1. sort.pos \in Nat /\ sort.size \in Nat
    BY DEF Sorters
  <1> DEFINE left == 2 * sort.pos + 1
             right == left + 1
  <1>2. CASE right < sort.size /\ idx[right] > idx[left]
    BY <1>1, <1>2 DEF SortChild, IsChild
  <1>3. CASE ~(right < sort.size /\ idx[right] > idx[left])
    BY <1>1, <1>3 DEF SortChild, IsChild
  <1> QED
    BY <1>2, <1>3

\* After the last result: no place behind the root has a child yet.
LEMMA SortBegins ==
    ASSUME NEW M \in Nat, NEW idx \in [0 .. M - 1 -> Nat], NEW last \in 0 .. M - 1,
           Distinct(idx, last + 1)
    PROVE  SortInv(idx, SortStart(last), last + 1)
  <1> DEFINE s == SortStart(last)
             root == last \div 2
  <1>1. root \in 0 .. last /\ 2 * root + 2 > last /\ (last = 0 => root = 0)
    OBVIOUS
  <1>2. /\ s \in Sorters
        /\ s.at = "SIFT" /\ s.pos = root /\ s.root = root /\ s.size = last + 1
        /\ s.extract = FALSE
    BY <1>1 DEF SortStart, Sorters
  <1> HIDE DEF s, root
  <1>3. HeapBut(idx, s)
    <2> SUFFICES ASSUME NEW p \in root .. last
                 PROVE  /\ p # root => HeapAt(idx, s.size, p)
                        /\ ~IsChild(root, p)
      BY <1>1, <1>2 DEF HeapBut, Lowest
    <2> QED
      BY <1>1, <1>2 DEF HeapAt, IsChild
  <1>4. TailInOrder(idx, s, last + 1)
    BY <1>2 DEF TailInOrder
  <1> QED
    BY <1>1, <1>2, <1>3, <1>4 DEF SortInv, Lowest, s

\* S_SORT_SIFT: the entry sinks, or is in its place.
LEMMA SiftKeeps ==
    ASSUME NEW M \in Nat, NEW idx \in [0 .. M - 1 -> Nat], NEW n \in 0 .. M,
           NEW sort, SortInv(idx, sort, n), sort.at = "SIFT"
    PROVE  LET step == SortSift(idx, sort)
           IN  /\ step.idx \in [0 .. M - 1 -> Nat]
               /\ Entries(step.idx, n) = Entries(idx, n)
               /\ SortInv(step.idx, step.sort, n)
               /\ step.sort.at \in {"SIFT", "TAKE"}
  <1> DEFINE pos == sort.pos
             size == sort.size
             low == Lowest(sort)
             ch == SortChild(idx, sort)
             step == SortSift(idx, sort)
  <1>1. /\ sort \in Sorters
        /\ pos \in Nat /\ size \in 1 .. n /\ sort.root \in Nat
        /\ pos < size /\ low <= pos /\ low \in Nat
        /\ sort.extract \in BOOLEAN
        /\ ~sort.extract => size = n
    BY DEF SortInv, Sorters, Lowest
  <1>2. /\ \A i \in 0 .. n - 1 : idx[i] \in Nat
        /\ \A i \in 0 .. size - 1 : idx[i] \in Nat
    BY <1>1
  <1>3. \A p \in low .. size - 1 :
            /\ p # pos => HeapAt(idx, size, p)
            /\ IsChild(pos, p) => \A c \in 0 .. size - 1 : IsChild(c, pos) => idx[c] <= idx[p]
    BY DEF SortInv, HeapBut
  <1>4. Distinct(idx, n) /\ TailInOrder(idx, sort, n)
    BY DEF SortInv
  <1>5. CASE MustSink(idx, sort)
    <2>1. 2 * pos + 1 < size /\ idx[ch] > idx[pos]
      BY <1>5 DEF MustSink
    <2>2. /\ ch \in 0 .. size - 1
          /\ IsChild(ch, pos)
          /\ \A c \in 0 .. size - 1 : IsChild(c, pos) => idx[c] <= idx[ch]
      BY <1>1, <1>2, <2>1, LargerChild
    <2> DEFINE new == SwapEntries(idx, pos, ch)
               s == [sort EXCEPT !.pos = ch]
    <2>3. /\ step.idx = new
          /\ step.sort = s
      BY <1>5 DEF SortSift, SinkOne
    <2> HIDE DEF ch, step
    <2>4. pos \in 0 .. n - 1 /\ ch \in 0 .. n - 1
      BY <1>1, <2>2, SMTT(30)
    <2>5. /\ new \in [0 .. M - 1 -> Nat]
          /\ new[pos] = idx[ch] /\ new[ch] = idx[pos]
          /\ \A k \in 0 .. M - 1 : k # pos /\ k # ch => new[k] = idx[k]
          /\ Entries(new, n) = Entries(idx, n)
          /\ Distinct(new, n)
      <3>1. n \in Nat /\ 0 .. n - 1 \subseteq 0 .. M - 1
        OBVIOUS
      <3>2. Exchanged(idx, new, 0 .. M - 1, Nat, n, pos, ch)
        BY <2>4, <3>1, SwapKeeps
      <3> HIDE DEF new
      <3> QED
        BY <1>4, <3>2 DEF Exchanged
    <2> HIDE DEF new
    <2>6. /\ s \in Sorters
          /\ s.pos = ch /\ s.root = sort.root /\ s.size = size /\ s.at = "SIFT"
          /\ s.extract = sort.extract
      BY <1>1, <2>2 DEF Sorters
    <2> HIDE DEF s
    <2>7. low <= ch /\ ch > pos
      BY <1>1, <2>2, SMTT(30) DEF IsChild
    <2>8. TailInOrder(new, s, n)
      <3> SUFFICES ASSUME NEW i \in 0 .. n - 1, NEW j \in size .. n - 1, i < j
                   PROVE  new[i] < new[j]
        BY <2>6 DEF TailInOrder
      <3>0. j # pos /\ j # ch /\ pos < j /\ ch < j /\ i \in 0 .. M - 1 /\ j \in 0 .. M - 1
        BY <1>1, <2>2, SMTT(30)
      <3>1. new[j] = idx[j]
        BY <2>5, <3>0
      <3>2. idx[i] < idx[j] /\ idx[pos] < idx[j] /\ idx[ch] < idx[j]
        BY <1>4, <2>4, <3>0 DEF TailInOrder
      <3> QED
        BY <2>5, <3>0, <3>1, <3>2
    <2>9. HeapBut(new, s)
      <3> SUFFICES ASSUME NEW p \in low .. size - 1
                   PROVE  /\ p # ch => HeapAt(new, size, p)
                          /\ IsChild(ch, p) =>
                                 \A c \in 0 .. size - 1 : IsChild(c, ch) => new[c] <= new[p]
        BY <2>6 DEF HeapBut, Lowest
      <3>0. p \in Nat
        BY <1>1
      <3>1. ASSUME p # ch, NEW c \in 0 .. size - 1, IsChild(c, p)
            PROVE  new[c] <= new[p]
        <4>0. p \in 0 .. M - 1 /\ c \in 0 .. M - 1
          BY <1>1
        <4>1. CASE p = pos
          <5>1. idx[c] <= idx[ch]
            BY <2>2, <3>1, <4>1
          <5>2. c # pos /\ (c # ch => new[c] = idx[c])
            BY <2>5, <3>0, <3>1, <4>0, <4>1, OneParent, SMTT(30)
          <5>3. idx[pos] <= idx[ch]
            BY <1>2, <2>1, <2>4
          <5> QED
            BY <2>5, <4>1, <5>1, <5>2, <5>3
        <4>2. CASE p # pos /\ c = pos
          BY <1>1, <1>2, <1>3, <2>1, <2>2, <2>5, <3>1, <4>0, <4>2
        <4>3. CASE p # pos /\ c # pos
          <5>1. c # ch
            BY <1>1, <2>2, <3>0, <3>1, <4>3, OneParent
          <5>2. idx[c] <= idx[p]
            BY <1>3, <3>1, <4>3 DEF HeapAt
          <5> QED
            BY <2>5, <3>1, <4>0, <4>3, <5>1, <5>2
        <4> QED
          BY <4>1, <4>2, <4>3
      <3>2. ASSUME IsChild(ch, p), NEW c \in 0 .. size - 1, IsChild(c, ch)
            PROVE  new[c] <= new[p]
        <4>1. p = pos
          BY <1>1, <2>2, <3>0, <3>2, OneParent, SMTT(30)
        <4>2. c # pos /\ c # ch /\ c \in 0 .. M - 1
          BY <1>1, <2>2, <2>7, <3>2, SMTT(30) DEF IsChild
        <4>3. idx[c] <= idx[ch]
          BY <1>3, <2>2, <2>7, <3>2 DEF HeapAt
        <4> QED
          BY <2>5, <4>1, <4>2, <4>3
      <3> QED
        BY <3>1, <3>2 DEF HeapAt
    <2>10. SortInv(new, s, n)
      <3>1. Lowest(s) = low
        BY <2>6 DEF Lowest
      <3> QED
        BY <1>1, <2>2, <2>5, <2>6, <2>7, <2>8, <2>9, <3>1 DEF SortInv
    <2> QED
      BY <2>3, <2>5, <2>6, <2>10 DEF step
  <1>6. CASE ~MustSink(idx, sort)
    <2>1. \A p \in low .. size - 1 : HeapAt(idx, size, p)
      <3>1. ASSUME NEW c \in 0 .. size - 1, IsChild(c, pos)
            PROVE  idx[c] <= idx[pos]
        <4>1. 2 * pos + 1 < size
          BY <1>1, <3>1, SMTT(30) DEF IsChild
        <4>2. ch \in 0 .. size - 1 /\ idx[c] <= idx[ch]
          BY <1>1, <1>2, <3>1, <4>1, LargerChild
        <4>3. ~(idx[ch] > idx[pos])
          BY <1>6, <4>1 DEF MustSink
        <4> HIDE DEF ch
        <4>4. idx[ch] \in Nat /\ idx[pos] \in Nat /\ idx[c] \in Nat
          BY <1>1, <1>2, <4>2, SMTT(30)
        <4> QED
          BY <4>2, <4>3, <4>4
      <3>2. HeapAt(idx, size, pos)
        BY <3>1 DEF HeapAt
      <3> QED
        BY <1>3, <3>2
    <2>2. CASE ~sort.extract /\ sort.root # 0
      <3> DEFINE s == [sort EXCEPT !.root = sort.root - 1, !.pos = sort.root - 1]
      <3>1. step.idx = idx /\ step.sort = s
        BY <1>6, <2>2 DEF SortSift
      <3>2. sort.root - 1 \in Nat /\ low = sort.root
        BY <1>1, <2>2 DEF Lowest
      <3>3. /\ s \in Sorters
            /\ s.pos = low - 1 /\ s.root = low - 1 /\ s.size = size /\ s.at = "SIFT"
            /\ s.extract = sort.extract
        BY <1>1, <3>2 DEF Sorters
      <3> HIDE DEF s, step
      <3>4. Lowest(s) = low - 1
        BY <2>2, <3>3 DEF Lowest
      <3>5. HeapBut(idx, s)
        BY <1>1, <2>1, <3>2, <3>3, <3>4, SMTT(30) DEF HeapBut, IsChild
      <3>6. TailInOrder(idx, s, n)
        BY <1>4, <3>3 DEF TailInOrder
      <3>7. SortInv(idx, s, n)
        BY <1>1, <1>4, <2>2, <3>2, <3>3, <3>4, <3>5, <3>6 DEF SortInv
      <3> QED
        BY <3>1, <3>3, <3>7 DEF step
    <2>3. CASE ~(~sort.extract /\ sort.root # 0)
      <3> DEFINE s == [sort EXCEPT !.at = "TAKE", !.extract = TRUE]
      <3>1. step.idx = idx /\ step.sort = s
        BY <1>6, <2>3 DEF SortSift
      <3>2. low = 0
        BY <1>1, <2>3 DEF Lowest
      <3>3. /\ s \in Sorters /\ s.size = size /\ s.at = "TAKE" /\ s.extract = TRUE
        BY <1>1 DEF Sorters
      <3> HIDE DEF s, step
      <3>4. TailInOrder(idx, s, n)
        BY <1>4, <3>3 DEF TailInOrder
      <3>5. SortInv(idx, s, n)
        BY <1>1, <1>4, <2>1, <3>2, <3>3, <3>4 DEF SortInv
      <3> QED
        BY <3>1, <3>3, <3>5 DEF step
    <2> QED
      BY <2>2, <2>3
  <1> QED
    BY <1>5, <1>6

\* S_SORT_TAKE: the largest entry leaves the heap, or the heap is used up.
LEMMA TakeKeeps ==
    ASSUME NEW M \in Nat, NEW idx \in [0 .. M - 1 -> Nat], NEW n \in 0 .. M,
           NEW sort, SortInv(idx, sort, n), sort.at = "TAKE"
    PROVE  LET step == SortTake(idx, sort)
           IN  /\ step.idx \in [0 .. M - 1 -> Nat]
               /\ Entries(step.idx, n) = Entries(idx, n)
               /\ SortInv(step.idx, step.sort, n)
               /\ step.sort.at \in {"SIFT", "DONE"}
  <1> DEFINE size == sort.size
             step == SortTake(idx, sort)
  <1>1. sort \in Sorters /\ size \in 1 .. n /\ sort.extract = TRUE
    BY DEF SortInv, Sorters
  <1>2. Distinct(idx, n) /\ TailInOrder(idx, sort, n)
    BY DEF SortInv
  <1>3. \A p \in 0 .. size - 1 : HeapAt(idx, size, p)
    BY DEF SortInv
  <1>4. CASE size <= 1
    <2> DEFINE s == [sort EXCEPT !.at = "DONE"]
    <2>1. step.idx = idx /\ step.sort = s
      BY <1>4 DEF SortTake
    <2>2. s \in Sorters /\ s.size = 1 /\ size = 1 /\ s.at = "DONE" /\ s.extract = TRUE
      BY <1>1, <1>4 DEF Sorters
    <2> HIDE DEF s, step
    <2>3. TailInOrder(idx, s, n)
      BY <1>2, <2>2 DEF TailInOrder
    <2>4. SortInv(idx, s, n)
      BY <1>1, <1>2, <2>2, <2>3 DEF SortInv
    <2> QED
      BY <2>1, <2>2, <2>4 DEF step
  <1>5. CASE size > 1
    <2> DEFINE end == size - 1
               new == SwapEntries(idx, 0, end)
               s == [sort EXCEPT !.at = "SIFT", !.size = end, !.pos = 0]
    <2>1. step.idx = new /\ step.sort = s
      BY <1>1, <1>5 DEF SortTake
    <2>2. end \in 1 .. n - 1 /\ 0 \in 0 .. n - 1 /\ end < n
      BY <1>1, <1>5
    <2>3. /\ new \in [0 .. M - 1 -> Nat]
          /\ new[0] = idx[end] /\ new[end] = idx[0]
          /\ \A k \in 0 .. M - 1 : k # 0 /\ k # end => new[k] = idx[k]
          /\ Entries(new, n) = Entries(idx, n)
          /\ Distinct(new, n)
      <3>1. n \in Nat /\ 0 .. n - 1 \subseteq 0 .. M - 1 /\ end \in 0 .. n - 1
        BY <2>2
      <3>2. Exchanged(idx, new, 0 .. M - 1, Nat, n, 0, end)
        BY <2>2, <3>1, SwapKeeps
      <3> HIDE DEF new, end
      <3> QED
        BY <1>2, <3>2 DEF Exchanged
    <2> HIDE DEF new, step
    <2>4. /\ s \in Sorters
          /\ s.at = "SIFT" /\ s.size = end /\ s.pos = 0 /\ s.extract = TRUE
      <3>1. end \in Nat
        BY <2>2
      <3> HIDE DEF end
      <3> QED
        BY <1>1, <3>1 DEF Sorters
    <2> HIDE DEF s
    <2>5. \A i \in 0 .. size - 1 : idx[i] \in Nat /\ idx[i] <= idx[0]
      <3>1. \A i \in 0 .. size - 1 : idx[i] \in Nat
        BY <1>1
      <3>2. size \in Nat \ {0}
        BY <1>1
      <3> HIDE DEF size
      <3> QED
        BY <1>3, <3>1, <3>2, FrontIsLargest
    <2>6. TailInOrder(new, s, n)
      <3> SUFFICES ASSUME NEW i \in 0 .. n - 1, NEW j \in end .. n - 1, i < j
                   PROVE  new[i] < new[j]
        BY <2>4 DEF TailInOrder
      <3>1. i \in 0 .. M - 1 /\ j \in 0 .. M - 1 /\ j # 0
        BY <2>2
      <3>2. CASE j = end
        <4>1. i \in 0 .. size - 1 /\ i # end /\ end \in 0 .. size - 1
          BY <2>2, <3>2
        <4>2. new[i] \in {idx[i], idx[end]} /\ (i = 0 => new[i] = idx[end])
              /\ (i # 0 => new[i] = idx[i])
          BY <2>3, <3>1, <4>1
        <4>3. new[i] # new[j]
          BY <2>2, <2>3, <3>2, <4>1, SMTT(30) DEF Distinct
        <4>4. new[i] <= idx[0] /\ new[i] \in Nat /\ idx[0] \in Nat
          BY <1>1, <2>5, <4>1, <4>2, SMTT(30)
        <4> QED
          BY <2>3, <3>2, <4>3, <4>4
      <3>3. CASE j # end
        <4>1. j \in size .. n - 1 /\ new[j] = idx[j]
          BY <1>1, <2>2, <2>3, <3>1, <3>3, SMTT(30)
        <4>2. idx[i] < idx[j] /\ idx[end] < idx[j] /\ idx[0] < idx[j]
          <5>1. end \in 0 .. n - 1 /\ 0 \in 0 .. n - 1 /\ end < j /\ 0 < j
            BY <1>1, <2>2, <4>1
          <5> QED
            BY <1>2, <4>1, <5>1 DEF TailInOrder
        <4> QED
          BY <2>3, <3>1, <4>1, <4>2
      <3> QED
        BY <3>2, <3>3
    <2>7. HeapBut(new, s)
      <3> SUFFICES ASSUME NEW p \in 0 .. end - 1
                   PROVE  /\ p # 0 => HeapAt(new, end, p)
                          /\ ~IsChild(0, p)
        BY <2>4 DEF HeapBut, Lowest
      <3>1. ASSUME p # 0, NEW c \in 0 .. end - 1, IsChild(c, p)
            PROVE  new[c] <= new[p]
        <4>1. c # 0 /\ c # end /\ p # end /\ c \in 0 .. M - 1 /\ p \in 0 .. M - 1
              /\ c \in 0 .. size - 1 /\ p \in 0 .. size - 1
          BY <1>1, <2>2, <3>1, SMTT(30) DEF IsChild
        <4>2. idx[c] <= idx[p]
          BY <1>3, <3>1, <4>1 DEF HeapAt
        <4> QED
          BY <2>3, <3>1, <4>1, <4>2
      <3>2. ~IsChild(0, p)
        BY <2>2 DEF IsChild
      <3> QED
        BY <3>1, <3>2 DEF HeapAt
    <2>8. SortInv(new, s, n)
      BY <1>1, <2>2, <2>3, <2>4, <2>6, <2>7, SMTT(30) DEF SortInv, Lowest
    <2> QED
      BY <2>1, <2>3, <2>4, <2>8 DEF step
  <1> QED
    BY <1>1, <1>4, <1>5

\* When the sorter is done the entries ascend.
LEMMA SortEnds ==
    ASSUME NEW idx, NEW sort, NEW n \in Nat, SortInv(idx, sort, n), sort.at = "DONE"
    PROVE  \A i, j \in 0 .. n - 1 : i < j => idx[i] < idx[j]
  <1>1. sort.size = 1 /\ TailInOrder(idx, sort, n)
    BY DEF SortInv
  <1> QED
    BY <1>1 DEF TailInOrder
=============================================================================
