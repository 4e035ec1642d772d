------------------------- MODULE MemControllerProofs -------------------------
(***************************************************************************)
(* What is proved of the controller for every number of banks, lines, queue       *)
(* sizes and timings: the types of its queues and banks, the rows of the open-page *)
(* policy, and the data, that reads see what was accepted and the last write to a   *)
(* cell stays.                                                              *)
(***************************************************************************)
EXTENDS MemController, FiniteSetTheorems, SequenceTheorems, WellFoundedInduction, TLAPS

\* A sequence without one of its elements.
LEMMA RemoveAtIs ==
    ASSUME NEW T, NEW s \in Seq(T), NEW i \in 1 .. Len(s)
    PROVE  /\ RemoveAt(s, i) \in Seq(T)
           /\ Len(RemoveAt(s, i)) = Len(s) - 1
           /\ \A j \in 1 .. Len(s) - 1 :
                RemoveAt(s, i)[j] = IF j < i THEN s[j] ELSE s[j + 1]
<1> DEFINE u == SubSeq(s, 1, i - 1)
           v == SubSeq(s, i + 1, Len(s))
<1>1. Len(s) \in Nat /\ \A j \in 1 .. Len(s) : s[j] \in T
    BY ElementOfSeq, LenProperties
<1>2. /\ u \in Seq(T) /\ Len(u) = i - 1
      /\ \A j \in 1 .. i - 1 : u[j] = s[j]
    <2>1. \A j \in 1 .. i - 1 : s[j] \in T
        BY <1>1
    <2>2. /\ u \in Seq(T) /\ Len(u) = IF 1 <= i - 1 THEN (i - 1) - 1 + 1 ELSE 0
          /\ \A j \in 1 .. (i - 1) - 1 + 1 : u[j] = s[1 + j - 1]
        BY <1>1, <2>1, SubSeqProperties
    <2> HIDE DEF u
    <2> QED BY <1>1, <2>2
<1>3. /\ v \in Seq(T) /\ Len(v) = Len(s) - i
      /\ \A j \in 1 .. Len(s) - i : v[j] = s[i + j]
    <2>1. \A j \in i + 1 .. Len(s) : s[j] \in T
        BY <1>1
    <2>2. /\ v \in Seq(T)
          /\ Len(v) = IF i + 1 <= Len(s) THEN Len(s) - (i + 1) + 1 ELSE 0
          /\ \A j \in 1 .. Len(s) - (i + 1) + 1 : v[j] = s[(i + 1) + j - 1]
        BY <1>1, <2>1, SubSeqProperties
    <2> HIDE DEF v
    <2> QED BY <1>1, <2>2
<1>4. RemoveAt(s, i) = u \o v
    BY DEF RemoveAt
<1> HIDE DEF u, v
<1>5. /\ u \o v \in Seq(T) /\ Len(u \o v) = Len(u) + Len(v)
      /\ \A j \in 1 .. Len(u) + Len(v) :
            (u \o v)[j] = IF j <= Len(u) THEN u[j] ELSE v[j - Len(u)]
    BY <1>2, <1>3, ConcatProperties
<1>6. ASSUME NEW j \in 1 .. Len(s) - 1
      PROVE  (u \o v)[j] = IF j < i THEN s[j] ELSE s[j + 1]
    <2>1. j \in 1 .. Len(u) + Len(v)
        BY <1>1, <1>2, <1>3
    <2>2. CASE j < i
        BY <1>1, <1>2, <1>5, <2>1, <2>2
    <2>3. CASE ~(j < i)
        <3>1. j - Len(u) \in 1 .. Len(s) - i /\ i + (j - Len(u)) = j + 1
            BY <1>1, <1>2, <2>3
        <3>2. (u \o v)[j] = v[j - Len(u)]
            BY <1>1, <1>2, <1>5, <2>1, <2>3
        <3>3. v[j - Len(u)] = s[j + 1]
            BY <1>3, <3>1
        <3> QED BY <2>3, <3>2, <3>3
    <2> QED BY <2>2, <2>3
<1> QED BY <1>1, <1>2, <1>3, <1>4, <1>5, <1>6

LEMMA RemoveAtRange ==
    ASSUME NEW T, NEW s \in Seq(T), NEW i \in 1 .. Len(s)
    PROVE  /\ Range(RemoveAt(s, i)) \subseteq Range(s)
           /\ \A j \in 1 .. Len(s) : j # i => s[j] \in Range(RemoveAt(s, i))
<1> DEFINE r == RemoveAt(s, i)
<1>1. /\ r \in Seq(T) /\ Len(r) = Len(s) - 1
      /\ \A j \in 1 .. Len(s) - 1 : r[j] = IF j < i THEN s[j] ELSE s[j + 1]
    BY RemoveAtIs
<1> HIDE DEF r
<1>2. ASSUME NEW j \in DOMAIN r  PROVE  r[j] \in Range(s)
    <2>1. j \in 1 .. Len(s) - 1
        BY <1>1
    <2>2. r[j] = s[j] \/ r[j] = s[j + 1]
        BY <1>1, <2>1
    <2>3. j \in DOMAIN s /\ j + 1 \in DOMAIN s
        BY <2>1
    <2> QED BY <2>2, <2>3 DEF Range
<1>3. ASSUME NEW j \in 1 .. Len(s), j # i  PROVE  s[j] \in Range(r)
    <2>1. CASE j < i
        <3>1. j \in DOMAIN r /\ r[j] = s[j]
            BY <1>1, <2>1
        <3> QED BY <3>1 DEF Range
    <2>2. CASE j > i
        <3>1. j - 1 \in DOMAIN r /\ r[j - 1] = s[j]
            BY <1>1, <2>2
        <3> QED BY <3>1 DEF Range
    <2> QED BY <1>3, <2>1, <2>2
<1> QED BY <1>2, <1>3 DEF Range, r

-----------------------------------------------------------------------------
(* What the variables of the control hold *)

Data == UNION {[S -> Nat] : S \in SUBSET Cells}

Accesses ==
    [type : {"Read", "Write"}, id : Nat, line : Lines, off : Nat, cells : SUBSET Cells,
     data : Data, first : BOOLEAN, expect : Data,
     cmd : {"None", "Bypass", "RD", "RDA", "WR", "WRA"}]

Refreshes == {"REFPB", "REFAB"}
Mitigations == {"RFMPB", "RFMAB"}

Maints ==
    [type : {"Maint"}, cmd : {"PREPB"} \union Refreshes \union Mitigations, bank : Banks]

Ordinaries == {"Active", "Read", "Write"}
Queues == {"Active", "Priority", "Read", "Write"}

\* The ledger of the refresh manager.
RankStates(c) ==
    [credit : Int, postponed : Nat, pulled : Nat, cursor : 0 .. (NBanks \div c.ranks) - 1]

RefreshStates(c) == [rank : [Ranks(c) -> RankStates(c)], turn : Ranks(c)]

BankStates == [Banks -> [row : Nat, activating : BOOLEAN]]

ControlType ==
    /\ conf \in Confs
    /\ seq \in Nat
    /\ queue \in [Queues -> Seq(Accesses) \union Seq(Maints)]
    /\ \A k \in Ordinaries : queue[k] \in Seq(Accesses)
    /\ queue.Priority \in Seq(Maints) /\ Len(queue.Priority) <= PriorityMax
    /\ wait \in Seq(Maints)
    /\ bank \in BankStates
    /\ golden \in [Lines -> [Cells -> Nat]]
    /\ ref \in RefreshStates(conf)

LEMMA ConfIs ==
    ASSUME NEW c \in Confs
    PROVE  /\ c.fcfs \in BOOLEAN /\ c.dual \in BOOLEAN /\ c.split \in BOOLEAN
           /\ c.behavioral \in BOOLEAN /\ c.allBank \in BOOLEAN
           /\ c.ranks \in 1 .. NBanks /\ NBanks % c.ranks = 0
           /\ c.policy \in {"Open", "Closed", "Cap"}
           /\ c.requests \in Nat /\ c.deadlines \in Nat
BY ConfAssumption

LEMMA NoData == <<>> \in Data
<1>1. <<>> = [c \in {} |-> 0]
    OBVIOUS
<1>2. [c \in {} |-> 0] \in [{} -> Nat]
    OBVIOUS
<1>3. {} \in SUBSET Cells
    OBVIOUS
<1> QED BY <1>1, <1>2, <1>3 DEF Data

LEMMA DataIs ==
    ASSUME NEW S \in SUBSET Cells, NEW f \in [S -> Nat]
    PROVE  f \in Data
BY DEF Data

LEMMA BankOfAccess ==
    ASSUME NEW r \in Accesses
    PROVE  BankIdx(r) = BankOf[r.line] /\ BankIdx(r) \in Banks
           /\ Row(r) = RowOf[r.line] /\ Row(r) \in Nat \ {0} /\ First(r) = r.first
BY LineAssumption DEF BankIdx, Row, First, Accesses

LEMMA BankOfMaint ==
    ASSUME NEW r \in Maints
    PROVE  BankIdx(r) = r.bank /\ BankIdx(r) \in Banks /\ Row(r) = NoRow /\ ~First(r)
BY DEF BankIdx, Row, First, Maints

-----------------------------------------------------------------------------
(* The priority queue when a command is chosen *)

LEMMA LeastNumber ==
    ASSUME NEW T \in SUBSET Nat, T # {}
    PROVE  \E x \in T : \A y \in T : x <= y
<1> DEFINE Less == OpToRel(<, Nat)
<1>1. IsWellFoundedOn(Less, Nat)
    BY NatLessThanWellFounded
<1>2. \A x, y \in Nat : y < x => <<y, x>> \in Less
    <2>1. Less = {p \in Nat \X Nat : p[1] < p[2]}
        BY DEF OpToRel
    <2> QED BY <2>1
<1> HIDE DEF Less
<1>3. PICK x \in T : \A y \in T : <<y, x>> \notin Less
    BY <1>1, WFMin, Zenon
<1>4. \A y \in T : ~(y < x)
    BY <1>2, <1>3
<1> QED BY <1>4

\* A set of numbers up to n has a greatest one.
LEMMA GreatestNumber ==
    ASSUME NEW n \in Nat, NEW T \in SUBSET (0 .. n), T # {}
    PROVE  Max(T) \in T /\ \A y \in T : y <= Max(T)
<1> DEFINE U == {n - x : x \in T}
<1>1. U \in SUBSET Nat /\ U # {}
    <2>1. \A x \in T : n - x \in Nat
        OBVIOUS
    <2> QED BY <2>1
<1>2. PICK u \in U : \A y \in U : u <= y
    BY <1>1, LeastNumber
<1>3. PICK x \in T : u = n - x
    BY <1>2
<1>4. \A y \in T : y <= x
    <2>1. \A y \in T : n - x <= n - y
        BY <1>2, <1>3
    <2> QED BY <2>1
<1>5. \E z \in T : \A y \in T : z >= y
    BY <1>4
<1>6. Max(T) \in T /\ \A y \in T : Max(T) >= y
    BY <1>5 DEF Max
<1> QED BY <1>6

LEMMA LesserIs ==
    ASSUME NEW a \in Nat, NEW b \in Nat
    PROVE  Min({a, b}) = IF a <= b THEN a ELSE b
BY DEF Min

\* Maintenance moves from the waiting list to the priority queue, as much as it has
\* room for, and satisfied precharges leave it.
LEMMA PriorityIs ==
    ASSUME ControlType
    PROVE  /\ PriorityNow \in Seq(Maints) /\ WaitNow \in Seq(Maints)
           /\ Moved \in 0 .. Len(wait)
           /\ Satisfied \in 0 .. Len(PriorityNow)
           /\ PriorityLeft \in Seq(Maints)
           /\ Len(PriorityLeft) = Len(PriorityNow) - Satisfied
           /\ \A i \in 1 .. Len(PriorityLeft) : PriorityLeft[i] = PriorityNow[Satisfied + i]
           /\ Len(PriorityNow) = Len(queue.Priority) + Moved
           /\ Len(PriorityNow) <= PriorityMax
           /\ \A i \in 1 .. Len(queue.Priority) : PriorityNow[i] = queue.Priority[i]
           /\ \A i \in 1 .. Moved : PriorityNow[Len(queue.Priority) + i] = wait[i]
           /\ Len(WaitNow) = Len(wait) - Moved
           /\ \A i \in 1 .. Len(WaitNow) : WaitNow[i] = wait[Moved + i]
           /\ \A i \in 1 .. Satisfied : PriorityNow[i].cmd = "PREPB"
<1> DEFINE q == queue.Priority
           a == SubSeq(wait, 1, Moved)
<1>1. /\ Len(q) \in Nat /\ Len(wait) \in Nat /\ PriorityMax \in Nat /\ Len(q) <= PriorityMax
      /\ q \in Seq(Maints) /\ wait \in Seq(Maints)
      /\ \A i \in 1 .. Len(wait) : wait[i] \in Maints
      /\ \A i \in 1 .. Len(q) : q[i] \in Maints
    BY QueueAssumption, ElementOfSeq, LenProperties DEF ControlType
<1>2. Moved \in 0 .. Len(wait) /\ Moved <= PriorityMax - Len(q)
    <2>1. PriorityMax - Len(q) \in Nat
        BY <1>1
    <2>2. \/ Moved = Len(wait) /\ Len(wait) <= PriorityMax - Len(q)
          \/ Moved = PriorityMax - Len(q) /\ ~(Len(wait) <= PriorityMax - Len(q))
        <3> DEFINE n == Len(wait)
                   m == PriorityMax - Len(q)
        <3>1. Moved = Min({n, m})
            BY DEF Moved
        <3>2. n \in Nat /\ m \in Nat
            BY <1>1, <2>1
        <3> HIDE DEF n, m
        <3>3. Min({n, m}) = IF n <= m THEN n ELSE m
            BY <3>2, LesserIs
        <3>4. \/ Moved = n /\ n <= m
              \/ Moved = m /\ ~(n <= m)
            BY <3>1, <3>3
        <3> QED BY <3>4 DEF n, m
    <2> QED BY <1>1, <2>1, <2>2
<1>3. /\ a \in Seq(Maints) /\ Len(a) = Moved
      /\ \A i \in 1 .. Moved : a[i] = wait[i]
    <2>1. \A i \in 1 .. Moved : wait[i] \in Maints
        BY <1>1, <1>2
    <2>2. /\ a \in Seq(Maints)
          /\ Len(a) = IF 1 <= Moved THEN Moved - 1 + 1 ELSE 0
          /\ \A i \in 1 .. Moved - 1 + 1 : a[i] = wait[1 + i - 1]
        BY <1>1, <1>2, <2>1, SubSeqProperties
    <2> HIDE DEF a
    <2> QED BY <1>1, <1>2, <2>2
<1>4. /\ WaitNow \in Seq(Maints) /\ Len(WaitNow) = Len(wait) - Moved
      /\ \A i \in 1 .. Len(WaitNow) : WaitNow[i] = wait[Moved + i]
    <2>1. \A i \in Moved + 1 .. Len(wait) : wait[i] \in Maints
        BY <1>1, <1>2
    <2>2. /\ WaitNow \in Seq(Maints)
          /\ Len(WaitNow) = IF Moved + 1 <= Len(wait) THEN Len(wait) - (Moved + 1) + 1 ELSE 0
          /\ \A i \in 1 .. Len(wait) - (Moved + 1) + 1 : WaitNow[i] = wait[Moved + 1 + i - 1]
        BY <1>1, <1>2, <2>1, SubSeqProperties DEF WaitNow
    <2> QED BY <1>1, <1>2, <2>2
<1>5. PriorityNow = q \o a
    BY DEF PriorityNow
<1> HIDE DEF q, a
<1>6. /\ PriorityNow \in Seq(Maints) /\ Len(PriorityNow) = Len(q) + Moved
      /\ \A i \in 1 .. Len(q) + Moved :
            PriorityNow[i] = IF i <= Len(q) THEN q[i] ELSE a[i - Len(q)]
    BY <1>1, <1>3, <1>5, ConcatProperties
<1>7. /\ \A i \in 1 .. Len(q) : PriorityNow[i] = q[i]
      /\ Len(PriorityNow) <= PriorityMax
    BY <1>1, <1>2, <1>6
<1>8. ASSUME NEW i \in 1 .. Moved  PROVE  PriorityNow[Len(q) + i] = wait[i]
    <2>1. Len(q) + i \in 1 .. Len(q) + Moved /\ ~(Len(q) + i <= Len(q))
        BY <1>1, <1>2
    <2>2. PriorityNow[Len(q) + i] = a[(Len(q) + i) - Len(q)]
        BY <1>6, <2>1
    <2>3. (Len(q) + i) - Len(q) = i
        BY <1>1, <1>2
    <2> QED BY <1>3, <2>2, <2>3
<1> DEFINE K == {k \in 0 .. Len(PriorityNow) : \A i \in 1 .. k :
                    /\ PriorityNow[i].cmd = "PREPB"
                    /\ ~Busy(bank, PriorityNow[i].bank)}
<1>9. Len(PriorityNow) \in Nat
    BY <1>6, LenProperties
<1>10. Satisfied \in K
    <2>1. 0 \in K
        BY <1>9
    <2>2. K \in SUBSET (0 .. Len(PriorityNow)) /\ K # {}
        BY <2>1
    <2>3. Satisfied = Max(K)
        BY DEF Satisfied
    <2> HIDE DEF K
    <2> QED BY <1>9, <2>2, <2>3, GreatestNumber
<1>11. /\ Satisfied \in 0 .. Len(PriorityNow)
       /\ \A i \in 1 .. Satisfied : PriorityNow[i].cmd = "PREPB"
    BY <1>10
<1>12. /\ PriorityLeft \in Seq(Maints) /\ Len(PriorityLeft) = Len(PriorityNow) - Satisfied
       /\ \A i \in 1 .. Len(PriorityLeft) : PriorityLeft[i] = PriorityNow[Satisfied + i]
    <2> DEFINE p == PriorityNow
               n == Satisfied
    <2>1. \A i \in n + 1 .. Len(p) : p[i] \in Maints
        BY <1>6, <1>9, <1>11, ElementOfSeq
    <2>2. PriorityLeft = SubSeq(p, n + 1, Len(p))
        BY DEF PriorityLeft
    <2> HIDE DEF p, n
    <2>3. n \in Nat /\ Len(p) \in Nat /\ n <= Len(p)
        BY <1>9, <1>11 DEF p, n
    <2>4. /\ PriorityLeft \in Seq(Maints)
          /\ Len(PriorityLeft) = IF n + 1 <= Len(p) THEN Len(p) - (n + 1) + 1 ELSE 0
          /\ \A i \in 1 .. Len(p) - (n + 1) + 1 : PriorityLeft[i] = p[n + 1 + i - 1]
        BY <2>1, <2>2, <2>3, SubSeqProperties
    <2>5. \A i \in 1 .. Len(PriorityLeft) : PriorityLeft[i] = p[n + i]
        BY <2>3, <2>4
    <2>6. Len(PriorityLeft) = Len(p) - n
        BY <2>3, <2>4
    <2> QED BY <2>4, <2>5, <2>6 DEF p, n
<1> QED BY <1>2, <1>4, <1>6, <1>7, <1>8, <1>11, <1>12 DEF q

-----------------------------------------------------------------------------
(* The banks of a rank *)

LEMMA Quotient ==
    ASSUME NEW a \in Nat, NEW k \in Nat \ {0}
    PROVE  /\ a \div k \in Nat /\ a % k \in 0 .. (k - 1)
           /\ a = k * (a \div k) + (a % k)
OBVIOUS

LEMMA QuotientIs ==
    ASSUME NEW k \in Nat \ {0}, NEW r \in Nat, NEW c \in 0 .. k - 1
    PROVE  r * k + c \in Nat /\ (r * k + c) \div k = r
OBVIOUS

LEMMA Monotone ==
    ASSUME NEW k \in Nat, NEW a \in Nat, NEW b \in Nat, a <= b
    PROVE  a * k <= b * k /\ a * k \in Nat /\ b * k \in Nat
OBVIOUS

LEMMA BankOfRank ==
    ASSUME NEW c \in Confs, NEW r \in Ranks(c), NEW cur \in 0 .. (NBanks \div c.ranks) - 1
    PROVE  LET first == CHOOSE b \in RankBanks(c.ranks, r) :
                            \A d \in RankBanks(c.ranks, r) : b <= d
           IN  /\ first \in Banks /\ RankOf(c.ranks, first) = r
               /\ first + cur \in Banks /\ RankOf(c.ranks, first + cur) = r
<1> DEFINE n == c.ranks
           k == NBanks \div n
           B == RankBanks(n, r)
           first == CHOOSE b \in B : \A d \in B : b <= d
<1>1. n \in 1 .. NBanks /\ NBanks % n = 0 /\ NBanks \in Nat \ {0} /\ r \in 0 .. n - 1
    BY ConfIs, LineAssumption DEF Ranks
<1>0. cur \in 0 .. k - 1
    OBVIOUS
<1> HIDE DEF n
<1>2. k \in Nat \ {0} /\ n * k = NBanks
    BY <1>1, Quotient, SMTT(30)
<1>3. B = {b \in Banks : b \div k = r}
    BY DEF RankBanks
<1> HIDE DEF k, B
<1>4. (r + 1) * k <= n * k /\ r * k \in Nat
    BY <1>1, <1>2, Monotone
<1>5. \A e \in 0 .. k - 1 : r * k + e \in Banks /\ (r * k + e) \div k = r
    <2> TAKE e \in 0 .. k - 1
    <2>1. r * k + e \in Nat /\ (r * k + e) \div k = r
        BY <1>1, <1>2, QuotientIs
    <2>2. r * k + e < n * k
        BY <1>1, <1>2, <1>4
    <2> QED BY <1>1, <1>2, <2>1, <2>2 DEF Banks
<1>6. r * k \in B
    <2>1. 0 \in 0 .. k - 1 /\ r * k + 0 = r * k
        BY <1>2, <1>4
    <2> QED BY <1>3, <1>5, <2>1
<1>7. \A d \in B : d \in Nat /\ r * k <= d
    <2> TAKE d \in B
    <2>1. d \in Nat /\ d \div k = r
        BY <1>1, <1>3 DEF Banks
    <2>2. d = k * r + (d % k) /\ d % k \in 0 .. (k - 1)
        BY <1>2, <2>1, Quotient
    <2>3. k * r \in Nat /\ k * r = r * k
        BY <1>1, <1>2
    <2> QED BY <1>2, <2>1, <2>2, <2>3
<1>8. first = r * k
    <2>1. \E b \in B : \A d \in B : b <= d
        BY <1>6, <1>7
    <2>2. first \in B /\ \A d \in B : first <= d
        BY <2>1
    <2> HIDE DEF first
    <2> QED BY <1>4, <1>6, <1>7, <2>2
<1>9. first \in B
    BY <1>6, <1>8
<1>10. first + cur \in Banks /\ (first + cur) \div k = r
    BY <1>0, <1>5, <1>8
<1> HIDE DEF first
<1>11. /\ first \in Banks /\ RankOf(n, first) = r
       /\ first + cur \in Banks /\ RankOf(n, first + cur) = r
    BY <1>3, <1>9, <1>10 DEF RankOf, k
<1> QED BY <1>11 DEF first, B, n

-----------------------------------------------------------------------------
(* What the managers hold, and what a tick of the refresh manager does *)

\* The credit of a rank, one more when its deadline passes.
After(rf, passed, r) == rf.rank[r].credit + (IF r \in passed THEN 1 ELSE 0)

LEMMA RanksAre ==
    ASSUME NEW c \in Confs
    PROVE  /\ c.ranks \in Nat \ {0} /\ (NBanks \div c.ranks) \in Nat \ {0}
           /\ \A r \in Ranks(c) : r \in Nat
           /\ \A x \in Nat : x % c.ranks \in Ranks(c)
<1> DEFINE n == c.ranks
<1>1. n \in 1 .. NBanks /\ NBanks % n = 0 /\ NBanks \in Nat \ {0}
    BY ConfIs, LineAssumption
<1>2. \A r \in Ranks(c) : r \in Nat
    BY <1>1 DEF Ranks
<1>3. n \in Nat \ {0}
    BY <1>1
<1>4. Ranks(c) = 0 .. (n - 1)
    BY DEF Ranks
<1> HIDE DEF n
<1>5. \A x \in Nat : x % n \in 0 .. (n - 1)
    BY <1>3, Quotient
<1>6. NBanks \div n \in Nat \ {0}
    BY <1>1, <1>3, Quotient
<1> QED BY <1>2, <1>3, <1>4, <1>5, <1>6 DEF n

LEMMA FirstRankIs ==
    ASSUME NEW c \in Confs, NEW rf \in RefreshStates(c), NEW S \in SUBSET Ranks(c), S # {}
    PROVE  FirstRank(c, rf, S) \in S
<1> DEFINE n == c.ranks
           offset(r) == (r + n - rf.turn) % n
           T == {offset(r) : r \in S}
<1>1. n \in Nat \ {0} /\ Ranks(c) = 0 .. n - 1 /\ rf.turn \in Ranks(c)
    BY RanksAre DEF Ranks, RefreshStates
<1>2. \A r \in S : offset(r) \in Nat
    <2> TAKE r \in S
    <2> DEFINE x == r + n - rf.turn
    <2>1. x \in Nat
        BY <1>1
    <2> HIDE DEF n, x
    <2>2. x % n \in 0 .. (n - 1)
        BY <1>1, <2>1, Quotient
    <2>3. x % n \in Nat
        BY <1>1, <2>2
    <2> QED BY <2>3 DEF x
<1> HIDE DEF offset
<1>3. T \in SUBSET Nat /\ T # {}
    BY <1>2
<1>4. PICK x \in T : \A y \in T : x <= y
    BY <1>3, LeastNumber
<1>5. \E r \in S : \A q \in S : offset(r) <= offset(q)
    BY <1>4
<1>6. FirstRank(c, rf, S) = CHOOSE r \in S : \A q \in S : offset(r) <= offset(q)
    BY DEF FirstRank, offset, n
<1> QED BY <1>5, <1>6

LEMMA CreditedIs ==
    ASSUME NEW c \in Confs, NEW rf \in RefreshStates(c), NEW passed
    PROVE  /\ Credited(c, rf, passed) \in RefreshStates(c)
           /\ \A r \in Ranks(c) :
                Credited(c, rf, passed).rank[r].credit = After(rf, passed, r)
<1> DEFINE k == NBanks \div c.ranks
           next(r) == [rf.rank[r] EXCEPT !.credit = After(rf, passed, r),
                         !.pulled = IF After(rf, passed, r) >= 0 THEN 0 ELSE @]
<1>1. /\ rf.rank \in [Ranks(c) -> RankStates(c)] /\ rf.turn \in Ranks(c)
      /\ rf = [rank |-> rf.rank, turn |-> rf.turn]
    BY DEF RefreshStates
<1>2. \A r \in Ranks(c) : rf.rank[r] \in RankStates(c)
    BY <1>1
<1>3. \A r \in Ranks(c) : After(rf, passed, r) \in Int
    BY <1>2 DEF After, RankStates
<1>4. ASSUME NEW r \in Ranks(c)
      PROVE  next(r) \in RankStates(c) /\ next(r).credit = After(rf, passed, r)
    <2>1. rf.rank[r] \in RankStates(c) /\ After(rf, passed, r) \in Int
        BY <1>2, <1>3
    <2> QED BY <2>1 DEF RankStates
<1>5. Credited(c, rf, passed) = [rank |-> [r \in Ranks(c) |-> next(r)], turn |-> rf.turn]
    <2> DEFINE credit(r) == rf.rank[r].credit + (IF r \in passed THEN 1 ELSE 0)
               one(r) == [rf.rank[r] EXCEPT !.credit = credit(r),
                            !.pulled = IF credit(r) >= 0 THEN 0 ELSE @]
    <2>1. Credited(c, rf, passed) = [rank |-> [r \in Ranks(c) |-> one(r)], turn |-> rf.turn]
        BY DEF Credited
    <2>2. \A r \in Ranks(c) : one(r) = next(r)
        BY DEF After
    <2> HIDE DEF one, next
    <2> QED BY <2>1, <2>2
<1> HIDE DEF next
<1> QED BY <1>1, <1>4, <1>5 DEF RefreshStates

LEMMA BatchIs ==
    ASSUME NEW c \in Confs, NEW rf \in RefreshStates(c), NEW r \in Ranks(c)
    PROVE  \E m \in Maints : /\ Batch(c, rf, r) = <<m>>
                             /\ m.cmd \in Refreshes /\ RankOf(c.ranks, m.bank) = r
<1> DEFINE first == CHOOSE b \in RankBanks(c.ranks, r) :
                        \A d \in RankBanks(c.ranks, r) : b <= d
           cur == rf.rank[r].cursor
<1>1. rf.rank[r] \in RankStates(c)
    BY DEF RefreshStates
<1>2. cur \in 0 .. (NBanks \div c.ranks) - 1
    BY <1>1 DEF RankStates
<1>3. /\ first \in Banks /\ RankOf(c.ranks, first) = r
      /\ first + cur \in Banks /\ RankOf(c.ranks, first + cur) = r
    BY <1>2, BankOfRank
<1>4. Batch(c, rf, r) = IF c.allBank THEN <<Maint("REFAB", first)>>
                                     ELSE <<Maint("REFPB", first + cur)>>
    BY DEF Batch
<1> HIDE DEF first, cur
<1>5. \A cmd \in Refreshes, b \in Banks :
        Maint(cmd, b) \in Maints /\ Maint(cmd, b).cmd = cmd /\ Maint(cmd, b).bank = b
    BY DEF Maint, Maints
<1>6. "REFAB" \in Refreshes /\ "REFPB" \in Refreshes
    BY DEF Refreshes
<1>7. CASE c.allBank
    BY <1>3, <1>4, <1>5, <1>6, <1>7
<1>8. CASE ~c.allBank
    BY <1>3, <1>4, <1>5, <1>6, <1>8
<1> QED BY <1>7, <1>8

LEMMA SeededIs ==
    ASSUME NEW c \in Confs, NEW rf \in RefreshStates(c), NEW s \in Ranks(c)
    PROVE  /\ Seeded(c, rf, s) \in RefreshStates(c)
           /\ \A r \in Ranks(c) : Seeded(c, rf, s).rank[r].credit =
                IF r = s THEN rf.rank[r].credit - 1 ELSE rf.rank[r].credit
<1> DEFINE k == NBanks \div c.ranks
           x == rf.rank[s]
           v == IF c.allBank THEN x.cursor ELSE (x.cursor + 1) % k
           y == SeededRank(c, x)
           turn == (s + 1) % c.ranks
<1>1. /\ rf.rank \in [Ranks(c) -> RankStates(c)] /\ rf.turn \in Ranks(c)
      /\ rf = [rank |-> rf.rank, turn |-> rf.turn] /\ x \in RankStates(c)
    BY DEF RefreshStates
<1>2. k \in Nat \ {0} /\ s \in Nat /\ turn \in Ranks(c)
    BY RanksAre
<1>3. x \in [credit : Int, postponed : Nat, pulled : Nat, cursor : 0 .. k - 1]
    BY <1>1 DEF RankStates
<1>4. Seeded(c, rf, s) = [rank |-> [rf.rank EXCEPT ![s] = y], turn |-> turn]
    BY DEF Seeded
<1>5. y = [x EXCEPT !.credit = x.credit - 1, !.cursor = v]
    BY DEF SeededRank
<1> HIDE DEF turn, v, y
<1>6. v \in 0 .. k - 1
    <2>1. (x.cursor + 1) \in Nat /\ x.cursor \in 0 .. k - 1
        BY <1>2, <1>3
    <2> HIDE DEF k, x
    <2>2. (x.cursor + 1) % k \in 0 .. k - 1
        BY <1>2, <2>1, Quotient
    <2> QED BY <2>1, <2>2 DEF v
<1> HIDE DEF k, x
<1>7. x.credit - 1 \in Int
    BY <1>3
<1>8. /\ y \in [credit : Int, postponed : Nat, pulled : Nat, cursor : 0 .. k - 1]
      /\ y.credit = x.credit - 1
    <2> DEFINE u == x.credit - 1
               K == 0 .. k - 1
    <2>1. /\ x \in [credit : Int, postponed : Nat, pulled : Nat, cursor : K]
          /\ u \in Int /\ v \in K /\ y = [x EXCEPT !.credit = u, !.cursor = v]
        BY <1>3, <1>5, <1>6, <1>7
    <2> HIDE DEF u, K
    <2>2. y \in [credit : Int, postponed : Nat, pulled : Nat, cursor : K] /\ y.credit = u
        BY <2>1
    <2> QED BY <2>2 DEF u, K
<1>9. y \in RankStates(c)
    BY <1>8 DEF RankStates, k
<1> QED BY <1>1, <1>2, <1>4, <1>8, <1>9 DEF RefreshStates, x

WithPostponed(x, s, v) == [x EXCEPT !.rank[s].postponed = v]
WithPulled(x, s, v) == [x EXCEPT !.rank[s].pulled = v]

\* What changing another counter of a rank leaves alone.
LEMMA OtherCounters ==
    ASSUME NEW c \in Confs, NEW x \in RefreshStates(c), NEW s \in Ranks(c), NEW v \in Nat
    PROVE  /\ x.rank[s].postponed \in Nat /\ x.rank[s].pulled \in Nat
           /\ WithPostponed(x, s, v) \in RefreshStates(c)
           /\ WithPulled(x, s, v) \in RefreshStates(c)
           /\ \A r \in Ranks(c) :
                /\ WithPostponed(x, s, v).rank[r].credit = x.rank[r].credit
                /\ WithPulled(x, s, v).rank[r].credit = x.rank[r].credit
<1>1. /\ x.rank \in [Ranks(c) -> RankStates(c)] /\ x.turn \in Ranks(c)
      /\ x = [rank |-> x.rank, turn |-> x.turn] /\ x.rank[s] \in RankStates(c)
    BY DEF RefreshStates
<1>2. x.rank[s].postponed \in Nat /\ x.rank[s].pulled \in Nat
    BY <1>1 DEF RankStates
<1>3. /\ WithPostponed(x, s, v) \in RefreshStates(c)
      /\ \A r \in Ranks(c) : WithPostponed(x, s, v).rank[r].credit = x.rank[r].credit
    <2> DEFINE y == [x.rank[s] EXCEPT !.postponed = v]
    <2>1. y \in RankStates(c) /\ y.credit = x.rank[s].credit
        BY <1>1 DEF RankStates
    <2>2. WithPostponed(x, s, v) = [rank |-> [x.rank EXCEPT ![s] = y], turn |-> x.turn]
        BY <1>1 DEF WithPostponed
    <2> HIDE DEF y
    <2> QED BY <1>1, <2>1, <2>2 DEF RefreshStates
<1>4. /\ WithPulled(x, s, v) \in RefreshStates(c)
      /\ \A r \in Ranks(c) : WithPulled(x, s, v).rank[r].credit = x.rank[r].credit
    <2> DEFINE y == [x.rank[s] EXCEPT !.pulled = v]
    <2>1. y \in RankStates(c) /\ y.credit = x.rank[s].credit
        BY <1>1 DEF RankStates
    <2>2. WithPulled(x, s, v) = [rank |-> [x.rank EXCEPT ![s] = y], turn |-> x.turn]
        BY <1>1 DEF WithPulled
    <2> HIDE DEF y
    <2> QED BY <1>1, <2>1, <2>2 DEF RefreshStates
<1> QED BY <1>2, <1>3, <1>4

\* A tick of the refresh manager counts the deadlines passed and seeds at most one
\* refresh, of a rank whose credit it takes.
LEMMA RefreshTickIs ==
    ASSUME NEW c \in Confs, NEW rf \in RefreshStates(c), NEW passed, NEW window,
           NEW busy, NEW quiet
    PROVE  LET t == RefreshTick(c, rf, passed, window, busy, quiet) IN
           /\ t.ref \in RefreshStates(c)
           /\ \/ /\ t.batch = <<>>
                 /\ \A r \in Ranks(c) : t.ref.rank[r].credit = After(rf, passed, r)
              \/ \E m \in Maints :
                    /\ t.batch = <<m>> /\ m.cmd \in Refreshes
                    /\ \A r \in Ranks(c) : t.ref.rank[r].credit =
                         IF r = RankOf(c.ranks, m.bank) THEN After(rf, passed, r) - 1
                                                        ELSE After(rf, passed, r)
<1> DEFINE now == Credited(c, rf, passed)
           owing == {r \in Ranks(c) : /\ now.rank[r].credit > 0
                                      /\ ~Waits(now, passed, busy, r)}
           early == {r \in Ranks(c) : /\ quiet /\ r \in window
                                      /\ now.rank[r].credit = 0
                                      /\ now.rank[r].pulled < PullinLimit}
           served == FirstRank(c, now, owing)
           ahead == FirstRank(c, now, early)
           after == Seeded(c, now, served)
           first == Seeded(c, now, ahead)
           t == RefreshTick(c, rf, passed, window, busy, quiet)
<1>1. t = CASE owing # {} /\ MayPostpone(c, now, passed, busy, served) ->
                [ref |-> [rank |-> [now.rank EXCEPT ![served].postponed = @ + 1],
                          turn |-> (served + 1) % c.ranks],
                 batch |-> <<>>]
          [] owing # {} /\ ~MayPostpone(c, now, passed, busy, served) ->
                [ref |-> IF after.rank[served].credit > 0 THEN after
                         ELSE [after EXCEPT !.rank[served].postponed = 0],
                 batch |-> Batch(c, now, served)]
          [] owing = {} /\ early # {} ->
                [ref |-> [first EXCEPT !.rank[ahead].pulled = @ + 1],
                 batch |-> Batch(c, now, ahead)]
          [] OTHER -> [ref |-> now, batch |-> <<>>]
    BY DEF RefreshTick
<1>2. /\ now \in RefreshStates(c)
      /\ \A r \in Ranks(c) : now.rank[r].credit = After(rf, passed, r)
    BY CreditedIs
<1>3. owing \in SUBSET Ranks(c) /\ early \in SUBSET Ranks(c)
    OBVIOUS
<1> HIDE DEF now, owing, early
<1>4. owing # {} => served \in Ranks(c)
    BY <1>2, <1>3, FirstRankIs
<1>5. early # {} => ahead \in Ranks(c)
    BY <1>2, <1>3, FirstRankIs
<1> HIDE DEF served, ahead, t
<1>7. CASE owing # {} /\ MayPostpone(c, now, passed, busy, served)
    <2> DEFINE y == [now.rank[served] EXCEPT !.postponed = @ + 1]
    <2>1. t.ref = [rank |-> [now.rank EXCEPT ![served] = y], turn |-> (served + 1) % c.ranks]
          /\ t.batch = <<>>
        BY <1>1, <1>7
    <2>2. served \in Ranks(c) /\ served \in Nat /\ (served + 1) % c.ranks \in Ranks(c)
        BY <1>4, <1>7, RanksAre
    <2>3. now.rank \in [Ranks(c) -> RankStates(c)] /\ now.rank[served] \in RankStates(c)
        BY <1>2, <2>2 DEF RefreshStates
    <2>4. y \in RankStates(c) /\ y.credit = now.rank[served].credit
        BY <2>3 DEF RankStates
    <2> HIDE DEF y
    <2>5. t.ref \in RefreshStates(c)
        BY <2>1, <2>2, <2>3, <2>4 DEF RefreshStates
    <2>6. \A r \in Ranks(c) : t.ref.rank[r].credit = now.rank[r].credit
        BY <2>1, <2>2, <2>3, <2>4
    <2> QED BY <1>2, <2>1, <2>5, <2>6 DEF t
<1>8. CASE owing # {} /\ ~MayPostpone(c, now, passed, busy, served)
    <2>1. /\ t.ref = IF after.rank[served].credit > 0 THEN after
                     ELSE [after EXCEPT !.rank[served].postponed = 0]
          /\ t.batch = Batch(c, now, served)
        BY <1>1, <1>8
    <2>2. served \in Ranks(c)
        BY <1>4, <1>8
    <2>3. /\ after \in RefreshStates(c)
          /\ \A r \in Ranks(c) : after.rank[r].credit =
                IF r = served THEN now.rank[r].credit - 1 ELSE now.rank[r].credit
        BY <1>2, <2>2, SeededIs
    <2> HIDE DEF after
    <2>4. /\ WithPostponed(after, served, 0) \in RefreshStates(c)
          /\ \A r \in Ranks(c) :
                WithPostponed(after, served, 0).rank[r].credit = after.rank[r].credit
        BY <2>2, <2>3, OtherCounters
    <2>5. t.ref = after \/ t.ref = WithPostponed(after, served, 0)
        BY <2>1 DEF WithPostponed
    <2>6. t.ref \in RefreshStates(c) /\ \A r \in Ranks(c) : t.ref.rank[r].credit = after.rank[r].credit
        BY <2>3, <2>4, <2>5
    <2>7. PICK m \in Maints : /\ Batch(c, now, served) = <<m>>
                              /\ m.cmd \in Refreshes /\ RankOf(c.ranks, m.bank) = served
        BY <1>2, <2>2, BatchIs
    <2>8. \A r \in Ranks(c) : t.ref.rank[r].credit =
                         IF r = RankOf(c.ranks, m.bank) THEN After(rf, passed, r) - 1
                                                        ELSE After(rf, passed, r)
        BY <1>2, <2>3, <2>6, <2>7
    <2> QED BY <2>1, <2>6, <2>7, <2>8 DEF t
<1>9. CASE owing = {} /\ early # {}
    <2>1. /\ t.ref = [first EXCEPT !.rank[ahead].pulled = first.rank[ahead].pulled + 1]
          /\ t.batch = Batch(c, now, ahead)
        BY <1>1, <1>9
    <2>2. ahead \in Ranks(c)
        BY <1>5, <1>9
    <2>3. /\ first \in RefreshStates(c)
          /\ \A r \in Ranks(c) : first.rank[r].credit =
                IF r = ahead THEN now.rank[r].credit - 1 ELSE now.rank[r].credit
        BY <1>2, <2>2, SeededIs
    <2> HIDE DEF first
    <2>4. first.rank[ahead].pulled + 1 \in Nat
        BY <2>2, <2>3, OtherCounters
    <2>5. t.ref \in RefreshStates(c) /\ \A r \in Ranks(c) : t.ref.rank[r].credit = first.rank[r].credit
        <3> DEFINE v == first.rank[ahead].pulled + 1
        <3>1. v \in Nat /\ t.ref = WithPulled(first, ahead, v)
            BY <2>1, <2>4 DEF WithPulled
        <3> HIDE DEF v
        <3>2. /\ WithPulled(first, ahead, v) \in RefreshStates(c)
              /\ \A r \in Ranks(c) :
                    WithPulled(first, ahead, v).rank[r].credit = first.rank[r].credit
            BY <2>2, <2>3, <3>1, OtherCounters
        <3> QED BY <3>1, <3>2
    <2>6. PICK m \in Maints : /\ Batch(c, now, ahead) = <<m>>
                              /\ m.cmd \in Refreshes /\ RankOf(c.ranks, m.bank) = ahead
        BY <1>2, <2>2, BatchIs
    <2>7. \A r \in Ranks(c) : t.ref.rank[r].credit =
                         IF r = RankOf(c.ranks, m.bank) THEN After(rf, passed, r) - 1
                                                        ELSE After(rf, passed, r)
        BY <1>2, <2>3, <2>5, <2>6
    <2> QED BY <2>1, <2>5, <2>6, <2>7 DEF t
<1>10. CASE owing = {} /\ early = {}
    <2>1. t.ref = now /\ t.batch = <<>>
        BY <1>1, <1>10
    <2> QED BY <1>2, <2>1 DEF t
<1> QED BY <1>7, <1>8, <1>9, <1>10

-----------------------------------------------------------------------------
(* What is chosen, and where a request goes when its command has issued *)

\* A choice is in its queue, eligible, legal and taken by the PHY.
LEMMA ScheduledIs ==
    ASSUME NEW kind, NEW bus, NEW i \in Scheduled(kind, bus)
    PROVE  /\ i \in DOMAIN queue[kind]
           /\ Eligible(kind, queue[kind][i], bus) /\ LegalNext(queue[kind][i])
           /\ Admitted(queue[kind][i])
<1> DEFINE q == queue[kind]
           eligible == {j \in DOMAIN q : Eligible(kind, q[j], bus)}
           legal == {j \in eligible : LegalNext(q[j])}
           refused == {j \in legal : ~Admitted(q[j])}
<1>1. i \in Selected(q, eligible \ refused, legal \ refused)
    BY DEF Scheduled
<1>2. i \in legal \ refused
    <2> HIDE DEF q, eligible, legal, refused
    <2> QED BY <1>1 DEF Selected
<1> QED BY <1>2

LEMMA OrdinaryChoiceIs ==
    ASSUME NEW bus, NEW p \in OrdinaryChoices(bus)
    PROVE  p[1] \in {"Read", "Write"} /\ p[2] \in Scheduled(p[1], bus)
<1> DEFINE pick(kind) == {<<kind, i>> : i \in Scheduled(kind, bus)}
<1>1. \A kind : \A x \in pick(kind) : x[1] = kind /\ x[2] \in Scheduled(kind, bus)
    OBVIOUS
<1>2. p \in pick("Read") \/ p \in pick("Write")
    BY DEF OrdinaryChoices
<1> HIDE DEF pick
<1> QED BY <1>1, <1>2

Marked(r, cmd) == [r EXCEPT !.first = @ \/ cmd = "ACT1"]

LEMMA MarkedIs ==
    ASSUME NEW r \in Accesses, NEW cmd
    PROVE  /\ Marked(r, cmd) \in Accesses
           /\ Marked(r, cmd).first = (r.first \/ cmd = "ACT1")
           /\ Marked(r, cmd).type = r.type /\ Marked(r, cmd).line = r.line
           /\ Marked(r, cmd).id = r.id /\ Marked(r, cmd).off = r.off
           /\ Marked(r, cmd).cells = r.cells /\ Marked(r, cmd).expect = r.expect
           /\ Marked(r, cmd).data = r.data /\ Marked(r, cmd).cmd = r.cmd
<1>1. r.first \in BOOLEAN
    BY DEF Accesses
<1>2. (r.first \/ cmd = "ACT1") \in BOOLEAN
    OBVIOUS
<1> QED BY <1>1, <1>2 DEF Marked, Accesses

\* The queues of ordinary requests agree.
SameOrdinary(q1, q2) == \A k \in Ordinaries : q1[k] = q2[k]

\* The queues when only the priority queue has been served.
LEMMA Others ==
    ASSUME ControlType, NEW s \in Seq(Maints), Len(s) <= PriorityMax
    PROVE  /\ [queue EXCEPT !.Priority = s] \in [Queues -> Seq(Accesses) \union Seq(Maints)]
           /\ SameOrdinary([queue EXCEPT !.Priority = s], queue)
           /\ [queue EXCEPT !.Priority = s].Priority = s
BY DEF ControlType, Queues, Ordinaries, SameOrdinary

LeavesWithData(kind, i, cmd) ==
    /\ cmd \in DataCommands
    /\ queue'[kind] = RemoveAt(queue[kind], i)
    /\ \A k \in Ordinaries \ {kind} : queue'[k] = queue[k]

BecomesActive(kind, i, cmd) ==
    /\ cmd \in {"ACT", "ACT1"} /\ kind # "Active" /\ Len(queue.Active) < NBanks
    /\ queue'[kind] = RemoveAt(queue[kind], i)
    /\ queue'.Active = Append(queue.Active, Marked(queue[kind][i], cmd))
    /\ \A k \in Ordinaries \ {kind, "Active"} : queue'[k] = queue[k]

Stays(kind, i, cmd) ==
    /\ cmd \notin DataCommands
    /\ ~(cmd \in {"ACT", "ACT1"} /\ kind # "Active" /\ Len(queue.Active) < NBanks)
    /\ queue'[kind] = [queue[kind] EXCEPT ![i] = Marked(queue[kind][i], cmd)]
    /\ \A k \in Ordinaries \ {kind} : queue'[k] = queue[k]

LEMMA AdvanceIs ==
    ASSUME ControlType,
           NEW others \in [Queues -> Seq(Accesses) \union Seq(Maints)],
           SameOrdinary(others, queue),
           NEW kind \in Ordinaries, NEW i \in DOMAIN queue[kind], NEW cmd,
           Advance(others, kind, i, cmd)
    PROVE  /\ queue' \in [Queues -> Seq(Accesses) \union Seq(Maints)]
           /\ queue'.Priority = others.Priority
           /\ \A k \in Ordinaries : queue'[k] \in Seq(Accesses)
           /\ \/ LeavesWithData(kind, i, cmd)
              \/ BecomesActive(kind, i, cmd)
              \/ Stays(kind, i, cmd)
<1> DEFINE r == queue[kind][i]
           act == cmd \in {"ACT", "ACT1"} /\ kind # "Active" /\ Len(queue.Active) < NBanks
<1>1. /\ \A k \in Ordinaries : others[k] = queue[k] /\ queue[k] \in Seq(Accesses)
      /\ kind \in Queues /\ "Active" \in Queues /\ "Priority" \in Queues
      /\ kind # "Priority" /\ Ordinaries \subseteq Queues
    BY DEF ControlType, SameOrdinary, Ordinaries, Queues
<1>2. i \in 1 .. Len(queue[kind]) /\ queue[kind] \in Seq(Accesses) /\ r \in Accesses
    BY <1>1, ElementOfSeq
<1>3. Marked(r, cmd) \in Accesses
    BY <1>2, MarkedIs
<1>4. RemoveAt(queue[kind], i) \in Seq(Accesses)
    BY <1>2, RemoveAtIs
<1>5. CASE cmd \in DataCommands
    <2>1. queue' = [others EXCEPT ![kind] = RemoveAt(queue[kind], i)]
        <3>1. ~(cmd \in {"ACT", "ACT1"} /\ kind # "Active" /\ Len(queue.Active) < NBanks)
            BY <1>5 DEF DataCommands, ReadCommands, WriteCommands
        <3> QED BY <1>1, <1>5, <3>1 DEF Advance
    <2> HIDE DEF r
    <2>2. LeavesWithData(kind, i, cmd)
        BY <1>1, <1>5, <2>1 DEF LeavesWithData
    <2>3. queue' \in [Queues -> Seq(Accesses) \union Seq(Maints)]
        BY <1>1, <1>4, <2>1
    <2>4. queue'.Priority = others.Priority
        BY <1>1, <2>1
    <2>5. \A k \in Ordinaries : queue'[k] \in Seq(Accesses)
        BY <1>1, <1>4, <2>2 DEF LeavesWithData
    <2> QED BY <2>2, <2>3, <2>4, <2>5
<1>6. CASE cmd \notin DataCommands /\ act
    <2> DEFINE mid == [others EXCEPT ![kind] = RemoveAt(queue[kind], i)]
    <2>0. cmd \notin DataCommands /\ cmd \in {"ACT", "ACT1"} /\ kind # "Active"
          /\ Len(queue.Active) < NBanks
        BY <1>6
    <2>1. queue' = [mid EXCEPT !.Active = Append(others.Active, Marked(r, cmd))]
        BY <1>1, <2>0 DEF Advance, Marked
    <2>2. /\ mid \in [Queues -> Seq(Accesses) \union Seq(Maints)]
          /\ mid[kind] = RemoveAt(queue[kind], i)
          /\ \A k \in Queues \ {kind} : mid[k] = others[k]
        BY <1>1, <1>4
    <2>3. "Active" \in Ordinaries /\ queue.Active \in Seq(Accesses) /\ others.Active = queue.Active
        BY <1>1 DEF Ordinaries
    <2>4. Append(queue.Active, Marked(r, cmd)) \in Seq(Accesses)
        BY <1>3, <2>3, AppendProperties
    <2> HIDE DEF r, mid
    <2>5. BecomesActive(kind, i, cmd)
        BY <1>1, <2>0, <2>1, <2>2, <2>3 DEF BecomesActive, r
    <2>6. queue' \in [Queues -> Seq(Accesses) \union Seq(Maints)]
        BY <1>1, <2>1, <2>2, <2>3, <2>4
    <2>7. queue'.Priority = others.Priority
        BY <1>1, <2>1, <2>2
    <2>8. \A k \in Ordinaries : queue'[k] \in Seq(Accesses)
        BY <1>1, <1>4, <2>4, <2>5 DEF BecomesActive, r
    <2> QED BY <2>5, <2>6, <2>7, <2>8
<1>7. CASE cmd \notin DataCommands /\ ~act
    <2>0. cmd \notin DataCommands
          /\ ~(cmd \in {"ACT", "ACT1"} /\ kind # "Active" /\ Len(queue.Active) < NBanks)
        BY <1>7
    <2> DEFINE upd == [queue[kind] EXCEPT ![i] = Marked(r, cmd)]
    <2>1. queue' = [others EXCEPT ![kind] = upd]
        BY <1>1, <2>0 DEF Advance, Marked
    <2>2. upd \in Seq(Accesses)
        BY <1>2, <1>3, ExceptSeq
    <2>3. Stays(kind, i, cmd)
        BY <1>1, <2>0, <2>1 DEF Stays
    <2> HIDE DEF r, upd
    <2>4. queue' \in [Queues -> Seq(Accesses) \union Seq(Maints)]
        BY <1>1, <2>1, <2>2
    <2>5. queue'.Priority = others.Priority
        BY <1>1, <2>1
    <2>6. \A k \in Ordinaries : queue'[k] \in Seq(Accesses)
        <3>1. queue'[kind] = upd /\ \A k \in Ordinaries \ {kind} : queue'[k] = queue[k]
            BY <2>3 DEF Stays, r, upd
        <3> QED BY <1>1, <2>2, <3>1
    <2> QED BY <2>3, <2>4, <2>5, <2>6
<1> QED BY <1>5, <1>6, <1>7

-----------------------------------------------------------------------------
(* The control keeps its types *)

LEMMA BankAfterIs ==
    ASSUME NEW c \in Confs, NEW bk \in BankStates, NEW b \in Banks, NEW row \in Nat, NEW cmd
    PROVE  BankAfter(c, bk, b, row, cmd) \in BankStates
<1> DEFINE X == [row : Nat, activating : BOOLEAN]
<1>1. bk \in [Banks -> X] /\ bk[b] \in X
    BY DEF BankStates
<1>2. Bank0 \in [Banks -> X] /\ Bank0[b] \in X
    BY DEF Bank0, NoRow
<1>3. [row |-> row, activating |-> FALSE] \in X
    OBVIOUS
<1>4. [bk[b] EXCEPT !.activating = TRUE] \in X /\ [bk[b] EXCEPT !.row = NoRow] \in X
    BY <1>1 DEF NoRow
<1> HIDE DEF X
<1>5. \A v \in X : [bk EXCEPT ![b] = v] \in [Banks -> X]
    BY <1>1
<1>6. CASE cmd \in {"ACT", "ACT2"}
    BY <1>3, <1>5, <1>6 DEF BankAfter, BankStates, X
<1>7. CASE cmd = "ACT1"
    BY <1>4, <1>5, <1>7 DEF BankAfter, BankStates, X
<1>8. CASE cmd = "PREPB"
    BY <1>2, <1>5, <1>8 DEF BankAfter, BankStates, X
<1>9. CASE cmd \in {"RDA", "WRA"}
    BY <1>4, <1>5, <1>9 DEF BankAfter, BankStates, X
<1>10. CASE cmd = "PREAB"
    <2>1. BankAfter(c, bk, b, row, cmd) =
            [d \in Banks |-> IF RankOf(c.ranks, d) = RankOf(c.ranks, b)
                             THEN Bank0[d] ELSE bk[d]]
        BY <1>10 DEF BankAfter
    <2> QED BY <1>1, <1>2, <2>1 DEF BankStates, X
<1>11. CASE cmd \notin {"ACT", "ACT2", "ACT1", "PREPB", "RDA", "WRA", "PREAB"}
    BY <1>11 DEF BankAfter
<1> QED BY <1>6, <1>7, <1>8, <1>9, <1>10, <1>11

LEMMA AskedIs ==
    ASSUME NEW b \in Banks, NEW cmd
    PROVE  Asked(b, cmd) \in Seq(Maints)
<1> DEFINE m == Maint(IF conf.allBank THEN "RFMAB" ELSE "RFMPB", b)
<1>1. m \in Maints
    BY DEF Maint, Maints, Mitigations
<1>2. <<m>> \in Seq(Maints) /\ <<>> \in Seq(Maints)
    BY <1>1
<1>3. Asked(b, cmd) = <<m>> \/ Asked(b, cmd) = <<>>
    BY DEF Asked, RfmAsked
<1> QED BY <1>2, <1>3

LEMMA CommandTypes ==
    ASSUME ControlType, NEW r, BankIdx(r) \in Banks, Row(r) \in Nat, NEW cmd, NEW before,
           Command(r, cmd, before)
    PROVE  bank' \in BankStates /\ wait' \in Seq(Maints)
<1>1. bank' \in BankStates
    BY BankAfterIs DEF Command, ControlType
<1>2. WaitNow \in Seq(Maints) /\ Asked(BankIdx(r), cmd) \in Seq(Maints)
    BY PriorityIs, AskedIs
<1>3. wait' \in Seq(Maints)
    BY <1>2, ConcatProperties DEF Command
<1> QED BY <1>1, <1>3

LEMMA ActiveIssues ==
    ASSUME ControlType, NEW bus, IssueActive(bus)
    PROVE  \E i \in DOMAIN queue.Active :
             LET r == queue.Active[i] IN
             /\ r \in Accesses /\ LegalNext(r) /\ Eligible("Active", r, bus)
             /\ Admitted(r)
             /\ \E cmd \in Upgrades(r, NextCommand(r)) :
                  /\ Command(r, cmd, pol)
                  /\ Advance([queue EXCEPT !.Priority = PriorityNow], "Active", i, cmd)
                  /\ UNCHANGED <<conf, seq, wmode, ref, resp, golden, due>>
<1>1. PICK i \in ActiveChoices(bus) :
        \E cmd \in Upgrades(queue.Active[i], NextCommand(queue.Active[i])) :
            /\ Command(queue.Active[i], cmd, pol)
            /\ Advance([queue EXCEPT !.Priority = PriorityNow], "Active", i, cmd)
            /\ UNCHANGED <<conf, seq, wmode, ref, resp, golden, due>>
    BY DEF IssueActive
<1>2. i \in Scheduled("Active", bus)
    BY DEF ActiveChoices
<1>3. /\ i \in DOMAIN queue.Active /\ LegalNext(queue.Active[i])
      /\ Eligible("Active", queue.Active[i], bus) /\ Admitted(queue.Active[i])
    BY <1>2, ScheduledIs
<1>4. queue.Active \in Seq(Accesses)
    BY DEF ControlType, Ordinaries
<1>5. queue.Active[i] \in Accesses
    BY <1>3, <1>4
<1> QED BY <1>1, <1>3, <1>5

LEMMA OrdinaryIssues ==
    ASSUME ControlType, NEW bus, IssueOrdinary(bus)
    PROVE  \E k \in {"Read", "Write"} : \E i \in DOMAIN queue[k] :
             LET r == queue[k][i] IN
             /\ r \in Accesses /\ LegalNext(r) /\ Eligible(k, r, bus) /\ Admitted(r)
             /\ PriorityLeft = <<>>
             /\ \E cmd \in Upgrades(r, NextCommand(r)) :
                  /\ Command(r, cmd, PolicyNow)
                  /\ Advance([queue EXCEPT !.Priority = <<>>], k, i, cmd)
                  /\ UNCHANGED <<conf, seq, ref, resp, golden, due>>
<1>1. PICK p \in OrdinaryChoices(bus) :
        \E cmd \in Upgrades(queue[p[1]][p[2]], NextCommand(queue[p[1]][p[2]])) :
            /\ Command(queue[p[1]][p[2]], cmd, PolicyNow)
            /\ Advance([queue EXCEPT !.Priority = <<>>], p[1], p[2], cmd)
            /\ UNCHANGED <<conf, seq, ref, resp, golden, due>>
    BY DEF IssueOrdinary
<1>2. p[1] \in {"Read", "Write"} /\ p[2] \in Scheduled(p[1], bus)
    BY OrdinaryChoiceIs
<1>3. /\ p[2] \in DOMAIN queue[p[1]] /\ LegalNext(queue[p[1]][p[2]])
      /\ Eligible(p[1], queue[p[1]][p[2]], bus) /\ Admitted(queue[p[1]][p[2]])
    BY <1>2, ScheduledIs
<1>4. queue[p[1]] \in Seq(Accesses)
    BY <1>2 DEF ControlType, Ordinaries
<1>5. queue[p[1]][p[2]] \in Accesses
    BY <1>3, <1>4
<1>6. PriorityLeft = <<>>
    BY DEF IssueOrdinary
<1> QED BY <1>1, <1>2, <1>3, <1>5, <1>6

LEMMA MaintenanceIssues ==
    ASSUME ControlType, NEW bus, IssueMaintenance(bus)
    PROVE  LET r == Head(PriorityLeft)
               cmd == NextCommand(r)
               rank == RankOf(conf.ranks, r.bank)
           IN  /\ PriorityLeft # <<>> /\ r \in Maints
               /\ Eligible("Priority", r, bus) /\ LegalNext(r) /\ Admitted(r)
               /\ Command(r, cmd, PolicyNow)
               /\ img' = ImageAfter(conf, img, r.bank, NoRow, cmd)
               /\ queue' = [queue EXCEPT !.Priority = IF cmd = r.cmd THEN Tail(PriorityLeft)
                                                                     ELSE PriorityLeft]
               /\ due' = IF cmd \in {"REFPB", "REFAB"}
                         THEN [due EXCEPT !.issued[rank] = @ + 1] ELSE due
               /\ UNCHANGED <<conf, seq, pend, wbuf, wmode, ref, phy, resp, golden>>
<1>1. PriorityLeft # <<>>
    BY DEF IssueMaintenance
<1>2. PriorityLeft \in Seq(Maints)
    BY PriorityIs
<1>3. Head(PriorityLeft) \in Maints
    BY <1>1, <1>2, HeadTailProperties
<1> QED BY <1>1, <1>3 DEF IssueMaintenance

LEMMA TransactionIs ==
    ASSUME seq \in Nat, NEW type \in {"Read", "Write"}, NEW shape, shape.line \in Lines,
           shape.off \in Nat, shape.cells \in SUBSET Cells, NEW data \in Data,
           NEW expect \in Data
    PROVE  /\ Transaction(type, shape, data, expect) \in Accesses
           /\ Transaction(type, shape, data, expect).type = type
           /\ Transaction(type, shape, data, expect).id = seq + 1
           /\ Transaction(type, shape, data, expect).line = shape.line
           /\ Transaction(type, shape, data, expect).off = shape.off
           /\ Transaction(type, shape, data, expect).cells = shape.cells
           /\ Transaction(type, shape, data, expect).data = data
           /\ Transaction(type, shape, data, expect).expect = expect
           /\ ~Transaction(type, shape, data, expect).first
           /\ Transaction(type, shape, data, expect).cmd = "None"
<1>1. seq + 1 \in Nat
    OBVIOUS
<1> QED BY <1>1 DEF Transaction, Accesses

LEMMA EnqueueTypes ==
    ASSUME ControlType, Enqueue
    PROVE  ControlType'
<1>1. /\ seq \in Nat /\ golden \in [Lines -> [Cells -> Nat]]
      /\ queue \in [Queues -> Seq(Accesses) \union Seq(Maints)]
      /\ \A k \in Ordinaries : queue[k] \in Seq(Accesses)
    BY DEF ControlType
<1>2. ASSUME NEW shape \in ReadShapes, ForwardRead(shape)
      PROVE  ControlType'
    BY <1>1, <1>2 DEF ForwardRead, Accept, managers, ControlType
<1>3. ASSUME NEW shape \in ReadShapes, QueueRead(shape)
      PROVE  ControlType'
    <2> DEFINE r == NewRead(shape)
    <2>1. /\ shape.line \in Lines /\ shape.off \in Nat /\ shape.cells \in SUBSET Cells
        BY ShapeAssumption
    <2>2. golden[shape.line] \in [Cells -> Nat]
        BY <1>1, <2>1
    <2>3. Restrict(golden[shape.line], shape.cells) \in [shape.cells -> Nat]
        BY <2>1, <2>2 DEF Restrict
    <2>4. Restrict(golden[shape.line], shape.cells) \in Data
        BY <2>1, <2>3, DataIs
    <2>5. r \in Accesses
        BY <1>1, <2>1, <2>4, NoData, TransactionIs DEF NewRead
    <2> HIDE DEF r
    <2>6. queue' = [queue EXCEPT !.Read = Append(@, r)]
        BY <1>3 DEF QueueRead, r
    <2>7. Append(queue.Read, r) \in Seq(Accesses)
        BY <1>1, <2>5, AppendProperties DEF Ordinaries
    <2>8. /\ queue' \in [Queues -> Seq(Accesses) \union Seq(Maints)]
          /\ \A k \in Ordinaries : queue'[k] \in Seq(Accesses)
          /\ queue'.Priority = queue.Priority
        BY <1>1, <2>6, <2>7 DEF Queues, Ordinaries
    <2>9. seq' \in Nat
        BY <1>1, <1>3 DEF QueueRead, Accept
    <2>10. UNCHANGED <<conf, wait, bank, ref, golden>>
        BY <1>3 DEF QueueRead, managers
    <2> QED BY <2>8, <2>9, <2>10 DEF ControlType
<1>4. ASSUME NEW shape \in WriteShapes
      PROVE  /\ shape.line \in Lines /\ shape.off \in Nat /\ shape.cells \in SUBSET Cells
             /\ [c \in shape.mask |-> seq + 1] \in Data
             /\ Record(shape) => golden' \in [Lines -> [Cells -> Nat]]
    <2>1. /\ shape.line \in Lines /\ shape.off \in Nat /\ shape.cells \in SUBSET Cells
          /\ shape.mask \in SUBSET Cells
        BY ShapeAssumption
    <2>2. [c \in shape.mask |-> seq + 1] \in [shape.mask -> Nat]
        BY <1>1
    <2>3. [c \in shape.mask |-> seq + 1] \in Data
        BY <2>1, <2>2, DataIs
    <2>4. ASSUME Record(shape)
          PROVE  golden' \in [Lines -> [Cells -> Nat]]
        <3> DEFINE g == [c \in Cells |-> IF c \in shape.mask THEN seq + 1
                                         ELSE golden[shape.line][c]]
        <3>1. golden[shape.line] \in [Cells -> Nat]
            BY <1>1, <2>1
        <3>2. g \in [Cells -> Nat]
            BY <1>1, <3>1
        <3>3. golden' = [golden EXCEPT ![shape.line] = g]
            BY <2>4 DEF Record
        <3> HIDE DEF g
        <3> QED BY <1>1, <3>2, <3>3
    <2> QED BY <2>1, <2>3, <2>4
<1>5. ASSUME NEW shape \in WriteShapes, CoalesceWrite(shape)
      PROVE  ControlType'
    <2>1. UNCHANGED <<conf, queue, wait, bank, ref>> /\ Accept /\ Record(shape)
        BY <1>5 DEF CoalesceWrite, managers
    <2>2. seq' \in Nat /\ golden' \in [Lines -> [Cells -> Nat]]
        <3>1. seq' \in Nat
            BY <1>1, <2>1 DEF Accept
        <3>2. golden' \in [Lines -> [Cells -> Nat]]
            BY <1>4, <2>1, Zenon
        <3> QED BY <3>1, <3>2
    <2> QED BY <2>1, <2>2 DEF ControlType
<1>6. ASSUME NEW shape \in WriteShapes, QueueWrite(shape)
      PROVE  ControlType'
    <2> DEFINE w == NewWrite(shape)
    <2>1. UNCHANGED <<conf, wait, bank, ref>> /\ Accept /\ Record(shape)
        BY <1>6 DEF QueueWrite, managers
    <2>2. seq' \in Nat /\ golden' \in [Lines -> [Cells -> Nat]]
        <3>1. seq' \in Nat
            BY <1>1, <2>1 DEF Accept
        <3>2. golden' \in [Lines -> [Cells -> Nat]]
            BY <1>4, <2>1, Zenon
        <3> QED BY <3>1, <3>2
    <2>3. w \in Accesses
        BY <1>1, <1>4, NoData, TransactionIs DEF NewWrite
    <2> HIDE DEF w
    <2>4. queue' = [queue EXCEPT !.Write = Append(@, w)]
        BY <1>6 DEF QueueWrite, w
    <2>5. Append(queue.Write, w) \in Seq(Accesses)
        BY <1>1, <2>3, AppendProperties DEF Ordinaries
    <2>6. /\ queue' \in [Queues -> Seq(Accesses) \union Seq(Maints)]
          /\ \A k \in Ordinaries : queue'[k] \in Seq(Accesses)
          /\ queue'.Priority = queue.Priority
        BY <1>1, <2>4, <2>5 DEF Queues, Ordinaries
    <2> QED BY <2>1, <2>2, <2>6 DEF ControlType
<1> QED BY <1>2, <1>3, <1>5, <1>6 DEF Enqueue

LEMMA IssueTypes ==
    ASSUME ControlType, NEW bus, IssueActive(bus) \/ IssueMaintenance(bus) \/ IssueOrdinary(bus)
    PROVE  ControlType'
<1>1. /\ PriorityNow \in Seq(Maints) /\ Len(PriorityNow) <= PriorityMax
      /\ PriorityLeft \in Seq(Maints) /\ Len(PriorityLeft) <= PriorityMax
    <2>1. Len(PriorityNow) \in Nat /\ Len(PriorityLeft) \in Nat /\ PriorityMax \in Nat
        BY PriorityIs, LenProperties, QueueAssumption
    <2> QED BY <2>1, PriorityIs
<1>2. <<>> \in Seq(Maints) /\ Len(<<>>) <= PriorityMax
    BY QueueAssumption
<1>3. ASSUME IssueActive(bus)  PROVE  ControlType'
    <2>1. PICK i \in DOMAIN queue.Active :
             LET r == queue.Active[i] IN
             /\ r \in Accesses
             /\ \E cmd \in Upgrades(r, NextCommand(r)) :
                  /\ Command(r, cmd, pol)
                  /\ Advance([queue EXCEPT !.Priority = PriorityNow], "Active", i, cmd)
                  /\ UNCHANGED <<conf, seq, wmode, ref, resp, golden, due>>
        BY <1>3, ActiveIssues
    <2>2. PICK cmd :
             /\ Command(queue.Active[i], cmd, pol)
             /\ Advance([queue EXCEPT !.Priority = PriorityNow], "Active", i, cmd)
             /\ UNCHANGED <<conf, seq, wmode, ref, resp, golden, due>>
        BY <2>1
    <2>3. bank' \in BankStates /\ wait' \in Seq(Maints)
        BY <2>1, <2>2, BankOfAccess, CommandTypes
    <2>4. "Active" \in Ordinaries
        BY DEF Ordinaries
    <2> DEFINE others == [queue EXCEPT !.Priority = PriorityNow]
    <2>5. /\ others \in [Queues -> Seq(Accesses) \union Seq(Maints)]
          /\ SameOrdinary(others, queue) /\ others.Priority = PriorityNow
        BY <1>1, Others
    <2>5a. Advance(others, "Active", i, cmd)
        BY <2>2
    <2> HIDE DEF others
    <2>6. /\ queue' \in [Queues -> Seq(Accesses) \union Seq(Maints)]
          /\ queue'.Priority = PriorityNow
          /\ \A k \in Ordinaries : queue'[k] \in Seq(Accesses)
        BY <2>4, <2>5, <2>5a, AdvanceIs
    <2> QED BY <1>1, <2>2, <2>3, <2>6 DEF ControlType
<1>4. ASSUME IssueOrdinary(bus)  PROVE  ControlType'
    <2>0. PICK k \in {"Read", "Write"} : \E i \in DOMAIN queue[k] :
             LET r == queue[k][i] IN
             /\ r \in Accesses
             /\ \E cmd \in Upgrades(r, NextCommand(r)) :
                  /\ Command(r, cmd, PolicyNow)
                  /\ Advance([queue EXCEPT !.Priority = <<>>], k, i, cmd)
                  /\ UNCHANGED <<conf, seq, ref, resp, golden, due>>
        BY <1>4, OrdinaryIssues
    <2>1. PICK i \in DOMAIN queue[k] :
             LET r == queue[k][i] IN
             /\ r \in Accesses
             /\ \E cmd \in Upgrades(r, NextCommand(r)) :
                  /\ Command(r, cmd, PolicyNow)
                  /\ Advance([queue EXCEPT !.Priority = <<>>], k, i, cmd)
                  /\ UNCHANGED <<conf, seq, ref, resp, golden, due>>
        BY <2>0
    <2>2. PICK cmd :
             /\ Command(queue[k][i], cmd, PolicyNow)
             /\ Advance([queue EXCEPT !.Priority = <<>>], k, i, cmd)
             /\ UNCHANGED <<conf, seq, ref, resp, golden, due>>
        BY <2>1
    <2>3. bank' \in BankStates /\ wait' \in Seq(Maints)
        BY <2>1, <2>2, BankOfAccess, CommandTypes
    <2>4. k \in Ordinaries
        BY DEF Ordinaries
    <2> DEFINE others == [queue EXCEPT !.Priority = <<>>]
    <2>5. /\ others \in [Queues -> Seq(Accesses) \union Seq(Maints)]
          /\ SameOrdinary(others, queue) /\ others.Priority = <<>>
        BY <1>2, Others
    <2>5a. Advance(others, k, i, cmd)
        BY <2>2
    <2> HIDE DEF others
    <2>6. /\ queue' \in [Queues -> Seq(Accesses) \union Seq(Maints)]
          /\ queue'.Priority = <<>>
          /\ \A j \in Ordinaries : queue'[j] \in Seq(Accesses)
        BY <2>4, <2>5, <2>5a, AdvanceIs
    <2> QED BY <1>2, <2>2, <2>3, <2>6 DEF ControlType
<1>5. ASSUME IssueMaintenance(bus)  PROVE  ControlType'
    <2> DEFINE r == Head(PriorityLeft)
               cmd == NextCommand(r)
               s == IF cmd = r.cmd THEN Tail(PriorityLeft) ELSE PriorityLeft
    <2>1. /\ PriorityLeft # <<>> /\ r \in Maints
          /\ Command(r, cmd, PolicyNow)
          /\ queue' = [queue EXCEPT !.Priority = s]
          /\ UNCHANGED <<conf, seq, ref, golden>>
        BY <1>5, MaintenanceIssues
    <2>2. bank' \in BankStates /\ wait' \in Seq(Maints)
        <3>1. BankIdx(r) \in Banks /\ Row(r) \in Nat
            BY <2>1, BankOfMaint DEF NoRow
        <3> QED BY <2>1, <3>1, CommandTypes
    <2>3. s \in Seq(Maints) /\ Len(s) <= PriorityMax
        <3>1. Len(PriorityLeft) \in Nat /\ PriorityMax \in Nat
            BY <1>1, QueueAssumption, LenProperties
        <3>2. Tail(PriorityLeft) \in Seq(Maints) /\ Len(Tail(PriorityLeft)) = Len(PriorityLeft) - 1
            BY <1>1, <2>1, HeadTailProperties
        <3> HIDE DEF cmd, r
        <3> QED BY <1>1, <3>1, <3>2
    <2> HIDE DEF s, cmd, r
    <2>4. /\ queue' \in [Queues -> Seq(Accesses) \union Seq(Maints)]
          /\ SameOrdinary(queue', queue) /\ queue'.Priority = s
        BY <2>1, <2>3, Others
    <2>5. \A k \in Ordinaries : queue'[k] \in Seq(Accesses)
        BY <2>4 DEF SameOrdinary, ControlType
    <2> QED BY <2>1, <2>2, <2>3, <2>4, <2>5 DEF ControlType
<1> QED BY <1>3, <1>4, <1>5

LEMMA RestTypes ==
    ASSUME ControlType,
           \/ PhyReady \/ PhyMoves \/ CompletePending \/ ScheduleRefresh
           \/ ApplyRowPolicy \/ NothingIssued \/ PopResponse \/ UNCHANGED vars
    PROVE  ControlType'
<1>1. ASSUME PhyReady \/ PhyMoves \/ CompletePending \/ PopResponse \/ UNCHANGED vars
      PROVE  ControlType'
    <2>1. UNCHANGED <<conf, seq, queue, wait, bank, ref, golden>>
        BY <1>1 DEF PhyReady, PhyMoves, CompletePending, PopResponse, vars, managers
    <2> QED BY <2>1 DEF ControlType
<1>2. ASSUME ScheduleRefresh  PROVE  ControlType'
    <2> DEFINE quiet == ~Ordinary /\ queue.Priority = <<>> /\ wait = <<>> /\ pend = <<>>
    <2>1. PICK passed \in {{}, Ranks(conf)}, window \in {{}, Ranks(conf)} :
            /\ ref' = RefreshTick(conf, ref, passed, window, Ordinary, quiet).ref
            /\ wait' = wait \o RefreshTick(conf, ref, passed, window, Ordinary, quiet).batch
        BY <1>2 DEF ScheduleRefresh
    <2> DEFINE t == RefreshTick(conf, ref, passed, window, Ordinary, quiet)
    <2>2. conf \in Confs /\ ref \in RefreshStates(conf)
        BY DEF ControlType
    <2>3. t.ref \in RefreshStates(conf)
          /\ (t.batch = <<>> \/ \E m \in Maints : t.batch = <<m>>)
        BY <2>2, RefreshTickIs
    <2> HIDE DEF t
    <2>4. t.batch \in Seq(Maints)
        <3>1. \A m \in Maints : <<m>> \in Seq(Maints)
            OBVIOUS
        <3>2. <<>> \in Seq(Maints)
            OBVIOUS
        <3> QED BY <2>3, <3>1, <3>2
    <2>5. wait \o t.batch \in Seq(Maints)
        BY <2>4, ConcatProperties DEF ControlType
    <2>6. UNCHANGED <<conf, seq, queue, bank, golden>>
        BY <1>2 DEF ScheduleRefresh
    <2> QED BY <2>1, <2>3, <2>5, <2>6 DEF ControlType, t
<1>3. ASSUME ApplyRowPolicy  PROVE  ControlType'
    <2>1. PICK b \in Banks :
            /\ Len(queue.Priority) < PriorityMax
            /\ queue' = [queue EXCEPT !.Priority = Append(@, Maint("PREPB", b))]
        BY <1>3 DEF ApplyRowPolicy
    <2> DEFINE s == Append(queue.Priority, Maint("PREPB", b))
    <2>2. Maint("PREPB", b) \in Maints
        BY DEF Maint, Maints
    <2>3. queue.Priority \in Seq(Maints) /\ Len(queue.Priority) \in Nat /\ PriorityMax \in Nat
        BY QueueAssumption, LenProperties DEF ControlType
    <2>4. s \in Seq(Maints) /\ Len(s) <= PriorityMax
        BY <2>1, <2>2, <2>3, AppendProperties
    <2>5. queue' = [queue EXCEPT !.Priority = s]
        BY <2>1
    <2> HIDE DEF s
    <2>6. /\ queue' \in [Queues -> Seq(Accesses) \union Seq(Maints)]
          /\ SameOrdinary(queue', queue) /\ queue'.Priority = s
        BY <2>4, <2>5, Others
    <2>7. \A k \in Ordinaries : queue'[k] \in Seq(Accesses)
        BY <2>6 DEF SameOrdinary, ControlType
    <2>8. UNCHANGED <<conf, seq, wait, bank, ref, golden>>
        BY <1>3 DEF ApplyRowPolicy
    <2> QED BY <2>4, <2>6, <2>7, <2>8 DEF ControlType
<1>4. ASSUME NothingIssued  PROVE  ControlType'
    <2>1. <<>> \in Seq(Maints) /\ Len(<<>>) <= PriorityMax
        BY QueueAssumption
    <2>2. /\ queue' = [queue EXCEPT !.Priority = <<>>] /\ wait' = WaitNow
          /\ UNCHANGED <<conf, seq, bank, ref, golden>>
        BY <1>4 DEF NothingIssued
    <2>3. /\ queue' \in [Queues -> Seq(Accesses) \union Seq(Maints)]
          /\ SameOrdinary(queue', queue) /\ queue'.Priority = <<>>
        BY <2>1, <2>2, Others
    <2>4. \A k \in Ordinaries : queue'[k] \in Seq(Accesses)
        BY <2>3 DEF SameOrdinary, ControlType
    <2>5. wait' \in Seq(Maints)
        BY <2>2, PriorityIs
    <2> QED BY <2>1, <2>2, <2>3, <2>4, <2>5 DEF ControlType
<1> QED BY <1>1, <1>2, <1>3, <1>4

\* The steps of a tick, of the frontend and of the memory system.
LEMMA StepIs ==
    ASSUME [Next]_vars
    PROVE  \/ Enqueue
           \/ \E bus \in Buses : IssueActive(bus) \/ IssueMaintenance(bus) \/ IssueOrdinary(bus)
           \/ PhyReady \/ PhyMoves \/ CompletePending \/ ScheduleRefresh
           \/ ApplyRowPolicy \/ NothingIssued \/ PopResponse \/ UNCHANGED vars
BY DEF Next, Tick, Issue, Finished

LEMMA InitTypes == Init => ControlType
<1> SUFFICES ASSUME Init PROVE ControlType
    OBVIOUS
<1>1. conf \in Confs /\ seq \in Nat
    BY DEF Init
<1>2. <<>> \in Seq(Accesses) /\ <<>> \in Seq(Maints) /\ Len(<<>>) = 0
    OBVIOUS
<1>3. /\ queue \in [Queues -> Seq(Accesses) \union Seq(Maints)]
      /\ \A k \in Ordinaries : queue[k] \in Seq(Accesses)
      /\ queue.Priority \in Seq(Maints) /\ Len(queue.Priority) <= PriorityMax
    <2>1. queue = [k \in Queues |-> <<>>]
        BY DEF Init, Queues
    <2>2. PriorityMax \in Nat
        BY QueueAssumption
    <2> QED BY <1>2, <2>1, <2>2 DEF Queues, Ordinaries
<1>4. bank \in BankStates
    BY DEF Init, Bank0, NoRow, BankStates
<1>5. golden \in [Lines -> [Cells -> Nat]]
    BY DEF Init
<1>6. ref \in RefreshStates(conf)
    <2>1. (NBanks \div conf.ranks) \in Nat \ {0} /\ conf.ranks \in Nat \ {0}
        BY <1>1, RanksAre
    <2>2. 0 \in 0 .. (NBanks \div conf.ranks) - 1 /\ 0 \in Ranks(conf)
        BY <2>1 DEF Ranks
    <2>3. [credit |-> 0, postponed |-> 0, pulled |-> 0, cursor |-> 0] \in RankStates(conf)
        BY <2>2 DEF RankStates
    <2> QED BY <2>2, <2>3 DEF Init, Refresh0, RefreshStates
<1>7. wait \in Seq(Maints)
    BY <1>2 DEF Init
<1> QED BY <1>1, <1>3, <1>4, <1>5, <1>6, <1>7 DEF ControlType

LEMMA StepTypes == ControlType /\ [Next]_vars => ControlType'
BY StepIs, EnqueueTypes, IssueTypes, RestTypes

\* The queues, the banks and the ledger of the refresh manager hold what they are
\* meant to hold, and the priority queue keeps within its room
\* (controller.cpp, service_pending_maintenance).
THEOREM ControlTypes == Spec => []ControlType
<1>1. Init => ControlType
    BY InitTypes
<1>2. ControlType /\ [Next]_vars => ControlType'
    BY StepTypes
<1> QED BY <1>1, <1>2, PTL DEF Spec

-----------------------------------------------------------------------------
(* The row of an active request *)

\* The bank of an active request is being opened for it, or holds its row.
KeepsRow(bk, a) ==
    \/ a.first /\ bk[BankIdx(a)].activating
    \/ bk[BankIdx(a)].row = Row(a)

Distinct(q) == \A i, j \in DOMAIN q : BankIdx(q[i]) = BankIdx(q[j]) => i = j

\* A bank that is being activated has no row yet; a request that has issued its ACT1
\* is in the active queue, because that queue has room for one request of each bank.
OpenRows ==
    /\ \A b \in Banks : bank[b].activating => bank[b].row = NoRow
    /\ \A k \in {"Read", "Write"} : \A i \in DOMAIN queue[k] : ~queue[k][i].first
    /\ \A i \in DOMAIN queue.Active : KeepsRow(bank, queue.Active[i])
    /\ Distinct(queue.Active)

RowInv == conf.policy = "Open" => OpenRows

\* The rows after a step, from what is said of the queues and banks after it.
LEMMA OpenRowsAfter ==
    ASSUME \A b \in Banks : bank'[b].activating => bank'[b].row = NoRow,
           \A k \in {"Read", "Write"} : \A i \in DOMAIN queue'[k] : ~queue'[k][i].first,
           NEW q, q = queue'.Active,
           \A i \in DOMAIN q : KeepsRow(bank', q[i]), Distinct(q)
    PROVE  OpenRows'
<1>1. \A i \in DOMAIN queue'.Active : KeepsRow(bank, queue.Active[i])'
    BY DEF KeepsRow, BankIdx, Row
<1>2. Distinct(queue.Active)'
    BY DEF Distinct, BankIdx
<1> QED BY <1>1, <1>2 DEF OpenRows

LEMMA DistinctRemoved ==
    ASSUME NEW q \in Seq(Accesses), NEW n \in 1 .. Len(q), Distinct(q)
    PROVE  Distinct(RemoveAt(q, n))
<1> DEFINE u == RemoveAt(q, n)
<1>1. /\ u \in Seq(Accesses) /\ Len(u) = Len(q) - 1 /\ Len(q) \in Nat
      /\ \A j \in 1 .. Len(q) - 1 : u[j] = IF j < n THEN q[j] ELSE q[j + 1]
    BY RemoveAtIs, LenProperties
<1> HIDE DEF u
<1> SUFFICES ASSUME NEW i \in DOMAIN u, NEW j \in DOMAIN u, BankIdx(u[i]) = BankIdx(u[j])
             PROVE  i = j
    BY DEF Distinct, u
<1>2. i \in 1 .. Len(q) - 1 /\ j \in 1 .. Len(q) - 1
    BY <1>1
<1> DEFINE m(x) == IF x < n THEN x ELSE x + 1
<1>3. u[i] = q[m(i)] /\ u[j] = q[m(j)]
    BY <1>1, <1>2
<1>4. m(i) \in DOMAIN q /\ m(j) \in DOMAIN q
    BY <1>1, <1>2
<1>5. m(i) = m(j)
    BY <1>3, <1>4 DEF Distinct
<1> QED BY <1>2, <1>5

LEMMA DistinctUpdated ==
    ASSUME NEW q \in Seq(Accesses), NEW n \in 1 .. Len(q), Distinct(q),
           NEW x \in Accesses, BankIdx(x) = BankIdx(q[n])
    PROVE  Distinct([q EXCEPT ![n] = x])
BY DEF Distinct

LEMMA DistinctAppended ==
    ASSUME NEW q \in Seq(Accesses), Distinct(q), NEW x \in Accesses,
           \A i \in DOMAIN q : BankIdx(q[i]) # BankIdx(x)
    PROVE  Distinct(Append(q, x))
<1> DEFINE u == Append(q, x)
<1>1. /\ u \in Seq(Accesses) /\ Len(u) = Len(q) + 1 /\ Len(q) \in Nat
      /\ \A i \in 1 .. Len(q) : u[i] = q[i]
      /\ u[Len(q) + 1] = x
    BY AppendProperties, LenProperties
<1> HIDE DEF u
<1> SUFFICES ASSUME NEW i \in DOMAIN u, NEW j \in DOMAIN u, BankIdx(u[i]) = BankIdx(u[j])
             PROVE  i = j
    BY DEF Distinct, u
<1>2. /\ i \in 1 .. Len(q) + 1 /\ j \in 1 .. Len(q) + 1 /\ DOMAIN q = 1 .. Len(q)
    BY <1>1
<1>3. CASE i \in 1 .. Len(q) /\ j \in 1 .. Len(q)
    BY <1>1, <1>2, <1>3 DEF Distinct
<1>4. CASE i \in 1 .. Len(q) /\ j = Len(q) + 1
    BY <1>1, <1>2, <1>4
<1>5. CASE i = Len(q) + 1 /\ j \in 1 .. Len(q)
    BY <1>1, <1>2, <1>5
<1> QED BY <1>1, <1>2, <1>3, <1>4, <1>5

\* Active requests of different banks, none of bank b: the active queue has room.
LEMMA RoomToActivate ==
    ASSUME NEW q \in Seq(Accesses), Distinct(q), NEW b \in Banks,
           \A i \in DOMAIN q : BankIdx(q[i]) # b
    PROVE  Len(q) < NBanks
<1> DEFINE f == [i \in 1 .. Len(q) |-> BankIdx(q[i])]
           D == 1 .. Len(q)
           T == Banks \ {b}
<1>1. Len(q) \in Nat /\ DOMAIN q = D /\ \A i \in D : q[i] \in Accesses
    BY ElementOfSeq, LenProperties
<1>2. \A i \in D : BankIdx(q[i]) \in T
    BY <1>1, BankOfAccess
<1>3. f \in [D -> T]
    BY <1>2
<1>4. \A i, j \in D : f[i] = f[j] => i = j
    BY <1>1 DEF Distinct
<1>5. f \in Injection(D, T)
    BY <1>3, <1>4 DEF Injection, IsInjective
<1>6. NBanks \in Nat \ {0} /\ Banks = 0 .. NBanks - 1
    BY LineAssumption DEF Banks
<1>7. IsFiniteSet(Banks) /\ Cardinality(Banks) = NBanks
    BY <1>6, FS_Interval
<1>8. IsFiniteSet(T) /\ Cardinality(T) = NBanks - 1
    BY <1>7, FS_RemoveElement
<1>9. Cardinality(D) = Len(q)
    <2>1. Cardinality(1 .. Len(q)) = IF 1 > Len(q) THEN 0 ELSE Len(q) - 1 + 1
        BY <1>1, FS_Interval
    <2> QED BY <1>1, <2>1
<1> HIDE DEF f, D, T
<1>10. Cardinality(D) <= Cardinality(T)
    BY <1>5, <1>8, FS_Injection
<1> QED BY <1>1, <1>6, <1>8, <1>9, <1>10

\* The command a request needs, with the open-page policy.
LEMMA AccessCommand ==
    ASSUME ControlType, OpenRows, conf.policy = "Open", NEW r \in Accesses,
           NEW cmd \in Upgrades(r, NextCommand(r)), cmd # "None", LegalNext(r)
    PROVE  LET b == BankIdx(r) IN
           /\ cmd = NextCommand(r)
           /\ \/ bank[b].row = Row(r) /\ cmd \in {"RD", "WR"}
              \/ bank[b].row # NoRow /\ bank[b].row # Row(r) /\ cmd = "PREPB"
              \/ bank[b].activating /\ bank[b].row = NoRow /\ cmd = "ACT2" /\ r.first
              \/ ~bank[b].activating /\ bank[b].row = NoRow /\ cmd \in {"ACT", "ACT1"}
<1> DEFINE b == BankIdx(r)
<1>1. b \in Banks /\ Row(r) \in Nat \ {0} /\ First(r) = r.first /\ r.type # "Maint"
      /\ r.type \in {"Read", "Write"}
    BY BankOfAccess DEF Accesses
<1>2. /\ bank[b].row \in Nat /\ bank[b].activating \in BOOLEAN
      /\ bank[b].activating => bank[b].row = NoRow
    BY <1>1 DEF ControlType, BankStates, OpenRows
<1>3. ~CapReached(conf, pol, b)
    BY DEF CapReached
<1>4. cmd = NextCommand(r)
    BY <1>3 DEF Upgrades
<1>5. CASE bank[b].row = Row(r)
    <2>1. NextCommand(r) = DataCommand(r)
        BY <1>1, <1>2, <1>5 DEF NextCommand, Opened, NoRow
    <2>2. DataCommand(r) \in {"RD", "WR"}
        BY <1>1 DEF DataCommand
    <2> QED BY <1>4, <1>5, <2>1, <2>2
<1>6. CASE bank[b].row # NoRow /\ bank[b].row # Row(r)
    <2>1. NextCommand(r) = "PREPB"
        BY <1>1, <1>2, <1>6 DEF NextCommand, Opened, NoRow
    <2> QED BY <1>4, <1>6, <2>1
<1>7. CASE bank[b].row = NoRow /\ bank[b].activating
    <2>1. NextCommand(r) = IF r.first THEN "ACT2" ELSE "None"
        BY <1>1, <1>2, <1>7 DEF NextCommand, Opened, NoRow
    <2> QED BY <1>4, <1>7, <2>1
<1>8. CASE bank[b].row = NoRow /\ ~bank[b].activating
    <2>1. NextCommand(r) = IF ~conf.split THEN "ACT" ELSE IF r.first THEN "ACT2" ELSE "ACT1"
        BY <1>1, <1>2, <1>8 DEF NextCommand, Opened, NoRow
    <2>2. NextCommand(r) # "ACT2"
        <3> SUFFICES ASSUME NextCommand(r) = "ACT2" PROVE FALSE
            OBVIOUS
        <3>1. Legal(conf, bank, b, Row(r), First(r), "ACT2")
            BY DEF LegalNext
        <3>2. bank[b].activating
            BY <3>1 DEF Legal, DataCommands, ReadCommands, WriteCommands
        <3> QED BY <1>8, <3>2
    <2> QED BY <1>4, <1>8, <2>1, <2>2
<1> QED BY <1>1, <1>2, <1>5, <1>6, <1>7, <1>8 DEF NoRow

LEMMA RowActive ==
    ASSUME ControlType, OpenRows, conf.policy = "Open", NEW bus, IssueActive(bus)
    PROVE  OpenRows'
<1> DEFINE q == queue.Active
<1>1. PICK i \in DOMAIN q :
             LET r == q[i] IN
             /\ r \in Accesses /\ LegalNext(r) /\ Eligible("Active", r, bus)
             /\ \E cmd \in Upgrades(r, NextCommand(r)) :
                  /\ Command(r, cmd, pol)
                  /\ Advance([queue EXCEPT !.Priority = PriorityNow], "Active", i, cmd)
                  /\ UNCHANGED <<conf, seq, wmode, ref, resp, golden, due>>
    BY ActiveIssues
<1> DEFINE r == q[i]
           b == BankIdx(r)
<1>2. PICK cmd \in Upgrades(r, NextCommand(r)) :
             /\ Command(r, cmd, pol)
             /\ Advance([queue EXCEPT !.Priority = PriorityNow], "Active", i, cmd)
             /\ conf' = conf
    BY <1>1
<1>3. r \in Accesses /\ b \in Banks /\ Row(r) \in Nat \ {0} /\ NextCommand(r) # "None"
      /\ LegalNext(r)
    BY <1>1, BankOfAccess DEF Eligible
<1>4. cmd # "None"
    BY <1>2, <1>3 DEF Upgrades
<1>5. /\ cmd = NextCommand(r)
      /\ \/ bank[b].row = Row(r) /\ cmd \in {"RD", "WR"}
         \/ bank[b].row # NoRow /\ bank[b].row # Row(r) /\ cmd = "PREPB"
         \/ bank[b].activating /\ bank[b].row = NoRow /\ cmd = "ACT2" /\ r.first
         \/ ~bank[b].activating /\ bank[b].row = NoRow /\ cmd \in {"ACT", "ACT1"}
    BY <1>3, <1>4, AccessCommand
<1>6. q \in Seq(Accesses) /\ i \in 1 .. Len(q)
      /\ \A k \in {"Read", "Write"} : queue[k] \in Seq(Accesses)
    BY DEF ControlType, Ordinaries
<1>7. KeepsRow(bank, r) /\ \A j \in DOMAIN q : KeepsRow(bank, q[j])
      /\ Distinct(q) /\ (bank[b].activating => bank[b].row = NoRow)
    BY <1>3 DEF OpenRows
<1> DEFINE others == [queue EXCEPT !.Priority = PriorityNow]
<1>8. /\ others \in [Queues -> Seq(Accesses) \union Seq(Maints)]
      /\ SameOrdinary(others, queue)
    <2>1. /\ PriorityNow \in Seq(Maints) /\ Len(PriorityNow) <= PriorityMax
        BY PriorityIs
    <2> QED BY <2>1, Others
<1>9. "Active" \in Ordinaries /\ Advance(others, "Active", i, cmd)
    BY <1>2 DEF Ordinaries
<1> HIDE DEF others
<1>10. \/ LeavesWithData("Active", i, cmd)
       \/ BecomesActive("Active", i, cmd)
       \/ Stays("Active", i, cmd)
    BY <1>8, <1>9, AdvanceIs
<1>11. \A k \in {"Read", "Write"} : queue'[k] = queue[k]
    <2>1. {"Read", "Write"} \subseteq Ordinaries \ {"Active"}
        BY DEF Ordinaries
    <2> QED BY <1>10, <2>1 DEF LeavesWithData, BecomesActive, Stays
<1>12. \A k \in {"Read", "Write"} : \A j \in DOMAIN queue'[k] : ~queue'[k][j].first
    BY <1>11 DEF OpenRows
<1>13. bank' = BankAfter(conf, bank, b, Row(r), cmd)
    BY <1>2 DEF Command
<1>14. CASE bank[b].row = Row(r) /\ cmd \in {"RD", "WR"}
    <2>1. bank' = bank
        BY <1>13, <1>14 DEF BankAfter
    <2>2. queue'.Active = RemoveAt(q, i)
        BY <1>10, <1>14 DEF LeavesWithData, BecomesActive, Stays, DataCommands, ReadCommands,
                            WriteCommands
    <2>3. Distinct(queue'.Active)
        BY <1>6, <1>7, <2>2, DistinctRemoved
    <2>4. \A j \in DOMAIN queue'.Active : \E m \in DOMAIN q : queue'.Active[j] = q[m]
        <3>1. Range(RemoveAt(q, i)) \subseteq Range(q)
            BY <1>6, RemoveAtRange
        <3> QED BY <2>2, <3>1 DEF Range
    <2>5. \A j \in DOMAIN queue'.Active : KeepsRow(bank', queue'.Active[j])
        BY <1>7, <2>1, <2>4
    <2> QED BY <1>12, <2>1, <2>3, <2>5 DEF OpenRows, KeepsRow, Distinct, BankIdx, Row
<1>15. CASE bank[b].activating /\ bank[b].row = NoRow /\ cmd = "ACT2" /\ r.first
    <2> DEFINE m == Marked(r, cmd)
               e == [row |-> Row(r), activating |-> FALSE]
    <2>1. bank' = [bank EXCEPT ![b] = e]
        BY <1>13, <1>15 DEF BankAfter
    <2>2. queue'.Active = [q EXCEPT ![i] = m]
        BY <1>10, <1>15 DEF LeavesWithData, BecomesActive, Stays, DataCommands, ReadCommands,
                            WriteCommands
    <2>3. m \in Accesses /\ m.type = r.type /\ m.line = r.line
        BY <1>3, MarkedIs
    <2>4. BankIdx(m) = b /\ Row(m) = Row(r)
        BY <1>3, <2>3, BankOfAccess
    <2> HIDE DEF m
    <2>5. Distinct(queue'.Active)
        BY <1>6, <1>7, <2>2, <2>3, <2>4, DistinctUpdated
    <2>6. /\ bank'[b] = e /\ \A d \in Banks \ {b} : bank'[d] = bank[d]
        BY <1>3, <2>1 DEF ControlType, BankStates
    <2>7. KeepsRow(bank', m)
        BY <2>4, <2>6 DEF KeepsRow
    <2>8. ASSUME NEW j \in DOMAIN queue'.Active
          PROVE  KeepsRow(bank', queue'.Active[j])
        <3>1. j \in DOMAIN q
            BY <2>2
        <3>2. CASE j = i
            BY <1>6, <2>2, <2>7, <3>2
        <3>3. CASE j # i
            <4>1. queue'.Active[j] = q[j] /\ q[j] \in Accesses
                BY <1>6, <2>2, <3>1, <3>3
            <4>2. BankIdx(q[j]) # b
                BY <1>7, <3>1, <3>3 DEF Distinct
            <4>3. bank'[BankIdx(q[j])] = bank[BankIdx(q[j])]
                BY <2>6, <4>1, <4>2, BankOfAccess
            <4> QED BY <1>7, <3>1, <4>1, <4>3 DEF KeepsRow
        <3> QED BY <3>2, <3>3
    <2>9. \A d \in Banks : bank'[d].activating => bank'[d].row = NoRow
        BY <2>6 DEF OpenRows
    <2> QED BY <1>12, <2>5, <2>8, <2>9 DEF OpenRows, KeepsRow, Distinct, BankIdx, Row
<1>16. ~(bank[b].row # NoRow /\ bank[b].row # Row(r))
    BY <1>7 DEF KeepsRow
<1>17. ~(~bank[b].activating /\ bank[b].row = NoRow)
    BY <1>3, <1>7 DEF KeepsRow, NoRow
<1> QED BY <1>5, <1>14, <1>15, <1>16, <1>17

LEMMA RowOrdinary ==
    ASSUME ControlType, OpenRows, conf.policy = "Open", NEW bus, IssueOrdinary(bus)
    PROVE  OpenRows'
<1> DEFINE q == queue.Active
<1>0. PICK k \in {"Read", "Write"} : \E i \in DOMAIN queue[k] :
             LET r == queue[k][i] IN
             /\ r \in Accesses /\ LegalNext(r) /\ Eligible(k, r, bus)
             /\ \E cmd \in Upgrades(r, NextCommand(r)) :
                  /\ Command(r, cmd, PolicyNow)
                  /\ Advance([queue EXCEPT !.Priority = <<>>], k, i, cmd)
                  /\ UNCHANGED <<conf, seq, ref, resp, golden, due>>
    BY OrdinaryIssues
<1>1. PICK i \in DOMAIN queue[k] :
             LET r == queue[k][i] IN
             /\ r \in Accesses /\ LegalNext(r) /\ Eligible(k, r, bus)
             /\ \E cmd \in Upgrades(r, NextCommand(r)) :
                  /\ Command(r, cmd, PolicyNow)
                  /\ Advance([queue EXCEPT !.Priority = <<>>], k, i, cmd)
                  /\ UNCHANGED <<conf, seq, ref, resp, golden, due>>
    BY <1>0
<1> DEFINE r == queue[k][i]
           b == BankIdx(r)
<1>2. PICK cmd \in Upgrades(r, NextCommand(r)) :
             /\ Command(r, cmd, PolicyNow)
             /\ Advance([queue EXCEPT !.Priority = <<>>], k, i, cmd)
             /\ conf' = conf
    BY <1>1
<1>3. r \in Accesses /\ b \in Banks /\ Row(r) \in Nat \ {0} /\ NextCommand(r) # "None"
      /\ LegalNext(r) /\ ~ClosesActive(r, NextCommand(r)) /\ k # "Active"
    BY <1>1, BankOfAccess DEF Eligible
<1>4. cmd # "None"
    BY <1>2, <1>3 DEF Upgrades
<1>5. /\ cmd = NextCommand(r)
      /\ \/ bank[b].row = Row(r) /\ cmd \in {"RD", "WR"}
         \/ bank[b].row # NoRow /\ bank[b].row # Row(r) /\ cmd = "PREPB"
         \/ bank[b].activating /\ bank[b].row = NoRow /\ cmd = "ACT2" /\ r.first
         \/ ~bank[b].activating /\ bank[b].row = NoRow /\ cmd \in {"ACT", "ACT1"}
    BY <1>3, <1>4, AccessCommand
<1>6. q \in Seq(Accesses) /\ queue[k] \in Seq(Accesses) /\ i \in 1 .. Len(queue[k])
      /\ \A j \in {"Read", "Write"} : queue[j] \in Seq(Accesses)
    BY DEF ControlType, Ordinaries
<1>7. /\ ~r.first /\ \A j \in DOMAIN q : KeepsRow(bank, q[j])
      /\ Distinct(q) /\ (bank[b].activating => bank[b].row = NoRow)
    BY <1>3 DEF OpenRows
<1> DEFINE others == [queue EXCEPT !.Priority = <<>>]
<1>8. /\ others \in [Queues -> Seq(Accesses) \union Seq(Maints)]
      /\ SameOrdinary(others, queue)
    <2>1. <<>> \in Seq(Maints) /\ Len(<<>>) <= PriorityMax
        BY QueueAssumption
    <2> QED BY <2>1, Others
<1>9. k \in Ordinaries /\ Advance(others, k, i, cmd)
    BY <1>2 DEF Ordinaries
<1> HIDE DEF others
<1>10. \/ LeavesWithData(k, i, cmd)
       \/ BecomesActive(k, i, cmd)
       \/ Stays(k, i, cmd)
    BY <1>8, <1>9, AdvanceIs
<1>11. bank' = BankAfter(conf, bank, b, Row(r), cmd)
    BY <1>2 DEF Command
<1>12. "Active" \in Ordinaries \ {k} /\ {"Read", "Write"} \subseteq Ordinaries
    BY <1>3 DEF Ordinaries
<1>13. cmd \in {"ACT", "ACT1"} => Len(q) < NBanks /\ \A j \in DOMAIN q : BankIdx(q[j]) # b
    <2> SUFFICES ASSUME cmd \in {"ACT", "ACT1"}
                 PROVE  Len(q) < NBanks /\ \A j \in DOMAIN q : BankIdx(q[j]) # b
        OBVIOUS
    <2>1. ~bank[b].activating /\ bank[b].row = NoRow
        BY <1>5
    <2>2. \A j \in DOMAIN q : BankIdx(q[j]) # b
        <3> SUFFICES ASSUME NEW j \in DOMAIN q, BankIdx(q[j]) = b PROVE FALSE
            OBVIOUS
        <3>1. q[j] \in Accesses
            BY <1>6
        <3>2. Row(q[j]) \in Nat \ {0}
            BY <3>1, BankOfAccess
        <3> QED BY <1>7, <2>1, <3>2 DEF KeepsRow, NoRow
    <2>3. Len(q) < NBanks
        BY <1>3, <1>6, <1>7, <2>2, RoomToActivate
    <2> QED BY <2>2, <2>3
\* Whatever happens to the request, requests that stay in the ordinary queues have
\* not issued an ACT1.
<1>14. \A x \in {"Read", "Write"} : \A j \in DOMAIN queue'[x] : ~queue'[x][j].first
    <2>1. \A x \in {"Read", "Write"} : \A j \in DOMAIN queue[x] : ~queue[x][j].first
        BY DEF OpenRows
    <2>2. \A x \in {"Read", "Write"} \ {k} : queue'[x] = queue[x]
        BY <1>10, <1>12 DEF LeavesWithData, BecomesActive, Stays
    <2>3. \A j \in DOMAIN queue'[k] : ~queue'[k][j].first
        <3>1. CASE queue'[k] = RemoveAt(queue[k], i)
            <4>1. Range(RemoveAt(queue[k], i)) \subseteq Range(queue[k])
                BY <1>6, RemoveAtRange
            <4>2. \A j \in DOMAIN queue'[k] : \E m \in DOMAIN queue[k] : queue'[k][j] = queue[k][m]
                BY <3>1, <4>1 DEF Range
            <4> QED BY <2>1, <4>2
        <3>2. CASE Stays(k, i, cmd)
            <4>1. cmd # "ACT1"
                BY <1>3, <1>13, <3>2 DEF Stays
            <4>2. ~Marked(r, cmd).first
                BY <1>3, <1>7, <4>1, MarkedIs
            <4>3. queue'[k] = [queue[k] EXCEPT ![i] = Marked(r, cmd)]
                BY <3>2 DEF Stays
            <4> QED BY <1>6, <2>1, <4>2, <4>3
        <3> QED BY <1>10, <3>1, <3>2 DEF LeavesWithData, BecomesActive
    <2> QED BY <2>1, <2>2, <2>3
<1>15. CASE bank[b].row = Row(r) /\ cmd \in {"RD", "WR"}
    <2>1. bank' = bank
        BY <1>11, <1>15 DEF BankAfter
    <2>2. queue'.Active = q
        BY <1>10, <1>12, <1>15 DEF LeavesWithData, BecomesActive, Stays, DataCommands,
                                    ReadCommands, WriteCommands
    <2>3. \A d \in Banks : bank'[d].activating => bank'[d].row = NoRow
        BY <2>1 DEF OpenRows
    <2>4. \A j \in DOMAIN q : KeepsRow(bank', q[j])
        BY <1>7, <2>1
    <2> QED BY <1>7, <1>14, <2>2, <2>3, <2>4, OpenRowsAfter
<1>16. CASE cmd = "PREPB"
    <2>1. bank' = [bank EXCEPT ![b] = Bank0[b]]
        BY <1>11, <1>16 DEF BankAfter
    <2>2. queue'.Active = q
        BY <1>10, <1>12, <1>16 DEF LeavesWithData, BecomesActive, Stays, DataCommands,
                                    ReadCommands, WriteCommands
    <2>3. ~ActiveOn(b)
        BY <1>3, <1>5, <1>16 DEF ClosesActive, Closing, AllBankCommands
    <2>4. \A j \in DOMAIN q : BankIdx(q[j]) # b
        BY <2>3 DEF ActiveOn, Range
    <2>5. /\ bank'[b] = Bank0[b] /\ \A d \in Banks \ {b} : bank'[d] = bank[d]
        BY <1>3, <2>1 DEF ControlType, BankStates
    <2>6. \A j \in DOMAIN q : KeepsRow(bank', q[j])
        <3> TAKE j \in DOMAIN q
        <3>1. q[j] \in Accesses
            BY <1>6
        <3>2. bank'[BankIdx(q[j])] = bank[BankIdx(q[j])]
            BY <2>4, <2>5, <3>1, BankOfAccess
        <3> QED BY <1>7, <3>2 DEF KeepsRow
    <2>7. \A d \in Banks : bank'[d].activating => bank'[d].row = NoRow
        BY <1>3, <2>5 DEF OpenRows, Bank0
    <2> QED BY <1>7, <1>14, <2>2, <2>6, <2>7, OpenRowsAfter
<1>17. CASE ~bank[b].activating /\ bank[b].row = NoRow /\ cmd \in {"ACT", "ACT1"}
    <2> DEFINE m == Marked(r, cmd)
    <2>1. Len(q) < NBanks /\ \A j \in DOMAIN q : BankIdx(q[j]) # b
        BY <1>13, <1>17
    <2>2. queue'.Active = Append(q, m)
        BY <1>3, <1>10, <1>17, <2>1 DEF LeavesWithData, BecomesActive, Stays, DataCommands,
                                    ReadCommands, WriteCommands
    <2>3. m \in Accesses /\ m.type = r.type /\ m.line = r.line
          /\ m.first = (r.first \/ cmd = "ACT1")
        BY <1>3, MarkedIs
    <2>4. BankIdx(m) = b /\ Row(m) = Row(r)
        BY <1>3, <2>3, BankOfAccess
    <2> HIDE DEF m
    <2>5. Distinct(queue'.Active)
        BY <1>6, <1>7, <2>1, <2>2, <2>3, <2>4, DistinctAppended
    <2>6. /\ \A d \in Banks \ {b} : bank'[d] = bank[d]
          /\ \/ cmd = "ACT" /\ bank'[b] = [row |-> Row(r), activating |-> FALSE]
             \/ cmd = "ACT1" /\ bank'[b].activating /\ bank'[b].row = NoRow
        BY <1>3, <1>11, <1>17 DEF BankAfter, ControlType, BankStates
    <2>7. KeepsRow(bank', m)
        <3>1. CASE cmd = "ACT"
            <4>1. bank'[BankIdx(m)].row = Row(m)
                BY <2>4, <2>6, <3>1
            <4> QED BY <4>1 DEF KeepsRow
        <3>2. CASE cmd = "ACT1"
            <4>1. m.first
                BY <2>3, <3>2
            <4>2. bank'[BankIdx(m)].activating
                BY <2>4, <2>6, <3>2
            <4> QED BY <4>1, <4>2 DEF KeepsRow
        <3> QED BY <2>6, <3>1, <3>2
    <2>8. \A j \in DOMAIN q : KeepsRow(bank', q[j])
        <3> TAKE j \in DOMAIN q
        <3>1. q[j] \in Accesses
            BY <1>6
        <3>2. bank'[BankIdx(q[j])] = bank[BankIdx(q[j])]
            BY <2>1, <2>6, <3>1, BankOfAccess
        <3> QED BY <1>7, <3>2 DEF KeepsRow
    <2>9. \A j \in DOMAIN queue'.Active : KeepsRow(bank', queue'.Active[j])
        <3>1. /\ Len(Append(q, m)) = Len(q) + 1 /\ Len(q) \in Nat
              /\ \A j \in 1 .. Len(q) : Append(q, m)[j] = q[j]
              /\ Append(q, m)[Len(q) + 1] = m
              /\ Append(q, m) \in Seq(Accesses)
            BY <1>6, <2>3, AppendProperties, LenProperties
        <3> QED BY <1>6, <2>2, <2>7, <2>8, <3>1
    <2>10. \A d \in Banks : bank'[d].activating => bank'[d].row = NoRow
        BY <2>6 DEF OpenRows
    <2> QED BY <1>14, <2>5, <2>9, <2>10 DEF OpenRows, KeepsRow, Distinct, BankIdx, Row
<1> QED BY <1>5, <1>7, <1>15, <1>16, <1>17

\* What a maintenance request needs: the precharge before it, or itself.
LEMMA MaintCommand ==
    ASSUME NEW r \in Maints
    PROVE  \/ NextCommand(r) = "PREAB" /\ r.cmd \in AllBankCommands
           \/ NextCommand(r) = "PREPB" /\ r.cmd \in {"REFPB", "RFMPB"}
           \/ NextCommand(r) = r.cmd
<1>1. r.type = "Maint"
    BY DEF Maints
<1>2. NextCommand(r) =
        CASE r.cmd \in AllBankCommands /\ RankBusy(conf, bank, BankIdx(r)) -> "PREAB"
          [] r.cmd \in {"REFPB", "RFMPB"} /\ Busy(bank, BankIdx(r)) -> "PREPB"
          [] OTHER -> r.cmd
    BY <1>1 DEF NextCommand
<1>3. ~(r.cmd \in AllBankCommands /\ r.cmd \in {"REFPB", "RFMPB"})
    BY DEF AllBankCommands
<1> QED BY <1>2, <1>3

LEMMA RowMaintenance ==
    ASSUME ControlType, OpenRows, conf.policy = "Open", NEW bus, IssueMaintenance(bus)
    PROVE  OpenRows'
<1> DEFINE q == queue.Active
           r == Head(PriorityLeft)
           cmd == NextCommand(r)
           b == r.bank
           s == IF cmd = r.cmd THEN Tail(PriorityLeft) ELSE PriorityLeft
<1>1. /\ r \in Maints /\ Eligible("Priority", r, bus)
      /\ Command(r, cmd, PolicyNow)
      /\ queue' = [queue EXCEPT !.Priority = s]
      /\ conf' = conf
    BY MaintenanceIssues
<1>2. b \in Banks /\ BankIdx(r) = b /\ Row(r) = NoRow
      /\ r.cmd \in {"PREPB", "REFPB", "REFAB", "RFMPB", "RFMAB"}
    BY <1>1, BankOfMaint DEF Maints, Refreshes, Mitigations
<1>3. ~ClosesActive(r, cmd)
    BY <1>1 DEF Eligible
<1>4. cmd \in {"PREAB", "PREPB", "REFPB", "REFAB", "RFMPB", "RFMAB"}
    BY <1>1, <1>2, MaintCommand
<1>5. bank' = BankAfter(conf, bank, b, Row(r), cmd)
    BY <1>1, <1>2 DEF Command
<1> HIDE DEF r, s, cmd, b
<1>6. queue'.Active = q /\ queue'.Read = queue.Read /\ queue'.Write = queue.Write
    BY <1>1 DEF ControlType, Queues
<1>7. \A x \in {"Read", "Write"} : \A j \in DOMAIN queue'[x] : ~queue'[x][j].first
    <2>1. \A x \in {"Read", "Write"} : queue'[x] = queue[x]
        BY <1>6
    <2> QED BY <2>1 DEF OpenRows
<1>8. /\ q \in Seq(Accesses) /\ Distinct(q)
      /\ \A j \in DOMAIN q : KeepsRow(bank, q[j])
    BY DEF ControlType, Ordinaries, OpenRows
\* The banks that a command closes hold no active request.
<1>9. /\ \A j \in DOMAIN q : bank'[BankIdx(q[j])] = bank[BankIdx(q[j])]
      /\ \A d \in Banks : bank'[d] = bank[d] \/ bank'[d] = Bank0[d]
    <2>0. \A j \in DOMAIN q : q[j] \in Accesses /\ BankIdx(q[j]) \in Banks
        BY <1>8, BankOfAccess
    <2>1. CASE cmd = "PREPB"
        <3>1. ~ActiveOn(b)
            BY <1>2, <1>3, <2>1 DEF ClosesActive, Closing, AllBankCommands
        <3>2. \A j \in DOMAIN q : BankIdx(q[j]) # b
            BY <3>1 DEF ActiveOn, Range
        <3>3. bank'[b] = Bank0[b] /\ \A d \in Banks \ {b} : bank'[d] = bank[d]
            BY <1>2, <1>5, <2>1 DEF BankAfter, ControlType, BankStates
        <3> QED BY <2>0, <3>2, <3>3
    <2>2. CASE cmd = "PREAB"
        <3>1. \A d \in RankBanks(conf.ranks, RankOf(conf.ranks, b)) : ~ActiveOn(d)
            BY <1>2, <1>3, <2>2 DEF ClosesActive, AllBankCommands
        <3>2. \A d \in Banks :
                bank'[d] = IF RankOf(conf.ranks, d) = RankOf(conf.ranks, b)
                           THEN Bank0[d] ELSE bank[d]
            BY <1>5, <2>2 DEF BankAfter
        <3>3. \A d \in Banks : RankOf(conf.ranks, d) = RankOf(conf.ranks, b) =>
                d \in RankBanks(conf.ranks, RankOf(conf.ranks, b))
            BY DEF RankBanks, RankOf
        <3>4. \A j \in DOMAIN q : ActiveOn(BankIdx(q[j]))
            BY DEF ActiveOn, Range
        <3>5. \A j \in DOMAIN q : RankOf(conf.ranks, BankIdx(q[j])) # RankOf(conf.ranks, b)
            BY <2>0, <3>1, <3>3, <3>4
        <3> QED BY <2>0, <3>2, <3>5
    <2>3. CASE cmd \in {"REFPB", "REFAB", "RFMPB", "RFMAB"}
        <3>1. bank' = bank
            BY <1>5, <2>3 DEF BankAfter
        <3> QED BY <3>1
    <2> QED BY <1>4, <2>1, <2>2, <2>3
<1>10. \A j \in DOMAIN q : KeepsRow(bank', q[j])
    BY <1>8, <1>9 DEF KeepsRow
<1>11. \A d \in Banks : bank'[d].activating => bank'[d].row = NoRow
    BY <1>9 DEF OpenRows, Bank0
<1>12. q = queue'.Active
    BY <1>6
<1> HIDE DEF q
<1> QED BY <1>7, <1>8, <1>10, <1>11, <1>12, OpenRowsAfter

LEMMA RowEnqueue ==
    ASSUME ControlType, OpenRows, Enqueue
    PROVE  OpenRows'
<1>1. bank' = bank
    BY DEF Enqueue, ForwardRead, QueueRead, CoalesceWrite, QueueWrite
<1>2. seq \in Nat /\ queue \in [Queues -> Seq(Accesses) \union Seq(Maints)]
      /\ queue.Read \in Seq(Accesses) /\ queue.Write \in Seq(Accesses)
    BY DEF ControlType, Ordinaries
<1>3. ControlType'
    BY EnqueueTypes
<1>4. queue'.Active = queue.Active
    BY <1>2 DEF Enqueue, ForwardRead, QueueRead, CoalesceWrite, QueueWrite, Queues
<1>5. \A k \in {"Read", "Write"} :
        \/ queue'[k] = queue[k]
        \/ \E t : ~t.first /\ queue'[k] = Append(queue[k], t)
    <2>1. \A shape : ~NewRead(shape).first /\ ~NewWrite(shape).first
        BY DEF NewRead, NewWrite, Transaction
    <2>2. CASE queue' = queue
        BY <2>2
    <2>3. CASE \E shape : queue' = [queue EXCEPT !.Read = Append(@, NewRead(shape))]
        BY <1>2, <2>1, <2>3 DEF Queues
    <2>4. CASE \E shape : queue' = [queue EXCEPT !.Write = Append(@, NewWrite(shape))]
        BY <1>2, <2>1, <2>4 DEF Queues
    <2> QED BY <2>2, <2>3, <2>4 DEF Enqueue, ForwardRead, QueueRead, CoalesceWrite, QueueWrite
<1>6. \A k \in {"Read", "Write"} : \A j \in DOMAIN queue'[k] : ~queue'[k][j].first
    <2> TAKE k \in {"Read", "Write"}
    <2>1. queue[k] \in Seq(Accesses) /\ \A j \in DOMAIN queue[k] : ~queue[k][j].first
        BY <1>2 DEF OpenRows
    <2>2. CASE queue'[k] = queue[k]
        BY <2>1, <2>2
    <2>3. ASSUME NEW t, ~t.first, queue'[k] = Append(queue[k], t)
          PROVE  \A j \in DOMAIN queue'[k] : ~queue'[k][j].first
        BY <2>1, <2>3
    <2> QED BY <1>5, <2>2, <2>3
<1> QED BY <1>1, <1>4, <1>6 DEF OpenRows, KeepsRow, Distinct, BankIdx, Row

LEMMA RowRest ==
    ASSUME ControlType, OpenRows,
           \/ PhyReady \/ PhyMoves \/ CompletePending \/ ScheduleRefresh
           \/ ApplyRowPolicy \/ NothingIssued \/ PopResponse \/ UNCHANGED vars
    PROVE  OpenRows'
<1>1. bank' = bank
    BY DEF PhyReady, PhyMoves, CompletePending, ScheduleRefresh, ApplyRowPolicy,
           NothingIssued, PopResponse, vars
<1>2. /\ queue'.Active = queue.Active /\ queue'.Read = queue.Read
      /\ queue'.Write = queue.Write
    <2>1. queue \in [Queues -> Seq(Accesses) \union Seq(Maints)]
        BY DEF ControlType
    <2> QED BY <2>1 DEF PhyReady, PhyMoves, CompletePending, ScheduleRefresh, ApplyRowPolicy,
                        NothingIssued, PopResponse, vars, Queues
<1>3. \A k \in {"Read", "Write"} : queue'[k] = queue[k]
    BY <1>2
<1> QED BY <1>1, <1>2, <1>3, SMTT(30) DEF OpenRows, KeepsRow, Distinct, BankIdx, Row

LEMMA InitRows == Init => RowInv
<1> SUFFICES ASSUME Init PROVE OpenRows
    BY DEF RowInv
<1>1. queue.Active = <<>> /\ \A k \in {"Read", "Write"} : queue[k] = <<>>
    BY DEF Init
<1>2. \A b \in Banks : ~bank[b].activating
    BY DEF Init, Bank0
<1> QED BY <1>1, <1>2 DEF OpenRows, Distinct

LEMMA StepRows == ControlType /\ RowInv /\ [Next]_vars => RowInv'
<1> SUFFICES ASSUME ControlType, RowInv, [Next]_vars PROVE RowInv'
    OBVIOUS
<1>1. conf' = conf
    BY DEF Next, Enqueue, ForwardRead, QueueRead, CoalesceWrite, QueueWrite, Tick, PhyReady,
           PhyMoves, CompletePending, ScheduleRefresh, ApplyRowPolicy, Issue, IssueActive,
           IssueMaintenance, IssueOrdinary, NothingIssued, PopResponse, Finished, vars
<1> SUFFICES ASSUME conf.policy = "Open" PROVE OpenRows'
    BY <1>1 DEF RowInv
<1>2. OpenRows
    BY DEF RowInv
<1> QED BY <1>2, StepIs, RowEnqueue, RowActive, RowMaintenance, RowOrdinary, RowRest

LEMMA RowsAreKept == ControlType /\ RowInv => OpenPageKeepsRow
<1> SUFFICES ASSUME ControlType, RowInv, conf.policy = "Open" PROVE ActiveKeepsRow
    BY DEF OpenPageKeepsRow
<1>1. \A a \in Range(queue.Active) : KeepsRow(bank, a)
    BY DEF RowInv, OpenRows, Range
<1>2. Distinct(queue.Active)
    BY DEF RowInv, OpenRows
<1> QED BY <1>1, <1>2 DEF ActiveKeepsRow, KeepsRow, Distinct

\* With the open-page policy nobody takes the bank that a request has activated
\* before the request's data command: not a refresh, an RFM, a conflicting request or
\* the scheduler's choice among requests (would_close_active and
\* retire_or_advance in controller.cpp).
THEOREM OpenPageKeepsRows == Spec => []OpenPageKeepsRow
<1>1. Init => ControlType /\ RowInv
    BY InitTypes, InitRows
<1>2. ControlType /\ RowInv /\ [Next]_vars => (ControlType /\ RowInv)'
    BY StepTypes, StepRows
<1>3. ControlType /\ RowInv => OpenPageKeepsRow
    BY RowsAreKept
<1> QED BY <1>1, <1>2, <1>3, PTL DEF Spec

-----------------------------------------------------------------------------
(* The data: where the newest bytes of a cell are *)

\* Writes to one line have the same address and bytes, or no bytes in common.  Without
\* this LastWriteWins does not hold of the code, which looks for the write that is
\* buffered at the same address and not for one that overlaps.
AlignedShapes ==
    \A v, w \in WriteShapes : v.line = w.line =>
        \/ v.off = w.off /\ v.cells = w.cells
        \/ v.off # w.off /\ v.cells \cap w.cells = {}

Positions(q) == UNION {{k} \X DOMAIN q[k] : k \in Ordinaries}
At(q, p) == q[p[1]][p[2]]

Buffers == [line : Lines, off : Nat, cells : SUBSET Cells, data : Data]

Shaped(x) == \E w \in WriteShapes : x.line = w.line /\ x.off = w.off /\ x.cells = w.cells

Images == [backing : [Lines -> [Cells -> Nat]], open : [Banks -> Nat],
           dirty : [Banks -> BOOLEAN],
           column : [Lines -> [Cells -> Nat] \union {NotLoaded}]]

\* A loaded line is in the open row, and unless the row is dirty it is what the
\* backing store holds.
ImageSound(im) ==
    /\ im \in Images
    /\ \A l \in Lines : Loaded(im, l) =>
          /\ InRow(im, l)
          /\ im.dirty[BankOf[l]] \/ im.column[l] = im.backing[l]

Phys == [behavioral : BOOLEAN, ready : BOOLEAN, reads : Seq(Accesses),
         writes : Seq(Accesses), done : SUBSET [id : Nat, data : Data]]

Carries(t, l, c) == t.line = l /\ c \in DOMAIN t.data

\* What cell c of line l holds once the writes in the PHY have arrived.
Lands(writes, im, l, c, v) ==
    \/ \E j \in DOMAIN writes :
          /\ Carries(writes[j], l, c) /\ writes[j].data[c] = v
          /\ \A m \in DOMAIN writes : m > j => ~Carries(writes[m], l, c)
    \/ /\ \A m \in DOMAIN writes : ~Carries(writes[m], l, c)
       /\ Contents(im, l)[c] = v

DataTypes ==
    /\ pend \in Seq(Accesses)
    /\ phy \in Phys /\ phy.behavioral = conf.behavioral
    /\ ImageSound(img)

\* The buffered data have one entry per address.
BufferInv ==
    /\ wbuf \subseteq Buffers
    /\ \A e \in wbuf : Shaped(e) /\ DOMAIN e.data \subseteq e.cells
    /\ \A e, f \in wbuf : SameAddress(e, f) => e = f

\* A queued write owns one of them, and nobody else does.
QueueInv ==
    /\ \A p \in Positions(queue) :
          /\ p[1] = "Write" => At(queue, p).type = "Write"
          /\ At(queue, p).id <= seq
          /\ At(queue, p).type = "Write" =>
                \E e \in wbuf : SameAddress(e, At(queue, p)) /\ e.cells = At(queue, p).cells
          /\ \A j \in DOMAIN pend : pend[j].id # At(queue, p).id
    /\ \A p, o \in Positions(queue) :
          \/ p = o
          \/ /\ At(queue, p).id # At(queue, o).id
             /\ At(queue, p).type = "Write" /\ At(queue, o).type = "Write" =>
                    ~SameAddress(At(queue, p), At(queue, o))

\* Ids name one request, and what the PHY holds is pending.
PendInv ==
    /\ \A j \in DOMAIN pend : pend[j].id <= seq
    /\ \A i, j \in DOMAIN pend : pend[i].id = pend[j].id => i = j
    /\ \A i, j \in DOMAIN phy.reads : phy.reads[i].id = phy.reads[j].id => i = j
    /\ \A i, j \in DOMAIN phy.writes : phy.writes[i].id = phy.writes[j].id => i = j
    /\ \A j \in DOMAIN phy.reads :
          /\ phy.reads[j] \in Range(pend)
          /\ phy.reads[j].type = "Read" /\ phy.reads[j].cmd # "Bypass"
    /\ \A j \in DOMAIN phy.writes :
          /\ phy.writes[j] \in Range(pend)
          /\ phy.writes[j].type = "Write" /\ phy.writes[j].cmd # "Bypass"
          /\ DOMAIN phy.writes[j].data \subseteq phy.writes[j].cells
    /\ \A d \in phy.done :
          /\ \E t \in Range(pend) : t.id = d.id /\ t.cmd # "Bypass"
          /\ \A j \in DOMAIN phy.reads : phy.reads[j].id # d.id
          /\ \A j \in DOMAIN phy.writes : phy.writes[j].id # d.id
    /\ ~conf.behavioral => phy.reads = <<>> /\ phy.writes = <<>> /\ phy.done = {}

\* The newest bytes of a cell are buffered, or they are on their way, or stored.
NewestAt(l, c) ==
    \/ \E e \in wbuf : Carries(e, l, c) /\ e.data[c] = golden[l][c]
    \/ /\ \A e \in wbuf : ~Carries(e, l, c)
       /\ Lands(phy.writes, img, l, c, golden[l][c])

NewestInv == \A l \in Lines, c \in Cells : NewestAt(l, c)

\* Reads that have not fetched their data yet.
Unread ==
    {At(queue, p) : p \in {o \in Positions(queue) : At(queue, o).type = "Read"}}
    \union Range(phy.reads)
    \union {t \in Range(pend) : ~conf.behavioral /\ t.type = "Read" /\ t.cmd # "Bypass"}

\* They will find the bytes that were the newest when they arrived.
Sees(r) == \A c \in r.cells : Lands(phy.writes, img, r.line, c, r.expect[c])

\* A queued write that is not younger than the read has none of its bytes: the read
\* would have been answered from the buffer.
Passes(r) ==
    \A p \in Positions(queue) : \A e \in wbuf :
        /\ At(queue, p).type = "Write" /\ SameAddress(e, At(queue, p))
        /\ r.line = e.line /\ ~(r.id < At(queue, p).id)
        => DOMAIN e.data \cap r.cells = {}

ReadOk(r) == r.id <= seq /\ DOMAIN r.expect = r.cells /\ Sees(r) /\ Passes(r)

\* What the PHY holds may pass each other.
Apart ==
    \A i \in DOMAIN phy.reads, j \in DOMAIN phy.writes :
        phy.reads[i].line = phy.writes[j].line =>
            DOMAIN phy.writes[j].data \cap phy.reads[i].cells = {}

ReadInv == (\A r \in Unread : ReadOk(r)) /\ Apart

Answers == [id : Nat, forwarded : BOOLEAN, matches : BOOLEAN]

\* Reads that have got their data got the right ones.
AnswerInv ==
    /\ resp \in Seq(Answers)
    /\ \A d \in phy.done : \A t \in Range(pend) :
          t.id = d.id /\ t.type = "Read" => d.data = t.expect
    /\ ~conf.behavioral => \A t \in Range(pend) :
          t.cmd = "Bypass" /\ t.type = "Read" => t.data = t.expect
    /\ MemoryReadsSeeAccepted

DataInv == DataTypes /\ BufferInv /\ QueueInv /\ PendInv /\ NewestInv /\ ReadInv /\ AnswerInv

LEMMA PlaceOfLine ==
    ASSUME NEW l \in Lines
    PROVE  BankOf[l] \in Banks /\ RowOf[l] \in Nat /\ RowOf[l] # NoRow
BY LineAssumption DEF NoRow

LEMMA NothingLoaded ==
    /\ \A f \in [Cells -> Nat] : f # NotLoaded
    /\ \A im \in Images, l \in Lines :
          /\ Contents(im, l) \in [Cells -> Nat]
          /\ Loaded(im, l) => im.column[l] \in [Cells -> Nat]
<1>1. \A f \in [Cells -> Nat] : f # NotLoaded
    <2>1. DOMAIN NotLoaded = {}
        BY DEF NotLoaded
    <2> QED BY <2>1, LineAssumption
<1>2. ASSUME NEW im \in Images, NEW l \in Lines
      PROVE  /\ Contents(im, l) \in [Cells -> Nat]
             /\ Loaded(im, l) => im.column[l] \in [Cells -> Nat]
    <2>1. im.column[l] \in [Cells -> Nat] \union {NotLoaded} /\ im.backing[l] \in [Cells -> Nat]
        BY DEF Images
    <2> QED BY <2>1 DEF Contents, Loaded
<1> QED BY <1>1, <1>2

\* A row buffer that closes leaves every line as it was.
LEMMA PrechargedKeeps ==
    ASSUME NEW im, ImageSound(im), NEW banks
    PROVE  /\ ImageSound(Precharged(im, banks))
           /\ \A l \in Lines : Contents(Precharged(im, banks), l) = Contents(im, l)
<1> DEFINE n == Precharged(im, banks)
           F == [Cells -> Nat]
<1>0. NotLoaded \notin F
    BY NothingLoaded
<1> DEFINE closes(l) == BankOf[l] \in banks /\ Loaded(im, l)
           back(l) == IF closes(l) /\ im.dirty[BankOf[l]] THEN im.column[l] ELSE im.backing[l]
           col(l) == IF closes(l) THEN NotLoaded ELSE im.column[l]
<1>1. /\ im.backing \in [Lines -> F] /\ im.open \in [Banks -> Nat]
      /\ im.dirty \in [Banks -> BOOLEAN] /\ im.column \in [Lines -> F \union {NotLoaded}]
    BY DEF ImageSound, Images
<1>2. /\ n.backing = [l \in Lines |-> back(l)]
      /\ n.column = [l \in Lines |-> col(l)]
      /\ n.open = [b \in Banks |-> IF b \in banks THEN NoRow ELSE im.open[b]]
      /\ n.dirty = [b \in Banks |-> b \notin banks /\ im.dirty[b]]
    BY DEF Precharged
<1>3. n = [backing |-> n.backing, open |-> n.open, dirty |-> n.dirty, column |-> n.column]
    BY DEF Precharged
<1>4. ASSUME NEW l \in Lines
      PROVE  /\ BankOf[l] \in Banks
             /\ Loaded(im, l) => im.column[l] \in F /\ im.open[BankOf[l]] = RowOf[l]
             /\ Loaded(im, l) /\ ~im.dirty[BankOf[l]] => im.column[l] = im.backing[l]
    BY <1>1, PlaceOfLine DEF ImageSound, Loaded, InRow
<1> HIDE DEF n, F
<1>5. \A l \in Lines : n.backing[l] \in F /\ n.column[l] \in F \union {NotLoaded}
    BY <1>1, <1>2, <1>4
<1>6. n.open \in [Banks -> Nat] /\ n.dirty \in [Banks -> BOOLEAN]
    BY <1>1, <1>2 DEF NoRow
<1>7. n \in Images
    <2>1. n.backing \in [Lines -> F] /\ n.column \in [Lines -> F \union {NotLoaded}]
        <3> HIDE DEF back, col
        <3> QED BY <1>2, <1>5
    <2>2. n \in [backing : [Lines -> F], open : [Banks -> Nat], dirty : [Banks -> BOOLEAN],
                 column : [Lines -> F \union {NotLoaded}]]
        <3> DEFINE u == n.backing
                   v == n.open
                   w == n.dirty
                   x == n.column
        <3>1. n = [backing |-> u, open |-> v, dirty |-> w, column |-> x]
            BY <1>3
        <3>2. /\ u \in [Lines -> F] /\ v \in [Banks -> Nat] /\ w \in [Banks -> BOOLEAN]
              /\ x \in [Lines -> F \union {NotLoaded}]
            BY <1>6, <2>1
        <3> HIDE DEF u, v, w, x
        <3> QED BY <3>1, <3>2
    <2> QED BY <2>2 DEF Images, F
<1>8. ASSUME NEW l \in Lines
      PROVE  /\ Contents(n, l) = Contents(im, l)
             /\ Loaded(n, l) => /\ InRow(n, l)
                                /\ n.dirty[BankOf[l]] \/ n.column[l] = n.backing[l]
    <2>1. CASE closes(l)
        <3>1. n.column[l] = NotLoaded /\ n.backing[l] = im.column[l]
            BY <1>2, <1>4, <2>1
        <3> QED BY <2>1, <3>1 DEF Contents, Loaded
    <2>2. CASE ~closes(l)
        <3>1. n.column[l] = im.column[l] /\ n.backing[l] = im.backing[l]
            BY <1>2, <2>2
        <3>2. Loaded(n, l) <=> Loaded(im, l)
            BY <3>1 DEF Loaded
        <3>3. Contents(n, l) = Contents(im, l)
            BY <3>1, <3>2 DEF Contents
        <3>4. ASSUME Loaded(n, l)
              PROVE  InRow(n, l) /\ (n.dirty[BankOf[l]] \/ n.column[l] = n.backing[l])
            <4>1. BankOf[l] \notin banks
                BY <2>2, <3>2, <3>4
            <4>2. n.open[BankOf[l]] = im.open[BankOf[l]] /\ n.dirty[BankOf[l]] = im.dirty[BankOf[l]]
                BY <1>1, <1>2, <1>4, <4>1
            <4> QED BY <1>4, <3>1, <3>2, <3>4, <4>2 DEF InRow
        <3> QED BY <3>3, <3>4
    <2> QED BY <2>1, <2>2
<1> QED BY <1>7, <1>8 DEF ImageSound, n

\* A row that opens, another one closing first, does so as well.
LEMMA ActivatedKeeps ==
    ASSUME NEW im, ImageSound(im), NEW b \in Banks, NEW row \in Nat
    PROVE  /\ ImageSound(Activated(im, b, row))
           /\ \A l \in Lines : Contents(Activated(im, b, row), l) = Contents(im, l)
<1>1. CASE im.open[b] = row
    BY <1>1 DEF Activated
<1>2. CASE im.open[b] # row
    <2> DEFINE p == Precharged(im, {b})
               n == [p EXCEPT !.open[b] = row]
    <2>1. ImageSound(p) /\ \A l \in Lines : Contents(p, l) = Contents(im, l)
        BY PrechargedKeeps
    <2>2. Activated(im, b, row) = n
        BY <1>2 DEF Activated
    <2>3. \A l \in Lines : BankOf[l] = b => ~Loaded(p, l)
        BY DEF Precharged, Loaded
    <2> HIDE DEF p
    <2>4. n \in Images
        BY <2>1 DEF ImageSound, Images
    <2>5. /\ n.column = p.column /\ n.backing = p.backing /\ n.dirty = p.dirty
          /\ \A l \in Lines : BankOf[l] # b => n.open[BankOf[l]] = p.open[BankOf[l]]
        BY <2>1, PlaceOfLine DEF ImageSound, Images
    <2> HIDE DEF n
    <2>6. \A l \in Lines : Contents(n, l) = Contents(p, l) /\ (Loaded(n, l) <=> Loaded(p, l))
        BY <2>5 DEF Contents, Loaded
    <2>7. ASSUME NEW l \in Lines, Loaded(n, l)
          PROVE  InRow(n, l) /\ (n.dirty[BankOf[l]] \/ n.column[l] = n.backing[l])
        <3>1. BankOf[l] # b /\ Loaded(p, l)
            BY <2>3, <2>6, <2>7
        <3> QED BY <2>1, <2>5, <3>1 DEF ImageSound, InRow
    <2> QED BY <2>1, <2>2, <2>4, <2>6, <2>7 DEF ImageSound
<1> QED BY <1>1, <1>2

\* So does a line that is loaded.
LEMMA TouchedKeeps ==
    ASSUME NEW im, ImageSound(im), NEW l \in Lines
    PROVE  /\ ImageSound(Touched(im, l))
           /\ \A k \in Lines : Contents(Touched(im, l), k) = Contents(im, k)
           /\ Touched(im, l).open = im.open
           /\ InRow(im, l) => Loaded(Touched(im, l), l)
<1>0. im \in Images
    BY DEF ImageSound
<1>1. CASE ~InRow(im, l)
    BY <1>1 DEF Touched
<1>2. CASE InRow(im, l)
    <2> DEFINE v == Contents(im, l)
               n == [im EXCEPT !.column[l] = v]
    <2>1. Touched(im, l) = n
        BY <1>2 DEF Touched
    <2>2. v \in [Cells -> Nat] /\ v # NotLoaded
        BY <1>0, NothingLoaded
    <2>2a. (Loaded(im, l) => v = im.column[l]) /\ (~Loaded(im, l) => v = im.backing[l])
        BY DEF Contents
    <2> HIDE DEF v
    <2>3. n \in Images
        BY <1>0, <2>2 DEF Images
    <2>4. /\ n.backing = im.backing /\ n.dirty = im.dirty /\ n.open = im.open
          /\ n.column[l] = v /\ \A k \in Lines : k # l => n.column[k] = im.column[k]
        BY <1>0 DEF Images
    <2> HIDE DEF n
    <2>5. Loaded(n, l) /\ Contents(n, l) = v
        BY <2>2, <2>4 DEF Loaded, Contents
    <2>6. \A k \in Lines : k # l => Contents(n, k) = Contents(im, k) /\ (Loaded(n, k) <=> Loaded(im, k))
        BY <2>4 DEF Loaded, Contents
    <2>7. ASSUME NEW k \in Lines, Loaded(n, k)
          PROVE  InRow(n, k) /\ (n.dirty[BankOf[k]] \/ n.column[k] = n.backing[k])
        <3>1. CASE k = l
            BY <1>2, <2>2a, <2>4, <3>1 DEF ImageSound, InRow
        <3>2. CASE k # l
            BY <2>4, <2>6, <2>7, <3>2 DEF ImageSound, InRow
        <3> QED BY <3>1, <3>2
    <2>8. \A k \in Lines : Contents(n, k) = Contents(im, k)
        BY <2>5, <2>6 DEF v
    <2> QED BY <2>1, <2>3, <2>4, <2>5, <2>7, <2>8 DEF ImageSound
<1> QED BY <1>1, <1>2

\* The bytes of a line once some are written.
Stored(old, data) == [c \in Cells |-> IF c \in DOMAIN data THEN data[c] ELSE old[c]]

LEMMA DataDomain ==
    ASSUME NEW d \in Data
    PROVE  DOMAIN d \subseteq Cells /\ \A c \in DOMAIN d : d[c] \in Nat
BY DEF Data

\* A write changes the bytes it has of its line, and nothing else.
LEMMA WrittenIs ==
    ASSUME NEW im, ImageSound(im), NEW l \in Lines, NEW data \in Data
    PROVE  /\ ImageSound(Written(im, l, data))
           /\ \A k \in Lines \ {l} : Contents(Written(im, l, data), k) = Contents(im, k)
           /\ \A c \in Cells :
                Contents(Written(im, l, data), l)[c] =
                    IF c \in DOMAIN data THEN data[c] ELSE Contents(im, l)[c]
<1> DEFINE t == Touched(im, l)
           s(old) == Stored(old, data)
<1>1. /\ im \in Images /\ t \in Images /\ ImageSound(t) /\ t.open = im.open
      /\ \A k \in Lines : Contents(t, k) = Contents(im, k)
      /\ InRow(im, l) => Loaded(t, l)
    BY TouchedKeeps DEF ImageSound
<1> HIDE DEF t
<1>2. \A old \in [Cells -> Nat] : s(old) \in [Cells -> Nat]
    BY DataDomain DEF Stored
<1>3. CASE DOMAIN data = {}
    <2>1. Written(im, l, data) = t
        BY <1>3 DEF Written, t
    <2> QED BY <1>1, <1>3, <2>1
<1>4. CASE DOMAIN data # {} /\ InRow(im, l)
    <2> DEFINE v == s(t.column[l])
               n == [t EXCEPT !.column[l] = v, !.dirty[BankOf[l]] = TRUE]
               m == [t EXCEPT !.column[l] = v]
    <2>1. Written(im, l, data) = n
        BY <1>4 DEF Written, t, Stored
    <2>2. t.column[l] \in [Cells -> Nat] /\ Contents(t, l) = t.column[l]
        BY <1>1, <1>4, NothingLoaded DEF Contents
    <2>3. v \in [Cells -> Nat] /\ v # NotLoaded
        BY <1>2, <2>2, NothingLoaded
    <2>3a. \A c \in Cells : v[c] = IF c \in DOMAIN data THEN data[c] ELSE t.column[l][c]
        BY DEF Stored
    <2>4. BankOf[l] \in Banks
        BY PlaceOfLine
    <2> HIDE DEF v
    <2>5. m \in Images
        BY <1>1, <2>3 DEF Images
    <2>6. /\ m.backing = t.backing /\ m.dirty = t.dirty /\ m.open = t.open
          /\ m.column[l] = v /\ \A k \in Lines : k # l => m.column[k] = t.column[k]
        BY <1>1 DEF Images
    <2>7. n = [m EXCEPT !.dirty[BankOf[l]] = TRUE]
        OBVIOUS
    <2> HIDE DEF m, n
    <2>8. n \in Images
        BY <2>4, <2>5, <2>7 DEF Images
    <2>9. /\ n.backing = t.backing /\ n.open = t.open /\ n.column = m.column
          /\ n.dirty[BankOf[l]]
          /\ \A k \in Lines : BankOf[k] # BankOf[l] => n.dirty[BankOf[k]] = t.dirty[BankOf[k]]
        BY <2>4, <2>5, <2>6, <2>7, PlaceOfLine DEF Images
    <2>10. Loaded(n, l) /\ Contents(n, l) = v
        BY <2>3, <2>6, <2>9 DEF Loaded, Contents
    <2>11. \A k \in Lines : k # l => Contents(n, k) = Contents(t, k) /\ (Loaded(n, k) <=> Loaded(t, k))
        BY <2>6, <2>9 DEF Loaded, Contents
    <2>12. ASSUME NEW k \in Lines, Loaded(n, k)
          PROVE  InRow(n, k) /\ (n.dirty[BankOf[k]] \/ n.column[k] = n.backing[k])
        <3>1. CASE k = l
            BY <1>1, <1>4, <2>9, <3>1 DEF InRow
        <3>2. CASE k # l
            <4>1. Loaded(t, k) /\ InRow(t, k) /\ (t.dirty[BankOf[k]] \/ t.column[k] = t.backing[k])
                BY <1>1, <2>11, <2>12, <3>2 DEF ImageSound
            <4>2. n.column[k] = t.column[k] /\ InRow(n, k)
                BY <2>6, <2>9, <3>2, <4>1 DEF InRow
            <4> QED BY <2>9, <4>1, <4>2
        <3> QED BY <3>1, <3>2
    <2>13. ImageSound(n)
        BY <2>8, <2>12 DEF ImageSound
    <2> QED BY <1>1, <2>1, <2>2, <2>3a, <2>10, <2>11, <2>13
<1>5. CASE DOMAIN data # {} /\ ~InRow(im, l)
    <2> DEFINE v == s(im.backing[l])
               n == [im EXCEPT !.backing[l] = v]
    <2>1. Written(im, l, data) = n
        BY <1>5 DEF Written, Stored
    <2>2. ~Loaded(im, l) /\ Contents(im, l) = im.backing[l] /\ im.backing[l] \in [Cells -> Nat]
        BY <1>1, <1>5 DEF ImageSound, Contents, Images
    <2>3. v \in [Cells -> Nat]
        BY <1>2, <2>2
    <2>3a. \A c \in Cells : v[c] = IF c \in DOMAIN data THEN data[c] ELSE im.backing[l][c]
        BY DEF Stored
    <2> HIDE DEF v
    <2>4. n \in Images
        BY <1>1, <2>3 DEF Images
    <2>5. /\ n.column = im.column /\ n.open = im.open /\ n.dirty = im.dirty
          /\ n.backing[l] = v /\ \A k \in Lines : k # l => n.backing[k] = im.backing[k]
        BY <1>1 DEF Images
    <2> HIDE DEF n
    <2>6. Contents(n, l) = v
        BY <2>2, <2>5 DEF Contents, Loaded
    <2>7. \A k \in Lines : k # l => Contents(n, k) = Contents(im, k)
        BY <2>5 DEF Contents, Loaded
    <2>8. ImageSound(n)
        BY <2>2, <2>4, <2>5 DEF ImageSound, Loaded, InRow
    <2> QED BY <2>1, <2>2, <2>3a, <2>6, <2>7, <2>8
<1> QED BY <1>3, <1>4, <1>5

LEMMA ImageAfterKeeps ==
    ASSUME NEW c, NEW im, ImageSound(im), NEW b \in Banks, NEW row \in Nat, NEW cmd
    PROVE  /\ ImageSound(ImageAfter(c, im, b, row, cmd))
           /\ \A l \in Lines : Contents(ImageAfter(c, im, b, row, cmd), l) = Contents(im, l)
<1>1. CASE cmd \in {"ACT", "ACT2"}
    BY <1>1, ActivatedKeeps DEF ImageAfter, AllBankCommands
<1>2. CASE cmd \in {"PREPB", "REFPB", "RFMPB"}
    BY <1>2, PrechargedKeeps DEF ImageAfter, AllBankCommands
<1>3. CASE cmd \in AllBankCommands
    BY <1>3, PrechargedKeeps DEF ImageAfter, AllBankCommands
<1>4. CASE cmd \notin {"ACT", "ACT2", "PREPB", "REFPB", "RFMPB"} \union AllBankCommands
    BY <1>4 DEF ImageAfter
<1> QED BY <1>1, <1>2, <1>3, <1>4

-----------------------------------------------------------------------------
(* What a cell will hold *)

LEMMA LandsSubmitted ==
    ASSUME NEW W \in Seq(Accesses), NEW t \in Accesses, NEW im, NEW l, NEW c, NEW v
    PROVE  /\ Carries(t, l, c) /\ t.data[c] = v => Lands(Append(W, t), im, l, c, v)
           /\ ~Carries(t, l, c) /\ Lands(W, im, l, c, v) => Lands(Append(W, t), im, l, c, v)
<1> DEFINE n == Append(W, t)
<1>1. /\ Len(W) \in Nat /\ DOMAIN W = 1 .. Len(W) /\ DOMAIN n = 1 .. Len(W) + 1
      /\ n[Len(W) + 1] = t /\ \A j \in DOMAIN W : n[j] = W[j]
    BY AppendProperties, LenProperties
<1> HIDE DEF n
<1>2. ASSUME Carries(t, l, c), t.data[c] = v  PROVE  Lands(n, im, l, c, v)
    <2>1. Len(W) + 1 \in DOMAIN n /\ \A m \in DOMAIN n : ~(m > Len(W) + 1)
        BY <1>1
    <2> QED BY <1>1, <1>2, <2>1 DEF Lands
<1>3. ASSUME ~Carries(t, l, c), Lands(W, im, l, c, v)  PROVE  Lands(n, im, l, c, v)
    <2>1. \A m \in DOMAIN n : m \in DOMAIN W \/ (m = Len(W) + 1 /\ n[m] = t)
        BY <1>1
    <2>2. CASE \A m \in DOMAIN W : ~Carries(W[m], l, c)
        <3>1. Contents(im, l)[c] = v
            BY <1>3, <2>2 DEF Lands
        <3>2. \A m \in DOMAIN n : ~Carries(n[m], l, c)
            BY <1>1, <1>3, <2>1, <2>2
        <3> QED BY <3>1, <3>2 DEF Lands
    <2>3. CASE ~\A m \in DOMAIN W : ~Carries(W[m], l, c)
        <3>1. PICK j \in DOMAIN W : /\ Carries(W[j], l, c) /\ W[j].data[c] = v
                                    /\ \A m \in DOMAIN W : m > j => ~Carries(W[m], l, c)
            BY <1>3, <2>3 DEF Lands
        <3>2. /\ j \in DOMAIN n /\ Carries(n[j], l, c) /\ n[j].data[c] = v
              /\ \A m \in DOMAIN n : m > j => ~Carries(n[m], l, c)
            BY <1>1, <1>3, <2>1, <3>1
        <3> QED BY <3>2 DEF Lands
    <2> QED BY <2>2, <2>3
<1> QED BY <1>2, <1>3 DEF n

LEMMA TypedAccess ==
    ASSUME NEW t \in Accesses
    PROVE  t.line \in Lines /\ t.data \in Data /\ t.cells \in SUBSET Cells /\ t.id \in Nat
           /\ t.type \in {"Read", "Write"} /\ t.expect \in Data /\ t.off \in Nat
BY DEF Accesses

\* A write that arrives leaves to every cell what it would have held.
LEMMA LandsArrived ==
    ASSUME NEW W \in Seq(Accesses), W # <<>>, NEW im, ImageSound(im), NEW l \in Lines,
           NEW c \in Cells, NEW v, Lands(W, im, l, c, v)
    PROVE  Lands(Tail(W), Written(im, Head(W).line, Head(W).data), l, c, v)
<1> DEFINE t == Head(W)
           T == Tail(W)
           n == Written(im, t.line, t.data)
<1>1. /\ Len(W) \in Nat \ {0} /\ DOMAIN W = 1 .. Len(W) /\ T \in Seq(Accesses)
      /\ Len(T) = Len(W) - 1 /\ DOMAIN T = 1 .. Len(W) - 1
      /\ t = W[1] /\ t \in Accesses
      /\ \A j \in 1 .. Len(W) - 1 : T[j] = W[j + 1]
    BY HeadTailProperties, LenProperties, ElementOfSeq, EmptySeq
<1>2. t.line \in Lines /\ t.data \in Data
    BY <1>1, TypedAccess
<1>3. Contents(n, l)[c] = IF Carries(t, l, c) THEN t.data[c] ELSE Contents(im, l)[c]
    BY <1>2, WrittenIs DEF Carries
<1> HIDE DEF T, t, n
<1>4. CASE \A m \in DOMAIN W : ~Carries(W[m], l, c)
    <2>1. Contents(im, l)[c] = v /\ ~Carries(t, l, c)
        BY <1>1, <1>4 DEF Lands
    <2>2. \A m \in DOMAIN T : ~Carries(T[m], l, c)
        BY <1>1, <1>4
    <2> QED BY <1>3, <2>1, <2>2 DEF Lands, T, t, n
<1>5. CASE ~\A m \in DOMAIN W : ~Carries(W[m], l, c)
    <2>1. PICK j \in DOMAIN W : /\ Carries(W[j], l, c) /\ W[j].data[c] = v
                                /\ \A m \in DOMAIN W : m > j => ~Carries(W[m], l, c)
        BY <1>5 DEF Lands
    <2>2. CASE j = 1
        <3>1. \A m \in DOMAIN T : ~Carries(T[m], l, c)
            BY <1>1, <2>1, <2>2
        <3> QED BY <1>1, <1>3, <2>1, <2>2, <3>1 DEF Lands, T, t, n
    <2>3. CASE j # 1
        <3>1. /\ j - 1 \in DOMAIN T /\ T[j - 1] = W[j]
              /\ \A m \in DOMAIN T : m > j - 1 => ~Carries(T[m], l, c)
            BY <1>1, <2>1, <2>3, SMTT(30)
        <3> QED BY <2>1, <3>1 DEF Lands, T, t, n
    <2> QED BY <2>2, <2>3
<1> QED BY <1>4, <1>5

\* A write that goes to the image at once.
LEMMA LandsWritten ==
    ASSUME NEW im, ImageSound(im), NEW k \in Lines, NEW data \in Data, NEW l \in Lines,
           NEW c \in Cells, NEW v
    PROVE  /\ k = l /\ c \in DOMAIN data /\ data[c] = v => Lands(<<>>, Written(im, k, data), l, c, v)
           /\ ~(k = l /\ c \in DOMAIN data) /\ Lands(<<>>, im, l, c, v)
                => Lands(<<>>, Written(im, k, data), l, c, v)
<1>1. DOMAIN <<>> = {}
    OBVIOUS
<1>2. Contents(Written(im, k, data), l)[c] =
          IF k = l /\ c \in DOMAIN data THEN data[c] ELSE Contents(im, l)[c]
    BY WrittenIs
<1> QED BY <1>1, <1>2 DEF Lands

LEMMA LandsSame ==
    ASSUME NEW W, NEW im, NEW n, NEW l, Contents(n, l) = Contents(im, l), NEW c, NEW v,
           Lands(W, im, l, c, v)
    PROVE  Lands(W, n, l, c, v)
BY DEF Lands

-----------------------------------------------------------------------------
(* Where the waiting requests are *)

\* The same request, whatever of it has been issued.
Alike(x, y) ==
    /\ x.type = y.type /\ x.id = y.id /\ x.line = y.line /\ x.off = y.off
    /\ x.cells = y.cells /\ x.expect = y.expect

LEMMA PositionIs ==
    ASSUME NEW q, \A k \in Ordinaries : q[k] \in Seq(Accesses)
    PROVE  /\ \A p \in Positions(q) :
                /\ p = <<p[1], p[2]>> /\ p[1] \in Ordinaries /\ p[2] \in 1 .. Len(q[p[1]])
                /\ At(q, p) \in Accesses
           /\ \A k \in Ordinaries : \A j \in 1 .. Len(q[k]) :
                <<k, j>> \in Positions(q) /\ At(q, <<k, j>>) = q[k][j]
<1>1. \A k \in Ordinaries : /\ DOMAIN q[k] = 1 .. Len(q[k])
                            /\ \A j \in DOMAIN q[k] : q[k][j] \in Accesses
    BY LenProperties, ElementOfSeq
<1>2. \A k \in Ordinaries : Len(q[k]) \in Nat
    BY LenProperties
<1> QED BY <1>1, <1>2 DEF Positions, At

\* F tells where a waiting request was before the step.
Moves(F) ==
    /\ F \in [Positions(queue') -> Positions(queue)]
    /\ \A p, o \in Positions(queue') : F[p] = F[o] => p = o
    /\ \A p \in Positions(queue') :
          /\ Alike(At(queue', p), At(queue, F[p]))
          /\ p[1] = "Write" => F[p][1] = "Write"

\* Places behind one that is removed.
LEMMA SkippedOnce ==
    ASSUME NEW a \in Nat, NEW b \in Nat, NEW i \in Nat, NEW k, NEW n,
           (IF k = n /\ ~(a < i) THEN a + 1 ELSE a) = IF k = n /\ ~(b < i) THEN b + 1 ELSE b
    PROVE  a = b
OBVIOUS

\* However a command moves the requests, each that is waiting was waiting before, at
\* a place of its own, and with its data command a request stops waiting.
LEMMA QueueMoves ==
    ASSUME ControlType, NEW kind \in Ordinaries, NEW i \in DOMAIN queue[kind], NEW cmd,
           \A k \in Ordinaries : queue'[k] \in Seq(Accesses),
           \/ LeavesWithData(kind, i, cmd)
           \/ BecomesActive(kind, i, cmd)
           \/ Stays(kind, i, cmd)
    PROVE  \E F : /\ Moves(F)
                  /\ cmd \in DataCommands =>
                        \A p \in Positions(queue') : F[p] # <<kind, i>>
<1>0. \A k \in Ordinaries : queue[k] \in Seq(Accesses)
    BY DEF ControlType
<1>1. /\ \A p \in Positions(queue) :
            /\ p = <<p[1], p[2]>> /\ p[1] \in Ordinaries /\ p[2] \in 1 .. Len(queue[p[1]])
            /\ At(queue, p) \in Accesses
      /\ \A k \in Ordinaries : \A j \in 1 .. Len(queue[k]) :
            <<k, j>> \in Positions(queue) /\ At(queue, <<k, j>>) = queue[k][j]
    BY <1>0, PositionIs
<1>2. /\ \A p \in Positions(queue') :
            /\ p = <<p[1], p[2]>> /\ p[1] \in Ordinaries /\ p[2] \in 1 .. Len(queue'[p[1]])
            /\ At(queue', p) \in Accesses
      /\ \A k \in Ordinaries : \A j \in 1 .. Len(queue'[k]) :
            <<k, j>> \in Positions(queue') /\ At(queue', <<k, j>>) = queue'[k][j]
    BY PositionIs
<1>3. i \in 1 .. Len(queue[kind]) /\ Len(queue[kind]) \in Nat
      /\ queue[kind][i] \in Accesses
    BY <1>0, LenProperties, ElementOfSeq
<1> DEFINE P == Positions(queue)
           N == Positions(queue')
           Goal(F) == /\ \A p, o \in N : F[p] = F[o] => p = o
                      /\ \A p \in N : /\ Alike(At(queue', p), At(queue, F[p]))
                                      /\ p[1] = "Write" => F[p][1] = "Write"
                      /\ cmd \in DataCommands => \A p \in N : F[p] # <<kind, i>>
<1>3a. \A p \in N : At(queue', p) = queue'[p[1]][p[2]]
    BY DEF At
<1> HIDE DEF P, N
<1>4. ASSUME LeavesWithData(kind, i, cmd)  PROVE  \E F \in [N -> P] : Goal(F)
    <2>1. /\ Len(queue'[kind]) = Len(queue[kind]) - 1
          /\ \A j \in 1 .. Len(queue[kind]) - 1 :
                queue'[kind][j] = IF j < i THEN queue[kind][j] ELSE queue[kind][j + 1]
          /\ \A k \in Ordinaries : k # kind => queue'[k] = queue[k]
        BY <1>0, <1>3, <1>4, RemoveAtIs DEF LeavesWithData
    <2> DEFINE G(p) == IF p[1] = kind /\ ~(p[2] < i) THEN <<kind, p[2] + 1>> ELSE p
    <2>2. ASSUME NEW p \in N
          PROVE  /\ G(p) \in P /\ G(p)[1] = p[1] /\ At(queue', p) = At(queue, G(p))
                 /\ G(p) # <<kind, i>>
                 /\ G(p)[2] = IF p[1] = kind /\ ~(p[2] < i) THEN p[2] + 1 ELSE p[2]
        <3>1. p = <<p[1], p[2]>> /\ p[1] \in Ordinaries /\ p[2] \in 1 .. Len(queue'[p[1]])
            BY <1>2 DEF N
        <3>2. CASE p[1] = kind /\ ~(p[2] < i)
            <4>1. p[2] + 1 \in 1 .. Len(queue[kind]) /\ p[2] \in 1 .. Len(queue[kind]) - 1
                BY <1>3, <2>1, <3>1, <3>2
            <4>2. G(p) = <<kind, p[2] + 1>> /\ queue'[kind][p[2]] = queue[kind][p[2] + 1]
                BY <2>1, <3>2, <4>1
            <4>3. G(p) \in P /\ At(queue, G(p)) = queue[kind][p[2] + 1]
                BY <1>1, <4>1, <4>2 DEF P
            <4> QED BY <1>3, <1>3a, <3>1, <3>2, <4>1, <4>2, <4>3
        <3>3. CASE p[1] = kind /\ p[2] < i
            <4>1. p[2] \in 1 .. Len(queue[kind]) /\ p[2] \in 1 .. Len(queue[kind]) - 1
                BY <1>3, <2>1, <3>1, <3>3
            <4>2. G(p) = p /\ queue'[kind][p[2]] = queue[kind][p[2]]
                BY <2>1, <3>3, <4>1
            <4>3. p \in P /\ At(queue, p) = queue[kind][p[2]]
                BY <1>1, <3>1, <3>3, <4>1 DEF P
            <4> QED BY <1>3, <1>3a, <3>1, <3>3, <4>1, <4>2, <4>3
        <3>4. CASE p[1] # kind
            <4>1. queue'[p[1]] = queue[p[1]]
                BY <2>1, <3>1, <3>4
            <4>2. p \in P /\ At(queue, p) = queue[p[1]][p[2]]
                BY <1>1, <3>1, <4>1 DEF P
            <4> QED BY <1>3a, <3>1, <3>4, <4>1, <4>2
        <3> QED BY <3>2, <3>3, <3>4
    <2>3. ASSUME NEW p \in N, NEW o \in N, G(p) = G(o)
          PROVE  p = o
        <3>1. /\ p = <<p[1], p[2]>> /\ p[2] \in Nat
              /\ o = <<o[1], o[2]>> /\ o[2] \in Nat
            BY <1>2 DEF N
        <3>2. p[1] = o[1] /\ G(p)[2] = G(o)[2]
            BY <2>2, <2>3
        <3>3. p[2] = o[2]
            BY <1>3, <2>2, <3>1, <3>2, SkippedOnce
        <3> QED BY <3>1, <3>2, <3>3
    <2> DEFINE F == [p \in N |-> G(p)]
    <2> HIDE DEF G
    <2>4. F \in [N -> P] /\ \A p \in N : F[p] = G(p)
        BY <2>2
    <2> HIDE DEF F
    <2>5. Goal(F)
        <3>1. \A p, o \in N : F[p] = F[o] => p = o
            BY <2>3, <2>4
        <3>2. \A p \in N : /\ Alike(At(queue', p), At(queue, F[p])) /\ F[p] # <<kind, i>>
                           /\ p[1] = "Write" => F[p][1] = "Write"
            BY <2>2, <2>4 DEF Alike
        <3> QED BY <3>1, <3>2
    <2> HIDE DEF Goal
    <2> QED BY <2>4, <2>5
<1>5. ASSUME BecomesActive(kind, i, cmd)  PROVE  \E F \in [N -> P] : Goal(F)
    <2> DEFINE q == queue.Active
               new == <<"Active", Len(q) + 1>>
    <2>0. /\ kind # "Active" /\ "Active" \in Ordinaries /\ q = queue["Active"]
          /\ cmd \notin DataCommands
        BY <1>5 DEF BecomesActive, Ordinaries, DataCommands, ReadCommands, WriteCommands
    <2>1. /\ Len(queue'[kind]) = Len(queue[kind]) - 1
          /\ \A j \in 1 .. Len(queue[kind]) - 1 :
                queue'[kind][j] = IF j < i THEN queue[kind][j] ELSE queue[kind][j + 1]
          /\ \A k \in Ordinaries : k # kind /\ k # "Active" => queue'[k] = queue[k]
        <3>1. queue'[kind] = RemoveAt(queue[kind], i)
            BY <1>5 DEF BecomesActive
        <3>2. \A k \in Ordinaries : k # kind /\ k # "Active" => queue'[k] = queue[k]
            BY <1>5 DEF BecomesActive
        <3> QED BY <1>0, <1>3, <3>1, <3>2, RemoveAtIs, SMTT(30)
    <2>1a. /\ Len(q) \in Nat /\ Len(queue'["Active"]) = Len(q) + 1
           /\ queue'["Active"][Len(q) + 1] = Marked(queue[kind][i], cmd)
           /\ \A j \in 1 .. Len(q) : queue'["Active"][j] = q[j]
        <3>1. q \in Seq(Accesses) /\ Marked(queue[kind][i], cmd) \in Accesses
            BY <1>0, <1>3, <2>0, MarkedIs
        <3>2. queue'["Active"] = Append(q, Marked(queue[kind][i], cmd))
            BY <1>5 DEF BecomesActive
        <3> HIDE DEF q
        <3> QED BY <3>1, <3>2, AppendProperties, LenProperties
    <2>1b. Alike(Marked(queue[kind][i], cmd), queue[kind][i])
        BY <1>3, MarkedIs DEF Alike
    <2> DEFINE G(p) == IF p = new THEN <<kind, i>>
                       ELSE IF p[1] = kind /\ ~(p[2] < i) THEN <<kind, p[2] + 1>> ELSE p
    <2>2. ASSUME NEW p \in N, p # new
          PROVE  /\ G(p) \in P /\ G(p)[1] = p[1] /\ At(queue', p) = At(queue, G(p))
                 /\ G(p) # <<kind, i>>
                 /\ G(p)[2] = IF p[1] = kind /\ ~(p[2] < i) THEN p[2] + 1 ELSE p[2]
        <3>1. p = <<p[1], p[2]>> /\ p[1] \in Ordinaries /\ p[2] \in 1 .. Len(queue'[p[1]])
            BY <1>2 DEF N
        <3>2. CASE p[1] = kind /\ ~(p[2] < i)
            <4>1. p[2] + 1 \in 1 .. Len(queue[kind]) /\ p[2] \in 1 .. Len(queue[kind]) - 1
                BY <1>3, <2>1, <3>1, <3>2
            <4>2. G(p) = <<kind, p[2] + 1>> /\ queue'[kind][p[2]] = queue[kind][p[2] + 1]
                BY <2>1, <2>2, <3>2, <4>1
            <4>3. G(p) \in P /\ At(queue, G(p)) = queue[kind][p[2] + 1]
                BY <1>1, <4>1, <4>2 DEF P
            <4> QED BY <1>3, <1>3a, <3>1, <3>2, <4>1, <4>2, <4>3
        <3>3. CASE p[1] = kind /\ p[2] < i
            <4>1. p[2] \in 1 .. Len(queue[kind]) /\ p[2] \in 1 .. Len(queue[kind]) - 1
                BY <1>3, <2>1, <3>1, <3>3
            <4>2. G(p) = p /\ queue'[kind][p[2]] = queue[kind][p[2]]
                BY <2>1, <2>2, <3>3, <4>1
            <4>3. p \in P /\ At(queue, p) = queue[kind][p[2]]
                BY <1>1, <3>1, <3>3, <4>1 DEF P
            <4> QED BY <1>3, <1>3a, <3>1, <3>3, <4>1, <4>2, <4>3
        <3>4. CASE p[1] # kind /\ p[1] # "Active"
            <4>1. queue'[p[1]] = queue[p[1]]
                BY <2>1, <3>1, <3>4
            <4>2. p \in P /\ At(queue, p) = queue[p[1]][p[2]]
                BY <1>1, <3>1, <4>1 DEF P
            <4>3. G(p) = p
                BY <2>2, <3>4
            <4> QED BY <1>3a, <3>1, <3>4, <4>1, <4>2, <4>3
        <3>5. CASE p[1] = "Active"
            <4>1. p[2] \in 1 .. Len(q)
                BY <2>1a, <2>2, <3>1, <3>5
            <4>2. p \in P /\ At(queue, p) = q[p[2]]
                BY <1>1, <2>0, <3>1, <3>5, <4>1 DEF P
            <4>3. G(p) = p
                BY <2>0, <2>2, <3>5
            <4> HIDE DEF G
            <4> QED BY <1>3a, <2>0, <2>1a, <3>1, <3>5, <4>1, <4>2, <4>3
        <3> QED BY <2>0, <3>2, <3>3, <3>4, <3>5
    <2>2a. ASSUME NEW p \in N, p = new
           PROVE  G(p) = <<kind, i>> /\ G(p) \in P /\ Alike(At(queue', p), At(queue, G(p)))
        <3>1. G(p) = <<kind, i>> /\ p[1] = "Active" /\ p[2] = Len(q) + 1
            BY <2>2a
        <3>2. G(p) \in P /\ At(queue, G(p)) = queue[kind][i]
            BY <1>1, <1>3, <3>1 DEF P
        <3>3. At(queue', p) = Marked(queue[kind][i], cmd)
            BY <1>3a, <2>1a, <2>2a, <3>1
        <3> QED BY <2>1b, <3>1, <3>2, <3>3
    <2>3. ASSUME NEW p \in N, NEW o \in N, G(p) = G(o)
          PROVE  p = o
        <3>1. /\ p = <<p[1], p[2]>> /\ p[2] \in Nat
              /\ o = <<o[1], o[2]>> /\ o[2] \in Nat
            BY <1>2 DEF N
        <3>2. CASE p = new \/ o = new
            <4>1. (p = new => G(p) = <<kind, i>>) /\ (p # new => G(p) # <<kind, i>>)
                BY <2>2, <2>2a
            <4>2. (o = new => G(o) = <<kind, i>>) /\ (o # new => G(o) # <<kind, i>>)
                BY <2>2, <2>2a
            <4> HIDE DEF G, new
            <4> QED BY <2>3, <3>2, <4>1, <4>2
        <3>3. CASE p # new /\ o # new
            <4>1. p[1] = o[1] /\ G(p)[2] = G(o)[2]
                BY <2>2, <2>3, <3>3
            <4>2. /\ G(p)[2] = IF p[1] = kind /\ ~(p[2] < i) THEN p[2] + 1 ELSE p[2]
                  /\ G(o)[2] = IF o[1] = kind /\ ~(o[2] < i) THEN o[2] + 1 ELSE o[2]
                BY <2>2, <3>3
            <4> HIDE DEF G, new
            <4>3. p[2] = o[2]
                <5>1. (IF p[1] = kind /\ ~(p[2] < i) THEN p[2] + 1 ELSE p[2])
                         = IF p[1] = kind /\ ~(o[2] < i) THEN o[2] + 1 ELSE o[2]
                    BY <4>1, <4>2
                <5>2. i \in Nat
                    BY <1>3
                <5> QED BY <3>1, <5>1, <5>2, SkippedOnce
            <4> QED BY <3>1, <4>1, <4>3
        <3> QED BY <3>2, <3>3
    <2>3a. \A p \in N : p[1] = "Write" => G(p)[1] = "Write"
        <3> SUFFICES ASSUME NEW p \in N, p[1] = "Write" PROVE G(p)[1] = "Write"
            OBVIOUS
        <3>1. p # new
            OBVIOUS
        <3> QED BY <2>2, <3>1
    <2>3b. \A p \in N : G(p) \in P /\ Alike(At(queue', p), At(queue, G(p)))
        BY <2>2, <2>2a DEF Alike
    <2> DEFINE F == [p \in N |-> G(p)]
    <2> HIDE DEF G, new
    <2>4. F \in [N -> P] /\ \A p \in N : F[p] = G(p)
        BY <2>3b
    <2> HIDE DEF F
    <2>5. Goal(F)
        BY <2>0, <2>3, <2>3a, <2>3b, <2>4
    <2> HIDE DEF Goal
    <2> QED BY <2>4, <2>5
<1>6. ASSUME Stays(kind, i, cmd)  PROVE  \E F \in [N -> P] : Goal(F)
    <2>1. /\ queue'[kind] = [queue[kind] EXCEPT ![i] = Marked(queue[kind][i], cmd)]
          /\ \A k \in Ordinaries : k # kind => queue'[k] = queue[k]
          /\ cmd \notin DataCommands
        BY <1>6 DEF Stays
    <2>2. /\ Len(queue'[kind]) = Len(queue[kind])
          /\ \A j \in 1 .. Len(queue[kind]) :
                queue'[kind][j] = IF j = i THEN Marked(queue[kind][i], cmd) ELSE queue[kind][j]
        BY <1>0, <1>3, <2>1, LenProperties
    <2>3. Alike(Marked(queue[kind][i], cmd), queue[kind][i])
        BY <1>3, MarkedIs DEF Alike
    <2>4. ASSUME NEW p \in N  PROVE  p \in P /\ Alike(At(queue', p), At(queue, p))
        <3>1. p = <<p[1], p[2]>> /\ p[1] \in Ordinaries /\ p[2] \in 1 .. Len(queue'[p[1]])
            BY <1>2 DEF N
        <3>2. p \in P /\ At(queue, p) = queue[p[1]][p[2]]
            BY <1>1, <2>1, <2>2, <3>1 DEF P
        <3>3. \/ At(queue', p) = queue[p[1]][p[2]]
              \/ At(queue', p) = Marked(queue[kind][i], cmd) /\ queue[p[1]][p[2]] = queue[kind][i]
            BY <1>3a, <2>1, <2>2, <3>1
        <3> QED BY <2>3, <3>2, <3>3 DEF Alike
    <2> DEFINE F == [p \in N |-> p]
    <2>5. F \in [N -> P] /\ \A p \in N : F[p] = p
        BY <2>4
    <2> HIDE DEF F
    <2>6. Goal(F)
        BY <2>1, <2>4, <2>5
    <2> HIDE DEF Goal
    <2> QED BY <2>5, <2>6
<1>7. \E F \in [N -> P] : Goal(F)
    BY <1>4, <1>5, <1>6
<1> QED BY <1>7 DEF N, P, Moves

LEMMA SameMoves ==
    ASSUME SameOrdinary(queue', queue)
    PROVE  \E F : Moves(F)
<1>1. Positions(queue') = Positions(queue)
    BY DEF SameOrdinary, Positions
<1>2. \A p \in Positions(queue) : At(queue', p) = At(queue, p)
    BY DEF SameOrdinary, Positions, At
<1> DEFINE F == [p \in Positions(queue) |-> p]
<1>3. Moves(F)
    BY <1>1, <1>2 DEF Moves, Alike
<1> QED BY <1>3

\* Moving requests disturbs none of what is said of the queues.
LEMMA MovedQueue ==
    ASSUME QueueInv, NEW F, Moves(F), UNCHANGED <<seq, pend, wbuf>>
    PROVE  QueueInv'
<1> DEFINE P == Positions(queue)
           N == Positions(queue')
           new(p) == At(queue', p)
           old(p) == At(queue, p)
<1>1. /\ \A p \in N : /\ F[p] \in P /\ Alike(new(p), old(F[p]))
                      /\ p[1] = "Write" => F[p][1] = "Write"
      /\ \A p, o \in N : F[p] = F[o] => p = o
    BY DEF Moves
<1>2. ASSUME NEW p \in N
      PROVE  /\ p[1] = "Write" => new(p).type = "Write"
             /\ new(p).id <= seq
             /\ new(p).type = "Write" =>
                   \E e \in wbuf : SameAddress(e, new(p)) /\ e.cells = new(p).cells
             /\ \A j \in DOMAIN pend : pend[j].id # new(p).id
    <2>1. /\ F[p][1] = "Write" => old(F[p]).type = "Write"
          /\ old(F[p]).id <= seq
          /\ old(F[p]).type = "Write" =>
                \E e \in wbuf : SameAddress(e, old(F[p])) /\ e.cells = old(F[p]).cells
          /\ \A j \in DOMAIN pend : pend[j].id # old(F[p]).id
        BY <1>1 DEF QueueInv
    <2> HIDE DEF new, old
    <2> QED BY <1>1, <2>1 DEF Alike, SameAddress
<1>3. ASSUME NEW p \in N, NEW o \in N
      PROVE  \/ p = o
             \/ /\ new(p).id # new(o).id
                /\ new(p).type = "Write" /\ new(o).type = "Write" => ~SameAddress(new(p), new(o))
    <2>1. \/ F[p] = F[o]
          \/ /\ old(F[p]).id # old(F[o]).id
             /\ old(F[p]).type = "Write" /\ old(F[o]).type = "Write" =>
                    ~SameAddress(old(F[p]), old(F[o]))
        BY <1>1 DEF QueueInv
    <2> HIDE DEF new, old
    <2> QED BY <1>1, <2>1 DEF Alike, SameAddress
<1> QED BY <1>2, <1>3 DEF QueueInv

LEMMA AlikeOk ==
    ASSUME NEW x, NEW y, Alike(x, y)
    PROVE  /\ ReadOk(y) => ReadOk(x)
           /\ ReadOk(y)' => ReadOk(x)'
BY DEF Alike, ReadOk, Sees, Passes

LEMMA RangeIs ==
    ASSUME NEW T, NEW s \in Seq(T)
    PROVE  /\ \A t \in Range(s) : t \in T /\ \E j \in 1 .. Len(s) : t = s[j]
           /\ \A j \in 1 .. Len(s) : s[j] \in Range(s)
           /\ DOMAIN s = 1 .. Len(s) /\ Len(s) \in Nat
BY LenProperties, ElementOfSeq DEF Range

LEMMA UnreadTyped ==
    ASSUME ControlType, DataTypes
    PROVE  Unread \subseteq Accesses
<1>1. \A p \in Positions(queue) : At(queue, p) \in Accesses
    BY PositionIs DEF ControlType
<1>2. Range(phy.reads) \subseteq Accesses /\ Range(pend) \subseteq Accesses
    BY RangeIs DEF DataTypes, Phys
<1> QED BY <1>1, <1>2 DEF Unread

\* An unread request is known to has_unresolved_overlapping_read.
LEMMA UnreadKnown ==
    ASSUME ControlType, DataTypes, QueueInv, PendInv, NEW r \in Unread
    PROVE  r.type = "Read" /\ r \in Range(queue.Read) \union Range(queue.Active) \union Range(pend)
<1>1. CASE r \in {At(queue, p) : p \in {o \in Positions(queue) : At(queue, o).type = "Read"}}
    <2>1. PICK p \in Positions(queue) : r = At(queue, p) /\ At(queue, p).type = "Read"
        BY <1>1
    <2>2. p[1] # "Write" /\ p[1] \in Ordinaries /\ p[2] \in DOMAIN queue[p[1]]
        BY <2>1, PositionIs, LenProperties DEF QueueInv, ControlType
    <2>3. CASE p[1] = "Read"
        BY <2>1, <2>2, <2>3 DEF At, Range
    <2>4. CASE p[1] = "Active"
        BY <2>1, <2>2, <2>4 DEF At, Range
    <2> QED BY <2>1, <2>2, <2>3, <2>4 DEF Ordinaries
<1>2. CASE r \in Range(phy.reads)
    BY <1>2 DEF PendInv, Range
<1>3. CASE r \in {t \in Range(pend) : ~conf.behavioral /\ t.type = "Read" /\ t.cmd # "Bypass"}
    BY <1>3
<1> QED BY <1>1, <1>2, <1>3 DEF Unread

\* Buffers of one line have no bytes in common.
LEMMA BuffersApart ==
    ASSUME AlignedShapes, BufferInv, NEW e \in wbuf
    PROVE  /\ \A f \in wbuf : e.line = f.line /\ e # f => DOMAIN e.data \cap DOMAIN f.data = {}
           /\ \A w \in WriteShapes : w.line = e.line =>
                 \/ SameAddress(e, w) /\ e.cells = w.cells
                 \/ ~SameAddress(e, w) /\ e.cells \cap w.cells = {}
<1>1. PICK v \in WriteShapes : e.line = v.line /\ e.off = v.off /\ e.cells = v.cells
    BY DEF BufferInv, Shaped
<1>2. ASSUME NEW w \in WriteShapes, w.line = e.line
      PROVE  \/ SameAddress(e, w) /\ e.cells = w.cells
             \/ ~SameAddress(e, w) /\ e.cells \cap w.cells = {}
    BY <1>1, <1>2 DEF AlignedShapes, SameAddress
<1>3. ASSUME NEW f \in wbuf, e.line = f.line, e # f
      PROVE  DOMAIN e.data \cap DOMAIN f.data = {}
    <2>1. PICK w \in WriteShapes : f.line = w.line /\ f.off = w.off /\ f.cells = w.cells
        BY DEF BufferInv, Shaped
    <2>2. ~SameAddress(e, f)
        BY <1>3 DEF BufferInv
    <2>3. e.cells \cap f.cells = {}
        BY <1>2, <1>3, <2>1, <2>2 DEF SameAddress
    <2>4. DOMAIN e.data \subseteq e.cells /\ DOMAIN f.data \subseteq f.cells
        BY DEF BufferInv
    <2> QED BY <2>3, <2>4
<1> QED BY <1>2, <1>3

\* Steps that only move requests, and leave the contents of every line alone.
LEMMA DataFrame ==
    ASSUME ControlType, DataInv, NEW F, Moves(F), UNCHANGED <<conf, seq, pend, wbuf, golden>>,
           phy' \in Phys, phy'.behavioral = phy.behavioral, phy'.reads = phy.reads,
           phy'.writes = phy.writes, phy'.done = phy.done,
           ImageSound(img'), \A l \in Lines : Contents(img', l) = Contents(img, l),
           resp' \in Seq(Answers),
           \A i \in DOMAIN resp' : \E j \in DOMAIN resp : resp'[i] = resp[j]
    PROVE  DataInv'
<1>1. DataTypes'
    BY DEF DataInv, DataTypes
<1>2. BufferInv'
    BY DEF DataInv, BufferInv, Shaped, SameAddress
<1>3. QueueInv'
    BY MovedQueue DEF DataInv
<1>4. PendInv'
    BY DEF DataInv, PendInv
<1>5. NewestInv'
    <2> SUFFICES ASSUME NEW l \in Lines, NEW c \in Cells PROVE NewestAt(l, c)'
        BY DEF NewestInv
    <2>1. NewestAt(l, c)
        BY DEF DataInv, NewestInv
    <2> QED BY <2>1, LandsSame DEF NewestAt, Carries
<1>6. ReadInv'
    <2>1. ASSUME NEW r \in Unread  PROVE  ReadOk(r)'
        <3>1. ReadOk(r) /\ r \in Accesses /\ r.line \in Lines
            BY UnreadTyped, TypedAccess DEF DataInv, ReadInv
        <3>2. Sees(r)'
            BY <3>1, LandsSame DEF ReadOk, Sees
        <3>3. Passes(r)'
            <4> SUFFICES ASSUME NEW p \in Positions(queue'), NEW e \in wbuf,
                                At(queue', p).type = "Write", SameAddress(e, At(queue', p)),
                                r.line = e.line, ~(r.id < At(queue', p).id)
                         PROVE  DOMAIN e.data \cap r.cells = {}
                BY DEF Passes
            <4>1. F[p] \in Positions(queue) /\ Alike(At(queue', p), At(queue, F[p]))
                BY DEF Moves
            <4> DEFINE o == F[p]
            <4>2. At(queue, o).type = "Write" /\ SameAddress(e, At(queue, o))
                  /\ ~(r.id < At(queue, o).id) /\ o \in Positions(queue)
                BY <4>1 DEF Alike, SameAddress
            <4> HIDE DEF o
            <4> QED BY <3>1, <4>2 DEF ReadOk, Passes
        <3> QED BY <3>1, <3>2, <3>3 DEF ReadOk
    <2>2. ASSUME NEW x \in Unread'  PROVE  \E y \in Unread : Alike(x, y)
        <3>1. CASE x \in Range(phy.reads) \/
                   x \in {t \in Range(pend) : ~conf.behavioral /\ t.type = "Read" /\ t.cmd # "Bypass"}
            BY <3>1 DEF Unread, Alike
        <3>2. CASE \E p \in Positions(queue') : x = At(queue', p) /\ x.type = "Read"
            <4>1. PICK p \in Positions(queue') : x = At(queue', p) /\ x.type = "Read"
                BY <3>2
            <4>2. F[p] \in Positions(queue) /\ Alike(x, At(queue, F[p]))
                BY <4>1 DEF Moves
            <4>3. At(queue, F[p]) \in Unread
                BY <4>1, <4>2 DEF Unread, Alike
            <4> QED BY <4>2, <4>3
        <3> QED BY <3>1, <3>2 DEF Unread
    <2>3. Apart'
        BY DEF DataInv, ReadInv, Apart
    <2> QED BY <2>1, <2>2, <2>3, AlikeOk DEF ReadInv
<1>7. AnswerInv'
    <2>1. MemoryReadsSeeAccepted'
        BY DEF DataInv, AnswerInv, MemoryReadsSeeAccepted
    <2> QED BY <2>1 DEF DataInv, AnswerInv
<1> QED BY <1>1, <1>2, <1>3, <1>4, <1>5, <1>6, <1>7 DEF DataInv

-----------------------------------------------------------------------------
(* Requests that become pending *)

LEMMA AppendIs ==
    ASSUME NEW T, NEW s \in Seq(T), NEW t \in T
    PROVE  /\ Append(s, t) \in Seq(T)
           /\ Range(Append(s, t)) = Range(s) \union {t}
           /\ DOMAIN Append(s, t) = DOMAIN s \union {Len(s) + 1}
           /\ Len(s) + 1 \notin DOMAIN s
           /\ Append(s, t)[Len(s) + 1] = t
           /\ \A j \in DOMAIN s : Append(s, t)[j] = s[j]
<1> DEFINE n == Append(s, t)
<1>1. /\ n \in Seq(T) /\ Len(n) = Len(s) + 1 /\ Len(s) \in Nat
      /\ DOMAIN s = 1 .. Len(s) /\ DOMAIN n = 1 .. Len(s) + 1
      /\ n[Len(s) + 1] = t /\ \A j \in 1 .. Len(s) : n[j] = s[j]
    BY AppendProperties, LenProperties
<1> HIDE DEF n
<1>2. DOMAIN n = DOMAIN s \union {Len(s) + 1} /\ Len(s) + 1 \notin DOMAIN s
    BY <1>1
<1>3. Range(n) = Range(s) \union {t}
    BY <1>1, <1>2 DEF Range
<1> QED BY <1>1, <1>2, <1>3 DEF n

LEMMA SubmittedIs ==
    ASSUME NEW ph \in Phys, NEW t \in Accesses
    PROVE  /\ Submitted(ph, t) \in Phys
           /\ Submitted(ph, t).behavioral = ph.behavioral /\ Submitted(ph, t).done = ph.done
           /\ Submitted(ph, t).reads = IF ph.behavioral /\ t.type = "Read"
                                       THEN Append(ph.reads, t) ELSE ph.reads
           /\ Submitted(ph, t).writes = IF ph.behavioral /\ t.type = "Write"
                                        THEN Append(ph.writes, t) ELSE ph.writes
<1>1. ph.reads \in Seq(Accesses) /\ ph.writes \in Seq(Accesses)
    BY DEF Phys
<1>2. Append(ph.reads, t) \in Seq(Accesses) /\ Append(ph.writes, t) \in Seq(Accesses)
    BY <1>1, AppendProperties
<1>3. t.type \in {"Read", "Write"}
    BY TypedAccess
<1> QED BY <1>2, <1>3 DEF Submitted, Phys

LEMMA PendGrows ==
    ASSUME DataTypes, PendInv, NEW t \in Accesses, seq \in Nat, seq' \in Nat, t.id <= seq',
           seq <= seq', \A j \in DOMAIN pend : pend[j].id # t.id,
           pend' = Append(pend, t), conf' = conf,
           \/ phy' = phy
           \/ /\ phy' = Submitted(phy, t) /\ t.cmd # "Bypass"
              /\ t.type = "Write" => DOMAIN t.data \subseteq t.cells
    PROVE  /\ PendInv' /\ pend' \in Seq(Accesses) /\ Range(pend') = Range(pend) \union {t}
           /\ phy' \in Phys /\ phy'.behavioral = conf.behavioral
<1> DEFINE k == Len(pend) + 1
<1>1. /\ pend' \in Seq(Accesses) /\ Range(pend') = Range(pend) \union {t}
      /\ DOMAIN pend' = DOMAIN pend \union {k} /\ k \notin DOMAIN pend
      /\ pend'[k] = t /\ \A j \in DOMAIN pend : pend'[j] = pend[j]
    BY AppendIs DEF DataTypes
<1> HIDE DEF k
<1>2. /\ phy' \in Phys /\ phy'.behavioral = conf.behavioral /\ phy'.done = phy.done
      /\ \/ phy'.reads = phy.reads
         \/ phy'.reads = Append(phy.reads, t) /\ conf.behavioral /\ t.type = "Read" /\ t.cmd # "Bypass"
      /\ \/ phy'.writes = phy.writes
         \/ /\ phy'.writes = Append(phy.writes, t) /\ conf.behavioral /\ t.type = "Write"
            /\ t.cmd # "Bypass" /\ DOMAIN t.data \subseteq t.cells
    <2>1. phy \in Phys /\ phy.behavioral = conf.behavioral
        BY DEF DataTypes
    <2>2. CASE phy' = phy
        BY <2>1, <2>2
    <2>3. CASE /\ phy' = Submitted(phy, t) /\ t.cmd # "Bypass"
               /\ t.type = "Write" => DOMAIN t.data \subseteq t.cells
        BY <2>1, <2>3, SubmittedIs
    <2> QED BY <2>2, <2>3
<1>3. /\ \A j \in DOMAIN pend' : pend'[j].id <= seq'
      /\ \A i, j \in DOMAIN pend' : pend'[i].id = pend'[j].id => i = j
    <2>1. \A j \in DOMAIN pend : pend[j].id \in Nat /\ pend[j].id <= seq
        BY TypedAccess, ElementOfSeq, LenProperties DEF PendInv, DataTypes
    <2> QED BY <1>1, <2>1 DEF PendInv
<1>4. \A x \in Range(pend) : x.id # t.id
    BY DEF Range
<1>5. /\ \A i, j \in DOMAIN phy'.reads : phy'.reads[i].id = phy'.reads[j].id => i = j
      /\ \A j \in DOMAIN phy'.reads :
            /\ phy'.reads[j] \in Range(pend')
            /\ phy'.reads[j].type = "Read" /\ phy'.reads[j].cmd # "Bypass"
            /\ phy'.reads[j] = t \/ \E i \in DOMAIN phy.reads : phy'.reads[j] = phy.reads[i]
    <2>1. CASE phy'.reads = phy.reads
        BY <1>1, <2>1 DEF PendInv
    <2>2. CASE phy'.reads = Append(phy.reads, t) /\ t.type = "Read" /\ t.cmd # "Bypass"
        <3> DEFINE m == Len(phy.reads) + 1
                   R == phy.reads
        <3>1. /\ DOMAIN phy'.reads = DOMAIN R \union {m} /\ m \notin DOMAIN R
              /\ phy'.reads[m] = t /\ \A j \in DOMAIN R : phy'.reads[j] = R[j]
            BY <2>2, AppendIs DEF DataTypes, Phys
        <3> HIDE DEF m
        <3>2. \A j \in DOMAIN R : R[j].id # t.id /\ R[j] \in Range(pend)
                /\ R[j].type = "Read" /\ R[j].cmd # "Bypass"
            BY <1>4 DEF PendInv
        <3>3. \A i, j \in DOMAIN R : R[i].id = R[j].id => i = j
            BY DEF PendInv
        <3> HIDE DEF R
        <3>4. \A i, j \in DOMAIN phy'.reads : phy'.reads[i].id = phy'.reads[j].id => i = j
            BY <3>1, <3>2, <3>3
        <3>5. \A j \in DOMAIN phy'.reads :
                  /\ phy'.reads[j] \in Range(pend')
                  /\ phy'.reads[j].type = "Read" /\ phy'.reads[j].cmd # "Bypass"
                  /\ phy'.reads[j] = t \/ \E i \in DOMAIN R : phy'.reads[j] = R[i]
            BY <1>1, <2>2, <3>1, <3>2
        <3> QED BY <3>4, <3>5 DEF R
    <2> QED BY <1>2, <2>1, <2>2
<1>6. /\ \A i, j \in DOMAIN phy'.writes : phy'.writes[i].id = phy'.writes[j].id => i = j
      /\ \A j \in DOMAIN phy'.writes :
            /\ phy'.writes[j] \in Range(pend')
            /\ phy'.writes[j].type = "Write" /\ phy'.writes[j].cmd # "Bypass"
            /\ DOMAIN phy'.writes[j].data \subseteq phy'.writes[j].cells
            /\ phy'.writes[j] = t \/ \E i \in DOMAIN phy.writes : phy'.writes[j] = phy.writes[i]
    <2>1. CASE phy'.writes = phy.writes
        BY <1>1, <2>1 DEF PendInv
    <2>2. CASE phy'.writes = Append(phy.writes, t) /\ t.type = "Write" /\ t.cmd # "Bypass"
               /\ DOMAIN t.data \subseteq t.cells
        <3> DEFINE m == Len(phy.writes) + 1
                   R == phy.writes
        <3>1. /\ DOMAIN phy'.writes = DOMAIN R \union {m} /\ m \notin DOMAIN R
              /\ phy'.writes[m] = t /\ \A j \in DOMAIN R : phy'.writes[j] = R[j]
            BY <2>2, AppendIs DEF DataTypes, Phys
        <3> HIDE DEF m
        <3>2. \A j \in DOMAIN R : R[j].id # t.id /\ R[j] \in Range(pend)
                /\ R[j].type = "Write" /\ R[j].cmd # "Bypass" /\ DOMAIN R[j].data \subseteq R[j].cells
            BY <1>4 DEF PendInv
        <3>3. \A i, j \in DOMAIN R : R[i].id = R[j].id => i = j
            BY DEF PendInv
        <3> HIDE DEF R
        <3>4. \A i, j \in DOMAIN phy'.writes : phy'.writes[i].id = phy'.writes[j].id => i = j
            BY <3>1, <3>2, <3>3
        <3>5. \A j \in DOMAIN phy'.writes :
                  /\ phy'.writes[j] \in Range(pend')
                  /\ phy'.writes[j].type = "Write" /\ phy'.writes[j].cmd # "Bypass"
                  /\ DOMAIN phy'.writes[j].data \subseteq phy'.writes[j].cells
                  /\ phy'.writes[j] = t \/ \E i \in DOMAIN R : phy'.writes[j] = R[i]
            BY <1>1, <2>2, <3>1, <3>2
        <3> QED BY <3>4, <3>5 DEF R
    <2> QED BY <1>2, <2>1, <2>2
<1>7. ASSUME NEW d \in phy'.done
      PROVE  /\ \E x \in Range(pend') : x.id = d.id /\ x.cmd # "Bypass"
             /\ \A j \in DOMAIN phy'.reads : phy'.reads[j].id # d.id
             /\ \A j \in DOMAIN phy'.writes : phy'.writes[j].id # d.id
    <2>1. /\ \E x \in Range(pend) : x.id = d.id /\ x.cmd # "Bypass"
          /\ \A j \in DOMAIN phy.reads : phy.reads[j].id # d.id
          /\ \A j \in DOMAIN phy.writes : phy.writes[j].id # d.id
        BY <1>2 DEF PendInv
    <2>2. d.id # t.id
        BY <1>4, <2>1
    <2> QED BY <1>1, <1>5, <1>6, <2>1, <2>2
<1>8. ~conf.behavioral => phy'.reads = <<>> /\ phy'.writes = <<>> /\ phy'.done = {}
    BY <1>2 DEF PendInv
<1> QED BY <1>1, <1>2, <1>3, <1>5, <1>6, <1>7, <1>8 DEF PendInv

\* A queue that is one request longer.
LEMMA QueueGrows ==
    ASSUME ControlType, NEW k \in {"Read", "Write"}, NEW r \in Accesses,
           queue' = [queue EXCEPT ![k] = Append(@, r)]
    PROVE  LET new == <<k, Len(queue[k]) + 1>> IN
           /\ Positions(queue') = Positions(queue) \union {new}
           /\ new \notin Positions(queue) /\ At(queue', new) = r /\ new[1] = k
           /\ \A p \in Positions(queue) : At(queue', p) = At(queue, p)
<1> DEFINE new == <<k, Len(queue[k]) + 1>>
           q == Append(queue[k], r)
<1>1. queue[k] \in Seq(Accesses) /\ k \in Ordinaries /\ k \in DOMAIN queue
      /\ \A j \in Ordinaries : queue[j] \in Seq(Accesses)
    BY DEF ControlType, Ordinaries, Queues
<1>2. /\ DOMAIN q = DOMAIN queue[k] \union {Len(queue[k]) + 1}
      /\ Len(queue[k]) + 1 \notin DOMAIN queue[k]
      /\ q[Len(queue[k]) + 1] = r /\ \A j \in DOMAIN queue[k] : q[j] = queue[k][j]
    BY <1>1, AppendIs
<1>3. queue'[k] = q /\ \A j \in Ordinaries : j # k => queue'[j] = queue[j]
    BY <1>1
<1> HIDE DEF q
<1>4. Positions(queue') = Positions(queue) \union {new}
    BY <1>1, <1>2, <1>3 DEF Positions
<1>5. new \notin Positions(queue) /\ new[1] = k
    BY <1>1, <1>2 DEF Positions
<1>6. At(queue', new) = r
    BY <1>2, <1>3 DEF At
<1>7. ASSUME NEW p \in Positions(queue)  PROVE  At(queue', p) = At(queue, p)
    <2>1. p[1] \in Ordinaries /\ p[2] \in DOMAIN queue[p[1]]
        BY <1>1, PositionIs, LenProperties
    <2> QED BY <1>2, <1>3, <2>1 DEF At
<1> QED BY <1>4, <1>5, <1>6, <1>7

-----------------------------------------------------------------------------
(* Requests that arrive *)

LEMMA NewReadIs ==
    ASSUME ControlType, NEW shape \in ReadShapes
    PROVE  LET r == NewRead(shape) IN
           /\ r \in Accesses /\ r.type = "Read" /\ r.id = seq + 1 /\ r.cmd = "None"
           /\ r.line = shape.line /\ r.cells = shape.cells
           /\ shape.line \in Lines /\ shape.cells \subseteq Cells
           /\ r.expect \in [r.cells -> Nat]
           /\ \A c \in r.cells : r.expect[c] = golden[r.line][c]
<1> DEFINE x == Restrict(golden[shape.line], shape.cells)
<1>1. /\ shape.line \in Lines /\ shape.off \in Nat /\ shape.cells \in SUBSET Cells
    BY ShapeAssumption
<1>2. golden[shape.line] \in [Cells -> Nat] /\ seq \in Nat
    BY <1>1 DEF ControlType
<1>3. x \in [shape.cells -> Nat] /\ \A c \in shape.cells : x[c] = golden[shape.line][c]
    BY <1>1, <1>2 DEF Restrict
<1>4. x \in Data
    BY <1>1, <1>3, DataIs
<1> HIDE DEF x
<1>5. NewRead(shape) = Transaction("Read", shape, <<>>, x)
    BY DEF NewRead, x
<1> QED BY <1>1, <1>2, <1>3, <1>4, <1>5, NoData, TransactionIs

\* What a read finds in the buffer and behind it.
LEMMA ForwardIs ==
    ASSUME AlignedShapes, ControlType, DataInv, NEW r \in Accesses
    PROVE  /\ ForwardPayload(r) \in [r.cells -> Nat]
           /\ \A c \in r.cells :
                \/ \E e \in wbuf : Carries(e, r.line, c) /\ ForwardPayload(r)[c] = e.data[c]
                \/ /\ \A e \in wbuf : ~Carries(e, r.line, c)
                   /\ ForwardPayload(r)[c] = Contents(img, r.line)[c]
<1> DEFINE newest(c) == {w.data[c] : w \in {v \in wbuf : /\ v.line = r.line
                                                        /\ c \in v.cells \cap DOMAIN v.data}}
           f == ForwardPayload(r)
<1>1. r.line \in Lines /\ r.cells \subseteq Cells
    BY TypedAccess
<1>2. f = [c \in r.cells |-> IF newest(c) = {} THEN Contents(img, r.line)[c] ELSE Max(newest(c))]
    BY DEF ForwardPayload
<1> HIDE DEF f
<1>3. ASSUME NEW c \in r.cells
      PROVE  /\ f[c] \in Nat
             /\ \/ \E e \in wbuf : Carries(e, r.line, c) /\ f[c] = e.data[c]
                \/ /\ \A e \in wbuf : ~Carries(e, r.line, c)
                   /\ f[c] = Contents(img, r.line)[c]
    <2>1. BufferInv
        BY DEF DataInv
    <2>2. CASE \E e \in wbuf : Carries(e, r.line, c)
        <3>1. PICK e \in wbuf : Carries(e, r.line, c)
            BY <2>2
        <3>2. e \in Buffers /\ DOMAIN e.data \subseteq e.cells
            BY <2>1 DEF BufferInv
        <3>3. e.data \in Data
            BY <3>2 DEF Buffers
        <3>4. e.data[c] \in Nat
            BY <3>1, <3>3, DataDomain DEF Carries
        <3>5. \A v \in wbuf : v.line = r.line /\ c \in v.cells \cap DOMAIN v.data => v = e
            BY <2>1, <3>1, BuffersApart DEF Carries
        <3>6. newest(c) = {e.data[c]}
            BY <3>1, <3>2, <3>5 DEF Carries
        <3>7. Max({e.data[c]}) = e.data[c]
            <4> DEFINE n == e.data[c]
            <4>1. n \in Nat
                BY <3>4
            <4> HIDE DEF n
            <4>2. Max({n}) = n
                BY <4>1 DEF Max
            <4> QED BY <4>2 DEF n
        <3>8. f[c] = e.data[c]
            <4> HIDE DEF newest
            <4>1. f[c] = IF newest(c) = {} THEN Contents(img, r.line)[c] ELSE Max(newest(c))
                BY <1>2
            <4> QED BY <3>6, <3>7, <4>1
        <3> QED BY <3>1, <3>4, <3>8
    <2>3. CASE \A e \in wbuf : ~Carries(e, r.line, c)
        <3>1. newest(c) = {}
            BY <2>3 DEF Carries
        <3>2. f[c] = Contents(img, r.line)[c]
            <4> HIDE DEF newest
            <4> QED BY <1>2, <3>1
        <3>3. img \in Images
            BY DEF DataInv, DataTypes, ImageSound
        <3>4. Contents(img, r.line) \in [Cells -> Nat]
            BY <1>1, <3>3, NothingLoaded
        <3>5. f[c] \in Nat
            BY <1>1, <3>2, <3>4
        <3> QED BY <2>3, <3>2, <3>5
    <2> QED BY <2>2, <2>3
<1>4. f \in [r.cells -> Nat]
    <2> HIDE DEF newest
    <2>1. DOMAIN f = r.cells /\ f = [c \in r.cells |-> f[c]]
        BY <1>2
    <2> QED BY <1>3, <2>1
<1> QED BY <1>3, <1>4 DEF f

\* A read that is answered from the buffer.
LEMMA DataForwardRead ==
    ASSUME AlignedShapes, ControlType, DataInv, NEW shape \in ReadShapes, ForwardRead(shape)
    PROVE  DataInv'
<1> DEFINE r == NewRead(shape)
           f == ForwardPayload(r)
           t == [r EXCEPT !.cmd = "Bypass", !.data = f]
<1>1. /\ r \in Accesses /\ r.type = "Read" /\ r.id = seq + 1
      /\ r.line \in Lines /\ r.cells \subseteq Cells /\ r.line = shape.line
      /\ r.expect \in [r.cells -> Nat]
      /\ \A c \in r.cells : r.expect[c] = golden[r.line][c]
    BY NewReadIs
<1>2. /\ f \in [r.cells -> Nat]
      /\ \A c \in r.cells :
           \/ \E e \in wbuf : Carries(e, r.line, c) /\ f[c] = e.data[c]
           \/ /\ \A e \in wbuf : ~Carries(e, r.line, c)
              /\ f[c] = Contents(img, r.line)[c]
    BY <1>1, ForwardIs
<1>3. /\ pend' = Append(pend, t) /\ img' = Touched(img, r.line) /\ seq' = seq + 1
      /\ UNCHANGED <<conf, queue, wbuf, phy, resp, golden>>
    BY <1>1 DEF ForwardRead, Accept
<1> HIDE DEF r, f
<1>4. /\ t \in Accesses /\ t.type = "Read" /\ t.id = seq + 1 /\ t.cmd = "Bypass"
      /\ t.data = f /\ t.expect = r.expect
    <2>1. f \in Data
        BY <1>1, <1>2, DataIs
    <2> QED BY <1>1, <2>1 DEF Accesses
<1> HIDE DEF t
<1>5. seq \in Nat /\ seq' \in Nat /\ t.id <= seq' /\ seq <= seq'
    BY <1>3, <1>4 DEF ControlType
<1>6. \A j \in DOMAIN pend : pend[j].id \in Nat /\ pend[j].id <= seq /\ pend[j].id # t.id
    BY <1>4, <1>5, TypedAccess, ElementOfSeq, LenProperties DEF DataInv, PendInv, DataTypes
<1>7. /\ PendInv' /\ pend' \in Seq(Accesses) /\ Range(pend') = Range(pend) \union {t}
      /\ phy' \in Phys /\ phy'.behavioral = conf.behavioral
    BY <1>3, <1>4, <1>5, <1>6, PendGrows DEF DataInv
<1>8. ImageSound(img') /\ \A l \in Lines : Contents(img', l) = Contents(img, l)
    BY <1>1, <1>3, TouchedKeeps DEF DataInv, DataTypes
<1>9. DataTypes' /\ BufferInv'
    BY <1>3, <1>7, <1>8 DEF DataInv, DataTypes, BufferInv, Shaped, SameAddress
<1>10. Positions(queue') = Positions(queue) /\ \A p \in Positions(queue) :
         /\ At(queue', p) = At(queue, p) /\ At(queue, p).id \in Nat /\ At(queue, p).id <= seq
    BY <1>3, PositionIs, TypedAccess DEF DataInv, QueueInv, ControlType
<1>11. QueueInv'
    <2>1. \A j \in DOMAIN pend' : \A p \in Positions(queue) : pend'[j].id # At(queue, p).id
        <3>1. \A j \in DOMAIN pend' : pend'[j] = t \/ \E i \in DOMAIN pend : pend'[j] = pend[i]
            BY <1>3, <1>4, AppendIs DEF DataInv, DataTypes
        <3> QED BY <1>4, <1>5, <1>10, <3>1 DEF DataInv, QueueInv
    <2> QED BY <1>3, <1>5, <1>10, <2>1 DEF DataInv, QueueInv, SameAddress
<1>12. NewestInv'
    BY <1>3, <1>8, LandsSame DEF DataInv, NewestInv, NewestAt
<1>13. ReadInv'
    <2>1. Unread' = Unread
        BY <1>3, <1>4, <1>7, <1>10 DEF Unread
    <2>2. ASSUME NEW x \in Unread  PROVE  ReadOk(x)'
        <3>1. ReadOk(x) /\ x \in Accesses /\ x.line \in Lines /\ x.id \in Nat
            BY UnreadTyped, TypedAccess DEF DataInv, ReadInv
        <3>2. Sees(x)'
            BY <1>3, <1>8, <3>1, LandsSame DEF ReadOk, Sees
        <3>3. Passes(x)'
            BY <1>3, <1>10, <3>1 DEF ReadOk, Passes
        <3> QED BY <1>5, <3>1, <3>2, <3>3 DEF ReadOk
    <2>3. Apart'
        BY <1>3 DEF DataInv, ReadInv, Apart
    <2> QED BY <2>1, <2>2, <2>3 DEF ReadInv
<1>14. AnswerInv'
    <2>1. ASSUME ~conf.behavioral  PROVE  t.data = t.expect
        <3>1. phy.writes = <<>>
            BY <2>1 DEF DataInv, PendInv
        <3>2. ASSUME NEW c \in r.cells  PROVE  f[c] = r.expect[c]
            <4>1. NewestAt(r.line, c)
                BY <1>1 DEF DataInv, NewestInv
            <4>2. CASE \E e \in wbuf : Carries(e, r.line, c)
                <5>1. PICK e \in wbuf : Carries(e, r.line, c) /\ e.data[c] = golden[r.line][c]
                    BY <4>1, <4>2 DEF NewestAt
                <5>2. PICK d \in wbuf : Carries(d, r.line, c) /\ f[c] = d.data[c]
                    BY <1>2, <4>2
                <5>3. d = e
                    BY <5>1, <5>2, BuffersApart DEF Carries, DataInv
                <5> QED BY <1>1, <5>1, <5>2, <5>3
            <4>3. CASE \A e \in wbuf : ~Carries(e, r.line, c)
                <5>1. f[c] = Contents(img, r.line)[c]
                    BY <1>2, <4>3
                <5>2. Lands(<<>>, img, r.line, c, golden[r.line][c])
                    BY <3>1, <4>1, <4>3 DEF NewestAt
                <5>3. Contents(img, r.line)[c] = golden[r.line][c]
                    BY <5>2 DEF Lands
                <5> QED BY <1>1, <5>1, <5>3
            <4> QED BY <4>2, <4>3
        <3> QED BY <1>1, <1>2, <1>4, <3>2
    <2>2. ASSUME NEW d \in phy.done  PROVE  d.id # t.id
        <3>1. PICK x \in Range(pend) : x.id = d.id
            BY DEF DataInv, PendInv
        <3> QED BY <1>6, <3>1 DEF Range
    <2> QED BY <1>3, <1>7, <2>1, <2>2 DEF DataInv, AnswerInv, MemoryReadsSeeAccepted
<1> QED BY <1>7, <1>9, <1>11, <1>12, <1>13, <1>14 DEF DataInv

\* A read that waits: the newest bytes it reads are not buffered, so they are stored or
\* on their way.
LEMMA DataQueueRead ==
    ASSUME ControlType, DataInv, NEW shape \in ReadShapes, QueueRead(shape)
    PROVE  DataInv'
<1> DEFINE r == NewRead(shape)
           new == <<"Read", Len(queue["Read"]) + 1>>
<1>1. /\ r \in Accesses /\ r.type = "Read" /\ r.id = seq + 1
      /\ r.line \in Lines /\ r.cells \subseteq Cells /\ r.line = shape.line
      /\ r.expect \in [r.cells -> Nat]
      /\ \A c \in r.cells : r.expect[c] = golden[r.line][c]
    BY NewReadIs
<1>2. /\ queue' = [queue EXCEPT !["Read"] = Append(@, r)] /\ seq' = seq + 1
      /\ \A w \in wbuf : ~Hits(r, w)
      /\ UNCHANGED <<conf, pend, wbuf, phy, img, resp, golden>>
    BY DEF QueueRead, Accept
<1> HIDE DEF r
<1>3. /\ Positions(queue') = Positions(queue) \union {new}
      /\ new \notin Positions(queue) /\ At(queue', new) = r /\ new[1] = "Read"
      /\ \A p \in Positions(queue) : At(queue', p) = At(queue, p)
    BY <1>1, <1>2, QueueGrows
<1> HIDE DEF new
<1>4. seq \in Nat /\ seq' \in Nat /\ r.id <= seq' /\ seq <= seq'
    BY <1>1, <1>2 DEF ControlType
<1>5. /\ \A j \in DOMAIN pend : pend[j].id \in Nat /\ pend[j].id <= seq /\ pend[j].id # r.id
      /\ \A p \in Positions(queue) :
            At(queue, p).id \in Nat /\ At(queue, p).id <= seq /\ At(queue, p).id # r.id
    <2>1. \A j \in DOMAIN pend : pend[j].id \in Nat /\ pend[j].id <= seq
        BY TypedAccess, ElementOfSeq, LenProperties DEF DataInv, PendInv, DataTypes
    <2>2. \A p \in Positions(queue) : At(queue, p).id \in Nat /\ At(queue, p).id <= seq
        BY PositionIs, TypedAccess DEF DataInv, QueueInv, ControlType
    <2> QED BY <1>1, <1>4, <2>1, <2>2
<1>6. DataTypes' /\ BufferInv' /\ PendInv'
    <2>1. DataTypes' /\ BufferInv'
        BY <1>2 DEF DataInv, DataTypes, BufferInv, Shaped, SameAddress
    <2>2. \A j \in DOMAIN pend : pend[j].id <= seq'
        BY <1>4, <1>5
    <2> QED BY <1>2, <2>1, <2>2 DEF DataInv, PendInv
<1>7. QueueInv'
    <2>1. ASSUME NEW p \in Positions(queue')
          PROVE  /\ p[1] = "Write" => At(queue', p).type = "Write"
                 /\ At(queue', p).id <= seq'
                 /\ At(queue', p).type = "Write" =>
                       \E e \in wbuf : SameAddress(e, At(queue', p)) /\ e.cells = At(queue', p).cells
                 /\ \A j \in DOMAIN pend : pend[j].id # At(queue', p).id
        <3>1. CASE p = new
            BY <1>1, <1>3, <1>4, <1>5, <3>1
        <3>2. CASE p \in Positions(queue)
            BY <1>3, <1>4, <1>5, <3>2 DEF DataInv, QueueInv
        <3> QED BY <1>3, <3>1, <3>2
    <2>2. ASSUME NEW p \in Positions(queue'), NEW o \in Positions(queue')
          PROVE  \/ p = o
                 \/ /\ At(queue', p).id # At(queue', o).id
                    /\ At(queue', p).type = "Write" /\ At(queue', o).type = "Write" =>
                          ~SameAddress(At(queue', p), At(queue', o))
        <3>1. CASE p \in Positions(queue) /\ o \in Positions(queue)
            BY <1>3, <3>1 DEF DataInv, QueueInv
        <3>2. CASE p = new \/ o = new
            BY <1>1, <1>3, <1>5, <3>2
        <3> QED BY <1>3, <3>1, <3>2
    <2> QED BY <1>2, <2>1, <2>2 DEF QueueInv, SameAddress
<1>8. NewestInv'
    BY <1>2 DEF DataInv, NewestInv, NewestAt, Carries
<1>9. ReadInv'
    <2>1. \A x \in Unread' : x = r \/ x \in Unread
        <3> SUFFICES ASSUME NEW x \in Unread', x # r PROVE x \in Unread
            OBVIOUS
        <3>1. CASE x \in Range(phy.reads) \/
                   x \in {t \in Range(pend) : ~conf.behavioral /\ t.type = "Read" /\ t.cmd # "Bypass"}
            BY <3>1 DEF Unread
        <3>2. CASE \E p \in Positions(queue') : x = At(queue', p) /\ x.type = "Read"
            BY <1>3, <3>2 DEF Unread
        <3> QED BY <1>2, <3>1, <3>2 DEF Unread
    <2>2. ASSUME NEW x \in Unread  PROVE  ReadOk(x)'
        <3>1. ReadOk(x) /\ x.id \in Nat
            BY UnreadTyped, TypedAccess DEF DataInv, ReadInv
        <3>2. Sees(x)'
            BY <1>2, <3>1 DEF ReadOk, Sees
        <3>3. Passes(x)'
            BY <1>1, <1>2, <1>3, <3>1 DEF ReadOk, Passes
        <3> QED BY <1>4, <3>1, <3>2, <3>3 DEF ReadOk
    <2>3. \A e \in wbuf : r.line = e.line => DOMAIN e.data \cap r.cells = {}
        <3> SUFFICES ASSUME NEW e \in wbuf, r.line = e.line PROVE DOMAIN e.data \cap r.cells = {}
            OBVIOUS
        <3>1. e.cells \cap DOMAIN e.data \cap r.cells = {}
            BY <1>2 DEF Hits
        <3>2. DOMAIN e.data \subseteq e.cells
            BY DEF DataInv, BufferInv
        <3> QED BY <3>1, <3>2
    <2>4. ASSUME NEW x, x = r  PROVE  ReadOk(x)'
        <3>1. Sees(x)'
            <4> SUFFICES ASSUME NEW c \in r.cells
                         PROVE  Lands(phy.writes, img, r.line, c, r.expect[c])
                BY <1>2, <2>4 DEF Sees
            <4>1. NewestAt(r.line, c)
                BY <1>1 DEF DataInv, NewestInv
            <4>2. \A e \in wbuf : ~Carries(e, r.line, c)
                BY <2>3 DEF Carries
            <4> QED BY <1>1, <4>1, <4>2 DEF NewestAt
        <3>2. Passes(x)'
            BY <1>2, <2>3, <2>4 DEF Passes
        <3> QED BY <1>1, <1>4, <2>4, <3>1, <3>2 DEF ReadOk
    <2>5. Apart'
        BY <1>2 DEF DataInv, ReadInv, Apart
    <2> QED BY <2>1, <2>2, <2>4, <2>5 DEF ReadInv
<1>10. AnswerInv'
    BY <1>2 DEF DataInv, AnswerInv, MemoryReadsSeeAccepted
<1> QED BY <1>6, <1>7, <1>8, <1>9, <1>10 DEF DataInv

LEMMA NewWriteIs ==
    ASSUME ControlType, NEW shape \in WriteShapes
    PROVE  LET w == NewWrite(shape) IN
           /\ w \in Accesses /\ w.type = "Write" /\ w.id = seq + 1 /\ w.cmd = "None"
           /\ w.line = shape.line /\ w.off = shape.off /\ w.cells = shape.cells
           /\ shape.line \in Lines /\ shape.off \in Nat /\ shape.cells \in SUBSET Cells
           /\ shape.mask \subseteq shape.cells /\ (shape.whole => shape.mask = shape.cells)
           /\ w.data \in Data /\ DOMAIN w.data = shape.mask
           /\ \A c \in shape.mask : w.data[c] = seq + 1
<1>1. /\ shape.line \in Lines /\ shape.off \in Nat /\ shape.cells \in SUBSET Cells
      /\ shape.mask \subseteq shape.cells /\ (shape.whole => shape.mask = shape.cells)
    BY ShapeAssumption
<1> DEFINE d == [c \in shape.mask |-> seq + 1]
<1>2. seq \in Nat
    BY DEF ControlType
<1>3. d \in [shape.mask -> Nat] /\ shape.mask \in SUBSET Cells
    BY <1>1, <1>2
<1>4. d \in Data
    BY <1>3, DataIs
<1>5. DOMAIN d = shape.mask /\ \A c \in shape.mask : d[c] = seq + 1
    OBVIOUS
<1>6. NewWrite(shape) = Transaction("Write", shape, d, <<>>)
    BY DEF NewWrite
<1> HIDE DEF d
<1> QED BY <1>1, <1>2, <1>4, <1>5, <1>6, NoData, TransactionIs

\* The write that is accepted is the newest of its bytes.
LEMMA RecordIs ==
    ASSUME ControlType, NEW shape \in WriteShapes, Record(shape), NEW l \in Lines, NEW c \in Cells
    PROVE  golden'[l][c] = IF l = shape.line /\ c \in shape.mask THEN seq + 1 ELSE golden[l][c]
<1>1. shape.line \in Lines
    BY ShapeAssumption
<1> DEFINE g == [d \in Cells |-> IF d \in shape.mask THEN seq + 1 ELSE golden[shape.line][d]]
<1>2. golden' = [golden EXCEPT ![shape.line] = g]
    BY DEF Record
<1>3. g[c] = IF c \in shape.mask THEN seq + 1 ELSE golden[shape.line][c]
    OBVIOUS
<1> HIDE DEF g
<1>4. golden'[l] = IF l = shape.line THEN g ELSE golden[l]
    BY <1>1, <1>2 DEF ControlType
<1> QED BY <1>3, <1>4

\* A write to the address of a buffered one.
LEMMA DataCoalesceWrite ==
    ASSUME AlignedShapes, ControlType, DataInv, NEW shape \in WriteShapes, CoalesceWrite(shape)
    PROVE  DataInv'
<1> DEFINE n == NewWrite(shape)
           t == [n EXCEPT !.cmd = "Bypass"]
<1>1. /\ n \in Accesses /\ n.type = "Write" /\ n.id = seq + 1
      /\ n.line = shape.line /\ n.off = shape.off /\ n.cells = shape.cells
      /\ shape.line \in Lines /\ shape.off \in Nat /\ shape.cells \in SUBSET Cells
      /\ shape.mask \subseteq shape.cells /\ (shape.whole => shape.mask = shape.cells)
      /\ n.data \in Data /\ DOMAIN n.data = shape.mask
      /\ \A c \in shape.mask : n.data[c] = seq + 1
    BY NewWriteIs
<1>2. PICK w \in wbuf :
        /\ SameAddress(w, shape)
        /\ ~UnresolvedRead(n, seq + 1)
        /\ wbuf' = (wbuf \ {w}) \union {Merged(w, n, shape.whole)}
        /\ pend' = Append(pend, t)
    BY DEF CoalesceWrite
<1>3. /\ seq' = seq + 1 /\ Record(shape)
      /\ UNCHANGED <<conf, queue, phy, img, resp>>
    BY DEF CoalesceWrite, Accept
<1> DEFINE m == Merged(w, n, shape.whole)
<1> HIDE DEF n
<1>4. /\ t \in Accesses /\ t.type = "Write" /\ t.id = seq + 1 /\ t.cmd = "Bypass"
    BY <1>1 DEF Accesses
<1> HIDE DEF t
<1>5. seq \in Nat /\ seq' \in Nat /\ t.id <= seq' /\ seq <= seq'
    BY <1>3, <1>4 DEF ControlType
<1>6. \A j \in DOMAIN pend : pend[j].id \in Nat /\ pend[j].id <= seq /\ pend[j].id # t.id
    BY <1>4, <1>5, TypedAccess, ElementOfSeq, LenProperties DEF DataInv, PendInv, DataTypes
<1>7. /\ PendInv' /\ pend' \in Seq(Accesses) /\ Range(pend') = Range(pend) \union {t}
      /\ phy' \in Phys /\ phy'.behavioral = conf.behavioral
    BY <1>2, <1>3, <1>4, <1>5, <1>6, PendGrows DEF DataInv
<1>8. /\ w \in Buffers /\ w.line = shape.line /\ w.off = shape.off /\ w.cells = shape.cells
      /\ DOMAIN w.data \subseteq w.cells /\ w.data \in Data
      /\ \A f \in wbuf : f.line = shape.line /\ f # w => DOMAIN f.data \cap shape.cells = {}
    <2>1. w \in Buffers /\ DOMAIN w.data \subseteq w.cells
        BY DEF DataInv, BufferInv
    <2>2. w.line = shape.line /\ w.off = shape.off /\ w.cells = shape.cells
        BY <1>2, BuffersApart DEF SameAddress, DataInv
    <2>3. ASSUME NEW f \in wbuf, f.line = shape.line, f # w
          PROVE  DOMAIN f.data \cap shape.cells = {}
        <3>1. ~SameAddress(f, w)
            BY <2>3 DEF DataInv, BufferInv
        <3>2. ~SameAddress(f, shape)
            BY <2>2, <3>1 DEF SameAddress
        <3>3. f.cells \cap shape.cells = {} /\ DOMAIN f.data \subseteq f.cells
            BY <2>3, <3>2, BuffersApart DEF DataInv, BufferInv
        <3> QED BY <3>3
    <2> QED BY <2>1, <2>2, <2>3 DEF Buffers
<1>9. /\ m \in Buffers /\ m.line = shape.line /\ m.off = shape.off /\ m.cells = shape.cells
      /\ DOMAIN m.data \subseteq m.cells
      /\ \A c \in Cells : /\ c \in DOMAIN m.data <=> c \in shape.mask \/ c \in DOMAIN w.data
                          /\ c \in shape.mask => m.data[c] = seq + 1
                          /\ c \in DOMAIN w.data \ shape.mask => m.data[c] = w.data[c]
    <2>1. CASE shape.whole
        <3>1. m = [w EXCEPT !.cells = n.cells, !.data = n.data]
            BY <2>1 DEF Merged
        <3>2. m.line = w.line /\ m.off = w.off /\ m.cells = n.cells /\ m.data = n.data
              /\ m \in Buffers
            BY <1>1, <1>8, <3>1 DEF Buffers
        <3> HIDE DEF m
        <3> QED BY <1>1, <1>8, <2>1, <3>2
    <2>2. CASE ~shape.whole
        <3> DEFINE d == Over(n.data, w.data)
        <3>1. m = [w EXCEPT !.data = d]
            BY <2>2 DEF Merged
        <3>2. /\ DOMAIN d = shape.mask \union DOMAIN w.data
              /\ \A c \in DOMAIN d : d[c] = IF c \in shape.mask THEN n.data[c] ELSE w.data[c]
              /\ d = [c \in DOMAIN d |-> d[c]]
            <4> DEFINE D == shape.mask \union DOMAIN w.data
                       v(c) == IF c \in shape.mask THEN n.data[c] ELSE w.data[c]
            <4>1. d = [c \in D |-> v(c)]
                BY <1>1 DEF Over
            <4> HIDE DEF d, D, v
            <4>2. DOMAIN d = D /\ (\A c \in D : d[c] = v(c)) /\ d = [c \in DOMAIN d |-> d[c]]
                BY <4>1
            <4> QED BY <4>2 DEF D, v
        <3>3. d \in Data
            <4>1. \A c \in DOMAIN d : d[c] \in Nat
                BY <1>1, <1>8, <3>2, DataDomain
            <4>2. DOMAIN d \in SUBSET Cells
                BY <1>1, <1>8, <3>2, DataDomain
            <4>3. d \in [DOMAIN d -> Nat]
                <5> HIDE DEF d
                <5> QED BY <3>2, <4>1
            <4> HIDE DEF d
            <4> QED BY <4>2, <4>3, DataIs
        <3> HIDE DEF d
        <3>4. m.line = w.line /\ m.off = w.off /\ m.cells = w.cells /\ m.data = d
              /\ m \in Buffers
            BY <1>8, <3>1, <3>3 DEF Buffers
        <3> HIDE DEF m
        <3> QED BY <1>1, <1>8, <3>2, <3>4
    <2> QED BY <2>1, <2>2
<1>10. wbuf' = (wbuf \ {w}) \union {m}
    BY <1>2
<1> HIDE DEF m
<1>11. DataTypes'
    BY <1>3, <1>7 DEF DataInv, DataTypes
<1>12. BufferInv'
    <2>1. Shaped(m)
        BY <1>9 DEF Shaped
    <2>2. \A f \in wbuf : f # w => ~SameAddress(f, m) /\ ~SameAddress(m, f)
        <3>1. \A f \in wbuf : f # w => ~SameAddress(f, w)
            BY DEF DataInv, BufferInv
        <3> QED BY <1>8, <1>9, <3>1 DEF SameAddress
    <2>3. wbuf' \subseteq Buffers
        BY <1>9, <1>10 DEF DataInv, BufferInv
    <2>4. \A e \in wbuf' : Shaped(e) /\ DOMAIN e.data \subseteq e.cells
        BY <1>9, <1>10, <2>1 DEF DataInv, BufferInv
    <2>5. \A e, f \in wbuf' : SameAddress(e, f) => e = f
        BY <1>10, <2>2 DEF DataInv, BufferInv
    <2> QED BY <2>3, <2>4, <2>5 DEF BufferInv, Shaped, SameAddress
<1>13. Positions(queue') = Positions(queue) /\ \A p \in Positions(queue) :
         /\ At(queue', p) = At(queue, p) /\ At(queue, p).id \in Nat /\ At(queue, p).id <= seq
    BY <1>3, PositionIs, TypedAccess DEF DataInv, QueueInv, ControlType
<1>14. QueueInv'
    <2>1. \A j \in DOMAIN pend' : \A p \in Positions(queue) : pend'[j].id # At(queue, p).id
        <3>1. \A j \in DOMAIN pend' : pend'[j] = t \/ \E i \in DOMAIN pend : pend'[j] = pend[i]
            BY <1>2, <1>4, AppendIs DEF DataInv, DataTypes
        <3> QED BY <1>4, <1>5, <1>13, <3>1 DEF DataInv, QueueInv
    <2>2. ASSUME NEW p \in Positions(queue), At(queue, p).type = "Write"
          PROVE  \E e \in wbuf' : SameAddress(e, At(queue, p)) /\ e.cells = At(queue, p).cells
        <3>1. PICK e \in wbuf : SameAddress(e, At(queue, p)) /\ e.cells = At(queue, p).cells
            BY <2>2 DEF DataInv, QueueInv
        <3>2. CASE e = w
            BY <1>8, <1>9, <1>10, <3>1, <3>2 DEF SameAddress
        <3>3. CASE e # w
            BY <1>10, <3>1, <3>3
        <3> QED BY <3>2, <3>3
    <2> QED BY <1>3, <1>5, <1>13, <2>1, <2>2 DEF DataInv, QueueInv, SameAddress
<1>15. NewestInv'
    <2> SUFFICES ASSUME NEW l \in Lines, NEW c \in Cells PROVE NewestAt(l, c)'
        BY DEF NewestInv
    <2>1. NewestAt(l, c)
        BY DEF DataInv, NewestInv
    <2>2. golden'[l][c] = IF l = shape.line /\ c \in shape.mask THEN seq + 1 ELSE golden[l][c]
        BY <1>3, RecordIs
    <2>3. Carries(m, l, c) <=> (Carries(w, l, c) \/ (l = shape.line /\ c \in shape.mask))
        BY <1>8, <1>9 DEF Carries
    <2>4. CASE l = shape.line /\ c \in shape.mask
        BY <1>9, <1>10, <2>2, <2>3, <2>4 DEF NewestAt, Carries
    <2>5. CASE ~(l = shape.line /\ c \in shape.mask)
        <3>1. CASE \E e \in wbuf : Carries(e, l, c) /\ e.data[c] = golden[l][c]
            <4>1. PICK e \in wbuf : Carries(e, l, c) /\ e.data[c] = golden[l][c]
                BY <3>1
            <4>2. CASE e = w
                <5>1. c \in DOMAIN w.data /\ c \notin shape.mask
                    BY <1>8, <2>5, <4>1, <4>2 DEF Carries
                <5>2. m.data[c] = w.data[c] /\ Carries(m, l, c)
                    BY <1>9, <2>3, <4>1, <4>2, <5>1
                <5> QED BY <1>10, <2>2, <2>5, <4>1, <4>2, <5>2 DEF NewestAt, Carries
            <4>3. CASE e # w
                BY <1>10, <2>2, <2>5, <4>1, <4>3 DEF NewestAt, Carries
            <4> QED BY <4>2, <4>3
        <3>2. CASE ~\E e \in wbuf : Carries(e, l, c) /\ e.data[c] = golden[l][c]
            <4>1. /\ \A e \in wbuf : ~Carries(e, l, c)
                  /\ Lands(phy.writes, img, l, c, golden[l][c])
                BY <2>1, <3>2 DEF NewestAt
            <4>2. \A e \in wbuf' : ~Carries(e, l, c)
                BY <1>10, <2>3, <2>5, <4>1
            <4> QED BY <1>3, <2>2, <2>5, <4>1, <4>2 DEF NewestAt, Carries
        <3> QED BY <3>1, <3>2
    <2> QED BY <2>4, <2>5
<1>16. \A x \in Unread : x.id \in Nat /\ x.id <= seq /\ ReadOk(x)
                         /\ (x.line = shape.line => x.cells \cap shape.cells = {})
    <2> SUFFICES ASSUME NEW x \in Unread
                 PROVE  x.id \in Nat /\ x.id <= seq /\ ReadOk(x)
                        /\ (x.line = shape.line => x.cells \cap shape.cells = {})
        OBVIOUS
    <2>1. x.type = "Read" /\ x \in Range(queue.Read) \union Range(queue.Active) \union Range(pend)
        BY UnreadKnown DEF DataInv
    <2>2. ReadOk(x) /\ x.id \in Nat /\ x.id <= seq
        BY UnreadTyped, TypedAccess DEF DataInv, ReadInv, ReadOk
    <2>3. x.id < seq + 1
        BY <1>5, <2>2
    <2>4. ~Overlap(x, n)
        BY <1>2, <2>1, <2>3 DEF UnresolvedRead
    <2> QED BY <1>1, <2>2, <2>4 DEF Overlap
<1>17. ReadInv'
    <2>1. Unread' \subseteq Unread
        BY <1>3, <1>4, <1>7, <1>13 DEF Unread
    <2>2. ASSUME NEW x \in Unread  PROVE  ReadOk(x)'
        <3>1. Sees(x)'
            BY <1>3, <1>16 DEF ReadOk, Sees
        <3>2. Passes(x)'
            <4> SUFFICES ASSUME NEW p \in Positions(queue), NEW e \in wbuf',
                                At(queue, p).type = "Write", SameAddress(e, At(queue, p)),
                                x.line = e.line, ~(x.id < At(queue, p).id)
                         PROVE  DOMAIN e.data \cap x.cells = {}
                BY <1>13 DEF Passes, SameAddress
            <4>1. CASE e = m
                <5>1. DOMAIN e.data \subseteq shape.cells /\ x.cells \cap shape.cells = {}
                    BY <1>9, <1>16, <4>1
                <5> QED BY <5>1
            <4>2. CASE e \in wbuf
                BY <1>16, <4>2 DEF ReadOk, Passes
            <4> QED BY <1>10, <4>1, <4>2
        <3> QED BY <1>3, <1>5, <1>16, <3>1, <3>2 DEF ReadOk
    <2>3. Apart'
        BY <1>3 DEF DataInv, ReadInv, Apart
    <2> QED BY <2>1, <2>2, <2>3 DEF ReadInv
<1>18. AnswerInv'
    BY <1>3, <1>4, <1>7 DEF DataInv, AnswerInv, MemoryReadsSeeAccepted
<1> QED BY <1>7, <1>11, <1>12, <1>14, <1>15, <1>17, <1>18 DEF DataInv

\* A write that is buffered and waits.
LEMMA DataQueueWrite ==
    ASSUME AlignedShapes, ControlType, DataInv, NEW shape \in WriteShapes, QueueWrite(shape)
    PROVE  DataInv'
<1> DEFINE n == NewWrite(shape)
           new == <<"Write", Len(queue["Write"]) + 1>>
           m == [line |-> shape.line, off |-> shape.off, cells |-> shape.cells, data |-> n.data]
<1>1. /\ n \in Accesses /\ n.type = "Write" /\ n.id = seq + 1
      /\ n.line = shape.line /\ n.off = shape.off /\ n.cells = shape.cells
      /\ shape.line \in Lines /\ shape.off \in Nat /\ shape.cells \in SUBSET Cells
      /\ shape.mask \subseteq shape.cells
      /\ n.data \in Data /\ DOMAIN n.data = shape.mask
      /\ \A c \in shape.mask : n.data[c] = seq + 1
    BY NewWriteIs
<1>2. /\ queue' = [queue EXCEPT !["Write"] = Append(@, n)] /\ seq' = seq + 1
      /\ \A w \in wbuf : ~SameAddress(w, shape)
      /\ wbuf' = wbuf \union {m}
      /\ Record(shape)
      /\ UNCHANGED <<conf, pend, phy, img, resp>>
    BY DEF QueueWrite, Accept
<1> HIDE DEF n
<1>3. /\ Positions(queue') = Positions(queue) \union {new}
      /\ new \notin Positions(queue) /\ At(queue', new) = n /\ new[1] = "Write"
      /\ \A p \in Positions(queue) : At(queue', p) = At(queue, p)
    BY <1>1, <1>2, QueueGrows
<1> HIDE DEF new
<1>4. seq \in Nat /\ seq' \in Nat /\ n.id <= seq' /\ seq <= seq'
    BY <1>1, <1>2 DEF ControlType
<1>5. /\ \A j \in DOMAIN pend : pend[j].id \in Nat /\ pend[j].id <= seq /\ pend[j].id # n.id
      /\ \A p \in Positions(queue) :
            At(queue, p).id \in Nat /\ At(queue, p).id <= seq /\ At(queue, p).id # n.id
    <2>1. \A j \in DOMAIN pend : pend[j].id \in Nat /\ pend[j].id <= seq
        BY TypedAccess, ElementOfSeq, LenProperties DEF DataInv, PendInv, DataTypes
    <2>2. \A p \in Positions(queue) : At(queue, p).id \in Nat /\ At(queue, p).id <= seq
        BY PositionIs, TypedAccess DEF DataInv, QueueInv, ControlType
    <2> QED BY <1>1, <1>4, <2>1, <2>2
<1>6. /\ m \in Buffers /\ m.line = shape.line /\ m.off = shape.off /\ m.cells = shape.cells
      /\ m.data = n.data /\ Shaped(m) /\ DOMAIN m.data \subseteq m.cells
      /\ \A f \in wbuf : ~SameAddress(f, m) /\ ~SameAddress(m, f)
    BY <1>1, <1>2 DEF Buffers, Shaped, SameAddress
<1> HIDE DEF m
<1>7. DataTypes' /\ PendInv'
    <2>1. DataTypes'
        BY <1>2 DEF DataInv, DataTypes
    <2>2. \A j \in DOMAIN pend : pend[j].id <= seq'
        BY <1>4, <1>5
    <2> QED BY <1>2, <2>1, <2>2 DEF DataInv, PendInv
<1>8. BufferInv'
    <2>1. wbuf' \subseteq Buffers
        BY <1>2, <1>6 DEF DataInv, BufferInv
    <2>2. \A e \in wbuf' : Shaped(e) /\ DOMAIN e.data \subseteq e.cells
        BY <1>2, <1>6 DEF DataInv, BufferInv
    <2>3. \A e, f \in wbuf' : SameAddress(e, f) => e = f
        BY <1>2, <1>6 DEF DataInv, BufferInv
    <2> QED BY <2>1, <2>2, <2>3 DEF BufferInv, Shaped, SameAddress
<1>8a. \A p \in Positions(queue) : At(queue, p).type = "Write" =>
           ~SameAddress(m, At(queue, p)) /\ ~SameAddress(n, At(queue, p)) /\ ~SameAddress(At(queue, p), n)
    <2> SUFFICES ASSUME NEW p \in Positions(queue), At(queue, p).type = "Write"
                 PROVE  ~SameAddress(m, At(queue, p)) /\ ~SameAddress(n, At(queue, p))
                        /\ ~SameAddress(At(queue, p), n)
        OBVIOUS
    <2>1. PICK e \in wbuf : SameAddress(e, At(queue, p))
        BY DEF DataInv, QueueInv
    <2>2. ~SameAddress(e, shape)
        BY <1>2
    <2> QED BY <1>1, <1>6, <2>1, <2>2 DEF SameAddress
<1>9. QueueInv'
    <2>1. ASSUME NEW p \in Positions(queue')
          PROVE  /\ p[1] = "Write" => At(queue', p).type = "Write"
                 /\ At(queue', p).id <= seq'
                 /\ At(queue', p).type = "Write" =>
                       \E e \in wbuf' : SameAddress(e, At(queue', p)) /\ e.cells = At(queue', p).cells
                 /\ \A j \in DOMAIN pend : pend[j].id # At(queue', p).id
        <3>1. CASE p = new
            <4>1. SameAddress(m, n) /\ m.cells = n.cells
                BY <1>1, <1>6 DEF SameAddress
            <4> QED BY <1>1, <1>2, <1>3, <1>4, <1>5, <3>1, <4>1
        <3>2. CASE p \in Positions(queue)
            <4> DEFINE x == At(queue, p)
            <4>1. /\ p[1] = "Write" => x.type = "Write"
                  /\ x.type = "Write" =>
                        \E e \in wbuf : SameAddress(e, x) /\ e.cells = x.cells
                BY <3>2 DEF DataInv, QueueInv
            <4>2. x.id <= seq' /\ \A j \in DOMAIN pend : pend[j].id # x.id
                BY <1>4, <1>5, <3>2 DEF DataInv, QueueInv
            <4>3. At(queue', p) = x /\ wbuf \subseteq wbuf'
                BY <1>2, <1>3, <3>2
            <4> HIDE DEF x
            <4> QED BY <4>1, <4>2, <4>3
        <3> QED BY <1>3, <3>1, <3>2
    <2>2. ASSUME NEW p \in Positions(queue'), NEW o \in Positions(queue')
          PROVE  \/ p = o
                 \/ /\ At(queue', p).id # At(queue', o).id
                    /\ At(queue', p).type = "Write" /\ At(queue', o).type = "Write" =>
                          ~SameAddress(At(queue', p), At(queue', o))
        <3>1. CASE p \in Positions(queue) /\ o \in Positions(queue)
            BY <1>3, <3>1 DEF DataInv, QueueInv
        <3>2. CASE p = new /\ o \in Positions(queue)
            BY <1>3, <1>5, <1>8a, <3>2
        <3>3. CASE o = new /\ p \in Positions(queue)
            BY <1>3, <1>5, <1>8a, <3>3
        <3> QED BY <1>3, <3>1, <3>2, <3>3
    <2> QED BY <1>2, <2>1, <2>2 DEF QueueInv, SameAddress
<1>10. NewestInv'
    <2> SUFFICES ASSUME NEW l \in Lines, NEW c \in Cells PROVE NewestAt(l, c)'
        BY DEF NewestInv
    <2>1. NewestAt(l, c)
        BY DEF DataInv, NewestInv
    <2>2. golden'[l][c] = IF l = shape.line /\ c \in shape.mask THEN seq + 1 ELSE golden[l][c]
        BY <1>2, RecordIs
    <2>3. Carries(m, l, c) <=> l = shape.line /\ c \in shape.mask
        BY <1>1, <1>6 DEF Carries
    <2>4. CASE l = shape.line /\ c \in shape.mask
        BY <1>1, <1>2, <1>6, <2>2, <2>3, <2>4 DEF NewestAt, Carries
    <2>5. CASE ~(l = shape.line /\ c \in shape.mask)
        BY <1>2, <2>1, <2>2, <2>3, <2>5 DEF NewestAt, Carries
    <2> QED BY <2>4, <2>5
<1>11. ReadInv'
    <2>1. \A x \in Unread' : x \in Unread
        <3> SUFFICES ASSUME NEW x \in Unread' PROVE x \in Unread
            OBVIOUS
        <3>1. CASE x \in Range(phy.reads) \/
                   x \in {t \in Range(pend) : ~conf.behavioral /\ t.type = "Read" /\ t.cmd # "Bypass"}
            BY <3>1 DEF Unread
        <3>2. CASE \E p \in Positions(queue') : x = At(queue', p) /\ x.type = "Read"
            BY <1>1, <1>3, <3>2 DEF Unread
        <3> QED BY <1>2, <3>1, <3>2 DEF Unread
    <2>2. ASSUME NEW x \in Unread  PROVE  ReadOk(x)'
        <3>1. ReadOk(x) /\ x.id \in Nat /\ x.id <= seq /\ x.id < n.id
            BY <1>1, <1>4, UnreadTyped, TypedAccess DEF DataInv, ReadInv, ReadOk
        <3>2. Sees(x)'
            BY <1>2, <3>1 DEF ReadOk, Sees
        <3>3. Passes(x)'
            <4> SUFFICES ASSUME NEW p \in Positions(queue'), NEW e \in wbuf',
                                At(queue', p).type = "Write", SameAddress(e, At(queue', p)),
                                x.line = e.line, ~(x.id < At(queue', p).id)
                         PROVE  DOMAIN e.data \cap x.cells = {}
                BY DEF Passes, SameAddress
            <4>1. p # new /\ p \in Positions(queue) /\ At(queue', p) = At(queue, p)
                BY <1>3, <3>1
            <4>2. e # m /\ e \in wbuf
                BY <1>2, <1>8a, <4>1
            <4> QED BY <3>1, <4>1, <4>2 DEF ReadOk, Passes
        <3> QED BY <1>4, <1>2, <3>1, <3>2, <3>3 DEF ReadOk
    <2>3. Apart'
        BY <1>2 DEF DataInv, ReadInv, Apart
    <2> QED BY <2>1, <2>2, <2>3 DEF ReadInv
<1>12. AnswerInv'
    BY <1>2 DEF DataInv, AnswerInv, MemoryReadsSeeAccepted
<1> QED BY <1>7, <1>8, <1>9, <1>10, <1>11, <1>12 DEF DataInv

LEMMA DataEnqueue ==
    ASSUME AlignedShapes, ControlType, DataInv, Enqueue
    PROVE  DataInv'
BY DataForwardRead, DataQueueRead, DataCoalesceWrite, DataQueueWrite DEF Enqueue

-----------------------------------------------------------------------------
(* Commands *)

\* The command of a request that may issue.
LEMMA AccessIssues ==
    ASSUME ControlType, NEW r \in Accesses, LegalNext(r),
           NEW cmd \in Upgrades(r, NextCommand(r)), cmd \in DataCommands
    PROVE  /\ NextCommand(r) \in DataCommands
           /\ NextCommand(r) \in ReadCommands <=> r.type = "Read"
           /\ cmd \in {"RD", "RDA", "WR", "WRA"}
<1>1. r.type \in {"Read", "Write"} /\ r.type # "Maint"
    BY TypedAccess
<1>2. /\ r.type = "Read" => DataCommand(r) \in ReadCommands
      /\ r.type = "Write" => DataCommand(r) \in WriteCommands
    BY <1>1 DEF DataCommand, ReadCommands, WriteCommands
<1>3. NextCommand(r) = DataCommand(r) \/ NextCommand(r) \in {"PREPB", "ACT2", "None", "ACT", "ACT1"}
    <2> DEFINE b == BankIdx(r)
    <2>1. b \in Banks /\ Row(r) \in Nat \ {0}
        BY BankOfAccess
    <2>2. CASE bank[b].row = Row(r)
        <3>1. Opened(bank, b)
            BY <2>1, <2>2 DEF Opened, NoRow
        <3> QED BY <1>1, <2>2, <3>1 DEF NextCommand
    <2>3. CASE bank[b].row # Row(r)
        <3> DEFINE rest == IF ~conf.split THEN "ACT" ELSE IF r.first THEN "ACT2" ELSE "ACT1"
                   part == IF r.first THEN "ACT2" ELSE "None"
        <3>1. CASE Opened(bank, b)
            <4>1. NextCommand(r) = "PREPB"
                BY <1>1, <2>3, <3>1 DEF NextCommand
            <4> QED BY <4>1
        <3>2. CASE ~Opened(bank, b) /\ bank[b].activating
            <4>1. NextCommand(r) = part
                BY <1>1, <2>3, <3>2 DEF NextCommand
            <4> QED BY <4>1
        <3>3. CASE ~Opened(bank, b) /\ ~bank[b].activating
            <4>1. NextCommand(r) = rest
                BY <1>1, <2>3, <3>3 DEF NextCommand
            <4> QED BY <4>1
        <3> QED BY <3>1, <3>2, <3>3
    <2> QED BY <2>2, <2>3
<1>4. NextCommand(r) \in DataCommands
    BY <1>3 DEF Upgrades, DataCommands, ReadCommands, WriteCommands
<1> QED BY <1>1, <1>2, <1>3, <1>4 DEF DataCommands, ReadCommands, WriteCommands

\* A command that opens or closes a row for a waiting request.
LEMMA DataRowCommand ==
    ASSUME ControlType, DataInv, NEW kind \in Ordinaries, NEW i \in DOMAIN queue[kind],
           NEW cmd, cmd \notin DataCommands,
           NEW others \in [Queues -> Seq(Accesses) \union Seq(Maints)],
           SameOrdinary(others, queue), Advance(others, kind, i, cmd),
           UNCHANGED <<conf, seq, resp, golden>>
    PROVE  DataInv'
<1> DEFINE r == queue[kind][i]
           n == ImageAfter(conf, img, BankIdx(r), Row(r), cmd)
<1>1. /\ \A k \in Ordinaries : queue'[k] \in Seq(Accesses)
      /\ \/ LeavesWithData(kind, i, cmd)
         \/ BecomesActive(kind, i, cmd)
         \/ Stays(kind, i, cmd)
    BY AdvanceIs
<1>2. PICK F : Moves(F)
    BY <1>1, QueueMoves
<1>3. img' = n /\ UNCHANGED <<pend, wbuf, phy>>
    <2>1. CASE cmd \in {"ACT", "ACT1"} /\ kind # "Active" /\ Len(queue.Active) < NBanks
        BY <2>1 DEF Advance, DataCommands, ReadCommands, WriteCommands
    <2>2. CASE ~(cmd \in {"ACT", "ACT1"} /\ kind # "Active" /\ Len(queue.Active) < NBanks)
        BY <2>2 DEF Advance
    <2> QED BY <2>1, <2>2
<1>4. r \in Accesses
    BY ElementOfSeq, LenProperties DEF ControlType
<1>5. BankIdx(r) \in Banks /\ Row(r) \in Nat
    BY <1>4, BankOfAccess
<1> HIDE DEF r
<1>6. ImageSound(n) /\ \A l \in Lines : Contents(n, l) = Contents(img, l)
    BY <1>5, ImageAfterKeeps DEF DataInv, DataTypes
<1> HIDE DEF n
<1>7. phy' \in Phys /\ resp' \in Seq(Answers)
    BY <1>3 DEF DataInv, DataTypes, AnswerInv
<1> QED BY <1>2, <1>3, <1>6, <1>7, DataFrame

\* A request that has issued its data command leaves the queues.
LEMMA LeftQueue ==
    ASSUME DataTypes, QueueInv, NEW x \in Positions(queue), NEW F, Moves(F),
           \A p \in Positions(queue') : F[p] # x,
           NEW t \in Accesses, t.id = At(queue, x).id, pend' = Append(pend, t), seq' = seq,
           \A o \in Positions(queue), e \in wbuf :
               o # x /\ At(queue, o).type = "Write" /\ SameAddress(e, At(queue, o)) => e \in wbuf'
    PROVE  QueueInv'
<1> DEFINE P == Positions(queue)
           N == Positions(queue')
           new(p) == At(queue', p)
           old(p) == At(queue, p)
<1>1. /\ \A p \in N : /\ F[p] \in P /\ F[p] # x /\ Alike(new(p), old(F[p]))
                      /\ p[1] = "Write" => F[p][1] = "Write"
      /\ \A p, o \in N : F[p] = F[o] => p = o
    BY DEF Moves
<1>2. \A j \in DOMAIN pend' : pend'[j] = t \/ \E i \in DOMAIN pend : pend'[j] = pend[i]
    BY AppendIs DEF DataTypes
<1>3. ASSUME NEW p \in N
      PROVE  /\ p[1] = "Write" => new(p).type = "Write"
             /\ new(p).id <= seq
             /\ new(p).type = "Write" =>
                   \E e \in wbuf' : SameAddress(e, new(p)) /\ e.cells = new(p).cells
             /\ \A j \in DOMAIN pend' : pend'[j].id # new(p).id
    <2> DEFINE o == F[p]
    <2>0. o \in P /\ o # x /\ Alike(new(p), old(o)) /\ (p[1] = "Write" => o[1] = "Write")
        BY <1>1
    <2> HIDE DEF o
    <2>1. /\ o[1] = "Write" => old(o).type = "Write"
          /\ old(o).id <= seq
          /\ \A j \in DOMAIN pend : pend[j].id # old(o).id
          /\ old(o).id # old(x).id
        BY <2>0 DEF QueueInv
    <2>2. old(o).type = "Write" => \E e \in wbuf' : SameAddress(e, old(o)) /\ e.cells = old(o).cells
        BY <2>0 DEF QueueInv
    <2> HIDE DEF new, old
    <2>3. \A j \in DOMAIN pend' : pend'[j].id # old(o).id
        BY <1>2, <2>1 DEF old
    <2> QED BY <2>0, <2>1, <2>2, <2>3 DEF Alike, SameAddress
<1>4. ASSUME NEW p \in N, NEW o \in N
      PROVE  \/ p = o
             \/ /\ new(p).id # new(o).id
                /\ new(p).type = "Write" /\ new(o).type = "Write" => ~SameAddress(new(p), new(o))
    <2>1. \/ F[p] = F[o]
          \/ /\ old(F[p]).id # old(F[o]).id
             /\ old(F[p]).type = "Write" /\ old(F[o]).type = "Write" =>
                    ~SameAddress(old(F[p]), old(F[o]))
        BY <1>1 DEF QueueInv
    <2> HIDE DEF new, old
    <2> QED BY <1>1, <2>1 DEF Alike, SameAddress
<1> QED BY <1>3, <1>4 DEF QueueInv, SameAddress

LEMMA PlaceInQueue ==
    ASSUME ControlType, NEW kind \in Ordinaries, NEW i \in DOMAIN queue[kind]
    PROVE  /\ <<kind, i>> \in Positions(queue) /\ At(queue, <<kind, i>>) = queue[kind][i]
           /\ queue[kind][i] \in Accesses
<1>1. \A k \in Ordinaries : queue[k] \in Seq(Accesses)
    BY DEF ControlType
<1>2. DOMAIN queue[kind] = 1 .. Len(queue[kind])
    BY <1>1
<1>3. queue[kind][i] \in Accesses
    BY <1>1
<1> QED BY <1>1, <1>2, <1>3, PositionIs

\* The data command of a read: no write that is on its way has its bytes.
LEMMA DataReadCommand ==
    ASSUME ControlType, DataInv, NEW kind \in Ordinaries, NEW i \in DOMAIN queue[kind],
           NEW bus, Eligible(kind, queue[kind][i], bus), LegalNext(queue[kind][i]),
           NEW cmd \in Upgrades(queue[kind][i], NextCommand(queue[kind][i])),
           cmd \in DataCommands, queue[kind][i].type = "Read",
           NEW others \in [Queues -> Seq(Accesses) \union Seq(Maints)],
           SameOrdinary(others, queue), Advance(others, kind, i, cmd),
           UNCHANGED <<conf, seq, resp, golden>>
    PROVE  DataInv'
<1> DEFINE r == queue[kind][i]
           t == [r EXCEPT !.cmd = cmd]
           x == <<kind, i>>
<1>1. x \in Positions(queue) /\ At(queue, x) = r /\ r \in Accesses /\ r.type = "Read"
    BY PlaceInQueue
<1>2. /\ \A k \in Ordinaries : queue'[k] \in Seq(Accesses)
      /\ \/ LeavesWithData(kind, i, cmd)
         \/ BecomesActive(kind, i, cmd)
         \/ Stays(kind, i, cmd)
    BY AdvanceIs
<1>3. PICK F : Moves(F) /\ \A p \in Positions(queue') : F[p] # x
    BY <1>2, QueueMoves
<1>4. /\ pend' = Append(pend, t) /\ wbuf' = wbuf /\ phy' = Submitted(phy, t) /\ img' = img
    <2>1. Issued(r, cmd) = t
        BY <1>1 DEF Issued
    <2>2. ~(cmd \in {"ACT", "ACT1"} /\ kind # "Active" /\ Len(queue.Active) < NBanks)
        BY DEF DataCommands, ReadCommands, WriteCommands
    <2> QED BY <1>1, <2>1, <2>2 DEF Advance
<1>5. conf.behavioral => ~UnresolvedWrite(r)
    <2>1. NextCommand(r) \in ReadCommands
        BY <1>1, AccessIssues
    <2> QED BY <2>1 DEF Eligible
<1>6. cmd \in {"RD", "RDA", "WR", "WRA"}
    BY <1>1, AccessIssues
<1> HIDE DEF r, x
<1>7. /\ t \in Accesses /\ t.type = "Read" /\ t.id = r.id /\ t.cmd # "Bypass" /\ Alike(t, r)
      /\ t.line = r.line /\ t.cells = r.cells
    BY <1>1, <1>6 DEF Accesses, Alike
<1> HIDE DEF t
<1>8. seq \in Nat /\ r.id <= seq /\ \A j \in DOMAIN pend : pend[j].id # t.id
    BY <1>1, <1>7 DEF ControlType, DataInv, QueueInv
<1>9. /\ PendInv' /\ pend' \in Seq(Accesses) /\ Range(pend') = Range(pend) \union {t}
      /\ phy' \in Phys /\ phy'.behavioral = conf.behavioral
    BY <1>4, <1>7, <1>8, PendGrows DEF DataInv
<1>10. /\ phy'.done = phy.done /\ phy'.writes = phy.writes
       /\ phy'.reads = IF conf.behavioral THEN Append(phy.reads, t) ELSE phy.reads
    BY <1>4, <1>7, SubmittedIs DEF DataInv, DataTypes
<1>10a. \A j \in DOMAIN phy'.reads :
            (phy'.reads[j] = t /\ conf.behavioral) \/ \E k \in DOMAIN phy.reads : phy'.reads[j] = phy.reads[k]
    <2>1. phy.reads \in Seq(Accesses)
        BY DEF DataInv, DataTypes, Phys
    <2> QED BY <1>7, <1>10, <2>1, AppendIs
<1>11. DataTypes' /\ BufferInv'
    BY <1>4, <1>9 DEF DataInv, DataTypes, BufferInv, Shaped, SameAddress
<1>12. QueueInv'
    BY <1>1, <1>3, <1>4, <1>7, LeftQueue DEF DataInv
<1>13. NewestInv'
    BY <1>4, <1>10 DEF DataInv, NewestInv, NewestAt, Carries
<1>14. ReadInv'
    <2>0. r \in Unread
        BY <1>1 DEF Unread
    <2>1. ASSUME NEW y \in Unread'  PROVE  \E z \in Unread : Alike(y, z)
        <3>1. CASE y \in Range(phy'.reads)
            <4>1. y = t \/ y \in Range(phy.reads)
                BY <1>10a, <3>1 DEF Range
            <4> QED BY <1>7, <2>0, <4>1 DEF Unread, Alike
        <3>2. CASE y \in {u \in Range(pend') : ~conf.behavioral /\ u.type = "Read" /\ u.cmd # "Bypass"}
            <4>1. y = t \/ y \in {u \in Range(pend) : ~conf.behavioral /\ u.type = "Read" /\ u.cmd # "Bypass"}
                BY <1>9, <3>2
            <4> QED BY <1>7, <2>0, <4>1 DEF Unread, Alike
        <3>3. CASE \E p \in Positions(queue') : y = At(queue', p) /\ y.type = "Read"
            <4>1. PICK p \in Positions(queue') : y = At(queue', p) /\ y.type = "Read"
                BY <3>3
            <4>2. F[p] \in Positions(queue) /\ Alike(y, At(queue, F[p]))
                BY <1>3, <4>1 DEF Moves
            <4>3. At(queue, F[p]) \in Unread
                BY <4>1, <4>2 DEF Unread, Alike
            <4> QED BY <4>2, <4>3
        <3> QED BY <3>1, <3>2, <3>3 DEF Unread
    <2>2. ASSUME NEW y \in Unread  PROVE  ReadOk(y)'
        <3>1. ReadOk(y)
            BY DEF DataInv, ReadInv
        <3>2. Sees(y)'
            BY <1>4, <1>10, <3>1 DEF ReadOk, Sees
        <3>3. Passes(y)'
            <4> SUFFICES ASSUME NEW p \in Positions(queue'), NEW e \in wbuf,
                                At(queue', p).type = "Write", SameAddress(e, At(queue', p)),
                                y.line = e.line, ~(y.id < At(queue', p).id)
                         PROVE  DOMAIN e.data \cap y.cells = {}
                BY <1>4 DEF Passes
            <4>1. F[p] \in Positions(queue) /\ Alike(At(queue', p), At(queue, F[p]))
                BY <1>3 DEF Moves
            <4> DEFINE o == F[p]
            <4>2. At(queue, o).type = "Write" /\ SameAddress(e, At(queue, o))
                  /\ ~(y.id < At(queue, o).id) /\ o \in Positions(queue)
                BY <4>1 DEF Alike, SameAddress
            <4> HIDE DEF o
            <4> QED BY <3>1, <4>2 DEF ReadOk, Passes
        <3> QED BY <3>1, <3>2, <3>3 DEF ReadOk
    <2>3. ASSUME NEW j \in DOMAIN phy'.reads, NEW k \in DOMAIN phy'.writes,
                 phy'.reads[j].line = phy'.writes[k].line
          PROVE  DOMAIN phy'.writes[k].data \cap phy'.reads[j].cells = {}
        <3> DEFINE w == phy'.writes[k]
        <3>0. w = phy.writes[k] /\ k \in DOMAIN phy.writes
            BY <1>10
        <3>1. CASE \E m \in DOMAIN phy.reads : phy'.reads[j] = phy.reads[m]
            BY <2>3, <3>0, <3>1 DEF DataInv, ReadInv, Apart
        <3>2. CASE phy'.reads[j] = t /\ conf.behavioral
            <4>1. w \in Range(pend) /\ w.type = "Write" /\ DOMAIN w.data \subseteq w.cells
                BY <3>0 DEF DataInv, PendInv
            <4>2. ~Overlap(r, w)
                BY <1>5, <3>2, <4>1 DEF UnresolvedWrite
            <4> QED BY <1>7, <2>3, <3>2, <4>1, <4>2 DEF Overlap
        <3> QED BY <1>10a, <3>1, <3>2
    <2>4. Apart'
        BY <2>3 DEF Apart
    <2> QED BY <2>1, <2>2, <2>4, AlikeOk DEF ReadInv
<1>15. AnswerInv'
    <2>1. ASSUME NEW d \in phy.done  PROVE  d.id # t.id
        <3>1. PICK u \in Range(pend) : u.id = d.id
            BY DEF DataInv, PendInv
        <3> QED BY <1>8, <3>1 DEF Range
    <2> QED BY <1>7, <1>9, <1>10, <2>1 DEF DataInv, AnswerInv, MemoryReadsSeeAccepted
<1> QED BY <1>9, <1>11, <1>12, <1>13, <1>14, <1>15 DEF DataInv

\* The data command of a write: its data leave the buffer, and no read that is on its
\* way looks for other bytes there.
LEMMA DataWriteCommand ==
    ASSUME AlignedShapes, ControlType, DataInv, NEW kind \in Ordinaries,
           NEW i \in DOMAIN queue[kind],
           NEW bus, Eligible(kind, queue[kind][i], bus), LegalNext(queue[kind][i]),
           NEW cmd \in Upgrades(queue[kind][i], NextCommand(queue[kind][i])),
           cmd \in DataCommands, queue[kind][i].type = "Write",
           NEW others \in [Queues -> Seq(Accesses) \union Seq(Maints)],
           SameOrdinary(others, queue), Advance(others, kind, i, cmd),
           UNCHANGED <<conf, seq, resp, golden>>
    PROVE  DataInv'
<1> DEFINE r == queue[kind][i]
           x == <<kind, i>>
<1>1. x \in Positions(queue) /\ At(queue, x) = r /\ r \in Accesses /\ r.type = "Write"
    BY PlaceInQueue
<1>2. /\ \A k \in Ordinaries : queue'[k] \in Seq(Accesses)
      /\ \/ LeavesWithData(kind, i, cmd)
         \/ BecomesActive(kind, i, cmd)
         \/ Stays(kind, i, cmd)
    BY AdvanceIs
<1>3. PICK F : Moves(F) /\ \A p \in Positions(queue') : F[p] # x
    BY <1>2, QueueMoves
<1>4. PICK e \in wbuf : SameAddress(e, r) /\ e.cells = r.cells
    BY <1>1 DEF DataInv, QueueInv
<1>5. BufferOf(r) = {e}
    BY <1>4 DEF BufferOf, DataInv, BufferInv, SameAddress
<1> DEFINE t == [r EXCEPT !.cmd = cmd, !.data = e.data]
<1>6. /\ pend' = Append(pend, t) /\ wbuf' = wbuf \ {e} /\ phy' = Submitted(phy, t)
      /\ img' = IF ~conf.behavioral THEN Written(img, t.line, t.data) ELSE img
    <2>1. Issued(r, cmd) = t
        BY <1>1, <1>5 DEF Issued
    <2>2. ~(cmd \in {"ACT", "ACT1"} /\ kind # "Active" /\ Len(queue.Active) < NBanks)
        BY DEF DataCommands, ReadCommands, WriteCommands
    <2> HIDE DEF t
    <2> QED BY <1>1, <1>5, <2>1, <2>2 DEF Advance
<1>7. ~UnresolvedRead(r, r.id)
    BY <1>1 DEF Eligible
<1>8. cmd \in {"RD", "RDA", "WR", "WRA"}
    BY <1>1, AccessIssues
<1> HIDE DEF r, x
<1>9. e \in Buffers /\ e.data \in Data /\ e.line = r.line /\ DOMAIN e.data \subseteq e.cells
    BY <1>4 DEF DataInv, BufferInv, Buffers, SameAddress
<1>10. /\ t \in Accesses /\ t.type = "Write" /\ t.id = r.id /\ t.cmd # "Bypass"
       /\ t.line = r.line /\ t.cells = r.cells /\ t.data = e.data
    BY <1>1, <1>8, <1>9 DEF Accesses
<1> HIDE DEF t
<1>11. seq \in Nat /\ r.id <= seq /\ \A j \in DOMAIN pend : pend[j].id # t.id
    BY <1>1, <1>10 DEF ControlType, DataInv, QueueInv
<1>12. /\ PendInv' /\ pend' \in Seq(Accesses) /\ Range(pend') = Range(pend) \union {t}
       /\ phy' \in Phys /\ phy'.behavioral = conf.behavioral
    BY <1>4, <1>6, <1>9, <1>10, <1>11, PendGrows DEF DataInv
<1>13. /\ phy'.done = phy.done /\ phy'.reads = phy.reads
       /\ phy'.writes = IF conf.behavioral THEN Append(phy.writes, t) ELSE phy.writes
       /\ phy.writes \in Seq(Accesses) /\ (~conf.behavioral => phy.writes = <<>>)
    <2>1. phy \in Phys /\ phy.behavioral = conf.behavioral
        BY DEF DataInv, DataTypes
    <2> QED BY <1>6, <1>10, <2>1, SubmittedIs DEF DataInv, PendInv, Phys
<1>14. ImageSound(img') /\ r.line \in Lines
    <2>1. r.line \in Lines /\ ImageSound(img)
        BY <1>1, TypedAccess DEF DataInv, DataTypes
    <2> QED BY <1>6, <1>9, <1>10, <2>1, WrittenIs
\* Where the bytes of the write go, and the others stay.
<1>15. ASSUME NEW l \in Lines, NEW c \in Cells, NEW v
       PROVE  /\ Carries(e, l, c) /\ e.data[c] = v => Lands(phy'.writes, img', l, c, v)
              /\ ~Carries(e, l, c) /\ Lands(phy.writes, img, l, c, v)
                    => Lands(phy'.writes, img', l, c, v)
    <2>1. Carries(e, l, c) <=> Carries(t, l, c)
        BY <1>9, <1>10 DEF Carries
    <2>2. CASE conf.behavioral
        <3>1. phy'.writes = Append(phy.writes, t) /\ img' = img
            BY <1>6, <1>13, <2>2
        <3> QED BY <1>10, <1>13, <2>1, <3>1, LandsSubmitted
    <2>3. CASE ~conf.behavioral
        <3>1. /\ phy'.writes = <<>> /\ phy.writes = <<>> /\ img' = Written(img, r.line, e.data)
              /\ ImageSound(img)
            BY <1>6, <1>10, <1>13, <2>3 DEF DataInv, DataTypes
        <3> QED BY <1>9, <1>14, <2>1, <3>1, LandsWritten DEF Carries
    <2> QED BY <2>2, <2>3
<1>16. \A y \in Unread : y.line = r.line => DOMAIN e.data \cap y.cells = {}
    <2> SUFFICES ASSUME NEW y \in Unread, y.line = r.line PROVE DOMAIN e.data \cap y.cells = {}
        OBVIOUS
    <2>1. y.type = "Read" /\ y \in Range(queue.Read) \union Range(queue.Active) \union Range(pend)
        BY UnreadKnown DEF DataInv
    <2>2. CASE y.id < r.id
        <3>1. ~Overlap(y, r)
            BY <1>7, <2>1, <2>2 DEF UnresolvedRead
        <3> QED BY <1>4, <1>9, <3>1 DEF Overlap
    <2>3. CASE ~(y.id < r.id)
        <3>1. Passes(y)
            BY DEF DataInv, ReadInv, ReadOk
        <3> QED BY <1>1, <1>4, <1>9, <2>3, <3>1 DEF Passes
    <2> QED BY <2>2, <2>3
<1>17. DataTypes'
    BY <1>12, <1>14 DEF DataTypes
<1>18. BufferInv'
    BY <1>6 DEF DataInv, BufferInv, Shaped, SameAddress
<1>19. QueueInv'
    <2>1. ASSUME NEW o \in Positions(queue), NEW f \in wbuf, o # x,
                 At(queue, o).type = "Write", SameAddress(f, At(queue, o))
          PROVE  f \in wbuf'
        <3>1. ~SameAddress(At(queue, o), r)
            BY <1>1, <2>1 DEF DataInv, QueueInv
        <3>2. f # e
            BY <1>4, <2>1, <3>1 DEF SameAddress
        <3> QED BY <1>6, <3>2
    <2> QED BY <1>1, <1>3, <1>6, <1>10, <2>1, LeftQueue DEF DataInv
<1>20. NewestInv'
    <2> SUFFICES ASSUME NEW l \in Lines, NEW c \in Cells PROVE NewestAt(l, c)'
        BY DEF NewestInv
    <2>1. NewestAt(l, c)
        BY DEF DataInv, NewestInv
    <2>2. CASE Carries(e, l, c)
        <3>1. \A f \in wbuf : f # e => ~Carries(f, l, c)
            BY <2>2, BuffersApart DEF DataInv, Carries
        <3>2. e.data[c] = golden[l][c]
            BY <2>1, <2>2, <3>1 DEF NewestAt
        <3>3. Lands(phy'.writes, img', l, c, golden[l][c])
            BY <1>15, <2>2, <3>2
        <3> QED BY <1>6, <3>1, <3>3 DEF NewestAt, Carries
    <2>3. CASE ~Carries(e, l, c)
        <3>1. CASE \E f \in wbuf : Carries(f, l, c) /\ f.data[c] = golden[l][c]
            BY <1>6, <2>3, <3>1 DEF NewestAt, Carries
        <3>2. CASE /\ \A f \in wbuf : ~Carries(f, l, c)
                   /\ Lands(phy.writes, img, l, c, golden[l][c])
            <4>1. Lands(phy'.writes, img', l, c, golden[l][c])
                BY <1>15, <2>3, <3>2
            <4> QED BY <1>6, <3>2, <4>1 DEF NewestAt, Carries
        <3> QED BY <2>1, <3>1, <3>2 DEF NewestAt
    <2> QED BY <2>2, <2>3
<1>21. ReadInv'
    <2>1. ASSUME NEW y \in Unread'  PROVE  \E z \in Unread : Alike(y, z)
        <3>1. CASE y \in Range(phy'.reads)
            BY <1>13, <3>1 DEF Unread, Alike
        <3>2. CASE y \in {u \in Range(pend') : ~conf.behavioral /\ u.type = "Read" /\ u.cmd # "Bypass"}
            <4>1. y \in {u \in Range(pend) : ~conf.behavioral /\ u.type = "Read" /\ u.cmd # "Bypass"}
                BY <1>10, <1>12, <3>2
            <4> QED BY <4>1 DEF Unread, Alike
        <3>3. CASE \E p \in Positions(queue') : y = At(queue', p) /\ y.type = "Read"
            <4>1. PICK p \in Positions(queue') : y = At(queue', p) /\ y.type = "Read"
                BY <3>3
            <4>2. F[p] \in Positions(queue) /\ Alike(y, At(queue, F[p]))
                BY <1>3, <4>1 DEF Moves
            <4>3. At(queue, F[p]) \in Unread
                BY <4>1, <4>2 DEF Unread, Alike
            <4> QED BY <4>2, <4>3
        <3> QED BY <3>1, <3>2, <3>3 DEF Unread
    <2>2. ASSUME NEW y \in Unread  PROVE  ReadOk(y)'
        <3>1. ReadOk(y) /\ y \in Accesses /\ y.line \in Lines /\ y.cells \subseteq Cells
            BY UnreadTyped, TypedAccess DEF DataInv, ReadInv
        <3>2. Sees(y)'
            <4> SUFFICES ASSUME NEW c \in y.cells
                         PROVE  Lands(phy'.writes, img', y.line, c, y.expect[c])
                BY DEF Sees
            <4>1. Lands(phy.writes, img, y.line, c, y.expect[c])
                BY <3>1 DEF ReadOk, Sees
            <4>2. ~Carries(e, y.line, c)
                BY <1>9, <1>16 DEF Carries
            <4> QED BY <1>15, <3>1, <4>1, <4>2
        <3>3. Passes(y)'
            <4> SUFFICES ASSUME NEW p \in Positions(queue'), NEW f \in wbuf,
                                At(queue', p).type = "Write", SameAddress(f, At(queue', p)),
                                y.line = f.line, ~(y.id < At(queue', p).id)
                         PROVE  DOMAIN f.data \cap y.cells = {}
                BY <1>6 DEF Passes
            <4>1. F[p] \in Positions(queue) /\ Alike(At(queue', p), At(queue, F[p]))
                BY <1>3 DEF Moves
            <4> DEFINE o == F[p]
            <4>2. At(queue, o).type = "Write" /\ SameAddress(f, At(queue, o))
                  /\ ~(y.id < At(queue, o).id) /\ o \in Positions(queue)
                BY <4>1 DEF Alike, SameAddress
            <4> HIDE DEF o
            <4> QED BY <3>1, <4>2 DEF ReadOk, Passes
        <3> QED BY <3>1, <3>2, <3>3 DEF ReadOk
    <2>3. ASSUME NEW j \in DOMAIN phy'.reads, NEW k \in DOMAIN phy'.writes,
                 phy'.reads[j].line = phy'.writes[k].line
          PROVE  DOMAIN phy'.writes[k].data \cap phy'.reads[j].cells = {}
        <3>0. phy'.reads[j] = phy.reads[j] /\ j \in DOMAIN phy.reads /\ phy.reads[j] \in Unread
            BY <1>13 DEF Unread, Range
        <3>1. phy'.writes[k] = t \/ \E m \in DOMAIN phy.writes : phy'.writes[k] = phy.writes[m]
            BY <1>10, <1>13, AppendIs
        <3>2. CASE phy'.writes[k] = t
            BY <1>10, <1>16, <2>3, <3>0, <3>2
        <3>3. CASE \E m \in DOMAIN phy.writes : phy'.writes[k] = phy.writes[m]
            BY <2>3, <3>0, <3>3 DEF DataInv, ReadInv, Apart
        <3> QED BY <3>1, <3>2, <3>3
    <2>4. Apart'
        BY <2>3 DEF Apart
    <2> QED BY <2>1, <2>2, <2>4, AlikeOk DEF ReadInv
<1>22. AnswerInv'
    BY <1>10, <1>12, <1>13 DEF DataInv, AnswerInv, MemoryReadsSeeAccepted
<1> QED BY <1>12, <1>17, <1>18, <1>19, <1>20, <1>21, <1>22 DEF DataInv

LEMMA DataIssue ==
    ASSUME AlignedShapes, ControlType, DataInv, NEW bus,
           IssueActive(bus) \/ IssueMaintenance(bus) \/ IssueOrdinary(bus)
    PROVE  DataInv'
<1>1. ASSUME NEW kind \in Ordinaries, NEW i \in DOMAIN queue[kind],
             Eligible(kind, queue[kind][i], bus), LegalNext(queue[kind][i]),
             NEW cmd \in Upgrades(queue[kind][i], NextCommand(queue[kind][i])),
             NEW others \in [Queues -> Seq(Accesses) \union Seq(Maints)],
             SameOrdinary(others, queue), Advance(others, kind, i, cmd),
             UNCHANGED <<conf, seq, resp, golden>>
      PROVE  DataInv'
    <2>1. queue[kind][i].type \in {"Read", "Write"}
        BY PlaceInQueue, TypedAccess
    <2> QED BY <1>1, <2>1, DataReadCommand, DataWriteCommand, DataRowCommand
<1>2. PriorityNow \in Seq(Maints) /\ Len(PriorityNow) <= PriorityMax
      /\ <<>> \in Seq(Maints) /\ Len(<<>>) <= PriorityMax
    BY PriorityIs, QueueAssumption
<1>3. ASSUME IssueActive(bus)  PROVE  DataInv'
    <2>1. PICK i \in DOMAIN queue.Active :
             LET r == queue.Active[i] IN
             /\ r \in Accesses /\ LegalNext(r) /\ Eligible("Active", r, bus)
             /\ \E cmd \in Upgrades(r, NextCommand(r)) :
                  /\ Advance([queue EXCEPT !.Priority = PriorityNow], "Active", i, cmd)
                  /\ UNCHANGED <<conf, seq, resp, golden>>
        BY <1>3, ActiveIssues
    <2>2. PICK cmd \in Upgrades(queue.Active[i], NextCommand(queue.Active[i])) :
             /\ Advance([queue EXCEPT !.Priority = PriorityNow], "Active", i, cmd)
             /\ UNCHANGED <<conf, seq, resp, golden>>
        BY <2>1
    <2> DEFINE others == [queue EXCEPT !.Priority = PriorityNow]
    <2>3. /\ others \in [Queues -> Seq(Accesses) \union Seq(Maints)]
          /\ SameOrdinary(others, queue)
        BY <1>2, Others
    <2>4. Advance(others, "Active", i, cmd)
        BY <2>2
    <2> HIDE DEF others
    <2>5. "Active" \in Ordinaries
        BY DEF Ordinaries
    <2> QED BY <1>1, <2>1, <2>2, <2>3, <2>4, <2>5
<1>4. ASSUME IssueOrdinary(bus)  PROVE  DataInv'
    <2>0. PICK k \in {"Read", "Write"} : \E i \in DOMAIN queue[k] :
             LET r == queue[k][i] IN
             /\ r \in Accesses /\ LegalNext(r) /\ Eligible(k, r, bus)
             /\ \E cmd \in Upgrades(r, NextCommand(r)) :
                  /\ Advance([queue EXCEPT !.Priority = <<>>], k, i, cmd)
                  /\ UNCHANGED <<conf, seq, resp, golden>>
        BY <1>4, OrdinaryIssues
    <2>1. PICK i \in DOMAIN queue[k] :
             LET r == queue[k][i] IN
             /\ r \in Accesses /\ LegalNext(r) /\ Eligible(k, r, bus)
             /\ \E cmd \in Upgrades(r, NextCommand(r)) :
                  /\ Advance([queue EXCEPT !.Priority = <<>>], k, i, cmd)
                  /\ UNCHANGED <<conf, seq, resp, golden>>
        BY <2>0
    <2>2. PICK cmd \in Upgrades(queue[k][i], NextCommand(queue[k][i])) :
             /\ Advance([queue EXCEPT !.Priority = <<>>], k, i, cmd)
             /\ UNCHANGED <<conf, seq, resp, golden>>
        BY <2>1
    <2> DEFINE others == [queue EXCEPT !.Priority = <<>>]
    <2>3. /\ others \in [Queues -> Seq(Accesses) \union Seq(Maints)]
          /\ SameOrdinary(others, queue)
        BY <1>2, Others
    <2>4. Advance(others, k, i, cmd)
        BY <2>2
    <2> HIDE DEF others
    <2>5. k \in Ordinaries
        BY DEF Ordinaries
    <2> QED BY <1>1, <2>1, <2>2, <2>3, <2>4, <2>5
<1>5. ASSUME IssueMaintenance(bus)  PROVE  DataInv'
    <2> DEFINE r == Head(PriorityLeft)
               cmd == NextCommand(r)
               s == IF cmd = r.cmd THEN Tail(PriorityLeft) ELSE PriorityLeft
               n == ImageAfter(conf, img, r.bank, NoRow, cmd)
    <2>1. /\ r \in Maints /\ img' = n
          /\ queue' = [queue EXCEPT !.Priority = s]
          /\ UNCHANGED <<conf, seq, pend, wbuf, phy, resp, golden>>
        BY <1>5, MaintenanceIssues
    <2>2. r.bank \in Banks /\ NoRow \in Nat
        BY <2>1 DEF Maints, NoRow
    <2> HIDE DEF cmd, s, r
    <2>3. ImageSound(n) /\ \A l \in Lines : Contents(n, l) = Contents(img, l)
        BY <2>2, ImageAfterKeeps DEF DataInv, DataTypes
    <2> HIDE DEF n
    <2>4. SameOrdinary(queue', queue)
        BY <2>1 DEF ControlType, Queues, Ordinaries, SameOrdinary
    <2>5. PICK F : Moves(F)
        BY <2>4, SameMoves
    <2>6. phy' \in Phys /\ resp' \in Seq(Answers)
        BY <2>1 DEF DataInv, DataTypes, AnswerInv
    <2> QED BY <2>1, <2>3, <2>5, <2>6, DataFrame
<1> QED BY <1>3, <1>4, <1>5

-----------------------------------------------------------------------------
(* The other stages *)

LEMMA TailIs ==
    ASSUME NEW T, NEW s \in Seq(T), s # <<>>
    PROVE  /\ Head(s) \in T /\ Head(s) = s[1] /\ 1 \in DOMAIN s
           /\ Tail(s) \in Seq(T) /\ Range(Tail(s)) \subseteq Range(s)
           /\ \A j \in DOMAIN Tail(s) : j + 1 \in DOMAIN s /\ Tail(s)[j] = s[j + 1]
                                        /\ j \in Nat /\ j + 1 # 1
<1> DEFINE u == Tail(s)
<1>1. /\ Len(s) \in Nat \ {0} /\ DOMAIN s = 1 .. Len(s) /\ u \in Seq(T)
      /\ Len(u) = Len(s) - 1 /\ DOMAIN u = 1 .. Len(s) - 1
      /\ Head(s) = s[1] /\ Head(s) \in T
      /\ \A j \in 1 .. Len(s) - 1 : u[j] = s[j + 1]
    BY HeadTailProperties, LenProperties, ElementOfSeq, EmptySeq
<1> HIDE DEF u
<1>2. \A j \in DOMAIN u : j + 1 \in DOMAIN s /\ u[j] = s[j + 1] /\ j \in Nat /\ j + 1 # 1
    BY <1>1
<1>3. Range(u) \subseteq Range(s)
    BY <1>2 DEF Range
<1> QED BY <1>1, <1>2, <1>3 DEF u

\* A read leaves the PHY: no write that is still there has its bytes.
LEMMA DataPhyRead ==
    ASSUME ControlType, DataInv, phy.reads # <<>>,
           LET s == AfterRead([phy |-> phy, img |-> img]) IN phy' = s.phy /\ img' = s.img,
           UNCHANGED <<conf, seq, queue, pend, wbuf, resp, golden>>
    PROVE  DataInv'
<1> DEFINE t == Head(phy.reads)
           f == Restrict(Contents(img, t.line), t.cells)
           a == [id |-> t.id, data |-> f]
           left == Tail(phy.reads)
<1>1. phy \in Phys /\ phy.reads \in Seq(Accesses) /\ phy.writes \in Seq(Accesses)
      /\ phy.done \subseteq [id : Nat, data : Data] /\ ImageSound(img)
    BY DEF DataInv, DataTypes, Phys
<1>2. /\ t \in Accesses /\ t = phy.reads[1] /\ 1 \in DOMAIN phy.reads
      /\ left \in Seq(Accesses) /\ Range(left) \subseteq Range(phy.reads)
      /\ \A j \in DOMAIN left :
            /\ j + 1 \in DOMAIN phy.reads /\ left[j] = phy.reads[j + 1]
            /\ j \in Nat /\ j + 1 # 1
    BY <1>1, TailIs
<1>3. phy' = [phy EXCEPT !.reads = left, !.done = @ \union {a}] /\ img' = Touched(img, t.line)
    BY DEF AfterRead
<1>4. t.line \in Lines /\ t.cells \subseteq Cells /\ t.id \in Nat /\ t.type = "Read"
      /\ t \in Range(pend) /\ t.cmd # "Bypass" /\ conf.behavioral /\ t \in Unread
    BY <1>2, TypedAccess DEF DataInv, PendInv, Unread, Range
<1>5. Contents(img, t.line) \in [Cells -> Nat]
    BY <1>1, <1>4, NothingLoaded DEF ImageSound
<1>6. f \in [t.cells -> Nat] /\ \A c \in t.cells : f[c] = Contents(img, t.line)[c]
    BY <1>4, <1>5 DEF Restrict
<1>7. f = t.expect
    <2>1. ReadOk(t)
        BY <1>4 DEF DataInv, ReadInv
    <2>2. ASSUME NEW c \in t.cells  PROVE  f[c] = t.expect[c]
        <3>1. Lands(phy.writes, img, t.line, c, t.expect[c])
            BY <2>1 DEF ReadOk, Sees
        <3>2. \A j \in DOMAIN phy.writes : ~Carries(phy.writes[j], t.line, c)
            BY <1>2 DEF DataInv, ReadInv, Apart, Carries
        <3>3. Contents(img, t.line)[c] = t.expect[c]
            BY <3>1, <3>2 DEF Lands
        <3> QED BY <1>6, <3>3
    <2>3. t.expect \in Data
        BY <1>2, TypedAccess
    <2>4. t.expect = [c \in DOMAIN t.expect |-> t.expect[c]]
        BY <2>3 DEF Data
    <2>5. DOMAIN t.expect = t.cells
        BY <2>1 DEF ReadOk
    <2> QED BY <1>6, <2>2, <2>4, <2>5
<1>8. a \in [id : Nat, data : Data] /\ a.id = t.id /\ a.data = f
    BY <1>4, <1>6, DataIs
<1> HIDE DEF a, f, t, left
<1>9. /\ phy' \in Phys /\ phy'.behavioral = phy.behavioral /\ phy'.reads = left
      /\ phy'.writes = phy.writes /\ phy'.done = phy.done \union {a}
    BY <1>1, <1>2, <1>3, <1>8, ZenonT(60) DEF Phys
<1>10. ImageSound(img') /\ \A l \in Lines : Contents(img', l) = Contents(img, l)
    BY <1>1, <1>3, <1>4, TouchedKeeps
<1>11. DataTypes' /\ BufferInv'
    BY <1>9, <1>10 DEF DataInv, DataTypes, BufferInv, Shaped, SameAddress
<1>12. Positions(queue') = Positions(queue) /\ \A p \in Positions(queue) : At(queue', p) = At(queue, p)
    OBVIOUS
<1>13. QueueInv'
    BY DEF DataInv, QueueInv, SameAddress
<1>14. PendInv'
    <2>1. \A i, j \in DOMAIN phy'.reads : phy'.reads[i].id = phy'.reads[j].id => i = j
        <3> SUFFICES ASSUME NEW i \in DOMAIN phy'.reads, NEW j \in DOMAIN phy'.reads,
                            phy'.reads[i].id = phy'.reads[j].id
                     PROVE  i = j
            OBVIOUS
        <3>1. i + 1 = j + 1 /\ i \in Nat /\ j \in Nat
            BY <1>2, <1>9 DEF DataInv, PendInv
        <3> QED BY <3>1
    <2>2. \A j \in DOMAIN phy'.reads :
            /\ phy'.reads[j] \in Range(pend)
            /\ phy'.reads[j].type = "Read" /\ phy'.reads[j].cmd # "Bypass"
            /\ phy'.reads[j].id # t.id
            /\ \E m \in DOMAIN phy.reads : phy'.reads[j] = phy.reads[m]
        BY <1>2, <1>9 DEF DataInv, PendInv
    <2>3. \A j \in DOMAIN phy.writes : phy.writes[j].id # t.id
        <3> SUFFICES ASSUME NEW j \in DOMAIN phy.writes, phy.writes[j].id = t.id PROVE FALSE
            OBVIOUS
        <3>1. phy.writes[j] \in Range(pend) /\ phy.writes[j].type = "Write"
            BY DEF DataInv, PendInv
        <3>2. phy.writes[j] = t
            BY <1>4, <3>1 DEF DataInv, PendInv, Range
        <3> QED BY <1>4, <3>1, <3>2
    <2>4. \A d \in phy'.done :
            /\ \E u \in Range(pend) : u.id = d.id /\ u.cmd # "Bypass"
            /\ \A j \in DOMAIN phy'.reads : phy'.reads[j].id # d.id
            /\ \A j \in DOMAIN phy'.writes : phy'.writes[j].id # d.id
        <3> SUFFICES ASSUME NEW d \in phy'.done
                     PROVE  /\ \E u \in Range(pend) : u.id = d.id /\ u.cmd # "Bypass"
                            /\ \A j \in DOMAIN phy'.reads : phy'.reads[j].id # d.id
                            /\ \A j \in DOMAIN phy'.writes : phy'.writes[j].id # d.id
            OBVIOUS
        <3>1. CASE d = a
            BY <1>4, <1>8, <1>9, <2>2, <2>3, <3>1
        <3>2. CASE d \in phy.done
            BY <1>9, <2>2, <3>2 DEF DataInv, PendInv
        <3> QED BY <1>9, <3>1, <3>2
    <2> QED BY <1>4, <1>9, <2>1, <2>2, <2>4, SMTT(30) DEF DataInv, PendInv
<1>15. NewestInv'
    BY <1>9, <1>10, LandsSame DEF DataInv, NewestInv, NewestAt
<1>16. ReadInv'
    <2>1. Unread' \subseteq Unread
        BY <1>2, <1>9 DEF Unread
    <2>2. ASSUME NEW y \in Unread  PROVE  ReadOk(y)'
        <3>1. ReadOk(y) /\ y.line \in Lines
            BY UnreadTyped, TypedAccess DEF DataInv, ReadInv
        <3>2. Sees(y)'
            BY <1>9, <1>10, <3>1, LandsSame DEF ReadOk, Sees
        <3> QED BY <3>1, <3>2 DEF ReadOk, Passes
    <2>3. Apart'
        BY <1>2, <1>9 DEF DataInv, ReadInv, Apart
    <2> QED BY <2>1, <2>2, <2>3 DEF ReadInv
<1>17. AnswerInv'
    <2>1. ASSUME NEW d \in phy'.done, NEW u \in Range(pend), u.id = d.id, u.type = "Read"
          PROVE  d.data = u.expect
        <3>1. CASE d = a
            <4>1. u = t
                BY <1>4, <1>8, <2>1, <3>1 DEF DataInv, PendInv, Range
            <4> QED BY <1>7, <1>8, <3>1, <4>1
        <3>2. CASE d \in phy.done
            BY <2>1, <3>2 DEF DataInv, AnswerInv
        <3> QED BY <1>9, <3>1, <3>2
    <2> QED BY <2>1 DEF DataInv, AnswerInv, MemoryReadsSeeAccepted
<1> QED BY <1>11, <1>13, <1>14, <1>15, <1>16, <1>17 DEF DataInv

\* A write leaves the PHY.
LEMMA DataPhyWrite ==
    ASSUME ControlType, DataInv, phy.writes # <<>>,
           LET s == AfterWrite([phy |-> phy, img |-> img]) IN phy' = s.phy /\ img' = s.img,
           UNCHANGED <<conf, seq, queue, pend, wbuf, resp, golden>>
    PROVE  DataInv'
<1> DEFINE t == Head(phy.writes)
           a == [id |-> t.id, data |-> t.data]
           left == Tail(phy.writes)
<1>1. phy \in Phys /\ phy.reads \in Seq(Accesses) /\ phy.writes \in Seq(Accesses)
      /\ phy.done \subseteq [id : Nat, data : Data] /\ ImageSound(img)
    BY DEF DataInv, DataTypes, Phys
<1>2. /\ t \in Accesses /\ t = phy.writes[1] /\ 1 \in DOMAIN phy.writes
      /\ left \in Seq(Accesses) /\ Range(left) \subseteq Range(phy.writes)
      /\ \A j \in DOMAIN left :
            /\ j + 1 \in DOMAIN phy.writes /\ left[j] = phy.writes[j + 1]
            /\ j \in Nat /\ j + 1 # 1
    BY <1>1, TailIs
<1>3. /\ phy' = [phy EXCEPT !.writes = left, !.done = @ \union {a}]
      /\ img' = Written(img, t.line, t.data)
    BY DEF AfterWrite
<1>4. t.line \in Lines /\ t.data \in Data /\ t.id \in Nat /\ t.type = "Write"
      /\ t \in Range(pend) /\ t.cmd # "Bypass" /\ conf.behavioral
    BY <1>2, TypedAccess DEF DataInv, PendInv
<1>5. a \in [id : Nat, data : Data] /\ a.id = t.id
    BY <1>4
<1>6. ImageSound(img')
    BY <1>1, <1>3, <1>4, WrittenIs
<1>7. \A v : \A l \in Lines, c \in Cells : Lands(phy.writes, img, l, c, v) => Lands(left, img', l, c, v)
    BY <1>1, <1>3, LandsArrived
<1> HIDE DEF a, t, left
<1>9. /\ phy' \in Phys /\ phy'.behavioral = phy.behavioral /\ phy'.writes = left
      /\ phy'.reads = phy.reads /\ phy'.done = phy.done \union {a}
    BY <1>1, <1>2, <1>3, <1>5, ZenonT(60) DEF Phys
<1>11. DataTypes' /\ BufferInv'
    BY <1>6, <1>9 DEF DataInv, DataTypes, BufferInv, Shaped, SameAddress
<1>13. QueueInv'
    BY DEF DataInv, QueueInv, SameAddress
<1>14. PendInv'
    <2>1. \A i, j \in DOMAIN phy'.writes : phy'.writes[i].id = phy'.writes[j].id => i = j
        <3> SUFFICES ASSUME NEW i \in DOMAIN phy'.writes, NEW j \in DOMAIN phy'.writes,
                            phy'.writes[i].id = phy'.writes[j].id
                     PROVE  i = j
            OBVIOUS
        <3>1. i + 1 = j + 1 /\ i \in Nat /\ j \in Nat
            BY <1>2, <1>9 DEF DataInv, PendInv
        <3> QED BY <3>1
    <2>2. \A j \in DOMAIN phy'.writes :
            /\ phy'.writes[j] \in Range(pend)
            /\ phy'.writes[j].type = "Write" /\ phy'.writes[j].cmd # "Bypass"
            /\ DOMAIN phy'.writes[j].data \subseteq phy'.writes[j].cells
            /\ phy'.writes[j].id # t.id
            /\ \E m \in DOMAIN phy.writes : phy'.writes[j] = phy.writes[m]
        BY <1>2, <1>9 DEF DataInv, PendInv
    <2>3. \A j \in DOMAIN phy.reads : phy.reads[j].id # t.id
        <3> SUFFICES ASSUME NEW j \in DOMAIN phy.reads, phy.reads[j].id = t.id PROVE FALSE
            OBVIOUS
        <3>1. phy.reads[j] \in Range(pend) /\ phy.reads[j].type = "Read"
            BY DEF DataInv, PendInv
        <3>2. phy.reads[j] = t
            BY <1>4, <3>1 DEF DataInv, PendInv, Range
        <3> QED BY <1>4, <3>1, <3>2
    <2>4. \A d \in phy'.done :
            /\ \E u \in Range(pend) : u.id = d.id /\ u.cmd # "Bypass"
            /\ \A j \in DOMAIN phy'.reads : phy'.reads[j].id # d.id
            /\ \A j \in DOMAIN phy'.writes : phy'.writes[j].id # d.id
        <3> SUFFICES ASSUME NEW d \in phy'.done
                     PROVE  /\ \E u \in Range(pend) : u.id = d.id /\ u.cmd # "Bypass"
                            /\ \A j \in DOMAIN phy'.reads : phy'.reads[j].id # d.id
                            /\ \A j \in DOMAIN phy'.writes : phy'.writes[j].id # d.id
            OBVIOUS
        <3>1. CASE d = a
            BY <1>4, <1>5, <1>9, <2>2, <2>3, <3>1
        <3>2. CASE d \in phy.done
            BY <1>9, <2>2, <3>2 DEF DataInv, PendInv
        <3> QED BY <1>9, <3>1, <3>2
    <2> QED BY <1>4, <1>9, <2>1, <2>2, <2>4, SMTT(30) DEF DataInv, PendInv
<1>15. NewestInv'
    <2> SUFFICES ASSUME NEW l \in Lines, NEW c \in Cells PROVE NewestAt(l, c)'
        BY DEF NewestInv
    <2>1. NewestAt(l, c)
        BY DEF DataInv, NewestInv
    <2> QED BY <1>7, <1>9, <2>1 DEF NewestAt, Carries
<1>16. ReadInv'
    <2>1. Unread' = Unread
        BY <1>9 DEF Unread
    <2>2. ASSUME NEW y \in Unread  PROVE  ReadOk(y)'
        <3>1. ReadOk(y) /\ y.line \in Lines /\ y.cells \subseteq Cells
            BY UnreadTyped, TypedAccess DEF DataInv, ReadInv
        <3>2. Sees(y)'
            BY <1>7, <1>9, <3>1 DEF ReadOk, Sees
        <3> QED BY <3>1, <3>2 DEF ReadOk, Passes
    <2>3. Apart'
        <3> SUFFICES ASSUME NEW m \in DOMAIN phy.reads, NEW n \in DOMAIN left,
                            phy.reads[m].line = left[n].line
                     PROVE  DOMAIN left[n].data \cap phy.reads[m].cells = {}
            BY <1>9 DEF Apart
        <3>1. n + 1 \in DOMAIN phy.writes /\ left[n] = phy.writes[n + 1]
            BY <1>2
        <3> QED BY <3>1 DEF DataInv, ReadInv, Apart
    <2> QED BY <2>1, <2>2, <2>3 DEF ReadInv
<1>17. AnswerInv'
    <2>1. ASSUME NEW d \in phy'.done, NEW u \in Range(pend), u.id = d.id, u.type = "Read"
          PROVE  d.data = u.expect
        <3>1. CASE d = a
            <4>1. u = t
                BY <1>4, <1>5, <2>1, <3>1 DEF DataInv, PendInv, Range
            <4> QED BY <1>4, <2>1, <4>1
        <3>2. CASE d \in phy.done
            BY <2>1, <3>2 DEF DataInv, AnswerInv
        <3> QED BY <1>9, <3>1, <3>2
    <2> QED BY <2>1 DEF DataInv, AnswerInv, MemoryReadsSeeAccepted
<1> QED BY <1>11, <1>13, <1>14, <1>15, <1>16, <1>17 DEF DataInv

LEMMA DataPhyMoves ==
    ASSUME ControlType, DataInv, PhyMoves
    PROVE  DataInv'
<1> DEFINE s0 == [phy |-> phy, img |-> img]
<1>1. UNCHANGED <<conf, seq, queue, pend, wbuf, resp, golden>>
    BY DEF PhyMoves
<1>2. PICK s \in PhySteps(phy, img) : phy' = s.phy /\ img' = s.img
    BY DEF PhyMoves
<1>3. \/ phy.reads # <<>> /\ s = AfterRead(s0)
      \/ phy.writes # <<>> /\ s = AfterWrite(s0)
    BY DEF PhySteps
<1>4. CASE phy.reads # <<>> /\ s = AfterRead(s0)
    BY <1>1, <1>2, <1>4, DataPhyRead
<1>5. CASE phy.writes # <<>> /\ s = AfterWrite(s0)
    BY <1>1, <1>2, <1>5, DataPhyWrite
<1> QED BY <1>3, <1>4, <1>5

\* What a completed request delivers.
Delivered(t) ==
    CASE t.cmd = "Bypass" \/ t.type = "Write" -> t.data
      [] ~(t.cmd = "Bypass") /\ t.type = "Read" /\ conf.behavioral ->
            (CHOOSE c \in Completions(phy, t.id) : TRUE).data
      [] OTHER -> Restrict(Contents(img, t.line), t.cells)

\* A read that was not answered from the buffer in front of a behavioral PHY gets
\* what was the newest when it arrived.
LEMMA DeliveredIs ==
    ASSUME ControlType, DataInv, NEW t \in Range(pend), t.type = "Read",
           t.cmd = "Bypass" \/ ~conf.behavioral \/ Completions(phy, t.id) # {},
           ~(t.cmd = "Bypass" /\ conf.behavioral)
    PROVE  Delivered(t) = t.expect
<1>1. t \in Accesses
    BY RangeIs DEF DataInv, DataTypes
<1>2. CASE t.cmd = "Bypass" /\ ~conf.behavioral
    <2>1. Delivered(t) = t.data
        BY <1>2 DEF Delivered
    <2> QED BY <1>2, <2>1 DEF DataInv, AnswerInv
<1>3. CASE t.cmd # "Bypass" /\ conf.behavioral
    <2> DEFINE c == CHOOSE d \in Completions(phy, t.id) : TRUE
    <2>1. Delivered(t) = c.data
        BY <1>3 DEF Delivered
    <2>2. c \in Completions(phy, t.id)
        BY <1>3
    <2>3. c \in phy.done /\ t.id = c.id
        BY <2>2 DEF Completions
    <2> HIDE DEF c
    <2> QED BY <2>1, <2>3 DEF DataInv, AnswerInv
<1>4. CASE t.cmd # "Bypass" /\ ~conf.behavioral
    <2> DEFINE f == Restrict(Contents(img, t.line), t.cells)
    <2>1. Delivered(t) = f
        BY <1>4 DEF Delivered
    <2>2. ReadOk(t) /\ phy.writes = <<>>
        BY <1>4 DEF Unread, DataInv, ReadInv, PendInv
    <2>3. t.line \in Lines /\ t.cells \subseteq Cells /\ t.expect \in Data
        BY <1>1, TypedAccess
    <2>4. Contents(img, t.line) \in [Cells -> Nat]
        BY <2>3, NothingLoaded DEF DataInv, DataTypes, ImageSound
    <2>5. f \in [t.cells -> Nat] /\ \A c \in t.cells : f[c] = Contents(img, t.line)[c]
        BY <2>3, <2>4 DEF Restrict
    <2>6. ASSUME NEW c \in t.cells  PROVE  f[c] = t.expect[c]
        <3>1. Lands(phy.writes, img, t.line, c, t.expect[c])
            BY <2>2 DEF ReadOk, Sees
        <3>2. Contents(img, t.line)[c] = t.expect[c]
            BY <2>2, <3>1 DEF Lands
        <3> QED BY <2>5, <3>2
    <2>7. t.expect = [c \in DOMAIN t.expect |-> t.expect[c]] /\ DOMAIN t.expect = t.cells
        BY <2>2, <2>3 DEF Data, ReadOk
    <2> HIDE DEF f
    <2>8. f = t.expect
        BY <2>5, <2>6, <2>7
    <2> QED BY <2>1, <2>8
<1> QED BY <1>2, <1>3, <1>4

\* A request whose time has come is answered and forgotten.
LEMMA DataComplete ==
    ASSUME ControlType, DataInv, CompletePending
    PROVE  DataInv'
<1>1. PICK i \in DOMAIN pend :
        LET t == pend[i]
            touched == IF t.cmd = "Bypass" \/ t.type = "Write" \/ conf.behavioral
                       THEN img ELSE Touched(img, t.line)
        IN  /\ t.cmd = "Bypass" \/ ~conf.behavioral \/ Completions(phy, t.id) # {}
            /\ pend' = RemoveAt(pend, i)
            /\ phy' = IF t.cmd = "Bypass" THEN phy ELSE Taken(phy, t.id)
            /\ img' = IF t.cmd \in {"RDA", "WRA"} THEN Precharged(touched, {BankOf[t.line]})
                                                  ELSE touched
            /\ resp' = Append(resp,
                         [id |-> t.id, forwarded |-> t.cmd = "Bypass" /\ t.type = "Read",
                          matches |-> t.type = "Read" => Delivered(t) = t.expect])
    BY DEF CompletePending, Delivered
<1>2. UNCHANGED <<conf, seq, queue, wbuf, golden>>
    BY DEF CompletePending
<1> DEFINE t == pend[i]
           touched == IF t.cmd = "Bypass" \/ t.type = "Write" \/ conf.behavioral
                      THEN img ELSE Touched(img, t.line)
           a == [id |-> t.id, forwarded |-> t.cmd = "Bypass" /\ t.type = "Read",
                 matches |-> t.type = "Read" => Delivered(t) = t.expect]
<1>3. /\ pend \in Seq(Accesses) /\ i \in 1 .. Len(pend) /\ t \in Range(pend) /\ t \in Accesses
      /\ phy \in Phys /\ ImageSound(img) /\ resp \in Seq(Answers)
    BY RangeIs, LenProperties, ElementOfSeq DEF DataInv, DataTypes, AnswerInv, Range
<1>4. t.line \in Lines /\ t.id \in Nat /\ t.type \in {"Read", "Write"}
    BY <1>3, TypedAccess
<1>5. /\ t.cmd = "Bypass" \/ ~conf.behavioral \/ Completions(phy, t.id) # {}
      /\ pend' = RemoveAt(pend, i)
      /\ phy' = IF t.cmd = "Bypass" THEN phy ELSE Taken(phy, t.id)
      /\ img' = IF t.cmd \in {"RDA", "WRA"} THEN Precharged(touched, {BankOf[t.line]})
                                            ELSE touched
      /\ resp' = Append(resp, a)
    BY <1>1
<1>6. a \in Answers /\ a.forwarded = (t.cmd = "Bypass" /\ t.type = "Read")
      /\ (a.matches <=> (t.type = "Read" => Delivered(t) = t.expect))
    BY <1>4 DEF Answers
<1> HIDE DEF a
<1>7. (a.forwarded /\ conf.behavioral) \/ a.matches
    BY <1>3, <1>4, <1>5, <1>6, DeliveredIs
<1>8. ImageSound(touched) /\ \A l \in Lines : Contents(touched, l) = Contents(img, l)
    BY <1>3, <1>4, TouchedKeeps
<1> HIDE DEF touched
<1>9. ImageSound(img') /\ \A l \in Lines : Contents(img', l) = Contents(img, l)
    BY <1>5, <1>8, PrechargedKeeps
<1>10. /\ phy' \in Phys /\ phy'.behavioral = phy.behavioral /\ phy'.reads = phy.reads
       /\ phy'.writes = phy.writes /\ phy'.done \subseteq phy.done
       /\ t.cmd = "Bypass" \/ \A d \in phy'.done : d.id # t.id
    BY <1>3, <1>5 DEF Taken, Completions, Phys
<1>11. /\ pend' \in Seq(Accesses) /\ Range(pend') \subseteq Range(pend)
       /\ \A u \in Range(pend) : u # t => u \in Range(pend')
       /\ Len(pend) \in Nat /\ DOMAIN pend' = 1 .. Len(pend) - 1
       /\ \A j \in 1 .. Len(pend) - 1 :
             pend'[j] = IF j < i THEN pend[j] ELSE pend[j + 1]
    <2>1. pend' \in Seq(Accesses) /\ Len(pend') = Len(pend) - 1 /\ Len(pend) \in Nat
          /\ \A j \in 1 .. Len(pend) - 1 :
                pend'[j] = IF j < i THEN pend[j] ELSE pend[j + 1]
        BY <1>3, <1>5, RemoveAtIs, LenProperties
    <2>2. /\ Range(pend') \subseteq Range(pend)
          /\ \A j \in 1 .. Len(pend) : j # i => pend[j] \in Range(pend')
        BY <1>3, <1>5, RemoveAtRange
    <2>3. \A u \in Range(pend) : u # t => u \in Range(pend')
        BY <1>3, <2>2, RangeIs
    <2> QED BY <2>1, <2>2, <2>3, LenProperties
<1>11a. \A j \in DOMAIN pend' : pend'[j] \in Range(pend)
    BY <1>11 DEF Range
<1>12. DataTypes' /\ BufferInv'
    BY <1>2, <1>9, <1>10, <1>11 DEF DataInv, DataTypes, BufferInv, Shaped, SameAddress
<1>13. QueueInv'
    <2>1. \A p \in Positions(queue) : \A u \in Range(pend) : u.id # At(queue, p).id
        BY DEF DataInv, QueueInv, Range
    <2> QED BY <1>2, <1>11a, <2>1 DEF DataInv, QueueInv, SameAddress
<1>14. PendInv'
    <2>1. \A j \in DOMAIN pend' : pend'[j].id <= seq
        BY <1>11a DEF DataInv, PendInv, Range
    <2>2. ASSUME NEW m \in DOMAIN pend', NEW n \in DOMAIN pend', pend'[m].id = pend'[n].id
          PROVE  m = n
        <3> DEFINE at(j) == IF j < i THEN j ELSE j + 1
        <3>1. /\ at(m) \in DOMAIN pend /\ at(n) \in DOMAIN pend
              /\ pend'[m] = pend[at(m)] /\ pend'[n] = pend[at(n)]
            BY <1>3, <1>11, LenProperties
        <3>2. at(m) = at(n)
            <4> HIDE DEF at
            <4> QED BY <2>2, <3>1 DEF DataInv, PendInv
        <3> QED BY <1>3, <1>11, <3>2
    <2>3. ASSUME NEW j \in DOMAIN phy.reads  PROVE  phy.reads[j] # t
        <3>1. phy.reads[j].cmd # "Bypass" /\ conf.behavioral
            BY DEF DataInv, PendInv
        <3>2. CASE t.cmd = "Bypass"
            BY <3>1, <3>2
        <3>3. CASE t.cmd # "Bypass"
            <4>1. PICK d \in phy.done : d.id = t.id
                BY <1>5, <3>1, <3>3 DEF Completions
            <4> QED BY <4>1 DEF DataInv, PendInv
        <3> QED BY <3>2, <3>3
    <2>4. ASSUME NEW j \in DOMAIN phy.writes  PROVE  phy.writes[j] # t
        <3>1. phy.writes[j].cmd # "Bypass" /\ conf.behavioral
            BY DEF DataInv, PendInv
        <3>2. CASE t.cmd = "Bypass"
            BY <3>1, <3>2
        <3>3. CASE t.cmd # "Bypass"
            <4>1. PICK d \in phy.done : d.id = t.id
                BY <1>5, <3>1, <3>3 DEF Completions
            <4> QED BY <4>1 DEF DataInv, PendInv
        <3> QED BY <3>2, <3>3
    <2>5. ASSUME NEW d \in phy'.done
          PROVE  \E u \in Range(pend') : u.id = d.id /\ u.cmd # "Bypass"
        <3>1. PICK u \in Range(pend) : u.id = d.id /\ u.cmd # "Bypass"
            BY <1>10 DEF DataInv, PendInv
        <3>2. u # t
            BY <1>10, <3>1
        <3> QED BY <1>11, <3>1, <3>2
    <2>6. /\ \A j \in DOMAIN phy.reads :
                /\ phy.reads[j] \in Range(pend')
                /\ phy.reads[j].type = "Read" /\ phy.reads[j].cmd # "Bypass"
          /\ \A j \in DOMAIN phy.writes :
                /\ phy.writes[j] \in Range(pend')
                /\ phy.writes[j].type = "Write" /\ phy.writes[j].cmd # "Bypass"
                /\ DOMAIN phy.writes[j].data \subseteq phy.writes[j].cells
        BY <1>11, <2>3, <2>4 DEF DataInv, PendInv
    <2> QED BY <1>2, <1>10, <2>1, <2>2, <2>5, <2>6 DEF DataInv, PendInv
<1>15. NewestInv'
    BY <1>2, <1>9, <1>10, LandsSame DEF DataInv, NewestInv, NewestAt
<1>16. ReadInv'
    <2>1. Unread' \subseteq Unread
        BY <1>2, <1>10, <1>11 DEF Unread
    <2>2. ASSUME NEW y \in Unread  PROVE  ReadOk(y)'
        <3>1. ReadOk(y) /\ y.line \in Lines
            BY UnreadTyped, TypedAccess DEF DataInv, ReadInv
        <3>2. Sees(y)'
            BY <1>9, <1>10, <3>1, LandsSame DEF ReadOk, Sees
        <3> QED BY <1>2, <3>1, <3>2 DEF ReadOk, Passes
    <2>3. Apart'
        BY <1>10 DEF DataInv, ReadInv, Apart
    <2> QED BY <2>1, <2>2, <2>3 DEF ReadInv
<1>17. AnswerInv'
    <2>1. resp' \in Seq(Answers)
        BY <1>3, <1>5, <1>6, AppendIs
    <2>2. MemoryReadsSeeAccepted'
        <3> SUFFICES ASSUME NEW j \in DOMAIN resp'
                     PROVE  (resp'[j].forwarded /\ conf.behavioral) \/ resp'[j].matches
            BY <1>2 DEF MemoryReadsSeeAccepted
        <3>1. resp'[j] = a \/ (j \in DOMAIN resp /\ resp'[j] = resp[j])
            BY <1>3, <1>5, <1>6, AppendIs
        <3> QED BY <1>7, <3>1 DEF DataInv, AnswerInv, MemoryReadsSeeAccepted
    <2> QED BY <1>2, <1>10, <1>11, <2>1, <2>2 DEF DataInv, AnswerInv
<1> QED BY <1>12, <1>13, <1>14, <1>15, <1>16, <1>17 DEF DataInv

\* Steps that leave the requests and the data alone.
LEMMA DataRest ==
    ASSUME ControlType, DataInv,
           \/ PhyReady \/ ScheduleRefresh \/ ApplyRowPolicy \/ NothingIssued
           \/ PopResponse \/ UNCHANGED vars
    PROVE  DataInv'
<1>1. UNCHANGED <<conf, seq, pend, wbuf, img, golden>>
    BY DEF PhyReady, ScheduleRefresh, ApplyRowPolicy, NothingIssued, PopResponse, vars
<1>2. SameOrdinary(queue', queue)
    <2>1. queue \in [Queues -> Seq(Accesses) \union Seq(Maints)]
        BY DEF ControlType
    <2>2. queue' = queue \/ \E s : queue' = [queue EXCEPT !.Priority = s]
        BY DEF PhyReady, ScheduleRefresh, ApplyRowPolicy, NothingIssued, PopResponse, vars
    <2> QED BY <2>1, <2>2 DEF Queues, Ordinaries, SameOrdinary
<1>3. /\ phy' \in Phys /\ phy'.behavioral = phy.behavioral /\ phy'.reads = phy.reads
      /\ phy'.writes = phy.writes /\ phy'.done = phy.done
    <2>1. phy \in Phys
        BY DEF DataInv, DataTypes
    <2>2. phy' = phy \/ phy' = [phy EXCEPT !.ready = TRUE]
        BY DEF PhyReady, ScheduleRefresh, ApplyRowPolicy, NothingIssued, PopResponse, vars
    <2> QED BY <2>1, <2>2 DEF Phys
<1>4. /\ resp' \in Seq(Answers)
      /\ \A i \in DOMAIN resp' : \E j \in DOMAIN resp : resp'[i] = resp[j]
    <2>1. resp \in Seq(Answers)
        BY DEF DataInv, AnswerInv
    <2>2. resp' = resp \/ (resp # <<>> /\ resp' = Tail(resp))
        BY DEF PhyReady, ScheduleRefresh, ApplyRowPolicy, NothingIssued, PopResponse, vars
    <2> QED BY <2>1, <2>2, TailIs
<1>5. ImageSound(img') /\ \A l \in Lines : Contents(img', l) = Contents(img, l)
    BY <1>1 DEF DataInv, DataTypes
<1>6. PICK F : Moves(F)
    BY <1>2, SameMoves
<1> QED BY <1>1, <1>3, <1>4, <1>5, <1>6, DataFrame

LEMMA InitData == Init => DataInv
<1> SUFFICES ASSUME Init PROVE DataInv
    OBVIOUS
<1>1. /\ pend = <<>> /\ wbuf = {} /\ resp = <<>> /\ seq = 0 /\ conf \in Confs
      /\ phy = Phy0(conf.behavioral) /\ img = Image0
      /\ golden = [l \in Lines |-> [c \in Cells |-> 0]]
      /\ queue = [k \in Queues |-> <<>>]
    BY DEF Init, Queues
<1>2. Positions(queue) = {}
    <2>1. \A k \in Ordinaries : queue[k] = <<>>
        BY <1>1 DEF Queues, Ordinaries
    <2> QED BY <2>1 DEF Positions
<1>3. /\ phy \in Phys /\ phy.behavioral = conf.behavioral
      /\ phy.reads = <<>> /\ phy.writes = <<>> /\ phy.done = {}
    <2>1. conf.behavioral \in BOOLEAN /\ <<>> \in Seq(Accesses)
        BY <1>1, ConfIs
    <2> QED BY <1>1, <2>1 DEF Phy0, Phys
<1>4. \A l \in Lines : img.column[l] = NotLoaded /\ img.backing[l] = golden[l]
    BY <1>1 DEF Image0
<1>5. img \in Images
    <2> DEFINE z == [c \in Cells |-> 0]
    <2>1. z \in [Cells -> Nat]
        OBVIOUS
    <2> HIDE DEF z
    <2>2. img = [backing |-> [l \in Lines |-> z], open |-> [b \in Banks |-> NoRow],
                 dirty |-> [b \in Banks |-> FALSE], column |-> [l \in Lines |-> NotLoaded]]
        BY <1>1 DEF Image0, z
    <2> QED BY <2>1, <2>2 DEF Images, NoRow
<1>6. DataTypes
    BY <1>1, <1>3, <1>4, <1>5 DEF DataTypes, ImageSound, Loaded
<1>7. BufferInv /\ QueueInv /\ PendInv
    BY <1>1, <1>2, <1>3 DEF BufferInv, QueueInv, PendInv
<1>8. NewestInv
    BY <1>1, <1>3, <1>4 DEF NewestInv, NewestAt, Lands, Contents, Loaded
<1>9. Unread = {} /\ Apart
    BY <1>1, <1>2, <1>3 DEF Unread, Apart, Range
<1>10. AnswerInv
    BY <1>1, <1>3 DEF AnswerInv, MemoryReadsSeeAccepted, Range
<1> QED BY <1>6, <1>7, <1>8, <1>9, <1>10 DEF DataInv, ReadInv

LEMMA StepData == AlignedShapes /\ ControlType /\ DataInv /\ [Next]_vars => DataInv'
BY StepIs, DataEnqueue, DataIssue, DataPhyMoves, DataComplete, DataRest

LEMMA NewestIsStored == ControlType /\ DataInv => LastWriteWins
<1> SUFFICES ASSUME ControlType, DataInv, NEW l \in Lines,
                    \A e \in wbuf : e.line # l, \A t \in Range(phy.writes) : t.line # l
             PROVE  Contents(img, l) = golden[l]
    BY DEF LastWriteWins
<1>1. Contents(img, l) \in [Cells -> Nat] /\ golden[l] \in [Cells -> Nat]
    BY NothingLoaded DEF ControlType, DataInv, DataTypes, ImageSound
<1>2. ASSUME NEW c \in Cells  PROVE  Contents(img, l)[c] = golden[l][c]
    <2>1. NewestAt(l, c)
        BY DEF DataInv, NewestInv
    <2>2. \A j \in DOMAIN phy.writes : phy.writes[j].line # l
        BY DEF Range
    <2> QED BY <2>1, <2>2 DEF NewestAt, Lands, Carries
<1> QED BY <1>1, <1>2

LEMMA DataIsKept == AlignedShapes => (Spec => [](ControlType /\ DataInv))
<1> SUFFICES ASSUME AlignedShapes PROVE Spec => [](ControlType /\ DataInv)
    OBVIOUS
<1>1. Init => ControlType /\ DataInv
    BY InitTypes, InitData
<1>2. ControlType /\ DataInv /\ [Next]_vars => (ControlType /\ DataInv)'
    BY StepTypes, StepData
<1> QED BY <1>1, <1>2, PTL DEF Spec

\* A write that leaves the buffer for the PHY and the PHY for the row buffer is not
\* overtaken by an older one, and no write is lost when writes coalesce, are issued
\* out of order, wait in the PHY's FIFO or go past a closed row (enqueue and
\* issue in controller.cpp, complete_slot in mem_phy.cpp): when nothing is on the way
\* to a line, it holds the newest write of every cell.
THEOREM LastWritesWin == AlignedShapes => (Spec => []LastWriteWins)
<1> SUFFICES ASSUME AlignedShapes PROVE Spec => []LastWriteWins
    OBVIOUS
<1>1. ControlType /\ DataInv => LastWriteWins
    BY NewestIsStored
<1>2. Spec => [](ControlType /\ DataInv)
    BY DataIsKept
<1> QED BY <1>1, <1>2, PTL

\* Whatever the scheduler's order, a read that goes to the memory returns the
\* writes accepted before it and none accepted after it: a write waits for older
\* reads of its bytes, and a read in front of a behavioral PHY for the writes that are
\* on their way (has_unresolved_overlapping_read and _write, controller.cpp).
THEOREM ReadsAreRight == AlignedShapes => (Spec => []MemoryReadsSeeAccepted)
<1> SUFFICES ASSUME AlignedShapes PROVE Spec => []MemoryReadsSeeAccepted
    OBVIOUS
<1>1. ControlType /\ DataInv => MemoryReadsSeeAccepted
    BY DEF DataInv, AnswerInv
<1>2. Spec => [](ControlType /\ DataInv)
    BY DataIsKept
<1> QED BY <1>1, <1>2, PTL

=============================================================================
