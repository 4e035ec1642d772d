-------------------------- MODULE MemSystemProofs --------------------------
(***************************************************************************)
(* What is proved of the memory system, for all stacks, depths, programs and       *)
(* orders of service: every address has a place of its own; nothing throws;       *)
(* every answer is for one request and every request keeps its tag; and the        *)
(* system is a line memory (LineMemory), with what its hosts may rely on.          *)
(***************************************************************************)
EXTENDS MemSystem, TLAPS, FiniteSetTheorems, SequenceTheorems, WellFoundedInduction

\* Division with a remainder.
LEMMA Division ==
    ASSUME NEW a \in Nat, NEW n \in Nat \ {0}
    PROVE  /\ a \div n \in Nat /\ a % n \in 0 .. (n - 1)
           /\ a = (a \div n) * n + (a % n)
OBVIOUS

\* Quotient and remainder are determined by the number they make.
LEMMA DivisionUnique ==
    ASSUME NEW q \in Nat, NEW r \in Nat, NEW n \in Nat \ {0}, r < n
    PROVE  (q * n + r) \div n = q /\ (q * n + r) % n = r
OBVIOUS

\* No divisor of the map is zero.
LEMMA Parameters ==
    StackCount \in Nat \ {0} /\ Stripe \in Nat \ {0} /\ Capacity \in Nat \ {0}
BY StackAssumption

-----------------------------------------------------------------------------
\* Encoding the place of an address gives the address back: what localize_request
\* notes as system_address is what was asked (system.cpp:418).
THEOREM EncodeDecode ==
    ASSUME NEW kind \in Kinds, NEW a \in Nat
    PROVE  Encode(kind, Decode(kind, a).stack, Decode(kind, a).local) = a
<1>1. CASE StackCount = 1
    BY <1>1 DEF Encode, Decode
<1>2. CASE StackCount # 1 /\ kind = "blocked"
    <2>1. a = (a \div Capacity) * Capacity + (a % Capacity)
        BY Parameters, Division
    <2> QED BY <1>2, <2>1 DEF Encode, Decode
<1>3. CASE StackCount # 1 /\ kind # "blocked"
    <2> DEFINE stripe == a \div Stripe
               off == a % Stripe
               stack == stripe % StackCount
               row == stripe \div StackCount
               local == row * Stripe + off
    <2>1. stripe \in Nat /\ off \in 0 .. (Stripe - 1) /\ a = stripe * Stripe + off
        BY Parameters, Division
    <2>2. row \in Nat /\ stack \in 0 .. (StackCount - 1) /\ stripe = row * StackCount + stack
        <3> HIDE DEF stripe
        <3> QED BY <2>1, Parameters, Division
    <2>3. local \div Stripe = row /\ local % Stripe = off
        <3> HIDE DEF row, off
        <3>1. row \in Nat /\ off \in Nat /\ off < Stripe
            BY <2>1, <2>2, Parameters
        <3> QED BY <3>1, Parameters, DivisionUnique
    <2>4. Decode(kind, a) = [stack |-> stack, local |-> local]
        BY <1>3 DEF Decode
    <2>5. Encode(kind, stack, local) =
            ((local \div Stripe) * StackCount + stack) * Stripe + (local % Stripe)
        BY <1>3 DEF Encode
    <2>6. Encode(kind, stack, local) = (row * StackCount + stack) * Stripe + off
        <3> HIDE DEF local, row, off, stack
        <3> QED BY <2>3, <2>5
    <2>7. Encode(kind, stack, local) = a
        <3> HIDE DEF local, row, off, stack, stripe
        <3> QED BY <2>1, <2>2, <2>6
    <2> QED BY <2>4, <2>7
<1> QED BY <1>1, <1>2, <1>3

\* Decoding what was encoded gives the place back: a request that names its stack
\* and one that names the system address of the same line meet in the same queue
\* (system.cpp:413-419).
THEOREM DecodeEncode ==
    ASSUME NEW kind \in Kinds, NEW stack \in 0 .. (StackCount - 1),
           NEW local \in 0 .. (Capacity - 1)
    PROVE  Decode(kind, Encode(kind, stack, local)) = [stack |-> stack, local |-> local]
<1>0. stack \in Nat /\ stack < StackCount /\ local \in Nat /\ local < Capacity
    BY Parameters
<1>1. CASE StackCount = 1
    <2>1. stack = 0
        BY <1>0, <1>1
    <2> QED BY <1>1, <2>1 DEF Encode, Decode
<1>2. CASE StackCount # 1 /\ kind = "blocked"
    <2>1. /\ (stack * Capacity + local) \div Capacity = stack
          /\ (stack * Capacity + local) % Capacity = local
        BY <1>0, Parameters, DivisionUnique
    <2> QED BY <1>2, <2>1 DEF Encode, Decode
<1>3. CASE StackCount # 1 /\ kind # "blocked"
    <2> DEFINE row == local \div Stripe
               off == local % Stripe
               stripe == row * StackCount + stack
               a == stripe * Stripe + off
    <2>1. row \in Nat /\ off \in Nat /\ off < Stripe /\ local = row * Stripe + off
        BY <1>0, Parameters, Division
    <2>2. stripe \in Nat /\ stripe % StackCount = stack /\ stripe \div StackCount = row
        <3> HIDE DEF row
        <3>1. row * StackCount \in Nat
            BY <2>1, Parameters
        <3>2. stripe \in Nat
            BY <1>0, <3>1
        <3>3. row \in Nat /\ stack \in Nat /\ stack < StackCount /\ StackCount \in Nat \ {0}
            BY <1>0, <2>1, Parameters
        <3>4. /\ (row * StackCount + stack) \div StackCount = row
              /\ (row * StackCount + stack) % StackCount = stack
            <4> HIDE DEF off, stripe, a
            <4> QED BY <3>3, DivisionUnique
        <3> QED BY <3>2, <3>4
    <2>3. a \div Stripe = stripe /\ a % Stripe = off
        <3> HIDE DEF stripe, off
        <3> QED BY <2>1, <2>2, Parameters, DivisionUnique
    <2>4. Encode(kind, stack, local) = a
        BY <1>3 DEF Encode
    <2>5. Decode(kind, a) = [stack |-> (a \div Stripe) % StackCount,
            local |-> ((a \div Stripe) \div StackCount) * Stripe + (a % Stripe)]
        <3> HIDE DEF a
        <3> QED BY <1>3 DEF Decode
    <2>6. Decode(kind, a) = [stack |-> stack, local |-> row * Stripe + off]
        <3> HIDE DEF a, stripe, row, off
        <3> QED BY <2>2, <2>3, <2>5
    <2> QED
        <3> HIDE DEF a, row, off
        <3> QED BY <2>1, <2>4, <2>6
<1> QED BY <1>1, <1>2, <1>3

\* Two addresses never share a place, so that neither requests nor data of theirs
\* are ever taken for one another's.
THEOREM DecodeIsInjective ==
    ASSUME NEW kind \in Kinds, NEW a \in Nat, NEW b \in Nat,
           Decode(kind, a) = Decode(kind, b)
    PROVE  a = b
BY EncodeDecode
-----------------------------------------------------------------------------
(* The memory that MemSystem implements (ImplementsMemory).                     *)

\* What LineMemory calls taken, and the accesses it is about.
Lines == [i \in DOMAIN taken |-> Access(conf, taken[i])]
AllAccesses == UNION {{Access(c, x) : x \in ProgramOf(c)} : c \in Configurations}

MemoryInv ==
    /\ Lines \in Seq(AllAccesses)
    /\ Memory!AnsweredAfterEffect
    /\ Memory!EffectsInOrder

\* A new access stays behind those that were taken.
LEMMA TakeInv ==
    ASSUME MemoryInv, NEW a \in AllAccesses, Memory!Take(a)
    PROVE  MemoryInv'
<1>1. /\ Lines \in Seq(AllAccesses) /\ Lines' = Append(Lines, a)
      /\ served' = served /\ AnsweredPositions' = AnsweredPositions
    BY DEF MemoryInv, Memory!Take, Lines
<1> HIDE DEF Lines
<1>2. /\ Lines' \in Seq(AllAccesses) /\ DOMAIN Lines = 1 .. Len(Lines) /\ Len(Lines) \in Nat
      /\ DOMAIN Lines' = 1 .. (Len(Lines) + 1)
      /\ \A i \in DOMAIN Lines : Lines'[i] = Lines[i]
    BY <1>1
<1>3. AnsweredPositions \subseteq served /\ served \subseteq DOMAIN Lines
    BY DEF MemoryInv, Memory!AnsweredAfterEffect, Lines
<1>4. \A i \in served, j \in DOMAIN Lines :
        j < i /\ Lines[j].class = Lines[i].class => j \in served
    BY DEF MemoryInv, Memory!EffectsInOrder, Lines
<1>5. Memory!AnsweredAfterEffect'
    <2>1. AnsweredPositions' \subseteq served' /\ served' \subseteq DOMAIN Lines'
        BY <1>1, <1>2, <1>3
    <2> QED BY <2>1 DEF Memory!AnsweredAfterEffect, Lines
<1>6. Memory!EffectsInOrder'
    <2>1. \A i \in served', j \in DOMAIN Lines' :
            j < i /\ Lines'[j].class = Lines'[i].class => j \in served'
        BY <1>1, <1>2, <1>3, <1>4
    <2> QED BY <2>1 DEF Memory!EffectsInOrder, Lines
<1> QED BY <1>2, <1>5, <1>6 DEF MemoryInv

\* What has its effect now comes after those before it in its class.
LEMMA EffectInv ==
    ASSUME MemoryInv, NEW S \in SUBSET (DOMAIN Lines \ served), Memory!Effect(S)
    PROVE  MemoryInv'
<1>1. /\ Lines' = Lines /\ served' = served \union S /\ AnsweredPositions' = AnsweredPositions
      /\ \A i \in S, j \in DOMAIN Lines :
            j < i /\ Lines[j].class = Lines[i].class => j \in served \union S
    BY DEF Memory!Effect, Lines
<1> HIDE DEF Lines
<1>2. /\ AnsweredPositions \subseteq served /\ served \subseteq DOMAIN Lines
      /\ \A i \in served, j \in DOMAIN Lines :
            j < i /\ Lines[j].class = Lines[i].class => j \in served
    BY DEF MemoryInv, Memory!AnsweredAfterEffect, Memory!EffectsInOrder, Lines
<1>3. Memory!AnsweredAfterEffect'
    <2>1. AnsweredPositions' \subseteq served' /\ served' \subseteq DOMAIN Lines'
        BY <1>1, <1>2
    <2> QED BY <2>1 DEF Memory!AnsweredAfterEffect, Lines
<1>4. Memory!EffectsInOrder'
    <2>1. \A i \in served', j \in DOMAIN Lines' :
            j < i /\ Lines'[j].class = Lines'[i].class => j \in served'
        BY <1>1, <1>2
    <2> QED BY <2>1 DEF Memory!EffectsInOrder, Lines
<1>5. Lines' \in Seq(AllAccesses)
    BY <1>1 DEF MemoryInv
<1> QED BY <1>3, <1>4, <1>5 DEF MemoryInv

\* What is answered had its effect.
LEMMA AnswerInv ==
    ASSUME MemoryInv, NEW S \in SUBSET (served \ AnsweredPositions), Memory!Answer(S)
    PROVE  MemoryInv'
<1>1. /\ Lines' = Lines /\ served' = served
      /\ AnsweredPositions' = AnsweredPositions \union S
    BY DEF Memory!Answer, Lines
<1>2. Memory!AnsweredAfterEffect'
    BY <1>1 DEF MemoryInv, Memory!AnsweredAfterEffect, Lines
<1>3. Memory!EffectsInOrder'
    BY <1>1 DEF MemoryInv, Memory!EffectsInOrder, Lines
<1> QED BY <1>1, <1>2, <1>3 DEF MemoryInv

\* A line memory keeps its invariant.
LEMMA MemoryStep == MemoryInv /\ [Memory!Next]_(Memory!vars) => MemoryInv'
<1> SUFFICES ASSUME MemoryInv, [Memory!Next]_(Memory!vars) PROVE MemoryInv'
    OBVIOUS
<1>1. CASE \E a \in AllAccesses : Memory!Take(a)
    BY <1>1, TakeInv
<1>2. CASE \E S \in SUBSET (DOMAIN Lines \ served) : S # {} /\ Memory!Effect(S)
    BY <1>2, EffectInv
<1>3. CASE \E S \in SUBSET (served \ AnsweredPositions) : S # {} /\ Memory!Answer(S)
    BY <1>3, AnswerInv
<1>4. CASE UNCHANGED Memory!vars
    <2>1. /\ Lines' = Lines /\ served' = served /\ AnsweredPositions' = AnsweredPositions
        BY <1>4 DEF Memory!vars, Lines
    <2> QED BY <2>1 DEF MemoryInv, Memory!AnsweredAfterEffect, Memory!EffectsInOrder, Lines
<1> QED BY <1>1, <1>2, <1>3, <1>4 DEF Memory!Next, Lines, AllAccesses

\* Accesses of a class have their effects in the order they were taken, each before
\* its answer: with ImplementsMemory, an answered write to a line is seen by every
\* later access to it (try_submit to pop_response, system.cpp).
THEOREM MemoryKeepsOrder ==
    ImplementsMemory => [](Memory!EffectsInOrder /\ Memory!AnsweredAfterEffect)
<1>1. Memory!Init => MemoryInv
    BY DEF Memory!Init, MemoryInv, Memory!AnsweredAfterEffect, Memory!EffectsInOrder, Lines
<1>2. MemoryInv => Memory!EffectsInOrder /\ Memory!AnsweredAfterEffect
    BY DEF MemoryInv
<1> QED BY <1>1, <1>2, MemoryStep, PTL DEF ImplementsMemory, Memory!Spec
-----------------------------------------------------------------------------
(* The system's inductive invariant                                          *)

\* Where a transaction is.  Each has one stack and one controller.
Ing(s) == {x \in Program : x \in Range(s.ingress[Home(x).stack])}
Que(s) == {x \in Program : x \in Range(s.ctrl[ControllerOf(x)].queue)}
Ans(s) == {x \in Program : x \in Range(s.ctrl[ControllerOf(x)].answers)}

ClassOf(x) == OrderClass(conf, Transaction(x))

\* What was taken, T, is the start of the program, in its order.
InProgramOrder(q) ==
    /\ q \in Seq(Program)
    /\ \A i, j \in DOMAIN q : i < j => Before(q[i], q[j])
    /\ \A i \in DOMAIN q, x \in Program : Before(x, q[i]) => x \in Range(q)

\* The parts of a host request, those of them in C, and the answer for the whole.
Hosts == DOMAIN conf.program
Indices(g) == DOMAIN Request(g).txns
Part(g, k) == [host |-> g, index |-> k]
Of(C, g) == {k \in Indices(g) : Part(g, k) \in C}
AnswerOf(g) == [k \in Indices(g) |-> Part(g, k)]

\* The kinds of value a memory system and its host have.
Note == [count : Nat, write : BOOLEAN, accepted : SUBSET Nat, completed : Nat]
Notes == UNION {[D -> Note] : D \in SUBSET Nat}
Partials == UNION {[K -> Program] : K \in SUBSET Nat}
Collections == UNION {[D -> Partials] : D \in SUBSET Nat}
Answers == {AnswerOf(g) : g \in Hosts}

Systems ==
    [ingress : [StackIds -> Seq(Program)],
     ctrl : [Controllers -> [queue : Seq(Program), answers : Seq(Program)]],
     submissions : Notes, assemblies : Collections,
     hostq : Seq(Answers), txnq : Seq(Program), failed : BOOLEAN]
Givens == [hosts : Seq(Answers), txns : Seq(Program)]

\* Every queue holds what belongs in it, an ingress in the order it was taken.
Queues(s) ==
    /\ \A k \in StackIds :
          /\ \A x \in Range(s.ingress[k]) : Home(x).stack = k
          /\ \A i, j \in DOMAIN s.ingress[k] :
                i < j => Before(s.ingress[k][i], s.ingress[k][j])
    /\ \A c \in Controllers :
          /\ IsInjective(s.ctrl[c].queue) /\ IsInjective(s.ctrl[c].answers)
          /\ \A x \in Range(s.ctrl[c].queue) \cup Range(s.ctrl[c].answers) : ControllerOf(x) = c

\* A transaction is in one place, and those of one class pass in their order.
Flow(s, T) ==
    /\ Queues(s)
    /\ Ing(s) \cap Que(s) = {} /\ Ing(s) \cap Ans(s) = {} /\ Que(s) \cap Ans(s) = {}
    /\ Ing(s) \cup Que(s) \cup Ans(s) \subseteq T
    /\ \A x, y \in T : Before(x, y) /\ ClassOf(x) = ClassOf(y) =>
          /\ x \in Ing(s) => y \in Ing(s)
          /\ x \in Que(s) => y \in Ing(s) \cup Que(s)
    /\ \A c \in Controllers : \A i, j \in DOMAIN s.ctrl[c].queue :
          LET x == s.ctrl[c].queue[i]
              y == s.ctrl[c].queue[j]
          IN  Before(x, y) /\ ClassOf(x) = ClassOf(y) => i < j

\* Those whose answers were collected.
Gone(s, T) == T \ (Ing(s) \cup Que(s) \cup Ans(s))

\* A request holds its tag until its answer is popped or, without one, until its last
\* transaction is collected.
Live(T, C, G) ==
    {g \in Hosts : /\ Of(T, g) # {}
                   /\ IF RetainsHost THEN AnswerOf(g) \notin Range(G.hosts) ELSE Of(C, g) # Indices(g)}

\* Some, but not all, of a request was collected.
Begun(C) == {g \in Hosts : Of(C, g) # {} /\ Of(C, g) # Indices(g)}

TagOf(g) == Request(g).tag
TagsOf(S) == {TagOf(g) : g \in S}

TagsDiffer(S) == \A g, h \in S : TagOf(g) = TagOf(h) => g = h

Tags(s, T, C, G) ==
    /\ TagsDiffer(Live(T, C, G))
    /\ DOMAIN s.submissions = TagsOf(Live(T, C, G))
    /\ \A g \in Live(T, C, G) :
          s.submissions[TagOf(g)] = [count |-> Len(Request(g).txns), write |-> Request(g).write,
                                     accepted |-> Of(T, g), completed |-> Cardinality(Of(C, g))]

Parts(s, C) ==
    /\ DOMAIN s.assemblies = IF RetainsHost THEN TagsOf(Begun(C)) ELSE {}
    /\ RetainsHost => \A g \in Begun(C) :
          s.assemblies[TagOf(g)] = [k \in Of(C, g) |-> Part(g, k)]

\* What was, or can be, popped: the answers for requests that are complete, once each.
HostView(q, C) ==
    /\ IsInjective(q)
    /\ \A g \in Hosts : AnswerOf(g) \in Range(q) <=> RetainsHost /\ Of(C, g) = Indices(g)

TxnView(q, C) ==
    /\ IsInjective(q)
    /\ Range(q) = IF RetainsTransactions THEN C ELSE {}

Views(s, C, G) == HostView(G.hosts \o s.hostq, C) /\ TxnView(G.txns \o s.txnq, C)

Books(s, T, C, G) ==
    s.failed = FALSE /\ Tags(s, T, C, G) /\ Parts(s, C) /\ Views(s, C, G)

SystemInv ==
    /\ conf \in Configurations
    /\ InProgramOrder(taken)
    /\ sys \in Systems /\ given \in Givens
    /\ Flow(sys, Range(taken))
    /\ served = {Position(x) : x \in Range(taken) \ (Ing(sys) \cup Que(sys))}
    /\ Books(sys, Range(taken), Gone(sys, Range(taken)), given)
-----------------------------------------------------------------------------
(* Numbers, loops and sequences                                              *)

\* A set of numbers has a least one.
LEMMA LeastNumber ==
    ASSUME NEW T \in SUBSET Nat, T # {}
    PROVE  \E x \in T : \A y \in T : x <= y
<1> DEFINE Less == OpToRel(<, Nat)
<1>1. IsWellFoundedOn(Less, Nat)
    BY NatLessThanWellFounded
<1>2. \A x, y \in Nat : y < x => <<y, x>> \in Less
    <2>1. Less = {p \in Nat \X Nat : p[1] < p[2]}
        BY DEF OpToRel
    <2> QED BY <2>1
<1> HIDE DEF Less
<1>3. PICK x \in T : \A y \in T : <<y, x>> \notin Less
    BY <1>1, WFMin, Zenon
<1>4. \A y \in T : ~(y < x)
    BY <1>2, <1>3
<1> QED BY <1>4

\* What holds at first and after every turn holds after any number of them.
LEMMA EveryTurn ==
    ASSUME NEW M \in Nat, NEW G, 0 \in G, \A n \in 1 .. M : n - 1 \in G => n \in G
    PROVE  \A n \in 0 .. M : n \in G
<1> DEFINE bad == {n \in 0 .. M : n \notin G}
<1>1. SUFFICES ASSUME bad # {} PROVE FALSE
    OBVIOUS
<1>2. PICK n \in bad : \A m \in bad : n <= m
    <2>1. bad \in SUBSET Nat
        OBVIOUS
    <2> HIDE DEF bad
    <2> QED BY <1>1, <2>1, LeastNumber
<1>3. n \in 1 .. M /\ n - 1 \in 0 .. M /\ n - 1 \notin bad
    BY <1>2
<1> QED BY <1>2, <1>3

\* The turns h of a loop from a on, and that they do not leave the set G.
IsLoop(f, M, a, h) == f[0] = a /\ \A n \in 1 .. M : f[n] = h[n][f[n - 1]]
StaysIn(M, G, h) == \A n \in 1 .. M, s \in G : h[n][s] \in G

\* A loop over a set that its turns do not leave has its values there.
LEMMA LoopExists ==
    ASSUME NEW M \in Nat, NEW G, NEW a \in G, NEW h, StaysIn(M, G, h)
    PROVE  \E f \in [0 .. M -> G] : IsLoop(f, M, a, h)
<1> DEFINE Is(m, f) == f[0] = a /\ \A n \in 1 .. m : f[n] = h[n][f[n - 1]]
           bad == {m \in 0 .. M : ~\E f \in [0 .. m -> G] : Is(m, f)}
<1>0. \A n \in 1 .. M, s \in G : h[n][s] \in G
    BY DEF StaysIn
<1>1. SUFFICES ASSUME bad # {} PROVE FALSE
    BY DEF IsLoop
<1>2. PICK m \in bad : \A k \in bad : m <= k
    <2>1. bad \in SUBSET Nat
        OBVIOUS
    <2> HIDE DEF bad
    <2> QED BY <1>1, <2>1, LeastNumber
<1>3. m # 0
    <2>1. SUFFICES ASSUME m = 0 PROVE FALSE
        OBVIOUS
    <2> DEFINE f == [n \in 0 .. 0 |-> a]
    <2>2. f \in [0 .. 0 -> G] /\ Is(0, f)
        OBVIOUS
    <2> QED BY <1>2, <2>1, <2>2
<1>4. m \in 1 .. M /\ m - 1 \in 0 .. M /\ m - 1 \notin bad
    <2>1. m \in 0 .. M
        BY <1>2
    <2> HIDE DEF bad
    <2> QED BY <1>2, <1>3, <2>1
<1>5. PICK f \in [0 .. m - 1 -> G] : Is(m - 1, f)
    BY <1>4
<1> DEFINE g == [n \in 0 .. m |-> IF n < m THEN f[n] ELSE h[m][f[m - 1]]]
<1>6. g \in [0 .. m -> G]
    <2>1. f[m - 1] \in G /\ h[m][f[m - 1]] \in G
        BY <1>0, <1>4
    <2>2. \A n \in 0 .. m : n < m => f[n] \in G
        BY <1>4
    <2> QED BY <1>4, <2>1, <2>2
<1>7. Is(m, g)
    <2>1. g[0] = a
        BY <1>4, <1>5
    <2>2. ASSUME NEW n \in 1 .. m PROVE g[n] = h[n][g[n - 1]]
        <3>1. CASE n < m
            <4>1. f[n] = h[n][f[n - 1]]
                BY <1>4, <1>5, <3>1
            <4>2. g[n] = f[n] /\ g[n - 1] = f[n - 1]
                BY <1>4, <3>1
            <4> QED BY <4>1, <4>2
        <3>2. CASE n = m
            BY <1>4, <3>2
        <3> QED BY <1>4, <3>1, <3>2
    <2> HIDE DEF g
    <2> QED BY <2>1, <2>2
<1> QED BY <1>2, <1>6, <1>7

\* A sequence with one more at its end.
LEMMA RangeAppend ==
    ASSUME NEW X, NEW q \in Seq(X), NEW x \in X
    PROVE  /\ Append(q, x) \in Seq(X)
           /\ Range(Append(q, x)) = Range(q) \cup {x}
           /\ x \notin Range(q) /\ IsInjective(q) => IsInjective(Append(q, x))
<1>1. /\ Append(q, x) \in Seq(X)
      /\ DOMAIN q = 1 .. Len(q) /\ Len(q) \in Nat
      /\ DOMAIN Append(q, x) = 1 .. Len(q) + 1
      /\ \A i \in 1 .. Len(q) : Append(q, x)[i] = q[i]
      /\ Append(q, x)[Len(q) + 1] = x
    OBVIOUS
<1> DEFINE r == Append(q, x)
<1>2. /\ r \in Seq(X) /\ DOMAIN r = 1 .. Len(q) + 1 /\ r[Len(q) + 1] = x
      /\ \A i \in 1 .. Len(q) : r[i] = q[i]
    BY <1>1
<1> HIDE DEF r
<1>3. Range(r) = Range(q) \cup {x}
    BY <1>1, <1>2 DEF Range
<1>4. x \notin Range(q) /\ IsInjective(q) => IsInjective(r)
    BY <1>1, <1>2 DEF Range, IsInjective
<1> QED BY <1>2, <1>3, <1>4 DEF r

\* A sequence without its first.
LEMMA RangeTail ==
    ASSUME NEW X, NEW q \in Seq(X), q # <<>>
    PROVE  /\ Head(q) \in X /\ Tail(q) \in Seq(X) /\ Head(q) \in Range(q)
           /\ Range(q) = Range(Tail(q)) \cup {Head(q)}
           /\ IsInjective(q) => IsInjective(Tail(q)) /\ Head(q) \notin Range(Tail(q))
<1>1. /\ DOMAIN q = 1 .. Len(q) /\ Len(q) \in Nat \ {0} /\ Head(q) = q[1] /\ q[1] \in X
      /\ Tail(q) \in Seq(X) /\ DOMAIN Tail(q) = 1 .. Len(q) - 1
      /\ \A i \in 1 .. Len(q) - 1 : Tail(q)[i] = q[i + 1]
    OBVIOUS
<1> DEFINE r == Tail(q)
<1>2. /\ r \in Seq(X) /\ DOMAIN r = 1 .. Len(q) - 1
      /\ \A i \in 1 .. Len(q) - 1 : r[i] = q[i + 1]
    BY <1>1
<1> HIDE DEF r
<1>3. Range(q) = Range(r) \cup {Head(q)} /\ Head(q) \in Range(q)
    <2>1. \A i \in DOMAIN q : i = 1 \/ (i - 1 \in DOMAIN r /\ r[i - 1] = q[i])
        BY <1>1, <1>2
    <2>2. \A i \in DOMAIN r : i + 1 \in DOMAIN q
        BY <1>1, <1>2
    <2> QED BY <1>1, <1>2, <2>1, <2>2 DEF Range
<1>4. IsInjective(q) => IsInjective(r) /\ Head(q) \notin Range(r)
    <2>1. \A i \in DOMAIN r : i + 1 \in DOMAIN q /\ 1 \in DOMAIN q /\ i + 1 # 1
        BY <1>1, <1>2
    <2>2. \A i, j \in DOMAIN r : i + 1 = j + 1 => i = j
        BY <1>1, <1>2
    <2> QED BY <1>1, <1>2, <2>1, <2>2 DEF Range, IsInjective
<1> QED BY <1>1, <1>2, <1>3, <1>4 DEF r

\* The rest of a sequence without one of it, in the same order.
LEMMA Without ==
    ASSUME NEW X, NEW q \in Seq(X), NEW i \in DOMAIN q
    PROVE  /\ RemoveAt(q, i) \in Seq(X)
           /\ Range(q) = Range(RemoveAt(q, i)) \cup {q[i]}
           /\ IsInjective(q) => q[i] \notin Range(RemoveAt(q, i))
           /\ \A j, k \in DOMAIN RemoveAt(q, i) : j < k =>
                 \E m, n \in DOMAIN q : /\ m < n /\ q[m] = RemoveAt(q, i)[j]
                                        /\ q[n] = RemoveAt(q, i)[k]
<1> DEFINE u == SubSeq(q, 1, i - 1)
           v == SubSeq(q, i + 1, Len(q))
           r == RemoveAt(q, i)
<1>1. DOMAIN q = 1 .. Len(q) /\ Len(q) \in Nat /\ i \in 1 .. Len(q)
    OBVIOUS
<1>2. u \in Seq(X) /\ Len(u) = i - 1 /\ \A j \in 1 .. i - 1 : u[j] = q[j]
    BY <1>1
<1>3. v \in Seq(X) /\ Len(v) = Len(q) - i /\ \A j \in 1 .. Len(q) - i : v[j] = q[j + i]
    BY <1>1
<1>4. r = u \o v
    BY DEF RemoveAt
<1> HIDE DEF u, v, r
<1>5. /\ r \in Seq(X) /\ Len(r) = Len(q) - 1
      /\ \A j \in 1 .. Len(q) - 1 : r[j] = IF j < i THEN q[j] ELSE q[j + 1]
    <2>1. /\ r \in Seq(X) /\ Len(r) = Len(u) + Len(v)
          /\ \A j \in 1 .. Len(u) + Len(v) :
                r[j] = IF j <= Len(u) THEN u[j] ELSE v[j - Len(u)]
        BY <1>2, <1>3, <1>4, ConcatProperties
    <2>2. Len(r) = Len(q) - 1
        BY <1>1, <1>2, <1>3, <2>1
    <2>3. ASSUME NEW j \in 1 .. Len(q) - 1
          PROVE  r[j] = IF j < i THEN q[j] ELSE q[j + 1]
        <3>1. j \in 1 .. Len(u) + Len(v)
            BY <1>1, <1>2, <1>3
        <3>2. CASE j < i
            BY <1>1, <1>2, <2>1, <3>1, <3>2
        <3>3. CASE ~(j < i)
            <4>1. j - Len(u) \in 1 .. Len(q) - i /\ (j - Len(u)) + i = j + 1
                BY <1>1, <1>2, <3>3
            <4>2. r[j] = v[j - Len(u)]
                BY <1>1, <1>2, <2>1, <3>1, <3>3
            <4>3. v[j - Len(u)] = q[j + 1]
                BY <1>3, <4>1
            <4> QED BY <3>3, <4>2, <4>3
        <3> QED BY <3>2, <3>3
    <2> QED BY <2>1, <2>2, <2>3
<1>6. DOMAIN r = 1 .. Len(q) - 1
    BY <1>5, <1>1
<1>7. Range(q) = Range(r) \cup {q[i]}
    <2>1. \A j \in DOMAIN q : j = i \/ \E k \in DOMAIN r : r[k] = q[j]
        <3> SUFFICES ASSUME NEW j \in DOMAIN q, j # i PROVE \E k \in DOMAIN r : r[k] = q[j]
            OBVIOUS
        <3>1. CASE j < i
            <4>1. j \in DOMAIN r /\ r[j] = q[j]
                BY <1>1, <1>5, <1>6, <3>1
            <4> QED BY <4>1
        <3>2. CASE j > i
            <4>1. j - 1 \in DOMAIN r /\ r[j - 1] = q[j]
                BY <1>1, <1>5, <1>6, <3>2
            <4> QED BY <4>1
        <3> QED BY <1>1, <3>1, <3>2
    <2>2. \A j \in DOMAIN r : \E k \in DOMAIN q : r[j] = q[k]
        <3> SUFFICES ASSUME NEW j \in DOMAIN r PROVE \E k \in DOMAIN q : r[j] = q[k]
            OBVIOUS
        <3>1. j \in DOMAIN q /\ j + 1 \in DOMAIN q /\ (r[j] = q[j] \/ r[j] = q[j + 1])
            BY <1>1, <1>5, <1>6
        <3> QED BY <3>1
    <2> QED BY <2>1, <2>2 DEF Range
<1>8. IsInjective(q) => q[i] \notin Range(r)
    <2>1. \A j \in DOMAIN r : \E k \in DOMAIN q : r[j] = q[k] /\ k # i
        <3> SUFFICES ASSUME NEW j \in DOMAIN r PROVE \E k \in DOMAIN q : r[j] = q[k] /\ k # i
            OBVIOUS
        <3>1. CASE j < i
            BY <1>1, <1>5, <1>6, <3>1
        <3>2. CASE ~(j < i)
            <4>1. j + 1 \in DOMAIN q /\ j + 1 # i /\ r[j] = q[j + 1]
                BY <1>1, <1>5, <1>6, <3>2
            <4> QED BY <4>1
        <3> QED BY <3>1, <3>2
    <2> QED BY <2>1 DEF Range, IsInjective
<1>9. \A j, k \in DOMAIN r : j < k =>
        \E m, n \in DOMAIN q : m < n /\ q[m] = r[j] /\ q[n] = r[k]
    <2> SUFFICES ASSUME NEW j \in DOMAIN r, NEW k \in DOMAIN r, j < k
                 PROVE  \E m, n \in DOMAIN q : m < n /\ q[m] = r[j] /\ q[n] = r[k]
        OBVIOUS
    <2> DEFINE m == IF j < i THEN j ELSE j + 1
               n == IF k < i THEN k ELSE k + 1
    <2>1. m \in DOMAIN q /\ n \in DOMAIN q /\ m < n
        BY <1>1, <1>6
    <2>2. q[m] = r[j] /\ q[n] = r[k]
        BY <1>5, <1>6
    <2> QED BY <2>1, <2>2
<1> QED BY <1>5, <1>7, <1>8, <1>9 DEF r

\* A sequence followed by another.
LEMMA RangeConcat ==
    ASSUME NEW X, NEW p \in Seq(X), NEW q \in Seq(X)
    PROVE  /\ p \o q \in Seq(X)
           /\ Range(p \o q) = Range(p) \cup Range(q)
           /\ IsInjective(p) /\ IsInjective(q) /\ Range(p) \cap Range(q) = {}
                => IsInjective(p \o q)
<1> DEFINE r == p \o q
<1>1. /\ r \in Seq(X) /\ Len(p) \in Nat /\ Len(q) \in Nat
      /\ DOMAIN p = 1 .. Len(p) /\ DOMAIN q = 1 .. Len(q) /\ DOMAIN r = 1 .. Len(p) + Len(q)
      /\ \A i \in 1 .. Len(p) + Len(q) : r[i] = IF i <= Len(p) THEN p[i] ELSE q[i - Len(p)]
    OBVIOUS
<1> HIDE DEF r
<1>2. \A i \in DOMAIN r : \/ i \in DOMAIN p /\ r[i] = p[i]
                          \/ ~(i <= Len(p)) /\ i - Len(p) \in DOMAIN q /\ r[i] = q[i - Len(p)]
    BY <1>1
<1>3. /\ \A i \in DOMAIN p : i \in DOMAIN r /\ r[i] = p[i]
      /\ \A i \in DOMAIN q : i + Len(p) \in DOMAIN r /\ r[i + Len(p)] = q[i]
    BY <1>1
<1>4. Range(r) = Range(p) \cup Range(q)
    BY <1>2, <1>3 DEF Range
<1>5. IsInjective(p) /\ IsInjective(q) /\ Range(p) \cap Range(q) = {} => IsInjective(r)
    <2> SUFFICES ASSUME IsInjective(p), IsInjective(q), Range(p) \cap Range(q) = {},
                        NEW i \in DOMAIN r, NEW j \in DOMAIN r, r[i] = r[j]
                 PROVE  i = j
        BY DEF IsInjective
    <2>1. CASE i <= Len(p) /\ j <= Len(p)
        BY <1>1, <1>2, <2>1 DEF IsInjective
    <2>2. CASE ~(i <= Len(p)) /\ ~(j <= Len(p))
        <3>1. i - Len(p) \in DOMAIN q /\ j - Len(p) \in DOMAIN q /\ q[i - Len(p)] = q[j - Len(p)]
            BY <1>1, <1>2, <2>2
        <3>2. i - Len(p) = j - Len(p)
            BY <3>1 DEF IsInjective
        <3> QED BY <1>1, <3>2
    <2>3. CASE i <= Len(p) /\ ~(j <= Len(p))
        <3>1. r[i] \in Range(p) /\ r[j] \in Range(q)
            BY <1>1, <1>2, <2>3 DEF Range
        <3> QED BY <3>1
    <2>4. CASE ~(i <= Len(p)) /\ j <= Len(p)
        <3>1. r[j] \in Range(p) /\ r[i] \in Range(q)
            BY <1>1, <1>2, <2>4 DEF Range
        <3> QED BY <3>1
    <2> QED BY <2>1, <2>2, <2>3, <2>4
<1> QED BY <1>1, <1>4, <1>5 DEF r

\* The chosen of a sequence: all of them, in their order.
LEMMA ChosenIs ==
    ASSUME NEW X, NEW q \in Seq(X), NEW S
    PROVE  /\ Chosen(q, S) \in Seq(X)
           /\ Range(Chosen(q, S)) = Range(q) \cap S
           /\ \A j, k \in DOMAIN Chosen(q, S) : j < k =>
                 \E m, n \in DOMAIN q : /\ m < n /\ q[m] = Chosen(q, S)[j]
                                        /\ q[n] = Chosen(q, S)[k]
<1> DEFINE M == Len(q)
           Turn(n, s) == IF q[n] \in S THEN Append(s, q[n]) ELSE s
           F(f) == [n \in 0 .. M |-> IF n = 0 THEN <<>>
                                     ELSE IF q[n] \in S THEN Append(f[n - 1], q[n]) ELSE f[n - 1]]
<1>1. M \in Nat /\ DOMAIN q = 1 .. M /\ \A n \in 1 .. M : q[n] \in X
    OBVIOUS
<1>2. \E f : f = F(f)
    <2> DEFINE h == [n \in 1 .. M |-> [s \in Seq(X) |-> Turn(n, s)]]
    <2>1. \A n \in 1 .. M, s \in Seq(X) : Turn(n, s) \in Seq(X) /\ h[n][s] = Turn(n, s)
        BY <1>1
    <2>2. <<>> \in Seq(X)
        OBVIOUS
    <2> HIDE DEF h, Turn, M
    <2>0. StaysIn(M, Seq(X), h)
        BY <2>1 DEF StaysIn
    <2>3. PICK f \in [0 .. M -> Seq(X)] : IsLoop(f, M, <<>>, h)
        <3>1. M \in Nat
            BY <1>1
        <3> QED BY <2>0, <2>2, <3>1, LoopExists
    <2>4. \A n \in 1 .. M : f[n] = Turn(n, f[n - 1])
        <3>1. \A n \in 1 .. M : n - 1 \in 0 .. M
            BY <1>1
        <3>2. \A n \in 1 .. M : f[n - 1] \in Seq(X)
            BY <3>1
        <3> QED BY <2>1, <2>3, <3>2 DEF IsLoop
    <2>5. f = [n \in 0 .. M |-> IF n = 0 THEN <<>> ELSE Turn(n, f[n - 1])]
        <3> DEFINE g == [n \in 0 .. M |-> IF n = 0 THEN <<>> ELSE Turn(n, f[n - 1])]
        <3>1. f[0] = <<>> /\ 0 \in 0 .. M
            BY <1>1, <2>3 DEF IsLoop
        <3>2. \A n \in 0 .. M : n = 0 \/ n \in 1 .. M
            BY <1>1
        <3>3. \A n \in 0 .. M : f[n] = g[n]
            BY <2>4, <3>1, <3>2
        <3>4. f = [n \in 0 .. M |-> f[n]] /\ g = [n \in 0 .. M |-> g[n]]
            OBVIOUS
        <3> HIDE DEF g
        <3>5. f = g
            BY <3>3, <3>4
        <3> QED BY <3>5 DEF g
    <2> QED BY <2>5 DEF Turn
<1> DEFINE f == CHOOSE f : f = F(f)
<1>3. f = F(f)
    BY <1>2
<1>4. Chosen(q, S) = f[M]
    BY DEF Chosen
<1>5. f[0] = <<>> /\ \A n \in 1 .. M : f[n] = Turn(n, f[n - 1])
    <2> HIDE DEF f, M
    <2>1. \A n \in 0 .. M : f[n] = IF n = 0 THEN <<>>
                                   ELSE IF q[n] \in S THEN Append(f[n - 1], q[n]) ELSE f[n - 1]
        BY <1>3
    <2> QED BY <1>1, <2>1
<1> HIDE DEF f, M
<1> DEFINE Good(n, r) ==
              /\ Range(r) = {q[k] : k \in {j \in 1 .. n : q[j] \in S}}
              /\ \A j, k \in DOMAIN r : j < k =>
                    \E a, b \in 1 .. n : a < b /\ q[a] = r[j] /\ q[b] = r[k]
           G == {n \in 0 .. M : f[n] \in Seq(X) /\ Good(n, f[n])}
<1>6. \A n \in 0 .. M : n \in G <=> f[n] \in Seq(X) /\ Good(n, f[n])
    OBVIOUS
<1> HIDE DEF G
<1>7. 0 \in G
    <2>1. Good(0, <<>>)
        BY DEF Range
    <2>2. <<>> \in Seq(X) /\ 0 \in 0 .. M
        BY <1>1
    <2> HIDE DEF Good
    <2> QED BY <1>5, <1>6, <2>1, <2>2
<1>8. ASSUME NEW n \in 1 .. M, n - 1 \in G PROVE n \in G
    <2>1. n - 1 \in 0 .. M /\ n \in 0 .. M
        BY <1>1
    <2>2. PICK r : r = f[n - 1]
        OBVIOUS
    <2>3. r \in Seq(X) /\ Good(n - 1, r)
        <3> HIDE DEF Good
        <3> QED BY <1>6, <1>8, <2>1, <2>2
    <2>4. f[n] = Turn(n, r)
        BY <1>5, <2>2
    <2>5. CASE q[n] \notin S
        <3>1. f[n] = r
            BY <2>4, <2>5
        <3>2. \A j \in 1 .. n : q[j] \in S => j \in 1 .. n - 1
            BY <2>5
        <3>3. Range(r) = {q[k] : k \in {j \in 1 .. n : q[j] \in S}}
            BY <2>3, <3>2
        <3>4. \A j, k \in DOMAIN r : j < k =>
                \E a, b \in 1 .. n : a < b /\ q[a] = r[j] /\ q[b] = r[k]
            <4>1. \A a \in 1 .. n - 1 : a \in 1 .. n
                OBVIOUS
            <4> QED BY <2>3, <4>1
        <3>5. Good(n, r)
            BY <3>3, <3>4
        <3> HIDE DEF Good
        <3> QED BY <1>6, <2>1, <2>3, <3>1, <3>5
    <2>6. CASE q[n] \in S
        <3> DEFINE t == Append(r, q[n])
        <3>1. f[n] = t
            BY <2>4, <2>6
        <3>2. q[n] \in X
            BY <1>1
        <3>3. /\ t \in Seq(X) /\ DOMAIN t = 1 .. Len(r) + 1 /\ t[Len(r) + 1] = q[n]
              /\ DOMAIN r = 1 .. Len(r) /\ Len(r) \in Nat
              /\ \A j \in 1 .. Len(r) : t[j] = r[j]
            BY <2>3, <3>2
        <3>4. Range(t) = Range(r) \cup {q[n]}
            BY <2>3, <3>2, RangeAppend
        <3> HIDE DEF t
        <3>5. Range(t) = {q[k] : k \in {j \in 1 .. n : q[j] \in S}}
            <4>1. \A j \in 1 .. n : j = n \/ j \in 1 .. n - 1
                OBVIOUS
            <4>2. \A j \in 1 .. n - 1 : j \in 1 .. n
                OBVIOUS
            <4> QED BY <2>3, <2>6, <3>4, <4>1, <4>2
        <3>6. ASSUME NEW j \in DOMAIN t, NEW k \in DOMAIN t, j < k
              PROVE  \E a, b \in 1 .. n : a < b /\ q[a] = t[j] /\ q[b] = t[k]
            <4>1. j \in DOMAIN r /\ t[j] = r[j]
                BY <3>3, <3>6
            <4>2. CASE k \in DOMAIN r
                <5>1. t[k] = r[k]
                    BY <3>3, <4>2
                <5>2. PICK a \in 1 .. n - 1, b \in 1 .. n - 1 : a < b /\ q[a] = r[j] /\ q[b] = r[k]
                    BY <2>3, <3>6, <4>1, <4>2
                <5>3. a \in 1 .. n /\ b \in 1 .. n
                    OBVIOUS
                <5> QED BY <4>1, <5>1, <5>2, <5>3
            <4>3. CASE k \notin DOMAIN r
                <5>1. t[k] = q[n]
                    BY <3>3, <4>3
                <5>2. r[j] \in {q[m] : m \in {i \in 1 .. n - 1 : q[i] \in S}}
                    BY <2>3, <4>1 DEF Range
                <5>3. PICK a \in 1 .. n - 1 : q[a] = r[j]
                    BY <5>2
                <5>4. a \in 1 .. n /\ n \in 1 .. n /\ a < n
                    OBVIOUS
                <5> QED BY <4>1, <5>1, <5>3, <5>4
            <4> QED BY <4>2, <4>3
        <3>7. Good(n, t)
            BY <3>5, <3>6
        <3> HIDE DEF Good
        <3> QED BY <1>6, <2>1, <3>1, <3>3, <3>7
    <2> QED BY <2>5, <2>6
<1>9. M \in G
    BY <1>1, <1>7, <1>8, EveryTurn
<1>10. f[M] \in Seq(X) /\ Good(M, f[M])
    <2> HIDE DEF Good
    <2> QED BY <1>1, <1>6, <1>9
<1>11. Range(f[M]) = Range(q) \cap S
    <2>1. Range(f[M]) = {q[k] : k \in {j \in 1 .. M : q[j] \in S}}
        BY <1>10
    <2> QED BY <1>1, <2>1 DEF Range
<1>12. \A j, k \in DOMAIN f[M] : j < k =>
        \E m, n \in DOMAIN q : m < n /\ q[m] = f[M][j] /\ q[n] = f[M][k]
    <2>1. \A j, k \in DOMAIN f[M] : j < k =>
            \E m, n \in 1 .. M : m < n /\ q[m] = f[M][j] /\ q[n] = f[M][k]
        BY <1>10
    <2> QED BY <1>1, <2>1
<1> QED BY <1>4, <1>10, <1>11, <1>12
-----------------------------------------------------------------------------
(* The program                                                               *)

\* The options of a run, and how many host requests it has.
LEMMA ConfIs ==
    ASSUME conf \in Configurations
    PROVE  /\ conf.policy \in {"fcfs", "strict"} /\ conf.mode \in {"host", "transaction", "both"}
           /\ conf.kind \in Kinds /\ conf.program \in Seq(HostRequests)
           /\ Hosts = 1 .. Len(conf.program) /\ Len(conf.program) \in Nat
BY ProgramAssumption DEF Hosts

\* A host request has a tag, a direction, and at least one transaction.
LEMMA RequestIs ==
    ASSUME conf \in Configurations, NEW g \in Hosts
    PROVE  /\ Request(g) \in HostRequests /\ TagOf(g) \in Nat /\ Request(g).write \in BOOLEAN
           /\ Indices(g) = 1 .. Len(Request(g).txns) /\ Len(Request(g).txns) \in Nat \ {0}
<1>1. Request(g) \in HostRequests
    BY ConfIs DEF Request, Hosts
<1> DEFINE T == [explicit : BOOLEAN, stack : StackIds, address : Nat, qos : Nat]
<1>2. /\ Request(g).tag \in Nat /\ Request(g).write \in BOOLEAN
      /\ Request(g).txns \in Seq(T) /\ Request(g).txns # <<>>
    BY <1>1 DEF HostRequests
<1> HIDE DEF T
<1>3. /\ DOMAIN Request(g).txns = 1 .. Len(Request(g).txns)
      /\ Len(Request(g).txns) \in Nat \ {0}
    BY <1>2
<1> QED BY <1>1, <1>2, <1>3 DEF TagOf, Indices

\* A transaction is its host request and its index there.
LEMMA ProgramIs ==
    /\ \A x \in Program : x.host \in Hosts /\ x.index \in Indices(x.host)
                          /\ x = Part(x.host, x.index)
    /\ \A g \in Hosts : \A k \in Indices(g) :
          Part(g, k) \in Program /\ Part(g, k).host = g /\ Part(g, k).index = k
<1>1. Program = UNION {{Part(g, k) : k \in Indices(g)} : g \in Hosts}
    BY DEF Program, ProgramOf, Part, Indices, Hosts, Request
<1>2. \A g, k : Part(g, k).host = g /\ Part(g, k).index = k
    BY DEF Part
<1>3. ASSUME NEW x \in Program
      PROVE  x.host \in Hosts /\ x.index \in Indices(x.host) /\ x = Part(x.host, x.index)
    <2>1. PICK g \in Hosts : x \in {Part(g, k) : k \in Indices(g)}
        BY <1>1
    <2>2. PICK k \in Indices(g) : x = Part(g, k)
        BY <2>1
    <2> QED BY <1>2, <2>2
<1>4. ASSUME NEW g \in Hosts, NEW k \in Indices(g) PROVE Part(g, k) \in Program
    BY <1>1
<1> QED BY <1>2, <1>3, <1>4

\* What a transaction has.
LEMMA TransactionIs ==
    ASSUME conf \in Configurations, NEW x \in Program
    PROVE  /\ Transaction(x).explicit \in BOOLEAN /\ Transaction(x).stack \in StackIds
           /\ Transaction(x).address \in Nat /\ Transaction(x).qos \in Nat
           /\ Transaction(x).explicit => Transaction(x).address < Capacity
           /\ ~Transaction(x).explicit => Transaction(x).address < StackCount * Capacity
<1> DEFINE T == [explicit : BOOLEAN, stack : StackIds, address : Nat, qos : Nat]
<1>1. x.host \in Hosts /\ x.index \in Indices(x.host)
    BY ProgramIs
<1>2. Request(x.host).txns \in Seq(T)
    BY <1>1, RequestIs DEF HostRequests
<1>3. Transaction(x) \in T /\ Transaction(x) \in Range(Request(x.host).txns)
    <2> HIDE DEF T
    <2>1. x.index \in DOMAIN Request(x.host).txns
        BY <1>1 DEF Indices
    <2>2. Request(x.host).txns[x.index] \in T
        BY <1>2, <2>1
    <2> QED BY <2>1, <2>2 DEF Transaction, Range
<1>4. Transaction(x).address < IF Transaction(x).explicit THEN Capacity ELSE StackCount * Capacity
    BY <1>1, <1>3, ProgramAssumption DEF Hosts, Request
<1> QED BY <1>3, <1>4

\* A transaction has a stack and a controller there, and its system address says which.
LEMMA HomeIs ==
    ASSUME conf \in Configurations, NEW x \in Program
    PROVE  /\ Home(x).stack \in StackIds /\ ControllerOf(x) \in Controllers
           /\ ControllerOf(x)[1] = Home(x).stack
           /\ Home(x) = Decode(conf.kind, SystemAddress(conf, Transaction(x)))
           /\ Encode(conf.kind, Home(x).stack, Home(x).local) = SystemAddress(conf, Transaction(x))
<1> DEFINE t == Transaction(x)
           a == t.address
<1>1. /\ t.explicit \in BOOLEAN /\ t.stack \in StackIds /\ a \in Nat
      /\ t.explicit => a < Capacity
      /\ ~t.explicit => a < StackCount * Capacity
    BY TransactionIs
<1>2. conf.kind \in Kinds
    BY ConfIs
<1>3. StackCount \in Nat \ {0} /\ Stripe \in Nat \ {0} /\ Capacity \in Nat \ {0}
      /\ Channels \in Nat \ {0}
    BY StackAssumption
<1>4. CASE t.explicit
    <2>1. Home(x) = [stack |-> t.stack, local |-> a]
          /\ SystemAddress(conf, t) = Encode(conf.kind, t.stack, a)
        BY <1>4 DEF Home, SystemAddress
    <2>2. t.stack \in 0 .. (StackCount - 1) /\ a \in 0 .. (Capacity - 1)
        BY <1>1, <1>3, <1>4 DEF StackIds
    <2>3. Decode(conf.kind, Encode(conf.kind, t.stack, a)) = [stack |-> t.stack, local |-> a]
        <3> HIDE DEF t, a
        <3> QED BY <1>2, <2>2, DecodeEncode
    <2> QED
        <3>1. Home(x).stack = t.stack /\ Home(x).local = a
            BY <2>1
        <3>2. a % Channels \in 0 .. Channels - 1
            BY <1>1, <1>3
        <3>3. ControllerOf(x) = <<t.stack, a % Channels>>
            BY <3>1 DEF ControllerOf, ChannelOf
        <3> HIDE DEF t, a
        <3> QED BY <1>1, <2>1, <2>3, <3>1, <3>2, <3>3 DEF Controllers, t
<1>5. CASE ~t.explicit
    <2> DEFINE d == Decode(conf.kind, a)
    <2>1. Home(x) = d /\ SystemAddress(conf, t) = a
        BY <1>5 DEF Home, SystemAddress
    <2>2. Encode(conf.kind, d.stack, d.local) = a
        <3> HIDE DEF a
        <3> QED BY <1>1, <1>2, EncodeDecode
    <2>3. d.stack \in StackIds /\ d.local \in Nat
        <3>1. a \in Nat /\ a < StackCount * Capacity
            BY <1>1, <1>5
        <3> HIDE DEF a, t
        <3>2. CASE StackCount = 1
            BY <3>1, <3>2 DEF Decode, StackIds
        <3>3. CASE StackCount # 1 /\ conf.kind = "blocked"
            <4>1. PICK q, r : q = a \div Capacity /\ r = a % Capacity
                OBVIOUS
            <4>2. q \in Nat /\ r \in 0 .. Capacity - 1 /\ a = q * Capacity + r
                BY <1>3, <3>1, <4>1, Division
            <4>3. q < StackCount
                <5>1. SUFFICES ASSUME StackCount <= q PROVE FALSE
                    BY <1>3, <4>2
                <5>2. StackCount * Capacity <= q * Capacity
                    BY <1>3, <4>2, <5>1
                <5>3. q * Capacity \in Nat /\ StackCount * Capacity \in Nat
                    BY <1>3, <4>2
                <5> QED BY <3>1, <4>2, <5>2, <5>3, <1>3
            <4>4. d = [stack |-> q, local |-> r]
                BY <3>3, <4>1 DEF Decode
            <4> QED BY <1>3, <4>2, <4>3, <4>4 DEF StackIds
        <3>4. CASE StackCount # 1 /\ conf.kind # "blocked"
            <4>1. PICK s, u : s = a \div Stripe /\ u = a % Stripe
                OBVIOUS
            <4>2. s \in Nat /\ u \in Nat
                BY <1>3, <3>1, <4>1, Division
            <4>3. s % StackCount \in 0 .. StackCount - 1 /\ s \div StackCount \in Nat
                BY <1>3, <4>2, Division
            <4>4. d = [stack |-> s % StackCount, local |-> (s \div StackCount) * Stripe + u]
                BY <3>4, <4>1 DEF Decode
            <4>5. PICK v : v = s \div StackCount
                OBVIOUS
            <4>6. v * Stripe + u \in Nat
                BY <1>3, <4>2, <4>3, <4>5
            <4> QED BY <4>3, <4>4, <4>5, <4>6 DEF StackIds
        <3> QED BY <3>2, <3>3, <3>4
    <2> QED
        <3>0. d = Decode(conf.kind, a)
            OBVIOUS
        <3> HIDE DEF d
        <3>1. d.local % Channels \in 0 .. Channels - 1
            BY <1>3, <2>3
        <3>2. ControllerOf(x) = <<d.stack, d.local % Channels>>
            BY <2>1 DEF ControllerOf, ChannelOf
        <3> HIDE DEF t, a
        <3>3. <<d.stack, d.local % Channels>> \in Controllers
            BY <2>3, <3>1 DEF Controllers
        <3> QED BY <2>1, <2>2, <2>3, <3>0, <3>2, <3>3 DEF t
<1> QED BY <1>1, <1>4, <1>5

\* Those of one class are for one line of one controller, and with the strict priority
\* of one class of service.
LEMMA ClassIs ==
    ASSUME conf \in Configurations, NEW x \in Program, NEW y \in Program, ClassOf(x) = ClassOf(y)
    PROVE  /\ Home(x) = Home(y) /\ ControllerOf(x) = ControllerOf(y)
           /\ conf.policy # "fcfs" => Transaction(x).qos = Transaction(y).qos
<1>1. SystemAddress(conf, Transaction(x)) = SystemAddress(conf, Transaction(y))
    BY DEF ClassOf, OrderClass
<1>2. Home(x) = Home(y)
    BY <1>1, HomeIs
<1>3. conf.policy # "fcfs" => Transaction(x).qos = Transaction(y).qos
    BY DEF ClassOf, OrderClass
<1> QED BY <1>2, <1>3 DEF ControllerOf

\* The order of the program is total.
LEMMA BeforeOrders ==
    ASSUME conf \in Configurations
    PROVE  /\ \A x, y \in Program : Before(x, y) \/ Before(y, x) \/ x = y
           /\ \A x, y \in Program : Before(x, y) => ~Before(y, x) /\ x # y
           /\ \A x, y, z \in Program : Before(x, y) /\ Before(y, z) => Before(x, z)
<1>1. \A x \in Program : x.host \in Nat /\ x.index \in Nat /\ x = Part(x.host, x.index)
    BY ProgramIs, RequestIs, ConfIs
<1> QED BY <1>1 DEF Before
-----------------------------------------------------------------------------
(* A dispatch                                                                *)

\* What a stage of the flow leaves alone.
SameBooks(s, t) ==
    /\ t.submissions = s.submissions /\ t.assemblies = s.assemblies
    /\ t.hostq = s.hostq /\ t.txnq = s.txnq /\ t.failed = s.failed

\* The controller's and the stack's queues hold exactly what is at home there.
LEMMA WhereIs ==
    ASSUME conf \in Configurations, NEW s \in Systems, Queues(s)
    PROVE  /\ \A k \in StackIds : Range(s.ingress[k]) = {x \in Ing(s) : Home(x).stack = k}
           /\ \A c \in Controllers :
                 /\ Range(s.ctrl[c].queue) = {x \in Que(s) : ControllerOf(x) = c}
                 /\ Range(s.ctrl[c].answers) = {x \in Ans(s) : ControllerOf(x) = c}
<1>1. ASSUME NEW k \in StackIds PROVE Range(s.ingress[k]) = {x \in Ing(s) : Home(x).stack = k}
    <2>1. s.ingress[k] \in Seq(Program)
        BY DEF Systems
    <2>2. Range(s.ingress[k]) \subseteq Program
        BY <2>1 DEF Range
    <2> QED BY <2>2 DEF Queues, Ing
<1>2. ASSUME NEW c \in Controllers
      PROVE  /\ Range(s.ctrl[c].queue) = {x \in Que(s) : ControllerOf(x) = c}
             /\ Range(s.ctrl[c].answers) = {x \in Ans(s) : ControllerOf(x) = c}
    <2>1. s.ctrl[c].queue \in Seq(Program) /\ s.ctrl[c].answers \in Seq(Program)
        BY DEF Systems
    <2>2. Range(s.ctrl[c].queue) \subseteq Program /\ Range(s.ctrl[c].answers) \subseteq Program
        BY <2>1 DEF Range
    <2> QED BY <2>2 DEF Queues, Que, Ans
<1> QED BY <1>1, <1>2

\* The order in which an ingress is searched for the best finds one.
LEMMA BestIs ==
    ASSUME conf \in Configurations, NEW q \in Seq(Program), q # <<>>,
           \A i, j \in DOMAIN q : i < j => Before(q[i], q[j])
    PROVE  \E i \in DOMAIN q : \A j \in DOMAIN q :
              \/ Transaction(q[i]).qos > Transaction(q[j]).qos
              \/ Transaction(q[i]).qos = Transaction(q[j]).qos /\ ~Before(q[j], q[i])
<1> DEFINE level(i) == Transaction(q[i]).qos
           Best(n) == \E i \in 1 .. n : \A j \in 1 .. n :
                        \/ level(i) > level(j)
                        \/ level(i) = level(j) /\ ~Before(q[j], q[i])
           G == {n \in 0 .. Len(q) : n = 0 \/ Best(n)}
<1>1. DOMAIN q = 1 .. Len(q) /\ Len(q) \in Nat \ {0} /\ \A i \in 1 .. Len(q) : q[i] \in Program
    OBVIOUS
<1>2. \A i \in 1 .. Len(q) : level(i) \in Nat
    BY <1>1, TransactionIs
<1>3. /\ \A i, j \in 1 .. Len(q) : i < j => ~Before(q[j], q[i])
      /\ \A i \in 1 .. Len(q) : ~Before(q[i], q[i])
    BY <1>1, BeforeOrders
<1> HIDE DEF level
<1> HIDE DEF Best
<1>best. \A n \in 1 .. Len(q) : Best(n) => n \in G
    BY <1>1
<1> USE DEF Best
<1>4. ASSUME NEW n \in 1 .. Len(q), n - 1 \in G PROVE n \in G
    <2> SUFFICES Best(n)
        BY <1>best
    <2>0. \A i \in 1 .. n : i \in 1 .. Len(q) /\ (i = n \/ i \in 1 .. n - 1)
        OBVIOUS
    <2>1. CASE n = 1
        <3>1. \A j \in 1 .. n : j = 1
            BY <2>1
        <3> QED BY <1>1, <1>3, <2>1, <3>1
    <2>2. CASE n # 1
        <3>1. PICK i \in 1 .. n - 1 : \A j \in 1 .. n - 1 :
                \/ level(i) > level(j)
                \/ level(i) = level(j) /\ ~Before(q[j], q[i])
            BY <1>4, <2>2
        <3>2. i \in 1 .. Len(q) /\ n \in 1 .. Len(q) /\ i \in 1 .. n /\ n \in 1 .. n /\ i < n
            BY <1>1
        <3>3. CASE level(n) > level(i)
            <4>1. \A j \in 1 .. n : level(n) > level(j) \/ (level(n) = level(j) /\ ~Before(q[j], q[n]))
                BY <1>2, <1>3, <2>0, <3>1, <3>2, <3>3
            <4> QED BY <3>2, <4>1
        <3>4. CASE ~(level(n) > level(i))
            <4>1. level(i) > level(n) \/ (level(i) = level(n) /\ ~Before(q[n], q[i]))
                BY <1>2, <1>3, <3>2, <3>4
            <4>2. \A j \in 1 .. n : level(i) > level(j) \/ (level(i) = level(j) /\ ~Before(q[j], q[i]))
                BY <2>0, <3>1, <4>1
            <4> QED BY <3>2, <4>2
        <3> QED BY <3>3, <3>4
    <2> QED BY <2>1, <2>2
<1>5. Len(q) \in G
    <2>1. 0 \in G
        BY <1>1
    <2>2. PICK M \in Nat : M = Len(q)
        BY <1>1
    <2> HIDE DEF G
    <2>3. \A n \in 1 .. M : n - 1 \in G => n \in G
        BY <1>4, <2>2
    <2>4. \A n \in 0 .. M : n \in G
        BY <2>1, <2>3, EveryTurn
    <2> QED BY <2>2, <2>4
<1>6. Best(Len(q))
    BY <1>1, <1>5
<1> QED BY <1>1, <1>6 DEF level

\* Of one class, the first in program order is dispatched.
LEMMA SelectedIs ==
    ASSUME conf \in Configurations, NEW q \in Seq(Program), q # <<>>,
           \A i, j \in DOMAIN q : i < j => Before(q[i], q[j])
    PROVE  /\ Selected(q) \in DOMAIN q
           /\ \A j \in DOMAIN q : ClassOf(q[j]) = ClassOf(q[Selected(q)]) => ~Before(q[j], q[Selected(q)])
<1>1. DOMAIN q = 1 .. Len(q) /\ Len(q) \in Nat \ {0} /\ \A i \in 1 .. Len(q) : q[i] \in Program
    OBVIOUS
<1>2. CASE conf.policy = "fcfs"
    <2>1. Selected(q) = 1
        BY <1>2 DEF Selected
    <2>2. \A j \in DOMAIN q : j = 1 \/ 1 < j
        BY <1>1
    <2>3. \A j \in DOMAIN q : ~Before(q[j], q[1])
        BY <1>1, <2>2, BeforeOrders
    <2> QED BY <1>1, <2>1, <2>3
<1>3. CASE conf.policy # "fcfs"
    <2> DEFINE P(i) == \A j \in DOMAIN q :
                        \/ Transaction(q[i]).qos > Transaction(q[j]).qos
                        \/ Transaction(q[i]).qos = Transaction(q[j]).qos /\ ~Before(q[j], q[i])
    <2>1. \E i \in DOMAIN q : P(i)
        BY BestIs
    <2>2. Selected(q) = CHOOSE i \in DOMAIN q : P(i)
        BY <1>3 DEF Selected
    <2>3. Selected(q) \in DOMAIN q /\ P(Selected(q))
        <3> HIDE DEF P
        <3> QED BY <2>1, <2>2
    <2>4. ASSUME NEW j \in DOMAIN q, ClassOf(q[j]) = ClassOf(q[Selected(q)])
          PROVE  ~Before(q[j], q[Selected(q)])
        <3>1. PICK i : i = Selected(q)
            OBVIOUS
        <3>2. q[i] \in Program /\ q[j] \in Program /\ P(i)
            BY <1>1, <2>3, <3>1
        <3>3. Transaction(q[j]).qos = Transaction(q[i]).qos /\ Transaction(q[i]).qos \in Nat
            BY <1>3, <2>4, <3>1, <3>2, ClassIs, TransactionIs
        <3> QED BY <3>1, <3>2, <3>3
    <2> QED BY <2>3, <2>4
<1> QED BY <1>2, <1>3

\* A slot of a stack passes the first of a class, or nothing.
LEMMA DispatchFlow ==
    ASSUME conf \in Configurations, NEW s \in Systems, NEW T \in SUBSET Program, Flow(s, T),
           NEW k \in StackIds
    PROVE  /\ DispatchOne(s, k) \in Systems /\ Flow(DispatchOne(s, k), T)
           /\ SameBooks(s, DispatchOne(s, k))
           /\ Ing(DispatchOne(s, k)) \cup Que(DispatchOne(s, k)) = Ing(s) \cup Que(s)
           /\ Ans(DispatchOne(s, k)) = Ans(s)
<1> DEFINE q == s.ingress[k]
           i == Selected(q)
           x == q[i]
           c == ControllerOf(x)
           p == s.ctrl[c].queue
           t == DispatchOne(s, k)
<1>1. CASE q = <<>> \/ Len(p) = CtrlDepth
    <2>1. t = s
        BY <1>1 DEF DispatchOne
    <2> QED BY <2>1 DEF SameBooks
<1>2. CASE ~(q = <<>> \/ Len(p) = CtrlDepth)
    <2>1. q \in Seq(Program) /\ q # <<>>
        BY <1>2 DEF Systems
    <2>2. \A a, b \in DOMAIN q : a < b => Before(q[a], q[b])
        BY DEF Flow, Queues
    <2>3. i \in DOMAIN q /\ \A j \in DOMAIN q : ClassOf(q[j]) = ClassOf(x) => ~Before(q[j], x)
        <3> HIDE DEF q
        <3> QED BY <2>1, <2>2, SelectedIs
    <2>4. x \in Program /\ x \in Range(q)
        <3> HIDE DEF q, i
        <3> QED BY <2>1, <2>3 DEF Range
    <2>5. Home(x).stack = k /\ x \in Ing(s)
        BY <2>4 DEF Flow, Queues, Ing
    <2>6. c \in Controllers
        BY <2>4, HomeIs
    <2>7. p \in Seq(Program)
        BY <2>6 DEF Systems
    <2>8. t = [s EXCEPT !.ingress[k] = RemoveAt(q, i), !.ctrl[c].queue = Append(p, x)]
        BY <1>2 DEF DispatchOne
    <2> DEFINE r == RemoveAt(q, i)
               u == Append(p, x)
    <2>9. /\ r \in Seq(Program) /\ Range(q) = Range(r) \cup {x}
          /\ IsInjective(q) => x \notin Range(r)
          /\ \A a, b \in DOMAIN r : a < b =>
                \E m, n \in DOMAIN q : m < n /\ q[m] = r[a] /\ q[n] = r[b]
        <3> HIDE DEF q, i
        <3> QED BY <2>1, <2>3, Without
    <2>10. /\ u \in Seq(Program) /\ Range(u) = Range(p) \cup {x}
           /\ x \notin Range(p) /\ IsInjective(p) => IsInjective(u)
           /\ DOMAIN p = 1 .. Len(p) /\ Len(p) \in Nat /\ DOMAIN u = 1 .. Len(p) + 1
           /\ u[Len(p) + 1] = x /\ \A a \in 1 .. Len(p) : u[a] = p[a]
        <3> HIDE DEF x, p
        <3>1. /\ u \in Seq(Program) /\ Range(u) = Range(p) \cup {x}
              /\ x \notin Range(p) /\ IsInjective(p) => IsInjective(u)
            BY <2>4, <2>7, RangeAppend
        <3>2. /\ DOMAIN p = 1 .. Len(p) /\ Len(p) \in Nat /\ DOMAIN u = 1 .. Len(p) + 1
              /\ u[Len(p) + 1] = x /\ \A a \in 1 .. Len(p) : u[a] = p[a]
            BY <2>4, <2>7
        <3> QED BY <3>1, <3>2
    <2> HIDE DEF q, i, x, c, p, t, r, u
    <2>11. t.ingress = [s.ingress EXCEPT ![k] = r]
        BY <2>8 DEF Systems, r
    <2>12. /\ SameBooks(s, t)
           /\ t.ctrl = [s.ctrl EXCEPT ![c].queue = u]
        BY <2>8 DEF Systems, SameBooks, u
    <2>13. t \in Systems
        <3>1. t.ingress \in [StackIds -> Seq(Program)]
            BY <2>9, <2>11 DEF Systems
        <3>2. t.ctrl \in [Controllers -> [queue : Seq(Program), answers : Seq(Program)]]
            <4> DEFINE R == [queue : Seq(Program), answers : Seq(Program)]
            <4>1. [s.ctrl[c] EXCEPT !.queue = u] \in R
                <5>1. PICK w \in R : w = s.ctrl[c]
                    BY <2>6 DEF Systems
                <5>2. [w EXCEPT !.queue = u] \in R
                    BY <2>10
                <5> QED BY <5>1, <5>2
            <4>2. s.ctrl \in [Controllers -> R]
                BY DEF Systems
            <4> HIDE DEF R
            <4>3. t.ctrl \in [Controllers -> R]
                BY <2>12, <4>1, <4>2
            <4> QED BY <4>3 DEF R
        <3>3. /\ t.submissions \in Notes /\ t.assemblies \in Collections
              /\ t.hostq \in Seq(Answers) /\ t.txnq \in Seq(Program) /\ t.failed \in BOOLEAN
            BY <2>12 DEF SameBooks, Systems
        <3>4. t = [ingress |-> t.ingress, ctrl |-> t.ctrl, submissions |-> t.submissions,
                   assemblies |-> t.assemblies, hostq |-> t.hostq, txnq |-> t.txnq,
                   failed |-> t.failed]
            BY <2>8 DEF Systems
        <3> QED BY <3>1, <3>2, <3>3, <3>4 DEF Systems
    <2>14. /\ t.ingress[k] = r
           /\ \A l \in StackIds : l # k => t.ingress[l] = s.ingress[l]
           /\ t.ctrl[c].queue = u /\ t.ctrl[c].answers = s.ctrl[c].answers
           /\ \A d \in Controllers : d # c => t.ctrl[d] = s.ctrl[d]
           /\ \A d \in Controllers : t.ctrl[d].answers = s.ctrl[d].answers
        BY <2>6, <2>11, <2>12 DEF Systems
    <2>15. IsInjective(q)
        <3>1. \A a, b \in DOMAIN q : q[a] \in Program /\ (a < b \/ b < a \/ a = b)
            BY <2>1
        <3>2. \A a, b \in DOMAIN q : q[a] = q[b] => a = b
            BY <2>2, <3>1, BeforeOrders
        <3> QED BY <3>2 DEF IsInjective
    <2>16. x \notin Range(r) /\ Range(r) = Range(q) \ {x}
        BY <2>9, <2>15
    <2>17. Ing(t) = Ing(s) \ {x}
        <3>1. ASSUME NEW y \in Program
              PROVE  y \in Range(t.ingress[Home(y).stack])
                        <=> y \in Range(s.ingress[Home(y).stack]) /\ y # x
            <4>1. Home(y).stack \in StackIds
                BY HomeIs
            <4>2. CASE Home(y).stack = k
                BY <2>14, <2>16, <4>2 DEF q
            <4>3. CASE Home(y).stack # k
                BY <2>5, <2>14, <4>1, <4>3
            <4> QED BY <4>2, <4>3
        <3> QED BY <3>1 DEF Ing
    <2>18. Que(t) = Que(s) \cup {x}
        <3>1. ASSUME NEW y \in Program
              PROVE  y \in Range(t.ctrl[ControllerOf(y)].queue)
                        <=> y \in Range(s.ctrl[ControllerOf(y)].queue) \/ y = x
            <4>1. ControllerOf(y) \in Controllers
                BY HomeIs
            <4>2. CASE ControllerOf(y) = c
                BY <2>10, <2>14, <4>2 DEF p
            <4>3. CASE ControllerOf(y) # c
                BY <2>14, <4>1, <4>3 DEF c
            <4> QED BY <4>2, <4>3
        <3> QED BY <2>4, <3>1 DEF Que
    <2>19. Ans(t) = Ans(s)
        <3>1. \A y \in Program : t.ctrl[ControllerOf(y)].answers = s.ctrl[ControllerOf(y)].answers
            BY <2>14, HomeIs
        <3> QED BY <3>1 DEF Ans
    <2>20. x \notin Que(s) /\ x \notin Ans(s) /\ x \in T
        BY <2>5 DEF Flow
    <2>21. Queues(t)
        <3>0. Queues(s)
            BY DEF Flow
        <3>1. ASSUME NEW l \in StackIds
              PROVE  /\ \A y \in Range(t.ingress[l]) : Home(y).stack = l
                     /\ \A a, b \in DOMAIN t.ingress[l] :
                           a < b => Before(t.ingress[l][a], t.ingress[l][b])
            <4>1. CASE l = k
                <5>1. \A y \in Range(r) : Home(y).stack = l
                    BY <2>16, <3>0, <4>1 DEF Queues, q
                <5>2. \A a, b \in DOMAIN r : a < b => Before(r[a], r[b])
                    BY <2>2, <2>9
                <5> QED BY <2>14, <4>1, <5>1, <5>2
            <4>2. CASE l # k
                BY <2>14, <3>0, <4>2 DEF Queues
            <4> QED BY <4>1, <4>2
        <3>2. ASSUME NEW d \in Controllers
              PROVE  /\ IsInjective(t.ctrl[d].queue) /\ IsInjective(t.ctrl[d].answers)
                     /\ \A y \in Range(t.ctrl[d].queue) \cup Range(t.ctrl[d].answers) :
                           ControllerOf(y) = d
            <4>1. CASE d = c
                <5>1. x \notin Range(p) /\ IsInjective(p)
                    <6>1. x \in Program /\ x \notin Que(s)
                        BY <2>4, <2>20
                    <6> QED BY <2>6, <3>0, <6>1 DEF Queues, Que, p, c
                <5>2. IsInjective(u)
                    BY <2>10, <5>1
                <5>3. \A y \in Range(u) : ControllerOf(y) = c
                    <6>1. ControllerOf(x) = c
                        BY DEF c
                    <6>2. \A y \in Range(p) : ControllerOf(y) = c
                        BY <2>6, <3>0 DEF Queues, p
                    <6> QED BY <2>10, <6>1, <6>2
                <5> QED BY <2>14, <3>0, <4>1, <5>2, <5>3 DEF Queues
            <4>2. CASE d # c
                BY <2>14, <3>0, <4>2 DEF Queues
            <4> QED BY <4>1, <4>2
        <3> QED BY <3>1, <3>2 DEF Queues
    <2>22. ASSUME NEW y \in T, NEW z \in T, Before(y, z), ClassOf(y) = ClassOf(z)
           PROVE  /\ y \in Ing(t) => z \in Ing(t)
                  /\ y \in Que(t) => z \in Ing(t) \cup Que(t)
        <3>1. y \in Program /\ z \in Program
            OBVIOUS
        <3>2. /\ y \in Ing(s) => z \in Ing(s)
              /\ y \in Que(s) => z \in Ing(s) \cup Que(s)
            BY <2>22 DEF Flow
        <3>3. ASSUME y \in Ing(s), z = x PROVE FALSE
            <4>1. Home(y).stack = k
                BY <2>5, <2>22, <3>1, <3>3, ClassIs
            <4>2. y \in Range(q)
                BY <3>3, <4>1 DEF Ing, q
            <4>3. PICK j \in DOMAIN q : q[j] = y
                BY <4>2 DEF Range
            <4> QED BY <2>3, <2>22, <3>3, <4>3
        <3> QED BY <2>5, <2>17, <2>18, <3>2, <3>3
    <2>23. ASSUME NEW d \in Controllers, NEW a \in DOMAIN t.ctrl[d].queue,
                  NEW b \in DOMAIN t.ctrl[d].queue,
                  Before(t.ctrl[d].queue[a], t.ctrl[d].queue[b]),
                  ClassOf(t.ctrl[d].queue[a]) = ClassOf(t.ctrl[d].queue[b])
           PROVE  a < b
        <3>1. CASE d # c
            BY <2>14, <2>23, <3>1 DEF Flow
        <3>2. CASE d = c
            <4>1. a \in 1 .. Len(p) + 1 /\ b \in 1 .. Len(p) + 1
                  /\ Before(u[a], u[b]) /\ ClassOf(u[a]) = ClassOf(u[b])
                BY <2>10, <2>14, <2>23, <3>2
            <4>2. CASE a \in 1 .. Len(p) /\ b \in 1 .. Len(p)
                <5>1. Before(p[a], p[b]) /\ ClassOf(p[a]) = ClassOf(p[b])
                    BY <2>10, <4>1, <4>2
                <5> QED BY <2>6, <2>10, <4>2, <5>1 DEF Flow, p
            <4>3. CASE a = Len(p) + 1 /\ b = Len(p) + 1
                BY <2>4, <2>10, <4>1, <4>3, BeforeOrders
            <4>4. CASE a = Len(p) + 1 /\ b \in 1 .. Len(p)
                <5>1. PICK z : z = p[b]
                    OBVIOUS
                <5>2. Before(x, z) /\ ClassOf(x) = ClassOf(z) /\ z \in Range(p)
                    BY <2>10, <4>1, <4>4, <5>1 DEF Range
                <5>3. z \in Que(s)
                    BY <2>6, <5>2, WhereIs DEF Flow, p
                <5>4. z \in T /\ z \notin Ing(s)
                    BY <5>3 DEF Flow
                <5> QED BY <2>5, <2>20, <5>2, <5>4 DEF Flow
            <4>5. CASE a \in 1 .. Len(p) /\ b = Len(p) + 1
                BY <2>10, <4>5
            <4> QED BY <2>10, <4>1, <4>2, <4>3, <4>4, <4>5
        <3> QED BY <3>1, <3>2
    <2>24. Flow(t, T)
        <3>1. Ing(t) \cap Que(t) = {} /\ Ing(t) \cap Ans(t) = {} /\ Que(t) \cap Ans(t) = {}
            BY <2>17, <2>18, <2>19, <2>20 DEF Flow
        <3>2. Ing(t) \cup Que(t) \cup Ans(t) \subseteq T
            BY <2>17, <2>18, <2>19, <2>20 DEF Flow
        <3> QED BY <2>21, <2>22, <2>23, <3>1, <3>2 DEF Flow
    <2> QED BY <2>5, <2>12, <2>13, <2>17, <2>18, <2>19, <2>24 DEF t
<1> QED BY <1>1, <1>2

\* What slots may make of a system.
Moved(s, T) ==
    {t \in Systems : /\ Flow(t, T) /\ SameBooks(s, t)
                     /\ Ing(t) \cup Que(t) = Ing(s) \cup Que(s) /\ Ans(t) = Ans(s)}

\* So do all slots of all stacks.
LEMMA DispatchedIs ==
    ASSUME conf \in Configurations, sys \in Systems, NEW T \in SUBSET Program, Flow(sys, T)
    PROVE  Dispatched \in Moved(sys, T)
<1> DEFINE M == StackCount * Width
           K(n) == (n - 1) \div Width
           F(f) == [n \in 0 .. M |-> IF n = 0 THEN sys
                      ELSE CHOOSE t \in {DispatchOne(s, K(n)) : s \in {f[n - 1]}} : TRUE]
           G == Moved(sys, T)
<1>1. M \in Nat /\ Width \in Nat \ {0} /\ StackCount \in Nat \ {0}
    <2>1. Width \in Nat \ {0} /\ StackCount \in Nat \ {0}
        BY StackAssumption, DepthAssumption
    <2> QED BY <2>1
<1>2. ASSUME NEW n \in 1 .. M PROVE K(n) \in StackIds /\ n - 1 \in 0 .. M
    <2>1. PICK w : w = K(n)
        OBVIOUS
    <2>2. n - 1 \in Nat /\ n - 1 \in 0 .. M
        BY <1>1
    <2>3. w \in Nat /\ n - 1 = w * Width + ((n - 1) % Width) /\ (n - 1) % Width \in 0 .. Width - 1
        <3> HIDE DEF M
        <3> QED BY <1>1, <2>1, <2>2, Division
    <2>4. w < StackCount
        <3>1. SUFFICES ASSUME StackCount <= w PROVE FALSE
            BY <1>1, <2>3
        <3>2. StackCount * Width <= w * Width
            BY <1>1, <2>3, <3>1
        <3>3. w * Width \in Nat
            BY <1>1, <2>3
        <3>4. w * Width <= n - 1
            BY <2>2, <2>3, <3>3
        <3>5. n - 1 < M
            BY <1>1
        <3> QED BY <1>1, <2>2, <3>2, <3>3, <3>4, <3>5
    <2> QED BY <1>1, <2>1, <2>2, <2>3, <2>4 DEF StackIds
<1> HIDE DEF M, K
<1>3. ASSUME NEW s \in G, NEW n \in 1 .. M PROVE DispatchOne(s, K(n)) \in G
    <2>1. s \in Systems /\ Flow(s, T) /\ SameBooks(sys, s)
          /\ Ing(s) \cup Que(s) = Ing(sys) \cup Que(sys) /\ Ans(s) = Ans(sys)
        BY DEF Moved
    <2>2. PICK t : t = DispatchOne(s, K(n))
        OBVIOUS
    <2>3. t \in Systems /\ Flow(t, T) /\ SameBooks(s, t)
          /\ Ing(t) \cup Que(t) = Ing(s) \cup Que(s) /\ Ans(t) = Ans(s)
        BY <1>2, <2>1, <2>2, DispatchFlow
    <2>4. SameBooks(sys, t)
        BY <2>1, <2>3 DEF SameBooks
    <2> QED BY <2>1, <2>2, <2>3, <2>4 DEF Moved
<1>4. sys \in G
    BY DEF Moved, SameBooks
<1>5. \A a, b : (CHOOSE t \in {DispatchOne(s, a) : s \in {b}} : TRUE) = DispatchOne(b, a)
    OBVIOUS
<1> HIDE DEF G
<1>6. \E f : f = F(f)
    <2> DEFINE h == [n \in 1 .. M |-> [s \in G |-> DispatchOne(s, K(n))]]
    <2>1. \A n \in 1 .. M, s \in G : h[n][s] = DispatchOne(s, K(n))
        OBVIOUS
    <2> HIDE DEF h
    <2>2. StaysIn(M, G, h)
        BY <1>3, <2>1 DEF StaysIn
    <2>3. PICK f \in [0 .. M -> G] : IsLoop(f, M, sys, h)
        BY <1>1, <1>4, <2>2, LoopExists
    <2>4. f[0] = sys /\ 0 \in 0 .. M /\ \A n \in 0 .. M : n = 0 \/ n \in 1 .. M
        BY <1>1, <2>3 DEF IsLoop
    <2>5. \A n \in 1 .. M : f[n] = DispatchOne(f[n - 1], K(n))
        BY <1>2, <2>1, <2>3 DEF IsLoop
    <2> DEFINE g == F(f)
    <2>6. \A n \in 0 .. M : g[n] = IF n = 0 THEN sys ELSE DispatchOne(f[n - 1], K(n))
        BY <1>5
    <2>7. \A n \in 0 .. M : f[n] = g[n]
        <3> HIDE DEF g
        <3> QED BY <2>4, <2>5, <2>6
    <2>8. f = [n \in 0 .. M |-> f[n]] /\ g = [n \in 0 .. M |-> g[n]]
        OBVIOUS
    <2>9. f = g
        <3> HIDE DEF g
        <3> QED BY <2>7, <2>8
    <2> QED BY <2>9
<1> DEFINE f == CHOOSE f : f = F(f)
<1>7. f = F(f)
    BY <1>6
<1>8. Dispatched = f[M]
    BY DEF Dispatched, M, K
<1>9. f[0] = sys /\ \A n \in 1 .. M : f[n] = DispatchOne(f[n - 1], K(n))
    <2> DEFINE g == F(f)
    <2>1. \A n \in 0 .. M : g[n] = IF n = 0 THEN sys ELSE DispatchOne(f[n - 1], K(n))
        BY <1>5
    <2>2. f = g
        BY <1>7
    <2>3. 0 \in 0 .. M /\ \A n \in 1 .. M : n \in 0 .. M /\ n # 0
        BY <1>1
    <2> HIDE DEF g, f
    <2> QED BY <2>1, <2>2, <2>3
<1> HIDE DEF f
<1> DEFINE H == {n \in 0 .. M : f[n] \in G}
<1>10. 0 \in H
    BY <1>1, <1>4, <1>9
<1>11. \A n \in 1 .. M : n - 1 \in H => n \in H
    <2>1. \A n \in 1 .. M : n \in 0 .. M
        BY <1>1
    <2> QED BY <1>3, <1>9, <2>1
<1> HIDE DEF H
<1>12. M \in H
    <2>1. \A n \in 0 .. M : n \in H
        BY <1>1, <1>10, <1>11, EveryTurn
    <2>2. M \in 0 .. M
        BY <1>1
    <2> QED BY <2>1, <2>2
<1> QED BY <1>8, <1>12 DEF H, G
-----------------------------------------------------------------------------
(* What the controllers serve                                                *)

\* The controllers serve S: the first of each class they hold.
LEMMA ServeFlow ==
    ASSUME conf \in Configurations, NEW s \in Systems, NEW T \in SUBSET Program, Flow(s, T),
           NEW S \in Servable(s)
    PROVE  /\ ServedBy(s, S) \in Systems /\ Flow(ServedBy(s, S), T)
           /\ SameBooks(s, ServedBy(s, S))
           /\ S \subseteq Que(s)
           /\ Ing(ServedBy(s, S)) = Ing(s)
           /\ Que(ServedBy(s, S)) = Que(s) \ S /\ Ans(ServedBy(s, S)) = Ans(s) \cup S
<1> DEFINE q(c) == s.ctrl[c].queue
           a(c) == s.ctrl[c].answers
           left(c) == Chosen(q(c), Range(q(c)) \ S)
           done(c) == Chosen(q(c), S)
           t == ServedBy(s, S)
<1>1. ASSUME NEW c \in Controllers
      PROVE  /\ q(c) \in Seq(Program) /\ a(c) \in Seq(Program)
             /\ IsInjective(q(c)) /\ IsInjective(a(c))
             /\ Range(q(c)) = {x \in Que(s) : ControllerOf(x) = c}
             /\ Range(a(c)) = {x \in Ans(s) : ControllerOf(x) = c}
    <2>1. Queues(s)
        BY DEF Flow
    <2>2. q(c) \in Seq(Program) /\ a(c) \in Seq(Program)
        BY DEF Systems
    <2>3. IsInjective(q(c)) /\ IsInjective(a(c))
        BY <2>1 DEF Queues
    <2> QED BY <2>1, <2>2, <2>3, WhereIs
<1>2. S \subseteq Que(s)
    <2>1. Queued(s) \subseteq Que(s)
        BY <1>1 DEF Queued
    <2> QED BY <2>1 DEF Servable
<1>3. ASSUME NEW c \in Controllers
      PROVE  /\ left(c) \in Seq(Program) /\ Range(left(c)) = Range(q(c)) \ S
             /\ IsInjective(left(c))
             /\ \A j, k \in DOMAIN left(c) : j < k =>
                   \E m, n \in DOMAIN q(c) : m < n /\ q(c)[m] = left(c)[j] /\ q(c)[n] = left(c)[k]
             /\ done(c) \in Seq(Program) /\ Range(done(c)) = Range(q(c)) \cap S
             /\ IsInjective(done(c))
    <2>1. PICK p : p = q(c)
        OBVIOUS
    <2>2. p \in Seq(Program) /\ IsInjective(p)
        BY <1>1, <2>1
    <2>3. PICK u, v : u = left(c) /\ v = done(c)
        OBVIOUS
    <2>4. /\ u \in Seq(Program) /\ Range(u) = Range(p) \cap (Range(p) \ S)
          /\ \A j, k \in DOMAIN u : j < k =>
                \E m, n \in DOMAIN p : m < n /\ p[m] = u[j] /\ p[n] = u[k]
        <3>1. PICK L : L = Range(p) \ S
            OBVIOUS
        <3>2. u = Chosen(p, L)
            BY <2>1, <2>3, <3>1
        <3>3. /\ Chosen(p, L) \in Seq(Program) /\ Range(Chosen(p, L)) = Range(p) \cap L
              /\ \A j, k \in DOMAIN Chosen(p, L) : j < k =>
                    \E m, n \in DOMAIN p : m < n /\ p[m] = Chosen(p, L)[j]
                                                /\ p[n] = Chosen(p, L)[k]
            BY <2>2, ChosenIs
        <3> HIDE DEF q, left, done
        <3>4. /\ u \in Seq(Program) /\ Range(u) = Range(p) \cap L
              /\ \A j, k \in DOMAIN u : j < k =>
                    \E m, n \in DOMAIN p : m < n /\ p[m] = u[j] /\ p[n] = u[k]
            BY <3>2, <3>3
        <3>5. Range(u) = Range(p) \cap (Range(p) \ S)
            BY <3>1, <3>4
        <3> QED BY <3>4, <3>5
    <2>5. /\ v \in Seq(Program) /\ Range(v) = Range(p) \cap S
          /\ \A j, k \in DOMAIN v : j < k =>
                \E m, n \in DOMAIN p : m < n /\ p[m] = v[j] /\ p[n] = v[k]
        <3>1. v = Chosen(p, S)
            BY <2>1, <2>3
        <3> HIDE DEF q, left, done
        <3> QED BY <2>2, <3>1, ChosenIs
    <2>6. \A r \in Seq(Program) :
            (\A j, k \in DOMAIN r : j < k =>
                \E m, n \in DOMAIN p : m < n /\ p[m] = r[j] /\ p[n] = r[k]) => IsInjective(r)
        <3> SUFFICES ASSUME NEW r \in Seq(Program),
                            \A j, k \in DOMAIN r : j < k =>
                               \E m, n \in DOMAIN p : m < n /\ p[m] = r[j] /\ p[n] = r[k]
                     PROVE  IsInjective(r)
            OBVIOUS
        <3>1. DOMAIN r = 1 .. Len(r) /\ DOMAIN p = 1 .. Len(p)
            BY <2>2
        <3>2. ASSUME NEW j \in DOMAIN r, NEW k \in DOMAIN r, j < k PROVE r[j] # r[k]
            <4>1. PICK m \in DOMAIN p, n \in DOMAIN p : m < n /\ p[m] = r[j] /\ p[n] = r[k]
                BY <3>2
            <4>2. m # n
                BY <3>1, <4>1
            <4> QED BY <2>2, <4>1, <4>2 DEF IsInjective
        <3>3. \A j, k \in DOMAIN r : j < k \/ k < j \/ j = k
            BY <3>1
        <3> QED BY <3>2, <3>3 DEF IsInjective
    <2>7. IsInjective(u) /\ IsInjective(v)
        BY <2>4, <2>5, <2>6
    <2>8. Range(u) = Range(p) \ S
        BY <2>4
    <2> HIDE DEF q, left, done
    <2> QED BY <2>1, <2>3, <2>4, <2>5, <2>7, <2>8
<1>4. ASSUME NEW c \in Controllers
      PROVE  /\ a(c) \o done(c) \in Seq(Program)
             /\ Range(a(c) \o done(c)) = Range(a(c)) \cup (Range(q(c)) \cap S)
             /\ IsInjective(a(c) \o done(c))
    <2>1. Range(a(c)) \cap Range(done(c)) = {}
        <3>1. Que(s) \cap Ans(s) = {}
            BY DEF Flow
        <3> HIDE DEF q, a, done
        <3> QED BY <1>1, <1>3, <3>1
    <2>2. PICK u, v, w : u = a(c) /\ v = done(c) /\ w = Range(q(c)) \cap S
        OBVIOUS
    <2>3. /\ u \in Seq(Program) /\ v \in Seq(Program) /\ IsInjective(u) /\ IsInjective(v)
          /\ Range(u) \cap Range(v) = {} /\ Range(v) = w
        <3> HIDE DEF q, a, done
        <3> QED BY <1>1, <1>3, <2>1, <2>2
    <2>4. u \o v \in Seq(Program) /\ Range(u \o v) = Range(u) \cup w /\ IsInjective(u \o v)
        BY <2>3, RangeConcat
    <2> HIDE DEF q, a, done
    <2> QED BY <2>2, <2>4
<1>5. /\ t.ctrl = [c \in Controllers |-> [queue |-> left(c), answers |-> a(c) \o done(c)]]
      /\ t.ingress = s.ingress /\ SameBooks(s, t)
      /\ t = [ingress |-> t.ingress, ctrl |-> t.ctrl, submissions |-> t.submissions,
              assemblies |-> t.assemblies, hostq |-> t.hostq, txnq |-> t.txnq,
              failed |-> t.failed]
    <2> DEFINE C == [c \in Controllers |-> [queue |-> left(c), answers |-> a(c) \o done(c)]]
    <2>1. t = [s EXCEPT !.ctrl = C]
        BY DEF ServedBy
    <2> HIDE DEF C, t
    <2> QED BY <2>1 DEF Systems, SameBooks, C
<1> HIDE DEF q, a, left, done, t
<1>6. \A c \in Controllers : t.ctrl[c].queue = left(c) /\ t.ctrl[c].answers = a(c) \o done(c)
    BY <1>5
<1>7. t \in Systems
    <2>1. t.ctrl \in [Controllers -> [queue : Seq(Program), answers : Seq(Program)]]
        BY <1>3, <1>4, <1>5
    <2>2. /\ t.ingress \in [StackIds -> Seq(Program)]
          /\ t.submissions \in Notes /\ t.assemblies \in Collections
          /\ t.hostq \in Seq(Answers) /\ t.txnq \in Seq(Program) /\ t.failed \in BOOLEAN
        BY <1>5 DEF SameBooks, Systems
    <2> QED BY <1>5, <2>1, <2>2 DEF Systems
<1>8. Ing(t) = Ing(s)
    BY <1>5 DEF Ing
<1>9. Que(t) = Que(s) \ S
    <2>1. \A x \in Program : x \in Range(t.ctrl[ControllerOf(x)].queue)
                               <=> x \in Range(s.ctrl[ControllerOf(x)].queue) /\ x \notin S
        BY <1>3, <1>6, HomeIs DEF q
    <2> QED BY <2>1 DEF Que
<1>10. Ans(t) = Ans(s) \cup S
    <2>1. \A x \in Program : x \in Range(t.ctrl[ControllerOf(x)].answers)
                               <=> \/ x \in Range(s.ctrl[ControllerOf(x)].answers)
                                   \/ x \in Range(s.ctrl[ControllerOf(x)].queue) /\ x \in S
        BY <1>4, <1>6, HomeIs DEF q, a
    <2>2. \A x \in S : x \in Program /\ x \in Range(s.ctrl[ControllerOf(x)].queue)
        BY <1>2 DEF Que
    <2> QED BY <2>1, <2>2 DEF Ans
<1>11. Queues(t)
    <2>1. Queues(s)
        BY DEF Flow
    <2>2. \A c \in Controllers :
            /\ IsInjective(t.ctrl[c].queue) /\ IsInjective(t.ctrl[c].answers)
            /\ \A x \in Range(t.ctrl[c].queue) \cup Range(t.ctrl[c].answers) : ControllerOf(x) = c
        BY <1>1, <1>3, <1>4, <1>6
    <2>3. \A k \in StackIds :
            /\ \A x \in Range(t.ingress[k]) : Home(x).stack = k
            /\ \A i, j \in DOMAIN t.ingress[k] :
                  i < j => Before(t.ingress[k][i], t.ingress[k][j])
        BY <1>5, <2>1 DEF Queues
    <2> QED BY <2>2, <2>3 DEF Queues
<1>12. ASSUME NEW x \in T, NEW y \in T, Before(x, y), ClassOf(x) = ClassOf(y)
       PROVE  /\ x \in Ing(t) => y \in Ing(t)
              /\ x \in Que(t) => y \in Ing(t) \cup Que(t)
    <2>1. x \in Program /\ y \in Program
        OBVIOUS
    <2>2. /\ x \in Ing(s) => y \in Ing(s)
          /\ x \in Que(s) => y \in Ing(s) \cup Que(s)
        BY <1>12 DEF Flow
    <2>3. ASSUME x \in Que(s), y \in Que(s), y \in S PROVE x \in S
        <3>1. PICK c \in Controllers : c = ControllerOf(x)
            BY <2>1, HomeIs
        <3>2. Home(x) = Home(y) /\ ControllerOf(y) = c
            BY <1>12, <2>1, <3>1, ClassIs
        <3>3. x \in Range(q(c)) /\ y \in Range(q(c))
            BY <1>1, <2>3, <3>1, <3>2
        <3>4. PICK i \in DOMAIN q(c) : q(c)[i] = x
            BY <3>3 DEF Range
        <3>5. PICK j \in DOMAIN q(c) : q(c)[j] = y
            BY <3>3 DEF Range
        <3>6. i < j
            BY <1>12, <3>4, <3>5 DEF Flow, q
        <3>7. \A m, n \in DOMAIN q(c) :
                m < n /\ Home(q(c)[m]) = Home(q(c)[n]) /\ q(c)[n] \in S => q(c)[m] \in S
            BY DEF Servable, q
        <3> QED BY <2>3, <3>2, <3>4, <3>5, <3>6, <3>7
    <2> QED BY <1>8, <1>9, <2>2, <2>3
<1>13. ASSUME NEW c \in Controllers, NEW i \in DOMAIN t.ctrl[c].queue,
              NEW j \in DOMAIN t.ctrl[c].queue,
              Before(t.ctrl[c].queue[i], t.ctrl[c].queue[j]),
              ClassOf(t.ctrl[c].queue[i]) = ClassOf(t.ctrl[c].queue[j])
       PROVE  i < j
    <2>1. PICK u, p : u = left(c) /\ p = q(c)
        OBVIOUS
    <2>2. u \in Seq(Program) /\ p \in Seq(Program) /\ IsInjective(p)
        BY <1>1, <1>3, <2>1
    <2>3. i \in DOMAIN u /\ j \in DOMAIN u /\ Before(u[i], u[j]) /\ ClassOf(u[i]) = ClassOf(u[j])
        BY <1>6, <1>13, <2>1
    <2>4. DOMAIN u = 1 .. Len(u) /\ DOMAIN p = 1 .. Len(p) /\ u[i] \in Program /\ u[j] \in Program
        BY <2>2, <2>3
    <2>5. i # j
        BY <2>3, <2>4, BeforeOrders
    <2>6. ASSUME j < i PROVE FALSE
        <3>1. PICK m \in DOMAIN p, n \in DOMAIN p : m < n /\ p[m] = u[j] /\ p[n] = u[i]
            BY <1>3, <2>1, <2>3, <2>6
        <3>2. n < m
            BY <2>1, <2>3, <3>1 DEF Flow, q
        <3> QED BY <2>4, <3>1, <3>2
    <2> QED BY <2>3, <2>4, <2>5, <2>6
<1>14. Flow(t, T)
    <2>1. /\ Ing(t) \cap Que(t) = {} /\ Ing(t) \cap Ans(t) = {} /\ Que(t) \cap Ans(t) = {}
          /\ Ing(t) \cup Que(t) \cup Ans(t) \subseteq T
        BY <1>2, <1>8, <1>9, <1>10 DEF Flow
    <2> QED BY <1>11, <1>12, <1>13, <2>1 DEF Flow
<1> QED BY <1>2, <1>5, <1>7, <1>8, <1>9, <1>10, <1>14 DEF t
-----------------------------------------------------------------------------
(* The collection of an answer                                               *)

\* All parts of a request are as many as its transactions.
LEMMA AllOf ==
    ASSUME conf \in Configurations, NEW g \in Hosts, NEW S \in SUBSET Indices(g)
    PROVE  /\ IsFiniteSet(S) /\ Cardinality(S) \in Nat /\ S \in SUBSET Nat
           /\ Cardinality(S) <= Len(Request(g).txns)
           /\ Cardinality(S) = Len(Request(g).txns) <=> S = Indices(g)
<1>1. PICK n \in Nat : n = Len(Request(g).txns) /\ Indices(g) = 1 .. n
    BY RequestIs
<1>2. IsFiniteSet(1 .. n) /\ Cardinality(1 .. n) = n
    BY <1>1, FS_Interval
<1>3. /\ IsFiniteSet(S) /\ Cardinality(S) <= Cardinality(1 .. n)
      /\ Cardinality(1 .. n) = Cardinality(S) => 1 .. n = S
    BY <1>1, <1>2, FS_Subset
<1>4. Cardinality(S) \in Nat
    BY <1>3, FS_CardinalityType
<1>5. S \in SUBSET Nat
    BY <1>1
<1> QED BY <1>1, <1>2, <1>3, <1>4, <1>5

\* One transaction more of its request, and none of another's.
LEMMA OneMore ==
    ASSUME conf \in Configurations, NEW C \in SUBSET Program, NEW x \in Program, x \notin C
    PROVE  /\ x.host \in Hosts /\ x.index \in Indices(x.host)
           /\ x.index \notin Of(C, x.host)
           /\ Of(C \cup {x}, x.host) = Of(C, x.host) \cup {x.index}
           /\ \A h \in Hosts : h # x.host => Of(C \cup {x}, h) = Of(C, h)
           /\ Cardinality(Of(C, x.host)) \in Nat
           /\ Cardinality(Of(C \cup {x}, x.host)) = Cardinality(Of(C, x.host)) + 1
<1>1. x.host \in Hosts /\ x.index \in Indices(x.host) /\ x = Part(x.host, x.index)
    BY ProgramIs
<1>2. x.index \notin Of(C, x.host)
    BY <1>1 DEF Of
<1>3. \A g, h, k, l : Part(g, k) = Part(h, l) => g = h /\ k = l
    BY DEF Part
<1>4. Of(C \cup {x}, x.host) = Of(C, x.host) \cup {x.index}
    BY <1>1, <1>3 DEF Of
<1>5. \A h \in Hosts : h # x.host => Of(C \cup {x}, h) = Of(C, h)
    BY <1>1, <1>3 DEF Of
<1>6. IsFiniteSet(Of(C, x.host)) /\ Cardinality(Of(C, x.host)) \in Nat
    <2>1. Of(C, x.host) \in SUBSET Indices(x.host)
        BY DEF Of
    <2> QED BY <1>1, <2>1, AllOf
<1>7. Cardinality(Of(C, x.host) \cup {x.index}) = Cardinality(Of(C, x.host)) + 1
    BY <1>2, <1>6, FS_AddElement
<1> QED BY <1>1, <1>2, <1>4, <1>5, <1>6, <1>7

\* A transaction's answer leaves its controller.
LEMMA CollectFlow ==
    ASSUME conf \in Configurations, NEW s \in Systems, NEW T \in SUBSET Program, Flow(s, T),
           NEW c \in Controllers, s.ctrl[c].answers # <<>>,
           NEW t \in Systems, t.ingress = s.ingress,
           t.ctrl = [s.ctrl EXCEPT ![c].answers = Tail(@)]
    PROVE  /\ Flow(t, T) /\ Ing(t) = Ing(s) /\ Que(t) = Que(s)
           /\ Head(s.ctrl[c].answers) \in Ans(s)
           /\ Ans(t) = Ans(s) \ {Head(s.ctrl[c].answers)}
<1> DEFINE a == s.ctrl[c].answers
           x == Head(a)
           b == Tail(a)
<1>0. Queues(s)
    BY DEF Flow
<1>1. a \in Seq(Program) /\ a # <<>> /\ IsInjective(a)
    BY <1>0 DEF Systems, Queues
<1>2. /\ x \in Program /\ b \in Seq(Program) /\ x \in Range(a)
      /\ Range(b) = Range(a) \ {x} /\ IsInjective(b)
    <2> HIDE DEF a
    <2>1. /\ x \in Program /\ b \in Seq(Program) /\ x \in Range(a)
          /\ Range(a) = Range(b) \cup {x}
          /\ IsInjective(a) => IsInjective(b) /\ x \notin Range(b)
        BY <1>1, RangeTail
    <2> HIDE DEF x, b
    <2> QED BY <1>1, <2>1
<1>3. ControllerOf(x) = c /\ x \in Ans(s)
    BY <1>0, <1>2 DEF Queues, Ans
<1>4. /\ \A d \in Controllers : t.ctrl[d].queue = s.ctrl[d].queue
      /\ t.ctrl[c].answers = b
      /\ \A d \in Controllers : d # c => t.ctrl[d].answers = s.ctrl[d].answers
    BY DEF Systems
<1> HIDE DEF a, x, b
<1>5. Ing(t) = Ing(s)
    BY DEF Ing
<1>6. Que(t) = Que(s)
    <2>1. \A y \in Program : ControllerOf(y) \in Controllers
        BY HomeIs
    <2> QED BY <1>4, <2>1 DEF Que
<1>7. Ans(t) = Ans(s) \ {x}
    <2>1. ASSUME NEW y \in Program
          PROVE  y \in Range(t.ctrl[ControllerOf(y)].answers)
                    <=> y \in Range(s.ctrl[ControllerOf(y)].answers) /\ y # x
        <3>1. ControllerOf(y) \in Controllers
            BY HomeIs
        <3>2. CASE ControllerOf(y) = c
            BY <1>2, <1>4, <3>2 DEF a
        <3>3. CASE ControllerOf(y) # c
            BY <1>3, <1>4, <3>1, <3>3
        <3> QED BY <3>2, <3>3
    <2> QED BY <2>1 DEF Ans
<1>8. Queues(t)
    <2>1. ASSUME NEW d \in Controllers
          PROVE  /\ IsInjective(t.ctrl[d].queue) /\ IsInjective(t.ctrl[d].answers)
                 /\ \A y \in Range(t.ctrl[d].queue) \cup Range(t.ctrl[d].answers) :
                       ControllerOf(y) = d
        <3>1. CASE d = c
            <4>1. \A y \in Range(b) : ControllerOf(y) = d
                BY <1>0, <1>2, <3>1 DEF Queues, a
            <4> QED BY <1>0, <1>2, <1>4, <3>1, <4>1 DEF Queues
        <3>2. CASE d # c
            BY <1>0, <1>4, <3>2 DEF Queues
        <3> QED BY <3>1, <3>2
    <2>2. \A k \in StackIds :
            /\ \A y \in Range(t.ingress[k]) : Home(y).stack = k
            /\ \A i, j \in DOMAIN t.ingress[k] :
                  i < j => Before(t.ingress[k][i], t.ingress[k][j])
        BY <1>0 DEF Queues
    <2> QED BY <2>1, <2>2 DEF Queues
<1>9. \A d \in Controllers : \A i, j \in DOMAIN t.ctrl[d].queue :
        LET y == t.ctrl[d].queue[i]
            z == t.ctrl[d].queue[j]
        IN  Before(y, z) /\ ClassOf(y) = ClassOf(z) => i < j
    BY <1>4 DEF Flow
<1>10. Flow(t, T)
    <2>1. /\ Ing(t) \cap Que(t) = {} /\ Ing(t) \cap Ans(t) = {} /\ Que(t) \cap Ans(t) = {}
          /\ Ing(t) \cup Que(t) \cup Ans(t) \subseteq T
        BY <1>5, <1>6, <1>7 DEF Flow
    <2>2. \A y, z \in T : Before(y, z) /\ ClassOf(y) = ClassOf(z) =>
            /\ y \in Ing(t) => z \in Ing(t)
            /\ y \in Que(t) => z \in Ing(t) \cup Que(t)
        BY <1>5, <1>6 DEF Flow
    <2> QED BY <1>8, <1>9, <2>1, <2>2 DEF Flow
<1> QED BY <1>3, <1>5, <1>6, <1>7, <1>10 DEF a, x

\* The tags change as a transaction is noted complete.
SameButTags(s, t) ==
    /\ t.ingress = s.ingress /\ t.ctrl = s.ctrl /\ t.assemblies = s.assemblies
    /\ t.hostq = s.hostq /\ t.txnq = s.txnq /\ t.failed = s.failed

\* A note of tags may be dropped, or changed.
LEMMA NotesStay ==
    ASSUME NEW n \in Notes, NEW tag \in Nat, NEW note \in Note
    PROVE  /\ DOMAIN n \in SUBSET Nat
           /\ Restrict(n, DOMAIN n \ {tag}) \in Notes
           /\ DOMAIN Restrict(n, DOMAIN n \ {tag}) = DOMAIN n \ {tag}
           /\ \A k \in DOMAIN n \ {tag} : Restrict(n, DOMAIN n \ {tag})[k] = n[k]
           /\ tag \in DOMAIN n => [n EXCEPT ![tag] = note] \in Notes
           /\ Put(n, tag, note) \in Notes
           /\ DOMAIN Put(n, tag, note) = DOMAIN n \cup {tag}
           /\ Put(n, tag, note)[tag] = note
           /\ \A k \in DOMAIN n \ {tag} : Put(n, tag, note)[k] = n[k]
<1>1. PICK D \in SUBSET Nat : n \in [D -> Note]
    BY DEF Notes
<1>2. DOMAIN n = D /\ \A k \in D : n[k] \in Note
    BY <1>1
<1>3. /\ Restrict(n, D \ {tag}) \in [D \ {tag} -> Note] /\ D \ {tag} \in SUBSET Nat
      /\ \A k \in D \ {tag} : Restrict(n, D \ {tag})[k] = n[k]
    BY <1>2 DEF Restrict
<1>4. tag \in D => [n EXCEPT ![tag] = note] \in [D -> Note]
    BY <1>1
<1>5. /\ Put(n, tag, note) \in [D \cup {tag} -> Note] /\ D \cup {tag} \in SUBSET Nat
      /\ Put(n, tag, note)[tag] = note
      /\ \A k \in D \ {tag} : Put(n, tag, note)[k] = n[k]
    BY <1>2 DEF Put
<1>6. \A E \in SUBSET Nat : \A m \in [E -> Note] : m \in Notes /\ DOMAIN m = E
    BY DEF Notes
<1> HIDE DEF Notes, Note
<1> QED BY <1>1, <1>2, <1>3, <1>4, <1>5, <1>6

\* record_completed_transaction counts the part, and frees the tag of the last one if
\* there is no answer for the whole.
LEMMA CompletedIs ==
    ASSUME conf \in Configurations, NEW s \in Systems, NEW T \in SUBSET Program,
           NEW C \in SUBSET T, NEW G, NEW x \in T, x \notin C,
           x.host \in Live(T, C, G), Tags(s, T, C, G)
    PROVE  /\ Completed(s, x) \in Systems /\ SameButTags(s, Completed(s, x))
           /\ Tags(Completed(s, x), T, C \cup {x}, G)
<1> DEFINE g == x.host
           tag == TagOf(g)
           n == Len(Request(g).txns)
           D == C \cup {x}
           old == s.submissions[tag]
           sub == [old EXCEPT !.completed = @ + 1]
           over == sub.completed >= sub.count /\ ~RetainsHost
           t == Completed(s, x)
<1>1. /\ g \in Hosts /\ x.index \in Indices(g) /\ x.index \notin Of(C, g)
      /\ Of(D, g) = Of(C, g) \cup {x.index} /\ \A h \in Hosts : h # g => Of(D, h) = Of(C, h)
      /\ Cardinality(Of(C, g)) \in Nat /\ Cardinality(Of(D, g)) = Cardinality(Of(C, g)) + 1
    BY OneMore
<1>2. tag \in Nat /\ n \in Nat /\ Request(g).write \in BOOLEAN
    BY <1>1, RequestIs
<1>3. Of(T, g) \in SUBSET Nat /\ Cardinality(Of(D, g)) \in Nat
      /\ (Cardinality(Of(D, g)) >= n <=> Of(D, g) = Indices(g))
    <2>1. Of(T, g) \in SUBSET Indices(g) /\ Of(D, g) \in SUBSET Indices(g)
        BY DEF Of
    <2> HIDE DEF g, n, D
    <2>2. /\ Of(T, g) \in SUBSET Nat /\ Cardinality(Of(D, g)) \in Nat
          /\ Cardinality(Of(D, g)) <= Len(Request(g).txns)
          /\ Cardinality(Of(D, g)) = Len(Request(g).txns) <=> Of(D, g) = Indices(g)
        BY <1>1, <2>1, AllOf
    <2> QED BY <1>2, <2>2 DEF n
<1>4. old = [count |-> n, write |-> Request(g).write, accepted |-> Of(T, g),
             completed |-> Cardinality(Of(C, g))]
    BY DEF Tags
<1>5. /\ sub = [count |-> n, write |-> Request(g).write, accepted |-> Of(T, g),
                completed |-> Cardinality(Of(D, g))]
      /\ sub.completed = Cardinality(Of(D, g)) /\ sub.count = n
    <2> HIDE DEF g, tag, n, D, old
    <2> QED BY <1>1, <1>4
<1>6. sub \in Note
    <2> HIDE DEF g, tag, n, D, old, sub
    <2> QED BY <1>2, <1>3, <1>5 DEF Note
<1>7. over <=> Of(D, g) = Indices(g) /\ ~RetainsHost
    <2> HIDE DEF g, tag, n, D, old, sub
    <2> QED BY <1>3, <1>5
<1>8. Tag(x) = tag /\ tag \in DOMAIN s.submissions
      /\ DOMAIN s.submissions = TagsOf(Live(T, C, G))
    BY DEF Tags, TagsOf, Tag, TagOf
<1>9. s.submissions \in Notes
    BY DEF Systems
<1> DEFINE less == Restrict(s.submissions, DOMAIN s.submissions \ {tag})
           more == [s.submissions EXCEPT ![tag] = sub]
<1>10. /\ less \in Notes /\ more \in Notes
       /\ DOMAIN less = DOMAIN s.submissions \ {tag}
       /\ \A k \in DOMAIN s.submissions \ {tag} : less[k] = s.submissions[k]
    <2> HIDE DEF sub, tag
    <2> QED BY <1>2, <1>6, <1>8, <1>9, NotesStay
<1>11. DOMAIN more = DOMAIN s.submissions /\ more[tag] = sub
       /\ \A k \in DOMAIN s.submissions \ {tag} : more[k] = s.submissions[k]
    <2>1. PICK m \in Notes : m = s.submissions
        BY <1>9
    <2>2. PICK E \in SUBSET Nat : m \in [E -> Note]
        BY DEF Notes
    <2> HIDE DEF sub, tag
    <2> QED BY <1>8, <2>1, <2>2
<1>12. t = IF over THEN [s EXCEPT !.submissions = less]
           ELSE [s EXCEPT !.submissions = more]
    BY <1>8 DEF Completed
<1> HIDE DEF g, tag, n, D, old, sub, over, less, more, t
<1>13. /\ t \in Systems /\ SameButTags(s, t)
       /\ t.submissions = IF over THEN less ELSE more
    <2>1. CASE over
        BY <1>10, <1>12, <2>1 DEF Systems, SameButTags
    <2>2. CASE ~over
        BY <1>10, <1>12, <2>2 DEF Systems, SameButTags
    <2> QED BY <2>1, <2>2
<1>14. Tags(t, T, D, G)
    <2>0. g \in Live(T, C, G) /\ \A h \in Live(T, C, G) : h \in Hosts
        BY DEF Live, g
    <2>1. \A h \in Live(T, C, G) : h # g => TagOf(h) # tag
        BY <2>0 DEF Tags, TagsDiffer, tag
    <2>2. CASE over
        <3>1. Live(T, D, G) = Live(T, C, G) \ {g}
            BY <1>1, <1>7, <2>2 DEF Live
        <3>2. DOMAIN t.submissions = TagsOf(Live(T, D, G))
            BY <1>8, <1>10, <1>13, <2>1, <2>2, <3>1 DEF TagsOf, tag
        <3>3. ASSUME NEW h \in Live(T, D, G)
              PROVE  t.submissions[TagOf(h)] =
                        [count |-> Len(Request(h).txns), write |-> Request(h).write,
                         accepted |-> Of(T, h), completed |-> Cardinality(Of(D, h))]
            <4>1. h \in Live(T, C, G) /\ h # g /\ TagOf(h) # tag
                BY <2>1, <3>1
            <4>2. TagOf(h) \in DOMAIN s.submissions
                BY <1>8, <4>1 DEF TagsOf
            <4>3. t.submissions[TagOf(h)] = s.submissions[TagOf(h)]
                BY <1>10, <1>13, <2>2, <4>1, <4>2
            <4>4. Of(D, h) = Of(C, h)
                BY <1>1, <2>0, <4>1
            <4> QED BY <4>1, <4>3, <4>4 DEF Tags
        <3>4. TagsDiffer(Live(T, D, G))
            BY <3>1 DEF Tags, TagsDiffer
        <3> QED BY <3>2, <3>3, <3>4 DEF Tags
    <2>3. CASE ~over
        <3>1. Live(T, D, G) = Live(T, C, G)
            BY <1>1, <1>7, <2>0, <2>3 DEF Live
        <3>2. DOMAIN t.submissions = TagsOf(Live(T, D, G))
            BY <1>8, <1>11, <1>13, <2>3, <3>1
        <3>3. ASSUME NEW h \in Live(T, D, G)
              PROVE  t.submissions[TagOf(h)] =
                        [count |-> Len(Request(h).txns), write |-> Request(h).write,
                         accepted |-> Of(T, h), completed |-> Cardinality(Of(D, h))]
            <4>1. CASE h = g
                BY <1>5, <1>11, <1>13, <2>3, <4>1 DEF tag, n
            <4>2. CASE h # g
                <5>1. h \in Live(T, C, G) /\ TagOf(h) # tag
                    BY <2>1, <3>1, <4>2
                <5>2. TagOf(h) \in DOMAIN s.submissions
                    BY <1>8, <5>1 DEF TagsOf
                <5>3. t.submissions[TagOf(h)] = s.submissions[TagOf(h)]
                    BY <1>11, <1>13, <2>3, <5>1, <5>2
                <5>4. Of(D, h) = Of(C, h)
                    BY <1>1, <2>0, <4>2, <5>1
                <5> QED BY <5>1, <5>3, <5>4 DEF Tags
            <4> QED BY <4>1, <4>2
        <3>4. TagsDiffer(Live(T, D, G))
            BY <3>1 DEF Tags, TagsDiffer
        <3> QED BY <3>2, <3>3, <3>4 DEF Tags
    <2> QED BY <2>2, <2>3
<1> QED BY <1>13, <1>14 DEF t, D

\* A request of which something is to be collected is live.
LEMMA StillLive ==
    ASSUME conf \in Configurations, NEW s \in Systems, NEW T \in SUBSET Program,
           NEW C \in SUBSET T, NEW G \in Givens, HostView(G.hosts \o s.hostq, C),
           NEW g \in Hosts, Of(T, g) # {}, Of(C, g) # Indices(g)
    PROVE  g \in Live(T, C, G)
<1>1. G.hosts \in Seq(Answers) /\ s.hostq \in Seq(Answers)
    BY DEF Givens, Systems
<1>2. Range(G.hosts) \subseteq Range(G.hosts \o s.hostq)
    BY <1>1, RangeConcat
<1>3. AnswerOf(g) \notin Range(G.hosts)
    BY <1>2 DEF HostView
<1> QED BY <1>3 DEF Live

\* The answers for two requests differ.
LEMMA AnswersDiffer ==
    ASSUME conf \in Configurations, NEW g \in Hosts, NEW h \in Hosts, AnswerOf(g) = AnswerOf(h)
    PROVE  g = h
<1>1. 1 \in Indices(g) /\ 1 \in Indices(h)
    BY RequestIs
<1>2. AnswerOf(g)[1] = Part(g, 1) /\ AnswerOf(h)[1] = Part(h, 1)
    BY <1>1 DEF AnswerOf
<1>3. Part(g, 1).host = g /\ Part(h, 1).host = h
    BY DEF Part
<1> QED BY <1>2, <1>3

\* A sequence followed by another, one longer.
LEMMA ConcatAppend ==
    ASSUME NEW X, NEW p \in Seq(X), NEW q \in Seq(X), NEW x \in X
    PROVE  p \o Append(q, x) = Append(p \o q, x)
<1> DEFINE u == p \o Append(q, x)
           v == Append(p \o q, x)
<1>1. u \in Seq(X) /\ v \in Seq(X) /\ Len(u) = Len(v)
    OBVIOUS
<1>2. \A i \in 1 .. Len(u) : u[i] = v[i]
    OBVIOUS
<1> HIDE DEF u, v
<1>3. u = v
    <2>1. u = [i \in 1 .. Len(u) |-> u[i]] /\ v = [i \in 1 .. Len(v) |-> v[i]]
        BY <1>1
    <2> QED BY <1>1, <1>2, <2>1
<1> QED BY <1>3 DEF u, v

\* What is complete with x is added to what can be popped.
LEMMA HostViewMore ==
    ASSUME conf \in Configurations, NEW C \in SUBSET Program, NEW x \in Program, x \notin C,
           NEW q \in Seq(Answers), HostView(q, C)
    PROVE  /\ RetainsHost /\ Of(C \cup {x}, x.host) = Indices(x.host)
                => HostView(Append(q, AnswerOf(x.host)), C \cup {x})
           /\ ~(RetainsHost /\ Of(C \cup {x}, x.host) = Indices(x.host)) => HostView(q, C \cup {x})
<1> DEFINE g == x.host
           D == C \cup {x}
<1>1. /\ g \in Hosts /\ x.index \in Indices(g) /\ x.index \notin Of(C, g)
      /\ \A h \in Hosts : h # g => Of(D, h) = Of(C, h)
    BY OneMore
<1> HIDE DEF D, g
<1>2. ASSUME RetainsHost, Of(D, g) = Indices(g) PROVE HostView(Append(q, AnswerOf(g)), D)
    <2>1. AnswerOf(g) \in Answers /\ AnswerOf(g) \notin Range(q)
        BY <1>1 DEF Answers, HostView
    <2>2. PICK a : a = AnswerOf(g)
        OBVIOUS
    <2>3. IsInjective(Append(q, a)) /\ Range(Append(q, a)) = Range(q) \cup {a}
        BY <2>1, <2>2, RangeAppend DEF HostView
    <2>4. \A h \in Hosts : h # g => AnswerOf(h) # a
        BY <1>1, <2>2, AnswersDiffer
    <2>5. \A h \in Hosts : AnswerOf(h) \in Range(Append(q, a)) <=> RetainsHost /\ Of(D, h) = Indices(h)
        BY <1>1, <1>2, <2>2, <2>3, <2>4 DEF HostView
    <2> QED BY <2>2, <2>3, <2>5 DEF HostView
<1>3. ASSUME ~(RetainsHost /\ Of(D, g) = Indices(g)) PROVE HostView(q, D)
    BY <1>1, <1>3 DEF HostView
<1> QED BY <1>2, <1>3 DEF D, g

\* The answers put together are dropped, or changed.
LEMMA PartialsStay ==
    ASSUME NEW n \in Collections, NEW tag \in Nat, NEW part \in Partials
    PROVE  /\ Restrict(n, DOMAIN n \ {tag}) \in Collections
           /\ Put(n, tag, part) \in Collections
<1>1. PICK D \in SUBSET Nat : n \in [D -> Partials]
    BY DEF Collections
<1>2. DOMAIN n = D /\ \A k \in D : n[k] \in Partials
    BY <1>1
<1>3. Restrict(n, D \ {tag}) \in [D \ {tag} -> Partials] /\ D \ {tag} \in SUBSET Nat
    BY <1>2 DEF Restrict
<1>4. Put(n, tag, part) \in [D \cup {tag} -> Partials] /\ D \cup {tag} \in SUBSET Nat
    BY <1>2 DEF Put
<1>5. \A E \in SUBSET Nat : \A m \in [E -> Partials] : m \in Collections
    BY DEF Collections
<1> HIDE DEF Collections, Partials
<1> QED BY <1>1, <1>2, <1>3, <1>4, <1>5

PartOf(C, g) == [k \in Of(C, g) |-> Part(g, k)]

\* What aggregate_response has of a request, and when it has all.
LEMMA PartIs ==
    ASSUME conf \in Configurations, NEW C \in SUBSET Program, NEW g \in Hosts
    PROVE  /\ PartOf(C, g) \in Partials /\ DOMAIN PartOf(C, g) = Of(C, g)
           /\ Of(C, g) = Indices(g) => PartOf(C, g) = AnswerOf(g)
<1>1. Of(C, g) \in SUBSET Nat
    BY AllOf DEF Of
<1>2. PartOf(C, g) \in [Of(C, g) -> Program]
    BY DEF PartOf, Of
<1>3. \A K \in SUBSET Nat : \A p \in [K -> Program] : p \in Partials
    BY DEF Partials
<1> QED BY <1>1, <1>2, <1>3 DEF PartOf, AnswerOf

\* An answer is put together, and published when it is whole.
LEMMA AggregatedIs ==
    ASSUME conf \in Configurations, NEW s \in Systems, NEW T \in SUBSET Program,
           NEW C \in SUBSET T, NEW G \in Givens, NEW x \in T, x \notin C, RetainsHost,
           TagsDiffer(Live(T, C, G)),
           Parts(s, C), HostView(G.hosts \o s.hostq, C), s.failed = FALSE,
           ~(HostDepth > 0 /\ Len(s.hostq) >= HostDepth)
    PROVE  /\ Aggregated(s, x) \in Systems /\ Aggregated(s, x).failed = FALSE
           /\ Aggregated(s, x).ingress = s.ingress /\ Aggregated(s, x).ctrl = s.ctrl
           /\ Aggregated(s, x).submissions = s.submissions /\ Aggregated(s, x).txnq = s.txnq
           /\ Parts(Aggregated(s, x), C \cup {x})
           /\ HostView(G.hosts \o Aggregated(s, x).hostq, C \cup {x})
<1> DEFINE g == x.host
           tag == TagOf(g)
           D == C \cup {x}
           a == IF Tag(x) \in DOMAIN s.assemblies THEN s.assemblies[Tag(x)] ELSE NoTags
           with == Put(a, x.index, x)
           inOrder == [k \in DOMAIN with |-> with[k]]
           t == Aggregated(s, x)
<1>1. /\ g \in Hosts /\ x.index \in Indices(g) /\ x.index \notin Of(C, g)
      /\ Of(D, g) = Of(C, g) \cup {x.index} /\ \A h \in Hosts : h # g => Of(D, h) = Of(C, h)
    BY OneMore
<1>2. tag \in Nat /\ Tag(x) = tag /\ x = Part(g, x.index) /\ C \in SUBSET Program /\ D \in SUBSET Program
    BY <1>1, RequestIs, ProgramIs DEF Tag, TagOf
<1>3. /\ \A h \in Begun(C) : h \in Live(T, C, G) /\ h \in Hosts
      /\ g \in Live(T, C, G)
    <2>1. ASSUME NEW h \in Begun(C) PROVE h \in Live(T, C, G) /\ h \in Hosts
        <3>1. h \in Hosts /\ Of(C, h) # {} /\ Of(C, h) # Indices(h)
            BY DEF Begun
        <3>2. Of(T, h) # {}
            BY <3>1 DEF Of
        <3> QED BY <3>1, <3>2, StillLive
    <2>2. Of(T, g) # {} /\ Of(C, g) # Indices(g)
        BY <1>1, <1>2 DEF Of
    <2>3. g \in Live(T, C, G)
        <3> HIDE DEF g
        <3> QED BY <1>1, <2>2, StillLive
    <2> QED BY <2>1, <2>3
<1>4. \A h \in Begun(C) : TagOf(h) = tag => h = g
    BY <1>3 DEF TagsDiffer
<1>5. DOMAIN s.assemblies = TagsOf(Begun(C)) /\ \A h \in Begun(C) : s.assemblies[TagOf(h)] = PartOf(C, h)
    BY DEF Parts, PartOf
<1>6. a = PartOf(C, g)
    <2>1. CASE Of(C, g) # {}
        <3>1. g \in Begun(C)
            BY <1>1, <2>1 DEF Begun
        <3>2. tag \in DOMAIN s.assemblies
            BY <1>5, <3>1 DEF TagsOf
        <3> QED BY <1>2, <1>5, <3>1, <3>2
    <2>2. CASE Of(C, g) = {}
        <3>1. tag \notin DOMAIN s.assemblies
            <4>1. g \notin Begun(C)
                BY <2>2 DEF Begun
            <4> HIDE DEF tag, g
            <4> QED BY <1>4, <1>5, <4>1 DEF TagsOf
        <3>2. a = NoTags
            BY <1>2, <3>1
        <3>3. NoTags = PartOf(C, g)
            BY <2>2 DEF NoTags, PartOf
        <3> QED BY <3>2, <3>3
    <2> QED BY <2>1, <2>2
<1>7. with = PartOf(D, g)
    <2>1. DOMAIN a = Of(C, g)
        BY <1>6 DEF PartOf
    <2>2. with = [k \in Of(D, g) |-> IF k = x.index THEN x ELSE a[k]]
        <3> HIDE DEF a, D, g
        <3> QED BY <1>1, <2>1 DEF Put
    <2>3. \A k \in Of(D, g) : (IF k = x.index THEN x ELSE a[k]) = Part(g, k)
        <3> HIDE DEF a, D, g
        <3> QED BY <1>1, <1>2, <1>6 DEF PartOf
    <2> HIDE DEF a, D, g, with
    <2> QED BY <2>2, <2>3 DEF PartOf
<1>8. /\ PartOf(D, g) \in Partials /\ DOMAIN PartOf(D, g) = Of(D, g)
      /\ Of(D, g) = Indices(g) => PartOf(D, g) = AnswerOf(g)
    <2> HIDE DEF D, g
    <2> QED BY <1>1, <1>2, PartIs
<1>9. inOrder = PartOf(D, g) /\ x.index \notin DOMAIN a
    <2> HIDE DEF a, D, g, with
    <2> QED BY <1>1, <1>6, <1>7 DEF PartOf
<1>10. IsWhole(with, x) <=> Of(D, g) = Indices(g)
    <2>1. Of(D, g) \in SUBSET Indices(g)
        BY DEF Of
    <2>2. Count(x) = Len(Request(g).txns)
        BY DEF Count
    <2> HIDE DEF D, g, with
    <2>3. Cardinality(Of(D, g)) = Len(Request(g).txns) <=> Of(D, g) = Indices(g)
        BY <1>1, <2>1, AllOf
    <2> QED BY <1>7, <1>8, <2>2, <2>3 DEF IsWhole
<1> DEFINE fewer == Restrict(s.assemblies, DOMAIN s.assemblies \ {tag})
           more == Put(s.assemblies, tag, PartOf(D, g))
<1>11. s.assemblies \in Collections /\ s.hostq \in Seq(Answers) /\ G.hosts \in Seq(Answers)
    BY DEF Systems, Givens
<1>12. /\ DOMAIN fewer = DOMAIN s.assemblies \ {tag} /\ fewer \in Collections
       /\ \A k \in DOMAIN s.assemblies \ {tag} : fewer[k] = s.assemblies[k]
       /\ more \in Collections /\ DOMAIN more = DOMAIN s.assemblies \cup {tag}
       /\ more[tag] = PartOf(D, g)
       /\ \A k \in DOMAIN s.assemblies \ {tag} : more[k] = s.assemblies[k]
    <2>0. PICK n, k, p : n = s.assemblies /\ k = tag /\ p = PartOf(D, g)
        OBVIOUS
    <2>1. n \in Collections /\ k \in Nat /\ p \in Partials
        <3> HIDE DEF tag, D, g
        <3> QED BY <1>2, <1>8, <1>11, <2>0
    <2>2. Restrict(n, DOMAIN n \ {k}) \in Collections /\ Put(n, k, p) \in Collections
        BY <2>1, PartialsStay
    <2>3. /\ DOMAIN Restrict(n, DOMAIN n \ {k}) = DOMAIN n \ {k}
           /\ \A j \in DOMAIN n \ {k} : Restrict(n, DOMAIN n \ {k})[j] = n[j]
        BY DEF Restrict
    <2>4. /\ DOMAIN Put(n, k, p) = DOMAIN n \cup {k} /\ Put(n, k, p)[k] = p
           /\ \A j \in DOMAIN n \ {k} : Put(n, k, p)[j] = n[j]
        BY DEF Put
    <2>5. fewer = Restrict(n, DOMAIN n \ {k}) /\ more = Put(n, k, p)
        BY <2>0
    <2> HIDE DEF tag, D, g, fewer, more
    <2> QED BY <2>0, <2>2, <2>3, <2>4, <2>5
<1>13. t = IF Of(D, g) = Indices(g)
           THEN [[s EXCEPT !.assemblies = fewer] EXCEPT !.hostq = Append(@, AnswerOf(g))]
           ELSE [s EXCEPT !.assemblies = more]
    <2>1. DEFINE l == [s EXCEPT !.assemblies = fewer]
    <2>2. l.hostq = s.hostq
        BY DEF Systems
    <2>3. CASE Of(D, g) = Indices(g)
        <3>1. inOrder = AnswerOf(g)
            BY <1>8, <1>9, <2>3
        <3>2. t = Published(l, inOrder)
            <4>1. IsWhole(with, x)
                BY <1>10, <2>3
            <4> HIDE DEF inOrder
            <4> QED BY <1>2, <1>9, <4>1 DEF Aggregated, inOrder
        <3>3. t = [l EXCEPT !.hostq = Append(@, AnswerOf(g))]
            <4> HIDE DEF inOrder, l, t
            <4> QED BY <2>2, <3>1, <3>2 DEF Published
        <3> QED BY <2>3, <3>3
    <2>4. CASE Of(D, g) # Indices(g)
        <3>1. ~IsWhole(with, x)
            BY <1>10, <2>4
        <3>2. t = [s EXCEPT !.assemblies = Put(@, Tag(x), with)]
            BY <1>9, <3>1 DEF Aggregated
        <3>3. t = [s EXCEPT !.assemblies = Put(s.assemblies, tag, PartOf(D, g))]
            <4> HIDE DEF with, D, g, tag, t
            <4> QED BY <1>2, <1>7, <3>2 DEF Systems
        <3> QED BY <2>4, <3>3
    <2> QED BY <2>3, <2>4
<1> HIDE DEF fewer, more, t, inOrder, with, a, D, tag, g
<1>14. AnswerOf(g) \in Answers
    BY <1>1 DEF Answers
<1>15. /\ t \in Systems /\ t.failed = FALSE /\ t.ingress = s.ingress /\ t.ctrl = s.ctrl
       /\ t.submissions = s.submissions /\ t.txnq = s.txnq
       /\ t.assemblies = IF Of(D, g) = Indices(g) THEN fewer ELSE more
       /\ t.hostq = IF Of(D, g) = Indices(g) THEN Append(s.hostq, AnswerOf(g)) ELSE s.hostq
    <2>1. CASE Of(D, g) = Indices(g)
        <3>1. PICK r \in Seq(Answers) : r = Append(s.hostq, AnswerOf(g))
            <4>1. PICK b \in Answers : b = AnswerOf(g)
                BY <1>14
            <4>2. Append(s.hostq, b) \in Seq(Answers)
                BY <1>11
            <4> QED BY <4>1, <4>2
        <3>2. PICK l \in Systems : l = [s EXCEPT !.assemblies = fewer]
            BY <1>12 DEF Systems
        <3>3. /\ l.failed = FALSE /\ l.ingress = s.ingress /\ l.ctrl = s.ctrl
              /\ l.submissions = s.submissions /\ l.txnq = s.txnq
              /\ l.assemblies = fewer /\ l.hostq = s.hostq
            BY <3>2 DEF Systems
        <3>4. t = [l EXCEPT !.hostq = r]
            BY <1>13, <2>1, <3>1, <3>2, <3>3
        <3>5. /\ t \in Systems /\ t.failed = l.failed /\ t.ingress = l.ingress /\ t.ctrl = l.ctrl
              /\ t.submissions = l.submissions /\ t.txnq = l.txnq
              /\ t.assemblies = l.assemblies /\ t.hostq = r
            BY <3>4 DEF Systems
        <3> QED BY <2>1, <3>1, <3>3, <3>5
    <2>2. CASE Of(D, g) # Indices(g)
        BY <1>12, <1>13, <2>2 DEF Systems
    <2> QED BY <2>1, <2>2
<1>16. HostView(G.hosts \o t.hostq, D)
    <2>1. G.hosts \o s.hostq \in Seq(Answers)
        BY <1>11
    <2>2. CASE Of(D, g) = Indices(g)
        <3>1. HostView(Append(G.hosts \o s.hostq, AnswerOf(g)), D)
            BY <1>2, <2>1, <2>2, HostViewMore DEF D, g
        <3>2. G.hosts \o Append(s.hostq, AnswerOf(g)) = Append(G.hosts \o s.hostq, AnswerOf(g))
            <4>1. PICK p, q, b : p = G.hosts /\ q = s.hostq /\ b = AnswerOf(g)
                OBVIOUS
            <4>2. p \in Seq(Answers) /\ q \in Seq(Answers) /\ b \in Answers
                BY <1>11, <1>14, <4>1
            <4>3. p \o Append(q, b) = Append(p \o q, b)
                BY <4>2, ConcatAppend
            <4> QED BY <4>1, <4>3
        <3> QED BY <1>15, <2>2, <3>1, <3>2
    <2>3. CASE Of(D, g) # Indices(g)
        <3>1. HostView(G.hosts \o s.hostq, D)
            BY <1>2, <2>1, <2>3, HostViewMore DEF D, g
        <3> QED BY <1>15, <2>3, <3>1
    <2> QED BY <2>2, <2>3
<1>17. Parts(t, D)
    <2>1. CASE Of(D, g) = Indices(g)
        <3>1. Begun(D) = Begun(C) \ {g}
            BY <1>1, <2>1 DEF Begun
        <3>2. DOMAIN t.assemblies = TagsOf(Begun(D))
            BY <1>4, <1>5, <1>12, <1>15, <2>1, <3>1 DEF TagsOf, tag
        <3>3. ASSUME NEW h \in Begun(D) PROVE t.assemblies[TagOf(h)] = PartOf(D, h)
            <4>1. h \in Begun(C) /\ h # g /\ h \in Hosts /\ TagOf(h) # tag
                BY <1>3, <1>4, <3>1
            <4>2. TagOf(h) \in DOMAIN s.assemblies \ {tag}
                BY <1>5, <4>1 DEF TagsOf
            <4>3. t.assemblies[TagOf(h)] = PartOf(C, h)
                BY <1>5, <1>12, <1>15, <2>1, <4>1, <4>2
            <4> QED BY <1>1, <4>1, <4>3 DEF PartOf
        <3> QED BY <3>2, <3>3 DEF Parts, PartOf
    <2>2. CASE Of(D, g) # Indices(g)
        <3>1. Begun(D) = Begun(C) \cup {g}
            BY <1>1, <2>2 DEF Begun
        <3>2. DOMAIN t.assemblies = TagsOf(Begun(D))
            BY <1>5, <1>12, <1>15, <2>2, <3>1 DEF TagsOf, tag
        <3>3. ASSUME NEW h \in Begun(D) PROVE t.assemblies[TagOf(h)] = PartOf(D, h)
            <4>1. CASE h = g
                BY <1>12, <1>15, <2>2, <4>1 DEF tag
            <4>2. CASE h # g
                <5>1. h \in Begun(C) /\ h \in Hosts /\ TagOf(h) # tag
                    BY <1>3, <1>4, <3>1, <4>2
                <5>2. TagOf(h) \in DOMAIN s.assemblies \ {tag}
                    BY <1>5, <5>1 DEF TagsOf
                <5>3. t.assemblies[TagOf(h)] = PartOf(C, h)
                    BY <1>5, <1>12, <1>15, <2>2, <5>1, <5>2
                <5> QED BY <1>1, <4>2, <5>1, <5>3 DEF PartOf
            <4> QED BY <4>1, <4>2
        <3> QED BY <3>2, <3>3 DEF Parts, PartOf
    <2> QED BY <2>1, <2>2
<1> QED BY <1>15, <1>16, <1>17 DEF t, D

\* What the collection of answers makes of a system.
Carried(s, T, G) ==
    {t \in Systems : /\ Flow(t, T) /\ Books(t, T, Gone(t, T), G)
                     /\ Ing(t) = Ing(s) /\ Que(t) = Que(s)}

\* So does the collection of one, if the host has room for it.
LEMMA CollectIs ==
    ASSUME conf \in Configurations, NEW s \in Systems, NEW T \in SUBSET Program, NEW G \in Givens,
           Flow(s, T), Books(s, T, Gone(s, T), G), ~CannotDeliver(s),
           NEW c \in Controllers, s.ctrl[c].answers # <<>>
    PROVE  \E t \in Carried(s, T, G) : Collect(s, c) = {t}
<1> DEFINE x == Head(s.ctrl[c].answers)
           C == Gone(s, T)
           D == C \cup {x}
           popped == [s EXCEPT !.ctrl[c].answers = Tail(@)]
           noted == IF RetainsTransactions THEN [popped EXCEPT !.txnq = Append(@, x)] ELSE popped
           done == Completed(noted, x)
           t == IF RetainsHost THEN Aggregated(done, x) ELSE done
<1>1. Collect(s, c) = {t}
    BY DEF Collect
<1>2. /\ popped \in Systems /\ popped.ingress = s.ingress
      /\ popped.ctrl = [s.ctrl EXCEPT ![c].answers = Tail(@)]
      /\ popped.submissions = s.submissions /\ popped.assemblies = s.assemblies
      /\ popped.hostq = s.hostq /\ popped.txnq = s.txnq /\ popped.failed = s.failed
    <2> DEFINE R == [queue : Seq(Program), answers : Seq(Program)]
               d == [s.ctrl[c] EXCEPT !.answers = Tail(@)]
               e == [s.ctrl EXCEPT ![c] = d]
    <2>1. s.ctrl \in [Controllers -> R] /\ s.ctrl[c] \in R
        BY DEF Systems
    <2>2. Tail(s.ctrl[c].answers) \in Seq(Program)
        BY <2>1
    <2>3. d \in R
        BY <2>1, <2>2
    <2>4. e \in [Controllers -> R]
        <3> HIDE DEF d, R
        <3> QED BY <2>1, <2>3
    <2>5. popped = [s EXCEPT !.ctrl = e] /\ e = [s.ctrl EXCEPT ![c].answers = Tail(@)]
        OBVIOUS
    <2> HIDE DEF d, e, popped
    <2> QED BY <2>4, <2>5 DEF Systems
<1>3. PICK u \in Systems : u = popped
    BY <1>2
<1>4. /\ Flow(u, T) /\ Ing(u) = Ing(s) /\ Que(u) = Que(s)
      /\ x \in Ans(s) /\ Ans(u) = Ans(s) \ {x}
    <2> HIDE DEF popped
    <2>1. u.ingress = s.ingress /\ u.ctrl = [s.ctrl EXCEPT ![c].answers = Tail(@)]
        BY <1>2, <1>3
    <2> QED BY <2>1, CollectFlow
<1>5. x \in T /\ x \notin C /\ C \in SUBSET T /\ x \in Program /\ T \ (Ing(u) \cup Que(u) \cup Ans(u)) = D
    <2>1. x \in T /\ x \in Ans(s) /\ x \notin Ing(s) /\ x \notin Que(s)
        BY <1>4 DEF Flow
    <2> HIDE DEF x
    <2> QED BY <1>4, <2>1 DEF Gone
<1>6. /\ noted \in Systems /\ noted.ingress = u.ingress /\ noted.ctrl = u.ctrl
      /\ noted.submissions = s.submissions /\ noted.assemblies = s.assemblies
      /\ noted.hostq = s.hostq /\ noted.failed = s.failed
      /\ noted.txnq = IF RetainsTransactions THEN Append(s.txnq, x) ELSE s.txnq
    <2>1. u.txnq \in Seq(Program)
        BY DEF Systems
    <2>2. PICK r \in Seq(Program) : r = Append(u.txnq, x)
        <3>1. PICK p, y : p = u.txnq /\ y = x
            OBVIOUS
        <3>2. p \in Seq(Program) /\ y \in Program
            BY <1>5, <2>1, <3>1
        <3>3. Append(p, y) \in Seq(Program)
            BY <3>2
        <3> QED BY <3>1, <3>3
    <2>3. noted = IF RetainsTransactions THEN [u EXCEPT !.txnq = r] ELSE u
        BY <1>3, <2>2
    <2>4. u.txnq = s.txnq
        BY <1>2, <1>3
    <2> HIDE DEF noted, x, popped
    <2>5. /\ noted \in Systems /\ noted.ingress = u.ingress /\ noted.ctrl = u.ctrl
          /\ noted.submissions = u.submissions /\ noted.assemblies = u.assemblies
          /\ noted.hostq = u.hostq /\ noted.failed = u.failed
          /\ noted.txnq = IF RetainsTransactions THEN r ELSE u.txnq
        BY <2>3 DEF Systems
    <2> QED BY <1>2, <1>3, <2>2, <2>4, <2>5
<1>7. /\ s.failed = FALSE /\ Tags(s, T, C, G) /\ Parts(s, C)
      /\ HostView(G.hosts \o s.hostq, C) /\ TxnView(G.txns \o s.txnq, C)
    BY DEF Books, Views
<1> HIDE DEF x, C, D, popped, noted, done, t
<1>8. x.host \in Live(T, C, G)
    <2>1. x.host \in Hosts /\ x.index \in Indices(x.host) /\ x.index \notin Of(C, x.host)
          /\ x = Part(x.host, x.index)
        BY <1>5, OneMore, ProgramIs
    <2>2. Of(T, x.host) # {} /\ Of(C, x.host) # Indices(x.host)
        BY <1>5, <2>1 DEF Of
    <2>3. PICK g \in Hosts : g = x.host
        BY <2>1
    <2>4. g \in Live(T, C, G)
        BY <1>5, <1>7, <2>2, <2>3, StillLive
    <2> QED BY <2>3, <2>4
<1>9. /\ done \in Systems /\ SameButTags(noted, done) /\ Tags(done, T, D, G)
    <2>1. Tags(noted, T, C, G)
        BY <1>6, <1>7 DEF Tags
    <2>2. /\ Completed(noted, x) \in Systems /\ SameButTags(noted, Completed(noted, x))
          /\ Tags(Completed(noted, x), T, C \cup {x}, G)
        BY <1>5, <1>6, <1>8, <2>1, CompletedIs
    <2> QED BY <2>2 DEF done, D
<1>10. TxnView(G.txns \o noted.txnq, D)
    <2>1. G.txns \in Seq(Program) /\ s.txnq \in Seq(Program)
        BY DEF Givens, Systems
    <2>2. PICK q : q = G.txns \o s.txnq
        OBVIOUS
    <2>3. q \in Seq(Program) /\ TxnView(q, C)
        BY <1>7, <2>1, <2>2, RangeConcat
    <2>4. CASE RetainsTransactions
        <3>1. PICK k, m : k = G.txns /\ m = s.txnq
            OBVIOUS
        <3>2. k \o Append(m, x) = Append(k \o m, x)
            <4>1. k \in Seq(Program) /\ m \in Seq(Program)
                BY <2>1, <3>1
            <4> QED BY <1>5, <4>1, ConcatAppend
        <3>3. G.txns \o noted.txnq = Append(q, x)
            BY <1>6, <2>2, <2>4, <3>1, <3>2
        <3>4. Range(q) = C /\ IsInjective(q)
            BY <2>3, <2>4 DEF TxnView
        <3>5. Range(Append(q, x)) = Range(q) \cup {x} /\ IsInjective(Append(q, x))
            BY <1>5, <2>3, <3>4, RangeAppend
        <3> QED BY <2>4, <3>3, <3>4, <3>5 DEF TxnView, D
    <2>5. CASE ~RetainsTransactions
        BY <1>6, <2>2, <2>3, <2>5 DEF TxnView
    <2> QED BY <2>4, <2>5
<1>11. /\ t \in Systems /\ t.failed = FALSE
       /\ t.ingress = u.ingress /\ t.ctrl = u.ctrl
       /\ t.submissions = done.submissions /\ t.txnq = noted.txnq
       /\ Parts(t, D) /\ HostView(G.hosts \o t.hostq, D)
    <2>1. /\ done.ingress = u.ingress /\ done.ctrl = u.ctrl /\ done.txnq = noted.txnq
          /\ done.hostq = s.hostq /\ done.failed = FALSE /\ done.assemblies = s.assemblies
        BY <1>6, <1>7, <1>9 DEF SameButTags
    <2>2. Parts(done, C)
        BY <1>7, <2>1 DEF Parts
    <2>3. C \in SUBSET Program
        BY <1>5
    <2>4. CASE RetainsHost
        <3>1. ~(HostDepth > 0 /\ Len(done.hostq) >= HostDepth)
            BY <2>1, <2>4 DEF CannotDeliver
        <3>2. TagsDiffer(Live(T, C, G))
            BY <1>7 DEF Tags
        <3>3. HostView(G.hosts \o done.hostq, C) /\ done.failed = FALSE
            BY <1>7, <2>1
        <3>4. PICK z, w : z = done /\ w = Aggregated(z, x)
            OBVIOUS
        <3>5. /\ z \in Systems /\ Parts(z, C) /\ HostView(G.hosts \o z.hostq, C)
              /\ z.failed = FALSE /\ ~(HostDepth > 0 /\ Len(z.hostq) >= HostDepth)
            BY <1>9, <2>2, <3>1, <3>3, <3>4
        <3>6. x \in T /\ x \notin C /\ C \in SUBSET T
            BY <1>5
        <3>7. /\ Aggregated(z, x) \in Systems /\ Aggregated(z, x).failed = FALSE
              /\ Aggregated(z, x).ingress = z.ingress /\ Aggregated(z, x).ctrl = z.ctrl
              /\ Aggregated(z, x).submissions = z.submissions /\ Aggregated(z, x).txnq = z.txnq
              /\ Parts(Aggregated(z, x), C \cup {x})
              /\ HostView(G.hosts \o Aggregated(z, x).hostq, C \cup {x})
            BY <2>4, <3>2, <3>5, <3>6, AggregatedIs
        <3>8. /\ w \in Systems /\ w.failed = FALSE
              /\ w.ingress = done.ingress /\ w.ctrl = done.ctrl
              /\ w.submissions = done.submissions /\ w.txnq = done.txnq
              /\ Parts(w, C \cup {x}) /\ HostView(G.hosts \o w.hostq, C \cup {x})
            BY <3>4, <3>7
        <3>9. t = w
            BY <2>4, <3>4 DEF t
        <3> QED BY <2>1, <3>8, <3>9 DEF D
    <2>5. CASE ~RetainsHost
        <3>1. t = done
            BY <2>5 DEF t
        <3>2. Parts(done, D)
            BY <2>2, <2>5 DEF Parts
        <3>3. G.hosts \o s.hostq \in Seq(Answers)
            BY RangeConcat DEF Givens, Systems
        <3>4. HostView(G.hosts \o s.hostq, D)
            BY <1>5, <1>7, <2>3, <2>5, <3>3, HostViewMore DEF D
        <3> QED BY <1>9, <2>1, <3>1, <3>2, <3>4
    <2> QED BY <2>4, <2>5
<1>12. Flow(t, T) /\ Ing(t) = Ing(s) /\ Que(t) = Que(s) /\ Gone(t, T) = D
    <2>1. Ing(t) = Ing(u) /\ Que(t) = Que(u) /\ Ans(t) = Ans(u)
        BY <1>11 DEF Ing, Que, Ans
    <2>2. Queues(t)
        BY <1>4, <1>11 DEF Flow, Queues
    <2>3. Flow(t, T)
        BY <1>4, <1>11, <2>1, <2>2 DEF Flow
    <2> QED BY <1>4, <1>5, <2>1, <2>3 DEF Gone
<1>13. Books(t, T, D, G)
    <2>1. Tags(t, T, D, G)
        BY <1>9, <1>11 DEF Tags
    <2> QED BY <1>10, <1>11, <2>1 DEF Books, Views
<1> QED BY <1>1, <1>11, <1>12, <1>13 DEF Carried

\* The controllers are asked in an order, so one with an answer is the first.
LEMMA FirstAnsweringIs ==
    ASSUME NEW s, ~NothingToCollect(s)
    PROVE  FirstAnswering(s) \in Controllers /\ s.ctrl[FirstAnswering(s)].answers # <<>>
<1> DEFINE has == {c \in Controllers : s.ctrl[c].answers # <<>>}
           First(c) == \A d \in has : c[1] < d[1] \/ (c[1] = d[1] /\ c[2] <= d[2])
<1>1. has # {}
    BY DEF NothingToCollect
<1>2. \A c \in has : c[1] \in Nat /\ c[2] \in Nat /\ c = <<c[1], c[2]>>
    BY StackAssumption DEF Controllers, StackIds
<1>3. FirstAnswering(s) = CHOOSE c \in has : First(c)
    BY DEF FirstAnswering
<1> HIDE DEF has
<1>4. PICK a \in {c[1] : c \in has} : \A m \in {c[1] : c \in has} : a <= m
    <2>1. {c[1] : c \in has} \in SUBSET Nat /\ {c[1] : c \in has} # {}
        BY <1>1, <1>2
    <2> QED BY <2>1, LeastNumber
<1> DEFINE row == {c \in has : c[1] = a}
<1>5. PICK b \in {c[2] : c \in row} : \A m \in {c[2] : c \in row} : b <= m
    <2>1. {c[2] : c \in row} \in SUBSET Nat /\ {c[2] : c \in row} # {}
        BY <1>2, <1>4
    <2> HIDE DEF row
    <2> QED BY <2>1, LeastNumber
<1>6. PICK e \in has : e[1] = a /\ e[2] = b
    BY <1>5
<1>7. First(e)
    BY <1>2, <1>4, <1>5, <1>6
<1>8. FirstAnswering(s) \in has
    <2> HIDE DEF First
    <2> QED BY <1>3, <1>6, <1>7
<1> QED BY <1>8 DEF has

\* So does collect_responses.
LEMMA CollectedIs ==
    ASSUME conf \in Configurations, NEW r \in Systems, NEW T \in SUBSET Program, NEW G \in Givens,
           Flow(r, T), Books(r, T, Gone(r, T), G)
    PROVE  Collected(r) \in Carried(r, T, G)
<1> DEFINE M == Cardinality(Controllers) * CtrlAnswers
           Turn(s) == IF NothingToCollect(s) \/ CannotDeliver(s) THEN {s}
                      ELSE Collect(s, FirstAnswering(s))
           One(a) == CHOOSE t \in UNION {Turn(s) : s \in {a}} : TRUE
           F(f) == [n \in 0 .. M |-> IF n = 0 THEN r ELSE One(f[n - 1])]
           K == Carried(r, T, G)
<1>1. M \in Nat
    <2>1. IsFiniteSet(StackIds) /\ IsFiniteSet(0 .. Channels - 1)
        <3>1. 0 \in Int /\ StackCount - 1 \in Int /\ Channels - 1 \in Int
            BY StackAssumption
        <3> QED BY <3>1, FS_Interval DEF StackIds
    <2>2. IsFiniteSet(Controllers)
        BY <2>1, FS_Product DEF Controllers
    <2>3. Cardinality(Controllers) \in Nat
        BY <2>2, FS_CardinalityType
    <2>4. CtrlAnswers \in Nat
        BY DepthAssumption
    <2> QED BY <2>3, <2>4
<1>2. ASSUME NEW s \in K PROVE One(s) \in K
    <2>0. UNION {Turn(u) : u \in {s}} = Turn(s)
        <3> HIDE DEF Turn
        <3> QED OBVIOUS
    <2>1. s \in Systems /\ Flow(s, T) /\ Books(s, T, Gone(s, T), G) /\ Ing(s) = Ing(r) /\ Que(s) = Que(r)
        BY DEF Carried
    <2>2. CASE NothingToCollect(s) \/ CannotDeliver(s)
        <3>1. Turn(s) = {s}
            BY <2>2
        <3> HIDE DEF Turn
        <3> QED BY <2>0, <3>1
    <2>3. CASE ~(NothingToCollect(s) \/ CannotDeliver(s))
        <3>1. PICK c \in Controllers : c = FirstAnswering(s) /\ s.ctrl[c].answers # <<>>
            BY <2>3, FirstAnsweringIs
        <3>2. PICK t \in Carried(s, T, G) : Collect(s, c) = {t}
            BY <2>1, <2>3, <3>1, CollectIs
        <3>3. Turn(s) = {t}
            BY <2>3, <3>1, <3>2
        <3>4. t \in K
            BY <2>1, <3>2 DEF Carried
        <3> HIDE DEF Turn
        <3> QED BY <2>0, <3>3, <3>4
    <2> QED BY <2>2, <2>3
<1>3. r \in K
    BY DEF Carried
<1>4. \A n \in 1 .. M : n \in 0 .. M /\ n - 1 \in 0 .. M /\ n # 0
    <2> HIDE DEF M
    <2> QED BY <1>1
<1>5. Collected(r) = (CHOOSE f : f = F(f))[M]
    BY DEF Collected
<1> HIDE DEF M, K, Turn, One
<1>6. \E f : f = F(f)
    <2> DEFINE h == [n \in 1 .. M |-> [s \in K |-> One(s)]]
    <2>1. \A n \in 1 .. M, s \in K : h[n][s] = One(s)
        OBVIOUS
    <2> HIDE DEF h
    <2>2. StaysIn(M, K, h)
        BY <1>2, <2>1 DEF StaysIn
    <2>3. PICK f \in [0 .. M -> K] : IsLoop(f, M, r, h)
        BY <1>1, <1>3, <2>2, LoopExists
    <2>4. f[0] = r /\ 0 \in 0 .. M /\ \A n \in 0 .. M : n = 0 \/ n \in 1 .. M
        BY <1>1, <2>3 DEF IsLoop
    <2>5. \A n \in 1 .. M : f[n] = One(f[n - 1])
        BY <1>4, <2>1, <2>3 DEF IsLoop
    <2> DEFINE g == F(f)
    <2>6. \A n \in 0 .. M : g[n] = IF n = 0 THEN r ELSE One(f[n - 1])
        OBVIOUS
    <2>7. \A n \in 0 .. M : f[n] = g[n]
        <3> HIDE DEF g
        <3> QED BY <2>4, <2>5, <2>6
    <2>8. f = [n \in 0 .. M |-> f[n]] /\ g = [n \in 0 .. M |-> g[n]]
        OBVIOUS
    <2>9. f = g
        <3> HIDE DEF g
        <3> QED BY <2>7, <2>8
    <2> QED BY <2>9
<1> DEFINE f == CHOOSE f : f = F(f)
<1>7. f = F(f)
    BY <1>6
<1>8. f[0] = r /\ \A n \in 1 .. M : f[n] = One(f[n - 1])
    <2> DEFINE g == F(f)
    <2>1. \A n \in 0 .. M : g[n] = IF n = 0 THEN r ELSE One(f[n - 1])
        OBVIOUS
    <2>2. f = g
        BY <1>7
    <2>3. 0 \in 0 .. M
        BY <1>1
    <2> HIDE DEF g, f
    <2> QED BY <1>4, <2>1, <2>2, <2>3
<1>9. Collected(r) = f[M]
    BY <1>5
<1> HIDE DEF f
<1> DEFINE H == {n \in 0 .. M : f[n] \in K}
<1>10. 0 \in H
    BY <1>1, <1>3, <1>8
<1>11. \A n \in 1 .. M : n - 1 \in H => n \in H
    BY <1>2, <1>4, <1>8
<1> HIDE DEF H
<1>12. M \in H
    <2>1. \A n \in 0 .. M : n \in H
        BY <1>1, <1>10, <1>11, EveryTurn
    <2>2. M \in 0 .. M
        BY <1>1
    <2> QED BY <2>1, <2>2
<1> QED BY <1>9, <1>12 DEF H, K
-----------------------------------------------------------------------------
(* The steps of the system                                                   *)

\* The program stays, and with it what the parts of the invariant mean.
LEMMA SameProgram ==
    ASSUME conf' = conf
    PROVE  /\ Program' = Program /\ Systems' = Systems /\ Givens' = Givens
           /\ \A s : Ing(s)' = Ing(s) /\ Que(s)' = Que(s)
           /\ \A q : InProgramOrder(q)' <=> InProgramOrder(q)
           /\ \A s, T : Gone(s, T)' = Gone(s, T) /\ (Flow(s, T)' <=> Flow(s, T))
           /\ \A s, T, C, G : Books(s, T, C, G)' <=> Books(s, T, C, G)
<1>1. Program' = Program
    BY DEF Program, ProgramOf
<1>2. \A g : Request(g)' = Request(g)
    BY DEF Request
<1>3. \A x : Transaction(x)' = Transaction(x)
    BY <1>2 DEF Transaction
<1>4. \A x : Home(x)' = Home(x)
    BY <1>3 DEF Home
<1>5. \A x : ControllerOf(x)' = ControllerOf(x)
    BY <1>4 DEF ControllerOf
<1>6. \A x : ClassOf(x)' = ClassOf(x)
    BY <1>3 DEF ClassOf
<1>7. Hosts' = Hosts /\ \A g : Indices(g)' = Indices(g)
    BY <1>2 DEF Hosts, Indices
<1>8. /\ \A C, g : Of(C, g)' = Of(C, g)
      /\ \A g : AnswerOf(g)' = AnswerOf(g)
    BY <1>7 DEF Of, AnswerOf
<1>9. Answers' = Answers
    BY <1>7, <1>8 DEF Answers
<1>10. RetainsHost' = RetainsHost /\ RetainsTransactions' = RetainsTransactions
    BY DEF RetainsHost, RetainsTransactions
<1>11. /\ Partials' = Partials /\ Systems' = Systems /\ Givens' = Givens
    <2>1. Partials' = Partials
        BY <1>1 DEF Partials
    <2>2. Collections' = Collections
        BY <2>1 DEF Collections
    <2> QED BY <1>1, <1>9, <2>1, <2>2 DEF Systems, Givens
<1>12. \A s : Ing(s)' = Ing(s) /\ Que(s)' = Que(s) /\ Ans(s)' = Ans(s)
    BY <1>1, <1>4, <1>5 DEF Ing, Que, Ans
<1>13. \A q : InProgramOrder(q)' <=> InProgramOrder(q)
    BY <1>1 DEF InProgramOrder
<1>14. \A s, T : Gone(s, T)' = Gone(s, T)
    BY <1>12 DEF Gone
<1>15. \A s : Queues(s)' <=> Queues(s)
    BY <1>4, <1>5 DEF Queues
<1>16. \A s, T : Flow(s, T)' <=> Flow(s, T)
    BY <1>6, <1>12, <1>15 DEF Flow
<1>17. /\ \A T, C, G : Live(T, C, G)' = Live(T, C, G)
       /\ \A C : Begun(C)' = Begun(C)
    BY <1>7, <1>8, <1>10 DEF Live, Begun
<1>18. \A S : TagsOf(S)' = TagsOf(S) /\ (TagsDiffer(S)' <=> TagsDiffer(S))
    BY <1>2 DEF TagsOf, TagsDiffer, TagOf
<1>19. \A s, T, C, G : Tags(s, T, C, G)' <=> Tags(s, T, C, G)
    BY <1>2, <1>8, <1>17, <1>18 DEF Tags, TagOf
<1>20. \A s, C : Parts(s, C)' <=> Parts(s, C)
    BY <1>2, <1>8, <1>10, <1>17, <1>18 DEF Parts, TagOf
<1>21. \A s, C, G : Views(s, C, G)' <=> Views(s, C, G)
    BY <1>7, <1>8, <1>10 DEF Views, HostView, TxnView
<1>22. \A s, T, C, G : Books(s, T, C, G)' <=> Books(s, T, C, G)
    BY <1>19, <1>20, <1>21 DEF Books
<1> QED BY <1>1, <1>11, <1>12, <1>13, <1>14, <1>16, <1>22

\* What a step has to show.
LEMMA InvariantAfter ==
    ASSUME conf \in Configurations, conf' = conf,
           NEW s \in Systems, NEW q, NEW G \in Givens, s = sys', q = taken', G = given',
           InProgramOrder(q), Flow(s, Range(q)),
           served' = {Position(x)' : x \in Range(q) \ (Ing(s) \cup Que(s))},
           Books(s, Range(q), Gone(s, Range(q)), G)
    PROVE  SystemInv'
<1>1. conf' \in Configurations /\ InProgramOrder(taken)' /\ sys' \in Systems' /\ given' \in Givens'
    BY SameProgram
<1>2. Flow(sys, Range(taken))'
    BY SameProgram
<1>3. Books(sys, Range(taken), Gone(sys, Range(taken)), given)'
    BY SameProgram
<1>4. served' = {Position(x) : x \in Range(taken) \ (Ing(sys) \cup Que(sys))}'
    BY SameProgram
<1> QED BY <1>1, <1>2, <1>3, <1>4 DEF SystemInv

\* A transaction is taken once.
LEMMA PositionIs ==
    ASSUME conf \in Configurations, InProgramOrder(taken)
    PROVE  /\ \A i \in DOMAIN taken : Position(taken[i]) = i
           /\ \A x \in Range(taken) : Position(x) \in DOMAIN taken /\ taken[Position(x)] = x
<1>1. taken \in Seq(Program) /\ DOMAIN taken = 1 .. Len(taken)
    BY DEF InProgramOrder
<1>2. \A i, j \in DOMAIN taken : taken[i] = taken[j] => i = j
    <2>1. \A i, j \in DOMAIN taken : i < j \/ j < i \/ i = j
        BY <1>1
    <2>2. \A i \in DOMAIN taken : taken[i] \in Program
        BY <1>1
    <2> QED BY <2>1, <2>2, BeforeOrders DEF InProgramOrder
<1>3. ASSUME NEW x \in Range(taken) PROVE Position(x) \in DOMAIN taken /\ taken[Position(x)] = x
    BY DEF Range, Position
<1>4. \A i \in DOMAIN taken : Position(taken[i]) = i
    BY <1>2, <1>3 DEF Range
<1> QED BY <1>3, <1>4

\* At the start nothing was taken.
LEMMA SystemInit == Init => SystemInv
<1> SUFFICES ASSUME Init PROVE SystemInv
    OBVIOUS
<1>1. conf \in Configurations /\ taken = <<>> /\ Range(taken) = {} /\ served = {}
    BY DEF Init, Range
<1>2. InProgramOrder(taken)
    BY <1>1 DEF InProgramOrder
<1>3. /\ \A k \in StackIds : sys.ingress[k] = <<>>
      /\ \A c \in Controllers : sys.ctrl[c].queue = <<>> /\ sys.ctrl[c].answers = <<>>
      /\ sys.submissions = NoTags /\ sys.assemblies = NoTags /\ sys.hostq = <<>>
      /\ sys.txnq = <<>> /\ sys.failed = FALSE
      /\ given.hosts = <<>> /\ given.txns = <<>>
    BY DEF Init, Sys0
<1>4. sys \in Systems /\ given \in Givens
    <2>1. NoTags \in Notes /\ NoTags \in Collections
        <3>1. NoTags \in [{} -> Note] /\ NoTags \in [{} -> Partials]
            BY DEF NoTags
        <3>2. {} \in SUBSET Nat
            OBVIOUS
        <3> QED BY <3>1, <3>2 DEF Notes, Collections
    <2>2. /\ <<>> \in Seq(Program) /\ <<>> \in Seq(Answers)
          /\ [s \in StackIds |-> <<>>] \in [StackIds -> Seq(Program)]
          /\ [c \in Controllers |-> [queue |-> <<>>, answers |-> <<>>]]
                \in [Controllers -> [queue : Seq(Program), answers : Seq(Program)]]
        OBVIOUS
    <2> QED BY <2>1, <2>2 DEF Init, Sys0, Systems, Givens
<1>5. Ing(sys) = {} /\ Que(sys) = {} /\ Ans(sys) = {}
    <2>1. \A x \in Program : Home(x).stack \in StackIds /\ ControllerOf(x) \in Controllers
        BY <1>1, HomeIs
    <2> QED BY <1>3, <2>1 DEF Ing, Que, Ans, Range
<1>6. Queues(sys)
    BY <1>3 DEF Queues, Range, IsInjective
<1>7. Flow(sys, {})
    BY <1>3, <1>5, <1>6 DEF Flow
<1>8. Gone(sys, {}) = {}
    BY DEF Gone
<1>9. Books(sys, {}, {}, given)
    <2>1. \A g : Of({}, g) = {}
        BY DEF Of
    <2>2. Live({}, {}, given) = {} /\ Begun({}) = {}
        BY <2>1 DEF Live, Begun
    <2>3. DOMAIN NoTags = {}
        BY DEF NoTags
    <2>4. Tags(sys, {}, {}, given) /\ Parts(sys, {})
        BY <1>3, <2>2, <2>3 DEF Tags, TagsDiffer, TagsOf, Parts
    <2>5. Range(<<>>) = {} /\ IsInjective(<<>>) /\ <<>> \o <<>> = <<>>
        BY DEF Range, IsInjective
    <2>6. \A g \in Hosts : Of({}, g) # Indices(g)
        <3>1. \A g \in Hosts : 1 \in Indices(g)
            BY <1>1, RequestIs
        <3> QED BY <2>1, <3>1
    <2>7. Views(sys, {}, given)
        BY <1>3, <2>5, <2>6 DEF Views, HostView, TxnView
    <2> QED BY <1>3, <2>4, <2>7 DEF Books
<1> QED BY <1>1, <1>2, <1>4, <1>5, <1>7, <1>8, <1>9 DEF SystemInv

\* A step of all stacks and controllers.
LEMMA StepKeeps == SystemInv /\ Step => SystemInv'
<1> SUFFICES ASSUME SystemInv, Step PROVE SystemInv'
    OBVIOUS
<1> DEFINE T == Range(taken)
<1>1. /\ conf \in Configurations /\ InProgramOrder(taken) /\ sys \in Systems /\ given \in Givens
      /\ Flow(sys, T) /\ Books(sys, T, Gone(sys, T), given)
      /\ served = {Position(x) : x \in T \ (Ing(sys) \cup Que(sys))}
    BY DEF SystemInv
<1>2. T \in SUBSET Program
    BY <1>1 DEF InProgramOrder, Range
<1>3. PICK d : d = Dispatched
    OBVIOUS
<1>4. PICK S \in Servable(d) : Tick(d, S)
    BY <1>3 DEF Step
<1>5. /\ d \in Systems /\ Flow(d, T) /\ SameBooks(sys, d)
      /\ Ing(d) \cup Que(d) = Ing(sys) \cup Que(sys) /\ Ans(d) = Ans(sys)
    <2> HIDE DEF T
    <2>1. d \in Moved(sys, T)
        BY <1>1, <1>2, <1>3, DispatchedIs
    <2> QED BY <2>1 DEF Moved
<1>6. PICK v : v = ServedBy(d, S)
    OBVIOUS
<1> HIDE DEF T
<1>7. /\ v \in Systems /\ Flow(v, T) /\ SameBooks(d, v) /\ S \subseteq Que(d)
      /\ Ing(v) = Ing(d) /\ Que(v) = Que(d) \ S /\ Ans(v) = Ans(d) \cup S
    BY <1>1, <1>2, <1>4, <1>5, <1>6, ServeFlow
<1>8. Books(v, T, Gone(v, T), given)
    <2>1. Gone(v, T) = Gone(sys, T)
        <3>1. Ing(v) \cup Que(v) \cup Ans(v) = Ing(sys) \cup Que(sys) \cup Ans(sys)
            BY <1>5, <1>7
        <3> QED BY <3>1 DEF Gone
    <2>2. SameBooks(sys, v)
        BY <1>5, <1>7 DEF SameBooks
    <2> QED BY <1>1, <2>1, <2>2 DEF SameBooks, Books, Tags, Parts, Views
<1>9. PICK t : t = Collected(v)
    OBVIOUS
<1>10. /\ t \in Systems /\ Flow(t, T) /\ Books(t, T, Gone(t, T), given)
       /\ Ing(t) = Ing(v) /\ Que(t) = Que(v)
    <2>1. t \in Carried(v, T, given)
        BY <1>1, <1>2, <1>7, <1>8, <1>9, CollectedIs
    <2> QED BY <2>1 DEF Carried
<1>11. /\ sys' = t /\ conf' = conf /\ taken' = taken /\ given' = given
       /\ served' = served \cup {Position(x) : x \in S}
    BY <1>4, <1>6, <1>9 DEF Tick
<1>12. served' = {Position(x)' : x \in T \ (Ing(t) \cup Que(t))}
    <2>1. T \ (Ing(t) \cup Que(t)) = (T \ (Ing(sys) \cup Que(sys))) \cup S
        <3>1. S \subseteq T /\ Ing(d) \cap Que(d) = {}
            BY <1>5, <1>7 DEF Flow
        <3> QED BY <1>5, <1>7, <1>10, <3>1
    <2>2. \A x : Position(x)' = Position(x)
        BY <1>11 DEF Position
    <2> QED BY <1>1, <1>11, <2>1, <2>2
<1>13. T = Range(taken')
    BY <1>11 DEF T
<1> QED BY <1>1, <1>10, <1>11, <1>12, <1>13, InvariantAfter

\* What is offered is the next of the program.
LEMMA OfferedIs ==
    ASSUME conf \in Configurations, InProgramOrder(taken), Offered.host \in Hosts
    PROVE  /\ Offered \in Program /\ Offered \notin Range(taken)
           /\ InProgramOrder(Append(taken, Offered))
           /\ \A y \in Program : Before(y, Offered) <=> y \in Range(taken)
<1> DEFINE x == Offered
           n == Len(taken)
           last == taken[n]
<1>1. taken \in Seq(Program) /\ DOMAIN taken = 1 .. n /\ n \in Nat
    BY DEF InProgramOrder
<1>2. /\ x \in Program
      /\ \A y \in Program : Before(y, x) <=> taken # <<>> /\ (y = last \/ Before(y, last))
    <2>1. \A y \in Program : /\ y.host \in Nat \ {0} /\ y.index \in Nat \ {0}
                             /\ y.host \in Hosts /\ y.index <= Count(y)
                             /\ y = Part(y.host, y.index) /\ Count(y) \in Nat \ {0}
        <3> SUFFICES ASSUME NEW y \in Program
                     PROVE  /\ y.host \in Nat \ {0} /\ y.index \in Nat \ {0}
                            /\ y.host \in Hosts /\ y.index <= Count(y)
                            /\ y = Part(y.host, y.index) /\ Count(y) \in Nat \ {0}
            OBVIOUS
        <3>1. y.host \in Hosts /\ y.index \in Indices(y.host) /\ y = Part(y.host, y.index)
            BY ProgramIs
        <3>2. /\ Indices(y.host) = 1 .. Count(y) /\ Count(y) \in Nat \ {0}
              /\ Hosts = 1 .. Len(conf.program) /\ Len(conf.program) \in Nat
            BY <3>1, RequestIs, ConfIs DEF Count
        <3> QED BY <3>1, <3>2
    <2>2. CASE taken = <<>>
        <3>1. x = Part(1, 1)
            BY <2>2 DEF Offered, Part
        <3>2. x.host = 1 /\ x.index = 1 /\ 1 \in Indices(1)
            BY <3>1, RequestIs DEF Part
        <3>3. x \in Program
            BY <3>1, <3>2, ProgramIs
        <3>4. \A y \in Program : ~Before(y, x)
            BY <2>1, <3>2 DEF Before
        <3> QED BY <2>2, <3>3, <3>4
    <2>3. CASE taken # <<>>
        <3>1. last \in Program
            BY <1>1, <2>3
        <3>2. PICK z \in Program : z = last
            BY <3>1
        <3>3. z.host \in Nat \ {0} /\ z.index \in Nat \ {0} /\ z.host \in Hosts
              /\ z.index <= Count(z) /\ z = Part(z.host, z.index) /\ Count(z) \in Nat \ {0}
            BY <2>1
        <3>4. CASE z.index < Count(z)
            <4>1. x = Part(z.host, z.index + 1)
                <5>1. x = [z EXCEPT !.index = @ + 1]
                    BY <2>3, <3>2, <3>4 DEF Offered
                <5>2. z = [host |-> z.host, index |-> z.index]
                    BY <3>3 DEF Part
                <5> QED BY <5>1, <5>2 DEF Part
            <4>2. x.host = z.host /\ x.index = z.index + 1
                BY <4>1 DEF Part
            <4>3. z.index + 1 \in Indices(z.host)
                <5>1. Indices(z.host) = 1 .. Count(z)
                    BY <3>3, RequestIs DEF Count
                <5> QED BY <3>3, <3>4, <5>1
            <4>4. x \in Program
                BY <3>3, <4>1, <4>3, ProgramIs
            <4>5. ASSUME NEW y \in Program PROVE Before(y, x) <=> y = z \/ Before(y, z)
                <5>1. y = z <=> y.host = z.host /\ y.index = z.index
                    BY <2>1, <3>3
                <5> QED BY <2>1, <3>3, <4>2, <5>1 DEF Before
            <4> QED BY <2>3, <3>2, <4>4, <4>5
        <3>5. CASE ~(z.index < Count(z))
            <4>1. x = Part(z.host + 1, 1)
                BY <2>3, <3>2, <3>5 DEF Offered, Part
            <4>2. x.host = z.host + 1 /\ x.index = 1
                BY <4>1 DEF Part
            <4>3. x \in Program
                <5>1. z.host + 1 \in Hosts
                    BY <4>2
                <5>2. PICK h \in Hosts : h = z.host + 1
                    BY <5>1
                <5>3. 1 \in Indices(h)
                    BY RequestIs
                <5> QED BY <4>1, <5>2, <5>3, ProgramIs
            <4>4. ASSUME NEW y \in Program PROVE Before(y, x) <=> y = z \/ Before(y, z)
                <5>1. y = z <=> y.host = z.host /\ y.index = z.index
                    BY <2>1, <3>3
                <5>2. y.host = z.host => Count(y) = Count(z)
                    BY DEF Count
                <5>3. y.host = z.host => y.index <= z.index
                    BY <2>1, <3>3, <3>5, <5>2
                <5> QED BY <2>1, <3>3, <4>2, <5>1, <5>3 DEF Before
            <4> QED BY <2>3, <3>2, <4>3, <4>4
        <3> QED BY <3>4, <3>5
    <2> QED BY <2>2, <2>3
<1>3. \A y \in Program : Before(y, x) <=> y \in Range(taken)
    <2>1. CASE taken = <<>>
        <3>1. Range(taken) = {}
            BY <2>1 DEF Range
        <3> QED BY <1>2, <2>1, <3>1
    <2>2. CASE taken # <<>>
        <3>1. n \in DOMAIN taken /\ \A i \in DOMAIN taken : i = n \/ i < n
            BY <1>1, <2>2
        <3>2. last \in Range(taken) /\ last \in Program
            BY <1>1, <3>1 DEF Range
        <3>3. ASSUME NEW y \in Program, Before(y, x) PROVE y \in Range(taken)
            BY <1>2, <3>1, <3>2, <3>3 DEF InProgramOrder
        <3>4. ASSUME NEW y \in Range(taken) PROVE Before(y, x)
            <4>1. PICK i \in DOMAIN taken : y = taken[i]
                BY DEF Range
            <4>2. y \in Program /\ (y = last \/ Before(y, last))
                BY <1>1, <3>1, <4>1 DEF InProgramOrder
            <4> QED BY <1>2, <2>2, <4>2
        <3> QED BY <3>3, <3>4
    <2> QED BY <2>1, <2>2
<1> HIDE DEF x, last, n
<1>4. x \notin Range(taken)
    BY <1>2, <1>3, BeforeOrders
<1>5. InProgramOrder(Append(taken, x))
    <2> DEFINE q == Append(taken, x)
    <2>1. /\ q \in Seq(Program) /\ DOMAIN q = 1 .. n + 1 /\ q[n + 1] = x
          /\ \A i \in 1 .. n : q[i] = taken[i]
        BY <1>1, <1>2 DEF n
    <2>2. Range(q) = Range(taken) \cup {x}
        BY <1>1, <1>2, RangeAppend
    <2> HIDE DEF q
    <2>3. ASSUME NEW i \in DOMAIN q, NEW j \in DOMAIN q, i < j PROVE Before(q[i], q[j])
        <3>1. i \in 1 .. n /\ q[i] = taken[i]
            BY <1>1, <2>1, <2>3
        <3>2. CASE j \in 1 .. n
            BY <1>1, <2>1, <2>3, <3>1, <3>2 DEF InProgramOrder
        <3>3. CASE j = n + 1
            <4>1. q[i] \in Program /\ q[i] \in Range(taken)
                BY <1>1, <3>1 DEF Range
            <4> QED BY <1>3, <2>1, <3>3, <4>1
        <3> QED BY <1>1, <2>1, <3>2, <3>3
    <2>4. ASSUME NEW i \in DOMAIN q, NEW y \in Program, Before(y, q[i]) PROVE y \in Range(q)
        <3>1. CASE i \in 1 .. n
            BY <1>1, <2>1, <2>2, <2>4, <3>1 DEF InProgramOrder
        <3>2. CASE i = n + 1
            BY <1>3, <2>1, <2>2, <2>4, <3>2
        <3> QED BY <1>1, <2>1, <3>1, <3>2
    <2> QED BY <2>1, <2>3, <2>4 DEF InProgramOrder, q
<1> QED BY <1>2, <1>3, <1>4, <1>5 DEF x

\* The tag that is offered is free, or it is the request's own.
LEMMA TagIsFree ==
    ASSUME SystemInv, MayOffer(Offered), NEW C, C = Gone(sys, Range(taken))
    PROVE  /\ Offered.index = 1 => /\ Of(Range(taken), Offered.host) = {}
                                   /\ Tag(Offered) \notin DOMAIN sys.submissions
           /\ Offered.index # 1 => Offered.host \in Live(Range(taken), C, given)
<1> DEFINE x == Offered
           g == x.host
           T == Range(taken)
<1>1. /\ conf \in Configurations /\ InProgramOrder(taken) /\ sys \in Systems /\ given \in Givens
      /\ Tags(sys, T, C, given) /\ HostView(given.hosts \o sys.hostq, C)
      /\ TxnView(given.txns \o sys.txnq, C)
    BY DEF SystemInv, Books, Views
<1>2. /\ x \in Program /\ x \notin T /\ \A y \in Program : Before(y, x) <=> y \in T
      /\ T \in SUBSET Program /\ C \in SUBSET T
    <2>1. x.host \in Hosts
        BY DEF MayOffer, Hosts
    <2>2. T \in SUBSET Program
        BY <1>1 DEF InProgramOrder, Range
    <2> QED BY <1>1, <2>1, <2>2, OfferedIs DEF Gone
<1>3. g \in Hosts /\ x.index \in Indices(g) /\ x = Part(g, x.index)
    BY <1>2, ProgramIs
<1> HIDE DEF x, T
<1>4. \A h \in Hosts : \A k \in Indices(h) :
        Part(h, k) \in T <=> h < g \/ (h = g /\ k < x.index)
    <2>1. \A h \in Hosts : \A k \in Indices(h) :
            Part(h, k) \in Program /\ Part(h, k).host = h /\ Part(h, k).index = k
        BY ProgramIs
    <2> QED BY <1>2, <2>1 DEF Before
<1>5. ASSUME x.index = 1 PROVE Of(T, g) = {} /\ Tag(x) \notin DOMAIN sys.submissions
    <2>1. \A k \in Indices(g) : k \in Nat /\ k >= 1
        BY <1>1, <1>3, RequestIs
    <2>2. g \in Nat
        BY <1>1, <1>3, ConfIs
    <2>3. Of(T, g) = {}
        BY <1>3, <1>4, <1>5, <2>1, <2>2 DEF Of
    <2>4. ASSUME Tag(x) \in DOMAIN sys.submissions PROVE FALSE
        <3>1. PICK h \in Live(T, C, given) : TagOf(h) = Tag(x)
            BY <1>1, <2>4 DEF Tags, TagsOf
        <3>2. h \in Hosts /\ Of(T, h) # {}
            BY <3>1 DEF Live
        <3>3. h # g
            BY <2>3, <3>2
        <3>4. PICK k \in Indices(h) : Part(h, k) \in T
            BY <3>2 DEF Of
        <3>5. h < g /\ h \in 1 .. g - 1
            <4>1. h < g
                BY <1>4, <3>2, <3>3, <3>4
            <4>2. h \in Nat /\ h >= 1
                BY <1>1, <3>2, ConfIs
            <4> QED BY <2>2, <4>1, <4>2
        <3>6. Popped(h)
            BY <1>5, <3>1, <3>5 DEF MayOffer, x, TagOf
        <3>7. CASE RetainsHost
            <4>1. PICK i \in DOMAIN given.hosts : given.hosts[i][1].host = h
                BY <3>6, <3>7 DEF Popped
            <4>2. given.hosts \in Seq(Answers)
                BY <1>1 DEF Givens
            <4>3. given.hosts[i] \in Answers /\ given.hosts[i] \in Range(given.hosts)
                BY <4>1, <4>2 DEF Range
            <4>4. PICK e \in Hosts : given.hosts[i] = AnswerOf(e)
                BY <4>3 DEF Answers
            <4>5. 1 \in Indices(e)
                BY <1>1, RequestIs
            <4>6. AnswerOf(e)[1].host = e
                BY <4>5 DEF AnswerOf, Part
            <4>7. e = h
                BY <4>1, <4>4, <4>6
            <4> QED BY <3>1, <3>7, <4>3, <4>4, <4>7 DEF Live
        <3>8. CASE ~RetainsHost
            <4>1. RetainsTransactions
                BY <1>1, <3>8, ConfIs DEF RetainsHost, RetainsTransactions
            <4>2. \A m \in Indices(h) : Part(h, m) \in Range(given.txns)
                BY <3>6, <3>8 DEF Popped, Indices, Part
            <4>3. Range(given.txns) \subseteq C
                <5>1. given.txns \in Seq(Program) /\ sys.txnq \in Seq(Program)
                    BY <1>1 DEF Givens, Systems
                <5>2. Range(given.txns \o sys.txnq) = Range(given.txns) \cup Range(sys.txnq)
                    BY <5>1, RangeConcat
                <5> QED BY <1>1, <4>1, <5>2 DEF TxnView
            <4>4. Of(C, h) = Indices(h)
                BY <4>2, <4>3 DEF Of
            <4> QED BY <3>1, <3>8, <4>4 DEF Live
        <3> QED BY <3>7, <3>8
    <2> QED BY <2>3, <2>4
<1>6. ASSUME x.index # 1 PROVE g \in Live(T, C, given)
    <2>1. x.index \in Nat /\ x.index > 1 /\ 1 \in Indices(g)
        BY <1>1, <1>3, <1>6, RequestIs
    <2>2. 1 \in Of(T, g)
        BY <1>3, <1>4, <2>1 DEF Of
    <2>3. x.index \notin Of(C, g)
        BY <1>2, <1>3 DEF Of
    <2>4. PICK h \in Hosts : h = g
        BY <1>3
    <2>5. Of(T, h) # {} /\ Of(C, h) # Indices(h)
        BY <1>3, <2>2, <2>3, <2>4
    <2>6. h \in Live(T, C, given)
        BY <1>1, <1>2, <2>5, StillLive
    <2> QED BY <2>4, <2>6
<1> QED BY <1>5, <1>6 DEF x, T

\* What is taken waits last of its stack.
WithLast(ingress, x) == [ingress EXCEPT ![Home(x).stack] = Append(@, x)]

\* It comes after those of its class that were taken.
LEMMA SubmitFlow ==
    ASSUME conf \in Configurations, NEW s \in Systems, NEW T \in SUBSET Program, Flow(s, T),
           NEW x \in Program, x \notin T, \A y \in T : Before(y, x),
           NEW t \in Systems, t.ctrl = s.ctrl,
           t.ingress = WithLast(s.ingress, x)
    PROVE  /\ Flow(t, T \cup {x}) /\ Ing(t) = Ing(s) \cup {x} /\ Que(t) = Que(s)
           /\ Ans(t) = Ans(s)
<1> DEFINE k == Home(x).stack
           q == s.ingress[k]
           u == Append(q, x)
<1>0. Queues(s) /\ Ing(s) \subseteq T /\ Que(s) \subseteq T /\ Ans(s) \subseteq T
    BY DEF Flow
<1>1. k \in StackIds /\ q \in Seq(Program)
    BY HomeIs DEF Systems
<1>2. /\ u \in Seq(Program) /\ Range(u) = Range(q) \cup {x}
      /\ DOMAIN q = 1 .. Len(q) /\ Len(q) \in Nat /\ DOMAIN u = 1 .. Len(q) + 1
      /\ u[Len(q) + 1] = x /\ \A i \in 1 .. Len(q) : u[i] = q[i]
    <2> HIDE DEF q, k
    <2>1. u \in Seq(Program) /\ Range(u) = Range(q) \cup {x}
        BY <1>1, RangeAppend
    <2>2. /\ DOMAIN q = 1 .. Len(q) /\ Len(q) \in Nat /\ DOMAIN u = 1 .. Len(q) + 1
          /\ u[Len(q) + 1] = x /\ \A i \in 1 .. Len(q) : u[i] = q[i]
        BY <1>1
    <2> QED BY <2>1, <2>2
<1>3. /\ t.ingress[k] = u
      /\ \A l \in StackIds : l # k => t.ingress[l] = s.ingress[l]
    BY <1>1 DEF Systems, WithLast
<1> HIDE DEF k, q, u
<1>4. Ing(t) = Ing(s) \cup {x}
    <2>1. ASSUME NEW y \in Program
          PROVE  y \in Range(t.ingress[Home(y).stack])
                    <=> y \in Range(s.ingress[Home(y).stack]) \/ y = x
        <3>1. Home(y).stack \in StackIds
            BY HomeIs
        <3>2. CASE Home(y).stack = k
            BY <1>2, <1>3, <3>2 DEF q
        <3>3. CASE Home(y).stack # k
            BY <1>3, <3>1, <3>3 DEF k
        <3> QED BY <3>2, <3>3
    <2> QED BY <2>1 DEF Ing
<1>5. Que(t) = Que(s) /\ Ans(t) = Ans(s)
    BY DEF Que, Ans
<1>6. Queues(t)
    <2>1. ASSUME NEW l \in StackIds
          PROVE  /\ \A y \in Range(t.ingress[l]) : Home(y).stack = l
                 /\ \A i, j \in DOMAIN t.ingress[l] :
                       i < j => Before(t.ingress[l][i], t.ingress[l][j])
        <3>1. CASE l = k
            <4>1. \A y \in Range(u) : Home(y).stack = l
                BY <1>0, <1>1, <1>2, <3>1 DEF Queues, q, k
            <4>2. ASSUME NEW i \in DOMAIN u, NEW j \in DOMAIN u, i < j PROVE Before(u[i], u[j])
                <5>1. i \in 1 .. Len(q) /\ u[i] = q[i]
                    BY <1>2, <4>2
                <5>2. CASE j \in 1 .. Len(q)
                    <6>1. Before(q[i], q[j])
                        BY <1>0, <1>1, <1>2, <4>2, <5>1, <5>2 DEF Queues, q
                    <6> QED BY <1>2, <5>1, <5>2, <6>1
                <5>3. CASE j = Len(q) + 1
                    <6>1. q[i] \in Range(q) /\ q[i] \in Program
                        BY <1>1, <1>2, <5>1 DEF Range
                    <6>2. q[i] \in T
                        BY <1>0, <1>1, <6>1, WhereIs DEF q
                    <6> QED BY <1>2, <5>1, <5>3, <6>2
                <5> QED BY <1>2, <5>2, <5>3
            <4> QED BY <1>3, <3>1, <4>1, <4>2
        <3>2. CASE l # k
            BY <1>0, <1>3, <3>2 DEF Queues
        <3> QED BY <3>1, <3>2
    <2>2. \A c \in Controllers :
            /\ IsInjective(t.ctrl[c].queue) /\ IsInjective(t.ctrl[c].answers)
            /\ \A y \in Range(t.ctrl[c].queue) \cup Range(t.ctrl[c].answers) : ControllerOf(y) = c
        BY <1>0 DEF Queues
    <2> QED BY <2>1, <2>2 DEF Queues
<1>7. ASSUME NEW y \in T \cup {x}, NEW z \in T \cup {x}, Before(y, z), ClassOf(y) = ClassOf(z)
      PROVE  /\ y \in Ing(t) => z \in Ing(t)
             /\ y \in Que(t) => z \in Ing(t) \cup Que(t)
    <2>1. CASE z = x
        BY <1>4, <2>1
    <2>2. CASE z # x /\ y = x
        <3>1. Before(z, x) /\ z \in Program
            BY <2>2
        <3> QED BY <1>7, <2>2, <3>1, BeforeOrders
    <2>3. CASE z # x /\ y # x
        BY <1>4, <1>5, <1>7, <2>3 DEF Flow
    <2> QED BY <2>1, <2>2, <2>3
<1>8. /\ Ing(t) \cap Que(t) = {} /\ Ing(t) \cap Ans(t) = {} /\ Que(t) \cap Ans(t) = {}
      /\ Ing(t) \cup Que(t) \cup Ans(t) \subseteq T \cup {x}
    BY <1>0, <1>4, <1>5 DEF Flow
<1>9. \A c \in Controllers : \A i, j \in DOMAIN t.ctrl[c].queue :
        LET y == t.ctrl[c].queue[i]
            z == t.ctrl[c].queue[j]
        IN  Before(y, z) /\ ClassOf(y) = ClassOf(z) => i < j
    BY DEF Flow
<1> QED BY <1>4, <1>5, <1>6, <1>7, <1>8, <1>9 DEF Flow

\* Its request is live, with a tag of its own.
LEMMA SubmitTags ==
    ASSUME conf \in Configurations, sys \in Systems, NEW T \in SUBSET Program,
           NEW C \in SUBSET T, NEW G, Tags(sys, T, C, G),
           NEW x \in Program, x \notin T,
           HostView(G.hosts \o sys.hostq, C), G \in Givens,
           x.index = 1 => Of(T, x.host) = {} /\ Tag(x) \notin DOMAIN sys.submissions,
           x.index # 1 => x.host \in Live(T, C, G),
           NEW t \in Systems, t.submissions = Put(sys.submissions, Tag(x), Submission(x))
    PROVE  Submission(x) \in Note /\ Tags(t, T \cup {x}, C, G)
<1> DEFINE g == x.host
           tag == TagOf(g)
           n == Len(Request(g).txns)
           D == T \cup {x}
           note == Submission(x)
<1>1. /\ g \in Hosts /\ x.index \in Indices(g) /\ x.index \notin Of(T, g)
      /\ Of(D, g) = Of(T, g) \cup {x.index} /\ \A h \in Hosts : h # g => Of(D, h) = Of(T, h)
    BY OneMore
<1>2. /\ tag \in Nat /\ n \in Nat /\ Request(g).write \in BOOLEAN /\ Tag(x) = tag
      /\ x.index \in Nat /\ Of(D, g) \in SUBSET Nat
    <2>1. Of(D, g) \in SUBSET Indices(g)
        BY DEF Of
    <2> HIDE DEF D
    <2> QED BY <1>1, <2>1, RequestIs, AllOf DEF Tag, TagOf
<1>3. Of(C, g) \subseteq Of(T, g) /\ Cardinality(Of(C, g)) \in Nat
    <2>1. Of(C, g) \subseteq Of(T, g) /\ Of(C, g) \in SUBSET Indices(g)
        BY DEF Of
    <2> HIDE DEF g
    <2> QED BY <1>1, <2>1, AllOf
<1>4. note = [count |-> n, write |-> Request(g).write, accepted |-> Of(D, g),
              completed |-> Cardinality(Of(C, g))]
    <2> DEFINE old == IF Tag(x) \in DOMAIN sys.submissions THEN sys.submissions[Tag(x)]
                      ELSE [count |-> Count(x), write |-> Request(x.host).write,
                            accepted |-> {}, completed |-> 0]
    <2>1. old = [count |-> n, write |-> Request(g).write, accepted |-> Of(T, g),
                 completed |-> Cardinality(Of(C, g))]
        <3>1. CASE x.index = 1
            <4>1. Of(T, g) = {} /\ Of(C, g) = {} /\ Cardinality({}) = 0
                BY <1>3, <3>1, FS_EmptySet
            <4> QED BY <3>1, <4>1 DEF Count
        <3>2. CASE x.index # 1
            <4>1. tag \in DOMAIN sys.submissions
                BY <3>2 DEF Tags, TagsOf
            <4> QED BY <1>2, <3>2, <4>1 DEF Tags
        <3> QED BY <3>1, <3>2
    <2>2. note = [old EXCEPT !.accepted = @ \cup {x.index}]
        BY DEF Submission
    <2>3. PICK a, b, d, i, m, o :
            /\ a = Of(T, g) /\ b = Request(g).write /\ d = Cardinality(Of(C, g))
            /\ i = x.index /\ m = n /\ o = old
        OBVIOUS
    <2> HIDE DEF g, tag, n, D, old, note
    <2>4. o = [count |-> m, write |-> b, accepted |-> a, completed |-> d]
        BY <2>1, <2>3
    <2>5. [o EXCEPT !.accepted = @ \cup {i}]
            = [count |-> m, write |-> b, accepted |-> a \cup {i}, completed |-> d]
        BY <2>4
    <2>6. note = [o EXCEPT !.accepted = @ \cup {i}]
        BY <2>2, <2>3
    <2> QED BY <1>1, <2>3, <2>5, <2>6
<1> HIDE DEF g, tag, n, D, note
<1>5. note \in Note
    BY <1>2, <1>3, <1>4 DEF Note
<1>6. Live(D, C, G) = Live(T, C, G) \cup {g}
    <2>1. g \in Live(D, C, G)
        <3>1. PICK h \in Hosts : h = g
            BY <1>1
        <3>2. D \in SUBSET Program /\ C \in SUBSET D
            BY DEF D
        <3>3. Of(D, h) # {} /\ Of(C, h) # Indices(h)
            BY <1>1, <1>3, <3>1
        <3>4. h \in Live(D, C, G)
            BY <3>2, <3>3, StillLive
        <3> QED BY <3>1, <3>4
    <2>2. \A h \in Hosts : h # g => (h \in Live(D, C, G) <=> h \in Live(T, C, G))
        BY <1>1 DEF Live
    <2>3. \A h \in Live(D, C, G) \cup Live(T, C, G) : h \in Hosts
        BY DEF Live
    <2> QED BY <2>1, <2>2, <2>3
<1>7. \A h \in Live(T, C, G) : h # g => TagOf(h) # tag
    <2>1. CASE x.index = 1
        BY <1>2, <2>1 DEF Tags, TagsOf
    <2>2. CASE x.index # 1
        BY <2>2 DEF Tags, TagsDiffer, g, tag
    <2> QED BY <2>1, <2>2
<1>8. TagsDiffer(Live(D, C, G))
    BY <1>6, <1>7 DEF Tags, TagsDiffer, tag
<1>9. DOMAIN sys.submissions = TagsOf(Live(T, C, G))
    BY DEF Tags
<1>10. /\ DOMAIN t.submissions = DOMAIN sys.submissions \cup {tag} /\ t.submissions[tag] = note
       /\ \A k \in DOMAIN sys.submissions \ {tag} : t.submissions[k] = sys.submissions[k]
    <2>1. PICK a, b : a = sys.submissions /\ b = t.submissions
        OBVIOUS
    <2>2. b = Put(a, tag, note)
        BY <1>2, <2>1 DEF note
    <2>3. /\ DOMAIN b = DOMAIN a \cup {tag} /\ b[tag] = note
          /\ \A k \in DOMAIN a \ {tag} : b[k] = a[k]
        BY <2>2 DEF Put
    <2> QED BY <2>1, <2>3
<1>11. DOMAIN t.submissions = TagsOf(Live(D, C, G))
    BY <1>6, <1>9, <1>10 DEF TagsOf, tag
<1>12. ASSUME NEW h \in Live(D, C, G)
       PROVE  t.submissions[TagOf(h)] =
                 [count |-> Len(Request(h).txns), write |-> Request(h).write,
                  accepted |-> Of(D, h), completed |-> Cardinality(Of(C, h))]
    <2>1. CASE h = g
        BY <1>4, <1>10, <2>1 DEF tag, n
    <2>2. CASE h # g
        <3>1. h \in Live(T, C, G) /\ h \in Hosts /\ TagOf(h) # tag
            BY <1>6, <1>7, <2>2 DEF Live
        <3>2. TagOf(h) \in DOMAIN sys.submissions \ {tag}
            BY <1>9, <3>1 DEF TagsOf
        <3>3. t.submissions[TagOf(h)] = sys.submissions[TagOf(h)]
            BY <1>10, <3>2
        <3> QED BY <1>1, <2>2, <3>1, <3>3 DEF Tags
    <2> QED BY <2>1, <2>2
<1> QED BY <1>5, <1>8, <1>11, <1>12 DEF Tags, D, note

\* Nothing is refused with an exception.
LEMMA NotReused ==
    ASSUME SystemInv, MayOffer(Offered)
    PROVE  ~Reused(Offered)
<1> DEFINE x == Offered
           T == Range(taken)
           C == Gone(sys, T)
<1>1. /\ conf \in Configurations /\ InProgramOrder(taken) /\ Tags(sys, T, C, given)
    BY DEF SystemInv, Books
<1>2. x \in Program /\ x \notin T
    <2>1. x.host \in Hosts
        BY DEF MayOffer, Hosts
    <2> QED BY <1>1, <2>1, OfferedIs
<1>3. /\ x.index = 1 => Tag(x) \notin DOMAIN sys.submissions
      /\ x.index # 1 => x.host \in Live(T, C, given)
    BY TagIsFree
<1> HIDE DEF x, T, C
<1>4. CASE x.index = 1
    BY <1>3, <1>4 DEF Reused, x
<1>5. CASE x.index # 1
    <2>1. x.index \notin Of(T, x.host)
        BY <1>1, <1>2, ProgramIs DEF Of
    <2>2. PICK o : o = sys.submissions[Tag(x)]
        OBVIOUS
    <2>3. Tag(x) \in DOMAIN sys.submissions
        BY <1>1, <1>3, <1>5 DEF Tags, TagsOf, Tag, TagOf
    <2>4. o = [count |-> Len(Request(x.host).txns), write |-> Request(x.host).write,
               accepted |-> Of(T, x.host), completed |-> Cardinality(Of(C, x.host))]
        BY <1>1, <1>3, <1>5, <2>2 DEF Tags, Tag, TagOf
    <2>5. o.count = Count(x) /\ o.write = Request(x.host).write /\ x.index \notin o.accepted
        BY <2>1, <2>4 DEF Count
    <2> QED BY <2>2, <2>3, <2>5 DEF Reused, x
<1> QED BY <1>4, <1>5 DEF x

\* What is noted of it.
LEMMA SubmissionIs ==
    ASSUME conf \in Configurations, sys \in Systems, NEW x \in Program
    PROVE  Submission(x) \in Note /\ Tag(x) \in Nat
<1>1. \A o \in Note, i \in Nat : [o EXCEPT !.accepted = @ \cup {i}] \in Note
    BY DEF Note
<1>2. Tag(x) \in Nat /\ Count(x) \in Nat /\ Request(x.host).write \in BOOLEAN /\ x.index \in Nat
    BY ProgramIs, RequestIs DEF Tag, TagOf, Count
<1>3. CASE Tag(x) \in DOMAIN sys.submissions
    <2>1. PICK m \in Notes : m = sys.submissions
        BY DEF Systems
    <2>2. PICK D \in SUBSET Nat : m \in [D -> Note]
        BY DEF Notes
    <2>3. PICK o \in Note : o = sys.submissions[Tag(x)]
        BY <1>3, <2>1, <2>2
    <2>4. Submission(x) = [o EXCEPT !.accepted = @ \cup {x.index}]
        BY <1>3, <2>3 DEF Submission
    <2> QED BY <1>1, <1>2, <2>3, <2>4
<1>4. CASE Tag(x) \notin DOMAIN sys.submissions
    <2>1. PICK o : o = [count |-> Count(x), write |-> Request(x.host).write,
                        accepted |-> {}, completed |-> 0]
        OBVIOUS
    <2>2. o \in Note
        BY <1>2, <2>1 DEF Note
    <2>3. Submission(x) = [o EXCEPT !.accepted = @ \cup {x.index}]
        BY <1>4, <2>1 DEF Submission
    <2> QED BY <1>1, <1>2, <2>2, <2>3
<1> QED BY <1>2, <1>3, <1>4

\* A transaction is taken.
LEMMA SubmitKeeps == SystemInv /\ TrySubmit => SystemInv'
<1> SUFFICES ASSUME SystemInv, TrySubmit PROVE SystemInv'
    OBVIOUS
<1> DEFINE T == Range(taken)
           C == Gone(sys, T)
<1>1. /\ conf \in Configurations /\ InProgramOrder(taken) /\ sys \in Systems /\ given \in Givens
      /\ Flow(sys, T) /\ Books(sys, T, C, given)
      /\ served = {Position(y) : y \in T \ (Ing(sys) \cup Que(sys))}
    BY DEF SystemInv
<1>2. PICK x : x = Offered
    OBVIOUS
<1>3. MayOffer(Offered) /\ ~Reused(Offered)
    BY NotReused DEF TrySubmit
<1>4. /\ x \in Program /\ x \notin T /\ InProgramOrder(Append(taken, x))
      /\ T \in SUBSET Program /\ C \in SUBSET T
      /\ \A y \in T : Before(y, x)
    <2>1. Offered.host \in Hosts
        BY <1>3 DEF MayOffer, Hosts
    <2>2. T \in SUBSET Program
        BY <1>1 DEF InProgramOrder, Range
    <2> QED BY <1>1, <1>2, <2>1, <2>2, OfferedIs DEF Gone
<1>5. /\ x.index = 1 => Of(T, x.host) = {} /\ Tag(x) \notin DOMAIN sys.submissions
      /\ x.index # 1 => x.host \in Live(T, C, given)
    BY <1>2, <1>3, TagIsFree
<1>6. /\ sys' = [sys EXCEPT !.ingress[Home(x).stack] = Append(@, x),
                            !.submissions = Put(@, Tag(x), Submission(x))]
      /\ taken' = Append(taken, x) /\ conf' = conf /\ served' = served /\ given' = given
    BY <1>2, <1>3 DEF TrySubmit
<1> HIDE DEF T, C
<1>7. PICK t : t = sys'
    OBVIOUS
<1>8. PICK note, e : /\ note = Put(sys.submissions, Tag(x), Submission(x))
                     /\ e = [sys.ingress EXCEPT ![Home(x).stack] = Append(@, x)]
    OBVIOUS
<1>9. t = [[sys EXCEPT !.ingress = e] EXCEPT !.submissions = note]
    BY <1>1, <1>6, <1>7, <1>8 DEF Systems
<1>10. e \in [StackIds -> Seq(Program)]
    <2>1. Home(x).stack \in StackIds
        BY <1>1, <1>4, HomeIs
    <2>2. sys.ingress \in [StackIds -> Seq(Program)]
        BY <1>1 DEF Systems
    <2>3. PICK q \in Seq(Program) : q = sys.ingress[Home(x).stack]
        BY <2>1, <2>2
    <2>4. Append(q, x) \in Seq(Program)
        BY <1>4, <2>3
    <2> QED BY <1>8, <2>2, <2>3, <2>4
<1>11. Submission(x) \in Note /\ Tag(x) \in Nat
    BY <1>1, <1>4, SubmissionIs
<1>12. note \in Notes
    <2>1. PICK m \in Notes : m = sys.submissions
        BY <1>1 DEF Systems
    <2>2. Put(m, Tag(x), Submission(x)) \in Notes
        BY <1>11, <2>1, NotesStay
    <2> QED BY <1>8, <2>1, <2>2
<1>13. /\ t \in Systems /\ t.ingress = e /\ t.submissions = note /\ t.ctrl = sys.ctrl
       /\ t.assemblies = sys.assemblies /\ t.hostq = sys.hostq /\ t.txnq = sys.txnq
       /\ t.failed = sys.failed
    <2>1. PICK u \in Systems : u = [sys EXCEPT !.ingress = e]
        BY <1>1, <1>10 DEF Systems
    <2>2. /\ u.ingress = e /\ u.ctrl = sys.ctrl
          /\ u.assemblies = sys.assemblies /\ u.hostq = sys.hostq /\ u.txnq = sys.txnq
          /\ u.failed = sys.failed
        BY <1>1, <2>1 DEF Systems
    <2>3. t = [u EXCEPT !.submissions = note]
        BY <1>9, <2>1
    <2>4. /\ t \in Systems /\ t.ingress = u.ingress /\ t.submissions = note /\ t.ctrl = u.ctrl
          /\ t.assemblies = u.assemblies /\ t.hostq = u.hostq /\ t.txnq = u.txnq
          /\ t.failed = u.failed
        BY <1>12, <2>1, <2>3 DEF Systems
    <2> QED BY <2>2, <2>4
<1>14. /\ Flow(t, T \cup {x}) /\ Ing(t) = Ing(sys) \cup {x} /\ Que(t) = Que(sys)
       /\ Ans(t) = Ans(sys)
    <2>1. PICK s \in Systems : s = sys
        BY <1>1
    <2>2. t.ingress = WithLast(s.ingress, x)
        BY <1>8, <1>13, <2>1 DEF WithLast
    <2>4. t.ctrl = s.ctrl /\ Flow(s, T)
        BY <1>1, <1>13, <2>1
    <2>3. /\ Flow(t, T \cup {x}) /\ Ing(t) = Ing(s) \cup {x} /\ Que(t) = Que(s)
          /\ Ans(t) = Ans(s)
        BY <1>1, <1>4, <1>13, <2>2, <2>4, SubmitFlow
    <2> QED BY <2>1, <2>3
<1>15. Gone(t, T \cup {x}) = C
    BY <1>4, <1>14 DEF Gone, C
<1>16. Books(t, T \cup {x}, C, given)
    <2>1. Tags(sys, T, C, given) /\ HostView(given.hosts \o sys.hostq, C)
        BY <1>1 DEF Books, Views
    <2>2. t.submissions = Put(sys.submissions, Tag(x), Submission(x))
        BY <1>8, <1>13
    <2>3. Tags(t, T \cup {x}, C, given)
        BY <1>1, <1>4, <1>5, <1>13, <2>1, <2>2, SubmitTags
    <2> QED BY <1>1, <1>13, <2>3 DEF Books, Parts, Views
<1>17. Range(taken') = T \cup {x}
    BY <1>1, <1>4, <1>6, RangeAppend DEF InProgramOrder, T
<1>18. served' = {Position(y)' : y \in (T \cup {x}) \ (Ing(t) \cup Que(t))}
    <2>1. (T \cup {x}) \ (Ing(t) \cup Que(t)) = T \ (Ing(sys) \cup Que(sys))
        BY <1>4, <1>14
    <2>2. ASSUME NEW y \in T PROVE Position(y)' = Position(y)
        <3>1. taken \in Seq(Program) /\ DOMAIN taken = 1 .. Len(taken) /\ Len(taken) \in Nat
            BY <1>1 DEF InProgramOrder
        <3>2. PICK q : q = taken'
            OBVIOUS
        <3>3. /\ DOMAIN q = 1 .. Len(taken) + 1 /\ q[Len(taken) + 1] = x
              /\ \A i \in 1 .. Len(taken) : q[i] = taken[i]
            BY <1>4, <1>6, <3>1, <3>2
        <3>4. PICK p \in DOMAIN taken : p = Position(y) /\ taken[p] = y
            BY <1>1, PositionIs DEF T
        <3>5. \A i \in DOMAIN taken : taken[i] = y => i = p
            BY <1>1, <3>4, PositionIs
        <3>6. p \in DOMAIN q /\ q[p] = y /\ \A i \in DOMAIN q : q[i] = y => i = p
            BY <1>4, <3>1, <3>3, <3>4, <3>5
        <3>7. Position(y)' = CHOOSE i \in DOMAIN q : q[i] = y
            BY <3>2 DEF Position
        <3>8. Position(y)' = p
            BY <3>6, <3>7
        <3> QED BY <3>4, <3>8
    <2> QED BY <1>1, <1>6, <2>1, <2>2
<1>19. PICK q : q = taken'
    OBVIOUS
<1>20. InProgramOrder(q) /\ Range(q) = T \cup {x}
    BY <1>4, <1>6, <1>17, <1>19
<1> QED BY <1>1, <1>6, <1>7, <1>13, <1>14, <1>15, <1>16, <1>18, <1>19, <1>20, InvariantAfter, ZenonT(60)

\* The first of a sequence after another can as well be the last of the other.
LEMMA ConcatHead ==
    ASSUME NEW X, NEW p \in Seq(X), NEW q \in Seq(X), q # <<>>
    PROVE  Append(p, Head(q)) \o Tail(q) = p \o q
<1> DEFINE u == Append(p, Head(q)) \o Tail(q)
           v == p \o q
<1>1. Head(q) \in X /\ Tail(q) \in Seq(X) /\ Len(q) \in Nat \ {0} /\ Len(Tail(q)) = Len(q) - 1
    OBVIOUS
<1>2. PICK a, r : a = Append(p, Head(q)) /\ r = Tail(q)
    OBVIOUS
<1>3. /\ a \in Seq(X) /\ Len(a) = Len(p) + 1 /\ Len(p) \in Nat
      /\ a[Len(p) + 1] = q[1] /\ \A i \in 1 .. Len(p) : a[i] = p[i]
    BY <1>1, <1>2
<1>4. r \in Seq(X) /\ Len(r) = Len(q) - 1 /\ \A i \in 1 .. Len(q) - 1 : r[i] = q[i + 1]
    BY <1>1, <1>2
<1>5. u = a \o r
    BY <1>2
<1> HIDE DEF u
<1>6. u \in Seq(X) /\ v \in Seq(X) /\ Len(u) = Len(p) + Len(q) /\ Len(v) = Len(p) + Len(q)
    <2>1. u \in Seq(X) /\ Len(u) = Len(a) + Len(r)
        <3>1. a \in Seq(X) /\ r \in Seq(X)
            BY <1>3, <1>4
        <3>2. a \o r \in Seq(X) /\ Len(a \o r) = Len(a) + Len(r)
            BY <3>1
        <3> QED BY <1>5, <3>2
    <2>2. v \in Seq(X) /\ Len(v) = Len(p) + Len(q)
        OBVIOUS
    <2>3. Len(p) \in Nat /\ Len(q) \in Nat /\ Len(a) + Len(r) = Len(p) + Len(q)
        BY <1>1, <1>3, <1>4
    <2> QED BY <2>1, <2>2, <2>3
<1>7. ASSUME NEW i \in 1 .. Len(p) + Len(q) PROVE u[i] = v[i]
    <2>1. CASE i <= Len(p)
        BY <1>1, <1>3, <1>4, <1>5, <2>1
    <2>2. CASE i = Len(p) + 1
        BY <1>1, <1>3, <1>4, <1>5, <2>2
    <2>3. CASE i > Len(p) + 1
        <3>1. i - (Len(p) + 1) \in 1 .. Len(q) - 1
            BY <1>1, <1>3, <2>3
        <3>2. u[i] = r[i - (Len(p) + 1)]
            BY <1>3, <1>4, <1>5, <2>3, <3>1
        <3>3. r[i - (Len(p) + 1)] = q[i - (Len(p) + 1) + 1] /\ i - (Len(p) + 1) + 1 = i - Len(p)
            BY <1>1, <1>3, <1>4, <3>1
        <3>4. v[i] = q[i - Len(p)]
            BY <1>1, <1>3, <2>3
        <3> QED BY <3>2, <3>3, <3>4
    <2> QED BY <1>1, <1>3, <2>1, <2>2, <2>3
<1> HIDE DEF v
<1>8. u = v
    <2>1. u = [i \in 1 .. Len(u) |-> u[i]] /\ v = [i \in 1 .. Len(v) |-> v[i]]
        BY <1>6
    <2> QED BY <1>6, <1>7, <2>1
<1> QED BY <1>8 DEF u, v

\* What the host pops moves nothing inside.
LEMMA SamePlaces ==
    ASSUME NEW s, NEW T, NEW t, t.ingress = s.ingress, t.ctrl = s.ctrl
    PROVE  /\ Ing(t) = Ing(s) /\ Que(t) = Que(s) /\ Gone(t, T) = Gone(s, T)
           /\ Flow(s, T) => Flow(t, T)
<1>1. Ing(t) = Ing(s) /\ Que(t) = Que(s) /\ Ans(t) = Ans(s)
    BY DEF Ing, Que, Ans
<1>2. Queues(s) => Queues(t)
    BY DEF Queues
<1> QED BY <1>1, <1>2 DEF Flow, Gone

\* The answer that is popped is for a live request, every part of which is done.
LEMMA PoppedIs ==
    ASSUME conf \in Configurations, sys \in Systems, given \in Givens, NEW T \in SUBSET Program,
           NEW C \in SUBSET T, HostView(given.hosts \o sys.hostq, C), sys.hostq # <<>>
    PROVE  \E g \in Hosts :
              /\ Head(sys.hostq) = AnswerOf(g) /\ Tag(Head(sys.hostq)[1]) = TagOf(g)
              /\ g \in Live(T, C, given) /\ RetainsHost /\ Of(C, g) = Indices(g)
<1>1. PICK p, q : p = given.hosts /\ q = sys.hostq
    OBVIOUS
<1>2. p \in Seq(Answers) /\ q \in Seq(Answers) /\ q # <<>>
    BY <1>1 DEF Givens, Systems
<1>3. Head(q) \in Answers /\ Head(q) \in Range(q)
    BY <1>2, RangeTail
<1>4. PICK g \in Hosts : Head(q) = AnswerOf(g)
    BY <1>3 DEF Answers
<1>5. Head(q) \in Range(p \o q) /\ IsInjective(p \o q)
    BY <1>1, <1>2, <1>3, RangeConcat DEF HostView
<1>6. RetainsHost /\ Of(C, g) = Indices(g)
    BY <1>1, <1>4, <1>5 DEF HostView
<1>7. Head(q) \notin Range(p)
    <2>1. /\ DOMAIN p = 1 .. Len(p) /\ Len(p) \in Nat /\ Len(q) \in Nat \ {0}
          /\ DOMAIN (p \o q) = 1 .. Len(p) + Len(q)
          /\ (p \o q)[Len(p) + 1] = Head(q)
        BY <1>2
    <2>2. ASSUME NEW i \in DOMAIN p, p[i] = Head(q) PROVE FALSE
        <3>1. i \in DOMAIN (p \o q) /\ Len(p) + 1 \in DOMAIN (p \o q) /\ i # Len(p) + 1
            BY <2>1
        <3>2. (p \o q)[i] = p[i]
            BY <1>2
        <3> QED BY <1>5, <2>1, <2>2, <3>1, <3>2 DEF IsInjective
    <2> QED BY <2>2 DEF Range
<1>8. 1 \in Indices(g)
    BY RequestIs
<1>9. g \in Live(T, C, given)
    <2>1. Of(T, g) # {}
        BY <1>6, <1>8 DEF Of
    <2> QED BY <1>1, <1>4, <1>6, <1>7, <2>1 DEF Live
<1>10. Tag(Head(q)[1]) = TagOf(g)
    <2>1. Head(q)[1] = Part(g, 1)
        BY <1>4, <1>8 DEF AnswerOf
    <2> QED BY <2>1 DEF Part, Tag, TagOf
<1> QED BY <1>1, <1>4, <1>6, <1>9, <1>10

\* Its tag is free.
LEMMA FreedTags ==
    ASSUME conf \in Configurations, sys \in Systems, given \in Givens, NEW T \in SUBSET Program,
           NEW C \in SUBSET T, Tags(sys, T, C, given), RetainsHost,
           NEW g \in Live(T, C, given), Of(C, g) = Indices(g),
           NEW t \in Systems, t.submissions = Freed(TagOf(g)),
           NEW G \in Givens, G.hosts = Append(given.hosts, AnswerOf(g))
    PROVE  Freed(TagOf(g)) \in Notes /\ Tags(t, T, C, G)
<1> DEFINE tag == TagOf(g)
           L == Live(T, C, given)
<1>1. g \in Hosts /\ tag \in Nat
    BY RequestIs DEF Live
<1>2. PICK n \in Notes : n = sys.submissions
    BY DEF Systems
<1>3. /\ DOMAIN n = TagsOf(L) /\ TagsDiffer(L)
      /\ \A h \in L : n[TagOf(h)] = [count |-> Len(Request(h).txns), write |-> Request(h).write,
                                     accepted |-> Of(T, h), completed |-> Cardinality(Of(C, h))]
    BY <1>2 DEF Tags
<1>4. tag \in DOMAIN n /\ n[tag].completed >= n[tag].count
    <2>1. tag \in DOMAIN n
        BY <1>3 DEF TagsOf
    <2>2. n[tag].completed = Cardinality(Of(C, g)) /\ n[tag].count = Len(Request(g).txns)
        <3>1. PICK o : o = n[tag]
            OBVIOUS
        <3>2. o = [count |-> Len(Request(g).txns), write |-> Request(g).write,
                   accepted |-> Of(T, g), completed |-> Cardinality(Of(C, g))]
            BY <1>3, <3>1
        <3>3. o.completed = Cardinality(Of(C, g)) /\ o.count = Len(Request(g).txns)
            BY <3>2
        <3> QED BY <3>1, <3>3
    <2>3. Cardinality(Of(C, g)) = Len(Request(g).txns) /\ Len(Request(g).txns) \in Nat
        BY <1>1, AllOf, RequestIs
    <2> QED BY <2>1, <2>2, <2>3
<1> HIDE DEF tag, L
<1>5. Freed(tag) = Restrict(n, DOMAIN n \ {tag})
    BY <1>2, <1>4 DEF Freed
<1>6. /\ Freed(tag) \in Notes /\ DOMAIN Freed(tag) = DOMAIN n \ {tag}
      /\ \A k \in DOMAIN n \ {tag} : Freed(tag)[k] = n[k]
    <2>1. PICK note : note = [count |-> 0, write |-> FALSE, accepted |-> {}, completed |-> 0]
        OBVIOUS
    <2>2. note \in Note
        BY <2>1 DEF Note
    <2>3. /\ Restrict(n, DOMAIN n \ {tag}) \in Notes
          /\ DOMAIN Restrict(n, DOMAIN n \ {tag}) = DOMAIN n \ {tag}
          /\ \A k \in DOMAIN n \ {tag} : Restrict(n, DOMAIN n \ {tag})[k] = n[k]
        BY <1>1, <1>2, <2>2, NotesStay
    <2> QED BY <1>5, <2>3
<1>7. Live(T, C, G) = L \ {g}
    <2>1. Range(G.hosts) = Range(given.hosts) \cup {AnswerOf(g)}
        <3>1. given.hosts \in Seq(Answers) /\ AnswerOf(g) \in Answers
            BY <1>1 DEF Givens, Answers
        <3> QED BY <3>1, RangeAppend
    <2>2. \A h \in Hosts : AnswerOf(h) = AnswerOf(g) <=> h = g
        BY <1>1, AnswersDiffer
    <2>3. \A h \in Hosts : AnswerOf(h) \notin Range(G.hosts)
                              <=> AnswerOf(h) \notin Range(given.hosts) /\ h # g
        BY <2>1, <2>2
    <2>4. \A h \in Hosts : h \in Live(T, C, G) <=> h \in L /\ h # g
        BY <2>3 DEF Live, L
    <2>5. Live(T, C, G) \subseteq Hosts /\ L \subseteq Hosts
        BY DEF Live, L
    <2> QED BY <2>4, <2>5
<1>8. \A h \in L : h # g => TagOf(h) # tag
    BY <1>3 DEF TagsDiffer, tag, L
<1>9. DOMAIN t.submissions = TagsOf(Live(T, C, G))
    <2>1. TagsOf(L \ {g}) = TagsOf(L) \ {tag}
        BY <1>8 DEF TagsOf, tag
    <2> QED BY <1>3, <1>6, <1>7, <2>1 DEF tag
<1>10. TagsDiffer(Live(T, C, G))
    BY <1>3, <1>7 DEF TagsDiffer
<1>11. ASSUME NEW h \in Live(T, C, G)
       PROVE  t.submissions[TagOf(h)] =
                 [count |-> Len(Request(h).txns), write |-> Request(h).write,
                  accepted |-> Of(T, h), completed |-> Cardinality(Of(C, h))]
    <2>1. h \in L /\ TagOf(h) # tag
        BY <1>7, <1>8
    <2>2. TagOf(h) \in DOMAIN n \ {tag}
        BY <1>3, <2>1 DEF TagsOf
    <2>3. t.submissions[TagOf(h)] = n[TagOf(h)]
        BY <1>6, <2>2 DEF tag
    <2> QED BY <1>3, <2>1, <2>3
<1> QED BY <1>6, <1>9, <1>10, <1>11 DEF Tags, tag

\* The host pops the answer for a whole.
LEMMA PopKeeps == SystemInv /\ PopResponse => SystemInv'
<1> SUFFICES ASSUME SystemInv, PopResponse PROVE SystemInv'
    OBVIOUS
<1> DEFINE T == Range(taken)
           C == Gone(sys, T)
<1>1. /\ conf \in Configurations /\ InProgramOrder(taken) /\ sys \in Systems /\ given \in Givens
      /\ Flow(sys, T) /\ Books(sys, T, C, given)
      /\ served = {Position(y) : y \in T \ (Ing(sys) \cup Que(sys))}
    BY DEF SystemInv
<1>2. T \in SUBSET Program /\ C \in SUBSET T
    BY <1>1 DEF InProgramOrder, Range, Gone
<1> HIDE DEF T, C
<1>3. /\ sys.failed = FALSE /\ Tags(sys, T, C, given) /\ Parts(sys, C)
      /\ HostView(given.hosts \o sys.hostq, C) /\ TxnView(given.txns \o sys.txnq, C)
    BY <1>1 DEF Books, Views
<1>4. sys.hostq # <<>>
    BY DEF PopResponse
<1>5. PICK g \in Hosts :
         /\ Head(sys.hostq) = AnswerOf(g) /\ Tag(Head(sys.hostq)[1]) = TagOf(g)
         /\ g \in Live(T, C, given) /\ RetainsHost /\ Of(C, g) = Indices(g)
    BY <1>1, <1>2, <1>3, <1>4, PoppedIs
<1>6. PICK p, q, n : p = given.hosts /\ q = sys.hostq /\ n = Freed(TagOf(g))
    OBVIOUS
<1>7. p \in Seq(Answers) /\ q \in Seq(Answers) /\ q # <<>>
    BY <1>1, <1>4, <1>6 DEF Givens, Systems
<1>8. Head(q) \in Answers /\ Tail(q) \in Seq(Answers) /\ Append(p, Head(q)) \in Seq(Answers)
    BY <1>7
<1>9. PICK r, w : r = Tail(q) /\ w = Append(p, Head(q))
    OBVIOUS
<1>10. PICK G \in Givens : G = [given EXCEPT !.hosts = w]
    BY <1>1, <1>8, <1>9 DEF Givens
<1>11. G.hosts = w /\ G.txns = given.txns
    BY <1>1, <1>10 DEF Givens
<1>12. n \in Notes
    <2>1. \E t \in Systems : t.submissions = n
        <3>1. PICK m \in Notes : m = sys.submissions
            BY <1>1 DEF Systems
        <3>2. TagOf(g) \in Nat
            BY <1>1, RequestIs
        <3>3. PICK note : note = [count |-> 0, write |-> FALSE, accepted |-> {}, completed |-> 0]
            OBVIOUS
        <3>4. note \in Note
            BY <3>3 DEF Note
        <3>5. Restrict(m, DOMAIN m \ {TagOf(g)}) \in Notes
            BY <3>1, <3>2, <3>4, NotesStay
        <3>6. n \in Notes
            BY <1>6, <3>1, <3>5 DEF Freed
        <3>7. [sys EXCEPT !.submissions = n] \in Systems
            BY <1>1, <3>6 DEF Systems
        <3>8. [sys EXCEPT !.submissions = n].submissions = n
            BY <1>1 DEF Systems
        <3> QED BY <3>7, <3>8
    <2>2. G.hosts = Append(given.hosts, AnswerOf(g))
        BY <1>5, <1>6, <1>9, <1>11
    <2> QED BY <1>1, <1>2, <1>3, <1>5, <1>6, <2>1, <2>2, FreedTags
<1>13. PICK u \in Systems : u = [sys EXCEPT !.hostq = r]
    BY <1>1, <1>8, <1>9 DEF Systems
<1>14. /\ u.hostq = r /\ u.ingress = sys.ingress /\ u.ctrl = sys.ctrl
       /\ u.assemblies = sys.assemblies /\ u.txnq = sys.txnq /\ u.failed = sys.failed
    BY <1>1, <1>13 DEF Systems
<1>15. PICK t \in Systems : t = [u EXCEPT !.submissions = n]
    BY <1>12, <1>13 DEF Systems
<1>16. /\ t.hostq = r /\ t.ingress = sys.ingress /\ t.ctrl = sys.ctrl
       /\ t.assemblies = sys.assemblies /\ t.txnq = sys.txnq /\ t.failed = sys.failed
       /\ t.submissions = n
    BY <1>13, <1>14, <1>15 DEF Systems
<1>17. /\ sys' = t /\ given' = G /\ conf' = conf /\ taken' = taken /\ served' = served
    <2>1. /\ sys' = [sys EXCEPT !.hostq = Tail(@), !.submissions = Freed(Tag(Head(sys.hostq)[1]))]
          /\ given' = [given EXCEPT !.hosts = Append(@, Head(sys.hostq))]
          /\ conf' = conf /\ taken' = taken /\ served' = served
        BY DEF PopResponse
    <2>2. sys' = [[sys EXCEPT !.hostq = r] EXCEPT !.submissions = n]
        BY <1>1, <1>5, <1>6, <1>9, <2>1 DEF Systems
    <2>3. given' = [given EXCEPT !.hosts = w]
        BY <1>1, <1>6, <1>9, <2>1 DEF Givens
    <2> QED BY <1>10, <1>13, <1>15, <2>1, <2>2, <2>3
<1>18. /\ Ing(t) = Ing(sys) /\ Que(t) = Que(sys) /\ Gone(t, T) = C /\ Flow(t, T)
    BY <1>1, <1>16, SamePlaces DEF C
<1>19. Books(t, T, C, G)
    <2>1. Tags(t, T, C, G)
        <3>1. G.hosts = Append(given.hosts, AnswerOf(g)) /\ t.submissions = Freed(TagOf(g))
            BY <1>5, <1>6, <1>9, <1>11, <1>16
        <3> QED BY <1>1, <1>2, <1>3, <1>5, <3>1, FreedTags
    <2>2. Parts(t, C)
        BY <1>3, <1>16 DEF Parts
    <2>3. G.hosts \o t.hostq = given.hosts \o sys.hostq
        <3>1. Append(p, Head(q)) \o Tail(q) = p \o q
            BY <1>7, ConcatHead
        <3> QED BY <1>6, <1>9, <1>11, <1>16, <3>1
    <2>4. G.txns \o t.txnq = given.txns \o sys.txnq
        BY <1>11, <1>16
    <2> QED BY <1>3, <1>16, <2>1, <2>2, <2>3, <2>4 DEF Books, Views
<1>20. served' = {Position(y)' : y \in T \ (Ing(t) \cup Que(t))}
    <2>1. \A y : Position(y)' = Position(y)
        BY <1>17 DEF Position
    <2> QED BY <1>1, <1>17, <1>18, <2>1
<1>21. T = Range(taken')
    BY <1>17 DEF T
<1> QED BY <1>1, <1>17, <1>18, <1>19, <1>20, <1>21, InvariantAfter

\* So is a transaction's answer, which holds no tag.
LEMMA PopTransactionKeeps == SystemInv /\ PopTransactionResponse => SystemInv'
<1> SUFFICES ASSUME SystemInv, PopTransactionResponse PROVE SystemInv'
    OBVIOUS
<1> DEFINE T == Range(taken)
           C == Gone(sys, T)
<1>1. /\ conf \in Configurations /\ InProgramOrder(taken) /\ sys \in Systems /\ given \in Givens
      /\ Flow(sys, T) /\ Books(sys, T, C, given)
      /\ served = {Position(y) : y \in T \ (Ing(sys) \cup Que(sys))}
    BY DEF SystemInv
<1> HIDE DEF T, C
<1>2. /\ sys.txnq # <<>> /\ sys' = [sys EXCEPT !.txnq = Tail(@)]
      /\ given' = [given EXCEPT !.txns = Append(@, Head(sys.txnq))]
      /\ conf' = conf /\ taken' = taken /\ served' = served
    BY DEF PopTransactionResponse
<1>3. PICK p, q : p = given.txns /\ q = sys.txnq
    OBVIOUS
<1>4. p \in Seq(Program) /\ q \in Seq(Program) /\ q # <<>>
    BY <1>1, <1>2, <1>3 DEF Givens, Systems
<1>5. PICK r, w : r = Tail(q) /\ w = Append(p, Head(q))
    OBVIOUS
<1>6. r \in Seq(Program) /\ w \in Seq(Program) /\ w \o r = p \o q
    BY <1>4, <1>5, ConcatHead
<1>7. PICK G \in Givens : G = [given EXCEPT !.txns = w]
    BY <1>1, <1>6 DEF Givens
<1>8. G.txns = w /\ G.hosts = given.hosts
    BY <1>1, <1>7 DEF Givens
<1>9. PICK t \in Systems : t = [sys EXCEPT !.txnq = r]
    BY <1>1, <1>6 DEF Systems
<1>10. /\ t.hostq = sys.hostq /\ t.ingress = sys.ingress /\ t.ctrl = sys.ctrl
       /\ t.assemblies = sys.assemblies /\ t.txnq = r /\ t.failed = sys.failed
       /\ t.submissions = sys.submissions
    BY <1>1, <1>9 DEF Systems
<1>11. sys' = t /\ given' = G
    BY <1>1, <1>2, <1>3, <1>5, <1>7, <1>9 DEF Systems, Givens
<1>12. Ing(t) = Ing(sys) /\ Que(t) = Que(sys) /\ Gone(t, T) = C /\ Flow(t, T)
    BY <1>1, <1>10, SamePlaces DEF C
<1>13. Books(t, T, C, G)
    <2>1. Live(T, C, G) = Live(T, C, given)
        BY <1>8 DEF Live
    <2>2. Tags(t, T, C, G) /\ Parts(t, C)
        BY <1>1, <1>10, <2>1 DEF Books, Tags, Parts
    <2>3. Views(t, C, G)
        BY <1>1, <1>3, <1>6, <1>8, <1>10 DEF Books, Views
    <2> QED BY <1>1, <1>10, <2>2, <2>3 DEF Books
<1>14. served' = {Position(y)' : y \in T \ (Ing(t) \cup Que(t))}
    <2>1. \A y : Position(y)' = Position(y)
        BY <1>2 DEF Position
    <2> QED BY <1>1, <1>2, <1>12, <2>1
<1>15. T = Range(taken')
    BY <1>2 DEF T
<1> QED BY <1>1, <1>2, <1>11, <1>12, <1>13, <1>14, <1>15, InvariantAfter

\* The parts of the system agree, after every step: with the tags that are in use, the
\* answers that are begun or can be popped, and what has passed in the order of its class.
THEOREM SystemInvariant == Spec => []SystemInv
<1>1. Init => SystemInv
    BY SystemInit
<1>2. SystemInv /\ [Next]_vars => SystemInv'
    <2> SUFFICES ASSUME SystemInv, [Next]_vars PROVE SystemInv'
        OBVIOUS
    <2>1. CASE UNCHANGED vars
        <3>1. conf' = conf /\ sys' = sys /\ taken' = taken /\ served' = served /\ given' = given
            BY <2>1 DEF vars
        <3>2. PICK s, G, q : s = sys /\ G = given /\ q = taken
            OBVIOUS
        <3>3. \A y : Position(y)' = Position(y)
            BY <3>1 DEF Position
        <3>4. served' = {Position(x)' : x \in Range(q) \ (Ing(s) \cup Que(s))}
            BY <3>1, <3>2, <3>3 DEF SystemInv
        <3>5. /\ s \in Systems /\ G \in Givens /\ InProgramOrder(q) /\ Flow(s, Range(q))
              /\ Books(s, Range(q), Gone(s, Range(q)), G) /\ conf \in Configurations
            BY <3>2 DEF SystemInv
        <3> QED BY <3>1, <3>2, <3>4, <3>5, InvariantAfter
    <2>2. CASE TrySubmit
        BY <2>2, SubmitKeeps
    <2>3. CASE Step
        BY <2>3, StepKeeps
    <2>4. CASE PopResponse
        BY <2>4, PopKeeps
    <2>5. CASE PopTransactionResponse
        BY <2>5, PopTransactionKeeps
    <2>6. CASE Finished
        BY <2>1, <2>6 DEF Finished
    <2> QED BY <2>1, <2>2, <2>3, <2>4, <2>5, <2>6 DEF Next
<1> QED BY <1>1, <1>2, PTL DEF Spec

\* Nothing throws, with any program, depths and order of service: no tag in use is
\* offered again, no answer meets another of the same transaction, and an answer put
\* together has its place in the host's queue (system.cpp:634, 747, 842).
THEOREM NothingThrows == Spec => []NeverFails
<1>1. SystemInv => NeverFails
    BY DEF SystemInv, Books, NeverFails
<1> QED BY <1>1, SystemInvariant, PTL

-----------------------------------------------------------------------------
(* What follows from it                                                      *)

\* What is in a sequence, and in the first of two that are put together.
LEMMA ElementOf == ASSUME NEW X, NEW q \in Seq(X), NEW i \in DOMAIN q PROVE q[i] \in X
OBVIOUS

\* The first of two sequences that are put together keeps its places.
LEMMA ConcatFirst ==
    ASSUME NEW X, NEW p \in Seq(X), NEW q \in Seq(X), NEW i \in DOMAIN p
    PROVE  i \in DOMAIN (p \o q) /\ (p \o q)[i] = p[i]
<1>1. /\ DOMAIN p = 1 .. Len(p) /\ Len(p) \in Nat /\ Len(q) \in Nat
      /\ DOMAIN (p \o q) = 1 .. Len(p) + Len(q)
    OBVIOUS
<1>2. i \in DOMAIN (p \o q)
    BY <1>1
<1> QED BY <1>1, <1>2

\* What was or can be popped is complete, and each part of it served.
LEMMA AnswersAre ==
    ASSUME SystemInv, NEW A, A = given.hosts \o sys.hostq, NEW i \in DOMAIN A
    PROVE  \E g \in Hosts :
              /\ A[i] = AnswerOf(g) /\ A[i][1].host = g /\ RetainsHost
              /\ Of(Gone(sys, Range(taken)), g) = Indices(g)
              /\ \A k \in Indices(g) : Part(g, k) \in Range(taken) \ (Ing(sys) \cup Que(sys))
<1> DEFINE T == Range(taken)
           C == Gone(sys, T)
<1>1. /\ conf \in Configurations /\ A \in Seq(Answers) /\ HostView(A, C)
    <2>1. given.hosts \in Seq(Answers) /\ sys.hostq \in Seq(Answers)
        BY DEF SystemInv, Systems, Givens
    <2> QED BY <2>1 DEF SystemInv, Books, Views
<1>2. PICK g \in Hosts : A[i] = AnswerOf(g)
    <2>1. A[i] \in Answers
        <3>1. A \in Seq(Answers)
            BY <1>1
        <3> QED BY <3>1, ElementOf
    <2> QED BY <2>1 DEF Answers
<1>3. 1 \in Indices(g)
    BY <1>1, RequestIs
<1>4. A[i][1].host = g
    <2>1. A[i][1] = Part(g, 1)
        BY <1>2, <1>3 DEF AnswerOf
    <2> QED BY <2>1 DEF Part
<1>5. RetainsHost /\ Of(C, g) = Indices(g)
    <2>1. A[i] \in Range(A)
        BY DEF Range
    <2> QED BY <1>1, <1>2, <2>1 DEF HostView
<1>6. \A k \in Indices(g) : Part(g, k) \in T \ (Ing(sys) \cup Que(sys))
    BY <1>5 DEF Of, Gone
<1> QED BY <1>2, <1>4, <1>5, <1>6

\* Every answer is for all of one request, in its order.
LEMMA InvWhole == SystemInv => AnswersAreWhole
<1> SUFFICES ASSUME SystemInv PROVE AnswersAreWhole
    OBVIOUS
<1>1. /\ conf \in Configurations /\ InProgramOrder(taken)
      /\ served = {Position(x) : x \in Range(taken) \ (Ing(sys) \cup Que(sys))}
      /\ Views(sys, Gone(sys, Range(taken)), given)
    BY DEF SystemInv, Books
<1>2. PICK A : A = given.hosts \o sys.hostq
    OBVIOUS
<1>3. ASSUME NEW i \in DOMAIN A
      PROVE  InTurn(A[i]) /\ \A k \in DOMAIN A[i] : Position(A[i][k]) \in served
    <2>1. PICK g \in Hosts :
             /\ A[i] = AnswerOf(g) /\ A[i][1].host = g
             /\ \A k \in Indices(g) : Part(g, k) \in Range(taken) \ (Ing(sys) \cup Que(sys))
        BY <1>2, AnswersAre
    <2>2. DOMAIN A[i] = Indices(g) /\ \A k \in Indices(g) : A[i][k] = Part(g, k)
        BY <2>1 DEF AnswerOf
    <2>3. InTurn(A[i])
        BY <2>1, <2>2 DEF InTurn, Indices, Part
    <2> QED BY <1>1, <2>1, <2>2, <2>3
<1>4. ASSUME NEW i \in DOMAIN A, NEW j \in DOMAIN A, A[i][1].host = A[j][1].host PROVE i = j
    <2>1. ASSUME NEW k \in DOMAIN A PROVE A[k] = AnswerOf(A[k][1].host)
        <3>1. PICK g \in Hosts :
              /\ A[k] = AnswerOf(g) /\ A[k][1].host = g /\ RetainsHost
              /\ Of(Gone(sys, Range(taken)), g) = Indices(g)
              /\ \A m \in Indices(g) : Part(g, m) \in Range(taken) \ (Ing(sys) \cup Que(sys))
            BY <1>2, AnswersAre
        <3> QED BY <3>1
    <2>2. A[i] = A[j]
        BY <1>4, <2>1
    <2>3. IsInjective(A)
        BY <1>1, <1>2 DEF Views, HostView
    <2> QED BY <2>2, <2>3 DEF IsInjective
<1>5. IsInjective(given.txns \o sys.txnq)
    BY <1>1 DEF Views, TxnView
<1>6. \A x \in Range(taken) :
         Encode(conf.kind, Home(x).stack, Home(x).local) = SystemAddress(conf, Transaction(x))
    <2>1. Range(taken) \subseteq Program
        BY <1>1 DEF InProgramOrder, Range
    <2> QED BY <1>1, <2>1, HomeIs
<1> QED BY <1>2, <1>3, <1>4, <1>5, <1>6 DEF AnswersAreWhole

\* Every request keeps its tag until it is answered.
LEMMA InvTags == SystemInv => TagsAreKept
<1> SUFFICES ASSUME SystemInv PROVE TagsAreKept
    OBVIOUS
<1> DEFINE T == Range(taken)
           C == Gone(sys, T)
<1>1. /\ conf \in Configurations /\ InProgramOrder(taken)
      /\ served = {Position(y) : y \in T \ (Ing(sys) \cup Que(sys))}
      /\ Tags(sys, T, C, given) /\ TxnView(given.txns \o sys.txnq, C)
      /\ sys \in Systems /\ given \in Givens
    BY DEF SystemInv, Books, Views
<1>2. T \subseteq Program /\ C \subseteq T \ (Ing(sys) \cup Que(sys))
    BY <1>1 DEF InProgramOrder, Range, Gone
<1> HIDE DEF T
<1>3. ASSUME NEW x \in T PROVE x.host \in Hosts /\ x.index \in Of(T, x.host) /\ Tag(x) = TagOf(x.host)
    BY <1>2, ProgramIs DEF Of, Tag, TagOf
<1>4. ASSUME NEW g \in Hosts, RetainsHost, AnswerOf(g) \in Range(given.hosts) PROVE Popped(g)
    <2>1. 1 \in Indices(g)
        BY <1>1, RequestIs
    <2>2. AnswerOf(g)[1].host = g
        BY <2>1 DEF AnswerOf, Part
    <2>3. PICK i \in DOMAIN given.hosts : given.hosts[i] = AnswerOf(g)
        BY <1>4 DEF Range
    <2> QED BY <1>4, <2>2, <2>3 DEF Popped
<1>5. ASSUME NEW x \in T, ~Popped(x.host),
             RetainsHost \/ {Position(y) : y \in {z \in T : z.host = x.host}} \ served # {}
      PROVE  /\ Tag(x) \in DOMAIN sys.submissions
             /\ sys.submissions[Tag(x)].accepted = {y.index : y \in {z \in T : z.host = x.host}}
    <2>1. x.host \in Live(T, C, given)
        <3>1. CASE RetainsHost
            BY <1>3, <1>4, <1>5, <3>1 DEF Live
        <3>2. CASE ~RetainsHost
            <4>1. PICK y \in T : y.host = x.host /\ Position(y) \notin served
                BY <1>5, <3>2
            <4>2. y \notin C
                BY <1>1, <1>2, <4>1
            <4>3. y.index \in Indices(x.host) /\ y = Part(x.host, y.index)
                BY <1>2, <4>1, ProgramIs
            <4>4. Of(C, x.host) # Indices(x.host)
                BY <4>2, <4>3 DEF Of
            <4> QED BY <1>3, <3>2, <4>4 DEF Live
        <3> QED BY <3>1, <3>2
    <2>2. PICK o : o = sys.submissions[TagOf(x.host)]
        OBVIOUS
    <2>3. o = [count |-> Len(Request(x.host).txns), write |-> Request(x.host).write,
               accepted |-> Of(T, x.host), completed |-> Cardinality(Of(C, x.host))]
        BY <1>1, <2>1, <2>2 DEF Tags
    <2>4. o.accepted = Of(T, x.host)
        BY <2>3
    <2>5. Of(T, x.host) = {y.index : y \in {z \in T : z.host = x.host}}
        <3>1. ASSUME NEW k \in Of(T, x.host)
              PROVE  k \in {y.index : y \in {z \in T : z.host = x.host}}
            BY <1>3, ProgramIs DEF Of, Part
        <3>2. ASSUME NEW y \in T, y.host = x.host PROVE y.index \in Of(T, x.host)
            BY <1>3, <3>2
        <3> QED BY <3>1, <3>2
    <2>6. TagOf(x.host) \in DOMAIN sys.submissions
        BY <1>1, <2>1 DEF Tags, TagsOf
    <2> QED BY <1>3, <2>2, <2>4, <2>5, <2>6
<1>6. ASSUME Idle, ResponsesDrained, NEW x \in T PROVE Popped(x.host)
    <2>1. C = T
        <3>1. \A y \in Program : Home(y).stack \in StackIds /\ ControllerOf(y) \in Controllers
            BY <1>1, HomeIs
        <3>2. Range(<<>>) = {}
            BY DEF Range
        <3>3. Ing(sys) = {} /\ Que(sys) = {} /\ Ans(sys) = {}
            BY <1>6, <3>1, <3>2 DEF Idle, ResponsesDrained, NothingToCollect, Ing, Que, Ans
        <3> QED BY <3>3 DEF Gone
    <2>2. x.host \notin Live(T, C, given)
        <3>1. TagsOf(Live(T, C, given)) = {}
            BY <1>1, <1>6 DEF ResponsesDrained, Tags
        <3> QED BY <3>1 DEF TagsOf
    <2>3. CASE RetainsHost
        BY <1>3, <1>4, <2>2, <2>3 DEF Live
    <2>4. CASE ~RetainsHost
        <3>1. Of(C, x.host) = Indices(x.host)
            BY <1>3, <2>2, <2>4 DEF Live
        <3>2. RetainsTransactions
            BY <1>1, <2>4, ConfIs DEF RetainsHost, RetainsTransactions
        <3>3. PICK p : p = given.txns
            OBVIOUS
        <3>4. p \in Seq(Program) /\ p \o <<>> = p
            BY <1>1, <3>3 DEF Givens
        <3>5. Range(p) = C
            BY <1>1, <1>6, <3>2, <3>3, <3>4 DEF ResponsesDrained, TxnView
        <3>6. \A k \in Indices(x.host) : Part(x.host, k) \in Range(given.txns)
            BY <3>1, <3>3, <3>5 DEF Of
        <3> QED BY <2>4, <3>6 DEF Popped, Indices, Part
    <2> QED BY <2>3, <2>4
<1> QED BY <1>5, <1>6 DEF TagsAreKept, T

\* Every answer is for one request, all of it, in order, from where its addresses mean,
\* and every request keeps its tag, and only its own, until it is answered: for all
\* programs, however the controllers order their service (aggregate_response,
\* record_completed_transaction).
THEOREM AnswersFindRequests == Spec => []AnswersFindTheirRequests
<1>1. SystemInv => AnswersFindTheirRequests
    BY InvWhole, InvTags DEF AnswersFindTheirRequests
<1> QED BY <1>1, SystemInvariant, PTL

-----------------------------------------------------------------------------
(* The memory system is a line memory                                        *)

\* What was served was taken, those of a class in their order.
KeepsOrder ==
    /\ served \subseteq DOMAIN taken
    /\ \A i \in served, j \in DOMAIN taken :
          j < i /\ ClassOf(taken[j]) = ClassOf(taken[i]) => j \in served

\* Nothing of a class is served before what was taken before it.
LEMMA ServedInOrder == SystemInv => KeepsOrder
<1> SUFFICES ASSUME SystemInv PROVE KeepsOrder
    OBVIOUS
<1> DEFINE T == Range(taken)
           W == T \ (Ing(sys) \cup Que(sys))
<1>1. /\ conf \in Configurations /\ InProgramOrder(taken) /\ Flow(sys, T)
      /\ served = {Position(x) : x \in W}
    BY DEF SystemInv
<1>2. \A x \in W : Position(x) \in DOMAIN taken /\ taken[Position(x)] = x
    BY <1>1, PositionIs
<1>3. ASSUME NEW i \in served, NEW j \in DOMAIN taken, j < i,
             ClassOf(taken[j]) = ClassOf(taken[i])
      PROVE  j \in served
    <2>1. PICK y \in W : i = Position(y)
        BY <1>1
    <2>2. i \in DOMAIN taken /\ taken[i] = y
        BY <1>2, <2>1
    <2>3. PICK x \in T : x = taken[j]
        BY DEF Range
    <2>4. Before(x, y)
        BY <1>1, <1>3, <2>2, <2>3 DEF InProgramOrder
    <2>5. x \in W
        BY <1>1, <1>3, <2>1, <2>2, <2>3, <2>4 DEF Flow
    <2>6. Position(x) = j
        BY <1>1, <2>3, PositionIs
    <2> QED BY <1>1, <2>5, <2>6
<1> QED BY <1>1, <1>2, <1>3 DEF KeepsOrder

\* Nothing is answered too early.
AnsweredServed == AnsweredPositions \subseteq served

\* What is answered was served.
LEMMA AnsweredAreServed == SystemInv => AnsweredServed
<1> SUFFICES ASSUME SystemInv PROVE AnsweredPositions \subseteq served
    BY DEF AnsweredServed
<1> DEFINE T == Range(taken)
           C == Gone(sys, T)
<1>1. /\ conf \in Configurations /\ InProgramOrder(taken) /\ TxnView(given.txns \o sys.txnq, C)
      /\ served = {Position(x) : x \in T \ (Ing(sys) \cup Que(sys))}
      /\ sys \in Systems /\ given \in Givens
    BY DEF SystemInv, Books, Views
<1>2. ASSUME NEW i \in AnsweredPositions PROVE taken[i] \in C
    <2>1. PICK x \in T : x = taken[i]
        BY DEF AnsweredPositions, Range
    <2>2. x \in Program
        BY <1>1 DEF InProgramOrder, Range
    <2>3. x.host \in Hosts /\ x.index \in Indices(x.host) /\ x = Part(x.host, x.index)
        BY <2>2, ProgramIs
    <2>4. CASE RetainsHost
        <3>1. PICK j \in DOMAIN given.hosts : given.hosts[j][1].host = x.host
            BY <2>1, <2>4 DEF AnsweredPositions, Popped
        <3>2. PICK p, q : p = given.hosts /\ q = sys.hostq
            OBVIOUS
        <3>3. p \in Seq(Answers) /\ q \in Seq(Answers)
            BY <1>1, <3>2 DEF Givens, Systems
        <3>4. PICK A : A = given.hosts \o sys.hostq
            OBVIOUS
        <3>5. j \in DOMAIN A /\ A[j][1].host = x.host
            BY <3>1, <3>2, <3>3, <3>4, ConcatFirst, ZenonT(60)
        <3>6. PICK g \in Hosts :
                 /\ A[j] = AnswerOf(g) /\ A[j][1].host = g /\ RetainsHost
                 /\ Of(Gone(sys, Range(taken)), g) = Indices(g)
                 /\ \A k \in Indices(g) : Part(g, k) \in Range(taken) \ (Ing(sys) \cup Que(sys))
            BY <3>4, <3>5, AnswersAre, ZenonT(60)
        <3>7. Of(C, x.host) = Indices(x.host)
            BY <3>5, <3>6
        <3> QED BY <2>1, <2>3, <3>7 DEF Of
    <2>5. CASE ~RetainsHost
        <3>1. x \in Range(given.txns)
            BY <2>1, <2>5 DEF AnsweredPositions
        <3>2. PICK p, q : p = given.txns /\ q = sys.txnq
            OBVIOUS
        <3>3. p \in Seq(Program) /\ q \in Seq(Program)
            BY <1>1, <3>2 DEF Givens, Systems
        <3>4. x \in Range(p \o q)
            BY <3>1, <3>2, <3>3, RangeConcat
        <3> QED BY <1>1, <2>1, <3>2, <3>4 DEF TxnView
    <2> QED BY <2>4, <2>5
<1>3. ASSUME NEW i \in AnsweredPositions PROVE i \in served
    <2>1. i \in DOMAIN taken /\ Position(taken[i]) = i
        BY <1>1, PositionIs DEF AnsweredPositions
    <2>2. taken[i] \in T \ (Ing(sys) \cup Que(sys))
        BY <1>2 DEF Gone
    <2> QED BY <1>1, <2>1, <2>2
<1> QED BY <1>3

\* What try_submit takes is a new access, and not yet answered.
LEMMA SubmitRefines ==
    ASSUME SystemInv, TrySubmit
    PROVE  \E a \in AllAccesses : Memory!Take(a)
<1>1. /\ conf \in Configurations /\ InProgramOrder(taken)
    BY DEF SystemInv
<1>2. PICK x : x = Offered
    OBVIOUS
<1>3. MayOffer(Offered) /\ ~Reused(Offered)
    BY NotReused DEF TrySubmit
<1>4. x \in Program /\ x \notin Range(taken) /\ taken \in Seq(Program)
    <2>1. Offered.host \in Hosts
        BY <1>3 DEF MayOffer, Hosts
    <2> QED BY <1>1, <1>2, <2>1, OfferedIs DEF InProgramOrder
<1>5. taken' = Append(taken, x) /\ conf' = conf /\ served' = served /\ given' = given
    BY <1>2, <1>3 DEF TrySubmit
<1>6. PICK q : q = taken'
    OBVIOUS
<1>7. /\ Len(taken) \in Nat /\ DOMAIN taken = 1 .. Len(taken) /\ DOMAIN q = 1 .. Len(taken) + 1
      /\ q[Len(taken) + 1] = x /\ \A i \in 1 .. Len(taken) : q[i] = taken[i]
    BY <1>4, <1>5, <1>6
<1>8. PICK a : a = Access(conf, x)
    OBVIOUS
<1>9. a \in AllAccesses
    BY <1>1, <1>4, <1>8 DEF AllAccesses, Program
<1>10. Lines' = Append(Lines, a)
    <2>1. Lines' = [i \in DOMAIN q |-> Access(conf, q[i])]
        BY <1>5, <1>6 DEF Lines, Access
    <2>2. Lines = [i \in 1 .. Len(taken) |-> Access(conf, taken[i])]
        BY <1>7 DEF Lines
    <2>3. Lines' = [i \in 1 .. Len(taken) + 1 |->
                       IF i = Len(taken) + 1 THEN a ELSE Access(conf, taken[i])]
        BY <1>7, <1>8, <2>1
    <2>4. Lines \in Seq(AllAccesses) /\ Len(Lines) = Len(taken)
        <3>1. \A i \in 1 .. Len(taken) : Access(conf, taken[i]) \in AllAccesses
            BY <1>1, <1>4, <1>7 DEF AllAccesses, Program
        <3>2. PICK f : f = Lines
            OBVIOUS
        <3>3. f \in [1 .. Len(taken) -> AllAccesses]
            BY <2>2, <3>1, <3>2
        <3>4. f \in Seq(AllAccesses) /\ Len(f) = Len(taken)
            BY <1>7, <3>3
        <3> QED BY <3>2, <3>4
    <2>5. PICK f, h : f = Lines /\ h = Append(f, a)
        OBVIOUS
    <2>6. /\ h \in Seq(AllAccesses) /\ Len(h) = Len(taken) + 1 /\ h[Len(taken) + 1] = a
          /\ \A i \in 1 .. Len(taken) : h[i] = f[i]
        BY <1>7, <1>9, <2>4, <2>5
    <2>7. h = [i \in 1 .. Len(taken) + 1 |-> h[i]]
        BY <2>6
    <2>8. \A i \in 1 .. Len(taken) + 1 :
             h[i] = IF i = Len(taken) + 1 THEN a ELSE Access(conf, taken[i])
        BY <1>7, <2>2, <2>5, <2>6
    <2> QED BY <2>3, <2>5, <2>7, <2>8
<1>11. AnsweredPositions' = AnsweredPositions
    <2>1. \A g : Popped(g)' = Popped(g)
        BY <1>5 DEF Popped, RetainsHost, Request
    <2>2. RetainsHost' = RetainsHost
        BY <1>5 DEF RetainsHost
    <2>3. AnsweredPositions' = {i \in DOMAIN q :
             IF RetainsHost THEN Popped(q[i].host) ELSE q[i] \in Range(given.txns)}
        BY <1>5, <1>6, <2>1, <2>2 DEF AnsweredPositions
    <2>4. ~IF RetainsHost THEN Popped(x.host) ELSE x \in Range(given.txns)
        <3>1. CASE RetainsHost
            <4>1. SUFFICES ASSUME Popped(x.host) PROVE FALSE
                BY <3>1
            <4>2. PICK j \in DOMAIN given.hosts : given.hosts[j][1].host = x.host
                BY <3>1, <4>1 DEF Popped
            <4>3. PICK p, r : p = given.hosts /\ r = sys.hostq
                OBVIOUS
            <4>4. p \in Seq(Answers) /\ r \in Seq(Answers)
                BY <4>3 DEF SystemInv, Givens, Systems
            <4>5. PICK A : A = given.hosts \o sys.hostq
                OBVIOUS
            <4>6. j \in DOMAIN A /\ A[j][1].host = x.host
                BY <4>2, <4>3, <4>4, <4>5, ConcatFirst, ZenonT(60)
            <4>7. PICK g \in Hosts :
                     /\ A[j] = AnswerOf(g) /\ A[j][1].host = g /\ RetainsHost
                     /\ Of(Gone(sys, Range(taken)), g) = Indices(g)
                     /\ \A k \in Indices(g) : Part(g, k) \in Range(taken) \ (Ing(sys) \cup Que(sys))
                BY <4>5, <4>6, AnswersAre, ZenonT(60)
            <4>8. \A k \in Indices(x.host) : Part(x.host, k) \in Range(taken)
                BY <4>6, <4>7
            <4> QED BY <1>4, <4>8, ProgramIs
        <3>2. CASE ~RetainsHost
            <4>1. SUFFICES ASSUME x \in Range(given.txns) PROVE FALSE
                BY <3>2
            <4>2. PICK p, r : p = given.txns /\ r = sys.txnq
                OBVIOUS
            <4>3. p \in Seq(Program) /\ r \in Seq(Program)
                BY <4>2 DEF SystemInv, Givens, Systems
            <4>4. x \in Range(p \o r)
                BY <4>1, <4>2, <4>3, RangeConcat
            <4>5. x \in Gone(sys, Range(taken))
                BY <4>2, <4>4 DEF SystemInv, Books, Views, TxnView
            <4> QED BY <1>4, <4>5 DEF Gone
        <3> QED BY <3>1, <3>2
    <2>5. \A i \in DOMAIN q : (i \in DOMAIN taken /\ q[i] = taken[i]) \/ q[i] = x
        BY <1>7
    <2>6. \A i \in DOMAIN taken : i \in DOMAIN q /\ q[i] = taken[i]
        BY <1>7
    <2> QED BY <2>3, <2>4, <2>5, <2>6 DEF AnsweredPositions
<1> QED BY <1>5, <1>9, <1>10, <1>11 DEF Memory!Take, Lines

\* What the controllers serve in a step comes after those of its class.
LEMMA StepRefines ==
    ASSUME SystemInv, SystemInv', Step
    PROVE  \/ \E S \in SUBSET (DOMAIN Lines \ served) : S # {} /\ Memory!Effect(S)
           \/ UNCHANGED Memory!vars
<1>1. conf' = conf /\ taken' = taken /\ given' = given /\ served \subseteq served'
    BY DEF Step, Tick
<1>2. Lines' = Lines /\ AnsweredPositions' = AnsweredPositions
    <2>1. \A g : Popped(g)' = Popped(g)
        BY <1>1 DEF Popped, RetainsHost, Request
    <2> QED BY <1>1, <2>1 DEF Lines, Access, AnsweredPositions, RetainsHost
<1>3. PICK S : S = served' \ served
    OBVIOUS
<1>4. served' = served \cup S
    BY <1>1, <1>3
<1>5. KeepsOrder'
    BY ServedInOrder, PTL
<1>6. /\ served' \subseteq DOMAIN taken
      /\ \A i \in served', j \in DOMAIN taken :
            j < i /\ ClassOf(taken[j]) = ClassOf(taken[i]) => j \in served'
    BY <1>1, <1>5 DEF KeepsOrder, ClassOf, Transaction, Request
<1>7. DOMAIN Lines = DOMAIN taken /\ \A i \in DOMAIN taken : Lines[i].class = ClassOf(taken[i])
    BY DEF Lines, Access, ClassOf, Transaction, Request
<1>8. CASE S = {}
    <2>1. served' = served
        BY <1>4, <1>8
    <2> QED BY <1>2, <2>1 DEF Memory!vars, Lines
<1>9. CASE S # {}
    <2>1. S \in SUBSET (DOMAIN Lines \ served)
        BY <1>3, <1>6, <1>7
    <2>2. \A i \in S, j \in DOMAIN Lines :
             j < i /\ Lines[j].class = Lines[i].class => j \in served \cup S
        BY <1>3, <1>4, <1>6, <1>7
    <2>3. Memory!Effect(S)
        BY <1>2, <1>4, <2>2 DEF Memory!Effect, Lines
    <2> QED BY <1>9, <2>1, <2>3
<1> QED BY <1>8, <1>9

\* What the host pops was served.
LEMMA PopRefines ==
    ASSUME SystemInv, SystemInv', PopResponse \/ PopTransactionResponse
    PROVE  \/ \E S \in SUBSET (served \ AnsweredPositions) : S # {} /\ Memory!Answer(S)
           \/ UNCHANGED Memory!vars
<1>1. conf' = conf /\ taken' = taken /\ served' = served
    BY DEF PopResponse, PopTransactionResponse
<1>2. Lines' = Lines
    BY <1>1 DEF Lines, Access
<1>3. AnsweredPositions' \subseteq served
    <2>1. AnsweredServed'
        BY AnsweredAreServed, PTL
    <2> QED BY <1>1, <2>1 DEF AnsweredServed
<1>4. \/ given'.hosts = given.hosts /\ Range(given.txns) \subseteq Range(given'.txns)
      \/ /\ given'.txns = given.txns
         /\ \A i \in DOMAIN given.hosts :
               i \in DOMAIN given'.hosts /\ given'.hosts[i] = given.hosts[i]
    <2>1. PICK p, r : p = given.hosts /\ r = given.txns
        OBVIOUS
    <2>2. p \in Seq(Answers) /\ r \in Seq(Program) /\ given \in Givens
        BY <2>1 DEF SystemInv, Givens
    <2>3. CASE PopResponse
        <3>1. PICK a : a = Head(sys.hostq)
            OBVIOUS
        <3>2. sys.hostq \in Seq(Answers) /\ sys.hostq # <<>>
            BY <2>3 DEF SystemInv, Systems, PopResponse
        <3>3. a \in Answers
            BY <3>1, <3>2
        <3>4. PICK h : h = Append(p, a)
            OBVIOUS
        <3>5. \A i \in DOMAIN p : i \in DOMAIN h /\ h[i] = p[i]
            BY <2>2, <3>3, <3>4
        <3>6. given' = [given EXCEPT !.hosts = h]
            BY <2>1, <2>3, <3>1, <3>4 DEF PopResponse
        <3>7. given'.hosts = h /\ given'.txns = given.txns
            BY <2>2, <3>6 DEF Givens
        <3> QED BY <2>1, <3>5, <3>7
    <2>4. CASE PopTransactionResponse
        <3>1. PICK a : a = Head(sys.txnq)
            OBVIOUS
        <3>2. sys.txnq \in Seq(Program) /\ sys.txnq # <<>>
            BY <2>4 DEF SystemInv, Systems, PopTransactionResponse
        <3>3. a \in Program
            BY <3>1, <3>2
        <3>4. PICK h : h = Append(r, a)
            OBVIOUS
        <3>5. Range(r) \subseteq Range(h)
            BY <2>2, <3>3, <3>4, RangeAppend
        <3>6. given' = [given EXCEPT !.txns = h]
            BY <2>1, <2>4, <3>1, <3>4 DEF PopTransactionResponse
        <3>7. given'.txns = h /\ given'.hosts = given.hosts
            BY <2>2, <3>6 DEF Givens
        <3> QED BY <2>1, <3>5, <3>7
    <2> QED BY <2>3, <2>4
<1>5. AnsweredPositions \subseteq AnsweredPositions'
    <2>1. \A g : Request(g)' = Request(g)
        BY <1>1 DEF Request
    <2>2. RetainsHost' = RetainsHost
        BY <1>1 DEF RetainsHost
    <2>3. ASSUME NEW g, Popped(g) PROVE Popped(g)'
        BY <1>4, <2>1, <2>2, <2>3 DEF Popped
    <2>4. ~RetainsHost => Range(given.txns) \subseteq Range(given'.txns)
        BY <1>4
    <2> QED BY <1>1, <2>2, <2>3, <2>4 DEF AnsweredPositions
<1>6. PICK S : S = AnsweredPositions' \ AnsweredPositions
    OBVIOUS
<1>7. AnsweredPositions' = AnsweredPositions \cup S
    BY <1>5, <1>6
<1>8. CASE S = {}
    <2>1. AnsweredPositions' = AnsweredPositions
        BY <1>7, <1>8
    <2> QED BY <1>1, <1>2, <2>1 DEF Memory!vars, Lines
<1>9. CASE S # {}
    <2>1. S \in SUBSET (served \ AnsweredPositions)
        BY <1>3, <1>6
    <2>2. Memory!Answer(S)
        BY <1>1, <1>2, <1>7 DEF Memory!Answer, Lines
    <2> QED BY <1>9, <2>1, <2>2
<1> QED BY <1>8, <1>9

\* The memory system, from try_submit to pop_response, is a line memory: every access has
\* its effect once, those of one class in the order they were taken, and is answered once,
\* after its effect, whatever the stacks, depths, program and order of service.
THEOREM SystemIsMemory == Spec => ImplementsMemory
<1>1. Init => Memory!Init
    <2> SUFFICES ASSUME Init PROVE Memory!Init
        OBVIOUS
    <2>1. taken = <<>> /\ served = {}
        BY DEF Init
    <2>2. Lines = <<>> /\ AnsweredPositions = {}
        BY <2>1 DEF Lines, AnsweredPositions
    <2> QED BY <2>1, <2>2 DEF Memory!Init, Lines
<1>2. SystemInv /\ SystemInv' /\ [Next]_vars => [Memory!Next]_(Memory!vars)
    <2> SUFFICES ASSUME SystemInv, SystemInv', [Next]_vars PROVE [Memory!Next]_(Memory!vars)
        OBVIOUS
    <2>1. CASE UNCHANGED vars
        <3>1. conf' = conf /\ taken' = taken /\ served' = served /\ given' = given
            BY <2>1 DEF vars
        <3>2. \A g : Popped(g)' = Popped(g)
            BY <3>1 DEF Popped, RetainsHost, Request
        <3>3. Lines' = Lines /\ AnsweredPositions' = AnsweredPositions
            BY <3>1, <3>2 DEF Lines, Access, AnsweredPositions, RetainsHost
        <3> QED BY <3>1, <3>3 DEF Memory!vars, Lines
    <2>2. CASE TrySubmit
        BY <2>2, SubmitRefines DEF Memory!Next, AllAccesses
    <2>3. CASE Step
        BY <2>3, StepRefines DEF Memory!Next, Lines
    <2>4. CASE PopResponse \/ PopTransactionResponse
        BY <2>4, PopRefines DEF Memory!Next
    <2>5. CASE Finished
        BY <2>1, <2>5 DEF Finished
    <2> QED BY <2>1, <2>2, <2>3, <2>4, <2>5 DEF Next
<1> QED BY <1>1, <1>2, SystemInvariant, PTL DEF Spec, ImplementsMemory, Memory!Spec

\* So accesses of a class have their effects in the order they were taken, each before its
\* answer: an answered write to a line is seen by every later access to it (of its class
\* of service, with the strict priority).
THEOREM SystemKeepsOrder == Spec => [](Memory!EffectsInOrder /\ Memory!AnsweredAfterEffect)
BY SystemIsMemory, MemoryKeepsOrder, PTL
=============================================================================
