------------------------------ MODULE MemSystem ------------------------------
(***************************************************************************)
(* MemorySystem (mem_sim/src/core/system.cpp) between a host and the channel     *)
(* controllers: the ingress queue of every stack, their dispatch, and the answers *)
(* put together for the host, used as ss_mem (mem_sim/integration/online.cpp)      *)
(* and run_source use it: offer, step, pop.                                   *)
(*                                                                         *)
(* A controller is abstract here (MemController is the detailed one): it takes    *)
(* transactions while it has room, serves those of one line in their order and   *)
(* others in any, and keeps its answers in a bounded queue.                     *)
(*                                                                         *)
(* A transaction is the number of its host request in the program and its index   *)
(* there.                                                                   *)
(***************************************************************************)
EXTENDS Integers, Sequences, SequencesExt, FiniteSets, FiniteSetsExt, Functions

(* Where an address is: its stack, its address there, and its channel             *)
(* (mem_sim/src/core/addr_map.cpp).  An address counts memory lines, of           *)
(* transaction_bytes each.                                                  *)

CONSTANTS
    StackCount, \* stacks are 0 .. StackCount - 1
    Channels,   \* of a stack, 0 .. Channels - 1
    Stripe, \* lines in a stripe
    Capacity    \* lines in a stack

ASSUME StackAssumption ==
    {StackCount, Channels, Stripe, Capacity} \subseteq Nat \ {0}

Kinds == {"interleaved", "blocked"}

\* StackAddressMapper::decode, of an address some stack has.
Decode(kind, a) ==
    IF StackCount = 1 THEN [stack |-> 0, local |-> a]
    ELSE IF kind = "blocked" THEN [stack |-> a \div Capacity, local |-> a % Capacity]
    ELSE LET stripe == a \div Stripe IN
         [stack |-> stripe % StackCount,
          local |-> (stripe \div StackCount) * Stripe + (a % Stripe)]

\* StackAddressMapper::encode.
Encode(kind, stack, local) ==
    IF StackCount = 1 THEN local
    ELSE IF kind = "blocked" THEN stack * Capacity + local
    ELSE ((local \div Stripe) * StackCount + stack) * Stripe + (local % Stripe)

\* The decoded channel of a mapping that takes it from the lowest digit
\* (RoBaRaCoCh).
ChannelOf(local) == local % Channels

-----------------------------------------------------------------------------

CONSTANTS
    Configurations, \* [policy, mode, kind, program]: the options and host requests
    IngressDepth, Width, HostDepth, TxnDepth, CtrlDepth, CtrlAnswers

ASSUME DepthAssumption ==
    /\ {IngressDepth, Width, CtrlDepth, CtrlAnswers} \subseteq Nat \ {0}
    /\ {HostDepth, TxnDepth} \subseteq Nat

StackIds == 0 .. StackCount - 1
Controllers == StackIds \X (0 .. Channels - 1)

\* A program is a sequence of host requests, each with a tag (host_request_id), a
\* direction and its transactions: an address with its class of service, of one
\* stack if explicit.  An address is one that the stack, or some stack, has.
HostRequests ==
    [tag : Nat, write : BOOLEAN,
     txns : Seq([explicit : BOOLEAN, stack : StackIds, address : Nat, qos : Nat]) \ {<<>>}]

ASSUME ProgramAssumption ==
    \A c \in Configurations :
        /\ c.policy \in {"fcfs", "strict"} /\ c.mode \in {"host", "transaction", "both"}
        /\ c.kind \in Kinds /\ c.program \in Seq(HostRequests)
        /\ \A g \in DOMAIN c.program : \A t \in Range(c.program[g].txns) :
              t.address < IF t.explicit THEN Capacity ELSE StackCount * Capacity

VARIABLES
    conf,
    sys,    \* the memory system, one record
    taken,  \* GHOST: the transactions in the order they were taken
    served, \* GHOST: those the controllers served, as positions in taken
    given   \* GHOST: what the host popped, by view

vars == <<conf, sys, taken, served, given>>

NoTags == [t \in {} |-> 0]

\* A map with a value at a key.
Put(m, key, value) == [k \in DOMAIN m \cup {key} |-> IF k = key THEN value ELSE m[k]]

Request(g) == conf.program[g]
Transaction(x) == Request(x.host).txns[x.index]
Tag(x) == Request(x.host).tag
Count(x) == Len(Request(x.host).txns)

\* localize_request.
Home(x) ==
    LET t == Transaction(x) IN
    IF t.explicit THEN [stack |-> t.stack, local |-> t.address]
    ELSE Decode(conf.kind, t.address)
SystemAddress(c, t) ==
    IF t.explicit THEN Encode(c.kind, t.stack, t.address) ELSE t.address

ControllerOf(x) == <<Home(x).stack, ChannelOf(Home(x).local)>>

RetainsHost == conf.mode \in {"host", "both"}
RetainsTransactions == conf.mode \in {"transaction", "both"}

Sys0 ==
    [ingress |-> [s \in StackIds |-> <<>>],
     ctrl |-> [c \in Controllers |-> [queue |-> <<>>, answers |-> <<>>]],
     submissions |-> NoTags, assemblies |-> NoTags,
     hostq |-> <<>>, txnq |-> <<>>, failed |-> FALSE]

Init ==
    /\ conf \in Configurations
    /\ sys = Sys0
    /\ taken = <<>> /\ served = {}
    /\ given = [hosts |-> <<>>, txns |-> <<>>]

-----------------------------------------------------------------------------
\* Submission

\* The one the host offers next, in the order of its program.
Offered ==
    LET last == taken[Len(taken)] IN
    IF taken = <<>> THEN [host |-> 1, index |-> 1]
    ELSE IF last.index < Count(last) THEN [last EXCEPT !.index = @ + 1]
    ELSE [host |-> last.host + 1, index |-> 1]

\* A tag is used again when what carried it was popped, every transaction of it if
\* there is no answer for the whole.
Popped(g) ==
    IF RetainsHost THEN \E i \in DOMAIN given.hosts : given.hosts[i][1].host = g
    ELSE \A k \in DOMAIN Request(g).txns : [host |-> g, index |-> k] \in Range(given.txns)

MayOffer(x) ==
    /\ x.host \in DOMAIN conf.program
    /\ x.index = 1 => \A g \in 1 .. x.host - 1 : Tag(x) = Request(g).tag => Popped(g)

\* try_submit refuses a tag in use with an exception.
Reused(x) ==
    IF Tag(x) \notin DOMAIN sys.submissions THEN x.index # 1
    ELSE LET s == sys.submissions[Tag(x)] IN
         s.count # Count(x) \/ s.write # Request(x.host).write \/ x.index \in s.accepted

\* record_submitted_transaction.
Submission(x) ==
    LET s == IF Tag(x) \in DOMAIN sys.submissions THEN sys.submissions[Tag(x)]
             ELSE [count |-> Count(x), write |-> Request(x.host).write,
                   accepted |-> {}, completed |-> 0]
    IN  [s EXCEPT !.accepted = @ \union {x.index}]

\* try_submit, which the host repeats while the ingress of the stack is full.
TrySubmit ==
    LET x == Offered
        stack == Home(x).stack
    IN  /\ MayOffer(x) /\ ~sys.failed
        /\ Reused(x) \/ Len(sys.ingress[stack]) < IngressDepth
        /\ IF Reused(x)
           THEN sys' = [sys EXCEPT !.failed = TRUE] /\ UNCHANGED taken
           ELSE /\ sys' = [sys EXCEPT !.ingress[stack] = Append(@, x),
                                      !.submissions = Put(@, Tag(x), Submission(x))]
                /\ taken' = Append(taken, x)
        /\ UNCHANGED <<conf, served, given>>

-----------------------------------------------------------------------------
\* A step of all stacks and controllers

Before(x, y) == x.host < y.host \/ (x.host = y.host /\ x.index < y.index)

\* A slip: of one class the newest goes first.
SelectedAny(q) ==
    IF conf.policy = "fcfs" THEN 1
    ELSE CHOOSE i \in DOMAIN q : \A j \in DOMAIN q :
            \/ Transaction(q[i]).qos > Transaction(q[j]).qos
            \/ Transaction(q[i]).qos = Transaction(q[j]).qos /\ i >= j

\* The first of an ingress, or the first of the highest class of service.
Selected(q) ==
    IF conf.policy = "fcfs" THEN 1
    ELSE CHOOSE i \in DOMAIN q : \A j \in DOMAIN q :
            \/ Transaction(q[i]).qos > Transaction(q[j]).qos
            \/ Transaction(q[i]).qos = Transaction(q[j]).qos /\ ~Before(q[j], q[i])

\* One slot of a stack: the rest of the stack waits for a controller without room.
DispatchOne(s, stack) ==
    LET q == s.ingress[stack]
        i == Selected(q)
        c == ControllerOf(q[i])
    IN  IF q = <<>> \/ Len(s.ctrl[c].queue) = CtrlDepth THEN s
        ELSE [s EXCEPT !.ingress[stack] = RemoveAt(@, i), !.ctrl[c].queue = Append(@, q[i])]

\* dispatch_stack_ingress: every stack, Width slots each.
Dispatched ==
    LET slot[n \in 0 .. StackCount * Width] ==
            IF n = 0 THEN sys
            ELSE CHOOSE t \in {DispatchOne(s, (n - 1) \div Width) : s \in {slot[n - 1]}} : TRUE
    IN  slot[StackCount * Width]

Position(x) == CHOOSE i \in DOMAIN taken : taken[i] = x

Queued(s) == UNION {Range(s.ctrl[c].queue) : c \in Controllers}

\* What the controllers may serve: with those before on the same line, and as
\* many as there is room for the answers.
Servable(s) ==
    {S \in SUBSET Queued(s) :
        \A c \in Controllers :
            LET q == s.ctrl[c].queue IN
            /\ Cardinality(Range(q) \cap S) + Len(s.ctrl[c].answers) <= CtrlAnswers
            /\ \A i, j \in DOMAIN q :
                  i < j /\ Home(q[i]) = Home(q[j]) /\ q[j] \in S => q[i] \in S}

Heads(s) ==
    UNION {IF s.ctrl[c].queue = <<>> \/ Len(s.ctrl[c].answers) = CtrlAnswers THEN {}
           ELSE {Head(s.ctrl[c].queue)} : c \in Controllers}

\* Those of a queue that are in S, in their order.
Chosen(q, S) ==
    LET first[n \in 0 .. Len(q)] ==
            IF n = 0 THEN <<>>
            ELSE IF q[n] \in S THEN Append(first[n - 1], q[n]) ELSE first[n - 1]
    IN  first[Len(q)]

ServedBy(s, S) ==
    [s EXCEPT !.ctrl = [c \in Controllers |->
        LET q == s.ctrl[c].queue
        IN  [queue |-> Chosen(q, Range(q) \ S),
             answers |-> s.ctrl[c].answers \o Chosen(q, S)]]]

-----------------------------------------------------------------------------
\* Collection of the answers

\* A slip: a tag is free as soon as its last transaction is done.
CompletedEarly(s, x) ==
    LET sub == [s.submissions[Tag(x)] EXCEPT !.completed = @ + 1]
        over == sub.completed >= sub.count
    IN  IF Tag(x) \notin DOMAIN s.submissions THEN s
        ELSE IF over
        THEN [s EXCEPT !.submissions = Restrict(@, DOMAIN @ \ {Tag(x)})]
        ELSE [s EXCEPT !.submissions[Tag(x)] = sub]

\* A slip: off by one.
CompletedLate(s, x) ==
    LET sub == [s.submissions[Tag(x)] EXCEPT !.completed = @ + 1]
        over == sub.completed > sub.count /\ ~RetainsHost
    IN  IF Tag(x) \notin DOMAIN s.submissions THEN s
        ELSE IF over
        THEN [s EXCEPT !.submissions = Restrict(@, DOMAIN @ \ {Tag(x)})]
        ELSE [s EXCEPT !.submissions[Tag(x)] = sub]

\* record_completed_transaction: without an answer for the whole to pop, this
\* frees the tag.
Completed(s, x) ==
    LET sub == [s.submissions[Tag(x)] EXCEPT !.completed = @ + 1]
        over == sub.completed >= sub.count /\ ~RetainsHost
    IN  IF Tag(x) \notin DOMAIN s.submissions THEN s
        ELSE IF over
        THEN [s EXCEPT !.submissions = Restrict(@, DOMAIN @ \ {Tag(x)})]
        ELSE [s EXCEPT !.submissions[Tag(x)] = sub]

\* publish_host_response.
Published(s, answer) ==
    IF HostDepth > 0 /\ Len(s.hostq) >= HostDepth THEN [s EXCEPT !.failed = TRUE]
    ELSE [s EXCEPT !.hostq = Append(@, answer)]

IsWhole(a, x) == Cardinality(DOMAIN a) = Count(x)

\* aggregate_response, by tag and index.  A second answer to a transaction is
\* an error of the simulator here.
Aggregated(s, x) ==
    LET a == IF Tag(x) \in DOMAIN s.assemblies THEN s.assemblies[Tag(x)] ELSE NoTags
        with == Put(a, x.index, x)
        inOrder == [k \in DOMAIN with |-> with[k]]
        left == [s EXCEPT !.assemblies = Restrict(@, DOMAIN @ \ {Tag(x)})]
    IN  IF x.index \in DOMAIN a THEN [s EXCEPT !.failed = TRUE]
        ELSE IF IsWhole(with, x) THEN Published(left, inOrder)
        ELSE [s EXCEPT !.assemblies = Put(@, Tag(x), with)]

CannotDeliver(s) ==
    \/ RetainsTransactions /\ TxnDepth > 0 /\ Len(s.txnq) >= TxnDepth
    \/ RetainsHost /\ HostDepth > 0 /\ Len(s.hostq) >= HostDepth

\* The answer of controller c that is first.
Collect(s, c) ==
    LET x == Head(s.ctrl[c].answers)
        popped == [s EXCEPT !.ctrl[c].answers = Tail(@)]
        noted == IF RetainsTransactions THEN [popped EXCEPT !.txnq = Append(@, x)] ELSE popped
    IN  {IF RetainsHost THEN Aggregated(t, x) ELSE t : t \in {Completed(noted, x)}}

\* Controllers are asked one after the other.
FirstAnswering(s) ==
    LET has == {c \in Controllers : s.ctrl[c].answers # <<>>} IN
    CHOOSE c \in has : \A d \in has : c[1] < d[1] \/ (c[1] = d[1] /\ c[2] <= d[2])

NothingToCollect(s) == \A c \in Controllers : s.ctrl[c].answers = <<>>

\* collect_responses: until there is nothing left, or a queue to the host is full.
Collected(s0) ==
    LET most == Cardinality(Controllers) * CtrlAnswers
        after[n \in 0 .. most] ==
            IF n = 0 THEN s0
            ELSE CHOOSE t \in UNION {IF NothingToCollect(s) \/ CannotDeliver(s) THEN {s}
                                     ELSE Collect(s, FirstAnswering(s)) : s \in {after[n - 1]}} : TRUE
    IN  after[most]

\* tick, when the controllers serve S.
Tick(dispatched, S) ==
    /\ \E t \in {ServedBy(dispatched, S)} : sys' = Collected(t)
    /\ served' = served \union {Position(x) : x \in S}
    /\ UNCHANGED <<conf, taken, given>>

Step ==
    /\ ~sys.failed
    /\ \E d \in {Dispatched} : \E S \in Servable(d) : Tick(d, S)

\* Every controller serves its oldest.
EagerStep == ~sys.failed /\ \E d \in {Dispatched} : Tick(d, Heads(d))

-----------------------------------------------------------------------------
\* The host takes what is there

\* A slip: the tag is not freed.
FreedNot(tag) == sys.submissions

\* A tag may be used again when the answer for the whole was popped.
Freed(tag) ==
    IF /\ tag \in DOMAIN sys.submissions
       /\ sys.submissions[tag].completed >= sys.submissions[tag].count
    THEN Restrict(sys.submissions, DOMAIN sys.submissions \ {tag})
    ELSE sys.submissions

PopResponse ==
    /\ sys.hostq # <<>> /\ ~sys.failed
    /\ LET a == Head(sys.hostq) IN
       /\ sys' = [sys EXCEPT !.hostq = Tail(@), !.submissions = Freed(Tag(a[1]))]
       /\ given' = [given EXCEPT !.hosts = Append(@, a)]
    /\ UNCHANGED <<conf, taken, served>>

PopTransactionResponse ==
    /\ sys.txnq # <<>> /\ ~sys.failed
    /\ sys' = [sys EXCEPT !.txnq = Tail(@)]
    /\ given' = [given EXCEPT !.txns = Append(@, Head(sys.txnq))]
    /\ UNCHANGED <<conf, taken, served>>

ProgramOf(c) ==
    UNION {{[host |-> g, index |-> k] : k \in DOMAIN c.program[g].txns} : g \in DOMAIN c.program}
Program == ProgramOf(conf)

\* quiescent, with nothing left to offer.
ResponsesDrained ==
    /\ sys.txnq = <<>> /\ sys.hostq = <<>>
    /\ DOMAIN sys.assemblies = {} /\ DOMAIN sys.submissions = {}
    /\ NothingToCollect(sys)
Idle ==
    /\ \A s \in StackIds : sys.ingress[s] = <<>>
    /\ \A c \in Controllers : sys.ctrl[c].queue = <<>>
Finished == Range(taken) = Program /\ Idle /\ ResponsesDrained /\ UNCHANGED vars

Next == TrySubmit \/ Step \/ PopResponse \/ PopTransactionResponse \/ Finished

Spec == Init /\ [][Next]_vars

\* The host offers, steps and pops what it asked to keep (run_source); every
\* controller serves its oldest, which MemController's Drains shows of it.
FairSpec ==
    /\ Spec
    /\ WF_vars(TrySubmit) /\ WF_vars(EagerStep)
    /\ WF_vars(PopResponse) /\ WF_vars(PopTransactionResponse)

-----------------------------------------------------------------------------
\* Properties

\* Nothing throws: the host may use a tag again as soon as it popped the answer
\* (system.cpp:634), no answer meets another of the same transaction (system.cpp:747),
\* and an answer put together has its place in the host's queue, although this was
\* checked before the parts were popped (system.cpp:842).
NeverFails == ~sys.failed

InTurn(a) ==
    /\ \A k \in DOMAIN a : a[k] = [host |-> a[1].host, index |-> k]
    /\ DOMAIN a = DOMAIN Request(a[1].host).txns

\* Every answer is for one host request: all its transactions, in order, each once,
\* each served, each from the stack and line its address means, though they were
\* served by several controllers in any order, and their tag was another request's
\* before.
AnswersAreWhole ==
    LET answers == given.hosts \o sys.hostq
        singles == given.txns \o sys.txnq
    IN  /\ \A i \in DOMAIN answers :
              /\ InTurn(answers[i])
              /\ \A k \in DOMAIN answers[i] : Position(answers[i][k]) \in served
        /\ \A i, j \in DOMAIN answers : i # j => answers[i][1].host # answers[j][1].host
        /\ IsInjective(singles)
        /\ \A x \in Range(taken) :
              Encode(conf.kind, Home(x).stack, Home(x).local) = SystemAddress(conf, Transaction(x))

\* A request that is not yet answered keeps its tag, and only its own: whatever was
\* taken of it is noted, and no other request's.
TagsAreKept ==
    /\ \A x \in Range(taken) :
          LET mine == {y \in Range(taken) : y.host = x.host} IN
          ~Popped(x.host) /\ (RetainsHost \/ {Position(y) : y \in mine} \ served # {})
            => /\ Tag(x) \in DOMAIN sys.submissions
               /\ sys.submissions[Tag(x)].accepted = {y.index : y \in mine}
    /\ Idle /\ ResponsesDrained =>
          \A x \in Range(taken) : Popped(x.host)

\* Answers and tags together: a tag decides which request an answer belongs to
\* (aggregate_response, record_completed_transaction).
AnswersFindTheirRequests == AnswersAreWhole /\ TagsAreKept

\* The memory system is a memory as its hosts need it: accesses to one line have
\* their effect in the order they were taken, with the strict priority those of one
\* class of service (the ingress keeps the order within a class), and each is
\* answered once.
OrderClass(c, t) ==
    IF c.policy = "fcfs" THEN <<SystemAddress(c, t), 0>> ELSE <<SystemAddress(c, t), t.qos>>

Access(c, x) == [of |-> x, class |-> OrderClass(c, c.program[x.host].txns[x.index])]

AnsweredPositions ==
    {i \in DOMAIN taken :
        IF RetainsHost THEN Popped(taken[i].host) ELSE taken[i] \in Range(given.txns)}

Memory == INSTANCE LineMemory
    WITH Accesses <- UNION {{Access(c, x) : x \in ProgramOf(c)} : c \in Configurations},
         taken <- [i \in DOMAIN taken |-> Access(conf, taken[i])], done <- served, answered <- AnsweredPositions
ImplementsMemory == Memory!Spec

\* All that was offered is taken, and popped in every view the host keeps: full
\* queues on the way, and tags that wait for their answer, stop nothing for good.
EverythingAnswered ==
    <>(Range(taken) = Program /\ AnsweredPositions = DOMAIN taken /\ ResponsesDrained)
=============================================================================
