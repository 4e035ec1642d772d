------------------------------ MODULE GatePath ------------------------------
(***************************************************************************)
(* The memory side of the gem5 system: a host (the AoU target), the SparseGate  *)
(* adapter with its engine, and the bridge to the memory (gem5_axi/             *)
(* sparse_gate_backend.cc and memsim_backend.cc, joined by FIFOs as in           *)
(* aou_backend.cc).  The adapter runs on the clock, the bridge on the memory's    *)
(* period, and the two are not in step.                                       *)
(***************************************************************************)
EXTENDS SgBackend, MemsimBackend

CONSTANTS
    Programs, \* sequences of host requests, one of which is run
    DmaOps,   \* accesses the engine may make: [write, lines]
    MaxDma    \* how many

\* A burst is of consecutive addresses and has every line once.
ASSUME PathAssumption ==
    /\ Programs \subseteq Seq([write : BOOLEAN, rp : Nat, id : Nat, mmio : BOOLEAN,
                               lock : BOOLEAN, lines : Seq(Nat)])
    /\ DmaOps \subseteq [write : BOOLEAN, lines : Seq(Nat)]
    /\ \A p \in Programs : \A i \in DOMAIN p : ~p[i].mmio => IsInjective(p[i].lines)
    /\ \A o \in DmaOps : IsInjective(o.lines)

VARIABLES
    program, \* the host's requests, in the order it issues them
    ad,      \* the adapter and the FIFOs
    rtl,     \* the engine's DMA: what it still offers, and its access
    mem,     \* the bridge
    ops,     \* GHOST: every access issued, and those answered when it was
    answers  \* GHOST: every answer taken by the host or the engine

vars == <<program, ad, rtl, mem, ops, answers>>

\* The engine's access n of the shape o; it has one plane and one ID.
Access(o, n) ==
    [op |-> n, write |-> o.write, lines |-> o.lines, rp |-> 0, id |-> 1, lock |-> FALSE]

NoAccess == Access([write |-> FALSE, lines |-> <<>>], 0)

Init ==
    /\ program \in Programs
    /\ ad = Adapter0
    /\ rtl = [wants |-> {}, access |-> NoAccess, asked |-> 0]
    /\ mem = Memory0
    /\ ops = <<>> /\ answers = {}

Answered == {a.op : a \in answers}

Issue(shape, dma) ==
    ops' = Append(ops, [shape |-> shape, dma |-> dma, before |-> Answered])

HostOps == {i \in DOMAIN ops : ~ops[i].dma}

\* The host's request n of the shape o.
Request(o, n) ==
    [op |-> n, write |-> o.write, rp |-> o.rp, id |-> o.id, mmio |-> o.mmio,
     lock |-> o.lock, lines |-> o.lines]

\* The AoU target submits a request.
HostIssues ==
    LET n == Cardinality(HostOps) + 1 IN
    /\ n <= Len(program) /\ Len(ad.hreq) < Depth
    /\ ad' = [ad EXCEPT !.hreq = Append(@, Request(program[n], Len(ops) + 1))]
    /\ Issue(program[n], FALSE)
    /\ UNCHANGED <<program, rtl, mem, answers>>

HostTakes ==
    /\ ad.hrsp # <<>>
    /\ ad' = [ad EXCEPT !.hrsp = Tail(@)]
    /\ answers' = answers \union {Head(ad.hrsp)}
    /\ UNCHANGED <<program, rtl, mem, ops>>

\* sparse_gate_dma: the engine begins an access when its last one is answered.
EngineAsks ==
    /\ rtl.access = NoAccess /\ rtl.asked < MaxDma
    /\ \E o \in DmaOps :
        /\ rtl' = [wants |-> IF o.write THEN {"AW", "W"} ELSE {"AR"},
                   access |-> Access(o, Len(ops) + 1),
                   asked |-> rtl.asked + 1]
        /\ Issue(o, TRUE)
    /\ UNCHANGED <<program, ad, mem, answers>>

\* What the register slave does with the adapter's offers takes one edge or more.
Moves == {{}, {"address", "beat"}, {"beat"}, {"answer"}}

\* A rising edge: the engine shows some of what it wants.
Clock(moves, shows) ==
    LET done == ad.drsp # <<>> IN
    /\ ad' \in Edges(ad, moves, shows, rtl.access)
    /\ rtl' = IF done THEN [rtl EXCEPT !.access = NoAccess]
              ELSE IF ad.dactive THEN rtl ELSE [rtl EXCEPT !.wants = @ \ shows]
    /\ answers' = IF done THEN answers \union {ad.drsp[1]} ELSE answers
    /\ UNCHANGED <<program, mem, ops>>

MemoryPeriod(takes, answered, held) ==
    \E s \in Periods([req |-> ad.req, rsp |-> ad.rsp, mem |-> mem],
                     Depth, takes, answered, held) :
        /\ ad' = [ad EXCEPT !.req = s.req, !.rsp = s.rsp]
        /\ mem' = s.mem
        /\ UNCHANGED <<program, rtl, ops, answers>>

Finished == /\ Len(program) = Cardinality(HostOps) /\ rtl.asked = MaxDma
            /\ Answered = DOMAIN ops
            /\ UNCHANGED vars

Next ==
    \/ HostIssues \/ HostTakes \/ EngineAsks
    \/ \E moves \in Moves, shows \in SUBSET rtl.wants : Clock(moves, shows)
    \/ \E takes, held \in BOOLEAN :
        \E answered \in SUBSET (Children(mem)) : MemoryPeriod(takes, answered, held)
    \/ Finished

Spec == Init /\ [][Next]_vars

\* Both clocks run, the slave makes a move when one is left, the memory takes
\* pieces and answers them, and the AoU target takes its answers.
FairSpec ==
    /\ Spec
    /\ WF_vars(HostTakes)
    /\ WF_vars(Clock({"address", "beat"}, rtl.wants))
    /\ WF_vars(Clock({"answer"}, rtl.wants))
    /\ WF_vars(MemoryPeriod(TRUE, Children(mem), FALSE))

-----------------------------------------------------------------------------
\* Properties

\* Every ticket is for one access on its way through the memory, of its direction
\* and owner, and no access there is without: memory_return finds the owner of
\* every answer (sparse_gate_backend.cc:155-162), although tags are used again
\* while older answers are on the way.
TicketsHold ==
    LET under == ad.req \o [i \in DOMAIN mem.bursts |-> mem.bursts[i].req] \o ad.rsp
    IN  /\ {under[i].id : i \in DOMAIN under} = DOMAIN ad.tickets
        /\ Len(under) = Cardinality(DOMAIN ad.tickets)
        /\ \A i \in DOMAIN under :
              LET t == ad.tickets[under[i].id]
                  o == ops[under[i].op]
              IN  /\ t.dma = o.dma /\ t.write = o.shape.write
                  /\ ~t.dma => t.rp = o.shape.rp /\ t.id = o.shape.id

Accepted(shape) == Range(shape.lines) \subseteq Lines

\* An answer says what its request was, with an error if it has to.
Matches(a, o) ==
    /\ a.write = o.shape.write /\ a.beats = Len(o.shape.lines)
    /\ ~o.dma =>
          /\ a.rp = o.shape.rp /\ a.id = o.shape.id
          /\ a.resp = IF ~o.shape.mmio /\ ~Accepted(o.shape) THEN DECERR
                      ELSE IF o.shape.lock THEN SLVERR ELSE OKAY

\* Every access is answered once, with its own answer, and within a group
\* (direction, plane, ID) in the order of the requests, registers and memory mixed:
\* the AoU target gives an answer to the oldest ticket of its group
\* (sparse_gate_backend.cc:58-60).
AnsweredInOrder ==
    LET leaving == ad.hrsp \o ad.completed
        left == {leaving[i].op : i \in DOMAIN leaving}
    IN  /\ \A a \in answers : Matches(a, ops[a.op])
        /\ Cardinality(answers) = Cardinality(Answered)
        /\ Cardinality(left) = Len(leaving) /\ left \cap Answered = {}
        /\ \A i, j \in HostOps :
              i < j /\ Group(ops[i].shape) = Group(ops[j].shape) /\ j \in Answered
                => i \in Answered

\* When the write o took effect on the line, 0 for the contents at first.
When(l, o) ==
    IF o = 0 THEN 0
    ELSE IF o \in Range(mem.wrote[l])
    THEN CHOOSE i \in DOMAIN mem.wrote[l] : mem.wrote[l][i] = o
    ELSE Len(mem.wrote[l]) + 1

MemoryAnswers(write) ==
    {a \in answers : /\ a.write = write /\ a.resp = OKAY
                     /\ ops[a.op].dma \/ ~ops[a.op].shape.mmio}

LinesOf(a) == ops[a.op].shape.lines

\* A read sees every write that was answered, to the host or to the engine, when
\* the read was issued.
ReadsSeeAnswered ==
    \A a \in MemoryAnswers(FALSE), w \in MemoryAnswers(TRUE) :
        w.op \in ops[a.op].before =>
            \A k \in DOMAIN a.got :
                LET l == LinesOf(a)[k] IN
                l \in Range(LinesOf(w)) => When(l, w.op) <= When(l, a.got[k])

\* A read of two lines sees all of a write to both, or nothing: the bursts are
\* submitted one after the other (memsim_backend.cc:62).
WholeBursts ==
    \A a \in MemoryAnswers(FALSE) : \A w \in DOMAIN ops :
        \A j, k \in DOMAIN a.got :
            LET sees(i) == When(LinesOf(a)[i], w) <= When(LinesOf(a)[i], a.got[i])
                covers(i) == LinesOf(a)[i] \in Range(ops[w].shape.lines)
            IN  ops[w].shape.write /\ covers(j) /\ covers(k) => sees(j) = sees(k)

Coherent == ReadsSeeAnswered /\ WholeBursts

\* Every access is answered: a full queue of answers, an answer the engine has not
\* taken or a request waiting for its group never stop each other for good
\* (sparse_gate_backend.cc:123, 152).  The accesses are boundedly many, so that the
\* time when all are answered comes again and again.
EveryAccessAnswered == []<>(Answered = DOMAIN ops)
=============================================================================
