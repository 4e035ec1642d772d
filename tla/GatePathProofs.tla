---------------------------- MODULE GatePathProofs ----------------------------
(***************************************************************************)
(* Proofs about the gate path: tickets, the order of the answers, and the data.   *)
(* PathInv says that every queue holds accesses that were issued, with the fields  *)
(* their requests asked for; that the accesses in the memory have one ticket each, *)
(* of their owner; and that the engine has one access at a time.  OrderInv says    *)
(* where every access is and that, within a group, an earlier one is farther on    *)
(* its way: the order of the answers follows.  DataInv says what the bursts and the *)
(* answers on their way have of the histories of their lines: coherence follows.   *)
(* The stages of an edge and of a memory period are functions of a record, so that *)
(* each has a lemma for every invariant; then come the steps, the invariants and   *)
(* the properties.                                                                *)
(***************************************************************************)
EXTENDS GatePath, FiniteSetTheorems, SequenceTheorems, WellFoundedInduction, TLAPS

(* Types                                                                     *)

HostShapes == [write : BOOLEAN, rp : Nat, id : Nat, mmio : BOOLEAN, lock : BOOLEAN,
               lines : Seq(Nat)]
DmaShapes == [write : BOOLEAN, lines : Seq(Nat)]

Issues == [shape : HostShapes \cup DmaShapes, dma : BOOLEAN, before : SUBSET Nat]

OpsType ==
    /\ ops \in Seq(Issues)
    /\ \A i \in DOMAIN ops : ops[i].shape \in IF ops[i].dma THEN DmaShapes ELSE HostShapes

\* Requests of the host and of the engine are those that were issued.
HostRequests ==
    {r \in [op : Nat, write : BOOLEAN, rp : Nat, id : Nat, mmio : BOOLEAN, lock : BOOLEAN,
            lines : Seq(Nat)] :
        r.op \in DOMAIN ops /\ ~ops[r.op].dma /\ r = Request(ops[r.op].shape, r.op)}

MemoryBound == {r \in HostRequests : ~r.mmio}
RegisterBound == {r \in HostRequests : r.mmio}

\* A register access in progress is not a locked one.
Registers == [req : {r \in RegisterBound : ~r.lock}, addr : BOOLEAN,
              sent : Nat, got : Nat, complete : BOOLEAN]

Accesses ==
    {r \in [op : Nat, write : BOOLEAN, lines : Seq(Nat), rp : Nat, id : Nat, lock : BOOLEAN] :
        r.op \in DOMAIN ops /\ ops[r.op].dma /\ r = Access(ops[r.op].shape, r.op)}

\* On the way through the memory, and back.
MemRequests ==
    {r \in [op : Nat, id : Nat, write : BOOLEAN, lines : Seq(Nat), lock : BOOLEAN] :
        /\ r.op \in DOMAIN ops
        /\ r.write = ops[r.op].shape.write /\ r.lines = ops[r.op].shape.lines
        /\ ~ops[r.op].dma => ~ops[r.op].shape.mmio /\ r.lock = ops[r.op].shape.lock}

MemAnswers ==
    {a \in [op : Nat, id : Nat, write : BOOLEAN, beats : Nat, resp : Nat, got : Seq(Nat)] :
        /\ a.op \in DOMAIN ops
        /\ a.write = ops[a.op].shape.write /\ a.beats = Len(ops[a.op].shape.lines)
        /\ ~ops[a.op].dma =>
              /\ ~ops[a.op].shape.mmio
              /\ a.resp = IF ~Accepted(ops[a.op].shape) THEN DECERR
                          ELSE IF ops[a.op].shape.lock THEN SLVERR ELSE OKAY}

Returns ==
    {a \in [op : Nat, write : BOOLEAN, rp : Nat, id : Nat, resp : Nat, beats : Nat,
            got : Seq(Nat)] :
        a.op \in DOMAIN ops /\ Matches(a, ops[a.op])}
HostReturns == {a \in Returns : ~ops[a.op].dma}
DmaReturns == {a \in Returns : ops[a.op].dma}

Tickets == [dma : BOOLEAN, write : BOOLEAN, rp : Nat, id : Nat]
TicketTables == UNION {[T -> Tickets] : T \in SUBSET (1 .. Tags)}

Adapters ==
    [pending : Seq(HostRequests), bypass : Seq(MemoryBound), mmio_wait : Seq(RegisterBound),
     groups : SUBSET (BOOLEAN \X Nat \X Nat), mmio : Seq(Registers),
     completed : Seq(HostReturns), tickets : TicketTables, next : 1 .. Tags,
     aw : BOOLEAN, w : BOOLEAN, dreq : Seq(Accesses), drsp : Seq(DmaReturns),
     dactive : BOOLEAN, prefer : BOOLEAN, hreq : Seq(HostRequests), hrsp : Seq(HostReturns),
     req : Seq(MemRequests), rsp : Seq(MemAnswers)]

\* A burst with pieces to submit lies in the window.
Bursts ==
    {b \in [req : MemRequests, resp : Nat, out : SUBSET Nat, got : Seq(Nat), sent : Nat] :
        /\ b.resp = Status(b.req)
        /\ b.sent <= Len(b.req.lines)
        /\ b.sent < Len(b.req.lines) => Range(b.req.lines) \subseteq Lines}

Memories == [bursts : Seq(Bursts), wrote : [Lines -> Seq(Nat)]]

PathType ==
    /\ program \in Programs
    /\ OpsType
    /\ ad \in Adapters
    /\ rtl \in [wants : SUBSET {"AW", "W", "AR"}, access : Accesses \cup {NoAccess}, asked : Nat]
    /\ mem \in Memories
    /\ answers \subseteq Returns

-----------------------------------------------------------------------------
(* Tickets                                                                   *)

\* An access in the memory has a ticket that says whose it is.
TicketOf(x, tickets) ==
    /\ x.id \in DOMAIN tickets
    /\ LET t == tickets[x.id]
           o == ops[x.op]
       IN  /\ t.dma = o.dma /\ t.write = o.shape.write
           /\ ~t.dma => t.rp = o.shape.rp /\ t.id = o.shape.id

Ids(q) == {q[i].id : i \in DOMAIN q}
Distinct(q) == \A i, j \in DOMAIN q : q[i].id = q[j].id => i = j
Ticketed(q, tickets) == \A i \in DOMAIN q : TicketOf(q[i], tickets)

\* The requests of the bursts the bridge has taken.
Inside(m) == [i \in DOMAIN m.bursts |-> m.bursts[i].req]

Tagged(s, inside) ==
    /\ Distinct(s.req) /\ Distinct(inside) /\ Distinct(s.rsp)
    /\ Ids(s.req) \cap Ids(inside) = {}
    /\ Ids(s.req) \cap Ids(s.rsp) = {}
    /\ Ids(inside) \cap Ids(s.rsp) = {}
    /\ DOMAIN s.tickets = Ids(s.req) \cup Ids(inside) \cup Ids(s.rsp)
    /\ Ticketed(s.req, s.tickets) /\ Ticketed(inside, s.tickets) /\ Ticketed(s.rsp, s.tickets)

DmaTickets(s) == {t \in DOMAIN s.tickets : s.tickets[t].dma}

\* The engine has one access at a time: offered, half of it latched, or in one
\* place on its way.
DmaTurn(s, access, wants) ==
    /\ wants \subseteq IF access.write THEN {"AW", "W"} ELSE {"AR"}
    /\ s.aw \/ s.w => access.write
    /\ s.aw => "AW" \notin wants
    /\ s.w => "W" \notin wants
    /\ ~(s.aw /\ s.w)
    /\ wants # {} \/ s.aw \/ s.w => access # NoAccess /\ ~s.dactive
    /\ s.dactive => access # NoAccess
    /\ s.dreq # <<>> \/ s.drsp # <<>> \/ DmaTickets(s) # {} => s.dactive
    /\ s.dreq # <<>> => s.drsp = <<>> /\ Len(s.dreq) = 1
    /\ s.drsp # <<>> => Len(s.drsp) = 1
    /\ s.dreq # <<>> \/ s.drsp # <<>> => DmaTickets(s) = {}
    /\ \A t, u \in DmaTickets(s) : t = u

\* What holds between the stages of an edge, too.
Flow(s, inside, access, wants) ==
    s \in Adapters /\ Tagged(s, inside) /\ DmaTurn(s, access, wants)

PathInv == PathType /\ Tagged(ad, Inside(mem)) /\ DmaTurn(ad, rtl.access, rtl.wants)

-----------------------------------------------------------------------------
(* The tags in use                                                           *)

\* A tag joins the end of a queue, and leaves at its head.
LEMMA IdsAppend ==
    ASSUME NEW S, NEW q \in Seq(S), NEW x \in S, Distinct(q), x.id \notin Ids(q)
    PROVE  /\ Distinct(Append(q, x))
           /\ Ids(Append(q, x)) = Ids(q) \cup {x.id}
  BY DEF Distinct, Ids

\* The tags of a queue that its first left.
LEMMA IdsTail ==
    ASSUME NEW S, NEW q \in Seq(S), q # <<>>, Distinct(q)
    PROVE  /\ Distinct(Tail(q))
           /\ Ids(Tail(q)) = Ids(q) \ {Head(q).id}
           /\ Head(q).id \in Ids(q)
           /\ Head(q) \in S
  <1>1. /\ Len(q) \in Nat \ {0} /\ DOMAIN q = 1 .. Len(q)
        /\ DOMAIN Tail(q) = 1 .. Len(q) - 1
        /\ \A i \in 1 .. Len(q) - 1 : Tail(q)[i] = q[i + 1]
        /\ Head(q) = q[1] /\ q[1] \in S
    OBVIOUS
  <1>2. Distinct(Tail(q)) /\ Head(q).id \in Ids(q)
    BY <1>1 DEF Distinct, Ids
  <1>3. Ids(Tail(q)) \subseteq Ids(q) \ {Head(q).id}
    BY <1>1 DEF Distinct, Ids
  <1>4. ASSUME NEW i \in DOMAIN q, q[i].id # Head(q).id
        PROVE  q[i].id \in Ids(Tail(q))
    <2>1. i - 1 \in DOMAIN Tail(q) /\ Tail(q)[i - 1] = q[i]
      BY <1>1, <1>4
    <2> QED
      BY <2>1 DEF Ids
  <1>5. Ids(q) \ {Head(q).id} \subseteq Ids(Tail(q))
    BY <1>4, Zenon DEF Ids
  <1>6. Ids(Tail(q)) = Ids(q) \ {Head(q).id}
    BY <1>3, <1>5
  <1> QED
    BY <1>1, <1>2, <1>6

\* What a table of tickets is.
LEMMA TableIs ==
    ASSUME NEW tk
    PROVE  tk \in TicketTables <=>
               DOMAIN tk \subseteq 1 .. Tags /\ tk \in [DOMAIN tk -> Tickets]
  BY DEF TicketTables

\* The tickets are finitely many.
LEMMA FewTickets ==
    ASSUME NEW tk \in TicketTables
    PROVE  IsFiniteSet(DOMAIN tk) /\ Cardinality(DOMAIN tk) \in Nat
  <1>1. IsFiniteSet(1 .. Tags)
    BY AdapterAssumption, FS_Interval
  <1>2. DOMAIN tk \subseteq 1 .. Tags
    BY TableIs
  <1> QED
    BY <1>1, <1>2, FS_Subset, FS_CardinalityType

\* A set of numbers has a least one.
LEMMA LeastNumber ==
    ASSUME NEW T \in SUBSET Nat, T # {}
    PROVE  \E x \in T : \A y \in T : x <= y
  <1> DEFINE Less == OpToRel(<, Nat)
  <1>1. IsWellFoundedOn(Less, Nat)
    BY NatLessThanWellFounded
  <1>2. \A x, y \in Nat : y < x => <<y, x>> \in Less
    <2>1. Less = {p \in Nat \X Nat : p[1] < p[2]}
      BY DEF OpToRel
    <2> QED
      BY <2>1
  <1> HIDE DEF Less
  <1>3. PICK x \in T : \A y \in T : <<y, x>> \notin Less
    BY <1>1, WFMin, Zenon
  <1>4. \A y \in T : ~(y < x)
    BY <1>2, <1>3
  <1> QED
    BY <1>4

\* A tag is free when there may be one more ticket, and it is the tag found.
LEMMA FreeTagIsFree ==
    ASSUME NEW s \in Adapters, Cardinality(DOMAIN s.tickets) < TagLimit
    PROVE  FreeTag(s) \in (1 .. Tags) \ DOMAIN s.tickets
  <1> DEFINE free == (1 .. Tags) \ DOMAIN s.tickets
             distance(t) == (t + Tags - s.next) % Tags
  <1>1. /\ Tags \in Nat \ {0} /\ TagLimit \in Nat /\ TagLimit <= Tags
        /\ s.next \in 1 .. Tags /\ s.tickets \in TicketTables
    BY AdapterAssumption DEF Adapters
  <1>2. free # {}
    <2>1. SUFFICES ASSUME free = {} PROVE FALSE
      OBVIOUS
    <2>2. DOMAIN s.tickets = 1 .. Tags
      BY <2>1, <1>1, TableIs
    <2> QED
      BY <2>2, <1>1, FS_Interval
  <1>3. \A t \in free : distance(t) \in Nat
    BY <1>1
  <1>4. PICK t \in free : \A u \in free : distance(t) <= distance(u)
    <2> DEFINE D == {distance(t) : t \in free}
    <2>1. D # {} /\ D \in SUBSET Nat
      BY <1>2, <1>3
    <2> HIDE DEF D
    <2>2. PICK d \in D : \A e \in D : d <= e
      BY <2>1, LeastNumber
    <2> QED
      BY <2>2 DEF D
  <1> QED
    BY <1>4 DEF FreeTag

-----------------------------------------------------------------------------
(* The stages of an edge                                                     *)

KeepsMemory(s, t) == t.req = s.req /\ t.rsp = s.rsp /\ t.tickets = s.tickets
KeepsDma(s, t) ==
    t.aw = s.aw /\ t.w = s.w /\ t.dreq = s.dreq /\ t.drsp = s.drsp /\ t.dactive = s.dactive

\* A stage that leaves the memory and the engine alone.
LEMMA HostAlone ==
    ASSUME NEW s, NEW t, NEW inside, NEW access, NEW wants,
           Flow(s, inside, access, wants), t \in Adapters, KeepsMemory(s, t), KeepsDma(s, t)
    PROVE  Flow(t, inside, access, wants)
  BY DEF Flow, KeepsMemory, KeepsDma, Tagged, DmaTurn, DmaTickets

\* A register access is answered as its request asks.
LEMMA RegisterAnswer ==
    ASSUME NEW r \in RegisterBound
    PROVE  HostAnswer(r, IF r.lock THEN 2 ELSE 0, <<>>) \in HostReturns
  BY DEF RegisterBound, HostRequests, Request, HostAnswer, HostReturns, Returns, Matches,
         OKAY, SLVERR, DECERR

\* slave_handshakes touches neither the memory's side nor the engine's.
LEMMA SlaveFlow ==
    ASSUME NEW s, NEW inside, NEW access, NEW wants, NEW moves,
           Flow(s, inside, access, wants)
    PROVE  /\ Flow(SlaveHandshakes(s, moves), inside, access, wants)
           /\ KeepsDma(s, SlaveHandshakes(s, moves))
  <1> DEFINE t == SlaveHandshakes(s, moves)
  <1>1. CASE s.mmio = <<>>
    BY <1>1 DEF SlaveHandshakes, KeepsDma
  <1>2. CASE s.mmio # <<>>
    <2> DEFINE m == s.mmio[1]
               beats == Len(m.req.lines)
               answers0 == /\ "answer" \in moves /\ m.addr /\ HasRoom(s) /\ ~m.complete
                           /\ m.req.write => m.sent = beats
               got == IF answers0 THEN m.got + 1 ELSE m.got
               addr == m.addr \/ "address" \in moves
               sent == IF m.req.write /\ m.sent < beats /\ "beat" \in moves
                       THEN m.sent + 1 ELSE m.sent
               complete == m.complete \/ (answers0 /\ (m.req.write \/ got = beats))
               after == [m EXCEPT !.addr = addr, !.sent = sent, !.got = got,
                                  !.complete = complete]
    <2>1. s \in Adapters /\ m \in Registers
      BY <1>2 DEF Flow, Adapters
    <2>2. after \in Registers
      <3>1. got \in Nat /\ sent \in Nat
        BY <2>1 DEF Registers
      <3>2. addr \in BOOLEAN /\ complete \in BOOLEAN
        OBVIOUS
      <3> HIDE DEF m, got, sent, addr, complete
      <3> QED
        BY <2>1, <3>1, <3>2 DEF Registers
    <2>3. HostAnswer(m.req, 0, <<>>) \in HostReturns
      BY <2>1, RegisterAnswer DEF Registers
    <2>4. \/ t = [s EXCEPT !.mmio = <<>>,
                          !.completed = Append(@, HostAnswer(m.req, 0, <<>>))]
          \/ t = [s EXCEPT !.mmio = <<after>>]
      BY <1>2, Zenon DEF SlaveHandshakes
    <2>5. t \in Adapters /\ KeepsMemory(s, t) /\ KeepsDma(s, t)
      <3>1. /\ Append(s.completed, HostAnswer(m.req, 0, <<>>)) \in Seq(HostReturns)
            /\ <<>> \in Seq(Registers) /\ <<after>> \in Seq(Registers)
        BY <2>1, <2>2, <2>3 DEF Adapters
      <3> HIDE DEF m, after, t
      <3> QED
        BY <2>1, <3>1, <2>4, ZenonT(60) DEF Adapters, KeepsMemory, KeepsDma
    <2> QED
      BY <2>5, HostAlone
  <1> QED
    BY <1>1, <1>2

\* The oldest answer goes to the host's FIFO; its group is free.
LEMMA HostResponseFlow ==
    ASSUME NEW s, NEW inside, NEW access, NEW wants, Flow(s, inside, access, wants)
    PROVE  Flow(HostResponse(s), inside, access, wants)
  <1> DEFINE t == HostResponse(s)
  <1>1. CASE s.completed = <<>> \/ Len(s.hrsp) = Depth
    BY <1>1 DEF HostResponse
  <1>2. CASE ~(s.completed = <<>> \/ Len(s.hrsp) = Depth)
    <2>1. s \in Adapters /\ Head(s.completed) \in HostReturns
      BY <1>2 DEF Flow, Adapters
    <2>2. t = [s EXCEPT !.hrsp = Append(@, Head(s.completed)),
                        !.groups = @ \ {Group(Head(s.completed))}, !.completed = Tail(@)]
      BY <1>2 DEF HostResponse
    <2>3. t \in Adapters /\ KeepsMemory(s, t) /\ KeepsDma(s, t)
      <3>1. /\ Append(s.hrsp, Head(s.completed)) \in Seq(HostReturns)
            /\ Tail(s.completed) \in Seq(HostReturns)
            /\ s.groups \ {Group(Head(s.completed))} \in SUBSET (BOOLEAN \X Nat \X Nat)
        BY <1>2, <2>1 DEF Adapters
      <3> HIDE DEF t
      <3> QED
        BY <2>1, <2>2, <3>1 DEF Adapters, KeepsMemory, KeepsDma
    <2> QED
      BY <2>3, HostAlone
  <1> QED
    BY <1>1, <1>2

\* A request is read from the host's FIFO.
LEMMA ReadFlow ==
    ASSUME NEW s, NEW inside, NEW access, NEW wants, Flow(s, inside, access, wants)
    PROVE  Flow(Read(s), inside, access, wants)
  <1> DEFINE t == Read(s)
  <1>1. CASE Len(s.pending) = QueueLimit \/ s.hreq = <<>>
    BY <1>1 DEF Read
  <1>2. CASE ~(Len(s.pending) = QueueLimit \/ s.hreq = <<>>)
    <2>1. t = [s EXCEPT !.pending = Append(@, Head(s.hreq)), !.hreq = Tail(@)]
      BY <1>2 DEF Read
    <2>2. t \in Adapters /\ KeepsMemory(s, t) /\ KeepsDma(s, t)
      <3>1. s \in Adapters
        BY DEF Flow
      <3>2. /\ Append(s.pending, Head(s.hreq)) \in Seq(HostRequests)
            /\ Tail(s.hreq) \in Seq(HostRequests)
        BY <1>2, <3>1 DEF Adapters
      <3> HIDE DEF t
      <3> QED
        BY <2>1, <3>1, <3>2 DEF Adapters, KeepsMemory, KeepsDma
    <2> QED
      BY <2>2, HostAlone
  <1> QED
    BY <1>1, <1>2

\* A request is answered at once, or goes to the registers or past the engine.
LEMMA SortedFlow ==
    ASSUME NEW s, NEW inside, NEW access, NEW wants, Flow(s, inside, access, wants)
    PROVE  Flow(Sorted(s), inside, access, wants)
  <1> DEFINE t == Sorted(s)
             r == Head(s.pending)
  <1>1. CASE s.pending = <<>> \/ ~Admissible(s, r)
    BY <1>1 DEF Sorted
  <1>2. CASE ~(s.pending = <<>> \/ ~Admissible(s, r))
    <2>1. s \in Adapters /\ r \in HostRequests
      BY <1>2 DEF Flow, Adapters
    <2>4. Group(r) \in BOOLEAN \X Nat \X Nat
      BY <2>1 DEF HostRequests, Group
    <2>2. \/ r.mmio /\ t = [s EXCEPT !.groups = @ \union {Group(r)}, !.pending = Tail(@),
                                    !.mmio_wait = Append(@, r)]
          \/ ~r.mmio /\ t = [s EXCEPT !.groups = @ \union {Group(r)}, !.pending = Tail(@),
                                     !.bypass = Append(@, r)]
      BY <1>2, <2>1 DEF Sorted, Adapters
    <2>3. t \in Adapters /\ KeepsMemory(s, t) /\ KeepsDma(s, t)
      <3> HIDE DEF t
      <3>1. r.mmio => Append(s.mmio_wait, r) \in Seq(RegisterBound)
        BY <2>1 DEF Adapters, RegisterBound
      <3>2. ~r.mmio => Append(s.bypass, r) \in Seq(MemoryBound)
        BY <2>1 DEF Adapters, MemoryBound
      <3>3. Tail(s.pending) \in Seq(HostRequests)
        BY <1>2, <2>1 DEF Adapters
      <3>4. s.groups \union {Group(r)} \in SUBSET (BOOLEAN \X Nat \X Nat)
        BY <2>1, <2>4 DEF Adapters
      <3> HIDE DEF r
      <3>5. PICK g : g = s.groups \union {Group(r)} /\ g \in SUBSET (BOOLEAN \X Nat \X Nat)
        BY <3>4
      <3>6. PICK p : p = Tail(s.pending) /\ p \in Seq(HostRequests)
        BY <3>3
      <3>7. CASE r.mmio
        <4>1. PICK x : x = Append(s.mmio_wait, r) /\ x \in Seq(RegisterBound)
          BY <3>1, <3>7
        <4>2. t = [s EXCEPT !.groups = g, !.pending = p, !.mmio_wait = x]
          BY <2>2, <3>5, <3>6, <3>7, <4>1
        <4> QED
          BY <2>1, <3>5, <3>6, <4>1, <4>2 DEF Adapters, KeepsMemory, KeepsDma
      <3>8. CASE ~r.mmio
        <4>1. PICK x : x = Append(s.bypass, r) /\ x \in Seq(MemoryBound)
          BY <3>2, <3>8
        <4>2. t = [s EXCEPT !.groups = g, !.pending = p, !.bypass = x]
          BY <2>2, <3>5, <3>6, <3>8, <4>1
        <4> QED
          BY <2>1, <3>5, <3>6, <4>1, <4>2 DEF Adapters, KeepsMemory, KeepsDma
      <3> QED
        BY <3>7, <3>8
    <2> QED
      BY <2>3, HostAlone
  <1> QED
    BY <1>1, <1>2

\* A register access is begun.
LEMMA BegunFlow ==
    ASSUME NEW s, NEW inside, NEW access, NEW wants, Flow(s, inside, access, wants)
    PROVE  Flow(Begun(s), inside, access, wants)
  <1> DEFINE t == Begun(s)
             r == Head(s.mmio_wait)
             begun == [req |-> r, addr |-> FALSE, sent |-> 0, got |-> 0, complete |-> FALSE]
  <1>1. CASE s.mmio # <<>> \/ s.mmio_wait = <<>> \/ (r.lock /\ ~HasRoom(s))
    BY <1>1 DEF Begun
  <1>2. CASE ~(s.mmio # <<>> \/ s.mmio_wait = <<>> \/ (r.lock /\ ~HasRoom(s)))
    <2>1. s \in Adapters /\ r \in RegisterBound
      BY <1>2 DEF Flow, Adapters
    <2>6. r.lock \in BOOLEAN
      BY <2>1 DEF RegisterBound, HostRequests
    <2>2. \/ r.lock /\ t = [s EXCEPT !.completed = Append(@, HostAnswer(r, 2, <<>>)),
                                    !.mmio_wait = Tail(@)]
          \/ ~r.lock /\ t = [s EXCEPT !.mmio = <<begun>>, !.mmio_wait = Tail(@)]
      BY <1>2, <2>6 DEF Begun
    <2>3. r.lock => HostAnswer(r, 2, <<>>) \in HostReturns
      BY <2>1, RegisterAnswer
    <2>4. ~r.lock => begun \in Registers
      BY <2>1 DEF Registers
    <2>5. t \in Adapters /\ KeepsMemory(s, t) /\ KeepsDma(s, t)
      <3>1. r.lock => Append(s.completed, HostAnswer(r, 2, <<>>)) \in Seq(HostReturns)
        BY <2>1, <2>3 DEF Adapters
      <3>2. ~r.lock => <<begun>> \in Seq(Registers)
        BY <2>4
      <3>3. Tail(s.mmio_wait) \in Seq(RegisterBound)
        BY <1>2, <2>1 DEF Adapters
      <3> HIDE DEF t, begun, r
      <3> QED
        BY <2>1, <2>2, <3>1, <3>2, <3>3, ZenonT(60) DEF Adapters, KeepsMemory, KeepsDma
    <2> QED
      BY <2>5, HostAlone
  <1> QED
    BY <1>1, <1>2

\* queue_host as a whole.
LEMMA QueueHostFlow ==
    ASSUME NEW s, NEW inside, NEW access, NEW wants, Flow(s, inside, access, wants)
    PROVE  Flow(QueueHost(s), inside, access, wants)
  <1>1. QueueHost(s) = Begun(Sorted(Read(s)))
    <2>1. {Begun(b) : b \in {Sorted(a) : a \in {Read(s)}}} = {Begun(Sorted(Read(s)))}
      OBVIOUS
    <2> QED
      BY <2>1 DEF QueueHost
  <1> QED
    BY <1>1, ReadFlow, SortedFlow, BegunFlow

\* The engine's offers: both halves of a write, or a read, make a request.
LEMMA MasterRequestsFlow ==
    ASSUME NEW s, NEW inside, NEW access \in Accesses \cup {NoAccess}, NEW wants,
           NEW shows \in SUBSET wants, Flow(s, inside, access, wants)
    PROVE  /\ Flow(MasterRequests(s, shows, access), inside, access,
                   IF s.dactive THEN wants ELSE wants \ shows)
           /\ MasterRequests(s, shows, access).drsp = s.drsp
  <1> DEFINE t == MasterRequests(s, shows, access)
             left == IF s.dactive THEN wants ELSE wants \ shows
             aw == s.aw \/ ("AW" \in shows /\ ~s.dactive)
             w == s.w \/ ("W" \in shows /\ ~s.dactive)
             ar == "AR" \in shows /\ ~s.dactive /\ ~s.aw /\ ~s.w
  <1>1. /\ s \in Adapters /\ s.aw \in BOOLEAN /\ s.w \in BOOLEAN /\ s.dactive \in BOOLEAN
        /\ Tagged(s, inside) /\ DmaTurn(s, access, wants)
    BY DEF Flow, Adapters
  <1>2. aw \in BOOLEAN /\ w \in BOOLEAN
    BY <1>1
  <1>3. CASE ar \/ (aw /\ w)
    <2>1. t = [s EXCEPT !.aw = FALSE, !.w = FALSE, !.dreq = <<access>>, !.dactive = TRUE]
      BY <1>3, Zenon DEF MasterRequests
    <2>2. ~s.dactive /\ access # NoAccess
      BY <1>1, <1>3 DEF DmaTurn
    <2>3. left = {}
      BY <1>1, <1>3, <2>2 DEF DmaTurn
    <2>4. <<access>> \in Seq(Accesses) /\ <<access>> # <<>> /\ Len(<<access>>) = 1
      BY <2>2
    <2>5. t \in Adapters /\ KeepsMemory(s, t) /\ t.drsp = s.drsp
      <3> HIDE DEF t
      <3> QED
        BY <1>1, <2>1, <2>4 DEF Adapters, KeepsMemory
    <2>6. t.aw = FALSE /\ t.w = FALSE /\ t.dreq = <<access>> /\ t.dactive = TRUE
      <3> HIDE DEF t
      <3> QED
        BY <1>1, <2>1 DEF Adapters
    <2> HIDE DEF t, left
    <2>7. Tagged(t, inside)
      BY <1>1, <2>5 DEF Tagged, KeepsMemory
    <2>8. DmaTurn(t, access, left)
      BY <1>1, <2>2, <2>3, <2>4, <2>5, <2>6 DEF DmaTurn, KeepsMemory, DmaTickets
    <2> QED
      BY <2>5, <2>7, <2>8 DEF Flow, left, t
  <1>4. CASE ~(ar \/ (aw /\ w))
    <2>1. t = [s EXCEPT !.aw = aw, !.w = w]
      BY <1>4, Zenon DEF MasterRequests
    <2>2. t \in Adapters /\ KeepsMemory(s, t) /\ t.drsp = s.drsp
      <3> HIDE DEF t, aw, w
      <3> QED
        BY <1>1, <1>2, <2>1 DEF Adapters, KeepsMemory
    <2>3. t.aw = aw /\ t.w = w /\ t.dreq = s.dreq /\ t.dactive = s.dactive
      <3> HIDE DEF t, aw, w
      <3> QED
        BY <1>1, <2>1 DEF Adapters
    <2> HIDE DEF t
    <2>4. Tagged(t, inside)
      BY <1>1, <2>2 DEF Tagged, KeepsMemory
    <2>5. left \subseteq wants /\ (aw => "AW" \notin left) /\ (w => "W" \notin left)
      BY <1>1 DEF DmaTurn
    <2>6. /\ (aw \/ w => access.write)
          /\ (left # {} \/ aw \/ w => access # NoAccess /\ ~s.dactive)
      BY <1>1, <2>5 DEF DmaTurn
    <2> HIDE DEF aw, w, left
    <2>7. DmaTurn(t, access, left)
      BY <1>1, <1>4, <2>2, <2>3, <2>5, <2>6 DEF DmaTurn, KeepsMemory, DmaTickets
    <2> QED
      BY <2>2, <2>4, <2>7 DEF Flow, left, t
  <1> QED
    BY <1>3, <1>4

\* The engine takes its answer.
LEMMA MasterAnswerFlow ==
    ASSUME NEW s, NEW inside, NEW access, NEW wants, Flow(s, inside, access, wants)
    PROVE  /\ Flow(MasterAnswer(s), inside, access, wants)
           /\ s.drsp # <<>> => wants = {} /\ Flow(MasterAnswer(s), inside, NoAccess, wants)
  <1> DEFINE t == MasterAnswer(s)
  <1>1. CASE s.drsp = <<>>
    BY <1>1 DEF MasterAnswer
  <1>2. CASE s.drsp # <<>>
    <2>1. s \in Adapters /\ Tagged(s, inside) /\ DmaTurn(s, access, wants)
      BY DEF Flow
    <2>2. t = [s EXCEPT !.drsp = <<>>, !.dactive = FALSE]
      BY <1>2 DEF MasterAnswer
    <2>3. t \in Adapters /\ KeepsMemory(s, t)
      <3>1. <<>> \in Seq(DmaReturns)
        OBVIOUS
      <3> HIDE DEF t
      <3> QED
        BY <2>1, <2>2, <3>1 DEF Adapters, KeepsMemory
    <2>4. t.aw = s.aw /\ t.w = s.w /\ t.dreq = s.dreq /\ t.drsp = <<>> /\ t.dactive = FALSE
      <3> HIDE DEF t
      <3> QED
        BY <2>1, <2>2 DEF Adapters
    <2> HIDE DEF t
    <2>5. Tagged(t, inside)
      BY <2>1, <2>3 DEF Tagged, KeepsMemory
    <2>6. /\ wants = {} /\ ~s.aw /\ ~s.w /\ s.dreq = <<>>
          /\ DmaTickets(t) = {}
      BY <1>2, <2>1, <2>3 DEF DmaTurn, KeepsMemory, DmaTickets
    <2>7. DmaTurn(t, access, wants) /\ DmaTurn(t, NoAccess, wants)
      BY <2>4, <2>6 DEF DmaTurn, NoAccess
    <2> QED
      BY <2>3, <2>5, <2>6, <2>7 DEF Flow, t
  <1> QED
    BY <1>1, <1>2

-----------------------------------------------------------------------------
(* The stages that meet the memory                                           *)

\* A change of other tickets leaves those of a queue alone.
LEMMA TicketedStays ==
    ASSUME NEW q, NEW old, NEW new, Ticketed(q, old),
           \A x \in Ids(q) : x \in DOMAIN new /\ new[x] = old[x]
    PROVE  Ticketed(q, new)
  BY DEF Ticketed, TicketOf, Ids

\* The ticket gives the answer its owner back.
LEMMA OwnerFound ==
    ASSUME OpsType, NEW a \in MemAnswers, NEW tickets \in TicketTables, TicketOf(a, tickets)
    PROVE  LET t == tickets[a.id]
               owned == [op |-> a.op, write |-> a.write, rp |-> t.rp, id |-> t.id,
                         resp |-> a.resp, beats |-> a.beats, got |-> a.got]
           IN  /\ a.id \in DOMAIN tickets /\ t \in Tickets /\ t.dma \in BOOLEAN
               /\ t.dma => owned \in DmaReturns
               /\ ~t.dma => owned \in HostReturns
  <1> DEFINE t == tickets[a.id]
             owned == [op |-> a.op, write |-> a.write, rp |-> t.rp, id |-> t.id,
                       resp |-> a.resp, beats |-> a.beats, got |-> a.got]
  <1>1. a.id \in DOMAIN tickets /\ t \in Tickets
    BY TableIs DEF TicketOf
  <1>2. /\ t.dma = ops[a.op].dma
        /\ ~t.dma => t.rp = ops[a.op].shape.rp /\ t.id = ops[a.op].shape.id
    BY DEF TicketOf
  <1>3. owned \in [op : Nat, write : BOOLEAN, rp : Nat, id : Nat, resp : Nat, beats : Nat,
                   got : Seq(Nat)]
    BY <1>1 DEF Tickets, MemAnswers
  <1>4. a.op \in DOMAIN ops /\ Matches(owned, ops[a.op])
    BY <1>2 DEF MemAnswers, Matches
  <1>5. owned \in Returns /\ owned.op = a.op
    BY <1>3, <1>4 DEF Returns
  <1> QED
    BY <1>1, <1>2, <1>5 DEF Tickets, DmaReturns, HostReturns

\* An answer of the memory gives its ticket back.
LEMMA MemoryReturnFlow ==
    ASSUME OpsType, NEW s, NEW inside, NEW access, NEW wants,
           Flow(s, inside, access, wants)
    PROVE  Flow(MemoryReturn(s), inside, access, wants)
  <1> DEFINE u == MemoryReturn(s)
  <1>1. CASE ~HasRoom(s) \/ s.drsp # <<>> \/ s.rsp = <<>>
    BY <1>1 DEF MemoryReturn
  <1>2. CASE ~(~HasRoom(s) \/ s.drsp # <<>> \/ s.rsp = <<>>)
    <2> DEFINE a == Head(s.rsp)
               t == s.tickets[a.id]
               owned == [op |-> a.op, write |-> a.write, rp |-> t.rp, id |-> t.id,
                         resp |-> a.resp, beats |-> a.beats, got |-> a.got]
               rest == Restrict(s.tickets, DOMAIN s.tickets \ {a.id})
    <2>1. s \in Adapters /\ Tagged(s, inside) /\ DmaTurn(s, access, wants)
      BY DEF Flow
    <2>2. s.rsp \in Seq(MemAnswers) /\ s.rsp # <<>> /\ s.drsp = <<>> /\ s.tickets \in TicketTables
      BY <1>2, <2>1 DEF Adapters
    <2>3. a \in MemAnswers /\ TicketOf(a, s.tickets)
      BY <2>1, <2>2 DEF Tagged, Ticketed
    <2>4. /\ a.id \in DOMAIN s.tickets /\ t \in Tickets /\ t.dma \in BOOLEAN
          /\ t.dma => owned \in DmaReturns
          /\ ~t.dma => owned \in HostReturns
      BY <2>2, <2>3, OwnerFound
    <2>5. /\ DOMAIN rest = DOMAIN s.tickets \ {a.id}
          /\ \A x \in DOMAIN rest : rest[x] = s.tickets[x]
          /\ rest \in TicketTables
      <3>1. rest = [x \in DOMAIN s.tickets \ {a.id} |-> s.tickets[x]]
        BY DEF Restrict
      <3>2. s.tickets \in [DOMAIN s.tickets -> Tickets] /\ DOMAIN s.tickets \subseteq 1 .. Tags
        BY <2>2, TableIs
      <3> HIDE DEF rest
      <3>3. rest \in [DOMAIN rest -> Tickets] /\ DOMAIN rest \subseteq 1 .. Tags
        BY <3>1, <3>2
      <3> QED
        BY <3>1, <3>3, TableIs
    <2>6. \/ t.dma /\ u = [s EXCEPT !.rsp = Tail(@), !.tickets = rest, !.drsp = <<owned>>]
          \/ ~t.dma /\ u = [s EXCEPT !.rsp = Tail(@), !.tickets = rest,
                                    !.completed = Append(@, owned)]
      BY <1>2, <2>1, <2>4 DEF MemoryReturn, Adapters
    <2>7. /\ Tail(s.rsp) \in Seq(MemAnswers)
          /\ t.dma => <<owned>> \in Seq(DmaReturns)
          /\ ~t.dma => Append(s.completed, owned) \in Seq(HostReturns)
      BY <2>1, <2>2, <2>4 DEF Adapters
    <2>8. /\ u \in Adapters
          /\ u.req = s.req /\ u.rsp = Tail(s.rsp) /\ u.tickets = rest
          /\ u.aw = s.aw /\ u.w = s.w /\ u.dreq = s.dreq /\ u.dactive = s.dactive
          /\ u.drsp = IF t.dma THEN <<owned>> ELSE <<>>
      <3> HIDE DEF u, t, owned, rest
      <3> QED
        BY <2>1, <2>2, <2>5, <2>6, <2>7, ZenonT(60) DEF Adapters
    <2> HIDE DEF u, rest
    <2>9. Tagged(u, inside)
      <3>1. /\ Distinct(Tail(s.rsp)) /\ Ids(Tail(s.rsp)) = Ids(s.rsp) \ {a.id}
            /\ a.id \in Ids(s.rsp)
        BY <2>1, <2>2, IdsTail DEF Tagged
      <3>2. /\ DOMAIN s.tickets = Ids(s.req) \cup Ids(inside) \cup Ids(s.rsp)
            /\ a.id \notin Ids(s.req) /\ a.id \notin Ids(inside)
        BY <2>1, <3>1 DEF Tagged
      <3>3. /\ \A x \in Ids(s.req) : x \in DOMAIN rest /\ rest[x] = s.tickets[x]
            /\ \A x \in Ids(inside) : x \in DOMAIN rest /\ rest[x] = s.tickets[x]
            /\ \A x \in Ids(Tail(s.rsp)) : x \in DOMAIN rest /\ rest[x] = s.tickets[x]
        BY <2>5, <3>1, <3>2
      <3>4. Ticketed(s.req, rest) /\ Ticketed(inside, rest)
        BY <2>1, <3>3, TicketedStays DEF Tagged
      <3>5. Ticketed(Tail(s.rsp), s.tickets)
        BY <2>1, <2>2 DEF Tagged, Ticketed
      <3>6. Ticketed(Tail(s.rsp), rest)
        BY <3>3, <3>5, TicketedStays
      <3> QED
        BY <2>1, <2>5, <2>8, <3>1, <3>2, <3>4, <3>6, ZenonT(60) DEF Tagged
    <2>10. DmaTurn(u, access, wants)
      <3>1. DmaTickets(u) = DmaTickets(s) \ {a.id} /\ (t.dma <=> a.id \in DmaTickets(s))
        BY <2>4, <2>5, <2>8 DEF DmaTickets
      <3>2. t.dma => DmaTickets(s) # {} /\ DmaTickets(u) = {}
        BY <2>1, <3>1 DEF DmaTurn
      <3>3. ~t.dma => DmaTickets(u) = DmaTickets(s)
        BY <3>1
      <3>4. <<owned>> # <<>> /\ Len(<<owned>>) = 1
        OBVIOUS
      <3> HIDE DEF t, owned, a
      <3>5. CASE t.dma
        BY <2>1, <2>2, <2>8, <3>2, <3>4, <3>5 DEF DmaTurn
      <3>6. CASE ~t.dma
        BY <2>1, <2>2, <2>8, <3>3, <3>6 DEF DmaTurn
      <3> QED
        BY <3>5, <3>6
    <2> QED
      BY <2>8, <2>9, <2>10 DEF Flow, u
  <1> QED
    BY <1>1, <1>2

\* What an access that was issued is.
LEMMA OpsAre ==
    ASSUME OpsType, NEW i \in DOMAIN ops
    PROVE  /\ ops[i].dma \in BOOLEAN
           /\ ops[i].shape \in IF ops[i].dma THEN DmaShapes ELSE HostShapes
  <1>1. ops[i] \in Issues
    BY DEF OpsType
  <1> QED
    BY <1>1 DEF OpsType, Issues

\* What is issued asks of the memory what was asked of the adapter.
LEMMA IssuedAsks ==
    ASSUME OpsType, NEW r \in Accesses \cup MemoryBound, NEW tag \in 1 .. Tags
    PROVE  /\ [op |-> r.op, id |-> tag, write |-> r.write, lines |-> r.lines,
               lock |-> r.lock] \in MemRequests
           /\ [dma |-> r \in Accesses, write |-> r.write, rp |-> r.rp, id |-> r.id] \in Tickets
           /\ r.op \in DOMAIN ops
           /\ r \in Accesses <=> ops[r.op].dma
           /\ r.write = ops[r.op].shape.write
           /\ r \notin Accesses => r.rp = ops[r.op].shape.rp /\ r.id = ops[r.op].shape.id
  <1>1. tag \in Nat
    BY AdapterAssumption
  <1>2. CASE r \in Accesses
    BY <1>1, <1>2 DEF Accesses, Access, MemRequests, Tickets
  <1>3. CASE r \in MemoryBound
    <2>1. r \notin Accesses
      BY <1>3 DEF MemoryBound, HostRequests, Accesses
    <2> QED
      BY <1>1, <1>3, <2>1 DEF MemoryBound, HostRequests, Request, MemRequests, Tickets
  <1> QED
    BY <1>2, <1>3

\* A request of the host or of the engine gets a ticket.
LEMMA MemoryIssueFlow ==
    ASSUME OpsType, NEW s, NEW inside, NEW access, NEW wants,
           Flow(s, inside, access, wants)
    PROVE  Flow(MemoryIssue(s), inside, access, wants)
  <1> DEFINE u == MemoryIssue(s)
             dma == s.dreq # <<>> /\ (s.prefer \/ s.bypass = <<>>)
             r == IF dma THEN s.dreq[1] ELSE Head(s.bypass)
             tag == FreeTag(s)
             next == (tag % Tags) + 1
             asked == [op |-> r.op, id |-> tag, write |-> r.write, lines |-> r.lines,
                       lock |-> r.lock]
             ticket == [dma |-> dma, write |-> r.write, rp |-> r.rp, id |-> r.id]
             table == [x \in DOMAIN s.tickets \union {tag} |->
                          IF x = tag THEN ticket ELSE s.tickets[x]]
             queue == Append(s.req, asked)
  <1>1. s \in Adapters /\ Tagged(s, inside) /\ DmaTurn(s, access, wants)
    BY DEF Flow
  <1>2. CASE Cardinality(DOMAIN s.tickets) >= TagLimit \/ (~dma /\ s.bypass = <<>>)
    BY <1>2, Zenon DEF MemoryIssue
  <1>3. CASE ~(Cardinality(DOMAIN s.tickets) >= TagLimit \/ (~dma /\ s.bypass = <<>>))
    <2>1. s.tickets \in TicketTables
      BY <1>1 DEF Adapters
    <2>2. tag \in (1 .. Tags) \ DOMAIN s.tickets
      <3>1. Cardinality(DOMAIN s.tickets) < TagLimit
        BY <1>3, <2>1, FewTickets, AdapterAssumption
      <3> QED
        BY <1>1, <3>1, FreeTagIsFree
    <2>3. next \in 1 .. Tags
      BY <2>2, AdapterAssumption
    <2>4. CASE Len(s.req) = Depth
      <3>1. u = [s EXCEPT !.next = next]
        BY <1>3, <2>4, Zenon DEF MemoryIssue
      <3>2. u \in Adapters /\ KeepsMemory(s, u) /\ KeepsDma(s, u)
        <4> HIDE DEF u, next
        <4> QED
          BY <1>1, <2>3, <3>1 DEF Adapters, KeepsMemory, KeepsDma
      <3> QED
        BY <3>2, HostAlone
    <2>5. CASE Len(s.req) # Depth
      <3>1. /\ dma => s.dreq # <<>> /\ s.dreq[1] \in Accesses
            /\ ~dma => s.bypass # <<>> /\ Head(s.bypass) \in MemoryBound
            /\ s.req \in Seq(MemRequests) /\ dma \in BOOLEAN
        BY <1>1, <1>3 DEF Adapters
      <3>2. r \in Accesses \cup MemoryBound /\ (dma => r \in Accesses)
        BY <3>1
      <3>3. ~dma => r \notin Accesses
        BY <3>1 DEF MemoryBound, HostRequests, Accesses
      <3> HIDE DEF r, dma, tag, next, u
      <3>4. /\ asked \in MemRequests /\ ticket \in Tickets
            /\ r.op \in DOMAIN ops /\ dma = ops[r.op].dma
            /\ r.write = ops[r.op].shape.write
            /\ ~dma => r.rp = ops[r.op].shape.rp /\ r.id = ops[r.op].shape.id
        <4>1. /\ asked \in MemRequests
              /\ [dma |-> r \in Accesses, write |-> r.write, rp |-> r.rp, id |-> r.id] \in Tickets
              /\ r.op \in DOMAIN ops /\ (r \in Accesses <=> ops[r.op].dma)
              /\ r.write = ops[r.op].shape.write
              /\ r \notin Accesses => r.rp = ops[r.op].shape.rp /\ r.id = ops[r.op].shape.id
          BY <2>2, <3>2, IssuedAsks
        <4>2. dma <=> r \in Accesses
          BY <3>2, <3>3
        <4>3. ops[r.op].dma \in BOOLEAN
          BY <4>1, OpsAre
        <4>4. dma = (r \in Accesses)
          BY <3>1, <4>2
        <4> QED
          BY <3>1, <4>1, <4>2, <4>3, <4>4
      <3>5. /\ DOMAIN table = DOMAIN s.tickets \union {tag}
            /\ table[tag] = ticket
            /\ \A x \in DOMAIN s.tickets : table[x] = s.tickets[x]
        BY <2>2
      <3>6. table \in TicketTables
        <4>1. s.tickets \in [DOMAIN s.tickets -> Tickets] /\ DOMAIN s.tickets \subseteq 1 .. Tags
          BY <2>1, TableIs
        <4> HIDE DEF ticket
        <4>2. table \in [DOMAIN table -> Tickets] /\ DOMAIN table \subseteq 1 .. Tags
          BY <2>2, <3>4, <4>1
        <4> QED
          BY <4>2, TableIs
      <3>7. queue \in Seq(MemRequests) /\ queue = Append(s.req, asked)
        BY <3>1, <3>4
      <3>8. /\ dma => u = [s EXCEPT !.next = next, !.req = queue, !.tickets = table,
                                    !.prefer = ~dma, !.dreq = <<>>]
            /\ ~dma => u = [s EXCEPT !.next = next, !.req = queue, !.tickets = table,
                                     !.prefer = ~dma, !.bypass = Tail(@)]
        BY <1>3, <2>5, ZenonT(60) DEF MemoryIssue, u, dma, r, tag, next
      <3>9. /\ u \in Adapters
            /\ u.req = queue /\ u.rsp = s.rsp /\ u.tickets = table
            /\ u.aw = s.aw /\ u.w = s.w /\ u.drsp = s.drsp /\ u.dactive = s.dactive
            /\ u.dreq = IF dma THEN <<>> ELSE s.dreq
        <4>1. Tail(s.bypass) \in Seq(MemoryBound) \/ dma
          BY <1>1, <3>1 DEF Adapters
        <4>2. <<>> \in Seq(Accesses) /\ (~dma) \in BOOLEAN
          OBVIOUS
        <4> HIDE DEF table, queue
        <4> QED
          BY <1>1, <2>3, <3>6, <3>7, <3>8, <4>1, <4>2, ZenonT(60) DEF Adapters
      <3>10. Tagged(u, inside)
        <4>1. /\ DOMAIN s.tickets = Ids(s.req) \cup Ids(inside) \cup Ids(s.rsp)
              /\ tag \notin Ids(s.req)
          BY <1>1, <2>2 DEF Tagged
        <4>2. Distinct(queue) /\ Ids(queue) = Ids(s.req) \cup {tag}
          <5>1. asked.id = tag
            OBVIOUS
          <5> HIDE DEF asked
          <5> QED
            BY <1>1, <3>1, <3>4, <4>1, <5>1, IdsAppend DEF Tagged
        <4>3. /\ \A x \in Ids(s.req) : x \in DOMAIN table /\ table[x] = s.tickets[x]
              /\ \A x \in Ids(inside) : x \in DOMAIN table /\ table[x] = s.tickets[x]
              /\ \A x \in Ids(s.rsp) : x \in DOMAIN table /\ table[x] = s.tickets[x]
          BY <3>5, <4>1
        <4>4. Ticketed(s.req, table) /\ Ticketed(inside, table) /\ Ticketed(s.rsp, table)
          BY <1>1, <4>3, TicketedStays DEF Tagged
        <4>5. TicketOf(asked, table)
          BY <3>4, <3>5 DEF TicketOf
        <4>6. Ticketed(queue, table)
          <5> HIDE DEF asked, table
          <5> QED
            BY <3>1, <3>4, <4>4, <4>5 DEF Ticketed
        <4> HIDE DEF queue, table
        <4> QED
          BY <1>1, <2>2, <3>5, <3>9, <4>1, <4>2, <4>4, <4>6 DEF Tagged
      <3>11. DmaTurn(u, access, wants)
        <4>1. DmaTickets(u) = DmaTickets(s) \cup IF dma THEN {tag} ELSE {}
          <5>1. ticket.dma = dma
            OBVIOUS
          <5> HIDE DEF ticket, table
          <5> QED
            BY <2>2, <3>1, <3>5, <3>9, <5>1 DEF DmaTickets
        <4>2. CASE dma
          BY <1>1, <3>1, <3>9, <4>1, <4>2 DEF DmaTurn
        <4>3. CASE ~dma
          BY <1>1, <3>9, <4>1, <4>3 DEF DmaTurn
        <4> QED
          BY <4>2, <4>3
      <3> QED
        BY <3>9, <3>10, <3>11 DEF Flow, u
    <2> QED
      BY <2>4, <2>5
  <1> QED
    BY <1>2, <1>3

\* A whole edge.
LEMMA EdgeFlow ==
    ASSUME OpsType, NEW s, NEW inside, NEW access \in Accesses \cup {NoAccess}, NEW wants,
           NEW moves, NEW shows \in SUBSET wants, NEW t \in Edges(s, moves, shows, access),
           Flow(s, inside, access, wants)
    PROVE  /\ s.drsp = <<>> => Flow(t, inside, access, IF s.dactive THEN wants ELSE wants \ shows)
           /\ s.drsp # <<>> => Flow(t, inside, NoAccess, wants)
  <1> DEFINE a == SlaveHandshakes(s, moves)
             b == MasterRequests(a, shows, access)
             c == MasterAnswer(b)
             left == IF s.dactive THEN wants ELSE wants \ shows
  <1>1. t = MemoryIssue(QueueHost(MemoryReturn(HostResponse(c))))
    BY DEF Edges
  <1>2. Flow(a, inside, access, wants) /\ a.dactive = s.dactive /\ a.drsp = s.drsp
    BY SlaveFlow DEF KeepsDma
  <1> HIDE DEF a
  <1>3. Flow(b, inside, access, left) /\ b.drsp = s.drsp
    <2>1. left = IF a.dactive THEN wants ELSE wants \ shows
      BY <1>2
    <2> HIDE DEF left
    <2> QED
      BY <1>2, <2>1, MasterRequestsFlow
  <1>4. s.drsp # <<>> => s.dactive
    BY DEF Flow, DmaTurn
  <1> HIDE DEF b
  <1>5. /\ s.drsp = <<>> => Flow(c, inside, access, left)
        /\ s.drsp # <<>> => Flow(c, inside, NoAccess, left)
    BY <1>3, MasterAnswerFlow
  <1> HIDE DEF c
  <1>6. ASSUME NEW owner, Flow(c, inside, owner, left)
        PROVE  Flow(t, inside, owner, left)
    BY <1>1, <1>6, HostResponseFlow, MemoryReturnFlow, QueueHostFlow, MemoryIssueFlow
  <1> QED
    BY <1>4, <1>5, <1>6

-----------------------------------------------------------------------------
(* A period of the bridge                                                    *)

\* The bridge and its two FIFOs, under the tickets of the adapter.
Bridge(v, tickets) ==
    /\ v \in [req : Seq(MemRequests), rsp : Seq(MemAnswers), mem : Memories]
    /\ Tagged([req |-> v.req, rsp |-> v.rsp, tickets |-> tickets], Inside(v.mem))

\* The requests inside the bridge.
LEMMA InsideIs ==
    ASSUME NEW m \in Memories
    PROVE  /\ Inside(m) \in Seq(MemRequests) /\ Len(Inside(m)) = Len(m.bursts)
           /\ DOMAIN Inside(m) = DOMAIN m.bursts /\ DOMAIN m.bursts = 1 .. Len(m.bursts)
           /\ \A i \in DOMAIN m.bursts :
                 m.bursts[i] \in Bursts /\ Inside(m)[i] = m.bursts[i].req
  <1>1. m.bursts \in Seq(Bursts)
    BY DEF Memories
  <1>2. \A i \in 1 .. Len(m.bursts) : m.bursts[i] \in Bursts /\ m.bursts[i].req \in MemRequests
    BY <1>1 DEF Bursts
  <1> QED
    BY <1>1, <1>2 DEF Inside

\* Places that are among others are no more than they.
LEMMA FewerPlaces ==
    ASSUME NEW a \in Nat, NEW b \in Nat, 1 .. a \subseteq 1 .. b
    PROVE  a <= b
  <1>1. CASE a = 0
    BY <1>1
  <1>2. CASE a # 0
    <2>1. a \in 1 .. a
      BY <1>2
    <2>2. a \in 1 .. b
      BY <2>1
    <2> QED
      BY <2>2
  <1> QED
    BY <1>1, <1>2

\* Two sequences with the same places are of the same length.
LEMMA SameLength ==
    ASSUME NEW X, NEW p \in Seq(X), NEW q \in Seq(X), DOMAIN p = DOMAIN q
    PROVE  Len(p) = Len(q)
  <1>1. DOMAIN p = 1 .. Len(p) /\ Len(p) \in Nat
    OBVIOUS
  <1>2. DOMAIN q = 1 .. Len(q) /\ Len(q) \in Nat
    OBVIOUS
  <1>3. Len(p) <= Len(q)
    BY <1>1, <1>2, FewerPlaces, Zenon
  <1>4. Len(q) <= Len(p)
    BY <1>1, <1>2, FewerPlaces, Zenon
  <1>5. ASSUME NEW a \in Nat, NEW b \in Nat, a <= b, b <= a
        PROVE  a = b
    BY <1>5
  <1> QED
    BY <1>1, <1>2, <1>3, <1>4, <1>5, Zenon

\* Nothing but pieces moves.
LEMMA SameInside ==
    ASSUME NEW m \in Memories, NEW n \in Memories, Len(n.bursts) = Len(m.bursts),
           \A i \in DOMAIN m.bursts : n.bursts[i].req = m.bursts[i].req
    PROVE  Inside(n) = Inside(m)
  BY InsideIs DEF Inside

\* A request becomes a burst.
LEMMA BurstType ==
    ASSUME NEW r \in MemRequests
    PROVE  Burst(r) \in Bursts /\ Burst(r).req = r
  <1>1. Status(r) \in {0, 2, 3} /\ (Status(r) = OKAY => Range(r.lines) \subseteq Lines)
    BY DEF Status, OKAY, SLVERR, DECERR
  <1>2. Len(r.lines) \in Nat /\ <<>> \in Seq(Nat)
    BY DEF MemRequests
  <1> QED
    BY <1>1, <1>2 DEF Burst, Bursts, OKAY

\* A burst that is taken is the last inside, one that is answered the first.
LEMMA InsideTakes ==
    ASSUME NEW m \in Memories, NEW r \in MemRequests
    PROVE  LET n == [m EXCEPT !.bursts = Append(@, Burst(r))]
           IN  n \in Memories /\ Inside(n) = Append(Inside(m), r)
  <1> DEFINE n == [m EXCEPT !.bursts = Append(@, Burst(r))]
  <1>1. m.bursts \in Seq(Bursts) /\ Burst(r) \in Bursts /\ Burst(r).req = r
    BY BurstType DEF Memories
  <1>2. n \in Memories /\ n.bursts = Append(m.bursts, Burst(r))
    <2>1. Append(m.bursts, Burst(r)) \in Seq(Bursts)
      BY <1>1
    <2> QED
      BY <1>1, <2>1 DEF Memories
  <1> HIDE DEF n
  <1>3. /\ Inside(n) \in Seq(MemRequests) /\ Inside(m) \in Seq(MemRequests)
        /\ Len(Inside(n)) = Len(m.bursts) + 1
        /\ Len(Inside(m)) = Len(m.bursts)
        /\ \A i \in 1 .. Len(m.bursts) + 1 : Inside(n)[i] = n.bursts[i].req
        /\ \A i \in 1 .. Len(m.bursts) : Inside(m)[i] = m.bursts[i].req
    <2>1. Len(n.bursts) = Len(m.bursts) + 1
      BY <1>1, <1>2
    <2> QED
      BY <1>1, <1>2, <2>1, InsideIs
  <1>4. \A i \in 1 .. Len(m.bursts) + 1 : Inside(n)[i] = Append(Inside(m), r)[i]
    BY <1>1, <1>2, <1>3, SMTT(30)
  <1>5. /\ Append(Inside(m), r) \in Seq(MemRequests)
        /\ Len(Append(Inside(m), r)) = Len(m.bursts) + 1
    BY <1>1, <1>3
  <1>6. Inside(n) = Append(Inside(m), r)
    BY <1>3, <1>4, <1>5, SeqEqual
  <1> QED
    BY <1>2, <1>6 DEF n

\* The burst that is answered was the first inside.
LEMMA InsideGives ==
    ASSUME NEW m \in Memories, m.bursts # <<>>
    PROVE  LET n == [m EXCEPT !.bursts = Tail(@)]
           IN  /\ n \in Memories /\ Inside(n) = Tail(Inside(m))
               /\ Inside(m) # <<>> /\ Head(Inside(m)) = Head(m.bursts).req
  <1> DEFINE n == [m EXCEPT !.bursts = Tail(@)]
             r == Head(m.bursts).req
  <1>1. m.bursts \in Seq(Bursts) /\ r \in MemRequests
    BY DEF Memories, Bursts
  <1>2. n \in Memories /\ n.bursts = Tail(m.bursts)
    <2>1. Tail(m.bursts) \in Seq(Bursts)
      BY <1>1
    <2> QED
      BY <1>1, <2>1 DEF Memories
  <1>3. /\ Inside(m) \in Seq(MemRequests) /\ Len(Inside(m)) = Len(m.bursts)
        /\ \A i \in 1 .. Len(m.bursts) : Inside(m)[i] = m.bursts[i].req
    BY <1>1, InsideIs
  <1>4. Len(m.bursts) \in Nat \ {0}
    BY <1>1
  <1>5. /\ Inside(n) \in Seq(MemRequests) /\ Len(Inside(n)) = Len(m.bursts) - 1
        /\ \A i \in 1 .. Len(m.bursts) - 1 : Inside(n)[i] = Tail(m.bursts)[i].req
    <2>1. Len(n.bursts) = Len(m.bursts) - 1
      BY <1>1, <1>2, <1>4
    <2> HIDE DEF n
    <2> QED
      BY <1>2, <2>1, InsideIs
  <1>6. Inside(m) # <<>> /\ Head(Inside(m)) = r
    BY <1>1, <1>3, <1>4
  <1>7. /\ Tail(Inside(m)) \in Seq(MemRequests)
        /\ Len(Tail(Inside(m))) = Len(m.bursts) - 1
        /\ \A i \in 1 .. Len(m.bursts) - 1 : Tail(Inside(m))[i] = Inside(m)[i + 1]
    BY <1>3, <1>4, <1>6
  <1>8. \A i \in 1 .. Len(m.bursts) - 1 : Inside(n)[i] = Tail(Inside(m))[i]
    <2>1. \A i \in 1 .. Len(m.bursts) - 1 : Tail(m.bursts)[i] = m.bursts[i + 1]
      BY <1>1, <1>4
    <2> HIDE DEF n
    <2> QED
      BY <1>3, <1>4, <1>5, <1>7, <2>1
  <1> HIDE DEF n
  <1>9. Inside(n) = Tail(Inside(m))
    BY <1>5, <1>7, <1>8, SeqEqual
  <1> QED
    BY <1>2, <1>6, <1>9 DEF n

\* The bridge takes a request.
LEMMA TakenKeeps ==
    ASSUME NEW v, NEW tickets, Bridge(v, tickets), v.req # <<>>
    PROVE  Bridge([v EXCEPT !.mem.bursts = Append(@, Burst(Head(v.req))), !.req = Tail(@)],
                  tickets)
  <1> DEFINE r == Head(v.req)
             n == [v.mem EXCEPT !.bursts = Append(@, Burst(r))]
             u == [v EXCEPT !.mem.bursts = Append(@, Burst(r)), !.req = Tail(@)]
  <1>1. /\ v.req \in Seq(MemRequests) /\ v.mem \in Memories /\ v.mem.bursts \in Seq(Bursts)
        /\ r \in MemRequests /\ Burst(r) \in Bursts /\ Burst(r).req = r
    BY BurstType DEF Bridge, Memories
  <1>2. u = [req |-> Tail(v.req), rsp |-> v.rsp, mem |-> n]
    <2>1. v \in [req : Seq(MemRequests), rsp : Seq(MemAnswers), mem : Memories]
      BY DEF Bridge
    <2>2. u = [v EXCEPT !.mem = n, !.req = Tail(v.req)]
      OBVIOUS
    <2> HIDE DEF r, n, u
    <2> QED
      BY <2>1, <2>2
  <1>3. n \in Memories /\ Inside(n) = Append(Inside(v.mem), r)
    BY <1>1, InsideTakes
  <1> HIDE DEF n, u, r
  <1>4. Inside(v.mem) \in Seq(MemRequests)
    BY <1>1, InsideIs
  <1>5. Tagged([req |-> Tail(v.req), rsp |-> v.rsp, tickets |-> tickets], Inside(n))
    <2>1. Tagged([req |-> v.req, rsp |-> v.rsp, tickets |-> tickets], Inside(v.mem))
      BY DEF Bridge
    <2>2. /\ Distinct(Tail(v.req)) /\ Ids(Tail(v.req)) = Ids(v.req) \ {r.id}
          /\ r.id \in Ids(v.req)
      BY <1>1, <2>1, IdsTail DEF Tagged, r
    <2>3. Distinct(Inside(n)) /\ Ids(Inside(n)) = Ids(Inside(v.mem)) \cup {r.id}
      BY <1>1, <1>3, <1>4, <2>1, <2>2, IdsAppend DEF Tagged
    <2>4. Ticketed(Tail(v.req), tickets) /\ TicketOf(r, tickets)
      BY <1>1, <2>1 DEF Tagged, Ticketed, r
    <2>5. Ticketed(Inside(n), tickets)
      BY <1>1, <1>3, <1>4, <2>1, <2>4 DEF Tagged, Ticketed
    <2> QED
      BY <2>1, <2>2, <2>3, <2>4, <2>5 DEF Tagged
  <1>6. Tail(v.req) \in Seq(MemRequests)
    BY <1>1
  <1>7. u.req = Tail(v.req) /\ u.rsp = v.rsp /\ u.mem = n
    BY <1>2
  <1>8. u \in [req : Seq(MemRequests), rsp : Seq(MemAnswers), mem : Memories]
    BY <1>2, <1>3, <1>6 DEF Bridge
  <1>9. Bridge(u, tickets)
    BY <1>5, <1>7, <1>8 DEF Bridge
  <1> QED
    BY <1>9 DEF u, r

\* A piece goes to the memory, others come back: the bursts stay what they are.
LEMMA PiecesKeep ==
    ASSUME NEW v, NEW tickets, NEW n \in Memories, Bridge(v, tickets),
           Len(n.bursts) = Len(v.mem.bursts),
           \A i \in DOMAIN v.mem.bursts : n.bursts[i].req = v.mem.bursts[i].req
    PROVE  Bridge([v EXCEPT !.mem = n], tickets)
  <1>1. Inside(n) = Inside(v.mem)
    BY SameInside DEF Bridge
  <1>2. [v EXCEPT !.mem = n] = [req |-> v.req, rsp |-> v.rsp, mem |-> n]
    BY DEF Bridge
  <1> QED
    BY <1>1, <1>2 DEF Bridge

\* A piece is submitted: the bursts have the requests they had.
LEMMA SubmittedType ==
    ASSUME NEW m \in Memories, Unsent(m) # {}
    PROVE  /\ Submitted(m) \in Memories
           /\ Len(Submitted(m).bursts) = Len(m.bursts)
           /\ \A j \in DOMAIN m.bursts : Submitted(m).bursts[j].req = m.bursts[j].req
  <1> DEFINE i == NextToSubmit(m)
             b == m.bursts[i]
             k == b.sent + 1
             l == b.req.lines[k]
             newest == IF m.wrote[l] = <<>> THEN 0 ELSE Last(m.wrote[l])
             got == IF b.req.write THEN b.got ELSE Append(b.got, newest)
             sent == [b EXCEPT !.sent = k, !.out = @ \union {k}, !.got = got]
             wrote == IF b.req.write THEN [m.wrote EXCEPT ![l] = Append(@, b.req.op)]
                                     ELSE m.wrote
  <1>1. /\ m.bursts \in Seq(Bursts) /\ m.wrote \in [Lines -> Seq(Nat)]
        /\ DOMAIN m.bursts = 1 .. Len(m.bursts) /\ Len(m.bursts) \in Nat
        /\ \A j \in 1 .. Len(m.bursts) : m.bursts[j] \in Bursts
    BY DEF Memories
  <1>2. i \in DOMAIN m.bursts /\ ~AllSent(b)
    <2>1. Unsent(m) \in SUBSET Nat
      BY <1>1 DEF Unsent
    <2>2. PICK x \in Unsent(m) : \A y \in Unsent(m) : x <= y
      BY <2>1, LeastNumber
    <2>3. i \in Unsent(m)
      BY <2>2 DEF NextToSubmit
    <2> QED
      BY <2>3 DEF Unsent
  <1> HIDE DEF i
  <1>3. b \in Bursts /\ b.req \in MemRequests
    BY <1>1, <1>2 DEF Bursts
  <1>4. /\ k \in 1 .. Len(b.req.lines) /\ b.req.lines \in Seq(Nat)
        /\ Range(b.req.lines) \subseteq Lines /\ b.req.op \in Nat /\ b.req.write \in BOOLEAN
        /\ b.sent \in Nat /\ b.out \in SUBSET Nat /\ b.got \in Seq(Nat)
    <2>1. /\ b.sent \in Nat /\ b.out \in SUBSET Nat /\ b.got \in Seq(Nat)
          /\ b.sent <= Len(b.req.lines)
          /\ b.sent < Len(b.req.lines) => Range(b.req.lines) \subseteq Lines
      BY <1>3 DEF Bursts
    <2>2. /\ b.req.lines \in Seq(Nat) /\ b.req.op \in Nat /\ b.req.write \in BOOLEAN
      BY <1>3 DEF MemRequests
    <2>3. b.sent # Len(b.req.lines)
      BY <1>2 DEF AllSent
    <2>4. Len(b.req.lines) \in Nat
      BY <2>2
    <2> HIDE DEF b, got, sent, wrote, l
    <2>5. b.sent < Len(b.req.lines) /\ k \in 1 .. Len(b.req.lines)
      BY <2>1, <2>3, <2>4
    <2> QED
      BY <2>1, <2>2, <2>5
  <1>5. l \in Lines
    <2>1. k \in DOMAIN b.req.lines
      BY <1>4
    <2> QED
      BY <1>4, <2>1, Zenon DEF Range
  <1> HIDE DEF l, b
  <1>13. m.wrote[l] \in Seq(Nat)
    BY <1>1, <1>5
  <1>6. newest \in Nat
    <2> DEFINE q == m.wrote[l]
    <2>1. q # <<>> => q[Len(q)] \in Nat
      <3> HIDE DEF q
      <3>1. q \in Seq(Nat)
        BY <1>13 DEF q
      <3> QED
        BY <3>1
    <2> QED
      BY <2>1 DEF Last
  <1>7. got \in Seq(Nat)
    BY <1>4, <1>6
  <1>8. wrote \in [Lines -> Seq(Nat)]
    <2>1. Append(m.wrote[l], b.req.op) \in Seq(Nat)
      BY <1>4, <1>13
    <2> QED
      BY <1>1, <1>4, <1>5, <2>1
  <1>9. sent \in Bursts /\ sent.req = b.req
    <2>1. b.out \union {k} \in SUBSET Nat /\ k \in Nat /\ k <= Len(b.req.lines)
      BY <1>4
    <2> HIDE DEF k, got
    <2> QED
      BY <1>3, <1>4, <1>7, <2>1 DEF Bursts
  <1> DEFINE bursts == [m.bursts EXCEPT ![i] = sent]
  <1>10. Submitted(m) = [bursts |-> bursts, wrote |-> wrote]
    BY DEF Submitted, i, b, l
  <1> HIDE DEF sent, wrote
  <1>11. /\ bursts \in Seq(Bursts) /\ Len(bursts) = Len(m.bursts)
         /\ \A j \in DOMAIN m.bursts : bursts[j].req = m.bursts[j].req
    <2>1. i \in 1 .. Len(m.bursts)
      BY <1>1, <1>2
    <2>2. /\ bursts \in Seq(Bursts) /\ Len(bursts) = Len(m.bursts)
          /\ \A j \in 1 .. Len(m.bursts) : bursts[j] = IF j = i THEN sent ELSE m.bursts[j]
      BY <1>1, <1>9, <2>1, ExceptSeq
    <2> QED
      BY <1>1, <1>9, <2>2 DEF b
  <1> QED
    BY <1>8, <1>10, <1>11 DEF Memories

\* Pieces come back: the bursts have the requests they had.
LEMMA CollectedType ==
    ASSUME NEW m \in Memories, NEW answered
    PROVE  /\ Collected(m, answered) \in Memories
           /\ Len(Collected(m, answered).bursts) = Len(m.bursts)
           /\ \A j \in DOMAIN m.bursts :
                 Collected(m, answered).bursts[j].req = m.bursts[j].req
  <1> DEFINE left(i) == [m.bursts[i] EXCEPT !.out = {k \in @ : <<i, k>> \notin answered}]
             bursts == [i \in DOMAIN m.bursts |-> left(i)]
  <1>1. /\ m.bursts \in Seq(Bursts) /\ m.wrote \in [Lines -> Seq(Nat)]
        /\ DOMAIN m.bursts = 1 .. Len(m.bursts) /\ Len(m.bursts) \in Nat
        /\ \A j \in 1 .. Len(m.bursts) : m.bursts[j] \in Bursts
    BY DEF Memories
  <1>2. \A i \in 1 .. Len(m.bursts) : left(i) \in Bursts /\ left(i).req = m.bursts[i].req
    BY <1>1 DEF Bursts
  <1>3. Collected(m, answered) = [m EXCEPT !.bursts = bursts]
    BY DEF Collected
  <1> HIDE DEF left
  <1>4. bursts \in Seq(Bursts) /\ Len(bursts) = Len(m.bursts)
    BY <1>1, <1>2
  <1>5. \A j \in DOMAIN m.bursts : bursts[j].req = m.bursts[j].req
    BY <1>1, <1>2
  <1> HIDE DEF bursts
  <1> QED
    BY <1>3, <1>4, <1>5 DEF Memories

\* The answer of the first burst is of its request.
LEMMA AnswerType ==
    ASSUME OpsType, NEW m \in Memories, m.bursts # <<>>
    PROVE  /\ Answer(m) \in MemAnswers
           /\ Answer(m).id = Head(m.bursts).req.id /\ Answer(m).op = Head(m.bursts).req.op
           /\ Head(m.bursts) \in Bursts /\ Head(m.bursts).req \in MemRequests
  <1> DEFINE b == Head(m.bursts)
  <1>1. b \in Bursts
    BY DEF Memories
  <1>2. b.req \in MemRequests /\ b.resp = Status(b.req) /\ b.resp \in Nat /\ b.got \in Seq(Nat)
    BY <1>1 DEF Bursts
  <1> HIDE DEF b
  <1>3. /\ b.req.op \in DOMAIN ops /\ b.req.op \in Nat /\ b.req.id \in Nat
        /\ b.req.write \in BOOLEAN /\ Len(b.req.lines) \in Nat
        /\ b.req.write = ops[b.req.op].shape.write /\ b.req.lines = ops[b.req.op].shape.lines
        /\ ~ops[b.req.op].dma => ~ops[b.req.op].shape.mmio /\ b.req.lock = ops[b.req.op].shape.lock
    BY <1>2 DEF MemRequests
  <1>4. ~ops[b.req.op].dma =>
            b.resp = IF ~Accepted(ops[b.req.op].shape) THEN DECERR
                     ELSE IF ops[b.req.op].shape.lock THEN SLVERR ELSE OKAY
    BY <1>2, <1>3 DEF Status, Accepted
  <1>5. Answer(m) = [op |-> b.req.op, id |-> b.req.id, write |-> b.req.write,
                     beats |-> Len(b.req.lines), resp |-> b.resp, got |-> b.got]
    BY DEF Answer, b
  <1>6. Answer(m) \in MemAnswers
    <2>1. Answer(m) \in [op : Nat, id : Nat, write : BOOLEAN, beats : Nat, resp : Nat,
                         got : Seq(Nat)]
      BY <1>2, <1>3, <1>5
    <2>2. /\ Answer(m).op = b.req.op /\ Answer(m).write = b.req.write
          /\ Answer(m).beats = Len(b.req.lines) /\ Answer(m).resp = b.resp
      BY <1>5
    <2> QED
      BY <1>3, <1>4, <2>1, <2>2, Zenon DEF MemAnswers
  <1> QED
    BY <1>1, <1>2, <1>5, <1>6 DEF b

\* The bridge gives an answer.
LEMMA GivenKeeps ==
    ASSUME OpsType, NEW v, NEW tickets, Bridge(v, tickets), v.mem.bursts # <<>>
    PROVE  Bridge([v EXCEPT !.rsp = Append(@, Answer(v.mem)), !.mem.bursts = Tail(@)], tickets)
  <1> DEFINE a == Answer(v.mem)
             r == Head(v.mem.bursts).req
             n == [v.mem EXCEPT !.bursts = Tail(@)]
             u == [v EXCEPT !.rsp = Append(@, a), !.mem.bursts = Tail(@)]
  <1>1. /\ v \in [req : Seq(MemRequests), rsp : Seq(MemAnswers), mem : Memories]
        /\ v.rsp \in Seq(MemAnswers) /\ v.mem \in Memories /\ v.mem.bursts \in Seq(Bursts)
        /\ a \in MemAnswers /\ a.id = r.id /\ a.op = r.op /\ r \in MemRequests
        /\ Tagged([req |-> v.req, rsp |-> v.rsp, tickets |-> tickets], Inside(v.mem))
    BY AnswerType DEF Bridge, Memories
  <1>2. /\ n \in Memories /\ Inside(n) = Tail(Inside(v.mem))
        /\ Inside(v.mem) # <<>> /\ Head(Inside(v.mem)) = r
    BY <1>1, InsideGives
  <1>3. u = [req |-> v.req, rsp |-> Append(v.rsp, a), mem |-> n]
    <2>1. u = [v EXCEPT !.rsp = Append(v.rsp, a), !.mem = n]
      OBVIOUS
    <2> HIDE DEF a, n, u
    <2> QED
      BY <1>1, <2>1
  <1>4. Inside(v.mem) \in Seq(MemRequests)
    BY <1>1, InsideIs
  <1> HIDE DEF a, r, n, u
  <1>5. Tagged([req |-> v.req, rsp |-> Append(v.rsp, a), tickets |-> tickets], Inside(n))
    <2>1. /\ Distinct(Inside(n)) /\ Ids(Inside(n)) = Ids(Inside(v.mem)) \ {a.id}
          /\ a.id \in Ids(Inside(v.mem))
      BY <1>1, <1>2, <1>4, IdsTail DEF Tagged
    <2>2. Distinct(Append(v.rsp, a)) /\ Ids(Append(v.rsp, a)) = Ids(v.rsp) \cup {a.id}
      BY <1>1, <2>1, IdsAppend DEF Tagged
    <2>3. Ticketed(Inside(n), tickets) /\ TicketOf(r, tickets)
      BY <1>1, <1>2, <1>4 DEF Tagged, Ticketed
    <2>4. TicketOf(a, tickets)
      BY <1>1, <2>3 DEF TicketOf
    <2>5. Ticketed(Append(v.rsp, a), tickets)
      BY <1>1, <2>4 DEF Tagged, Ticketed
    <2> QED
      BY <1>1, <2>1, <2>2, <2>3, <2>5 DEF Tagged
  <1>6. Append(v.rsp, a) \in Seq(MemAnswers)
    BY <1>1
  <1>7. u.req = v.req /\ u.rsp = Append(v.rsp, a) /\ u.mem = n
    BY <1>3
  <1>8. u \in [req : Seq(MemRequests), rsp : Seq(MemAnswers), mem : Memories]
    BY <1>1, <1>2, <1>3, <1>6
  <1>9. Bridge(u, tickets)
    BY <1>5, <1>7, <1>8 DEF Bridge
  <1> QED
    BY <1>9 DEF u, a

\* A whole period.
LEMMA PeriodKeeps ==
    ASSUME OpsType, NEW v, NEW tickets, Bridge(v, tickets), NEW takes, NEW answered, NEW held,
           NEW u \in Periods(v, Depth, takes, answered, held)
    PROVE  Bridge(u, tickets)
  <1> DEFINE taken == IF Len(v.mem.bursts) < Slots /\ v.req # <<>>
                      THEN [v EXCEPT !.mem.bursts = Append(@, Burst(Head(v.req))),
                                     !.req = Tail(@)]
                      ELSE v
             offered(t) == IF Unsent(t.mem) # {} /\ takes
                           THEN [t EXCEPT !.mem = Submitted(@)] ELSE t
             stepped(t) == [t EXCEPT !.mem = Collected(@, answered)]
             given(t) == IF Answerable(t.mem) /\ ~held /\ Len(t.rsp) < Depth
                         THEN [t EXCEPT !.rsp = Append(@, Answer(t.mem)),
                                        !.mem.bursts = Tail(@)]
                         ELSE t
  <1>1. Bridge(taken, tickets)
    BY TakenKeeps
  <1>2. ASSUME NEW t, Bridge(t, tickets)
        PROVE  Bridge(offered(t), tickets)
    <2>1. CASE Unsent(t.mem) # {} /\ takes
      <3>1. t.mem \in Memories
        BY <1>2 DEF Bridge
      <3>2. Bridge([t EXCEPT !.mem = Submitted(t.mem)], tickets)
        BY <1>2, <2>1, <3>1, SubmittedType, PiecesKeep
      <3> QED
        BY <2>1, <3>2
    <2> QED
      BY <1>2, <2>1
  <1>3. ASSUME NEW t, Bridge(t, tickets)
        PROVE  Bridge(stepped(t), tickets)
    <2>1. t.mem \in Memories
      BY <1>3 DEF Bridge
    <2>2. Bridge([t EXCEPT !.mem = Collected(t.mem, answered)], tickets)
      BY <1>3, <2>1, CollectedType, PiecesKeep
    <2> QED
      BY <2>2
  <1>4. ASSUME NEW t, Bridge(t, tickets)
        PROVE  Bridge(given(t), tickets)
    <2>1. CASE Answerable(t.mem) /\ ~held /\ Len(t.rsp) < Depth
      BY <1>4, <2>1, GivenKeeps DEF Answerable
    <2> QED
      BY <1>4, <2>1
  <1>5. u = given(stepped(offered(taken)))
    BY ZenonT(40) DEF Periods
  <1> HIDE DEF taken, offered, stepped, given
  <1> QED
    BY <1>1, <1>2, <1>3, <1>4, <1>5

-----------------------------------------------------------------------------
(* Accesses are issued, and stay what they are                               *)

OpsGrow ==
    /\ DOMAIN ops \subseteq DOMAIN ops'
    /\ \A i \in DOMAIN ops : ops'[i] = ops[i]

\* What belongs to an access that was issued still does.
LEMMA OwnedGrow ==
    ASSUME OpsGrow
    PROVE  /\ HostRequests \subseteq HostRequests' /\ MemoryBound \subseteq MemoryBound'
           /\ RegisterBound \subseteq RegisterBound' /\ Registers \subseteq Registers'
           /\ Accesses \subseteq Accesses' /\ Returns \subseteq Returns'
           /\ HostReturns \subseteq HostReturns' /\ DmaReturns \subseteq DmaReturns'
           /\ MemRequests \subseteq MemRequests' /\ MemAnswers \subseteq MemAnswers'
           /\ Bursts \subseteq Bursts'
  <1>1. HostRequests \subseteq HostRequests'
    BY Zenon DEF OpsGrow, HostRequests
  <1>2. MemoryBound \subseteq MemoryBound' /\ RegisterBound \subseteq RegisterBound'
    BY <1>1, Zenon DEF MemoryBound, RegisterBound
  <1>3. Registers \subseteq Registers'
    BY <1>2 DEF Registers
  <1>4. Accesses \subseteq Accesses'
    BY Zenon DEF OpsGrow, Accesses
  <1>5. Returns \subseteq Returns'
    BY Zenon DEF OpsGrow, Returns
  <1>6. HostReturns \subseteq HostReturns' /\ DmaReturns \subseteq DmaReturns'
    BY <1>5 DEF OpsGrow, HostReturns, DmaReturns, Returns
  <1>7. MemRequests \subseteq MemRequests'
    BY Zenon DEF OpsGrow, MemRequests
  <1>8. MemAnswers \subseteq MemAnswers'
    BY Zenon DEF OpsGrow, MemAnswers
  <1>9. Bursts \subseteq Bursts'
    BY <1>7 DEF Bursts
  <1> QED
    BY <1>1, <1>2, <1>3, <1>4, <1>5, <1>6, <1>7, <1>8, <1>9

\* And so do the queues of the adapter and of the bridge.
LEMMA StateGrows ==
    ASSUME OpsGrow
    PROVE  Adapters \subseteq Adapters' /\ Memories \subseteq Memories'
  <1>1. /\ \A q \in Seq(HostRequests) : q \in Seq(HostRequests')
        /\ \A q \in Seq(MemoryBound) : q \in Seq(MemoryBound')
        /\ \A q \in Seq(RegisterBound) : q \in Seq(RegisterBound')
        /\ \A q \in Seq(Registers) : q \in Seq(Registers')
    BY OwnedGrow, SeqMonotonic, Zenon
  <1>2. /\ \A q \in Seq(HostReturns) : q \in Seq(HostReturns')
        /\ \A q \in Seq(DmaReturns) : q \in Seq(DmaReturns')
        /\ \A q \in Seq(Accesses) : q \in Seq(Accesses')
    BY OwnedGrow, SeqMonotonic, Zenon
  <1>3. /\ \A q \in Seq(MemRequests) : q \in Seq(MemRequests')
        /\ \A q \in Seq(MemAnswers) : q \in Seq(MemAnswers')
        /\ \A q \in Seq(Bursts) : q \in Seq(Bursts')
    BY OwnedGrow, SeqMonotonic, Zenon
  <1>4. Adapters \subseteq Adapters'
    BY <1>1, <1>2, <1>3 DEF Adapters
  <1>5. Memories \subseteq Memories'
    BY <1>3 DEF Memories
  <1> QED
    BY <1>4, <1>5

\* The tickets stay those of their accesses.
LEMMA TicketsGrow ==
    ASSUME OpsGrow, NEW S, NEW q \in Seq(S), \A x \in S : x.op \in DOMAIN ops,
           NEW tickets, Ticketed(q, tickets)
    PROVE  \A i \in DOMAIN q :
              /\ q[i].id \in DOMAIN tickets
              /\ LET t == tickets[q[i].id]
                     o == ops'[q[i].op]
                 IN  /\ t.dma = o.dma /\ t.write = o.shape.write
                     /\ ~t.dma => t.rp = o.shape.rp /\ t.id = o.shape.id
  <1>1. \A i \in DOMAIN q : q[i] \in S /\ q[i].op \in DOMAIN ops
    OBVIOUS
  <1>2. \A i \in DOMAIN q : ops'[q[i].op] = ops[q[i].op]
    BY <1>1 DEF OpsGrow
  <1> QED
    BY <1>2, Zenon DEF Ticketed, TicketOf

\* The requests of the host and of the engine become the next access.
LEMMA IssueGrows ==
    ASSUME PathType, NEW shape, NEW dma \in BOOLEAN, Issue(shape, dma),
           shape \in IF dma THEN DmaShapes ELSE HostShapes
    PROVE  /\ OpsType' /\ OpsGrow
           /\ Len(ops) + 1 \in DOMAIN ops' /\ Len(ops) + 1 \in Nat \ {0}
           /\ ops'[Len(ops) + 1].dma = dma /\ ops'[Len(ops) + 1].shape = shape
  <1> DEFINE x == [shape |-> shape, dma |-> dma, before |-> Answered]
  <1>1. ops \in Seq(Issues) /\ ops' = Append(ops, x)
    BY DEF PathType, OpsType, Issue
  <1>2. Answered \in SUBSET Nat
    BY DEF PathType, Returns, Answered
  <1>3. x \in Issues
    BY <1>2 DEF Issues
  <1>4. x.dma = dma /\ x.shape = shape
    OBVIOUS
  <1> HIDE DEF x
  <1>5. /\ ops' \in Seq(Issues) /\ DOMAIN ops' = 1 .. Len(ops) + 1 /\ Len(ops) \in Nat
        /\ DOMAIN ops = 1 .. Len(ops)
        /\ \A i \in 1 .. Len(ops) : ops'[i] = ops[i]
        /\ ops'[Len(ops) + 1] = x
    BY <1>1, <1>3
  <1>6. \A i \in DOMAIN ops' :
            ops'[i].shape \in IF ops'[i].dma THEN DmaShapes ELSE HostShapes
    <2> SUFFICES ASSUME NEW i \in DOMAIN ops'
                 PROVE  ops'[i].shape \in IF ops'[i].dma THEN DmaShapes ELSE HostShapes
      OBVIOUS
    <2>1. CASE i = Len(ops) + 1
      BY <1>4, <1>5, <2>1
    <2>2. CASE i \in 1 .. Len(ops)
      BY <1>5, <2>2 DEF PathType, OpsType
    <2> QED
      BY <1>5, <2>1, <2>2
  <1> QED
    BY <1>4, <1>5, <1>6 DEF OpsType, OpsGrow

\* What is tagged when the accesses are those before is so when they have grown.
LEMMA TaggedGrows ==
    ASSUME OpsGrow, ad'.req \in Seq(MemRequests), ad'.rsp \in Seq(MemAnswers),
           mem' \in Memories, Tagged(ad', Inside(mem'))
    PROVE  Tagged(ad, Inside(mem))'
  <1> DEFINE tk == ad'.tickets
             Holds(x) == /\ x.id \in DOMAIN tk
                         /\ LET t == tk[x.id]
                                o == ops'[x.op]
                            IN  /\ t.dma = o.dma /\ t.write = o.shape.write
                                /\ ~t.dma => t.rp = o.shape.rp /\ t.id = o.shape.id
  <1>1. /\ \A x \in MemRequests : x.op \in DOMAIN ops
        /\ \A x \in MemAnswers : x.op \in DOMAIN ops
    BY DEF MemRequests, MemAnswers
  <1>2. Inside(mem') \in Seq(MemRequests)
    BY InsideIs
  <1>3. /\ Ticketed(ad'.req, tk) /\ Ticketed(ad'.rsp, tk) /\ Ticketed(Inside(mem'), tk)
    BY DEF Tagged
  <1>4. \A i \in DOMAIN ad'.req : Holds(ad'.req[i])
    BY <1>1, <1>3, TicketsGrow, SMTT(30)
  <1>5. \A i \in DOMAIN ad'.rsp : Holds(ad'.rsp[i])
    BY <1>1, <1>3, TicketsGrow, SMTT(30)
  <1>6. \A i \in DOMAIN Inside(mem') : Holds(Inside(mem')[i])
    BY <1>1, <1>2, <1>3, TicketsGrow, ZenonT(40)
  <1>7. Ticketed(ad.req, ad.tickets)' /\ Ticketed(ad.rsp, ad.tickets)'
    BY <1>4, <1>5 DEF Ticketed, TicketOf
  <1>8. Ticketed(Inside(mem), ad.tickets)'
    BY <1>6 DEF Ticketed, TicketOf, Inside
  <1> QED
    BY <1>7, <1>8 DEF Tagged, Ids, Distinct, Inside

\* At first there is nothing on its way.
LEMMA InitPath == Init => PathInv
  <1> SUFFICES ASSUME Init PROVE PathInv
    OBVIOUS
  <1>1. OpsType
    BY DEF Init, OpsType
  <1>2. Adapter0 \in Adapters /\ DOMAIN NoTickets = {}
    <2>1. NoTickets \in TicketTables /\ DOMAIN NoTickets = {}
      <3>1. DOMAIN NoTickets = {}
        BY DEF NoTickets
      <3>2. NoTickets \in [DOMAIN NoTickets -> Tickets]
        BY DEF NoTickets
      <3> QED
        BY <3>1, <3>2, TableIs
    <2>2. 1 \in 1 .. Tags
      BY AdapterAssumption
    <2> QED
      BY <2>1, <2>2 DEF Adapter0, Adapters
  <1>3. Memory0 \in Memories
    BY DEF Memory0, Memories
  <1>4. rtl \in [wants : SUBSET {"AW", "W", "AR"}, access : Accesses \cup {NoAccess}, asked : Nat]
    BY DEF Init
  <1>5. Tagged(Adapter0, Inside(Memory0))
    BY <1>2 DEF Adapter0, Tagged, Inside, Memory0, Ids, Distinct, Ticketed
  <1>6. DmaTurn(Adapter0, rtl.access, rtl.wants)
    BY <1>2 DEF Init, DmaTurn, DmaTickets, Adapter0
  <1> QED
    BY <1>1, <1>2, <1>3, <1>4, <1>5, <1>6 DEF Init, PathInv, PathType

\* The next request of the program.
LEMMA HostShape ==
    ASSUME PathInv, HostIssues
    PROVE  program[Cardinality(HostOps) + 1] \in HostShapes
  <1> DEFINE n == Cardinality(HostOps) + 1
  <1>1. program \in Seq(HostShapes)
    BY PathAssumption DEF PathInv, PathType, HostShapes
  <1>2. n \in Nat \ {0}
    <2>1. ops \in Seq(Issues)
      BY DEF PathInv, PathType, OpsType
    <2>2. HostOps \subseteq 1 .. Len(ops) /\ IsFiniteSet(1 .. Len(ops))
      BY <2>1, FS_Interval DEF HostOps
    <2>3. Cardinality(HostOps) \in Nat
      BY <2>2, FS_Subset, FS_CardinalityType
    <2> QED
      BY <2>3
  <1>3. n \in 1 .. Len(program)
    BY <1>1, <1>2 DEF HostIssues
  <1> HIDE DEF n
  <1>4. program[n] \in HostShapes
    BY <1>1, <1>3
  <1> QED
    BY <1>4 DEF n

\* The host's request is in its FIFO, not in the memory yet.
LEMMA HostIssuesKeeps == PathInv /\ HostIssues => PathInv'
  <1> SUFFICES ASSUME PathInv, HostIssues PROVE PathInv'
    OBVIOUS
  <1> DEFINE n == Cardinality(HostOps) + 1
             shape == program[n]
             r == Request(shape, Len(ops) + 1)
  <1>1. /\ PathType /\ ad \in Adapters /\ mem \in Memories
        /\ Tagged(ad, Inside(mem)) /\ DmaTurn(ad, rtl.access, rtl.wants)
        /\ ad' = [ad EXCEPT !.hreq = Append(@, r)] /\ Issue(shape, FALSE)
        /\ n <= Len(program) /\ UNCHANGED <<program, rtl, mem, answers>>
    BY DEF PathInv, PathType, HostIssues
  <1>2. shape \in HostShapes
    BY HostShape
  <1>3. /\ OpsType' /\ OpsGrow
        /\ Len(ops) + 1 \in DOMAIN ops' /\ Len(ops) + 1 \in Nat
        /\ ops'[Len(ops) + 1].dma = FALSE /\ ops'[Len(ops) + 1].shape = shape
    BY <1>1, <1>2, IssueGrows
  <1>4. r \in HostRequests'
    <2>1. /\ r \in [op : Nat, write : BOOLEAN, rp : Nat, id : Nat, mmio : BOOLEAN,
                    lock : BOOLEAN, lines : Seq(Nat)]
          /\ r.op = Len(ops) + 1
      BY <1>2, <1>3 DEF Request, HostShapes
    <2> HIDE DEF shape
    <2> QED
      BY <1>3, <2>1 DEF HostRequests
  <1> HIDE DEF r, shape, n
  <1>5. ad \in Adapters' /\ mem \in Memories' /\ Returns \subseteq Returns'
        /\ Accesses \subseteq Accesses'
    BY <1>1, <1>3, StateGrows, OwnedGrow
  <1>6. ad' \in Adapters'
    <2>1. Append(ad.hreq, r) \in Seq(HostRequests')
      BY <1>4, <1>5 DEF Adapters
    <2> QED
      BY <1>1, <1>5, <2>1 DEF Adapters
  <1>7. PathType'
    BY <1>1, <1>3, <1>5, <1>6 DEF PathType
  <1>8. KeepsMemory(ad, ad') /\ KeepsDma(ad, ad')
    BY <1>1 DEF KeepsMemory, KeepsDma, Adapters
  <1>9. Tagged(ad, Inside(mem))'
    <2>1. ad'.req \in Seq(MemRequests) /\ ad'.rsp \in Seq(MemAnswers)
      BY <1>1, <1>8 DEF Adapters, KeepsMemory
    <2>2. Tagged(ad', Inside(mem'))
      BY <1>1, <1>8 DEF Tagged, KeepsMemory
    <2>3. mem' \in Memories
      BY <1>1
    <2> QED
      BY <1>3, <2>1, <2>2, <2>3, TaggedGrows
  <1>10. DmaTurn(ad, rtl.access, rtl.wants)'
    BY <1>1, <1>8 DEF DmaTurn, DmaTickets, KeepsMemory, KeepsDma
  <1> QED
    BY <1>7, <1>9, <1>10 DEF PathInv

\* An answer leaves for the host.
LEMMA HostTakesKeeps == PathInv /\ HostTakes => PathInv'
  <1> SUFFICES ASSUME PathInv, HostTakes PROVE PathInv'
    OBVIOUS
  <1>1. /\ PathType /\ ad \in Adapters /\ mem \in Memories
        /\ Tagged(ad, Inside(mem)) /\ DmaTurn(ad, rtl.access, rtl.wants)
        /\ ad.hrsp # <<>> /\ ad' = [ad EXCEPT !.hrsp = Tail(@)]
        /\ answers' = answers \cup {Head(ad.hrsp)}
        /\ UNCHANGED <<program, rtl, mem, ops>>
    BY DEF PathInv, PathType, HostTakes
  <1>2. OpsGrow /\ OpsType'
    BY <1>1 DEF PathType, OpsGrow, OpsType
  <1>3. Tail(ad.hrsp) \in Seq(HostReturns) /\ Head(ad.hrsp) \in Returns
    BY <1>1 DEF Adapters, HostReturns
  <1>4. ad' \in Adapters /\ KeepsMemory(ad, ad') /\ KeepsDma(ad, ad')
    BY <1>1, <1>3 DEF Adapters, KeepsMemory, KeepsDma
  <1>5. PathType'
    <2>1. ad' \in Adapters' /\ mem' \in Memories'
      BY <1>1, <1>2, <1>4, StateGrows
    <2>2. answers' \subseteq Returns' /\ Accesses \subseteq Accesses'
      BY <1>1, <1>2, <1>3, OwnedGrow DEF PathType
    <2> QED
      BY <1>1, <1>2, <2>1, <2>2 DEF PathType
  <1>6. Tagged(ad, Inside(mem))'
    <2>1. Tagged(ad', Inside(mem'))
      BY <1>1, <1>4 DEF Tagged, KeepsMemory
    <2> QED
      BY <1>1, <1>2, <1>4, <2>1, TaggedGrows DEF Adapters
  <1>7. DmaTurn(ad, rtl.access, rtl.wants)'
    BY <1>1, <1>4 DEF DmaTurn, DmaTickets, KeepsMemory, KeepsDma
  <1> QED
    BY <1>5, <1>6, <1>7 DEF PathInv

\* The engine begins an access when it has none.
LEMMA EngineAsksKeeps == PathInv /\ EngineAsks => PathInv'
  <1> SUFFICES ASSUME PathInv, EngineAsks PROVE PathInv'
    OBVIOUS
  <1>1. PICK o \in DmaOps :
            /\ rtl' = [wants |-> IF o.write THEN {"AW", "W"} ELSE {"AR"},
                       access |-> Access(o, Len(ops) + 1),
                       asked |-> rtl.asked + 1]
            /\ Issue(o, TRUE)
    BY DEF EngineAsks
  <1>2. /\ PathType /\ ad \in Adapters /\ mem \in Memories
        /\ Tagged(ad, Inside(mem)) /\ DmaTurn(ad, rtl.access, rtl.wants)
        /\ rtl.access = NoAccess /\ rtl.asked \in Nat
        /\ UNCHANGED <<program, ad, mem, answers>>
    BY DEF PathInv, PathType, EngineAsks
  <1>3. o \in DmaShapes
    BY PathAssumption DEF DmaShapes
  <1>4. /\ OpsType' /\ OpsGrow
        /\ Len(ops) + 1 \in DOMAIN ops' /\ Len(ops) + 1 \in Nat \ {0}
        /\ ops'[Len(ops) + 1].dma = TRUE /\ ops'[Len(ops) + 1].shape = o
    BY <1>1, <1>2, <1>3, IssueGrows
  <1>5. Access(o, Len(ops) + 1) \in Accesses'
    <2>1. /\ Access(o, Len(ops) + 1) \in
                [op : Nat, write : BOOLEAN, lines : Seq(Nat), rp : Nat, id : Nat, lock : BOOLEAN]
          /\ Access(o, Len(ops) + 1).op = Len(ops) + 1
      BY <1>3, <1>4 DEF Access, DmaShapes
    <2> QED
      BY <1>4, <2>1 DEF Accesses
  <1>6. Access(o, Len(ops) + 1) # NoAccess
    BY <1>4 DEF Access, NoAccess
  <1>7. PathType'
    <2>1. ad' \in Adapters' /\ mem' \in Memories'
      BY <1>2, <1>4, StateGrows
    <2>2. answers' \subseteq Returns'
      BY <1>2, <1>4, OwnedGrow DEF PathType
    <2>3. (rtl \in [wants : SUBSET {"AW", "W", "AR"}, access : Accesses \cup {NoAccess},
                    asked : Nat])'
      BY <1>1, <1>2, <1>5
    <2> QED
      BY <1>2, <1>4, <2>1, <2>2, <2>3 DEF PathType
  <1>8. Tagged(ad, Inside(mem))'
    BY <1>2, <1>4, TaggedGrows DEF Adapters
  <1>9. DmaTurn(ad, rtl.access, rtl.wants)'
    <2>1. rtl.wants = {} /\ ~ad.aw /\ ~ad.w /\ ~ad.dactive
      BY <1>2 DEF DmaTurn
    <2>2. ad.dreq = <<>> /\ ad.drsp = <<>> /\ DmaTickets(ad) = {}
      BY <1>2, <2>1 DEF DmaTurn
    <2>3. rtl'.access # NoAccess /\ rtl'.access.write = o.write
      BY <1>1, <1>6 DEF Access
    <2>4. rtl'.wants \subseteq IF rtl'.access.write THEN {"AW", "W"} ELSE {"AR"}
      BY <1>1, <2>3
    <2> QED
      BY <1>2, <2>1, <2>2, <2>3, <2>4 DEF DmaTurn, DmaTickets
  <1> QED
    BY <1>7, <1>8, <1>9 DEF PathInv

\* An edge, and what the engine makes of it.
LEMMA ClockKeeps ==
    ASSUME PathInv, NEW moves, NEW shows \in SUBSET rtl.wants, Clock(moves, shows)
    PROVE  PathInv'
  <1> DEFINE done == ad.drsp # <<>>
             owner == IF done THEN NoAccess ELSE rtl.access
             left == IF done \/ ad.dactive THEN rtl.wants ELSE rtl.wants \ shows
  <1>1. /\ PathType /\ ad \in Adapters /\ mem \in Memories /\ OpsType
        /\ rtl \in [wants : SUBSET {"AW", "W", "AR"}, access : Accesses \cup {NoAccess},
                    asked : Nat]
        /\ ad' \in Edges(ad, moves, shows, rtl.access)
        /\ UNCHANGED <<program, mem, ops>>
        /\ Flow(ad, Inside(mem), rtl.access, rtl.wants)
    BY DEF PathInv, PathType, Clock, Flow
  <1>2. Flow(ad', Inside(mem), owner, left)
    BY <1>1, EdgeFlow
  <1>3. rtl'.access = owner /\ rtl'.wants = left /\ rtl'.asked = rtl.asked
        /\ rtl' \in [wants : SUBSET {"AW", "W", "AR"}, access : Accesses \cup {NoAccess},
                     asked : Nat]
    BY <1>1 DEF Clock
  <1>4. answers' \subseteq Returns
    <2>1. done => ad.drsp[1] \in Returns
      BY <1>1 DEF Adapters, DmaReturns
    <2> QED
      BY <1>1, <2>1 DEF Clock, PathType
  <1> HIDE DEF owner, left
  <1>5. OpsGrow /\ OpsType'
    BY <1>1 DEF PathType, OpsGrow, OpsType
  <1>6. PathType'
    <2>1. ad' \in Adapters' /\ mem' \in Memories'
      BY <1>1, <1>2, <1>5, StateGrows DEF Flow
    <2>2. answers' \subseteq Returns' /\ Accesses \subseteq Accesses'
      BY <1>4, <1>5, OwnedGrow
    <2>3. (rtl \in [wants : SUBSET {"AW", "W", "AR"}, access : Accesses \cup {NoAccess},
                    asked : Nat])'
      BY <1>3, <2>2
    <2> QED
      BY <1>1, <1>5, <2>1, <2>2, <2>3 DEF PathType
  <1>7. Tagged(ad, Inside(mem))'
    <2>1. Tagged(ad', Inside(mem')) /\ ad' \in Adapters
      BY <1>1, <1>2 DEF Flow
    <2> QED
      BY <1>1, <1>5, <2>1, TaggedGrows DEF Adapters
  <1>8. DmaTurn(ad, rtl.access, rtl.wants)'
    BY <1>2, <1>3 DEF Flow, DmaTurn, DmaTickets
  <1> QED
    BY <1>6, <1>7, <1>8 DEF PathInv

\* A period of the memory.
LEMMA MemoryPeriodKeeps ==
    ASSUME PathInv, NEW takes, NEW answered, NEW held, MemoryPeriod(takes, answered, held)
    PROVE  PathInv'
  <1> DEFINE v == [req |-> ad.req, rsp |-> ad.rsp, mem |-> mem]
  <1>1. PICK u \in Periods(v, Depth, takes, answered, held) :
            /\ ad' = [ad EXCEPT !.req = u.req, !.rsp = u.rsp]
            /\ mem' = u.mem
            /\ UNCHANGED <<program, rtl, ops, answers>>
    BY DEF MemoryPeriod
  <1>2. /\ PathType /\ ad \in Adapters /\ mem \in Memories /\ OpsType
        /\ Tagged(ad, Inside(mem)) /\ DmaTurn(ad, rtl.access, rtl.wants)
    BY DEF PathInv, PathType
  <1>3. Bridge(v, ad.tickets)
    BY <1>2 DEF Bridge, Adapters, Tagged
  <1> HIDE DEF v
  <1>4. Bridge(u, ad.tickets)
    BY <1>1, <1>2, <1>3, PeriodKeeps
  <1>5. /\ ad' \in Adapters /\ mem' \in Memories
        /\ ad'.req = u.req /\ ad'.rsp = u.rsp /\ ad'.tickets = ad.tickets
        /\ KeepsDma(ad, ad')
    BY <1>1, <1>2, <1>4 DEF Bridge, Adapters, KeepsDma
  <1>6. OpsGrow /\ OpsType'
    BY <1>1, <1>2 DEF PathType, OpsGrow, OpsType
  <1>7. PathType'
    <2>1. ad' \in Adapters' /\ mem' \in Memories'
      BY <1>5, <1>6, StateGrows
    <2>2. answers' \subseteq Returns' /\ Accesses \subseteq Accesses'
      BY <1>1, <1>2, <1>6, OwnedGrow DEF PathType
    <2> QED
      BY <1>1, <1>2, <1>6, <2>1, <2>2 DEF PathType
  <1>8. Tagged(ad, Inside(mem))'
    <2>1. Tagged(ad', Inside(mem'))
      BY <1>1, <1>4, <1>5 DEF Bridge, Tagged
    <2> QED
      BY <1>5, <1>6, <2>1, TaggedGrows DEF Adapters
  <1>9. DmaTurn(ad, rtl.access, rtl.wants)'
    BY <1>1, <1>2, <1>5 DEF DmaTurn, DmaTickets, KeepsDma
  <1> QED
    BY <1>7, <1>8, <1>9 DEF PathInv

\* A step that changes nothing.
LEMMA PathStutter ==
    ASSUME PathInv, UNCHANGED vars
    PROVE  PathInv'
  <1>1. /\ ad \in Adapters /\ mem \in Memories /\ PathType
        /\ Tagged(ad, Inside(mem)) /\ DmaTurn(ad, rtl.access, rtl.wants)
        /\ ad' = ad /\ mem' = mem /\ rtl' = rtl /\ ops' = ops
        /\ program' = program /\ answers' = answers
    BY DEF PathInv, PathType, vars
  <1>2. OpsGrow /\ OpsType'
    BY <1>1 DEF PathType, OpsGrow, OpsType
  <1>3. PathType'
    <2>1. ad' \in Adapters' /\ mem' \in Memories'
      BY <1>1, <1>2, StateGrows
    <2>2. answers' \subseteq Returns' /\ Accesses \subseteq Accesses'
      BY <1>1, <1>2, OwnedGrow DEF PathType
    <2> QED
      BY <1>1, <1>2, <2>1, <2>2 DEF PathType
  <1>4. Tagged(ad, Inside(mem))'
    BY <1>1, <1>2, TaggedGrows DEF Adapters
  <1>5. DmaTurn(ad, rtl.access, rtl.wants)'
    BY <1>1 DEF DmaTurn, DmaTickets
  <1> QED
    BY <1>3, <1>4, <1>5 DEF PathInv

-----------------------------------------------------------------------------
(* What holds of every behaviour                                             *)

\* The queues of the adapter and of the bridge hold accesses that were issued, each
\* with the fields its request asked for (sparse_gate_backend.cc, memsim_backend.cc);
\* the accesses in the memory have the tickets, one each, of their owner; and the
\* engine has one access at a time (sparse_gate_backend.cc:101-135).
THEOREM PathInvariant == Spec => []PathInv
  <1>1. PathInv /\ [Next]_vars => PathInv'
    <2> SUFFICES ASSUME PathInv, [Next]_vars PROVE PathInv'
      OBVIOUS
    <2>1. CASE HostIssues
      BY <2>1, HostIssuesKeeps
    <2>2. CASE HostTakes
      BY <2>2, HostTakesKeeps
    <2>3. CASE EngineAsks
      BY <2>3, EngineAsksKeeps
    <2>4. ASSUME NEW moves \in Moves, NEW shows \in SUBSET rtl.wants, Clock(moves, shows)
          PROVE  PathInv'
      BY <2>4, ClockKeeps
    <2>5. ASSUME NEW takes \in BOOLEAN, NEW held \in BOOLEAN,
                 NEW answered \in SUBSET (Children(mem)), MemoryPeriod(takes, answered, held)
          PROVE  PathInv'
      BY <2>5, MemoryPeriodKeeps
    <2>6. CASE Finished \/ UNCHANGED vars
      BY <2>6, PathStutter DEF Finished
    <2> QED
      BY <2>1, <2>2, <2>3, <2>4, <2>5, <2>6 DEF Next
  <1> QED
    BY <1>1, InitPath, PTL DEF Spec

\* Two queues with no tag in common, one behind the other.
LEMMA Joined ==
    ASSUME NEW S, NEW p \in Seq(S), NEW q \in Seq(S), NEW tickets,
           Distinct(p), Distinct(q), Ids(p) \cap Ids(q) = {},
           Ticketed(p, tickets), Ticketed(q, tickets)
    PROVE  /\ p \o q \in Seq(S) /\ Distinct(p \o q) /\ Ids(p \o q) = Ids(p) \cup Ids(q)
           /\ Ticketed(p \o q, tickets)
  <1> DEFINE c == p \o q
  <1>1. /\ Len(p) \in Nat /\ Len(q) \in Nat /\ DOMAIN p = 1 .. Len(p) /\ DOMAIN q = 1 .. Len(q)
        /\ c \in Seq(S) /\ Len(c) = Len(p) + Len(q) /\ DOMAIN c = 1 .. Len(p) + Len(q)
        /\ \A i \in 1 .. Len(p) : c[i] = p[i]
        /\ \A i \in 1 .. Len(q) : c[i + Len(p)] = q[i]
        /\ \A i \in 1 .. Len(p) + Len(q) :
              IF i <= Len(p) THEN c[i] = p[i] ELSE c[i] = q[i - Len(p)]
    BY ConcatProperties
  <1> HIDE DEF c
  <1>2. ASSUME NEW i \in DOMAIN c, i <= Len(p)
        PROVE  i \in DOMAIN p /\ c[i] = p[i] /\ c[i].id \in Ids(p)
    BY <1>1, <1>2 DEF Ids
  <1>3. ASSUME NEW i \in DOMAIN c, i > Len(p)
        PROVE  /\ i - Len(p) \in DOMAIN q /\ c[i] = q[i - Len(p)] /\ c[i].id \in Ids(q)
    <2>1. i - Len(p) \in DOMAIN q /\ c[i] = q[i - Len(p)]
      BY <1>1, <1>3
    <2> QED
      BY <2>1, Zenon DEF Ids
  <1>4. \A i \in DOMAIN c : i <= Len(p) \/ i > Len(p)
    BY <1>1
  <1>5. Ticketed(c, tickets)
    BY <1>2, <1>3, <1>4, Zenon DEF Ticketed
  <1>6. Distinct(c)
    <2> SUFFICES ASSUME NEW i \in DOMAIN c, NEW j \in DOMAIN c, c[i].id = c[j].id PROVE i = j
      BY DEF Distinct
    <2>1. CASE i <= Len(p) /\ j <= Len(p)
      BY <1>1, <2>1 DEF Distinct
    <2>2. CASE i > Len(p) /\ j > Len(p)
      <3>1. i - Len(p) = j - Len(p)
        BY <1>3, <2>2 DEF Distinct
      <3> QED
        BY <1>1, <3>1
    <2>3. CASE i <= Len(p) /\ j > Len(p)
      BY <1>2, <1>3, <2>3
    <2>4. CASE i > Len(p) /\ j <= Len(p)
      BY <1>2, <1>3, <2>4
    <2> QED
      BY <1>1, <2>1, <2>2, <2>3, <2>4
  <1>7. Ids(c) \subseteq Ids(p) \cup Ids(q)
    BY <1>2, <1>3, <1>4, Zenon DEF Ids
  <1>8. Ids(p) \subseteq Ids(c)
    BY <1>1 DEF Ids
  <1>9. Ids(q) \subseteq Ids(c)
    <2> SUFFICES ASSUME NEW i \in DOMAIN q PROVE q[i].id \in Ids(c)
      BY DEF Ids
    <2>1. i + Len(p) \in DOMAIN c /\ c[i + Len(p)] = q[i]
      BY <1>1
    <2> QED
      BY <2>1 DEF Ids
  <1> QED
    BY <1>1, <1>5, <1>6, <1>7, <1>8, <1>9 DEF c

\* As many requests as tags.
LEMMA TagsCounted ==
    ASSUME NEW S, NEW q \in Seq(S), Distinct(q)
    PROVE  Cardinality(Ids(q)) = Len(q)
  <1> DEFINE f == [i \in 1 .. Len(q) |-> q[i].id]
  <1>1. Len(q) \in Nat /\ DOMAIN q = 1 .. Len(q)
    OBVIOUS
  <1>2. f \in [1 .. Len(q) -> Ids(q)]
    BY <1>1 DEF Ids
  <1>3. \A i, j \in 1 .. Len(q) : f[i] = f[j] => i = j
    BY <1>1 DEF Distinct
  <1>4. \A t \in Ids(q) : \E i \in 1 .. Len(q) : f[i] = t
    BY <1>1 DEF Ids
  <1> HIDE DEF f
  <1>5. f \in Bijection(1 .. Len(q), Ids(q))
    BY <1>2, <1>3, <1>4 DEF Bijection, Injection, Surjection, IsInjective
  <1>6. IsFiniteSet(1 .. Len(q)) /\ Cardinality(1 .. Len(q)) = Len(q)
    BY <1>1, FS_Interval
  <1> QED
    BY <1>5, <1>6, FS_Bijection DEF ExistsBijection

\* Every ticket is for one access in the memory, of its direction and owner, and no
\* access there is without (sparse_gate_backend.cc:155-162): a tag is used again
\* only when its ticket is gone.
THEOREM TicketsAlwaysHold == Spec => []TicketsHold
  <1>1. PathInv => TicketsHold
    <2> SUFFICES ASSUME PathInv PROVE TicketsHold
      OBVIOUS
    <2> DEFINE X == MemRequests \cup MemAnswers
               inside == Inside(mem)
               front == ad.req \o inside
               under == front \o ad.rsp
    <2>1. ad \in Adapters /\ mem \in Memories /\ Tagged(ad, inside)
      BY DEF PathInv, PathType
    <2>2. ad.req \in Seq(X) /\ inside \in Seq(X) /\ ad.rsp \in Seq(X)
      <3>1. ad.req \in Seq(MemRequests) /\ inside \in Seq(MemRequests) /\ ad.rsp \in Seq(MemAnswers)
        BY <2>1, InsideIs DEF Adapters
      <3> QED
        BY <3>1, SeqMonotonic, Zenon
    <2> HIDE DEF X, inside
    <2>3. /\ front \in Seq(X) /\ Distinct(front) /\ Ids(front) = Ids(ad.req) \cup Ids(inside)
          /\ Ticketed(front, ad.tickets)
      BY <2>1, <2>2, Joined DEF Tagged
    <2> HIDE DEF front
    <2>4. /\ under \in Seq(X) /\ Distinct(under) /\ Ids(under) = Ids(front) \cup Ids(ad.rsp)
          /\ Ticketed(under, ad.tickets)
      <3>1. Ids(front) \cap Ids(ad.rsp) = {}
        BY <2>1, <2>3 DEF Tagged
      <3> QED
        BY <2>1, <2>2, <2>3, <3>1, Joined DEF Tagged
    <2>5. Ids(under) = DOMAIN ad.tickets
      BY <2>1, <2>3, <2>4 DEF Tagged
    <2>6. Len(under) = Cardinality(DOMAIN ad.tickets)
      BY <2>4, <2>5, TagsCounted
    <2>7. under = ad.req \o [i \in DOMAIN mem.bursts |-> mem.bursts[i].req] \o ad.rsp
      BY DEF front, inside, Inside
    <2> HIDE DEF under
    <2>8. /\ {under[i].id : i \in DOMAIN under} = DOMAIN ad.tickets
          /\ Len(under) = Cardinality(DOMAIN ad.tickets)
      BY <2>5, <2>6 DEF Ids
    <2>9. \A i \in DOMAIN under :
             LET t == ad.tickets[under[i].id]
                 o == ops[under[i].op]
             IN  /\ t.dma = o.dma /\ t.write = o.shape.write
                 /\ ~t.dma => t.rp = o.shape.rp /\ t.id = o.shape.id
      BY <2>4, Zenon DEF Ticketed, TicketOf
    <2> QED
      BY <2>7, <2>8, <2>9, ZenonT(40) DEF TicketsHold
  <1> QED
    BY <1>1, PathInvariant, PTL
-----------------------------------------------------------------------------
(* The order of the answers                                                  *)

\* Where an access that was admitted, or asked for by the engine, may be.
Places == {"wait", "mmio", "bypass", "dreq", "req", "inside", "rsp", "completed", "drsp"}

\* The number of the request in an entry of the register slot.
Numbers(q) == [i \in DOMAIN q |-> q[i].op]
SlotNumbers(q) == [i \in DOMAIN q |-> q[i].req.op]

QueueAt(s, inside, p) ==
    CASE p = "wait" -> Numbers(s.mmio_wait)
      [] p = "mmio" -> SlotNumbers(s.mmio)
      [] p = "bypass" -> Numbers(s.bypass)
      [] p = "dreq" -> Numbers(s.dreq)
      [] p = "req" -> Numbers(s.req)
      [] p = "inside" -> Numbers(inside)
      [] p = "rsp" -> Numbers(s.rsp)
      [] p = "completed" -> Numbers(s.completed)
      [] p = "drsp" -> Numbers(s.drsp)

Queues(s, inside) == [p \in Places |-> QueueAt(s, inside, p)]

\* No access is twice in the queues F.
Once(F) ==
    \A p, q \in DOMAIN F : \A i \in DOMAIN F[p], j \in DOMAIN F[q] :
        F[p][i] = F[q][j] => p = q /\ i = j

Held(F) == UNION {Range(F[p]) : p \in DOMAIN F}

GroupOf(n) == Group(ops[n].shape)
OfHost(T) == {n \in T : ~ops[n].dma}

\* Requests not admitted yet, and answers on their way to the host.
Waiting(s) == Range(Numbers(s.pending)) \cup Range(Numbers(s.hreq))
Leaving(s) == Range(Numbers(s.hrsp))

Ascending(q) == \A i, j \in DOMAIN q : i < j => q[i].op < q[j].op

\* Requests are admitted in the order they came.
InTurn(s) ==
    /\ Ascending(s.pending) /\ Ascending(s.hreq)
    /\ \A i \in DOMAIN s.pending, j \in DOMAIN s.hreq : s.pending[i].op < s.hreq[j].op
    /\ \A m \in Waiting(s), n \in HostOps \ Waiting(s) : n < m

\* One of a group at a time.
OneOfGroup(s, held) ==
    /\ s.groups = {GroupOf(n) : n \in OfHost(held)}
    /\ \A m, n \in OfHost(held) : GroupOf(m) = GroupOf(n) => m = n

\* Every request of the host is in one place.
InOnePlace(s, held, done) ==
    /\ HostOps = Waiting(s) \cup OfHost(held) \cup Leaving(s) \cup OfHost(done)
    /\ Waiting(s) \cap (held \cup Leaving(s) \cup done) = {}
    /\ held \cap Leaving(s) = {} /\ held \cap done = {} /\ Leaving(s) \cap done = {}

\* An earlier request of the group is farther on its way.
InGroupOrder(s, held, done) ==
    /\ \A m \in OfHost(held), n \in HostOps \ Waiting(s) :
          GroupOf(m) = GroupOf(n) => n <= m
    /\ \A i, j \in DOMAIN s.hrsp :
          /\ s.hrsp[i].op = s.hrsp[j].op => i = j
          /\ i < j /\ GroupOf(s.hrsp[i].op) = GroupOf(s.hrsp[j].op)
                => s.hrsp[i].op < s.hrsp[j].op
    /\ \A m \in Leaving(s), n \in OfHost(done) : GroupOf(m) = GroupOf(n) => n < m

\* The engine's access is the one it waits for.
EngineWaits(held, access, done) ==
    /\ \A n \in held : ops[n].dma => n = access.op
    /\ access.op \notin done

Order(s, inside, access, done) ==
    LET F == Queues(s, inside)
        held == Held(F)
    IN  /\ Len(s.mmio) <= 1 /\ Once(F)
        /\ InTurn(s) /\ OneOfGroup(s, held) /\ InOnePlace(s, held, done)
        /\ InGroupOrder(s, held, done) /\ EngineWaits(held, access, done)

OrderInv ==
    /\ Order(ad, Inside(mem), rtl.access, Answered)
    /\ \A a, b \in answers : a.op = b.op => a = b

\* Who is held, where.
LEMMA HeldIs ==
    ASSUME NEW F, NEW n
    PROVE  n \in Held(F) <=> \E p \in DOMAIN F : \E i \in DOMAIN F[p] : F[p][i] = n
  BY DEF Held, Range

Lists == [Places -> Seq(Nat)]

\* The first of the queue a leaves it; n becomes the last of b; the first of a does.
Leaves(F, G, a) == F[a] # <<>> /\ G[a] = Tail(F[a]) /\ \A p \in Places \ {a} : G[p] = F[p]
Joins(F, G, b, n) == G[b] = Append(F[b], n) /\ \A p \in Places \ {b} : G[p] = F[p]
Passes(F, G, a, b) ==
    /\ a # b /\ F[a] # <<>> /\ G[a] = Tail(F[a]) /\ G[b] = Append(F[b], Head(F[a]))
    /\ \A p \in Places \ {a, b} : G[p] = F[p]

\* The first of a queue leaves it.
LEMMA QueueLeaves ==
    ASSUME NEW F \in Lists, NEW G \in Lists, NEW a \in Places, Once(F), Leaves(F, G, a)
    PROVE  /\ Once(G) /\ Held(G) = Held(F) \ {Head(F[a])}
           /\ Head(F[a]) \in Held(F) /\ Head(F[a]) \in Nat
  <1> DEFINE h == Head(F[a])
  <1>1. /\ DOMAIN F = Places /\ DOMAIN G = Places
        /\ F[a] \in Seq(Nat) /\ 1 \in DOMAIN F[a] /\ h = F[a][1] /\ h \in Nat
        /\ \A i \in DOMAIN G[a] : i + 1 \in DOMAIN F[a] /\ i \in Nat \ {0}
                                  /\ G[a][i] = F[a][i + 1]
        /\ \A i \in DOMAIN F[a] : i # 1 => i - 1 \in DOMAIN G[a] /\ G[a][i - 1] = F[a][i]
        /\ \A p \in Places \ {a} : G[p] = F[p]
    BY SMTT(30) DEF Lists, Leaves
  <1>2. Once(G)
    <2> SUFFICES ASSUME NEW p \in Places, NEW q \in Places, NEW i \in DOMAIN G[p],
                        NEW j \in DOMAIN G[q], G[p][i] = G[q][j]
                 PROVE  p = q /\ i = j
      BY <1>1 DEF Once
    <2> DEFINE k == IF p = a THEN i + 1 ELSE i
               l == IF q = a THEN j + 1 ELSE j
    <2>1. /\ k \in DOMAIN F[p] /\ F[p][k] = G[p][i]
          /\ l \in DOMAIN F[q] /\ F[q][l] = G[q][j]
      BY <1>1
    <2> HIDE DEF k, l
    <2>2. p = q /\ k = l
      BY <1>1, <2>1 DEF Once
    <2> QED
      BY <1>1, <2>2 DEF k, l
  <1>3. \A p \in Places : \A i \in DOMAIN F[p] : F[p][i] = h => p = a /\ i = 1
    BY <1>1 DEF Once
  <1>4. Held(G) \subseteq Held(F) \ {h}
    <2> SUFFICES ASSUME NEW n \in Held(G)
                 PROVE  n \in Held(F) /\ n # h
      OBVIOUS
    <2>9. PICK p \in Places : \E i \in DOMAIN G[p] : G[p][i] = n
      BY <1>1, HeldIs
    <2>0. PICK i \in DOMAIN G[p] : G[p][i] = n
      BY <2>9
    <2>1. CASE p = a
      BY <1>1, <1>3, <2>0, <2>1, HeldIs
    <2>2. CASE p # a
      BY <1>1, <1>3, <2>0, <2>2, HeldIs
    <2> QED
      BY <2>1, <2>2
  <1>5. Held(F) \ {h} \subseteq Held(G)
    <2> SUFFICES ASSUME NEW n \in Held(F), n # h
                 PROVE  n \in Held(G)
      OBVIOUS
    <2>9. PICK p \in Places : \E i \in DOMAIN F[p] : F[p][i] = n
      BY <1>1, HeldIs
    <2>0. PICK i \in DOMAIN F[p] : F[p][i] = n
      BY <2>9
    <2>1. CASE p = a
      <3>1. i # 1
        BY <1>1, <2>0, <2>1
      <3> QED
        BY <1>1, <2>0, <2>1, <3>1, HeldIs
    <2>2. CASE p # a
      BY <1>1, <2>0, <2>2, HeldIs
    <2> QED
      BY <2>1, <2>2
  <1>6. h \in Held(F)
    BY <1>1, HeldIs
  <1> QED
    BY <1>1, <1>2, <1>4, <1>5, <1>6

\* A new one comes last.
LEMMA QueueJoins ==
    ASSUME NEW F \in Lists, NEW G \in Lists, NEW b \in Places, NEW n \in Nat,
           n \notin Held(F), Once(F), Joins(F, G, b, n)
    PROVE  Once(G) /\ Held(G) = Held(F) \cup {n}
  <1> DEFINE last == Len(F[b]) + 1
  <1>1. /\ DOMAIN F = Places /\ DOMAIN G = Places
        /\ F[b] \in Seq(Nat) /\ last \in DOMAIN G[b] /\ G[b][last] = n
        /\ \A i \in DOMAIN G[b] : i # last => i \in DOMAIN F[b] /\ G[b][i] = F[b][i]
        /\ \A i \in DOMAIN F[b] : i \in DOMAIN G[b] /\ G[b][i] = F[b][i]
        /\ \A p \in Places \ {b} : G[p] = F[p]
    BY DEF Lists, Joins
  <1> HIDE DEF last
  <1>2. \A p \in Places : \A i \in DOMAIN F[p] : F[p][i] # n
    BY <1>1, HeldIs
  <1>3. \A p \in Places : \A i \in DOMAIN G[p] :
            IF p = b /\ i = last THEN G[p][i] = n
                                 ELSE i \in DOMAIN F[p] /\ G[p][i] = F[p][i]
    BY <1>1
  <1>4. Once(G)
    <2> SUFFICES ASSUME NEW p \in Places, NEW q \in Places, NEW i \in DOMAIN G[p],
                        NEW j \in DOMAIN G[q], G[p][i] = G[q][j]
                 PROVE  p = q /\ i = j
      BY <1>1 DEF Once
    <2>1. CASE (p = b /\ i = last) \/ (q = b /\ j = last)
      BY <1>2, <1>3, <2>1
    <2>2. CASE ~((p = b /\ i = last) \/ (q = b /\ j = last))
      BY <1>1, <1>3, <2>2 DEF Once
    <2> QED
      BY <2>1, <2>2
  <1>5. Held(G) \subseteq Held(F) \cup {n}
    BY <1>1, <1>3, HeldIs
  <1>6. Held(F) \subseteq Held(G)
    <2> SUFFICES ASSUME NEW m \in Held(F)
                 PROVE  m \in Held(G)
      OBVIOUS
    <2>9. PICK p \in Places : \E i \in DOMAIN F[p] : F[p][i] = m
      BY <1>1, HeldIs
    <2>0. PICK i \in DOMAIN F[p] : F[p][i] = m
      BY <2>9
    <2>1. i \in DOMAIN G[p] /\ G[p][i] = F[p][i]
      BY <1>1
    <2> QED
      BY <1>1, <2>0, <2>1, HeldIs
  <1>7. n \in Held(G)
    BY <1>1, HeldIs
  <1> QED
    BY <1>4, <1>5, <1>6, <1>7

\* The first of a queue becomes the last of another.
LEMMA QueueMoves ==
    ASSUME NEW F \in Lists, NEW G \in Lists, NEW a \in Places, NEW b \in Places,
           Once(F), Passes(F, G, a, b)
    PROVE  Once(G) /\ Held(G) = Held(F)
  <1> DEFINE h == Head(F[a])
             H == [F EXCEPT ![a] = Tail(@)]
  <1>1. H \in Lists /\ Leaves(F, H, a) /\ Joins(H, G, b, h)
    <2>1. Tail(F[a]) \in Seq(Nat)
      BY DEF Lists, Passes
    <2>2. /\ H \in Lists /\ H[a] = Tail(F[a])
          /\ \A p \in Places \ {a} : H[p] = F[p]
      BY <2>1 DEF Lists
    <2> HIDE DEF H
    <2> QED
      BY <2>2 DEF Leaves, Joins, Passes
  <1> HIDE DEF H
  <1>2. /\ Once(H) /\ Held(H) = Held(F) \ {h} /\ h \in Held(F) /\ h \in Nat
    BY <1>1, QueueLeaves
  <1> HIDE DEF h
  <1>3. Once(G) /\ Held(G) = Held(H) \cup {h}
    BY <1>1, <1>2, QueueJoins
  <1> QED
    BY <1>2, <1>3

\* The numbers in a queue.
LEMMA NumbersAre ==
    ASSUME NEW S, \A x \in S : x.op \in Nat, NEW q \in Seq(S)
    PROVE  /\ Numbers(q) \in Seq(Nat) /\ DOMAIN Numbers(q) = DOMAIN q
           /\ Numbers(q) = <<>> <=> q = <<>>
           /\ q # <<>> => /\ Numbers(Tail(q)) = Tail(Numbers(q))
                          /\ Head(Numbers(q)) = Head(q).op
           /\ \A x \in S : Numbers(Append(q, x)) = Append(Numbers(q), x.op)
  <1>1. /\ Numbers(q) \in Seq(Nat) /\ DOMAIN Numbers(q) = DOMAIN q /\ Len(Numbers(q)) = Len(q)
        /\ \A i \in 1 .. Len(q) : Numbers(q)[i] = q[i].op
        /\ DOMAIN q = 1 .. Len(q) /\ Len(q) \in Nat
    <2>1. \A i \in 1 .. Len(q) : q[i].op \in Nat
      OBVIOUS
    <2> QED
      BY <2>1 DEF Numbers
  <1>2. ASSUME NEW x \in S
        PROVE  Numbers(Append(q, x)) = Append(Numbers(q), x.op)
    <2>1. /\ Append(q, x) \in Seq(S) /\ Len(Append(q, x)) = Len(q) + 1
          /\ \A i \in 1 .. Len(q) + 1 : Append(q, x)[i] = IF i <= Len(q) THEN q[i] ELSE x
      OBVIOUS
    <2>2. /\ Append(Numbers(q), x.op) \in Seq(Nat)
          /\ Len(Append(Numbers(q), x.op)) = Len(q) + 1
          /\ \A i \in 1 .. Len(q) + 1 :
                Append(Numbers(q), x.op)[i] = IF i <= Len(q) THEN q[i].op ELSE x.op
      BY <1>1
    <2>3. Numbers(Append(q, x)) = [i \in 1 .. Len(q) + 1 |-> Append(q, x)[i].op]
      BY <2>1 DEF Numbers
    <2>4. Append(Numbers(q), x.op) = [i \in 1 .. Len(q) + 1 |-> Append(Numbers(q), x.op)[i]]
      BY <2>2
    <2>5. \A i \in 1 .. Len(q) + 1 : Append(q, x)[i].op = Append(Numbers(q), x.op)[i]
      BY <2>1, <2>2
    <2> QED
      BY <2>3, <2>4, <2>5
  <1>3. ASSUME q # <<>>
        PROVE  Numbers(Tail(q)) = Tail(Numbers(q)) /\ Head(Numbers(q)) = Head(q).op
    <2>1. /\ Tail(q) \in Seq(S) /\ Len(Tail(q)) = Len(q) - 1 /\ Len(q) \in Nat \ {0}
          /\ \A i \in 1 .. Len(q) - 1 : Tail(q)[i] = q[i + 1]
          /\ Head(q) = q[1]
      BY <1>3
    <2>2. /\ Tail(Numbers(q)) \in Seq(Nat) /\ Len(Tail(Numbers(q))) = Len(q) - 1
          /\ \A i \in 1 .. Len(q) - 1 : Tail(Numbers(q))[i] = q[i + 1].op
          /\ Head(Numbers(q)) = q[1].op
      BY <1>1, <2>1
    <2>3. Numbers(Tail(q)) = [i \in 1 .. Len(q) - 1 |-> Tail(q)[i].op]
      BY <2>1 DEF Numbers
    <2>4. Tail(Numbers(q)) = [i \in 1 .. Len(q) - 1 |-> Tail(Numbers(q))[i]]
      <3> DEFINE r == Tail(Numbers(q))
      <3>1. r \in Seq(Nat) /\ Len(r) = Len(q) - 1
        BY <2>2
      <3> HIDE DEF r
      <3>2. r = [i \in 1 .. Len(q) - 1 |-> r[i]]
        BY <3>1
      <3> QED
        BY <3>2 DEF r
    <2>5. \A i \in 1 .. Len(q) - 1 : Tail(q)[i].op = Tail(Numbers(q))[i]
      BY <2>1, <2>2
    <2> QED
      BY <2>1, <2>2, <2>3, <2>4, <2>5
  <1>4. Numbers(q) = <<>> <=> q = <<>>
    BY <1>1
  <1> QED
    BY <1>1, <1>2, <1>3, <1>4

-----------------------------------------------------------------------------
(* The queues of the adapter                                                 *)

Ops(q) == {q[i].op : i \in DOMAIN q}

\* The numbers in a queue are those of accesses that were issued.
LEMMA OpsIssued ==
    ASSUME OpsType
    PROVE  /\ DOMAIN ops \subseteq Nat
           /\ \A x \in HostRequests : x.op \in DOMAIN ops /\ x.op \in Nat /\ ~ops[x.op].dma
           /\ \A x \in MemoryBound : x.op \in DOMAIN ops /\ x.op \in Nat /\ ~ops[x.op].dma
           /\ \A x \in RegisterBound : x.op \in DOMAIN ops /\ x.op \in Nat /\ ~ops[x.op].dma
           /\ \A x \in Registers : /\ x.req.op \in DOMAIN ops /\ x.req.op \in Nat
                                   /\ ~ops[x.req.op].dma
           /\ \A x \in Accesses : x.op \in DOMAIN ops /\ x.op \in Nat /\ ops[x.op].dma
           /\ \A x \in MemRequests : x.op \in DOMAIN ops /\ x.op \in Nat
           /\ \A x \in MemAnswers : x.op \in DOMAIN ops /\ x.op \in Nat
           /\ \A x \in HostReturns : x.op \in DOMAIN ops /\ x.op \in Nat /\ ~ops[x.op].dma
           /\ \A x \in DmaReturns : x.op \in DOMAIN ops /\ x.op \in Nat /\ ops[x.op].dma
  <1>1. DOMAIN ops \subseteq Nat
    BY DEF OpsType
  <1>2. \A x \in HostRequests : x.op \in DOMAIN ops /\ x.op \in Nat /\ ~ops[x.op].dma
    BY DEF HostRequests
  <1>3. /\ \A x \in MemoryBound : x \in HostRequests
        /\ \A x \in RegisterBound : x \in HostRequests
        /\ \A x \in Registers : x.req \in HostRequests
    BY DEF MemoryBound, RegisterBound, Registers
  <1>4. \A x \in Accesses : x.op \in DOMAIN ops /\ x.op \in Nat /\ ops[x.op].dma
    BY DEF Accesses
  <1>5. /\ \A x \in MemRequests : x.op \in DOMAIN ops /\ x.op \in Nat
        /\ \A x \in MemAnswers : x.op \in DOMAIN ops /\ x.op \in Nat
    BY DEF MemRequests, MemAnswers
  <1>6. /\ \A x \in HostReturns : x.op \in DOMAIN ops /\ x.op \in Nat /\ ~ops[x.op].dma
        /\ \A x \in DmaReturns : x.op \in DOMAIN ops /\ x.op \in Nat /\ ops[x.op].dma
    BY DEF HostReturns, DmaReturns, Returns
  <1> QED
    BY <1>1, <1>2, <1>3, <1>4, <1>5, <1>6

\* The register slot, which holds one access at most.
LEMMA SlotIs ==
    ASSUME NEW q \in Seq(Registers), OpsType
    PROVE  /\ SlotNumbers(q) \in Seq(Nat)
           /\ SlotNumbers(<<>>) = <<>>
           /\ q # <<>> /\ Len(q) <= 1 => /\ SlotNumbers(q) = <<q[1].req.op>>
                                         /\ q[1] \in Registers
           /\ \A m \in Registers : SlotNumbers(<<m>>) = <<m.req.op>>
  <1>1. SlotNumbers(q) \in Seq(Nat)
    <2>1. \A i \in 1 .. Len(q) : q[i].req.op \in Nat
      BY OpsIssued
    <2> QED
      BY <2>1 DEF SlotNumbers
  <1>2. SlotNumbers(<<>>) = <<>>
    BY DEF SlotNumbers
  <1>3. \A m \in Registers : SlotNumbers(<<m>>) = <<m.req.op>>
    <2> SUFFICES ASSUME NEW m \in Registers PROVE SlotNumbers(<<m>>) = <<m.req.op>>
      OBVIOUS
    <2>1. SlotNumbers(<<m>>) = [i \in 1 .. 1 |-> m.req.op]
      BY DEF SlotNumbers
    <2>2. <<m.req.op>> = [i \in 1 .. 1 |-> m.req.op]
      OBVIOUS
    <2> QED
      BY <2>1, <2>2
  <1>4. ASSUME q # <<>>, Len(q) <= 1
        PROVE  q = <<q[1]>> /\ q[1] \in Registers
    BY <1>4
  <1> QED
    BY <1>1, <1>2, <1>3, <1>4

\* The queues of accesses that are held.
LEMMA QueuesAre ==
    ASSUME OpsType, NEW s \in Adapters, NEW inside \in Seq(MemRequests)
    PROVE  /\ Queues(s, inside) \in Lists
           /\ Queues(s, inside)["wait"] = Numbers(s.mmio_wait)
           /\ Queues(s, inside)["mmio"] = SlotNumbers(s.mmio)
           /\ Queues(s, inside)["bypass"] = Numbers(s.bypass)
           /\ Queues(s, inside)["dreq"] = Numbers(s.dreq)
           /\ Queues(s, inside)["req"] = Numbers(s.req)
           /\ Queues(s, inside)["inside"] = Numbers(inside)
           /\ Queues(s, inside)["rsp"] = Numbers(s.rsp)
           /\ Queues(s, inside)["completed"] = Numbers(s.completed)
           /\ Queues(s, inside)["drsp"] = Numbers(s.drsp)
  <1> DEFINE F == Queues(s, inside)
  <1>1. /\ F["wait"] = Numbers(s.mmio_wait) /\ F["mmio"] = SlotNumbers(s.mmio)
        /\ F["bypass"] = Numbers(s.bypass) /\ F["dreq"] = Numbers(s.dreq)
        /\ F["req"] = Numbers(s.req) /\ F["inside"] = Numbers(inside)
        /\ F["rsp"] = Numbers(s.rsp) /\ F["completed"] = Numbers(s.completed)
        /\ F["drsp"] = Numbers(s.drsp)
    BY DEF Queues, QueueAt, Places
  <1>2. /\ Numbers(s.mmio_wait) \in Seq(Nat) /\ Numbers(s.bypass) \in Seq(Nat)
        /\ Numbers(s.dreq) \in Seq(Nat) /\ Numbers(s.req) \in Seq(Nat)
        /\ Numbers(inside) \in Seq(Nat) /\ Numbers(s.rsp) \in Seq(Nat)
        /\ Numbers(s.completed) \in Seq(Nat) /\ Numbers(s.drsp) \in Seq(Nat)
    BY NumbersAre, OpsIssued DEF Adapters
  <1>3. SlotNumbers(s.mmio) \in Seq(Nat)
    BY SlotIs DEF Adapters
  <1>4. \A p \in Places : QueueAt(s, inside, p) \in Seq(Nat)
    BY <1>2, <1>3 DEF Places, QueueAt
  <1>5. F \in Lists
    BY <1>4 DEF Queues, Lists
  <1> QED
    BY <1>1, <1>5

\* Who is held, queue by queue.
LEMMA HeldInQueues ==
    ASSUME OpsType, NEW s \in Adapters, NEW inside \in Seq(MemRequests),
           NEW n \in Held(Queues(s, inside))
    PROVE  /\ n \in DOMAIN ops /\ n \in Nat
           /\ \/ ~ops[n].dma
              \/ n \in Ops(s.dreq) \cup Ops(s.req) \cup Ops(inside)
                       \cup Ops(s.rsp) \cup Ops(s.drsp)
  <1> DEFINE F == Queues(s, inside)
  <1>1. /\ DOMAIN F = Places
        /\ F["wait"] = Numbers(s.mmio_wait) /\ F["mmio"] = SlotNumbers(s.mmio)
        /\ F["bypass"] = Numbers(s.bypass) /\ F["dreq"] = Numbers(s.dreq)
        /\ F["req"] = Numbers(s.req) /\ F["inside"] = Numbers(inside)
        /\ F["rsp"] = Numbers(s.rsp) /\ F["completed"] = Numbers(s.completed)
        /\ F["drsp"] = Numbers(s.drsp)
    BY QueuesAre DEF Lists
  <1> HIDE DEF F
  <1>2. PICK p \in Places : \E i \in DOMAIN F[p] : F[p][i] = n
    BY <1>1, HeldIs DEF F
  <1>3. PICK i \in DOMAIN F[p] : F[p][i] = n
    BY <1>2
  <1>4. /\ s.mmio_wait \in Seq(RegisterBound) /\ s.mmio \in Seq(Registers)
        /\ s.bypass \in Seq(MemoryBound) /\ s.dreq \in Seq(Accesses)
        /\ s.req \in Seq(MemRequests) /\ s.rsp \in Seq(MemAnswers)
        /\ s.completed \in Seq(HostReturns) /\ s.drsp \in Seq(DmaReturns)
    BY DEF Adapters
  <1>5. CASE p = "wait"
    <2>1. i \in DOMAIN s.mmio_wait /\ n = s.mmio_wait[i].op
      BY <1>1, <1>3, <1>5 DEF Numbers
    <2> QED
      BY <1>4, <2>1, OpsIssued
  <1>6. CASE p = "mmio"
    <2>1. i \in DOMAIN s.mmio /\ n = s.mmio[i].req.op
      BY <1>1, <1>3, <1>6 DEF SlotNumbers
    <2> QED
      BY <1>4, <2>1, OpsIssued
  <1>7. CASE p = "bypass"
    <2>1. i \in DOMAIN s.bypass /\ n = s.bypass[i].op
      BY <1>1, <1>3, <1>7 DEF Numbers
    <2> QED
      BY <1>4, <2>1, OpsIssued
  <1>8. CASE p = "dreq"
    <2>1. i \in DOMAIN s.dreq /\ n = s.dreq[i].op
      BY <1>1, <1>3, <1>8 DEF Numbers
    <2> QED
      BY <1>4, <2>1, OpsIssued DEF Ops
  <1>9. CASE p = "req"
    <2>1. i \in DOMAIN s.req /\ n = s.req[i].op
      BY <1>1, <1>3, <1>9 DEF Numbers
    <2> QED
      BY <1>4, <2>1, OpsIssued DEF Ops
  <1>10. CASE p = "inside"
    <2>1. i \in DOMAIN inside /\ n = inside[i].op
      BY <1>1, <1>3, <1>10 DEF Numbers
    <2> QED
      BY <1>4, <2>1, OpsIssued DEF Ops
  <1>11. CASE p = "rsp"
    <2>1. i \in DOMAIN s.rsp /\ n = s.rsp[i].op
      BY <1>1, <1>3, <1>11 DEF Numbers
    <2> QED
      BY <1>4, <2>1, OpsIssued DEF Ops
  <1>12. CASE p = "completed"
    <2>1. i \in DOMAIN s.completed /\ n = s.completed[i].op
      BY <1>1, <1>3, <1>12 DEF Numbers
    <2> QED
      BY <1>4, <2>1, OpsIssued
  <1>13. CASE p = "drsp"
    <2>1. i \in DOMAIN s.drsp /\ n = s.drsp[i].op
      BY <1>1, <1>3, <1>13 DEF Numbers
    <2> QED
      BY <1>4, <2>1, OpsIssued DEF Ops
  <1> QED
    BY <1>5, <1>6, <1>7, <1>8, <1>9, <1>10, <1>11, <1>12, <1>13 DEF Places

\* When the engine has nothing on its way, what is held is of the host.
LEMMA EngineIdle ==
    ASSUME OpsType, NEW s, NEW inside \in Seq(MemRequests), s \in Adapters, Tagged(s, inside),
           s.dreq = <<>>, s.drsp = <<>>, DmaTickets(s) = {},
           NEW n \in Held(Queues(s, inside))
    PROVE  ~ops[n].dma
  <1>1. n \in DOMAIN ops /\ ops[n].dma \in BOOLEAN
    BY HeldInQueues, OpsAre
  <1>2. ASSUME NEW q, Ticketed(q, s.tickets), n \in Ops(q)
        PROVE  ~ops[n].dma
    <2>1. PICK i \in DOMAIN q : n = q[i].op
      BY <1>2 DEF Ops
    <2>2. q[i].id \in DOMAIN s.tickets /\ s.tickets[q[i].id].dma = ops[n].dma
      BY <1>2, <2>1 DEF Ticketed, TicketOf
    <2> QED
      BY <2>2 DEF DmaTickets
  <1>3. Ops(s.dreq) = {} /\ Ops(s.drsp) = {}
    BY DEF Ops
  <1> QED
    BY <1>2, <1>3, HeldInQueues DEF Tagged

-----------------------------------------------------------------------------
(* The stages of an edge keep the order                                      *)

SameEnds(s, t) ==
    t.pending = s.pending /\ t.hreq = s.hreq /\ t.hrsp = s.hrsp /\ t.groups = s.groups

\* Whatever is held stays held, elsewhere perhaps.
LEMMA StayOrder ==
    ASSUME NEW s, NEW t, NEW inside, NEW within, NEW access, NEW done,
           Order(s, inside, access, done), SameEnds(s, t), Len(t.mmio) <= 1,
           Once(Queues(t, within)), Held(Queues(t, within)) = Held(Queues(s, inside))
    PROVE  Order(t, within, access, done)
  BY DEF Order, InTurn, OneOfGroup, InOnePlace, InGroupOrder, SameEnds, Waiting, Leaving

\* An access goes from a queue to another.
LEMMA PassOrder ==
    ASSUME OpsType, NEW s \in Adapters, NEW t \in Adapters,
           NEW inside \in Seq(MemRequests), NEW within \in Seq(MemRequests),
           NEW access, NEW done, NEW a \in Places, NEW b \in Places,
           Order(s, inside, access, done), SameEnds(s, t), Len(t.mmio) <= 1,
           Passes(Queues(s, inside), Queues(t, within), a, b)
    PROVE  Order(t, within, access, done)
  <1>1. Queues(s, inside) \in Lists /\ Queues(t, within) \in Lists
    BY QueuesAre
  <1>2. Once(Queues(s, inside))
    BY DEF Order
  <1>3. Once(Queues(t, within)) /\ Held(Queues(t, within)) = Held(Queues(s, inside))
    BY <1>1, <1>2, QueueMoves
  <1> QED
    BY <1>3, StayOrder

\* No queue changes.
LEMMA IdleOrder ==
    ASSUME NEW s, NEW t, NEW inside, NEW access, NEW done,
           Order(s, inside, access, done), SameEnds(s, t), Len(t.mmio) <= 1,
           Queues(t, inside) = Queues(s, inside)
    PROVE  Order(t, inside, access, done)
  <1>1. Once(Queues(s, inside))
    BY DEF Order
  <1> QED
    BY <1>1, StayOrder

SameQueues(s, t) ==
    /\ t.mmio_wait = s.mmio_wait /\ t.mmio = s.mmio /\ t.bypass = s.bypass
    /\ t.dreq = s.dreq /\ t.req = s.req /\ t.rsp = s.rsp
    /\ t.completed = s.completed /\ t.drsp = s.drsp

\* Nothing that is queued changes.
LEMMA QuietOrder ==
    ASSUME NEW s, NEW t, NEW inside, NEW access, NEW done,
           Order(s, inside, access, done), SameEnds(s, t), SameQueues(s, t)
    PROVE  Order(t, inside, access, done)
  <1>1. Queues(t, inside) = Queues(s, inside)
    BY DEF SameQueues, Queues, QueueAt
  <1>2. Len(t.mmio) <= 1
    BY DEF SameQueues, Order
  <1> QED
    BY <1>1, <1>2, IdleOrder

\* slave_handshakes: a register access goes on, or is complete.
LEMMA SlaveOrder ==
    ASSUME OpsType, NEW s \in Adapters, NEW inside \in Seq(MemRequests), NEW moves,
           NEW access, NEW done, Order(s, inside, access, done),
           SlaveHandshakes(s, moves) \in Adapters
    PROVE  Order(SlaveHandshakes(s, moves), inside, access, done)
  <1> DEFINE t == SlaveHandshakes(s, moves)
             F == Queues(s, inside)
             G == Queues(t, inside)
  <1>1. CASE s.mmio = <<>>
    BY <1>1 DEF SlaveHandshakes
  <1>2. CASE s.mmio # <<>>
    <2> DEFINE m == s.mmio[1]
               beats == Len(m.req.lines)
               answers0 == /\ "answer" \in moves /\ m.addr /\ HasRoom(s) /\ ~m.complete
                           /\ m.req.write => m.sent = beats
               got == IF answers0 THEN m.got + 1 ELSE m.got
               addr == m.addr \/ "address" \in moves
               sent == IF m.req.write /\ m.sent < beats /\ "beat" \in moves
                       THEN m.sent + 1 ELSE m.sent
               complete == m.complete \/ (answers0 /\ (m.req.write \/ got = beats))
               after == [m EXCEPT !.addr = addr, !.sent = sent, !.got = got,
                                  !.complete = complete]
               answer == HostAnswer(m.req, 0, <<>>)
    <2>0. Len(s.mmio) <= 1
      BY DEF Order
    <2>1. /\ s.mmio \in Seq(Registers) /\ s.completed \in Seq(HostReturns)
          /\ Len(s.mmio) <= 1 /\ m \in Registers
      <3>1. s.mmio \in Seq(Registers) /\ s.completed \in Seq(HostReturns)
        BY DEF Adapters
      <3>2. m \in Registers
        BY <1>2, <3>1
      <3> QED
        BY <2>0, <3>1, <3>2
    <2>2. \/ t = [s EXCEPT !.mmio = <<>>, !.completed = Append(@, answer)]
          \/ t = [s EXCEPT !.mmio = <<after>>]
      BY <1>2, Zenon DEF SlaveHandshakes
    <2>3. after.req = m.req /\ answer.op = m.req.op /\ answer \in HostReturns
      BY <2>1, RegisterAnswer DEF Registers, HostAnswer
    <2>4. s.mmio = <<m>> /\ SlotNumbers(s.mmio) = <<m.req.op>>
      BY <1>2, <2>1, SlotIs
    <2> HIDE DEF after, answer, m, t
    <2>5. CASE t = [s EXCEPT !.mmio = <<>>, !.completed = Append(@, answer)]
      <3>1. /\ SameEnds(s, t) /\ t.mmio = <<>> /\ t.completed = Append(s.completed, answer)
            /\ t.mmio_wait = s.mmio_wait /\ t.bypass = s.bypass /\ t.dreq = s.dreq
            /\ t.req = s.req /\ t.rsp = s.rsp /\ t.drsp = s.drsp
        BY <2>5 DEF Adapters, SameEnds
      <3>2. Numbers(t.completed) = Append(Numbers(s.completed), m.req.op)
        <4>1. \A x \in HostReturns : x.op \in Nat
          BY OpsIssued
        <4> QED
          BY <2>1, <2>3, <3>1, <4>1, NumbersAre
      <3>3. SlotNumbers(t.mmio) = <<>>
        BY <2>1, <3>1, SlotIs
      <3>4. Passes(F, G, "mmio", "completed")
        <4>1. Tail(<<m.req.op>>) = <<>> /\ Head(<<m.req.op>>) = m.req.op /\ <<m.req.op>> # <<>>
          OBVIOUS
        <4>2. t \in Adapters
          BY DEF t
        <4> HIDE DEF F, G
        <4>3. /\ F["mmio"] = <<m.req.op>> /\ G["mmio"] = <<>>
              /\ G["completed"] = Append(F["completed"], m.req.op)
              /\ G["wait"] = F["wait"] /\ G["bypass"] = F["bypass"] /\ G["dreq"] = F["dreq"]
              /\ G["req"] = F["req"] /\ G["inside"] = F["inside"] /\ G["rsp"] = F["rsp"]
              /\ G["drsp"] = F["drsp"]
          <5>1. /\ F["wait"] = Numbers(s.mmio_wait) /\ F["mmio"] = SlotNumbers(s.mmio)
                /\ F["bypass"] = Numbers(s.bypass) /\ F["dreq"] = Numbers(s.dreq)
                /\ F["req"] = Numbers(s.req) /\ F["inside"] = Numbers(inside)
                /\ F["rsp"] = Numbers(s.rsp) /\ F["completed"] = Numbers(s.completed)
                /\ F["drsp"] = Numbers(s.drsp)
            BY QueuesAre DEF F
          <5>2. /\ G["wait"] = Numbers(t.mmio_wait) /\ G["mmio"] = SlotNumbers(t.mmio)
                /\ G["bypass"] = Numbers(t.bypass) /\ G["dreq"] = Numbers(t.dreq)
                /\ G["req"] = Numbers(t.req) /\ G["inside"] = Numbers(inside)
                /\ G["rsp"] = Numbers(t.rsp) /\ G["completed"] = Numbers(t.completed)
                /\ G["drsp"] = Numbers(t.drsp)
            BY <4>2, QueuesAre DEF G
          <5> QED
            BY <2>4, <3>1, <3>2, <3>3, <5>1, <5>2
        <4> QED
          BY <4>1, <4>3 DEF Passes, Places
      <3>5. Len(t.mmio) <= 1
        BY <3>1
      <3> QED
        BY <3>1, <3>4, <3>5, PassOrder DEF t, Places
    <2>6. CASE t = [s EXCEPT !.mmio = <<after>>]
      <3>1. /\ SameEnds(s, t) /\ t.mmio = <<after>> /\ t.completed = s.completed
            /\ t.mmio_wait = s.mmio_wait /\ t.bypass = s.bypass /\ t.dreq = s.dreq
            /\ t.req = s.req /\ t.rsp = s.rsp /\ t.drsp = s.drsp
        BY <2>6 DEF Adapters, SameEnds
      <3>2. Len(t.mmio) <= 1
        BY <3>1
      <3>3. SlotNumbers(t.mmio) = SlotNumbers(s.mmio)
        <4>1. after \in Registers
          <5>1. t.mmio \in Seq(Registers)
            BY DEF t, Adapters
          <5>2. t.mmio[1] = after /\ 1 \in DOMAIN t.mmio
            BY <3>1
          <5> QED
            BY <5>1, <5>2
        <4> QED
          BY <2>1, <2>3, <2>4, <3>1, <4>1, SlotIs
      <3>4. G = F
        BY <3>1, <3>3 DEF Queues, QueueAt
      <3> QED
        BY <3>1, <3>2, <3>4, IdleOrder DEF t
    <2> QED
      BY <2>2, <2>5, <2>6 DEF t
  <1> QED
    BY <1>1, <1>2

\* Who waits and who leaves are accesses of the host.
LEMMA EndsAreHosts ==
    ASSUME NEW s, NEW inside, NEW access, NEW done, Order(s, inside, access, done)
    PROVE  Waiting(s) \subseteq HostOps /\ Leaving(s) \subseteq HostOps
  BY DEF Order, InOnePlace

\* The engine's access joins those held.
LEMMA EngineOrder ==
    ASSUME OpsType, NEW s \in Adapters, NEW t \in Adapters, NEW inside \in Seq(MemRequests),
           NEW access \in Accesses, NEW done, Order(s, inside, access, done), SameEnds(s, t),
           t.mmio = s.mmio, access.op \notin Held(Queues(s, inside)),
           Joins(Queues(s, inside), Queues(t, inside), "dreq", access.op)
    PROVE  Order(t, inside, access, done)
  <1> DEFINE F == Queues(s, inside)
             G == Queues(t, inside)
             n == access.op
  <1>1. /\ Len(s.mmio) <= 1 /\ Once(F) /\ InTurn(s) /\ OneOfGroup(s, Held(F))
        /\ InOnePlace(s, Held(F), done) /\ InGroupOrder(s, Held(F), done)
        /\ EngineWaits(Held(F), access, done)
    BY DEF Order
  <1>2. n \in DOMAIN ops /\ n \in Nat /\ ops[n].dma
    BY OpsIssued
  <1>3. Once(G) /\ Held(G) = Held(F) \cup {n}
    <2>1. F \in Lists /\ G \in Lists /\ "dreq" \in Places
      BY QueuesAre DEF Places
    <2> HIDE DEF F, G
    <2> QED
      BY <1>1, <1>2, <2>1, QueueJoins DEF F, G
  <1> HIDE DEF F, G
  <1>4. OfHost(Held(G)) = OfHost(Held(F))
    BY <1>2, <1>3 DEF OfHost
  <1>5. /\ Waiting(t) = Waiting(s) /\ Leaving(t) = Leaving(s) /\ t.pending = s.pending
        /\ t.hreq = s.hreq /\ t.hrsp = s.hrsp /\ t.groups = s.groups
    BY DEF SameEnds, Waiting, Leaving
  <1>6. n \notin Waiting(s) /\ n \notin Leaving(s)
    BY <1>2, EndsAreHosts DEF HostOps
  <1>7. InTurn(t) /\ OneOfGroup(t, Held(G)) /\ InGroupOrder(t, Held(G), done)
    BY <1>1, <1>4, <1>5 DEF InTurn, OneOfGroup, InGroupOrder
  <1>8. InOnePlace(t, Held(G), done) /\ EngineWaits(Held(G), access, done)
    BY <1>1, <1>3, <1>4, <1>5, <1>6 DEF InOnePlace, EngineWaits
  <1> QED
    BY <1>1, <1>3, <1>7, <1>8 DEF Order, G

\* The engine's request: its access is the only one.
LEMMA MasterRequestsOrder ==
    ASSUME OpsType, NEW s \in Adapters, NEW inside \in Seq(MemRequests),
           NEW access \in Accesses \cup {NoAccess}, NEW wants, NEW shows \in SUBSET wants,
           NEW done, Order(s, inside, access, done), Flow(s, inside, access, wants)
    PROVE  Order(MasterRequests(s, shows, access), inside, access, done)
  <1> DEFINE t == MasterRequests(s, shows, access)
             aw == s.aw \/ ("AW" \in shows /\ ~s.dactive)
             w == s.w \/ ("W" \in shows /\ ~s.dactive)
             ar == "AR" \in shows /\ ~s.dactive /\ ~s.aw /\ ~s.w
  <1>1. t \in Adapters
    BY MasterRequestsFlow DEF Flow
  <1>2. CASE ar \/ (aw /\ w)
    <2>1. t = [s EXCEPT !.aw = FALSE, !.w = FALSE, !.dreq = <<access>>, !.dactive = TRUE]
      BY <1>2, Zenon DEF MasterRequests
    <2>2. ~s.dactive /\ access # NoAccess
      BY <1>2 DEF Flow, DmaTurn
    <2>3. access \in Accesses
      BY <2>2
    <2>4. s.dreq = <<>> /\ s.drsp = <<>> /\ DmaTickets(s) = {}
      BY <2>2 DEF Flow, DmaTurn
    <2>5. access.op \notin Held(Queues(s, inside))
      BY <2>3, <2>4, EngineIdle, OpsIssued DEF Flow
    <2> HIDE DEF t
    <2>6. /\ SameEnds(s, t) /\ t.mmio = s.mmio /\ t.dreq = <<access>>
          /\ t.mmio_wait = s.mmio_wait /\ t.bypass = s.bypass /\ t.completed = s.completed
          /\ t.req = s.req /\ t.rsp = s.rsp /\ t.drsp = s.drsp
      BY <2>1 DEF Adapters, SameEnds
    <2>7. Joins(Queues(s, inside), Queues(t, inside), "dreq", access.op)
      <3> DEFINE F == Queues(s, inside)
                 G == Queues(t, inside)
      <3>1. Numbers(t.dreq) = Append(Numbers(s.dreq), access.op)
        <4>1. /\ \A x \in Accesses : x.op \in Nat
              /\ s.dreq \in Seq(Accesses) /\ <<access>> = Append(s.dreq, access)
          BY <2>3, <2>4, OpsIssued
        <4> QED
          BY <2>3, <2>6, <4>1, NumbersAre, SMTT(30)
      <3>2. /\ F["wait"] = Numbers(s.mmio_wait) /\ F["mmio"] = SlotNumbers(s.mmio)
            /\ F["bypass"] = Numbers(s.bypass) /\ F["dreq"] = Numbers(s.dreq)
            /\ F["req"] = Numbers(s.req) /\ F["inside"] = Numbers(inside)
            /\ F["rsp"] = Numbers(s.rsp) /\ F["completed"] = Numbers(s.completed)
            /\ F["drsp"] = Numbers(s.drsp)
        BY QueuesAre
      <3>3. /\ G["wait"] = Numbers(t.mmio_wait) /\ G["mmio"] = SlotNumbers(t.mmio)
            /\ G["bypass"] = Numbers(t.bypass) /\ G["dreq"] = Numbers(t.dreq)
            /\ G["req"] = Numbers(t.req) /\ G["inside"] = Numbers(inside)
            /\ G["rsp"] = Numbers(t.rsp) /\ G["completed"] = Numbers(t.completed)
            /\ G["drsp"] = Numbers(t.drsp)
        BY <1>1, QueuesAre DEF t
      <3> HIDE DEF F, G
      <3>4. /\ G["dreq"] = Append(F["dreq"], access.op)
            /\ G["wait"] = F["wait"] /\ G["mmio"] = F["mmio"] /\ G["bypass"] = F["bypass"]
            /\ G["req"] = F["req"] /\ G["inside"] = F["inside"] /\ G["rsp"] = F["rsp"]
            /\ G["completed"] = F["completed"] /\ G["drsp"] = F["drsp"]
        BY <2>6, <3>1, <3>2, <3>3
      <3>5. Joins(F, G, "dreq", access.op)
        BY <3>4 DEF Joins, Places
      <3> QED
        BY <3>5 DEF F, G
    <2> QED
      BY <1>1, <2>3, <2>5, <2>6, <2>7, EngineOrder DEF t
  <1>3. CASE ~(ar \/ (aw /\ w))
    <2>1. t = [s EXCEPT !.aw = aw, !.w = w]
      BY <1>3, Zenon DEF MasterRequests
    <2>2. SameEnds(s, t) /\ SameQueues(s, t)
      <3> HIDE DEF t, aw, w
      <3> QED
        BY <2>1 DEF Adapters, SameEnds, SameQueues
    <2> QED
      BY <2>2, QuietOrder
  <1> QED
    BY <1>2, <1>3

\* The engine takes its answer at once.
LEMMA MasterAnswerOrder ==
    ASSUME OpsType, NEW s \in Adapters, NEW inside \in Seq(MemRequests), NEW access, NEW wants,
           NEW done \in SUBSET DOMAIN ops,
           Order(s, inside, access, done), Flow(s, inside, access, wants)
    PROVE  IF s.drsp = <<>> THEN Order(MasterAnswer(s), inside, access, done)
           ELSE /\ Order(MasterAnswer(s), inside, NoAccess, done \cup {s.drsp[1].op})
                /\ s.drsp[1].op \in DOMAIN ops \ done
  <1> DEFINE t == MasterAnswer(s)
             F == Queues(s, inside)
             G == Queues(t, inside)
  <1>1. CASE s.drsp = <<>>
    BY <1>1 DEF MasterAnswer
  <1>2. CASE s.drsp # <<>>
    <2> DEFINE n == s.drsp[1].op
    <2>1. /\ s.drsp \in Seq(DmaReturns) /\ Len(s.drsp) = 1 /\ s.drsp = <<s.drsp[1]>>
          /\ s.drsp[1] \in DmaReturns
      BY <1>2 DEF Adapters, Flow, DmaTurn
    <2>2. n \in DOMAIN ops /\ n \in Nat \ {0} /\ ops[n].dma
      <3>1. DOMAIN ops \subseteq Nat \ {0}
        BY DEF OpsType
      <3> QED
        BY <2>1, <3>1, OpsIssued
    <2>3. t = [s EXCEPT !.drsp = <<>>, !.dactive = FALSE] /\ t \in Adapters
      BY <1>2, MasterAnswerFlow DEF MasterAnswer, Flow
    <2> HIDE DEF t
    <2>4. /\ SameEnds(s, t) /\ t.mmio = s.mmio /\ t.drsp = <<>>
          /\ t.mmio_wait = s.mmio_wait /\ t.bypass = s.bypass /\ t.completed = s.completed
          /\ t.req = s.req /\ t.rsp = s.rsp /\ t.dreq = s.dreq
      BY <2>3 DEF Adapters, SameEnds
    <2>5. F \in Lists /\ G \in Lists /\ "drsp" \in Places
      BY <2>3, QueuesAre DEF Places
    <2>6. Leaves(F, G, "drsp") /\ Head(F["drsp"]) = n
      <3>1. Numbers(s.drsp) # <<>> /\ Head(Numbers(s.drsp)) = n
            /\ Numbers(t.drsp) = Tail(Numbers(s.drsp))
        <4>1. \A x \in DmaReturns : x.op \in Nat
          BY OpsIssued
        <4>2. t.drsp = Tail(s.drsp) /\ Head(s.drsp) = s.drsp[1]
          <5>1. /\ Tail(s.drsp) \in Seq(DmaReturns) /\ Len(Tail(s.drsp)) = 0
                /\ Head(s.drsp) = s.drsp[1]
            BY <1>2, <2>1
          <5>2. Tail(s.drsp) = <<>>
            BY <5>1, EmptySeq, Zenon
          <5> QED
            BY <2>4, <5>1, <5>2
        <4> QED
          BY <1>2, <2>1, <4>1, <4>2, NumbersAre
      <3>2. /\ F["wait"] = Numbers(s.mmio_wait) /\ F["mmio"] = SlotNumbers(s.mmio)
            /\ F["bypass"] = Numbers(s.bypass) /\ F["dreq"] = Numbers(s.dreq)
            /\ F["req"] = Numbers(s.req) /\ F["inside"] = Numbers(inside)
            /\ F["rsp"] = Numbers(s.rsp) /\ F["completed"] = Numbers(s.completed)
            /\ F["drsp"] = Numbers(s.drsp)
        BY QueuesAre
      <3>3. /\ G["wait"] = Numbers(t.mmio_wait) /\ G["mmio"] = SlotNumbers(t.mmio)
            /\ G["bypass"] = Numbers(t.bypass) /\ G["dreq"] = Numbers(t.dreq)
            /\ G["req"] = Numbers(t.req) /\ G["inside"] = Numbers(inside)
            /\ G["rsp"] = Numbers(t.rsp) /\ G["completed"] = Numbers(t.completed)
            /\ G["drsp"] = Numbers(t.drsp)
        BY <2>3, QueuesAre, ZenonT(60)
      <3> HIDE DEF F, G
      <3>4. /\ G["drsp"] = Tail(F["drsp"]) /\ F["drsp"] # <<>> /\ Head(F["drsp"]) = n
            /\ G["wait"] = F["wait"] /\ G["mmio"] = F["mmio"] /\ G["bypass"] = F["bypass"]
            /\ G["req"] = F["req"] /\ G["inside"] = F["inside"] /\ G["rsp"] = F["rsp"]
            /\ G["completed"] = F["completed"] /\ G["dreq"] = F["dreq"]
        BY <2>4, <3>1, <3>2, <3>3
      <3> QED
        BY <3>4 DEF Leaves, Places
    <2>7. /\ Len(s.mmio) <= 1 /\ Once(F) /\ InTurn(s) /\ OneOfGroup(s, Held(F))
          /\ InOnePlace(s, Held(F), done) /\ InGroupOrder(s, Held(F), done)
          /\ EngineWaits(Held(F), access, done)
      BY DEF Order
    <2> HIDE DEF F, G, n
    <2>8. Once(G) /\ Held(G) = Held(F) \ {n} /\ n \in Held(F)
      BY <2>5, <2>6, <2>7, QueueLeaves
    <2>9. n = access.op /\ n \notin done
      BY <2>2, <2>7, <2>8 DEF EngineWaits
    <2>10. /\ OfHost(Held(G)) = OfHost(Held(F)) /\ OfHost(done \cup {n}) = OfHost(done)
      BY <2>2, <2>8 DEF OfHost
    <2>11. /\ Waiting(t) = Waiting(s) /\ Leaving(t) = Leaving(s) /\ t.pending = s.pending
           /\ t.hreq = s.hreq /\ t.hrsp = s.hrsp /\ t.groups = s.groups
      BY <2>4 DEF SameEnds, Waiting, Leaving
    <2>12. n \notin Waiting(s) /\ n \notin Leaving(s)
      BY <2>2, EndsAreHosts DEF HostOps
    <2>13. /\ InTurn(t) /\ OneOfGroup(t, Held(G)) /\ InGroupOrder(t, Held(G), done \cup {n})
      BY <2>7, <2>10, <2>11 DEF InTurn, OneOfGroup, InGroupOrder
    <2>14. InOnePlace(t, Held(G), done \cup {n})
      BY <2>7, <2>8, <2>10, <2>11, <2>12 DEF InOnePlace
    <2>15. EngineWaits(Held(G), NoAccess, done \cup {n})
      <3>1. NoAccess.op = 0 /\ 0 \notin done
        BY DEF NoAccess, Access, OpsType
      <3> QED
        BY <2>2, <2>7, <2>8, <2>9, <3>1 DEF EngineWaits
    <2>16. Order(t, inside, NoAccess, done \cup {n})
      BY <2>4, <2>7, <2>8, <2>13, <2>14, <2>15 DEF Order, G
    <2> QED
      BY <1>2, <2>2, <2>9, <2>16 DEF t, n
  <1> QED
    BY <1>1, <1>2

\* The answer on its way to the host leaves its group free.
LEMMA HostResponseOrder ==
    ASSUME OpsType, NEW s \in Adapters, NEW inside \in Seq(MemRequests), NEW access,
           NEW done, Order(s, inside, access, done), HostResponse(s) \in Adapters
    PROVE  Order(HostResponse(s), inside, access, done)
  <1> DEFINE t == HostResponse(s)
             F == Queues(s, inside)
             G == Queues(t, inside)
             a == Head(s.completed)
             n == a.op
  <1>1. CASE s.completed = <<>> \/ Len(s.hrsp) = Depth
    BY <1>1 DEF HostResponse
  <1>2. CASE ~(s.completed = <<>> \/ Len(s.hrsp) = Depth)
    <2>1. /\ s.completed \in Seq(HostReturns) /\ s.completed # <<>> /\ a \in HostReturns
          /\ s.hrsp \in Seq(HostReturns)
      <3>1. s.completed \in Seq(HostReturns) /\ s.hrsp \in Seq(HostReturns)
        BY DEF Adapters
      <3>2. a \in HostReturns
        BY <1>2, <3>1
      <3> QED
        BY <1>2, <3>1, <3>2
    <2>2. n \in DOMAIN ops /\ n \in Nat /\ ~ops[n].dma /\ Group(a) = GroupOf(n)
      BY <2>1, OpsIssued DEF HostReturns, Returns, Matches, Group, GroupOf
    <2>3. t = [s EXCEPT !.hrsp = Append(@, a), !.groups = @ \ {Group(a)}, !.completed = Tail(@)]
      BY <1>2 DEF HostResponse
    <2> HIDE DEF t
    <2>4. /\ t.pending = s.pending /\ t.hreq = s.hreq /\ t.hrsp = Append(s.hrsp, a)
          /\ t.groups = s.groups \ {GroupOf(n)} /\ t.completed = Tail(s.completed)
          /\ t.mmio = s.mmio /\ t.mmio_wait = s.mmio_wait /\ t.bypass = s.bypass
          /\ t.dreq = s.dreq /\ t.req = s.req /\ t.rsp = s.rsp /\ t.drsp = s.drsp
      BY <2>2, <2>3 DEF Adapters
    <2>5. F \in Lists /\ G \in Lists /\ "completed" \in Places
      BY QueuesAre DEF Places, t
    <2>6. Leaves(F, G, "completed") /\ Head(F["completed"]) = n
      <3>1. /\ Numbers(s.completed) # <<>> /\ Head(Numbers(s.completed)) = n
            /\ Numbers(t.completed) = Tail(Numbers(s.completed))
        <4>1. \A x \in HostReturns : x.op \in Nat
          BY OpsIssued
        <4> QED
          BY <2>1, <2>4, <4>1, NumbersAre
      <3>2. /\ F["wait"] = Numbers(s.mmio_wait) /\ F["mmio"] = SlotNumbers(s.mmio)
            /\ F["bypass"] = Numbers(s.bypass) /\ F["dreq"] = Numbers(s.dreq)
            /\ F["req"] = Numbers(s.req) /\ F["inside"] = Numbers(inside)
            /\ F["rsp"] = Numbers(s.rsp) /\ F["completed"] = Numbers(s.completed)
            /\ F["drsp"] = Numbers(s.drsp)
        BY QueuesAre
      <3>3. /\ G["wait"] = Numbers(t.mmio_wait) /\ G["mmio"] = SlotNumbers(t.mmio)
            /\ G["bypass"] = Numbers(t.bypass) /\ G["dreq"] = Numbers(t.dreq)
            /\ G["req"] = Numbers(t.req) /\ G["inside"] = Numbers(inside)
            /\ G["rsp"] = Numbers(t.rsp) /\ G["completed"] = Numbers(t.completed)
            /\ G["drsp"] = Numbers(t.drsp)
        BY QueuesAre DEF t
      <3> HIDE DEF F, G, n
      <3>4. /\ G["completed"] = Tail(F["completed"]) /\ F["completed"] # <<>>
            /\ Head(F["completed"]) = n
            /\ G["wait"] = F["wait"] /\ G["mmio"] = F["mmio"] /\ G["bypass"] = F["bypass"]
            /\ G["req"] = F["req"] /\ G["inside"] = F["inside"] /\ G["rsp"] = F["rsp"]
            /\ G["drsp"] = F["drsp"] /\ G["dreq"] = F["dreq"]
        BY <2>4, <3>1, <3>2, <3>3
      <3> QED
        BY <3>4 DEF Leaves, Places
    <2>7. /\ Len(s.mmio) <= 1 /\ Once(F) /\ InTurn(s) /\ OneOfGroup(s, Held(F))
          /\ InOnePlace(s, Held(F), done) /\ InGroupOrder(s, Held(F), done)
          /\ EngineWaits(Held(F), access, done)
      BY DEF Order
    <2>8. Once(G) /\ Held(G) = Held(F) \ {n} /\ n \in Held(F)
      <3> HIDE DEF F, G, n
      <3> QED
        BY <2>5, <2>6, <2>7, QueueLeaves
    <2>9. /\ Leaving(t) = Leaving(s) \cup {n} /\ Waiting(t) = Waiting(s)
          /\ \A i \in DOMAIN t.hrsp :
                 IF i = Len(s.hrsp) + 1 THEN t.hrsp[i].op = n
                 ELSE i \in DOMAIN s.hrsp /\ t.hrsp[i].op = s.hrsp[i].op
          /\ \A i \in DOMAIN t.hrsp : i \in Nat /\ i <= Len(s.hrsp) + 1
          /\ \A i \in DOMAIN s.hrsp : s.hrsp[i].op \in Leaving(s)
      <3>1. /\ DOMAIN t.hrsp = 1 .. Len(s.hrsp) + 1 /\ DOMAIN s.hrsp = 1 .. Len(s.hrsp)
            /\ Len(s.hrsp) \in Nat /\ t.hrsp[Len(s.hrsp) + 1] = a
            /\ \A i \in 1 .. Len(s.hrsp) : t.hrsp[i] = s.hrsp[i]
        BY <2>1, <2>4
      <3>2. Leaving(t) = {t.hrsp[i].op : i \in DOMAIN t.hrsp}
        BY DEF Leaving, Numbers, Range
      <3>3. Leaving(s) = {s.hrsp[i].op : i \in DOMAIN s.hrsp}
        BY DEF Leaving, Numbers, Range
      <3>4. Leaving(t) = Leaving(s) \cup {n}
        <4> HIDE DEF t
        <4>1. \A i \in DOMAIN t.hrsp : t.hrsp[i].op \in Leaving(s) \cup {n}
          BY <3>1, <3>3
        <4>2. \A i \in DOMAIN s.hrsp : s.hrsp[i].op \in Leaving(t)
          BY <3>1, <3>2
        <4>3. n \in Leaving(t)
          BY <3>1, <3>2
        <4> QED
          BY <3>2, <3>3, <4>1, <4>2, <4>3
      <3>5. Waiting(t) = Waiting(s)
        BY <2>4 DEF Waiting
      <3> QED
        BY <3>1, <3>3, <3>4, <3>5
    <2> HIDE DEF F, G, n, a
    <2>10. OfHost(Held(G)) = OfHost(Held(F)) \ {n} /\ n \in OfHost(Held(F))
      BY <2>2, <2>8 DEF OfHost
    <2>11. InTurn(t)
      BY <2>4, <2>7, <2>9 DEF InTurn
    <2>12. OneOfGroup(t, Held(G))
      BY <2>4, <2>7, <2>10 DEF OneOfGroup
    <2>13. InOnePlace(t, Held(G), done) /\ EngineWaits(Held(G), access, done)
      <3>1. /\ HostOps = Waiting(t) \cup OfHost(Held(G)) \cup Leaving(t) \cup OfHost(done)
            /\ Waiting(t) \cap (Held(G) \cup Leaving(t) \cup done) = {}
        BY <2>7, <2>8, <2>9, <2>10 DEF InOnePlace
      <3>2. /\ Held(G) \cap Leaving(t) = {} /\ Held(G) \cap done = {}
            /\ Leaving(t) \cap done = {}
        BY <2>7, <2>8, <2>9 DEF InOnePlace
      <3>3. EngineWaits(Held(G), access, done)
        BY <2>7, <2>8 DEF EngineWaits
      <3> QED
        BY <3>1, <3>2, <3>3 DEF InOnePlace
    <2>14. InGroupOrder(t, Held(G), done)
      <3>1. n \notin Leaving(s) /\ n \notin done /\ n \notin Waiting(s) /\ n \in HostOps
        BY <2>7, <2>8, <2>10 DEF InOnePlace
      <3>2. /\ Leaving(s) \subseteq HostOps \ Waiting(s)
            /\ OfHost(done) \subseteq (HostOps \ Waiting(s)) \cap done
        BY <2>7 DEF InOnePlace, OfHost
      <3>3. HostOps \subseteq Nat
        BY DEF HostOps, OpsType
      <3>4. \A m \in HostOps \ Waiting(s) : GroupOf(m) = GroupOf(n) => m <= n
        BY <2>7, <2>10 DEF InGroupOrder
      <3>5. \A m \in OfHost(Held(G)), k \in HostOps \ Waiting(t) :
                GroupOf(m) = GroupOf(k) => k <= m
        BY <2>7, <2>9, <2>10 DEF InGroupOrder
      <3>6. ASSUME NEW i \in DOMAIN t.hrsp, NEW j \in DOMAIN t.hrsp
            PROVE  /\ t.hrsp[i].op = t.hrsp[j].op => i = j
                   /\ i < j /\ GroupOf(t.hrsp[i].op) = GroupOf(t.hrsp[j].op)
                         => t.hrsp[i].op < t.hrsp[j].op
        <4>1. CASE i = Len(s.hrsp) + 1 \/ j = Len(s.hrsp) + 1
          <5>1. CASE i = Len(s.hrsp) + 1 /\ j = Len(s.hrsp) + 1
            BY <2>9, <5>1
          <5>2. CASE i = Len(s.hrsp) + 1 /\ j # Len(s.hrsp) + 1
            BY <2>9, <3>1, <5>2
          <5>3. CASE i # Len(s.hrsp) + 1 /\ j = Len(s.hrsp) + 1
            <6>1. t.hrsp[j].op = n /\ t.hrsp[i].op \in Leaving(s)
              BY <2>9, <5>3
            <6> DEFINE x == t.hrsp[i].op
            <6>2. x \in HostOps \ Waiting(s) /\ x # n /\ x \in Nat /\ n \in Nat
              BY <3>1, <3>2, <3>3, <6>1
            <6>3. GroupOf(x) = GroupOf(n) => x < n
              BY <3>4, <6>2
            <6> QED
              BY <5>3, <6>1, <6>2, <6>3
          <5> QED
            BY <4>1, <5>1, <5>2, <5>3
        <4>2. CASE i # Len(s.hrsp) + 1 /\ j # Len(s.hrsp) + 1
          BY <2>7, <2>9, <4>2 DEF InGroupOrder
        <4> QED
          BY <4>1, <4>2
      <3>7. \A m \in Leaving(t), k \in OfHost(done) : GroupOf(m) = GroupOf(k) => k < m
        <4>1. ASSUME NEW k \in OfHost(done), GroupOf(k) = GroupOf(n)
              PROVE  k < n
          <5>1. k \in HostOps \ Waiting(s) /\ k # n /\ k \in Nat /\ n \in Nat
            BY <3>1, <3>2, <3>3
          <5> QED
            BY <3>4, <4>1, <5>1
        <4>2. \A m \in Leaving(s), k \in OfHost(done) : GroupOf(m) = GroupOf(k) => k < m
          BY <2>7 DEF InGroupOrder
        <4> QED
          BY <2>9, <4>1, <4>2
      <3> QED
        BY <3>5, <3>6, <3>7 DEF InGroupOrder
    <2>15. Order(t, inside, access, done)
      BY <2>4, <2>7, <2>8, <2>11, <2>12, <2>13, <2>14 DEF Order, G
    <2> QED
      BY <2>15 DEF t
  <1> QED
    BY <1>1, <1>2

\* memory_return: the answer goes on to its owner.
LEMMA MemoryReturnOrder ==
    ASSUME OpsType, NEW s \in Adapters, NEW inside \in Seq(MemRequests), NEW access,
           NEW done, Order(s, inside, access, done), Tagged(s, inside),
           MemoryReturn(s) \in Adapters
    PROVE  Order(MemoryReturn(s), inside, access, done)
  <1> DEFINE u == MemoryReturn(s)
  <1>1. CASE ~HasRoom(s) \/ s.drsp # <<>> \/ s.rsp = <<>>
    BY <1>1 DEF MemoryReturn
  <1>2. CASE ~(~HasRoom(s) \/ s.drsp # <<>> \/ s.rsp = <<>>)
    <2> DEFINE a == Head(s.rsp)
               t == s.tickets[a.id]
               owned == [op |-> a.op, write |-> a.write, rp |-> t.rp, id |-> t.id,
                         resp |-> a.resp, beats |-> a.beats, got |-> a.got]
               rest == Restrict(s.tickets, DOMAIN s.tickets \ {a.id})
               F == Queues(s, inside)
               G == Queues(u, inside)
    <2>1. /\ s.rsp \in Seq(MemAnswers) /\ s.completed \in Seq(HostReturns)
          /\ s.drsp \in Seq(DmaReturns) /\ s.tickets \in TicketTables
      BY DEF Adapters
    <2>2. s.rsp # <<>> /\ s.drsp = <<>>
      BY <1>2
    <2>3. a \in MemAnswers /\ TicketOf(a, s.tickets)
      BY <2>1, <2>2 DEF Tagged, Ticketed
    <2>4. /\ t.dma \in BOOLEAN
          /\ t.dma => owned \in DmaReturns
          /\ ~t.dma => owned \in HostReturns
      BY <2>1, <2>3, OwnerFound
    <2>5. owned.op = a.op
      OBVIOUS
    <2>6. \/ t.dma /\ u = [s EXCEPT !.rsp = Tail(@), !.tickets = rest, !.drsp = <<owned>>]
          \/ ~t.dma /\ u = [s EXCEPT !.rsp = Tail(@), !.tickets = rest,
                                    !.completed = Append(@, owned)]
      BY <1>2, <2>4 DEF MemoryReturn, Adapters
    <2> HIDE DEF owned, rest, t, u
    <2>7. /\ SameEnds(s, u) /\ u.mmio = s.mmio /\ u.mmio_wait = s.mmio_wait
          /\ u.bypass = s.bypass /\ u.dreq = s.dreq /\ u.req = s.req
          /\ u.rsp = Tail(s.rsp)
          /\ t.dma => u.completed = s.completed /\ u.drsp = <<owned>>
          /\ ~t.dma => u.completed = Append(s.completed, owned) /\ u.drsp = s.drsp
      BY <2>6, <2>4 DEF Adapters, SameEnds
    <2>8. /\ Numbers(s.rsp) # <<>> /\ Head(Numbers(s.rsp)) = a.op
          /\ Numbers(u.rsp) = Tail(Numbers(s.rsp))
      <3>1. \A x \in MemAnswers : x.op \in Nat
        BY OpsIssued
      <3> QED
        BY <2>1, <2>2, <2>7, <3>1, NumbersAre
    <2>9. /\ t.dma => Numbers(u.drsp) = Append(Numbers(s.drsp), a.op)
          /\ ~t.dma => Numbers(u.completed) = Append(Numbers(s.completed), a.op)
      <3>1. (\A x \in DmaReturns : x.op \in Nat) /\ (\A x \in HostReturns : x.op \in Nat)
        BY OpsIssued
      <3>2. <<owned>> = Append(s.drsp, owned)
        BY <2>2
      <3>3. t.dma => Numbers(Append(s.drsp, owned)) = Append(Numbers(s.drsp), owned.op)
        BY <2>1, <2>4, <3>1, NumbersAre
      <3>4. ~t.dma => Numbers(Append(s.completed, owned))
                          = Append(Numbers(s.completed), owned.op)
        BY <2>1, <2>4, <3>1, NumbersAre
      <3> QED
        BY <2>5, <2>7, <3>2, <3>3, <3>4
    <2>10. /\ F["wait"] = Numbers(s.mmio_wait) /\ F["mmio"] = SlotNumbers(s.mmio)
           /\ F["bypass"] = Numbers(s.bypass) /\ F["dreq"] = Numbers(s.dreq)
           /\ F["req"] = Numbers(s.req) /\ F["inside"] = Numbers(inside)
           /\ F["rsp"] = Numbers(s.rsp) /\ F["completed"] = Numbers(s.completed)
           /\ F["drsp"] = Numbers(s.drsp)
      BY QueuesAre
    <2>11. /\ G["wait"] = Numbers(u.mmio_wait) /\ G["mmio"] = SlotNumbers(u.mmio)
           /\ G["bypass"] = Numbers(u.bypass) /\ G["dreq"] = Numbers(u.dreq)
           /\ G["req"] = Numbers(u.req) /\ G["inside"] = Numbers(inside)
           /\ G["rsp"] = Numbers(u.rsp) /\ G["completed"] = Numbers(u.completed)
           /\ G["drsp"] = Numbers(u.drsp)
      BY QueuesAre DEF u
    <2>12. Len(u.mmio) <= 1
      BY <2>7 DEF Order
    <2> HIDE DEF F, G, a
    <2>13. CASE t.dma
      <3>1. /\ G["rsp"] = Tail(F["rsp"]) /\ F["rsp"] # <<>>
            /\ G["drsp"] = Append(F["drsp"], Head(F["rsp"]))
            /\ G["wait"] = F["wait"] /\ G["mmio"] = F["mmio"] /\ G["bypass"] = F["bypass"]
            /\ G["req"] = F["req"] /\ G["inside"] = F["inside"]
            /\ G["completed"] = F["completed"] /\ G["dreq"] = F["dreq"]
        BY <2>7, <2>8, <2>9, <2>10, <2>11, <2>13
      <3>2. Passes(F, G, "rsp", "drsp")
        BY <3>1 DEF Passes, Places
      <3> QED
        BY <2>7, <2>12, <3>2, PassOrder DEF u, F, G, Places
    <2>14. CASE ~t.dma
      <3>1. /\ G["rsp"] = Tail(F["rsp"]) /\ F["rsp"] # <<>>
            /\ G["completed"] = Append(F["completed"], Head(F["rsp"]))
            /\ G["wait"] = F["wait"] /\ G["mmio"] = F["mmio"] /\ G["bypass"] = F["bypass"]
            /\ G["req"] = F["req"] /\ G["inside"] = F["inside"]
            /\ G["drsp"] = F["drsp"] /\ G["dreq"] = F["dreq"]
        BY <2>7, <2>8, <2>9, <2>10, <2>11, <2>14
      <3>2. Passes(F, G, "rsp", "completed")
        BY <3>1 DEF Passes, Places
      <3> QED
        BY <2>7, <2>12, <3>2, PassOrder DEF u, F, G, Places
    <2> QED
      BY <2>4, <2>13, <2>14
  <1> QED
    BY <1>1, <1>2

\* A register access begins, or is refused.
LEMMA BegunOrder ==
    ASSUME OpsType, NEW s \in Adapters, NEW inside \in Seq(MemRequests), NEW access,
           NEW done, Order(s, inside, access, done), Begun(s) \in Adapters
    PROVE  Order(Begun(s), inside, access, done)
  <1> DEFINE t == Begun(s)
             r == Head(s.mmio_wait)
             begun == [req |-> r, addr |-> FALSE, sent |-> 0, got |-> 0, complete |-> FALSE]
             answer == HostAnswer(r, 2, <<>>)
             F == Queues(s, inside)
             G == Queues(t, inside)
  <1>1. CASE s.mmio # <<>> \/ s.mmio_wait = <<>> \/ (r.lock /\ ~HasRoom(s))
    BY <1>1 DEF Begun
  <1>2. CASE ~(s.mmio # <<>> \/ s.mmio_wait = <<>> \/ (r.lock /\ ~HasRoom(s)))
    <2>1. /\ s.mmio_wait \in Seq(RegisterBound) /\ s.completed \in Seq(HostReturns)
      BY DEF Adapters
    <2>2. s.mmio_wait # <<>> /\ s.mmio = <<>> /\ r \in RegisterBound
      BY <1>2, <2>1
    <2>3. r.lock \in BOOLEAN
      BY <2>2 DEF RegisterBound, HostRequests
    <2>4. \/ r.lock /\ t = [s EXCEPT !.completed = Append(@, answer), !.mmio_wait = Tail(@)]
          \/ ~r.lock /\ t = [s EXCEPT !.mmio = <<begun>>, !.mmio_wait = Tail(@)]
      BY <1>2, <2>3 DEF Begun
    <2>5. /\ r.lock => answer \in HostReturns
          /\ ~r.lock => begun \in Registers
          /\ answer.op = r.op /\ begun.req = r
      BY <2>2, RegisterAnswer DEF Registers, HostAnswer
    <2> HIDE DEF begun, answer, t
    <2>6. /\ SameEnds(s, t) /\ t.bypass = s.bypass /\ t.dreq = s.dreq /\ t.req = s.req
          /\ t.rsp = s.rsp /\ t.drsp = s.drsp /\ t.mmio_wait = Tail(s.mmio_wait)
          /\ r.lock => t.mmio = s.mmio /\ t.completed = Append(s.completed, answer)
          /\ ~r.lock => t.mmio = <<begun>> /\ t.completed = s.completed
      BY <2>3, <2>4 DEF Adapters, SameEnds
    <2>7. /\ Numbers(s.mmio_wait) # <<>> /\ Head(Numbers(s.mmio_wait)) = r.op
          /\ Numbers(t.mmio_wait) = Tail(Numbers(s.mmio_wait))
      <3>1. \A x \in RegisterBound : x.op \in Nat
        BY OpsIssued
      <3> QED
        BY <2>1, <2>2, <2>6, <3>1, NumbersAre
    <2>8. /\ r.lock => Numbers(t.completed) = Append(Numbers(s.completed), r.op)
          /\ ~r.lock => SlotNumbers(t.mmio) = Append(SlotNumbers(s.mmio), r.op)
      <3>1. \A x \in HostReturns : x.op \in Nat
        BY OpsIssued
      <3>2. r.lock => Numbers(t.completed) = Append(Numbers(s.completed), r.op)
        <4>1. \A x \in HostReturns :
                  Numbers(Append(s.completed, x)) = Append(Numbers(s.completed), x.op)
          BY <2>1, <3>1, NumbersAre
        <4> QED
          BY <2>5, <2>6, <4>1
      <3>3. SlotNumbers(s.mmio) = <<>>
        BY <2>2 DEF SlotNumbers
      <3>4. ~r.lock => SlotNumbers(<<begun>>) = <<begun.req.op>>
        <4>1. <<>> \in Seq(Registers)
          OBVIOUS
        <4> QED
          BY <2>5, <4>1, SlotIs
      <3>5. Append(<<>>, r.op) = <<r.op>>
        OBVIOUS
      <3> QED
        BY <2>5, <2>6, <3>2, <3>3, <3>4, <3>5
    <2>9. /\ F["wait"] = Numbers(s.mmio_wait) /\ F["mmio"] = SlotNumbers(s.mmio)
          /\ F["bypass"] = Numbers(s.bypass) /\ F["dreq"] = Numbers(s.dreq)
          /\ F["req"] = Numbers(s.req) /\ F["inside"] = Numbers(inside)
          /\ F["rsp"] = Numbers(s.rsp) /\ F["completed"] = Numbers(s.completed)
          /\ F["drsp"] = Numbers(s.drsp)
      BY QueuesAre
    <2>10. /\ G["wait"] = Numbers(t.mmio_wait) /\ G["mmio"] = SlotNumbers(t.mmio)
           /\ G["bypass"] = Numbers(t.bypass) /\ G["dreq"] = Numbers(t.dreq)
           /\ G["req"] = Numbers(t.req) /\ G["inside"] = Numbers(inside)
           /\ G["rsp"] = Numbers(t.rsp) /\ G["completed"] = Numbers(t.completed)
           /\ G["drsp"] = Numbers(t.drsp)
      BY QueuesAre DEF t
    <2>11. Len(t.mmio) <= 1
      <3>1. Len(<<begun>>) = 1 /\ Len(<<>>) = 0
        OBVIOUS
      <3>2. t.mmio = <<>> \/ t.mmio = <<begun>>
        BY <2>2, <2>3, <2>6
      <3>3. Len(t.mmio) \in {0, 1}
        BY <3>1, <3>2, Zenon
      <3>4. \A k \in {0, 1} : k <= 1
        OBVIOUS
      <3> QED
        BY <3>3, <3>4, Zenon
    <2> HIDE DEF F, G, r
    <2>12. CASE r.lock
      <3>1. /\ G["wait"] = Tail(F["wait"]) /\ F["wait"] # <<>>
            /\ G["completed"] = Append(F["completed"], Head(F["wait"]))
            /\ G["rsp"] = F["rsp"] /\ G["mmio"] = F["mmio"] /\ G["bypass"] = F["bypass"]
            /\ G["req"] = F["req"] /\ G["inside"] = F["inside"]
            /\ G["drsp"] = F["drsp"] /\ G["dreq"] = F["dreq"]
        BY <2>6, <2>7, <2>8, <2>9, <2>10, <2>12
      <3>2. Passes(F, G, "wait", "completed")
        BY <3>1 DEF Passes, Places
      <3> QED
        BY <2>6, <2>11, <3>2, PassOrder DEF t, F, G, Places
    <2>13. CASE ~r.lock
      <3>1. /\ G["wait"] = Tail(F["wait"]) /\ F["wait"] # <<>>
            /\ G["mmio"] = Append(F["mmio"], Head(F["wait"]))
            /\ G["rsp"] = F["rsp"] /\ G["completed"] = F["completed"]
            /\ G["bypass"] = F["bypass"] /\ G["req"] = F["req"]
            /\ G["inside"] = F["inside"] /\ G["drsp"] = F["drsp"] /\ G["dreq"] = F["dreq"]
        BY <2>6, <2>7, <2>8, <2>9, <2>10, <2>13
      <3>2. Passes(F, G, "wait", "mmio")
        BY <3>1 DEF Passes, Places
      <3> QED
        BY <2>6, <2>11, <3>2, PassOrder DEF t, F, G, Places
    <2> QED
      BY <2>3, <2>12, <2>13
  <1> QED
    BY <1>1, <1>2

\* What joins or leaves a queue, and its order.
LEMMA OpsAppend ==
    ASSUME NEW S, NEW q \in Seq(S), NEW x \in S
    PROVE  /\ Ops(Append(q, x)) = Ops(q) \cup {x.op}
           /\ Ascending(q) /\ (\A m \in Ops(q) : m < x.op) => Ascending(Append(q, x))
  <1> DEFINE t == Append(q, x)
  <1>1. /\ DOMAIN q = 1 .. Len(q) /\ Len(q) \in Nat /\ DOMAIN t = 1 .. Len(q) + 1
        /\ \A i \in 1 .. Len(q) : t[i] = q[i]
        /\ t[Len(q) + 1] = x
    OBVIOUS
  <1> HIDE DEF t
  <1>2. \A i \in DOMAIN t : i = Len(q) + 1 \/ (i # Len(q) + 1 /\ i \in DOMAIN q /\ t[i] = q[i])
    BY <1>1
  <1>3. Ops(t) \subseteq Ops(q) \cup {x.op}
    BY <1>1, <1>2 DEF Ops
  <1>4. Ops(q) \subseteq Ops(t) /\ x.op \in Ops(t)
    BY <1>1 DEF Ops
  <1>5. ASSUME Ascending(q), \A m \in Ops(q) : m < x.op,
               NEW i \in DOMAIN t, NEW j \in DOMAIN t, i < j
        PROVE  t[i].op < t[j].op
    <2>1. i \in DOMAIN q /\ t[i] = q[i]
      BY <1>1, <1>2, <1>5
    <2>2. CASE j = Len(q) + 1
      BY <1>1, <1>5, <2>1, <2>2 DEF Ops
    <2>3. CASE j \in DOMAIN q /\ t[j] = q[j]
      BY <1>5, <2>1, <2>3 DEF Ascending
    <2> QED
      BY <1>2, <2>2, <2>3
  <1>6. Ascending(q) /\ (\A m \in Ops(q) : m < x.op) => Ascending(t)
    BY <1>5 DEF Ascending
  <1> QED
    BY <1>3, <1>4, <1>6 DEF t

\* The first leaves a queue that ascends.
LEMMA OpsTail ==
    ASSUME NEW S, NEW q \in Seq(S), q # <<>>
    PROVE  /\ Ops(q) = Ops(Tail(q)) \cup {Head(q).op}
           /\ Ascending(q) => /\ Ascending(Tail(q))
                              /\ \A m \in Ops(Tail(q)) : Head(q).op < m
  <1> DEFINE t == Tail(q)
             n == Head(q).op
  <1>1. /\ DOMAIN q = 1 .. Len(q) /\ Len(q) \in Nat \ {0} /\ DOMAIN t = 1 .. Len(q) - 1
        /\ \A i \in 1 .. Len(q) - 1 : t[i] = q[i + 1]
        /\ n = q[1].op
    OBVIOUS
  <1> HIDE DEF t, n
  <1>2. \A i \in DOMAIN t : i + 1 \in DOMAIN q /\ t[i] = q[i + 1] /\ 1 < i + 1 /\ i \in Nat
    BY <1>1
  <1>3. \A i \in DOMAIN q : i # 1 => i - 1 \in DOMAIN t /\ t[i - 1] = q[i]
    BY <1>1
  <1>4. 1 \in DOMAIN q
    BY <1>1
  <1>5. Ops(t) \subseteq Ops(q) /\ n \in Ops(q)
    BY <1>1, <1>2, <1>4, Zenon DEF Ops
  <1>6. ASSUME NEW i \in DOMAIN q
        PROVE  q[i].op \in Ops(t) \cup {n}
    <2>1. CASE i = 1
      BY <1>1, <2>1
    <2>2. CASE i # 1
      BY <1>3, <2>2, Zenon DEF Ops
    <2> QED
      BY <2>1, <2>2
  <1>7. Ops(q) = Ops(t) \cup {n}
    <2>1. Ops(q) \subseteq Ops(t) \cup {n}
      BY <1>6 DEF Ops
    <2> QED
      BY <1>5, <2>1
  <1>8. ASSUME Ascending(q)
        PROVE  Ascending(t) /\ \A m \in Ops(t) : n < m
    <2>1. ASSUME NEW i \in DOMAIN t, NEW j \in DOMAIN t, i < j
          PROVE  t[i].op < t[j].op
      <3>1. /\ i + 1 \in DOMAIN q /\ j + 1 \in DOMAIN q /\ i + 1 < j + 1
            /\ t[i] = q[i + 1] /\ t[j] = q[j + 1]
        BY <1>2, <2>1
      <3>2. q[i + 1].op < q[j + 1].op
        BY <1>8, <3>1, Zenon DEF Ascending
      <3> QED
        BY <3>1, <3>2
    <2>2. ASSUME NEW i \in DOMAIN t
          PROVE  n < t[i].op
      <3>1. q[1].op < q[i + 1].op
        BY <1>2, <1>4, <1>8, Zenon DEF Ascending
      <3> QED
        BY <1>1, <1>2, <3>1
    <2> QED
      BY <2>1, <2>2 DEF Ascending, Ops
  <1> QED
    BY <1>7, <1>8 DEF t, n

\* The requests not admitted, by their numbers.
LEMMA WaitingIs ==
    ASSUME NEW s
    PROVE  /\ Waiting(s) = Ops(s.pending) \cup Ops(s.hreq)
           /\ InTurn(s) <=>
                 /\ Ascending(s.pending) /\ Ascending(s.hreq)
                 /\ \A m \in Ops(s.pending), n \in Ops(s.hreq) : m < n
                 /\ \A m \in Waiting(s), n \in HostOps \ Waiting(s) : n < m
  <1>1. Range(Numbers(s.pending)) = Ops(s.pending) /\ Range(Numbers(s.hreq)) = Ops(s.hreq)
    BY DEF Range, Numbers, Ops
  <1>2. (\A i \in DOMAIN s.pending, j \in DOMAIN s.hreq : s.pending[i].op < s.hreq[j].op)
          <=> \A m \in Ops(s.pending), n \in Ops(s.hreq) : m < n
    BY DEF Ops
  <1> QED
    BY <1>1, <1>2 DEF Waiting, InTurn

\* A request is read from the FIFO of the host.
LEMMA ReadOrder ==
    ASSUME OpsType, NEW s \in Adapters, NEW inside \in Seq(MemRequests), NEW access,
           NEW done, Order(s, inside, access, done)
    PROVE  Order(Read(s), inside, access, done)
  <1> DEFINE t == Read(s)
             r == Head(s.hreq)
  <1>1. CASE Len(s.pending) = QueueLimit \/ s.hreq = <<>>
    BY <1>1 DEF Read
  <1>2. CASE ~(Len(s.pending) = QueueLimit \/ s.hreq = <<>>)
    <2>1. t = [s EXCEPT !.pending = Append(@, r), !.hreq = Tail(@)]
      BY <1>2 DEF Read
    <2> HIDE DEF t
    <2>2. /\ t.pending = Append(s.pending, r) /\ t.hreq = Tail(s.hreq)
          /\ t.hrsp = s.hrsp /\ t.groups = s.groups /\ SameQueues(s, t)
      BY <2>1 DEF Adapters, SameQueues
    <2>3. /\ s.pending \in Seq(HostRequests) /\ s.hreq \in Seq(HostRequests) /\ s.hreq # <<>>
      BY <1>2 DEF Adapters
    <2>4. /\ Ascending(s.pending) /\ Ascending(s.hreq)
          /\ \A m \in Ops(s.pending), n \in Ops(s.hreq) : m < n
          /\ \A m \in Waiting(s), n \in HostOps \ Waiting(s) : n < m
      BY WaitingIs DEF Order
    <2>5. /\ Ops(t.pending) = Ops(s.pending) \cup {r.op}
          /\ Ops(s.hreq) = Ops(t.hreq) \cup {r.op}
          /\ Ascending(t.hreq) /\ \A n \in Ops(t.hreq) : r.op < n
      <3>1. r \in HostRequests
        BY <2>3
      <3> HIDE DEF r
      <3>2. Ops(t.pending) = Ops(s.pending) \cup {r.op}
        BY <2>2, <2>3, <3>1, OpsAppend
      <3> QED
        BY <2>2, <2>3, <2>4, <3>2, OpsTail DEF r
    <2>6. Ascending(t.pending)
      <3>1. r \in HostRequests
        BY <2>3
      <3>2. \A m \in Ops(s.pending) : m < r.op
        BY <2>4, <2>5
      <3> HIDE DEF r
      <3> QED
        BY <2>2, <2>3, <2>4, <3>1, <3>2, OpsAppend
    <2>7. Waiting(t) = Waiting(s)
      BY <2>5, WaitingIs
    <2>8. \A m \in Ops(t.pending), n \in Ops(t.hreq) : m < n
      BY <2>4, <2>5
    <2>9. InTurn(t)
      BY <2>4, <2>5, <2>6, <2>7, <2>8, WaitingIs
    <2>10. Leaving(t) = Leaving(s) /\ Queues(t, inside) = Queues(s, inside) /\ t.mmio = s.mmio
      BY <2>2 DEF Leaving, SameQueues, Queues, QueueAt
    <2>11. Order(t, inside, access, done)
      BY <2>2, <2>7, <2>9, <2>10 DEF Order, OneOfGroup, InOnePlace, InGroupOrder
    <2> QED
      BY <2>11 DEF t
  <1> QED
    BY <1>1, <1>2

\* The first request is admitted when its group is free.
LEMMA AdmitOrder ==
    ASSUME OpsType, NEW s \in Adapters, NEW t \in Adapters, NEW inside \in Seq(MemRequests),
           NEW access, NEW done, Order(s, inside, access, done), s.pending # <<>>,
           NEW b \in Places, NEW n, n = Head(s.pending).op, GroupOf(n) \notin s.groups,
           t.pending = Tail(s.pending), t.hreq = s.hreq, t.hrsp = s.hrsp, t.mmio = s.mmio,
           t.groups = s.groups \cup {GroupOf(n)},
           Joins(Queues(s, inside), Queues(t, inside), b, n)
    PROVE  Order(t, inside, access, done)
  <1> DEFINE F == Queues(s, inside)
             G == Queues(t, inside)
  <1>1. /\ Len(s.mmio) <= 1 /\ Once(F) /\ InTurn(s) /\ OneOfGroup(s, Held(F))
        /\ InOnePlace(s, Held(F), done) /\ InGroupOrder(s, Held(F), done)
        /\ EngineWaits(Held(F), access, done)
    BY DEF Order
  <1>2. /\ s.pending \in Seq(HostRequests) /\ s.hreq \in Seq(HostRequests)
    BY DEF Adapters
  <1>3. Head(s.pending) \in HostRequests
    BY <1>2
  <1>4. n \in DOMAIN ops /\ n \in Nat /\ ~ops[n].dma
    BY <1>3, OpsIssued
  <1>5. /\ Ascending(s.pending) /\ Ascending(s.hreq)
        /\ \A m \in Ops(s.pending), k \in Ops(s.hreq) : m < k
        /\ \A m \in Waiting(s), k \in HostOps \ Waiting(s) : k < m
        /\ Waiting(s) = Ops(s.pending) \cup Ops(s.hreq)
        /\ Waiting(t) = Ops(t.pending) \cup Ops(s.hreq)
    BY <1>1, WaitingIs
  <1>6. /\ Ops(s.pending) = Ops(t.pending) \cup {n}
        /\ Ascending(t.pending) /\ \A m \in Ops(t.pending) : n < m
    BY <1>2, <1>5, OpsTail
  <1>7. n \in Waiting(s) /\ (\A m \in Waiting(t) : n < m)
    BY <1>5, <1>6
  <1>8. \A k \in HostOps \ Waiting(s) : k < n
    BY <1>5, <1>7
  <1>9. n \notin Waiting(t)
    BY <1>4, <1>7
  <1>10. Waiting(t) = Waiting(s) \ {n}
    BY <1>5, <1>6, <1>9
  <1>13. n \notin Held(F) /\ n \in HostOps /\ HostOps \subseteq Nat
    <2>1. n \notin Held(F)
      BY <1>1, <1>7 DEF InOnePlace
    <2>2. n \in HostOps /\ HostOps \subseteq Nat
      BY <1>4 DEF HostOps, OpsType
    <2> QED
      BY <2>1, <2>2
  <1>14. Once(G) /\ Held(G) = Held(F) \cup {n}
    <2>1. F \in Lists /\ G \in Lists
      BY QueuesAre
    <2> HIDE DEF F, G
    <2> QED
      BY <1>1, <1>4, <1>13, <2>1, QueueJoins DEF F, G
  <1>15. OfHost(Held(G)) = OfHost(Held(F)) \cup {n} /\ Leaving(t) = Leaving(s)
    BY <1>4, <1>14 DEF OfHost, Leaving
  <1> HIDE DEF F, G
  <1>16. \A m \in OfHost(Held(F)) : GroupOf(m) # GroupOf(n)
    BY <1>1 DEF OneOfGroup
  <1>17. InTurn(t)
    <2>1. ASSUME NEW m \in Waiting(t), NEW k \in HostOps \ Waiting(t)
          PROVE  k < m
      <3>1. m \in Waiting(s) /\ n < m
        BY <1>7, <1>10
      <3>2. k = n \/ k \in HostOps \ Waiting(s)
        BY <1>10
      <3> QED
        BY <1>5, <3>1, <3>2
    <2>2. \A m \in Ops(t.pending), k \in Ops(s.hreq) : m < k
      BY <1>5, <1>6
    <2> QED
      BY <1>5, <1>6, <2>1, <2>2, WaitingIs
  <1>18. OneOfGroup(t, Held(G))
    <2>1. t.groups = {GroupOf(m) : m \in OfHost(Held(G))}
      BY <1>1, <1>15 DEF OneOfGroup
    <2>2. \A m, k \in OfHost(Held(G)) : GroupOf(m) = GroupOf(k) => m = k
      BY <1>1, <1>15, <1>16 DEF OneOfGroup
    <2> QED
      BY <2>1, <2>2 DEF OneOfGroup
  <1>19. InOnePlace(t, Held(G), done) /\ EngineWaits(Held(G), access, done)
    <2>1. EngineWaits(Held(G), access, done)
      BY <1>1, <1>4, <1>14 DEF EngineWaits
    <2>2. n \notin Leaving(s) /\ n \notin done
      BY <1>1, <1>7 DEF InOnePlace
    <2>3. HostOps = Waiting(t) \cup OfHost(Held(G)) \cup Leaving(t) \cup OfHost(done)
      BY <1>1, <1>7, <1>10, <1>15 DEF InOnePlace
    <2>4. InOnePlace(t, Held(G), done)
      <3>1. /\ Waiting(s) \cap (Held(F) \cup Leaving(s) \cup done) = {}
            /\ Held(F) \cap Leaving(s) = {} /\ Held(F) \cap done = {}
            /\ Leaving(s) \cap done = {}
        BY <1>1 DEF InOnePlace
      <3>2. /\ Held(G) \cap Leaving(t) = {} /\ Held(G) \cap done = {}
            /\ Leaving(t) \cap done = {}
        BY <1>14, <1>15, <2>2, <3>1
      <3>3. Waiting(t) \cap (Held(G) \cup Leaving(t) \cup done) = {}
        BY <1>10, <1>14, <1>15, <3>1
      <3> QED
        BY <2>3, <3>2, <3>3 DEF InOnePlace
    <2> QED
      BY <2>1, <2>4
  <1>20. InGroupOrder(t, Held(G), done)
    <2>1. ASSUME NEW m \in OfHost(Held(G)), NEW k \in HostOps \ Waiting(t),
                 GroupOf(m) = GroupOf(k)
          PROVE  k <= m
      <3>1. CASE m = n
        <4>1. k = n \/ k \in HostOps \ Waiting(s)
          BY <1>10
        <4>2. k \in Nat /\ n \in Nat
          BY <1>13
        <4> QED
          BY <1>8, <3>1, <4>1, <4>2
      <3>2. CASE m # n
        <4>1. m \in OfHost(Held(F)) /\ k # n
          BY <1>15, <1>16, <2>1, <3>2
        <4>2. k \in HostOps \ Waiting(s)
          BY <1>10, <4>1
        <4> QED
          BY <1>1, <2>1, <4>1, <4>2 DEF InGroupOrder
      <3> QED
        BY <3>1, <3>2
    <2> QED
      BY <1>1, <1>15, <2>1 DEF InGroupOrder
  <1> QED
    BY <1>1, <1>14, <1>17, <1>18, <1>19, <1>20 DEF Order, G

\* The first request is sorted: to the registers, or past the engine.
LEMMA SortedOrder ==
    ASSUME OpsType, NEW s \in Adapters, NEW inside \in Seq(MemRequests), NEW access,
           NEW done, Order(s, inside, access, done), Sorted(s) \in Adapters
    PROVE  Order(Sorted(s), inside, access, done)
  <1> DEFINE t == Sorted(s)
             r == Head(s.pending)
             F == Queues(s, inside)
             G == Queues(t, inside)
  <1>1. CASE s.pending = <<>> \/ ~Admissible(s, r)
    BY <1>1 DEF Sorted
  <1>2. CASE ~(s.pending = <<>> \/ ~Admissible(s, r))
    <2>1. /\ s.pending \in Seq(HostRequests) /\ s.mmio_wait \in Seq(RegisterBound)
          /\ s.bypass \in Seq(MemoryBound)
      BY DEF Adapters
    <2>2. r \in HostRequests /\ s.pending # <<>> /\ Group(r) \notin s.groups
      BY <1>2, <2>1 DEF Admissible
    <2>3. \/ r.mmio /\ t = [s EXCEPT !.groups = @ \union {Group(r)}, !.pending = Tail(@),
                                    !.mmio_wait = Append(@, r)]
          \/ ~r.mmio /\ t = [s EXCEPT !.groups = @ \union {Group(r)}, !.pending = Tail(@),
                                     !.bypass = Append(@, r)]
      BY <1>2, <2>2 DEF Sorted, Adapters
    <2>4. Group(r) = GroupOf(r.op) /\ r.mmio \in BOOLEAN
      BY <2>2, SMTT(30) DEF HostRequests, Request, Group, GroupOf
    <2> HIDE DEF t
    <2>5. /\ t.pending = Tail(s.pending) /\ t.hreq = s.hreq /\ t.hrsp = s.hrsp
          /\ t.groups = s.groups \union {GroupOf(r.op)}
          /\ t.mmio = s.mmio /\ t.dreq = s.dreq /\ t.req = s.req /\ t.rsp = s.rsp
          /\ t.completed = s.completed /\ t.drsp = s.drsp
          /\ r.mmio => t.mmio_wait = Append(s.mmio_wait, r) /\ t.bypass = s.bypass
          /\ ~r.mmio => t.bypass = Append(s.bypass, r) /\ t.mmio_wait = s.mmio_wait
      BY <2>3, <2>4 DEF Adapters
    <2>6. /\ r.mmio => Numbers(t.mmio_wait) = Append(Numbers(s.mmio_wait), r.op)
          /\ ~r.mmio => Numbers(t.bypass) = Append(Numbers(s.bypass), r.op)
      <3>1. \A x \in RegisterBound :
                Numbers(Append(s.mmio_wait, x)) = Append(Numbers(s.mmio_wait), x.op)
        BY <2>1, NumbersAre, OpsIssued
      <3>2. \A x \in MemoryBound :
                Numbers(Append(s.bypass, x)) = Append(Numbers(s.bypass), x.op)
        BY <2>1, NumbersAre, OpsIssued
      <3>3. r \in RegisterBound \/ ~r.mmio
        BY <2>2 DEF RegisterBound
      <3>4. r \in MemoryBound \/ r.mmio
        BY <2>2 DEF MemoryBound
      <3> HIDE DEF r
      <3> QED
        BY <2>5, <3>1, <3>2, <3>3, <3>4
    <2>7. /\ F["wait"] = Numbers(s.mmio_wait) /\ F["mmio"] = SlotNumbers(s.mmio)
          /\ F["bypass"] = Numbers(s.bypass) /\ F["dreq"] = Numbers(s.dreq)
          /\ F["req"] = Numbers(s.req) /\ F["inside"] = Numbers(inside)
          /\ F["rsp"] = Numbers(s.rsp) /\ F["completed"] = Numbers(s.completed)
          /\ F["drsp"] = Numbers(s.drsp)
      BY QueuesAre
    <2>8. /\ G["wait"] = Numbers(t.mmio_wait) /\ G["mmio"] = SlotNumbers(t.mmio)
          /\ G["bypass"] = Numbers(t.bypass) /\ G["dreq"] = Numbers(t.dreq)
          /\ G["req"] = Numbers(t.req) /\ G["inside"] = Numbers(inside)
          /\ G["rsp"] = Numbers(t.rsp) /\ G["completed"] = Numbers(t.completed)
          /\ G["drsp"] = Numbers(t.drsp)
      BY QueuesAre DEF t
    <2> HIDE DEF F, G
    <2>9. PICK b \in Places : Joins(F, G, b, r.op)
      <3>1. CASE r.mmio
        <4>1. /\ G["wait"] = Append(F["wait"], r.op)
              /\ G["mmio"] = F["mmio"] /\ G["bypass"] = F["bypass"] /\ G["dreq"] = F["dreq"]
              /\ G["req"] = F["req"] /\ G["inside"] = F["inside"] /\ G["rsp"] = F["rsp"]
              /\ G["completed"] = F["completed"] /\ G["drsp"] = F["drsp"]
          BY <2>5, <2>6, <2>7, <2>8, <3>1
        <4>2. Joins(F, G, "wait", r.op)
          BY <4>1 DEF Joins, Places
        <4> QED
          BY <4>2 DEF Places
      <3>2. CASE ~r.mmio
        <4>1. /\ G["bypass"] = Append(F["bypass"], r.op)
              /\ G["mmio"] = F["mmio"] /\ G["wait"] = F["wait"] /\ G["dreq"] = F["dreq"]
              /\ G["req"] = F["req"] /\ G["inside"] = F["inside"] /\ G["rsp"] = F["rsp"]
              /\ G["completed"] = F["completed"] /\ G["drsp"] = F["drsp"]
          BY <2>5, <2>6, <2>7, <2>8, <3>2
        <4>2. Joins(F, G, "bypass", r.op)
          BY <4>1 DEF Joins, Places
        <4> QED
          BY <4>2 DEF Places
      <3> QED
        BY <3>1, <3>2
    <2>10. t \in Adapters
      BY DEF t
    <2>11. Order(t, inside, access, done)
      <3> DEFINE n == r.op
      <3>1. n = Head(s.pending).op /\ GroupOf(n) \notin s.groups
        BY <2>2, <2>4
      <3>2. Joins(Queues(s, inside), Queues(t, inside), b, n)
        BY <2>9 DEF F, G
      <3> HIDE DEF n
      <3>3. t.groups = s.groups \cup {GroupOf(n)}
        BY <2>5 DEF n
      <3> QED
        BY <2>2, <2>5, <2>10, <3>1, <3>2, <3>3, AdmitOrder
    <2> QED
      BY <2>11 DEF t
  <1> QED
    BY <1>1, <1>2

\* memory_issue: an access goes to the memory, of the engine or of the host.
LEMMA MemoryIssueOrder ==
    ASSUME OpsType, NEW s \in Adapters, NEW inside \in Seq(MemRequests), NEW access,
           NEW wants, NEW done, Order(s, inside, access, done),
           Flow(s, inside, access, wants)
    PROVE  Order(MemoryIssue(s), inside, access, done)
  <1> DEFINE u == MemoryIssue(s)
             dma == s.dreq # <<>> /\ (s.prefer \/ s.bypass = <<>>)
             r == IF dma THEN s.dreq[1] ELSE Head(s.bypass)
             tag == FreeTag(s)
             next == (tag % Tags) + 1
             asked == [op |-> r.op, id |-> tag, write |-> r.write, lines |-> r.lines,
                       lock |-> r.lock]
             ticket == [dma |-> dma, write |-> r.write, rp |-> r.rp, id |-> r.id]
             table == [x \in DOMAIN s.tickets \union {tag} |->
                          IF x = tag THEN ticket ELSE s.tickets[x]]
             queue == Append(s.req, asked)
             F == Queues(s, inside)
             G == Queues(u, inside)
  <1>1. u \in Adapters
    BY MemoryIssueFlow DEF Flow
  <1>2. CASE Cardinality(DOMAIN s.tickets) >= TagLimit \/ (~dma /\ s.bypass = <<>>)
    BY <1>2, Zenon DEF MemoryIssue
  <1>3. CASE ~(Cardinality(DOMAIN s.tickets) >= TagLimit \/ (~dma /\ s.bypass = <<>>))
    <2>1. CASE Len(s.req) = Depth
      <3>1. u = [s EXCEPT !.next = next]
        BY <1>3, <2>1, Zenon DEF MemoryIssue
      <3>2. SameEnds(s, u) /\ SameQueues(s, u)
        <4> HIDE DEF u, next
        <4> QED
          BY <3>1 DEF Adapters, SameEnds, SameQueues
      <3> QED
        BY <3>2, QuietOrder
    <2>2. CASE Len(s.req) # Depth
      <3>1. /\ s.dreq \in Seq(Accesses) /\ s.bypass \in Seq(MemoryBound)
            /\ s.req \in Seq(MemRequests) /\ dma \in BOOLEAN
            /\ dma => s.dreq # <<>> /\ Len(s.dreq) = 1 /\ s.dreq[1] \in Accesses
                      /\ Head(s.dreq) = s.dreq[1]
            /\ ~dma => s.bypass # <<>> /\ Head(s.bypass) \in MemoryBound
        <4>1. s.dreq \in Seq(Accesses) /\ s.bypass \in Seq(MemoryBound) /\ s.req \in Seq(MemRequests)
          BY DEF Adapters
        <4>2. s.dreq # <<>> => Len(s.dreq) = 1
          BY DEF Flow, DmaTurn
        <4> QED
          BY <1>3, <4>1, <4>2
      <3>2. r \in Accesses \cup MemoryBound
        BY <3>1
      <3>3. tag \in 1 .. Tags
        <4>1. s.tickets \in TicketTables
          BY DEF Adapters
        <4>2. Cardinality(DOMAIN s.tickets) < TagLimit
          BY <1>3, <4>1, FewTickets, AdapterAssumption
        <4> QED
          BY <4>2, FreeTagIsFree
      <3>4. asked \in MemRequests /\ asked.op = r.op
        <4> HIDE DEF r, tag
        <4> QED
          BY <3>2, <3>3, IssuedAsks
      <3>5. /\ dma => u = [s EXCEPT !.next = next, !.req = queue, !.tickets = table,
                                    !.prefer = ~dma, !.dreq = <<>>]
            /\ ~dma => u = [s EXCEPT !.next = next, !.req = queue, !.tickets = table,
                                     !.prefer = ~dma, !.bypass = Tail(@)]
        BY <1>3, <2>2, ZenonT(60) DEF MemoryIssue
      <3> HIDE DEF u, tag, next, asked, table, queue
      <3>6. /\ SameEnds(s, u) /\ u.mmio = s.mmio /\ u.mmio_wait = s.mmio_wait
            /\ u.completed = s.completed /\ u.rsp = s.rsp /\ u.drsp = s.drsp
            /\ u.req = queue
            /\ dma => u.dreq = <<>> /\ u.bypass = s.bypass
            /\ ~dma => u.dreq = s.dreq /\ u.bypass = Tail(s.bypass)
        <4> HIDE DEF dma, r
        <4> QED
          BY <3>1, <3>5, ZenonT(40) DEF Adapters, SameEnds
      <3>7. Numbers(u.req) = Append(Numbers(s.req), r.op)
        <4>1. \A x \in MemRequests : Numbers(Append(s.req, x)) = Append(Numbers(s.req), x.op)
          <5>1. \A x \in MemRequests : x.op \in Nat
            BY OpsIssued
          <5> QED
            BY <3>1, <5>1, NumbersAre
        <4> QED
          BY <3>4, <3>6, <4>1 DEF queue
      <3>8. dma => /\ Numbers(s.dreq) # <<>> /\ Head(Numbers(s.dreq)) = r.op
                   /\ Numbers(u.dreq) = Tail(Numbers(s.dreq))
        <4>1. s.dreq # <<>> => /\ Numbers(s.dreq) # <<>>
                               /\ Numbers(Tail(s.dreq)) = Tail(Numbers(s.dreq))
                               /\ Head(Numbers(s.dreq)) = Head(s.dreq).op
          BY <3>1, NumbersAre, OpsIssued
        <4>2. dma => Tail(s.dreq) = <<>>
          <5>1. dma => Tail(s.dreq) \in Seq(Accesses) /\ Len(Tail(s.dreq)) = 0
            BY <3>1
          <5> QED
            BY <5>1, EmptySeq, Zenon
        <4> QED
          BY <3>1, <3>6, <4>1, <4>2
      <3>9. ~dma => /\ Numbers(s.bypass) # <<>> /\ Head(Numbers(s.bypass)) = r.op
                    /\ Numbers(u.bypass) = Tail(Numbers(s.bypass))
        <4>1. s.bypass # <<>> => /\ Numbers(s.bypass) # <<>>
                                 /\ Numbers(Tail(s.bypass)) = Tail(Numbers(s.bypass))
                                 /\ Head(Numbers(s.bypass)) = Head(s.bypass).op
          BY <3>1, NumbersAre, OpsIssued
        <4> QED
          BY <3>1, <3>6, <4>1
      <3>10. /\ F["wait"] = Numbers(s.mmio_wait) /\ F["mmio"] = SlotNumbers(s.mmio)
             /\ F["bypass"] = Numbers(s.bypass) /\ F["dreq"] = Numbers(s.dreq)
             /\ F["req"] = Numbers(s.req) /\ F["inside"] = Numbers(inside)
             /\ F["rsp"] = Numbers(s.rsp) /\ F["completed"] = Numbers(s.completed)
             /\ F["drsp"] = Numbers(s.drsp)
        BY QueuesAre
      <3>11. /\ G["wait"] = Numbers(u.mmio_wait) /\ G["mmio"] = SlotNumbers(u.mmio)
             /\ G["bypass"] = Numbers(u.bypass) /\ G["dreq"] = Numbers(u.dreq)
             /\ G["req"] = Numbers(u.req) /\ G["inside"] = Numbers(inside)
             /\ G["rsp"] = Numbers(u.rsp) /\ G["completed"] = Numbers(u.completed)
             /\ G["drsp"] = Numbers(u.drsp)
        BY <1>1, QueuesAre
      <3>12. Len(u.mmio) <= 1
        BY <3>6 DEF Order
      <3> HIDE DEF F, G, r
      <3>13. CASE dma
        <4> HIDE DEF dma
        <4>1. /\ G["req"] = Append(F["req"], Head(F["dreq"])) /\ F["dreq"] # <<>>
              /\ G["dreq"] = Tail(F["dreq"])
              /\ G["wait"] = F["wait"] /\ G["mmio"] = F["mmio"] /\ G["bypass"] = F["bypass"]
              /\ G["inside"] = F["inside"] /\ G["rsp"] = F["rsp"]
              /\ G["completed"] = F["completed"] /\ G["drsp"] = F["drsp"]
          BY <3>6, <3>7, <3>8, <3>10, <3>11, <3>13
        <4>2. Passes(F, G, "dreq", "req")
          BY <4>1 DEF Passes, Places
        <4> QED
          BY <1>1, <3>6, <3>12, <4>2, PassOrder DEF F, G, u, Places
      <3>14. CASE ~dma
        <4> HIDE DEF dma
        <4>1. /\ G["req"] = Append(F["req"], Head(F["bypass"])) /\ F["bypass"] # <<>>
              /\ G["bypass"] = Tail(F["bypass"])
              /\ G["wait"] = F["wait"] /\ G["mmio"] = F["mmio"] /\ G["dreq"] = F["dreq"]
              /\ G["inside"] = F["inside"] /\ G["rsp"] = F["rsp"]
              /\ G["completed"] = F["completed"] /\ G["drsp"] = F["drsp"]
          BY <3>6, <3>7, <3>9, <3>10, <3>11, <3>14
        <4>2. Passes(F, G, "bypass", "req")
          BY <4>1 DEF Passes, Places
        <4> QED
          BY <1>1, <3>6, <3>12, <4>2, PassOrder DEF F, G, u, Places
      <3> QED
        BY <3>13, <3>14
    <2> QED
      BY <2>1, <2>2
  <1> QED
    BY <1>2, <1>3

\* A whole edge keeps the order.
LEMMA EdgeOrder ==
    ASSUME OpsType, NEW s, NEW inside \in Seq(MemRequests),
           NEW access \in Accesses \cup {NoAccess}, NEW wants, NEW moves,
           NEW shows \in SUBSET wants, NEW t \in Edges(s, moves, shows, access),
           NEW done \in SUBSET DOMAIN ops,
           Flow(s, inside, access, wants), Order(s, inside, access, done)
    PROVE  /\ s.drsp = <<>> => Order(t, inside, access, done)
           /\ s.drsp # <<>> => /\ Order(t, inside, NoAccess, done \cup {s.drsp[1].op})
                               /\ s.drsp[1].op \in DOMAIN ops \ done
  <1> DEFINE a == SlaveHandshakes(s, moves)
             b == MasterRequests(a, shows, access)
             c == MasterAnswer(b)
             left == IF s.dactive THEN wants ELSE wants \ shows
  <1>1. t = MemoryIssue(QueueHost(MemoryReturn(HostResponse(c))))
    BY DEF Edges
  <1>2. /\ Flow(a, inside, access, wants) /\ a.dactive = s.dactive /\ a.drsp = s.drsp
        /\ Order(a, inside, access, done) /\ a \in Adapters
    <2>1. Flow(a, inside, access, wants) /\ a.dactive = s.dactive /\ a.drsp = s.drsp
      BY SlaveFlow DEF KeepsDma
    <2>2. a \in Adapters /\ s \in Adapters
      BY <2>1 DEF Flow
    <2> QED
      BY <2>1, <2>2, SlaveOrder
  <1> HIDE DEF a
  <1>3. /\ Flow(b, inside, access, left) /\ b.drsp = s.drsp
        /\ Order(b, inside, access, done)
    <2>1. left = IF a.dactive THEN wants ELSE wants \ shows
      BY <1>2
    <2> HIDE DEF left
    <2>2. Flow(b, inside, access, left) /\ b.drsp = s.drsp
      <3>1. /\ Flow(a, inside, access, wants) /\ a.dactive = s.dactive
            /\ a.drsp = s.drsp
        BY <1>2
      <3>2. access \in Accesses \cup {NoAccess} /\ shows \in SUBSET wants
        OBVIOUS
      <3>3. Flow(b, inside, access, left)
        BY <2>1, <3>1, <3>2, MasterRequestsFlow
      <3>4. b.drsp = a.drsp
        BY <1>2, <3>1 DEF MasterRequests, Adapters
      <3> QED
        BY <3>1, <3>3, <3>4
    <2>3. Order(b, inside, access, done)
      BY <1>2, MasterRequestsOrder
    <2> QED
      BY <2>2, <2>3
  <1> HIDE DEF b, left
  <1>4. /\ s.drsp = <<>> => Flow(c, inside, access, left) /\ Order(c, inside, access, done)
        /\ s.drsp # <<>> => /\ Flow(c, inside, NoAccess, left)
                            /\ Order(c, inside, NoAccess, done \cup {s.drsp[1].op})
                            /\ s.drsp[1].op \in DOMAIN ops \ done
    <2>1. b \in Adapters
      BY <1>3 DEF Flow
    <2> QED
      BY <1>3, <2>1, MasterAnswerFlow, MasterAnswerOrder
  <1> HIDE DEF c
  <1>5. ASSUME NEW owner, NEW gone, Flow(c, inside, owner, left), Order(c, inside, owner, gone)
        PROVE  Order(t, inside, owner, gone)
    <2> DEFINE d == HostResponse(c)
               e == MemoryReturn(d)
               f == Read(e)
               g == Sorted(f)
               h == Begun(g)
    <2>1. Flow(d, inside, owner, left) /\ Order(d, inside, owner, gone)
      <3>1. Flow(d, inside, owner, left)
        BY <1>5, HostResponseFlow
      <3> QED
        BY <1>5, <3>1, HostResponseOrder DEF Flow
    <2> HIDE DEF d
    <2>2. Flow(e, inside, owner, left) /\ Order(e, inside, owner, gone)
      <3>1. Flow(e, inside, owner, left)
        BY <2>1, MemoryReturnFlow
      <3> QED
        BY <2>1, <3>1, MemoryReturnOrder DEF Flow
    <2> HIDE DEF e
    <2>3. Flow(f, inside, owner, left) /\ Order(f, inside, owner, gone)
      <3>1. Flow(f, inside, owner, left)
        BY <2>2, ReadFlow
      <3> QED
        BY <2>2, <3>1, ReadOrder DEF Flow
    <2> HIDE DEF f
    <2>4. Flow(g, inside, owner, left) /\ Order(g, inside, owner, gone)
      <3>1. Flow(g, inside, owner, left)
        BY <2>3, SortedFlow
      <3> QED
        BY <2>3, <3>1, SortedOrder DEF Flow
    <2> HIDE DEF g
    <2>5. Flow(h, inside, owner, left) /\ Order(h, inside, owner, gone)
      <3>1. Flow(h, inside, owner, left)
        BY <2>4, BegunFlow
      <3> QED
        BY <2>4, <3>1, BegunOrder DEF Flow
    <2>6. QueueHost(e) = h
      <3>1. {Begun(y) : y \in {Sorted(x) : x \in {Read(e)}}} = {h}
        BY DEF f, g
      <3> QED
        BY <3>1 DEF QueueHost
    <2> HIDE DEF h
    <2>7. Order(MemoryIssue(h), inside, owner, gone)
      BY <2>5, MemoryIssueOrder DEF Flow
    <2> QED
      BY <1>1, <2>6, <2>7 DEF d, e
  <1> QED
    BY <1>4, <1>5

-----------------------------------------------------------------------------
(* A period keeps the order                                                  *)

\* The adapter with the FIFOs of the bridge.
With(s, v) == [s EXCEPT !.req = v.req, !.rsp = v.rsp]

BridgeOrder(s, v, access, done) == Order(With(s, v), Inside(v.mem), access, done)

\* The adapter with other FIFOs differs in these alone.
LEMMA WithIs ==
    ASSUME NEW s \in Adapters, NEW v, NEW tickets, Bridge(v, tickets)
    PROVE  /\ With(s, v) \in Adapters /\ With(s, v).req = v.req /\ With(s, v).rsp = v.rsp
           /\ With(s, v).mmio_wait = s.mmio_wait /\ With(s, v).mmio = s.mmio
           /\ With(s, v).bypass = s.bypass /\ With(s, v).dreq = s.dreq
           /\ With(s, v).completed = s.completed /\ With(s, v).drsp = s.drsp
           /\ With(s, v).pending = s.pending /\ With(s, v).hreq = s.hreq
           /\ With(s, v).hrsp = s.hrsp /\ With(s, v).groups = s.groups
  BY DEF Bridge, With, Adapters

\* The bridge takes a request: it goes inside.
LEMMA TakenOrder ==
    ASSUME OpsType, NEW s \in Adapters, NEW v, NEW tickets, Bridge(v, tickets),
           v.req # <<>>, NEW access, NEW done, BridgeOrder(s, v, access, done)
    PROVE  BridgeOrder(s, [v EXCEPT !.mem.bursts = Append(@, Burst(Head(v.req))),
                                    !.req = Tail(@)], access, done)
  <1> DEFINE r == Head(v.req)
             n == [v.mem EXCEPT !.bursts = Append(@, Burst(r))]
             u == [v EXCEPT !.mem.bursts = Append(@, Burst(r)), !.req = Tail(@)]
             x == With(s, v)
             y == With(s, u)
             F == Queues(x, Inside(v.mem))
             G == Queues(y, Inside(n))
  <1>1. /\ v \in [req : Seq(MemRequests), rsp : Seq(MemAnswers), mem : Memories]
        /\ v.req \in Seq(MemRequests) /\ r \in MemRequests /\ v.mem \in Memories
    BY DEF Bridge
  <1>2. Bridge(u, tickets)
    BY TakenKeeps
  <1>3. n \in Memories /\ Inside(n) = Append(Inside(v.mem), r)
    BY <1>1, InsideTakes
  <1>4. /\ x \in Adapters /\ y \in Adapters
        /\ Inside(v.mem) \in Seq(MemRequests) /\ Inside(n) \in Seq(MemRequests)
    BY <1>1, <1>2, <1>3, WithIs, InsideIs
  <1>5. u.req = Tail(v.req) /\ u.rsp = v.rsp /\ u.mem = n
    <2>1. u = [v EXCEPT !.mem = n, !.req = Tail(v.req)]
      OBVIOUS
    <2> HIDE DEF r, n, u
    <2> QED
      BY <1>1, <2>1
  <1> HIDE DEF n, r, u
  <1>6. /\ x.req = v.req /\ x.rsp = v.rsp /\ x.mmio_wait = s.mmio_wait /\ x.mmio = s.mmio
        /\ x.bypass = s.bypass /\ x.dreq = s.dreq /\ x.completed = s.completed
        /\ x.drsp = s.drsp /\ x.pending = s.pending /\ x.hreq = s.hreq
        /\ x.hrsp = s.hrsp /\ x.groups = s.groups
    BY WithIs
  <1>7. /\ y.req = Tail(v.req) /\ y.rsp = v.rsp /\ y.mmio_wait = s.mmio_wait
        /\ y.mmio = s.mmio /\ y.bypass = s.bypass /\ y.dreq = s.dreq
        /\ y.completed = s.completed /\ y.drsp = s.drsp /\ y.pending = s.pending
        /\ y.hreq = s.hreq /\ y.hrsp = s.hrsp /\ y.groups = s.groups
    BY <1>2, <1>5, WithIs
  <1>8. Order(x, Inside(v.mem), access, done)
    BY DEF BridgeOrder
  <1> HIDE DEF x, y
  <1>9. /\ Numbers(v.req) # <<>> /\ Head(Numbers(v.req)) = r.op
        /\ Numbers(Tail(v.req)) = Tail(Numbers(v.req))
        /\ Numbers(Inside(n)) = Append(Numbers(Inside(v.mem)), r.op)
    <2>1. \A z \in MemRequests : z.op \in Nat
      BY OpsIssued
    <2>2. /\ Numbers(v.req) # <<>> /\ Head(Numbers(v.req)) = r.op
          /\ Numbers(Tail(v.req)) = Tail(Numbers(v.req))
      BY <1>1, <2>1, NumbersAre DEF r
    <2>3. \A z \in MemRequests :
              Numbers(Append(Inside(v.mem), z)) = Append(Numbers(Inside(v.mem)), z.op)
      BY <1>4, <2>1, NumbersAre
    <2> QED
      BY <1>1, <1>3, <2>2, <2>3
  <1>10. /\ F["wait"] = Numbers(x.mmio_wait) /\ F["mmio"] = SlotNumbers(x.mmio)
         /\ F["bypass"] = Numbers(x.bypass) /\ F["dreq"] = Numbers(x.dreq)
         /\ F["req"] = Numbers(x.req) /\ F["inside"] = Numbers(Inside(v.mem))
         /\ F["rsp"] = Numbers(x.rsp) /\ F["completed"] = Numbers(x.completed)
         /\ F["drsp"] = Numbers(x.drsp)
    BY <1>4, QueuesAre
  <1>11. /\ G["wait"] = Numbers(y.mmio_wait) /\ G["mmio"] = SlotNumbers(y.mmio)
         /\ G["bypass"] = Numbers(y.bypass) /\ G["dreq"] = Numbers(y.dreq)
         /\ G["req"] = Numbers(y.req) /\ G["inside"] = Numbers(Inside(n))
         /\ G["rsp"] = Numbers(y.rsp) /\ G["completed"] = Numbers(y.completed)
         /\ G["drsp"] = Numbers(y.drsp)
    BY <1>4, QueuesAre
  <1> HIDE DEF F, G
  <1>12. /\ G["req"] = Tail(F["req"]) /\ F["req"] # <<>>
         /\ G["inside"] = Append(F["inside"], Head(F["req"]))
         /\ G["wait"] = F["wait"] /\ G["mmio"] = F["mmio"] /\ G["bypass"] = F["bypass"]
         /\ G["dreq"] = F["dreq"] /\ G["rsp"] = F["rsp"]
         /\ G["completed"] = F["completed"] /\ G["drsp"] = F["drsp"]
    BY <1>6, <1>7, <1>9, <1>10, <1>11
  <1>13. Passes(F, G, "req", "inside")
    BY <1>12 DEF Passes, Places
  <1>14. SameEnds(x, y) /\ Len(y.mmio) <= 1
    <2>1. y.mmio = x.mmio /\ Len(x.mmio) <= 1
      BY <1>6, <1>7, <1>8 DEF Order
    <2> QED
      BY <1>6, <1>7, <2>1 DEF SameEnds
  <1>15. Order(y, Inside(n), access, done)
    BY <1>4, <1>8, <1>13, <1>14, PassOrder DEF F, G, Places
  <1>16. BridgeOrder(s, u, access, done)
    BY <1>5, <1>15 DEF BridgeOrder, y
  <1> QED
    BY <1>16 DEF u, r

\* The bridge gives an answer: it goes out.
LEMMA GivenOrder ==
    ASSUME OpsType, NEW s \in Adapters, NEW v, NEW tickets, Bridge(v, tickets),
           v.mem.bursts # <<>>, NEW access, NEW done, BridgeOrder(s, v, access, done)
    PROVE  BridgeOrder(s, [v EXCEPT !.rsp = Append(@, Answer(v.mem)),
                                    !.mem.bursts = Tail(@)], access, done)
  <1> DEFINE a == Answer(v.mem)
             r == Head(v.mem.bursts).req
             n == [v.mem EXCEPT !.bursts = Tail(@)]
             u == [v EXCEPT !.rsp = Append(@, a), !.mem.bursts = Tail(@)]
             x == With(s, v)
             y == With(s, u)
             F == Queues(x, Inside(v.mem))
             G == Queues(y, Inside(n))
  <1>1. /\ v \in [req : Seq(MemRequests), rsp : Seq(MemAnswers), mem : Memories]
        /\ v.rsp \in Seq(MemAnswers) /\ v.mem \in Memories
        /\ a \in MemAnswers /\ a.op = r.op
    BY AnswerType DEF Bridge
  <1>2. Bridge(u, tickets)
    BY GivenKeeps
  <1>3. /\ n \in Memories /\ Inside(n) = Tail(Inside(v.mem))
        /\ Inside(v.mem) # <<>> /\ Head(Inside(v.mem)) = r
    BY <1>1, InsideGives
  <1>4. /\ x \in Adapters /\ y \in Adapters
        /\ Inside(v.mem) \in Seq(MemRequests) /\ Inside(n) \in Seq(MemRequests)
    BY <1>1, <1>2, <1>3, WithIs, InsideIs
  <1>5. u.req = v.req /\ u.rsp = Append(v.rsp, a) /\ u.mem = n
    <2>1. u = [v EXCEPT !.rsp = Append(v.rsp, a), !.mem = n]
      OBVIOUS
    <2> HIDE DEF a, n, u
    <2> QED
      BY <1>1, <2>1
  <1> HIDE DEF n, r, u, a
  <1>6. /\ x.req = v.req /\ x.rsp = v.rsp /\ x.mmio_wait = s.mmio_wait /\ x.mmio = s.mmio
        /\ x.bypass = s.bypass /\ x.dreq = s.dreq /\ x.completed = s.completed
        /\ x.drsp = s.drsp /\ x.pending = s.pending /\ x.hreq = s.hreq
        /\ x.hrsp = s.hrsp /\ x.groups = s.groups
    BY WithIs
  <1>7. /\ y.req = v.req /\ y.rsp = Append(v.rsp, a) /\ y.mmio_wait = s.mmio_wait
        /\ y.mmio = s.mmio /\ y.bypass = s.bypass /\ y.dreq = s.dreq
        /\ y.completed = s.completed /\ y.drsp = s.drsp /\ y.pending = s.pending
        /\ y.hreq = s.hreq /\ y.hrsp = s.hrsp /\ y.groups = s.groups
    BY <1>2, <1>5, WithIs
  <1>8. Order(x, Inside(v.mem), access, done)
    BY DEF BridgeOrder
  <1> HIDE DEF x, y
  <1>9. /\ Numbers(Inside(v.mem)) # <<>> /\ Head(Numbers(Inside(v.mem))) = r.op
        /\ Numbers(Inside(n)) = Tail(Numbers(Inside(v.mem)))
        /\ Numbers(Append(v.rsp, a)) = Append(Numbers(v.rsp), r.op)
    <2>1. /\ \A z \in MemRequests : z.op \in Nat
          /\ \A z \in MemAnswers : z.op \in Nat
      BY OpsIssued
    <2>2. /\ Numbers(Inside(v.mem)) # <<>> /\ Head(Numbers(Inside(v.mem))) = r.op
          /\ Numbers(Inside(n)) = Tail(Numbers(Inside(v.mem)))
      BY <1>3, <1>4, <2>1, NumbersAre
    <2>3. \A z \in MemAnswers : Numbers(Append(v.rsp, z)) = Append(Numbers(v.rsp), z.op)
      BY <1>1, <2>1, NumbersAre
    <2> QED
      BY <1>1, <2>2, <2>3
  <1>10. /\ F["wait"] = Numbers(x.mmio_wait) /\ F["mmio"] = SlotNumbers(x.mmio)
         /\ F["bypass"] = Numbers(x.bypass) /\ F["dreq"] = Numbers(x.dreq)
         /\ F["req"] = Numbers(x.req) /\ F["inside"] = Numbers(Inside(v.mem))
         /\ F["rsp"] = Numbers(x.rsp) /\ F["completed"] = Numbers(x.completed)
         /\ F["drsp"] = Numbers(x.drsp)
    BY <1>4, QueuesAre
  <1>11. /\ G["wait"] = Numbers(y.mmio_wait) /\ G["mmio"] = SlotNumbers(y.mmio)
         /\ G["bypass"] = Numbers(y.bypass) /\ G["dreq"] = Numbers(y.dreq)
         /\ G["req"] = Numbers(y.req) /\ G["inside"] = Numbers(Inside(n))
         /\ G["rsp"] = Numbers(y.rsp) /\ G["completed"] = Numbers(y.completed)
         /\ G["drsp"] = Numbers(y.drsp)
    BY <1>4, QueuesAre
  <1> HIDE DEF F, G
  <1>12. /\ G["inside"] = Tail(F["inside"]) /\ F["inside"] # <<>>
         /\ G["rsp"] = Append(F["rsp"], Head(F["inside"]))
         /\ G["wait"] = F["wait"] /\ G["mmio"] = F["mmio"] /\ G["bypass"] = F["bypass"]
         /\ G["dreq"] = F["dreq"] /\ G["req"] = F["req"]
         /\ G["completed"] = F["completed"] /\ G["drsp"] = F["drsp"]
    BY <1>6, <1>7, <1>9, <1>10, <1>11
  <1>13. Passes(F, G, "inside", "rsp")
    BY <1>12 DEF Passes, Places
  <1>14. SameEnds(x, y) /\ Len(y.mmio) <= 1
    <2>1. y.mmio = x.mmio /\ Len(x.mmio) <= 1
      BY <1>6, <1>7, <1>8 DEF Order
    <2> QED
      BY <1>6, <1>7, <2>1 DEF SameEnds
  <1>15. Order(y, Inside(n), access, done)
    BY <1>4, <1>8, <1>13, <1>14, PassOrder DEF F, G, Places
  <1>16. BridgeOrder(s, u, access, done)
    BY <1>5, <1>15 DEF BridgeOrder, y
  <1> QED
    BY <1>16 DEF u, a

\* A piece changes nothing of the order.
LEMMA PiecesOrder ==
    ASSUME NEW s, NEW v, NEW tickets, NEW n \in Memories, Bridge(v, tickets),
           Len(n.bursts) = Len(v.mem.bursts),
           \A i \in DOMAIN v.mem.bursts : n.bursts[i].req = v.mem.bursts[i].req,
           NEW access, NEW done, BridgeOrder(s, v, access, done)
    PROVE  BridgeOrder(s, [v EXCEPT !.mem = n], access, done)
  <1>1. Inside(n) = Inside(v.mem)
    BY SameInside DEF Bridge
  <1>2. /\ [v EXCEPT !.mem = n].req = v.req /\ [v EXCEPT !.mem = n].rsp = v.rsp
        /\ [v EXCEPT !.mem = n].mem = n
    BY DEF Bridge
  <1> QED
    BY <1>1, <1>2 DEF BridgeOrder, With

\* A whole period.
LEMMA PeriodOrder ==
    ASSUME OpsType, NEW s \in Adapters, NEW v, NEW tickets, Bridge(v, tickets), NEW takes,
           NEW answered, NEW held, NEW u \in Periods(v, Depth, takes, answered, held),
           NEW access, NEW done, BridgeOrder(s, v, access, done)
    PROVE  BridgeOrder(s, u, access, done)
  <1> DEFINE taken == IF Len(v.mem.bursts) < Slots /\ v.req # <<>>
                      THEN [v EXCEPT !.mem.bursts = Append(@, Burst(Head(v.req))),
                                     !.req = Tail(@)]
                      ELSE v
             offered(t) == IF Unsent(t.mem) # {} /\ takes
                           THEN [t EXCEPT !.mem = Submitted(@)] ELSE t
             stepped(t) == [t EXCEPT !.mem = Collected(@, answered)]
             given(t) == IF Answerable(t.mem) /\ ~held /\ Len(t.rsp) < Depth
                         THEN [t EXCEPT !.rsp = Append(@, Answer(t.mem)),
                                        !.mem.bursts = Tail(@)]
                         ELSE t
             Good(t) == Bridge(t, tickets) /\ BridgeOrder(s, t, access, done)
  <1>1. Good(taken)
    BY TakenKeeps, TakenOrder
  <1>2. ASSUME NEW t, Good(t)
        PROVE  Good(offered(t))
    <2>1. CASE Unsent(t.mem) # {} /\ takes
      <3> DEFINE n == Submitted(t.mem)
      <3>1. /\ n \in Memories /\ Len(n.bursts) = Len(t.mem.bursts)
            /\ \A j \in DOMAIN t.mem.bursts : n.bursts[j].req = t.mem.bursts[j].req
        BY <1>2, <2>1, SubmittedType DEF Bridge
      <3> HIDE DEF n
      <3>2. Good([t EXCEPT !.mem = n])
        BY <1>2, <3>1, PiecesKeep, PiecesOrder
      <3> QED
        BY <2>1, <3>2 DEF n
    <2> QED
      BY <1>2, <2>1
  <1>3. ASSUME NEW t, Good(t)
        PROVE  Good(stepped(t))
    <2> DEFINE n == Collected(t.mem, answered)
    <2>1. /\ n \in Memories /\ Len(n.bursts) = Len(t.mem.bursts)
          /\ \A j \in DOMAIN t.mem.bursts : n.bursts[j].req = t.mem.bursts[j].req
      BY <1>3, CollectedType DEF Bridge
    <2> HIDE DEF n
    <2>2. Good([t EXCEPT !.mem = n])
      BY <1>3, <2>1, PiecesKeep, PiecesOrder
    <2> QED
      BY <2>2 DEF n
  <1>4. ASSUME NEW t, Good(t)
        PROVE  Good(given(t))
    <2>1. CASE Answerable(t.mem) /\ ~held /\ Len(t.rsp) < Depth
      <3>1. t.mem.bursts # <<>>
        BY <2>1 DEF Answerable
      <3> QED
        BY <1>4, <2>1, <3>1, GivenKeeps, GivenOrder
    <2> QED
      BY <1>4, <2>1
  <1>5. u = given(stepped(offered(taken)))
    BY ZenonT(40) DEF Periods
  <1>6. Good(u)
    <2> HIDE DEF taken, offered, stepped, given, Good
    <2> QED
      BY <1>1, <1>2, <1>3, <1>4, <1>5
  <1> QED
    BY <1>6

-----------------------------------------------------------------------------
(* The steps keep the order                                                  *)

\* What holds of the accesses as they were holds of the same accesses now.
LEMMA OrderSame ==
    ASSUME ops' = ops, Order(ad', Inside(mem'), rtl'.access, Answered')
    PROVE  Order(ad, Inside(mem), rtl.access, Answered)'
  <1> DEFINE inside == Inside(mem')
             held == Held(Queues(ad', inside))
  <1>1. /\ Len(ad'.mmio) <= 1 /\ Once(Queues(ad', inside)) /\ InTurn(ad')
        /\ OneOfGroup(ad', held) /\ InOnePlace(ad', held, Answered')
        /\ InGroupOrder(ad', held, Answered') /\ EngineWaits(held, rtl'.access, Answered')
    BY DEF Order
  <1>2. /\ inside = Inside(mem)' /\ Queues(ad', inside) = Queues(ad, Inside(mem))'
        /\ held = Held(Queues(ad, Inside(mem)))'
        /\ Waiting(ad') = Waiting(ad)' /\ Leaving(ad') = Leaving(ad)'
        /\ \A T : OfHost(T) = OfHost(T)'
        /\ \A n : GroupOf(n) = GroupOf(n)'
        /\ HostOps = HostOps'
    BY DEF Inside, Queues, Held, Waiting, Leaving, OfHost, GroupOf, HostOps
  <1> HIDE DEF inside, held
  <1>3. InTurn(ad)' /\ OneOfGroup(ad, Held(Queues(ad, Inside(mem))))'
    BY <1>1, <1>2 DEF InTurn, OneOfGroup, Ascending
  <1>4. InOnePlace(ad, Held(Queues(ad, Inside(mem))), Answered)'
    BY <1>1, <1>2 DEF InOnePlace
  <1>5. InGroupOrder(ad, Held(Queues(ad, Inside(mem))), Answered)'
    BY <1>1, <1>2 DEF InGroupOrder
  <1>6. EngineWaits(Held(Queues(ad, Inside(mem))), rtl.access, Answered)'
    BY <1>1, <1>2 DEF EngineWaits
  <1>7. Once(Queues(ad, Inside(mem)))'
    BY <1>1, <1>2 DEF Once
  <1> QED
    BY <1>1, <1>3, <1>4, <1>5, <1>6, <1>7 DEF Order

\* Who has an answer, and what is issued.
LEMMA AnsweredIssued ==
    ASSUME PathInv
    PROVE  /\ Answered \in SUBSET DOMAIN ops /\ DOMAIN ops \subseteq Nat \ {0}
           /\ HostOps \subseteq DOMAIN ops
  BY DEF PathInv, PathType, Answered, Returns, OpsType, HostOps

\* A rising edge keeps the order.
LEMMA ClockOrder ==
    ASSUME PathInv, OrderInv, NEW moves, NEW shows \in SUBSET rtl.wants,
           Clock(moves, shows)
    PROVE  OrderInv'
  <1> DEFINE done == ad.drsp # <<>>
             owner == IF done THEN NoAccess ELSE rtl.access
             gone == IF done THEN Answered \cup {ad.drsp[1].op} ELSE Answered
             inside == Inside(mem)
  <1>1. /\ OpsType /\ ad \in Adapters /\ mem \in Memories
        /\ rtl.access \in Accesses \cup {NoAccess}
        /\ ad' \in Edges(ad, moves, shows, rtl.access)
        /\ UNCHANGED <<program, mem, ops>>
        /\ Flow(ad, inside, rtl.access, rtl.wants)
        /\ Order(ad, inside, rtl.access, Answered)
    BY DEF PathInv, PathType, OrderInv, Clock, Flow
  <1>2. inside \in Seq(MemRequests)
    BY <1>1, InsideIs
  <1> HIDE DEF inside
  <1>3. /\ ~done => Order(ad', inside, rtl.access, Answered)
        /\ done => /\ Order(ad', inside, NoAccess, Answered \cup {ad.drsp[1].op})
                   /\ ad.drsp[1].op \in DOMAIN ops \ Answered
    BY <1>1, <1>2, AnsweredIssued, EdgeOrder
  <1>4. Order(ad', inside, owner, gone)
    BY <1>3
  <1>5. rtl'.access = owner /\ inside = Inside(mem') /\ ops' = ops
        /\ answers' = IF done THEN answers \cup {ad.drsp[1]} ELSE answers
    <2>1. rtl \in [wants : SUBSET {"AW", "W", "AR"}, access : Accesses \cup {NoAccess},
                   asked : Nat]
      BY DEF PathInv, PathType
    <2> QED
      BY <1>1, <2>1 DEF Clock, inside
  <1>6. Answered' = gone
    BY <1>5 DEF Answered
  <1>7. \A a, b \in answers' : a.op = b.op => a = b
    <2>1. \A a, b \in answers : a.op = b.op => a = b
      BY DEF OrderInv
    <2>2. done => \A a \in answers : a.op # ad.drsp[1].op
      BY <1>3 DEF Answered
    <2> QED
      BY <1>5, <2>1, <2>2
  <1> HIDE DEF done, owner, gone
  <1>8. Order(ad', Inside(mem'), rtl'.access, Answered')
    BY <1>4, <1>5, <1>6
  <1> QED
    BY <1>5, <1>7, <1>8, OrderSame DEF OrderInv

\* A period of the memory keeps the order.
LEMMA MemoryPeriodOrder ==
    ASSUME PathInv, OrderInv, NEW takes, NEW answered, NEW held,
           MemoryPeriod(takes, answered, held)
    PROVE  OrderInv'
  <1> DEFINE v == [req |-> ad.req, rsp |-> ad.rsp, mem |-> mem]
  <1>1. PICK u \in Periods(v, Depth, takes, answered, held) :
            /\ ad' = [ad EXCEPT !.req = u.req, !.rsp = u.rsp]
            /\ mem' = u.mem
            /\ UNCHANGED <<program, rtl, ops, answers>>
    BY DEF MemoryPeriod
  <1>2. /\ ad \in Adapters /\ mem \in Memories /\ OpsType
        /\ Tagged(ad, Inside(mem)) /\ Order(ad, Inside(mem), rtl.access, Answered)
        /\ \A a, b \in answers : a.op = b.op => a = b
    BY DEF PathInv, PathType, OrderInv
  <1>3. Bridge(v, ad.tickets)
    BY <1>2 DEF Bridge, Adapters, Tagged
  <1>4. With(ad, v) = ad /\ v.mem = mem
    BY <1>2 DEF With, Adapters
  <1> HIDE DEF v
  <1>5. BridgeOrder(ad, v, rtl.access, Answered)
    BY <1>2, <1>4 DEF BridgeOrder
  <1>6. BridgeOrder(ad, u, rtl.access, Answered)
    BY <1>2, <1>3, <1>5, PeriodOrder
  <1>7. Order(ad', Inside(mem'), rtl'.access, Answered')
    <2>1. ad' = With(ad, u) /\ mem' = u.mem /\ rtl' = rtl /\ Answered' = Answered
      BY <1>1 DEF With, Answered
    <2> QED
      BY <1>6, <2>1 DEF BridgeOrder
  <1> QED
    BY <1>1, <1>2, <1>7, OrderSame DEF OrderInv

\* The host takes the oldest answer.
LEMMA HostTakesOrder == PathInv /\ OrderInv /\ HostTakes => OrderInv'
  <1> SUFFICES ASSUME PathInv, OrderInv, HostTakes PROVE OrderInv'
    OBVIOUS
  <1> DEFINE a == Head(ad.hrsp)
             n == a.op
             inside == Inside(mem)
             held == Held(Queues(ad, inside))
  <1>1. /\ OpsType /\ ad \in Adapters /\ mem \in Memories
        /\ rtl.access \in Accesses \cup {NoAccess}
        /\ ad.hrsp # <<>> /\ ad' = [ad EXCEPT !.hrsp = Tail(@)]
        /\ answers' = answers \cup {a}
        /\ UNCHANGED <<program, rtl, mem, ops>>
        /\ Order(ad, inside, rtl.access, Answered)
        /\ \A x, y \in answers : x.op = y.op => x = y
    BY DEF PathInv, PathType, OrderInv, HostTakes
  <1>2. /\ Len(ad.mmio) <= 1 /\ Once(Queues(ad, inside)) /\ InTurn(ad)
        /\ OneOfGroup(ad, held) /\ InOnePlace(ad, held, Answered)
        /\ InGroupOrder(ad, held, Answered) /\ EngineWaits(held, rtl.access, Answered)
    BY <1>1 DEF Order
  <1>3. ad.hrsp \in Seq(HostReturns) /\ a \in HostReturns
    <2>1. ad.hrsp \in Seq(HostReturns)
      BY <1>1 DEF Adapters
    <2> QED
      BY <1>1, <2>1
  <1>4. n \in DOMAIN ops /\ n \in Nat /\ ~ops[n].dma
    BY <1>1, <1>3, OpsIssued
  <1>5. /\ ad'.hrsp = Tail(ad.hrsp) /\ ad'.pending = ad.pending /\ ad'.hreq = ad.hreq
        /\ ad'.groups = ad.groups /\ SameQueues(ad, ad')
    BY <1>1 DEF Adapters, SameQueues
  <1> HIDE DEF inside
  <1>6. Queues(ad', inside) = Queues(ad, inside)
    BY <1>5 DEF SameQueues, Queues, QueueAt
  <1>7. /\ Leaving(ad) = Ops(ad.hrsp) /\ Leaving(ad') = Ops(ad'.hrsp)
        /\ Waiting(ad') = Waiting(ad)
    BY <1>5 DEF Leaving, Waiting, Numbers, Range, Ops
  <1>8. /\ Leaving(ad) = Leaving(ad') \cup {n}
        /\ \A i \in DOMAIN ad'.hrsp : i + 1 \in DOMAIN ad.hrsp /\ i \in Nat \ {0}
                                      /\ ad'.hrsp[i] = ad.hrsp[i + 1]
        /\ 1 \in DOMAIN ad.hrsp /\ ad.hrsp[1].op = n
    BY <1>1, <1>3, <1>5, <1>7, OpsTail
  <1>9. \A i \in DOMAIN ad'.hrsp :
            /\ ad'.hrsp[i].op # n
            /\ GroupOf(n) = GroupOf(ad'.hrsp[i].op) => n < ad'.hrsp[i].op
    <2> SUFFICES ASSUME NEW i \in DOMAIN ad'.hrsp
                 PROVE  /\ ad'.hrsp[i].op # n
                        /\ GroupOf(n) = GroupOf(ad'.hrsp[i].op) => n < ad'.hrsp[i].op
      OBVIOUS
    <2>1. i + 1 \in DOMAIN ad.hrsp /\ 1 # i + 1 /\ 1 < i + 1 /\ ad'.hrsp[i] = ad.hrsp[i + 1]
      BY <1>8
    <2> HIDE DEF n, a
    <2> QED
      BY <1>2, <1>8, <2>1 DEF InGroupOrder
  <1>10. \A m \in Leaving(ad') : m # n /\ (GroupOf(n) = GroupOf(m) => n < m)
    BY <1>7, <1>9 DEF Ops
  <1> DEFINE gone == Answered \cup {n}
  <1>11. OfHost(gone) = OfHost(Answered) \cup {n} /\ Answered' = gone
    BY <1>1, <1>4 DEF OfHost, Answered
  <1> HIDE DEF n, a, held
  <1>12. InTurn(ad') /\ OneOfGroup(ad', held)
    BY <1>2, <1>5, <1>7 DEF InTurn, OneOfGroup
  <1>13. InOnePlace(ad', held, gone)
    BY <1>2, <1>7, <1>8, <1>10, <1>11 DEF InOnePlace
  <1>14. InGroupOrder(ad', held, gone)
    <2>1. ASSUME NEW i \in DOMAIN ad'.hrsp, NEW j \in DOMAIN ad'.hrsp
          PROVE  /\ ad'.hrsp[i].op = ad'.hrsp[j].op => i = j
                 /\ i < j /\ GroupOf(ad'.hrsp[i].op) = GroupOf(ad'.hrsp[j].op)
                       => ad'.hrsp[i].op < ad'.hrsp[j].op
      <3>1. /\ i + 1 \in DOMAIN ad.hrsp /\ ad'.hrsp[i] = ad.hrsp[i + 1]
            /\ j + 1 \in DOMAIN ad.hrsp /\ ad'.hrsp[j] = ad.hrsp[j + 1]
            /\ (i + 1 = j + 1 => i = j) /\ (i < j => i + 1 < j + 1)
        BY <1>8
      <3> QED
        BY <1>2, <3>1 DEF InGroupOrder
    <2>2. \A m \in Leaving(ad'), k \in OfHost(gone) : GroupOf(m) = GroupOf(k) => k < m
      BY <1>2, <1>8, <1>10, <1>11 DEF InGroupOrder
    <2> QED
      BY <1>2, <1>7, <2>1, <2>2 DEF InGroupOrder
  <1>15. EngineWaits(held, rtl.access, gone)
    <2>1. rtl.access.op # n
      <3>1. CASE rtl.access \in Accesses
        BY <1>1, <1>4, <3>1, OpsIssued
      <3>2. CASE rtl.access = NoAccess
        <4>1. NoAccess.op = 0 /\ n # 0
          BY <1>4, AnsweredIssued DEF NoAccess, Access
        <4> QED
          BY <3>2, <4>1
      <3> QED
        BY <1>1, <3>1, <3>2
    <2> QED
      BY <1>2, <2>1 DEF EngineWaits
  <1>16. Order(ad', Inside(mem'), rtl'.access, Answered')
    <2>1. Inside(mem') = inside /\ rtl' = rtl
      BY <1>1 DEF inside
    <2>2. ad'.mmio = ad.mmio
      BY <1>5 DEF SameQueues
    <2> HIDE DEF gone
    <2> QED
      BY <1>2, <1>6, <1>11, <1>12, <1>13, <1>14, <1>15, <2>1, <2>2 DEF Order, held
  <1>17. \A x, y \in answers' : x.op = y.op => x = y
    <2>1. n \notin Answered
      BY <1>2, <1>8 DEF InOnePlace
    <2>2. \A x \in answers : x.op # n
      BY <2>1 DEF Answered
    <2> QED
      BY <1>1, <2>2 DEF n
  <1> QED
    BY <1>1, <1>16, <1>17, OrderSame DEF OrderInv

\* Who is held, waits or leaves was issued.
LEMMA HeldIssued ==
    ASSUME OpsType, NEW s \in Adapters, NEW inside \in Seq(MemRequests), NEW access,
           NEW done, Order(s, inside, access, done)
    PROVE  /\ Held(Queues(s, inside)) \subseteq DOMAIN ops
           /\ Waiting(s) \subseteq DOMAIN ops /\ Leaving(s) \subseteq DOMAIN ops
  <1>1. \A n \in Held(Queues(s, inside)) : n \in DOMAIN ops
    BY HeldInQueues
  <1>2. Waiting(s) \subseteq HostOps /\ Leaving(s) \subseteq HostOps
    BY EndsAreHosts
  <1> QED
    BY <1>1, <1>2 DEF HostOps

\* An access is issued: the order of the others is what it was.
LEMMA OrderGrows ==
    ASSUME OpsType, OpsGrow, ad \in Adapters, mem \in Memories, answers' = answers,
           mem' = mem, Answered \subseteq DOMAIN ops,
           SameQueues(ad, ad'), ad'.hrsp = ad.hrsp, ad'.groups = ad.groups,
           Order(ad, Inside(mem), rtl.access, Answered),
           NEW new, new \cap DOMAIN ops = {}, HostOps' = HostOps \cup new,
           Waiting(ad') = Waiting(ad) \cup new, InTurn(ad)',
           EngineWaits(Held(Queues(ad, Inside(mem))), rtl'.access, Answered)
    PROVE  Order(ad, Inside(mem), rtl.access, Answered)'
  <1> DEFINE inside == Inside(mem)
             held == Held(Queues(ad, inside))
             done == Answered
  <1>1. /\ Len(ad.mmio) <= 1 /\ Once(Queues(ad, inside))
        /\ OneOfGroup(ad, held) /\ InOnePlace(ad, held, done)
        /\ InGroupOrder(ad, held, done)
    BY DEF Order
  <1>2. inside \in Seq(MemRequests)
    BY InsideIs
  <1>3. /\ held \subseteq DOMAIN ops /\ Waiting(ad) \subseteq DOMAIN ops
        /\ Leaving(ad) \subseteq DOMAIN ops /\ done \subseteq DOMAIN ops
        /\ HostOps \subseteq DOMAIN ops
    BY <1>2, HeldIssued DEF HostOps
  <1>4. /\ \A k \in DOMAIN ops : GroupOf(k)' = GroupOf(k) /\ ops'[k].dma = ops[k].dma
        /\ Ops(ad.hrsp) \subseteq DOMAIN ops
    <2>1. Ops(ad.hrsp) = Leaving(ad)
      BY DEF Leaving, Ops, Numbers, Range
    <2> QED
      BY <1>3, <2>1 DEF OpsGrow, GroupOf
  <1>5. /\ Inside(mem)' = inside /\ Answered' = done
        /\ Queues(ad, Inside(mem))' = Queues(ad, inside)
        /\ Leaving(ad)' = Leaving(ad) /\ Waiting(ad)' = Waiting(ad) \cup new
        /\ ad'.mmio = ad.mmio
    <2>1. Inside(mem)' = inside /\ Answered' = done
      BY DEF Inside, Answered
    <2>2. Waiting(ad)' = Waiting(ad')
      BY DEF Waiting, Numbers, Range
    <2>3. Leaving(ad)' = Leaving(ad)
      BY DEF Leaving, Numbers, Range
    <2>4. Queues(ad, Inside(mem))' = Queues(ad', inside)
      BY <2>1 DEF Queues, QueueAt, Numbers, SlotNumbers, Places
    <2>5. Queues(ad', inside) = Queues(ad, inside)
      BY DEF Queues, QueueAt, SameQueues
    <2> QED
      BY <2>1, <2>2, <2>3, <2>4, <2>5 DEF SameQueues
  <1>6. Held(Queues(ad, Inside(mem)))' = held
    BY <1>5 DEF Held
  <1>7. \A T \in SUBSET DOMAIN ops : {k \in T : ~ops'[k].dma} = OfHost(T)
    BY <1>4 DEF OfHost
  <1>8. /\ OfHost(Held(Queues(ad, Inside(mem))))' = OfHost(held)
        /\ OfHost(Answered)' = OfHost(done)
        /\ OfHost(held) \subseteq DOMAIN ops /\ OfHost(done) \subseteq DOMAIN ops
    BY <1>3, <1>5, <1>6, <1>7 DEF OfHost
  <1> HIDE DEF held, inside
  <1>9. HostOps' \ Waiting(ad)' = HostOps \ Waiting(ad)
    BY <1>3, <1>5
  <1>10. OneOfGroup(ad, Held(Queues(ad, Inside(mem))))'
    <2>1. ad'.groups = {GroupOf(k) : k \in OfHost(held)}
      BY <1>1 DEF OneOfGroup
    <2>2. {GroupOf(k) : k \in OfHost(held)} = {GroupOf(k)' : k \in OfHost(held)}
      BY <1>4, <1>8
    <2>3. \A m, k \in OfHost(held) : GroupOf(m)' = GroupOf(k)' => m = k
      BY <1>1, <1>4, <1>8 DEF OneOfGroup
    <2> QED
      BY <1>8, <2>1, <2>2, <2>3 DEF OneOfGroup
  <1>11. InOnePlace(ad, Held(Queues(ad, Inside(mem))), Answered)'
    <2>1. HostOps' = (Waiting(ad) \cup new) \cup OfHost(held) \cup Leaving(ad) \cup OfHost(done)
      BY <1>1 DEF InOnePlace
    <2>2. (Waiting(ad) \cup new) \cap (held \cup Leaving(ad) \cup done) = {}
      BY <1>1, <1>3 DEF InOnePlace
    <2>3. /\ held \cap Leaving(ad) = {} /\ held \cap done = {} /\ Leaving(ad) \cap done = {}
      BY <1>1 DEF InOnePlace
    <2> HIDE DEF done
    <2> QED
      BY <1>5, <1>6, <1>8, <2>1, <2>2, <2>3 DEF InOnePlace
  <1>12. InGroupOrder(ad, Held(Queues(ad, Inside(mem))), Answered)'
    <2>1. \A m \in OfHost(held), k \in HostOps \ Waiting(ad) :
              GroupOf(m)' = GroupOf(k)' => k <= m
      BY <1>1, <1>3, <1>4, <1>8 DEF InGroupOrder
    <2>2. \A i, j \in DOMAIN ad.hrsp :
              /\ ad.hrsp[i].op = ad.hrsp[j].op => i = j
              /\ i < j /\ GroupOf(ad.hrsp[i].op)' = GroupOf(ad.hrsp[j].op)'
                    => ad.hrsp[i].op < ad.hrsp[j].op
      BY <1>1, <1>4 DEF InGroupOrder, Ops
    <2>3. \A m \in Leaving(ad), k \in OfHost(done) : GroupOf(m)' = GroupOf(k)' => k < m
      BY <1>1, <1>3, <1>4, <1>8 DEF InGroupOrder
    <2> QED
      BY <1>5, <1>8, <1>9, <2>1, <2>2, <2>3 DEF InGroupOrder
  <1>13. EngineWaits(Held(Queues(ad, Inside(mem))), rtl.access, Answered)'
    <2>1. \A k \in held : ops'[k].dma => k = rtl'.access.op
      BY <1>3, <1>4 DEF EngineWaits, held, inside
    <2>2. rtl'.access.op \notin done
      BY DEF EngineWaits
    <2> QED
      BY <1>5, <1>6, <2>1, <2>2 DEF EngineWaits
  <1>14. Once(Queues(ad, Inside(mem)))' /\ (Len(ad.mmio) <= 1)'
    BY <1>1, <1>5 DEF Once
  <1> QED
    BY <1>10, <1>11, <1>12, <1>13, <1>14 DEF Order

\* What an access that is issued joins.
LEMMA IssueOrder ==
    ASSUME PathInv, NEW shape, NEW dma \in BOOLEAN, Issue(shape, dma),
           shape \in IF dma THEN DmaShapes ELSE HostShapes
    PROVE  /\ OpsGrow /\ Len(ops) + 1 \in Nat \ {0} /\ Len(ops) + 1 \notin DOMAIN ops
           /\ \A k \in DOMAIN ops : k < Len(ops) + 1
           /\ HostOps' = HostOps \cup (IF dma THEN {} ELSE {Len(ops) + 1})
  <1> DEFINE n == Len(ops) + 1
  <1>1. /\ OpsGrow /\ n \in DOMAIN ops' /\ n \in Nat \ {0} /\ ops'[n].dma = dma
    BY IssueGrows DEF PathInv
  <1>2. /\ ops \in Seq(Issues) /\ \E x \in Issues : ops' = Append(ops, x)
    BY IssueGrows DEF PathInv, PathType, OpsType, Issue, Issues, Answered, Returns
  <1>3. /\ DOMAIN ops = 1 .. Len(ops) /\ Len(ops) \in Nat /\ DOMAIN ops' = DOMAIN ops \cup {n}
    BY <1>2
  <1>4. n \notin DOMAIN ops /\ \A k \in DOMAIN ops : k < n
    BY <1>3
  <1> HIDE DEF n
  <1>5. \A k \in DOMAIN ops : ops'[k] = ops[k]
    BY <1>1 DEF OpsGrow
  <1>6. HostOps' = HostOps \cup (IF dma THEN {} ELSE {n})
    BY <1>1, <1>3, <1>4, <1>5 DEF HostOps
  <1> QED
    BY <1>1, <1>4, <1>6 DEF n

\* The host's request is the last of its FIFO.
LEMMA HostIssuesOrder == PathInv /\ OrderInv /\ HostIssues => OrderInv'
  <1> SUFFICES ASSUME PathInv, OrderInv, HostIssues PROVE OrderInv'
    OBVIOUS
  <1> DEFINE n == Len(ops) + 1
             shape == program[Cardinality(HostOps) + 1]
             r == Request(shape, n)
             q == Append(ad.hreq, r)
             held == Held(Queues(ad, Inside(mem)))
  <1>1. /\ OpsType /\ ad \in Adapters /\ mem \in Memories
        /\ ad' = [ad EXCEPT !.hreq = q] /\ Issue(shape, FALSE)
        /\ UNCHANGED <<program, rtl, mem, answers>>
        /\ Order(ad, Inside(mem), rtl.access, Answered)
        /\ \A x, y \in answers : x.op = y.op => x = y
    BY DEF PathInv, PathType, OrderInv, HostIssues
  <1>2. shape \in HostShapes
    BY HostShape
  <1>3. /\ OpsGrow /\ n \in Nat \ {0} /\ n \notin DOMAIN ops
        /\ \A k \in DOMAIN ops : k < n
        /\ HostOps' = HostOps \cup {n}
    BY <1>1, <1>2, IssueOrder
  <1>4. r.op = n
    BY DEF Request
  <1> HIDE DEF shape, n, r
  <1>5. /\ ad'.hreq = q /\ ad'.hrsp = ad.hrsp /\ ad'.groups = ad.groups
        /\ ad'.pending = ad.pending /\ SameQueues(ad, ad')
    BY <1>1 DEF Adapters, SameQueues
  <1>6. Inside(mem) \in Seq(MemRequests)
    BY <1>1, InsideIs
  <1>7. /\ Waiting(ad) \subseteq DOMAIN ops /\ HostOps \subseteq DOMAIN ops
        /\ Answered \subseteq DOMAIN ops
    BY <1>1, <1>6, HeldIssued, AnsweredIssued
  <1>8. /\ Ascending(ad.pending) /\ Ascending(ad.hreq)
        /\ \A i \in Ops(ad.pending), j \in Ops(ad.hreq) : i < j
        /\ \A i \in Waiting(ad), k \in HostOps \ Waiting(ad) : k < i
        /\ Waiting(ad) = Ops(ad.pending) \cup Ops(ad.hreq)
        /\ Waiting(ad') = Ops(ad.pending) \cup Ops(q)
    BY <1>1, <1>5, WaitingIs DEF Order
  <1>9. ad.hreq \in Seq(HostRequests \cup {r}) /\ r \in HostRequests \cup {r}
    <2>1. ad.hreq \in Seq(HostRequests)
      BY <1>1 DEF Adapters
    <2> QED
      BY <2>1
  <1>10. Ops(q) = Ops(ad.hreq) \cup {n} /\ Ascending(q)
    <2>1. \A m \in Ops(ad.hreq) : m < n
      BY <1>3, <1>7, <1>8
    <2> QED
      BY <1>4, <1>8, <1>9, <2>1, OpsAppend
  <1> HIDE DEF q
  <1>11. Waiting(ad') = Waiting(ad) \cup {n}
    BY <1>8, <1>10
  <1>12. InTurn(ad)'
    <2>1. \A i \in Ops(ad.pending), j \in Ops(q) : i < j
      BY <1>3, <1>7, <1>8, <1>10
    <2>2. \A i \in DOMAIN ad.pending, j \in DOMAIN q : ad.pending[i].op < q[j].op
      BY <2>1 DEF Ops
    <2>3. \A i \in Waiting(ad'), k \in HostOps' \ Waiting(ad') : k < i
      BY <1>3, <1>7, <1>8, <1>11
    <2>4. Waiting(ad)' = Waiting(ad')
      BY DEF Waiting, Numbers, Range
    <2>5. Ascending(ad.pending)' /\ Ascending(ad.hreq)'
      BY <1>5, <1>8, <1>10 DEF Ascending
    <2> QED
      BY <1>5, <2>2, <2>3, <2>4, <2>5 DEF InTurn
  <1>13. EngineWaits(held, rtl'.access, Answered)
    BY <1>1 DEF Order
  <1>14. Order(ad, Inside(mem), rtl.access, Answered)'
    <2>1. {n} \cap DOMAIN ops = {} /\ answers' = answers /\ mem' = mem
      BY <1>1, <1>3
    <2> HIDE DEF held
    <2>2. OpsType /\ OpsGrow /\ ad \in Adapters /\ mem \in Memories
      BY <1>1, <1>3
    <2>3. EngineWaits(Held(Queues(ad, Inside(mem))), rtl'.access, Answered)
      BY <1>13 DEF held
    <2> QED
      BY <1>1, <1>3, <1>5, <1>7, <1>11, <1>12, <2>1, <2>2, <2>3, OrderGrows
  <1> QED
    BY <1>1, <1>14 DEF OrderInv

\* The engine's access is nowhere yet.
LEMMA EngineAsksOrder == PathInv /\ OrderInv /\ EngineAsks => OrderInv'
  <1> SUFFICES ASSUME PathInv, OrderInv, EngineAsks PROVE OrderInv'
    OBVIOUS
  <1> DEFINE n == Len(ops) + 1
             inside == Inside(mem)
             held == Held(Queues(ad, inside))
  <1>1. PICK o \in DmaOps :
            /\ rtl' = [wants |-> IF o.write THEN {"AW", "W"} ELSE {"AR"},
                       access |-> Access(o, n), asked |-> rtl.asked + 1]
            /\ Issue(o, TRUE)
    BY DEF EngineAsks
  <1>2. /\ OpsType /\ ad \in Adapters /\ mem \in Memories /\ rtl.access = NoAccess
        /\ UNCHANGED <<program, ad, mem, answers>>
        /\ Order(ad, inside, rtl.access, Answered)
        /\ Tagged(ad, inside) /\ DmaTurn(ad, rtl.access, rtl.wants)
        /\ \A x, y \in answers : x.op = y.op => x = y
    BY DEF PathInv, PathType, OrderInv, EngineAsks
  <1>3. o \in DmaShapes
    BY PathAssumption DEF DmaShapes
  <1>4. /\ OpsGrow /\ n \in Nat \ {0} /\ n \notin DOMAIN ops /\ HostOps' = HostOps \cup {}
    BY <1>1, <1>3, IssueOrder
  <1>5. rtl'.access.op = n
    BY <1>1 DEF Access
  <1> HIDE DEF n
  <1>6. inside \in Seq(MemRequests)
    BY <1>2, InsideIs
  <1>7. ad.dreq = <<>> /\ ad.drsp = <<>> /\ DmaTickets(ad) = {}
    BY <1>2 DEF DmaTurn
  <1>8. \A k \in held : ~ops[k].dma
    BY <1>2, <1>6, <1>7, EngineIdle
  <1>9. Answered \subseteq DOMAIN ops
    BY AnsweredIssued
  <1>10. EngineWaits(held, rtl'.access, Answered)
    BY <1>4, <1>5, <1>8, <1>9 DEF EngineWaits
  <1>11. InTurn(ad)'
    <2>1. InTurn(ad)
      BY <1>2 DEF Order
    <2>2. HostOps' = HostOps /\ ad' = ad
      BY <1>2, <1>4
    <2> QED
      BY <2>1, <2>2 DEF InTurn, Waiting, Ascending
  <1>12. SameQueues(ad, ad') /\ ad'.hrsp = ad.hrsp /\ ad'.groups = ad.groups
         /\ Waiting(ad') = Waiting(ad) \cup {}
    BY <1>2 DEF SameQueues
  <1>13. Order(ad, Inside(mem), rtl.access, Answered)'
    BY <1>2, <1>4, <1>9, <1>10, <1>11, <1>12, OrderGrows
  <1> QED
    BY <1>2, <1>13 DEF OrderInv

\* At first nothing is issued.
LEMMA InitOrder == Init => OrderInv
  <1> SUFFICES ASSUME Init PROVE OrderInv
    OBVIOUS
  <1> DEFINE F == Queues(ad, Inside(mem))
  <1>1. /\ ad = Adapter0 /\ mem = Memory0 /\ rtl.access = NoAccess
        /\ ops = <<>> /\ answers = {} /\ Answered = {} /\ HostOps = {}
    BY DEF Init, Answered, HostOps
  <1>2. /\ ad.pending = <<>> /\ ad.hreq = <<>> /\ ad.hrsp = <<>> /\ ad.groups = {}
        /\ ad.mmio_wait = <<>> /\ ad.mmio = <<>> /\ ad.bypass = <<>> /\ ad.dreq = <<>>
        /\ ad.req = <<>> /\ ad.rsp = <<>> /\ ad.completed = <<>> /\ ad.drsp = <<>>
        /\ Inside(mem) = <<>>
    BY <1>1 DEF Adapter0, Memory0, Inside
  <1>3. \A p \in Places : F[p] = <<>>
    BY <1>2 DEF Queues, QueueAt, Numbers, SlotNumbers, Places
  <1>4. DOMAIN F = Places
    BY DEF Queues
  <1> HIDE DEF F
  <1>5. Once(F) /\ Held(F) = {}
    BY <1>3, <1>4 DEF Once, Held, Range
  <1>6. Waiting(ad) = {} /\ Leaving(ad) = {}
    BY <1>2 DEF Waiting, Leaving, Numbers, Range
  <1>7. Len(ad.mmio) <= 1 /\ InTurn(ad)
    BY <1>2, <1>6 DEF InTurn, Ascending
  <1>8. OneOfGroup(ad, Held(F)) /\ InOnePlace(ad, Held(F), Answered)
    BY <1>1, <1>2, <1>5, <1>6 DEF OneOfGroup, InOnePlace, OfHost
  <1>9. InGroupOrder(ad, Held(F), Answered) /\ EngineWaits(Held(F), rtl.access, Answered)
    BY <1>1, <1>2, <1>5, <1>6 DEF InGroupOrder, EngineWaits, OfHost
  <1> QED
    BY <1>1, <1>5, <1>7, <1>8, <1>9 DEF OrderInv, Order, F

\* A stuttering step.
LEMMA OrderStutter == OrderInv /\ UNCHANGED vars => OrderInv'
  <1> SUFFICES ASSUME OrderInv, UNCHANGED vars PROVE OrderInv'
    OBVIOUS
  <1>1. /\ ad' = ad /\ mem' = mem /\ rtl' = rtl /\ ops' = ops /\ answers' = answers
    BY DEF vars
  <1>2. Answered' = Answered
    BY <1>1 DEF Answered
  <1>3. Order(ad', Inside(mem'), rtl'.access, Answered')
    BY <1>1, <1>2 DEF OrderInv
  <1> QED
    BY <1>1, <1>3, OrderSame DEF OrderInv

-----------------------------------------------------------------------------
(* What holds of the answers of every behaviour                              *)

\* Every access that was issued is in one place, one of a group is admitted at a time,
\* and an earlier request of a group is farther on its way (sparse_gate_backend.cc:
\* 58-60, 86-99, 137-162); the engine's access is the one it waits for.
THEOREM OrderInvariant == Spec => []OrderInv
  <1>1. PathInv /\ OrderInv /\ [Next]_vars => OrderInv'
    <2> SUFFICES ASSUME PathInv, OrderInv, [Next]_vars PROVE OrderInv'
      OBVIOUS
    <2>1. CASE HostIssues
      BY <2>1, HostIssuesOrder
    <2>2. CASE HostTakes
      BY <2>2, HostTakesOrder
    <2>3. CASE EngineAsks
      BY <2>3, EngineAsksOrder
    <2>4. ASSUME NEW moves \in Moves, NEW shows \in SUBSET rtl.wants, Clock(moves, shows)
          PROVE  OrderInv'
      BY <2>4, ClockOrder
    <2>5. ASSUME NEW takes \in BOOLEAN, NEW held \in BOOLEAN,
                 NEW answered \in SUBSET (Children(mem)), MemoryPeriod(takes, answered, held)
          PROVE  OrderInv'
      BY <2>5, MemoryPeriodOrder
    <2>6. CASE Finished \/ UNCHANGED vars
      BY <2>6, OrderStutter DEF Finished
    <2> QED
      BY <2>1, <2>2, <2>3, <2>4, <2>5, <2>6 DEF Next
  <1> QED
    BY <1>1, InitOrder, PathInvariant, PTL DEF Spec

\* The answers that leave are of as many accesses, none of which is answered.
LEMMA LeavingOnce ==
    ASSUME PathInv, OrderInv
    PROVE  LET leaving == ad.hrsp \o ad.completed
               left == {leaving[i].op : i \in DOMAIN leaving}
           IN  Cardinality(left) = Len(leaving) /\ left \cap Answered = {}
  <1> DEFINE leaving == ad.hrsp \o ad.completed
             left == {leaving[i].op : i \in DOMAIN leaving}
             inside == Inside(mem)
             F == Queues(ad, inside)
             held == Held(F)
             h == Len(ad.hrsp)
             f == [i \in 1 .. Len(leaving) |-> leaving[i].op]
  <1>1. /\ OpsType /\ ad \in Adapters /\ mem \in Memories
        /\ Once(F) /\ InOnePlace(ad, held, Answered) /\ InGroupOrder(ad, held, Answered)
    BY DEF PathInv, PathType, OrderInv, Order
  <1>2. ad.hrsp \in Seq(HostReturns) /\ ad.completed \in Seq(HostReturns)
    BY <1>1 DEF Adapters
  <1>3. /\ h \in Nat /\ Len(leaving) \in Nat /\ DOMAIN leaving = 1 .. Len(leaving)
        /\ \A i \in DOMAIN leaving :
              IF i <= h THEN i \in DOMAIN ad.hrsp /\ leaving[i] = ad.hrsp[i]
              ELSE i - h \in DOMAIN ad.completed /\ leaving[i] = ad.completed[i - h]
    <2>1. /\ Len(leaving) = h + Len(ad.completed) /\ leaving \in Seq(HostReturns)
          /\ \A i \in 1 .. h + Len(ad.completed) :
                IF i <= h THEN leaving[i] = ad.hrsp[i]
                ELSE leaving[i] = ad.completed[i - h]
      BY <1>2, ConcatProperties, ZenonT(40)
    <2>2. /\ h \in Nat /\ Len(ad.completed) \in Nat
          /\ DOMAIN ad.hrsp = 1 .. h /\ DOMAIN ad.completed = 1 .. Len(ad.completed)
      BY <1>2
    <2> HIDE DEF leaving, h
    <2>3. DOMAIN leaving = 1 .. Len(leaving)
      BY <2>1
    <2> QED
      BY <2>1, <2>2, <2>3
  <1>4. F["completed"] = Numbers(ad.completed) /\ "completed" \in DOMAIN F
    <2>1. inside \in Seq(MemRequests)
      BY <1>1, InsideIs
    <2> QED
      BY <1>1, <2>1, QueuesAre DEF Queues, Places
  <1> HIDE DEF inside, F, leaving, h
  <1>5. /\ \A i \in DOMAIN ad.hrsp : ad.hrsp[i].op \in Leaving(ad)
        /\ \A i, j \in DOMAIN ad.hrsp : ad.hrsp[i].op = ad.hrsp[j].op => i = j
    BY <1>1 DEF Leaving, Numbers, Range, InGroupOrder
  <1>6. /\ \A i \in DOMAIN ad.completed : ad.completed[i].op \in held
        /\ \A i, j \in DOMAIN ad.completed : ad.completed[i].op = ad.completed[j].op => i = j
    <2>1. DOMAIN F["completed"] = DOMAIN ad.completed
      BY <1>4 DEF Numbers
    <2>2. \A i \in DOMAIN ad.completed : F["completed"][i] = ad.completed[i].op
      BY <1>4 DEF Numbers
    <2> QED
      BY <1>1, <1>4, <2>1, <2>2, HeldIs DEF Once
  <1>7. /\ Leaving(ad) \cap held = {} /\ Leaving(ad) \cap Answered = {}
        /\ held \cap Answered = {}
    BY <1>1 DEF InOnePlace
  <1> HIDE DEF held
  <1>8. \A i \in DOMAIN leaving : leaving[i].op \in Leaving(ad) \cup held
    BY <1>3, <1>5, <1>6
  <1>9. left \cap Answered = {}
    BY <1>7, <1>8
  <1>10. ASSUME NEW i \in DOMAIN leaving, NEW j \in DOMAIN leaving,
                leaving[i].op = leaving[j].op
         PROVE  i = j
    <2>1. CASE i <= h /\ j <= h
      BY <1>3, <1>5, <1>10, <2>1
    <2>2. CASE ~(i <= h) /\ ~(j <= h)
      <3>1. i - h = j - h
        BY <1>3, <1>6, <1>10, <2>2
      <3> QED
        BY <1>3, <3>1
    <2>3. CASE i <= h /\ ~(j <= h)
      BY <1>3, <1>5, <1>6, <1>7, <1>10, <2>3
    <2>4. CASE ~(i <= h) /\ j <= h
      BY <1>3, <1>5, <1>6, <1>7, <1>10, <2>4
    <2> QED
      BY <2>1, <2>2, <2>3, <2>4
  <1>11. Cardinality(left) = Len(leaving)
    <2>1. f \in [1 .. Len(leaving) -> left]
      BY <1>3
    <2>2. \A i, j \in 1 .. Len(leaving) : f[i] = f[j] => i = j
      BY <1>3, <1>10
    <2>3. \A n \in left : \E i \in 1 .. Len(leaving) : f[i] = n
      BY <1>3
    <2> HIDE DEF f, left
    <2>4. f \in Bijection(1 .. Len(leaving), left)
      BY <2>1, <2>2, <2>3 DEF Bijection, Injection, Surjection, IsInjective
    <2>5. IsFiniteSet(1 .. Len(leaving)) /\ Cardinality(1 .. Len(leaving)) = Len(leaving)
      BY <1>3, FS_Interval
    <2> QED
      BY <2>4, <2>5, FS_Bijection DEF ExistsBijection
  <1> QED
    BY <1>9, <1>11 DEF leaving

\* One answer for every access that is answered.
LEMMA AnsweredOnce ==
    ASSUME PathInv, OrderInv
    PROVE  Cardinality(answers) = Cardinality(Answered)
  <1> DEFINE f == [n \in Answered |-> CHOOSE a \in answers : a.op = n]
  <1>1. /\ \A n \in Answered : f[n] \in answers /\ f[n].op = n
        /\ \A a \in answers : a.op \in Answered
    BY DEF Answered
  <1>2. \A a, b \in answers : a.op = b.op => a = b
    BY DEF OrderInv
  <1>3. f \in [Answered -> answers]
    BY <1>1
  <1> HIDE DEF f
  <1>4. \A m, n \in Answered : f[m] = f[n] => m = n
    BY <1>1
  <1>5. \A a \in answers : \E n \in Answered : f[n] = a
    BY <1>1, <1>2
  <1>6. f \in Bijection(Answered, answers)
    BY <1>3, <1>4, <1>5 DEF Bijection, Injection, Surjection, IsInjective
  <1>7. IsFiniteSet(Answered)
    <2>1. ops \in Seq(Issues)
      BY DEF PathInv, PathType, OpsType
    <2>2. DOMAIN ops = 1 .. Len(ops) /\ Len(ops) \in Nat
      BY <2>1
    <2>3. IsFiniteSet(1 .. Len(ops))
      BY <2>2, FS_Interval
    <2> QED
      BY <2>2, <2>3, AnsweredIssued, FS_Subset
  <1> QED
    BY <1>6, <1>7, FS_Bijection DEF ExistsBijection

\* Every access is answered once, with its own answer, and the requests of a group
\* (direction, plane, ID) in their order, registers and memory mixed: the AoU target
\* may give an answer to the oldest ticket of its group (sparse_gate_backend.cc:58-60).
THEOREM AnswersInOrder == Spec => []AnsweredInOrder
  <1>1. PathInv /\ OrderInv => AnsweredInOrder
    <2> SUFFICES ASSUME PathInv, OrderInv PROVE AnsweredInOrder
      OBVIOUS
    <2> DEFINE held == Held(Queues(ad, Inside(mem)))
    <2>1. \A a \in answers : Matches(a, ops[a.op])
      BY DEF PathInv, PathType, Returns
    <2>2. /\ InTurn(ad) /\ InOnePlace(ad, held, Answered) /\ InGroupOrder(ad, held, Answered)
      BY DEF OrderInv, Order
    <2>3. HostOps \subseteq Nat
      BY AnsweredIssued
    <2> HIDE DEF held
    <2>4. ASSUME NEW i \in HostOps, NEW j \in HostOps, i < j, GroupOf(i) = GroupOf(j),
                 j \in Answered
          PROVE  i \in Answered
      <3>1. j \in HostOps \ Waiting(ad) /\ j \in OfHost(Answered)
        BY <2>2, <2>4 DEF InOnePlace, OfHost, HostOps
      <3>2. ~(j < i) /\ ~(j <= i)
        BY <2>3, <2>4
      <3>3. i \notin Waiting(ad)
        BY <2>2, <3>1, <3>2 DEF InTurn
      <3>4. i \notin OfHost(held) /\ i \notin Leaving(ad)
        BY <2>2, <2>4, <3>1, <3>2 DEF InGroupOrder
      <3> QED
        BY <2>2, <3>3, <3>4 DEF InOnePlace, OfHost
    <2> QED
      BY <2>1, <2>4, LeavingOnce, AnsweredOnce DEF AnsweredInOrder, GroupOf
  <1> QED
    BY <1>1, PathInvariant, OrderInvariant, PTL

-----------------------------------------------------------------------------
(* The data                                                                  *)

\* The order of the writes to a line whose history is q: 0 for its first contents.
Turn(q, o) ==
    IF o = 0 THEN 0
    ELSE IF o \in Range(q) THEN CHOOSE i \in DOMAIN q : q[i] = o
    ELSE Len(q) + 1

Newest(q) == IF q = <<>> THEN 0 ELSE Last(q)

\* A read that got g from the line l has seen the write w; wr is mem.wrote.
Sees(wr, l, w, g) == Turn(wr[l], w) <= Turn(wr[l], g)

Wants(o) == ops[o].shape.lines
FromMemory(o) == ops[o].dma \/ ~ops[o].shape.mmio
Covers(w, l) == ops[w].shape.write /\ l \in Range(Wants(w))

\* What the read o got so far: of every line something that was written, nothing
\* older than what was answered when it was issued, and of two lines the same writes.
ReadSound(wr, o, got) ==
    /\ \A k \in DOMAIN got :
          /\ k \in DOMAIN Wants(o) /\ Wants(o)[k] \in Lines
          /\ got[k] \in {0} \cup Range(wr[Wants(o)[k]])
          /\ \A w \in ops[o].before :
                w \in Range(wr[Wants(o)[k]]) => Sees(wr, Wants(o)[k], w, got[k])
    /\ \A w \in DOMAIN ops, j, k \in DOMAIN got :
          Covers(w, Wants(o)[j]) /\ Covers(w, Wants(o)[k]) =>
              (Sees(wr, Wants(o)[j], w, got[j]) <=> Sees(wr, Wants(o)[k], w, got[k]))

\* A write that was answered has reached its lines.
AnswerSound(wr, a) ==
    FromMemory(a.op) =>
        /\ a.write /\ a.resp = OKAY =>
              \A l \in Range(Wants(a.op)) : l \in Lines /\ a.op \in Range(wr[l])
        /\ ~a.write => ReadSound(wr, a.op, a.got)

Partial(b) == b.sent # 0 /\ ~AllSent(b)

BurstSound(wr, b) ==
    /\ b.resp # OKAY => AllSent(b)
    /\ b.req.write =>
          \A k \in DOMAIN b.req.lines : b.req.lines[k] \in Lines =>
              (b.req.op \in Range(wr[b.req.lines[k]]) <=> b.resp = OKAY /\ k <= b.sent)
    /\ ~b.req.write =>
          /\ ReadSound(wr, b.req.op, b.got)
          /\ b.resp = OKAY => Len(b.got) = b.sent
          /\ Partial(b) => \A k \in DOMAIN b.got : b.got[k] = Newest(wr[b.req.lines[k]])

\* While a burst has pieces to submit, none behind it is begun.
OneByOne(m) ==
    \A i, j \in DOMAIN m.bursts :
        i < j /\ ~AllSent(m.bursts[i]) => ~Partial(m.bursts[j])

\* But for the burst that is being submitted, a write has reached all its lines or none.
Whole(wr, o) ==
    \A l, k \in Range(Wants(o)) \cap Lines : o \in Range(wr[l]) <=> o \in Range(wr[k])
AllWhole(m) ==
    \A o \in DOMAIN ops :
        /\ ops[o].shape.write
        /\ \A i \in DOMAIN m.bursts : m.bursts[i].req.op = o => ~Partial(m.bursts[i])
        => Whole(m.wrote, o)

\* The answers on their way back.
Back(s) == Range(s.rsp) \cup Range(s.completed) \cup Range(s.drsp) \cup Range(s.hrsp)
OpsOf(A) == {a.op : a \in A}

\* A write reaches a line once, and only from inside the bridge.
WroteOnce(wr, reached) ==
    \A l \in Lines :
        /\ \A i, j \in DOMAIN wr[l] : wr[l][i] = wr[l][j] => i = j
        /\ Range(wr[l]) \subseteq reached \cap DOMAIN ops

DataSound(A, m) ==
    /\ \A a \in A : AnswerSound(m.wrote, a)
    /\ WroteOnce(m.wrote, OpsOf(A) \cup Ops(Inside(m)))
    /\ \A i \in DOMAIN m.bursts : BurstSound(m.wrote, m.bursts[i])
    /\ OneByOne(m) /\ AllWhole(m)

\* A burst has every line once.
Straight == \A o \in DOMAIN ops : FromMemory(o) => IsInjective(Wants(o))

DataInv ==
    /\ Straight
    /\ \A o \in DOMAIN ops : ops[o].before \subseteq Answered
    /\ DataSound(Back(ad) \cup answers, mem)

-----------------------------------------------------------------------------
(* The history of a line                                                     *)

History(q) ==
    /\ q \in Seq(Nat) /\ 0 \notin Range(q)
    /\ \A i, j \in DOMAIN q : q[i] = q[j] => i = j

\* A write that is in the history has its place there, any other comes after it.
LEMMA TurnIs ==
    ASSUME NEW q, History(q), NEW o \in Nat
    PROVE  /\ Turn(q, 0) = 0
           /\ o \in Range(q) => Turn(q, o) \in 1 .. Len(q) /\ q[Turn(q, o)] = o
           /\ o \notin Range(q) /\ o # 0 => Turn(q, o) = Len(q) + 1
  <1>1. Turn(q, 0) = 0
    BY DEF Turn
  <1>2. DOMAIN q = 1 .. Len(q)
    BY DEF History
  <1>3. ASSUME o \in Range(q)
        PROVE  Turn(q, o) \in 1 .. Len(q) /\ q[Turn(q, o)] = o
    <2>1. \E i \in DOMAIN q : q[i] = o
      BY <1>3 DEF Range
    <2>2. o # 0
      BY <1>3 DEF History
    <2>3. Turn(q, o) = CHOOSE i \in DOMAIN q : q[i] = o
      BY <1>3, <2>2 DEF Turn
    <2> QED
      BY <1>2, <2>1, <2>3
  <1>4. o \notin Range(q) /\ o # 0 => Turn(q, o) = Len(q) + 1
    BY DEF Turn
  <1> QED
    BY <1>1, <1>3, <1>4

\* A new write comes last, and those before it keep their places.
LEMMA TurnAppend ==
    ASSUME NEW q, History(q), NEW n \in Nat \ {0}, n \notin Range(q)
    PROVE  /\ History(Append(q, n))
           /\ Range(Append(q, n)) = Range(q) \cup {n}
           /\ \A w \in Nat \ {0}, g \in {0} \cup Range(q) :
                 (Turn(Append(q, n), w) <= Turn(Append(q, n), g)) <=> (Turn(q, w) <= Turn(q, g))
  <1> DEFINE r == Append(q, n)
  <1>1. /\ q \in Seq(Nat) /\ Len(q) \in Nat /\ DOMAIN q = 1 .. Len(q)
        /\ r \in Seq(Nat) /\ Len(r) = Len(q) + 1 /\ DOMAIN r = 1 .. Len(q) + 1
        /\ \A i \in 1 .. Len(q) : r[i] = q[i]
        /\ r[Len(q) + 1] = n
    BY DEF History
  <1> HIDE DEF r
  <1>2. Range(r) = Range(q) \cup {n}
    <2>1. \A i \in DOMAIN r : i \in DOMAIN q \/ i = Len(q) + 1
      BY <1>1
    <2>2. Range(r) \subseteq Range(q) \cup {n}
      BY <1>1, <2>1 DEF Range
    <2>3. Range(q) \subseteq Range(r)
      BY <1>1 DEF Range
    <2>4. n \in Range(r)
      BY <1>1 DEF Range
    <2> QED
      BY <2>2, <2>3, <2>4
  <1>3. \A i \in DOMAIN q : q[i] # n
    BY DEF Range
  <1>4. History(r)
    <2>1. ASSUME NEW i \in DOMAIN r, NEW j \in DOMAIN r, r[i] = r[j]
          PROVE  i = j
      <3>1. i \in DOMAIN q /\ j \in DOMAIN q => i = j
        BY <1>1, <2>1 DEF History
      <3> QED
        BY <1>1, <1>3, <2>1, <3>1
    <2> QED
      BY <1>1, <1>2, <2>1 DEF History
  <1>5. ASSUME NEW w \in Nat \ {0}, NEW g \in {0} \cup Range(q)
        PROVE  (Turn(r, w) <= Turn(r, g)) <=> (Turn(q, w) <= Turn(q, g))
    <2>1. \A x \in Range(q) : x \in Nat /\ x # 0
      BY <1>1 DEF History, Range
    <2>2. ASSUME NEW x \in Range(q)
          PROVE  Turn(r, x) = Turn(q, x) /\ Turn(q, x) \in 1 .. Len(q)
      <3>1. x \in Nat /\ x \in Range(r)
        BY <1>2, <2>1
      <3>2. Turn(q, x) \in 1 .. Len(q) /\ q[Turn(q, x)] = x
        BY <3>1, TurnIs
      <3>3. Turn(r, x) \in 1 .. Len(q) + 1 /\ r[Turn(r, x)] = x
        BY <1>1, <1>4, <3>1, TurnIs
      <3>4. r[Turn(q, x)] = x
        BY <1>1, <3>2
      <3>5. Turn(r, x) = Turn(q, x)
        BY <1>1, <1>4, <3>2, <3>3, <3>4 DEF History
      <3> QED
        BY <3>2, <3>5
    <2>3. Turn(r, 0) = 0 /\ Turn(q, 0) = 0
      BY <1>4, TurnIs
    <2>4. /\ Turn(r, g) = Turn(q, g) /\ Turn(q, g) \in 0 .. Len(q)
      BY <1>1, <2>2, <2>3
    <2>5. CASE w \in Range(q)
      BY <2>2, <2>4, <2>5
    <2>6. CASE w \notin Range(q)
      <3>1. Turn(q, w) = Len(q) + 1
        BY <2>6, TurnIs
      <3>2. Turn(r, w) \in {Len(q) + 1, Len(q) + 2}
        <4>1. CASE w = n
          <5>1. Turn(r, n) \in 1 .. Len(q) + 1 /\ r[Turn(r, n)] = n
            BY <1>1, <1>2, <1>4, TurnIs
          <5>2. \A x \in 1 .. Len(q) + 1 : r[x] = n => x = Len(q) + 1
            BY <1>1, <1>3
          <5>3. Turn(r, n) = Len(q) + 1
            BY <5>1, <5>2
          <5> QED
            BY <4>1, <5>3
        <4>2. CASE w # n
          <5>1. w \notin Range(r)
            BY <1>2, <2>6, <4>2
          <5>2. Turn(r, w) = Len(r) + 1
            BY <1>4, <5>1, TurnIs
          <5> QED
            BY <1>1, <5>2
        <4> QED
          BY <4>1, <4>2
      <3> QED
        BY <1>1, <2>4, <3>1, <3>2
    <2> QED
      BY <2>5, <2>6
  <1> QED
    BY <1>2, <1>4, <1>5 DEF r

\* Who got the newest has seen what was written.
LEMMA TurnNewest ==
    ASSUME NEW q, History(q)
    PROVE  /\ Newest(q) \in {0} \cup Range(q)
           /\ \A w \in Nat \ {0} : Turn(q, w) <= Turn(q, Newest(q)) <=> w \in Range(q)
  <1>1. q \in Seq(Nat) /\ Len(q) \in Nat /\ DOMAIN q = 1 .. Len(q)
    BY DEF History
  <1>2. CASE q = <<>>
    <2>1. Newest(q) = 0 /\ Range(q) = {} /\ Len(q) = 0
      BY <1>2 DEF Newest, Range
    <2>2. \A w \in Nat \ {0} : Turn(q, w) = 1
      BY <2>1, TurnIs
    <2>3. Turn(q, 0) = 0
      BY TurnIs
    <2> QED
      BY <2>1, <2>2, <2>3
  <1>3. CASE q # <<>>
    <2>1. Newest(q) = q[Len(q)] /\ Len(q) \in DOMAIN q
      BY <1>1, <1>3 DEF Newest, Last
    <2> DEFINE g == q[Len(q)]
    <2>2. g \in Range(q) /\ g \in Nat
      BY <1>1, <2>1 DEF Range
    <2>3. Turn(q, g) \in 1 .. Len(q) /\ q[Turn(q, g)] = g
      BY <2>2, TurnIs
    <2>4. Turn(q, g) = Len(q)
      BY <1>1, <2>1, <2>3 DEF History
    <2>5. ASSUME NEW w \in Nat \ {0}
          PROVE  Turn(q, w) <= Turn(q, g) <=> w \in Range(q)
      <3>1. w \in Range(q) => Turn(q, w) \in 1 .. Len(q)
        BY TurnIs
      <3>2. w \notin Range(q) => Turn(q, w) = Len(q) + 1
        BY TurnIs
      <3> QED
        BY <1>1, <2>4, <3>1, <3>2
    <2> QED
      BY <2>1, <2>2, <2>5
  <1> QED
    BY <1>2, <1>3

-----------------------------------------------------------------------------
(* A write to a line changes nothing of what was seen                         *)

\* The write n comes to the line where.
Extends(wr, new, where, n) ==
    /\ wr \in [Lines -> Seq(Nat)] /\ \A l \in Lines : History(wr[l])
    /\ where \in Lines /\ n \in Nat \ {0} /\ n \notin Range(wr[where])
    /\ new = [wr EXCEPT ![where] = Append(@, n)]

LEMMA HistoryGrows ==
    ASSUME NEW wr, NEW new, NEW where, NEW n, Extends(wr, new, where, n)
    PROVE  \A l \in Lines :
              /\ History(new[l])
              /\ \A x \in Range(wr[l]) : x \in Range(new[l])
              /\ \A x \in Range(new[l]) : x \in Range(wr[l]) \/ (l = where /\ x = n)
              /\ l = where => n \in Range(new[l])
              /\ \A w \in Nat \ {0}, g \in {0} \cup Range(wr[l]) :
                    Sees(new, l, w, g) <=> Sees(wr, l, w, g)
  <1> SUFFICES ASSUME NEW l \in Lines
               PROVE  /\ History(new[l])
                      /\ \A x \in Range(wr[l]) : x \in Range(new[l])
                      /\ \A x \in Range(new[l]) : x \in Range(wr[l]) \/ (l = where /\ x = n)
                      /\ l = where => n \in Range(new[l])
                      /\ \A w \in Nat \ {0}, g \in {0} \cup Range(wr[l]) :
                            Sees(new, l, w, g) <=> Sees(wr, l, w, g)
    OBVIOUS
  <1>1. CASE l = where
    <2>1. new[l] = Append(wr[l], n) /\ History(wr[l]) /\ n \in Nat \ {0} /\ n \notin Range(wr[l])
      BY <1>1 DEF Extends
    <2> QED
      BY <1>1, <2>1, TurnAppend DEF Sees
  <1>2. CASE l # where
    <2>1. new[l] = wr[l] /\ History(wr[l])
      BY <1>2 DEF Extends
    <2> QED
      BY <1>2, <2>1 DEF Sees
  <1> QED
    BY <1>1, <1>2

\* The numbers of accesses are positive, also of those answered before one was issued.
Numbered == /\ DOMAIN ops \subseteq Nat \ {0}
            /\ \A o \in DOMAIN ops : ops[o].before \subseteq DOMAIN ops

LEMMA ReadGrows ==
    ASSUME NEW wr, NEW new, NEW where, NEW n, Extends(wr, new, where, n), Numbered,
           NEW o \in DOMAIN ops, NEW got, ReadSound(wr, o, got), n \notin ops[o].before
    PROVE  ReadSound(new, o, got)
  <1>1. ASSUME NEW k \in DOMAIN got
        PROVE  /\ k \in DOMAIN Wants(o) /\ Wants(o)[k] \in Lines
               /\ got[k] \in {0} \cup Range(wr[Wants(o)[k]])
               /\ got[k] \in {0} \cup Range(new[Wants(o)[k]])
               /\ \A w \in ops[o].before :
                     w \in Range(new[Wants(o)[k]]) => Sees(new, Wants(o)[k], w, got[k])
    <2> DEFINE l == Wants(o)[k]
    <2>1. /\ k \in DOMAIN Wants(o) /\ l \in Lines /\ got[k] \in {0} \cup Range(wr[l])
          /\ \A w \in ops[o].before : w \in Range(wr[l]) => Sees(wr, l, w, got[k])
      BY <1>1 DEF ReadSound
    <2> HIDE DEF l
    <2>2. /\ \A x \in Range(wr[l]) : x \in Range(new[l])
          /\ \A x \in Range(new[l]) : x \in Range(wr[l]) \/ (l = where /\ x = n)
          /\ \A w \in Nat \ {0} : Sees(new, l, w, got[k]) <=> Sees(wr, l, w, got[k])
      BY <2>1, HistoryGrows
    <2>3. ASSUME NEW w \in ops[o].before, w \in Range(new[l])
          PROVE  Sees(new, l, w, got[k])
      <3>1. w \in Nat \ {0} /\ w # n
        BY DEF Numbered
      <3>2. w \in Range(wr[l])
        BY <2>2, <2>3, <3>1
      <3> QED
        BY <2>1, <2>2, <3>1, <3>2
    <2> QED
      BY <2>1, <2>2, <2>3 DEF l
  <1>2. ASSUME NEW w \in DOMAIN ops, NEW k \in DOMAIN got
        PROVE  Sees(new, Wants(o)[k], w, got[k]) <=> Sees(wr, Wants(o)[k], w, got[k])
    <2>1. w \in Nat \ {0}
      BY DEF Numbered
    <2> QED
      BY <1>1, <2>1, HistoryGrows
  <1>3. \A w \in DOMAIN ops, j, k \in DOMAIN got :
          Covers(w, Wants(o)[j]) /\ Covers(w, Wants(o)[k]) =>
              (Sees(wr, Wants(o)[j], w, got[j]) <=> Sees(wr, Wants(o)[k], w, got[k]))
    BY DEF ReadSound
  <1>4. \A w \in DOMAIN ops, j, k \in DOMAIN got :
          Covers(w, Wants(o)[j]) /\ Covers(w, Wants(o)[k]) =>
              (Sees(new, Wants(o)[j], w, got[j]) <=> Sees(new, Wants(o)[k], w, got[k]))
    BY <1>2, <1>3
  <1> QED
    BY <1>1, <1>4 DEF ReadSound

LEMMA AnswerGrows ==
    ASSUME NEW wr, NEW new, NEW where, NEW n, Extends(wr, new, where, n), Numbered,
           NEW a, a.op \in DOMAIN ops, AnswerSound(wr, a), n \notin ops[a.op].before
    PROVE  AnswerSound(new, a)
  <1>1. ASSUME NEW l \in Lines, a.op \in Range(wr[l])
        PROVE  a.op \in Range(new[l])
    BY <1>1, HistoryGrows
  <1>2. ASSUME FromMemory(a.op), a.write, a.resp = OKAY
        PROVE  \A l \in Range(Wants(a.op)) : l \in Lines /\ a.op \in Range(new[l])
    BY <1>1, <1>2 DEF AnswerSound
  <1>3. ASSUME FromMemory(a.op), ~a.write
        PROVE  ReadSound(new, a.op, a.got)
    BY <1>3, ReadGrows DEF AnswerSound
  <1> QED
    BY <1>2, <1>3 DEF AnswerSound

-----------------------------------------------------------------------------
(* A piece is submitted                                                      *)

Histories(wr) == wr \in [Lines -> Seq(Nat)] /\ \A l \in Lines : History(wr[l])

LEMMA HistoriesAre ==
    ASSUME Numbered, NEW m \in Memories, NEW reached, WroteOnce(m.wrote, reached)
    PROVE  Histories(m.wrote)
  <1>1. m.wrote \in [Lines -> Seq(Nat)]
    BY DEF Memories
  <1>2. ASSUME NEW l \in Lines
        PROVE  History(m.wrote[l])
    <2>1. m.wrote[l] \in Seq(Nat)
      BY <1>1
    <2>2. 0 \notin Range(m.wrote[l])
      BY DEF WroteOnce, Numbered
    <2> QED
      BY <2>1, <2>2 DEF WroteOnce, History
  <1> QED
    BY <1>1, <1>2 DEF Histories

\* The piece that is submitted is the next of the burst i, and goes to the line l.
Submits(m, n, i, l) ==
    /\ i \in DOMAIN m.bursts /\ ~AllSent(m.bursts[i])
    /\ \A j \in DOMAIN m.bursts : j < i => AllSent(m.bursts[j])
    /\ m.bursts[i].sent \in Nat /\ m.bursts[i].sent + 1 \in DOMAIN m.bursts[i].req.lines
    /\ l = m.bursts[i].req.lines[m.bursts[i].sent + 1] /\ l \in Lines
    /\ DOMAIN n.bursts = DOMAIN m.bursts
    /\ \A j \in DOMAIN m.bursts : j # i => n.bursts[j] = m.bursts[j]
    /\ n.bursts[i].req = m.bursts[i].req /\ n.bursts[i].resp = m.bursts[i].resp
    /\ n.bursts[i].sent = m.bursts[i].sent + 1
    /\ m.bursts[i].req.write =>
          /\ n.bursts[i].got = m.bursts[i].got
          /\ n.wrote = [m.wrote EXCEPT ![l] = Append(@, m.bursts[i].req.op)]
    /\ ~m.bursts[i].req.write =>
          /\ n.bursts[i].got = Append(m.bursts[i].got, Newest(m.wrote[l]))
          /\ n.wrote = m.wrote

LEMMA SubmittedIs ==
    ASSUME NEW m \in Memories, Unsent(m) # {}
    PROVE  \E i, l : Submits(m, Submitted(m), i, l)
  <1> DEFINE i == NextToSubmit(m)
             b == m.bursts[i]
             k == b.sent + 1
             l == b.req.lines[k]
             newest == IF m.wrote[l] = <<>> THEN 0 ELSE Last(m.wrote[l])
             got == IF b.req.write THEN b.got ELSE Append(b.got, newest)
             sent == [b EXCEPT !.sent = k, !.out = @ \union {k}, !.got = got]
             wrote == IF b.req.write THEN [m.wrote EXCEPT ![l] = Append(@, b.req.op)]
                                     ELSE m.wrote
             n == Submitted(m)
  <1>1. /\ m.bursts \in Seq(Bursts) /\ DOMAIN m.bursts = 1 .. Len(m.bursts)
        /\ Len(m.bursts) \in Nat
        /\ \A j \in 1 .. Len(m.bursts) : m.bursts[j] \in Bursts
    BY DEF Memories
  <1>2. /\ i \in DOMAIN m.bursts /\ ~AllSent(b)
        /\ \A j \in DOMAIN m.bursts : j < i => AllSent(m.bursts[j])
    <2>1. Unsent(m) \in SUBSET Nat
      BY <1>1 DEF Unsent
    <2>2. PICK x \in Unsent(m) : \A y \in Unsent(m) : x <= y
      BY <2>1, LeastNumber
    <2>3. i \in Unsent(m) /\ \A y \in Unsent(m) : i <= y
      BY <2>2 DEF NextToSubmit
    <2> HIDE DEF i
    <2>4. i \in DOMAIN m.bursts /\ ~AllSent(b)
      BY <2>3 DEF Unsent
    <2>5. ASSUME NEW j \in DOMAIN m.bursts, j < i, ~AllSent(m.bursts[j])
          PROVE  FALSE
      <3>1. j \in Unsent(m)
        BY <2>5 DEF Unsent
      <3>2. i <= j
        BY <2>3, <3>1
      <3> QED
        BY <1>1, <2>4, <2>5, <3>2
    <2> QED
      BY <2>4, <2>5
  <1>3. Submitted(m) = [bursts |-> [m.bursts EXCEPT ![i] = sent], wrote |-> wrote]
    BY DEF Submitted
  <1>4. newest = Newest(m.wrote[l])
    BY DEF Newest
  <1> HIDE DEF i, newest
  <1>5. b \in Bursts
    BY <1>1, <1>2
  <1>6. k \in 1 .. Len(b.req.lines) /\ b.req.lines \in Seq(Nat) /\ b.sent \in Nat
        /\ Range(b.req.lines) \subseteq Lines
    BY <1>2, <1>5, SMTT(30) DEF Bursts, AllSent, MemRequests
  <1>7. k \in DOMAIN b.req.lines /\ l \in Lines
    <2>1. k \in DOMAIN b.req.lines
      BY <1>6
    <2> HIDE DEF k
    <2> QED
      BY <1>6, <2>1, Zenon DEF Range
  <1>8. /\ sent.req = b.req /\ sent.resp = b.resp /\ sent.sent = k /\ sent.got = got
    BY <1>5 DEF Bursts
  <1> HIDE DEF b, k, l, got, wrote, sent
  <1>9. /\ n.bursts = [m.bursts EXCEPT ![i] = sent] /\ n.wrote = wrote
    BY <1>3
  <1> HIDE DEF n
  <1>10. /\ DOMAIN n.bursts = DOMAIN m.bursts
         /\ \A j \in DOMAIN m.bursts : j # i => n.bursts[j] = m.bursts[j]
         /\ n.bursts[i] = sent
    BY <1>2, <1>9
  <1>11. /\ b.req.write =>
              /\ n.bursts[i].got = b.got
              /\ n.wrote = [m.wrote EXCEPT ![l] = Append(@, b.req.op)]
         /\ ~b.req.write =>
              /\ n.bursts[i].got = Append(b.got, Newest(m.wrote[l]))
              /\ n.wrote = m.wrote
    BY <1>4, <1>8, <1>9, <1>10 DEF got, wrote
  <1>12. n.bursts[i].req = b.req /\ n.bursts[i].resp = b.resp /\ n.bursts[i].sent = k
    BY <1>8, <1>10
  <1>13. Submits(m, n, i, l)
    BY <1>2, <1>6, <1>7, <1>10, <1>11, <1>12 DEF Submits, b, k, l
  <1> QED
    BY <1>13 DEF n

\* What is all fresh is sound, while no write is on half of its lines.
LEMMA FreshIsSound ==
    ASSUME Numbered, NEW wr, Histories(wr), NEW o \in DOMAIN ops, NEW got,
           \A k \in DOMAIN got : /\ k \in DOMAIN Wants(o) /\ Wants(o)[k] \in Lines
                                 /\ got[k] = Newest(wr[Wants(o)[k]]),
           \A w \in DOMAIN ops : ops[w].shape.write => Whole(wr, w)
    PROVE  ReadSound(wr, o, got)
  <1>1. ASSUME NEW k \in DOMAIN got
        PROVE  /\ got[k] \in {0} \cup Range(wr[Wants(o)[k]])
               /\ \A w \in Nat \ {0} :
                     Sees(wr, Wants(o)[k], w, got[k]) <=> w \in Range(wr[Wants(o)[k]])
    <2>1. History(wr[Wants(o)[k]])
      BY DEF Histories
    <2> QED
      BY <2>1, TurnNewest DEF Sees
  <1>2. \A k \in DOMAIN got, w \in ops[o].before :
           w \in Range(wr[Wants(o)[k]]) => Sees(wr, Wants(o)[k], w, got[k])
    BY <1>1 DEF Numbered
  <1>3. ASSUME NEW w \in DOMAIN ops, NEW j \in DOMAIN got, NEW k \in DOMAIN got,
               Covers(w, Wants(o)[j]), Covers(w, Wants(o)[k])
        PROVE  Sees(wr, Wants(o)[j], w, got[j]) <=> Sees(wr, Wants(o)[k], w, got[k])
    <2>1. w \in Range(wr[Wants(o)[j]]) <=> w \in Range(wr[Wants(o)[k]])
      BY <1>3 DEF Covers, Whole
    <2>2. w \in Nat \ {0}
      BY DEF Numbered
    <2> QED
      BY <1>1, <2>1, <2>2
  <1> QED
    BY <1>1, <1>2, <1>3 DEF ReadSound

\* What is in the memory is of an access that was issued for it.
LEMMA RequestIs ==
    ASSUME OpsType, NEW r \in MemRequests
    PROVE  /\ r.op \in DOMAIN ops /\ FromMemory(r.op)
           /\ r.lines = Wants(r.op) /\ r.lines \in Seq(Nat)
           /\ r.write = ops[r.op].shape.write /\ r.write \in BOOLEAN
  <1>1. /\ r.op \in DOMAIN ops
        /\ r.write = ops[r.op].shape.write /\ r.lines = ops[r.op].shape.lines
        /\ ~ops[r.op].dma => ~ops[r.op].shape.mmio
        /\ r.lines \in Seq(Nat) /\ r.write \in BOOLEAN
    BY DEF MemRequests
  <1> QED
    BY <1>1 DEF FromMemory, Wants

\* The bursts are of different accesses, and none was answered before an access was
\* issued.
Apart(m) ==
    /\ \A i, j \in DOMAIN m.bursts : m.bursts[i].req.op = m.bursts[j].req.op => i = j
    /\ \A i \in DOMAIN m.bursts, o \in DOMAIN ops : m.bursts[i].req.op \notin ops[o].before

\* The burst whose piece is submitted, in a state in order.
LEMMA SubmitsWell ==
    ASSUME OpsType, Numbered, Straight, NEW m \in Memories, NEW A, DataSound(A, m), Apart(m),
           NEW n, NEW i, NEW l, Submits(m, n, i, l)
    PROVE  /\ \A j \in DOMAIN m.bursts : m.bursts[j] \in Bursts /\ m.bursts[j].req \in MemRequests
           /\ m.bursts[i].resp = OKAY
           /\ m.bursts[i].sent + 1 \in 1 .. Len(m.bursts[i].req.lines)
           /\ Range(m.bursts[i].req.lines) \subseteq Lines
           /\ m.bursts[i].req.op \in DOMAIN ops /\ m.bursts[i].req.op \in Nat \ {0}
           /\ \A x \in DOMAIN m.bursts[i].req.lines :
                 m.bursts[i].req.lines[x] = l => x = m.bursts[i].sent + 1
           /\ \A j \in DOMAIN m.bursts : j # i => ~Partial(m.bursts[j]) /\ ~Partial(n.bursts[j])
           /\ OneByOne(n)
  <1> DEFINE b == m.bursts[i]
  <1>1. \A j \in DOMAIN m.bursts : m.bursts[j] \in Bursts /\ m.bursts[j].req \in MemRequests
    BY InsideIs DEF Bursts
  <1>2. b \in Bursts /\ b.req \in MemRequests /\ ~AllSent(b)
    BY <1>1 DEF Submits
  <1>3. b.resp = OKAY
    BY <1>2 DEF DataSound, BurstSound, Submits
  <1> HIDE DEF b
  <1>4. b.sent + 1 \in 1 .. Len(b.req.lines) /\ Range(b.req.lines) \subseteq Lines
    BY <1>2, SMTT(30) DEF Bursts, AllSent, MemRequests
  <1>5. b.req.op \in DOMAIN ops /\ b.req.op \in Nat \ {0}
    BY <1>2, RequestIs DEF Numbered
  <1>6. \A x \in DOMAIN b.req.lines : b.req.lines[x] = l => x = b.sent + 1
    <2>1. b.req.lines = Wants(b.req.op) /\ FromMemory(b.req.op)
      BY <1>2, RequestIs
    <2>2. IsInjective(b.req.lines)
      BY <1>5, <2>1 DEF Straight
    <2>3. l = b.req.lines[b.sent + 1] /\ b.sent + 1 \in DOMAIN b.req.lines
      BY DEF Submits, b
    <2> QED
      BY <2>2, <2>3 DEF IsInjective
  <1>7. DOMAIN m.bursts \subseteq Nat /\ i \in DOMAIN m.bursts
    <2>1. DOMAIN m.bursts = 1 .. Len(m.bursts)
      BY InsideIs
    <2>2. i \in DOMAIN m.bursts
      BY DEF Submits
    <2> QED
      BY <2>1, <2>2
  <1>8. ASSUME NEW j \in DOMAIN m.bursts, j # i
        PROVE  ~Partial(m.bursts[j]) /\ n.bursts[j] = m.bursts[j]
    <2>1. n.bursts[j] = m.bursts[j]
      BY <1>8 DEF Submits
    <2>2. CASE j < i
      BY <2>1, <2>2 DEF Submits, Partial
    <2>3. CASE i < j
      BY <1>2, <1>7, <2>1, <2>3 DEF DataSound, OneByOne, b
    <2> QED
      BY <1>7, <1>8, <2>1, <2>2, <2>3
  <1>9. OneByOne(n)
    <2>1. DOMAIN n.bursts = DOMAIN m.bursts
      BY DEF Submits
    <2>2. ASSUME NEW p \in DOMAIN m.bursts, NEW q \in DOMAIN m.bursts, p < q,
                 ~AllSent(n.bursts[p])
          PROVE  ~Partial(n.bursts[q])
      <3>1. CASE q = i
        <4>1. AllSent(m.bursts[p]) /\ p # i
          BY <1>7, <2>2, <3>1 DEF Submits
        <4>2. n.bursts[p] = m.bursts[p]
          BY <1>8, <4>1
        <4> QED
          BY <2>2, <4>1, <4>2
      <3>2. CASE q # i
        BY <1>8, <3>2
      <3> QED
        BY <3>1, <3>2
    <2> QED
      BY <2>1, <2>2 DEF OneByOne
  <1> QED
    BY <1>1, <1>3, <1>4, <1>5, <1>6, <1>8, <1>9 DEF b

\* A piece of a write.
LEMMA WrittenSound ==
    ASSUME OpsType, Numbered, Straight, NEW m \in Memories, NEW A,
           \A a \in A : a.op \in DOMAIN ops, DataSound(A, m), Apart(m),
           NEW n \in Memories, NEW i, NEW l, Submits(m, n, i, l), m.bursts[i].req.write
    PROVE  DataSound(A, n)
  <1> DEFINE b == m.bursts[i]
             c == n.bursts[i]
             o == b.req.op
             k == b.sent + 1
             wr == m.wrote
             new == n.wrote
  <1>1. /\ \A j \in DOMAIN m.bursts : m.bursts[j] \in Bursts /\ m.bursts[j].req \in MemRequests
        /\ b.resp = OKAY /\ k \in 1 .. Len(b.req.lines) /\ Range(b.req.lines) \subseteq Lines
        /\ o \in DOMAIN ops /\ o \in Nat \ {0}
        /\ \A x \in DOMAIN b.req.lines : b.req.lines[x] = l => x = k
        /\ \A j \in DOMAIN m.bursts : j # i => ~Partial(m.bursts[j]) /\ ~Partial(n.bursts[j])
        /\ OneByOne(n)
    BY SubmitsWell
  <1>2. /\ i \in DOMAIN m.bursts /\ l \in Lines /\ k \in DOMAIN b.req.lines
        /\ l = b.req.lines[k] /\ b.sent \in Nat
        /\ DOMAIN n.bursts = DOMAIN m.bursts
        /\ \A j \in DOMAIN m.bursts : j # i => n.bursts[j] = m.bursts[j]
        /\ c.req = b.req /\ c.resp = b.resp /\ c.sent = k
        /\ new = [wr EXCEPT ![l] = Append(@, o)]
    BY DEF Submits
  <1>3. /\ \A a \in A : AnswerSound(wr, a)
        /\ WroteOnce(wr, OpsOf(A) \cup Ops(Inside(m)))
        /\ \A j \in DOMAIN m.bursts : BurstSound(wr, m.bursts[j])
        /\ AllWhole(m)
    BY DEF DataSound
  <1>4. /\ \A j \in DOMAIN m.bursts : m.bursts[j].req.op = o => j = i
        /\ \A p \in DOMAIN ops : o \notin ops[p].before
    BY <1>2 DEF Apart
  <1>5. b.req \in MemRequests /\ BurstSound(wr, b) /\ b.req.write
    BY <1>1, <1>2, <1>3
  <1>6. Inside(n) = Inside(m) /\ o \in Ops(Inside(m))
    <2>1. Len(n.bursts) = Len(m.bursts)
      <3>1. m.bursts \in Seq(Bursts) /\ n.bursts \in Seq(Bursts)
        BY DEF Memories
      <3>2. DOMAIN n.bursts = DOMAIN m.bursts
        BY <1>2
      <3> HIDE DEF b, c, o, k, wr, new
      <3> QED
        BY <3>1, <3>2, SameLength
    <2>2. \A j \in DOMAIN m.bursts : n.bursts[j].req = m.bursts[j].req
      BY <1>2
    <2>3. Inside(m)[i].op = o /\ i \in DOMAIN Inside(m)
      BY <1>2 DEF Inside
    <2> HIDE DEF o
    <2> QED
      BY <2>1, <2>2, <2>3, SameInside DEF Ops
  <1> HIDE DEF b, c, o, k, wr, new
  <1>7. \A x \in DOMAIN b.req.lines : b.req.lines[x] \in Lines =>
            (o \in Range(wr[b.req.lines[x]]) <=> x <= b.sent)
    BY <1>1, <1>5 DEF BurstSound, o
  <1>8. o \notin Range(wr[l])
    BY <1>2, <1>7, SMTT(30) DEF k
  <1>9. Extends(wr, new, l, o)
    <2>1. Histories(wr)
      BY <1>3, HistoriesAre DEF wr
    <2> QED
      BY <1>1, <1>2, <1>8, <2>1 DEF Extends, Histories
  <1>10. \A y \in Lines :
            /\ History(new[y])
            /\ \A x \in Range(wr[y]) : x \in Range(new[y])
            /\ \A x \in Range(new[y]) : x \in Range(wr[y]) \/ (y = l /\ x = o)
            /\ y = l => o \in Range(new[y])
    BY <1>9, HistoryGrows
  <1>11. \A a \in A : AnswerSound(new, a)
    BY <1>3, <1>4, <1>9, AnswerGrows
  <1>12. WroteOnce(new, OpsOf(A) \cup Ops(Inside(n)))
    BY <1>1, <1>3, <1>6, <1>10 DEF WroteOnce, History
  <1>13. BurstSound(new, c)
    <2>1. ASSUME NEW x \in DOMAIN b.req.lines, b.req.lines[x] \in Lines
          PROVE  o \in Range(new[b.req.lines[x]]) <=> x <= k
      <3>1. x \in Nat
        BY <1>5 DEF MemRequests
      <3>2. CASE x = k
        BY <1>2, <1>10, <3>1, <3>2
      <3>3. CASE x # k
        <4>1. b.req.lines[x] # l
          BY <1>1, <3>3
        <4>2. o \in Range(new[b.req.lines[x]]) <=> o \in Range(wr[b.req.lines[x]])
          BY <1>10, <2>1, <4>1
        <4>3. x <= k <=> x <= b.sent
          BY <1>2, <3>1, <3>3, SMTT(30) DEF k
        <4> QED
          BY <1>7, <2>1, <4>2, <4>3
      <3> QED
        BY <3>2, <3>3
    <2> QED
      BY <1>1, <1>2, <1>5, <2>1 DEF BurstSound, o
  <1>14. ASSUME NEW j \in DOMAIN m.bursts, j # i
         PROVE  BurstSound(new, m.bursts[j])
    <2> DEFINE d == m.bursts[j]
    <2>1. /\ BurstSound(wr, d) /\ ~Partial(d) /\ d.req.op # o
          /\ d.req.op \in DOMAIN ops
      BY <1>1, <1>3, <1>4, <1>14, RequestIs
    <2> HIDE DEF d
    <2>2. ASSUME d.req.write, NEW x \in DOMAIN d.req.lines, d.req.lines[x] \in Lines
          PROVE  d.req.op \in Range(new[d.req.lines[x]]) <=> d.resp = OKAY /\ x <= d.sent
      <3>1. d.req.op \in Range(new[d.req.lines[x]]) <=> d.req.op \in Range(wr[d.req.lines[x]])
        BY <1>10, <2>1, <2>2
      <3> QED
        BY <2>1, <2>2, <3>1 DEF BurstSound
    <2>3. ASSUME ~d.req.write
          PROVE  ReadSound(new, d.req.op, d.got) /\ (d.resp = OKAY => Len(d.got) = d.sent)
      BY <1>4, <1>9, <2>1, <2>3, ReadGrows DEF BurstSound
    <2>4. d.resp # OKAY => AllSent(d)
      BY <2>1 DEF BurstSound
    <2> QED
      BY <2>1, <2>2, <2>3, <2>4 DEF BurstSound, d
  <1>15. \A j \in DOMAIN n.bursts : BurstSound(new, n.bursts[j])
    BY <1>2, <1>13, <1>14 DEF c
  <1>16. ASSUME NEW w \in DOMAIN ops, ops[w].shape.write,
                \A j \in DOMAIN n.bursts : n.bursts[j].req.op = w => ~Partial(n.bursts[j])
         PROVE  Whole(new, w)
    <2>1. CASE w = o
      <3>1. ~Partial(c)
        BY <1>2, <1>16, <2>1 DEF c, o
      <3>2. k = Len(b.req.lines)
        BY <1>1, <1>2, <3>1 DEF Partial, AllSent
      <3>3. ASSUME NEW y \in Range(Wants(w)) \cap Lines
            PROVE  w \in Range(new[y])
        <4>1. Wants(w) = b.req.lines /\ b.req.lines \in Seq(Nat)
          BY <1>5, <2>1, RequestIs DEF o
        <4>2. PICK x \in DOMAIN b.req.lines : b.req.lines[x] = y
          BY <3>3, <4>1 DEF Range
        <4>3. x <= k
          BY <3>2, <4>1, <4>2
        <4>4. c.req.write /\ c.req.lines[x] = y /\ x \in DOMAIN c.req.lines /\ c.req.op = o
          BY <1>2, <1>5, <4>2 DEF o
        <4> QED
          BY <1>1, <1>2, <1>13, <2>1, <3>3, <4>3, <4>4 DEF BurstSound
      <3> QED
        BY <3>3 DEF Whole
    <2>2. CASE w # o
      <3>1. \A j \in DOMAIN m.bursts : m.bursts[j].req.op = w => ~Partial(m.bursts[j])
        BY <1>1, <2>2 DEF o, b
      <3>2. Whole(wr, w)
        BY <1>3, <1>16, <3>1 DEF AllWhole, wr
      <3>3. \A y \in Lines : w \in Range(new[y]) <=> w \in Range(wr[y])
        BY <1>10, <2>2
      <3> QED
        BY <3>2, <3>3 DEF Whole
    <2> QED
      BY <2>1, <2>2
  <1> QED
    BY <1>1, <1>11, <1>12, <1>15, <1>16 DEF DataSound, AllWhole, new

\* A piece of a read.
LEMMA ReadOnSound ==
    ASSUME OpsType, Numbered, Straight, NEW m \in Memories, NEW A, DataSound(A, m), Apart(m),
           NEW n \in Memories, NEW i, NEW l, Submits(m, n, i, l), ~m.bursts[i].req.write
    PROVE  DataSound(A, n)
  <1> DEFINE b == m.bursts[i]
             c == n.bursts[i]
             o == b.req.op
             k == b.sent + 1
             wr == m.wrote
  <1>1. /\ \A j \in DOMAIN m.bursts : m.bursts[j] \in Bursts /\ m.bursts[j].req \in MemRequests
        /\ b.resp = OKAY /\ k \in 1 .. Len(b.req.lines) /\ Range(b.req.lines) \subseteq Lines
        /\ o \in DOMAIN ops
        /\ \A j \in DOMAIN m.bursts : j # i => ~Partial(m.bursts[j]) /\ ~Partial(n.bursts[j])
        /\ OneByOne(n)
    BY SubmitsWell
  <1>2. /\ i \in DOMAIN m.bursts /\ l \in Lines /\ k \in DOMAIN b.req.lines
        /\ l = b.req.lines[k] /\ b.sent \in Nat /\ ~AllSent(b)
        /\ DOMAIN n.bursts = DOMAIN m.bursts
        /\ \A j \in DOMAIN m.bursts : j # i => n.bursts[j] = m.bursts[j]
        /\ c.req = b.req /\ c.resp = b.resp /\ c.sent = k
        /\ c.got = Append(b.got, Newest(wr[l])) /\ n.wrote = wr /\ ~b.req.write
    BY DEF Submits
  <1>3. /\ \A a \in A : AnswerSound(wr, a)
        /\ WroteOnce(wr, OpsOf(A) \cup Ops(Inside(m)))
        /\ \A j \in DOMAIN m.bursts : BurstSound(wr, m.bursts[j])
        /\ AllWhole(m)
    BY DEF DataSound
  <1>4. /\ b.req \in MemRequests /\ BurstSound(wr, b) /\ b.got \in Seq(Nat)
        /\ b.req.lines = Wants(o) /\ ~ops[o].shape.write
    <2>1. b.req \in MemRequests /\ BurstSound(wr, b) /\ b \in Bursts
      BY <1>1, <1>2, <1>3
    <2>2. b.req.lines = Wants(o) /\ b.req.write = ops[o].shape.write
      BY <2>1, RequestIs
    <2> HIDE DEF b, o
    <2> QED
      BY <1>2, <2>1, <2>2 DEF Bursts
  <1>5. Inside(n) = Inside(m)
    <2>1. Len(n.bursts) = Len(m.bursts)
      <3>1. m.bursts \in Seq(Bursts) /\ n.bursts \in Seq(Bursts)
        BY DEF Memories
      <3>2. DOMAIN n.bursts = DOMAIN m.bursts
        BY <1>2
      <3> HIDE DEF b, c, o, k, wr
      <3> QED
        BY <3>1, <3>2, SameLength
    <2>2. \A j \in DOMAIN m.bursts : n.bursts[j].req = m.bursts[j].req
      BY <1>2
    <2> QED
      BY <2>1, <2>2, SameInside
  <1> HIDE DEF b, c, k, wr
  <1>6. \A w \in DOMAIN ops : ops[w].shape.write => Whole(wr, w)
    <2>1. ASSUME NEW w \in DOMAIN ops, ops[w].shape.write
          PROVE  \A j \in DOMAIN m.bursts : m.bursts[j].req.op = w => ~Partial(m.bursts[j])
      BY <1>1, <1>4, <2>1 DEF b
    <2> QED
      BY <1>3, <2>1 DEF AllWhole, wr
  <1>7. Len(b.got) = b.sent
    BY <1>1, <1>2, <1>4 DEF BurstSound
  <1>8. DOMAIN c.got = 1 .. k /\ c.got[k] = Newest(wr[l]) /\ Len(c.got) = k
        /\ \A x \in 1 .. b.sent : c.got[x] = b.got[x]
    BY <1>2, <1>4, <1>7 DEF k
  <1>9. ASSUME NEW x \in DOMAIN c.got
        PROVE  /\ x \in DOMAIN b.req.lines /\ b.req.lines[x] \in Lines
               /\ c.got[x] = Newest(wr[b.req.lines[x]])
    <2>1. DOMAIN b.req.lines = 1 .. Len(b.req.lines) /\ Len(b.req.lines) \in Nat
      BY <1>4 DEF MemRequests
    <2>2. x \in 1 .. k
      BY <1>8
    <2>3. x \in DOMAIN b.req.lines
      BY <1>1, <2>1, <2>2
    <2>4. b.req.lines[x] \in Lines
      BY <1>1, <2>3, Zenon DEF Range
    <2>5. CASE x = k
      BY <1>2, <1>8, <2>3, <2>4, <2>5
    <2>6. CASE x # k
      <3>1. x \in 1 .. b.sent /\ b.sent # 0
        BY <1>2, <2>2, <2>6 DEF k
      <3>2. Partial(b)
        BY <1>2, <3>1 DEF Partial
      <3>3. x \in DOMAIN b.got
        BY <1>4, <1>7, <3>1
      <3>4. b.got[x] = Newest(wr[b.req.lines[x]])
        BY <1>2, <1>4, <3>2, <3>3 DEF BurstSound
      <3> QED
        BY <1>8, <2>3, <2>4, <3>1, <3>4
    <2> QED
      BY <2>5, <2>6
  <1>10. ReadSound(wr, o, c.got)
    <2>1. Histories(wr)
      BY <1>3, HistoriesAre DEF wr
    <2> HIDE DEF o
    <2> QED
      BY <1>1, <1>4, <1>6, <1>9, <2>1, FreshIsSound
  <1>11. BurstSound(wr, c)
    BY <1>1, <1>2, <1>8, <1>9, <1>10 DEF BurstSound
  <1>12. \A j \in DOMAIN n.bursts : BurstSound(wr, n.bursts[j])
    BY <1>2, <1>3, <1>11 DEF c
  <1> QED
    BY <1>1, <1>2, <1>3, <1>5, <1>6, <1>12 DEF DataSound, AllWhole

\* A piece is submitted.
LEMMA SubmittedSound ==
    ASSUME OpsType, Numbered, Straight, NEW m \in Memories, Unsent(m) # {}, NEW A,
           \A a \in A : a.op \in DOMAIN ops, DataSound(A, m), Apart(m)
    PROVE  DataSound(A, Submitted(m))
  <1>1. PICK i, l : Submits(m, Submitted(m), i, l)
    BY SubmittedIs
  <1>2. Submitted(m) \in Memories
    BY SubmittedType
  <1> QED
    BY <1>1, <1>2, WrittenSound, ReadOnSound

-----------------------------------------------------------------------------
(* A period of the memory                                                    *)

\* A request becomes a burst.
LEMMA TakenSound ==
    ASSUME NEW m \in Memories, NEW A, DataSound(A, m), NEW r \in MemRequests,
           r.op \notin OpsOf(A) \cup Ops(Inside(m))
    PROVE  DataSound(A, [m EXCEPT !.bursts = Append(@, Burst(r))])
  <1> DEFINE c == Burst(r)
             n == [m EXCEPT !.bursts = Append(@, c)]
             last == Len(m.bursts) + 1
  <1>1. n.wrote = m.wrote /\ n.bursts = Append(m.bursts, c)
    BY DEF Memories
  <1>2. Inside(n) = Append(Inside(m), r)
    BY InsideTakes
  <1>3. Ops(Inside(n)) = Ops(Inside(m)) \cup {r.op}
    <2>1. Inside(m) \in Seq(MemRequests)
      BY InsideIs
    <2> HIDE DEF n
    <2> QED
      BY <1>2, <2>1, OpsAppend
  <1>4. c.req = r /\ (c.resp # OKAY => AllSent(c)) /\ (c.resp = OKAY => c.sent = 0) /\ c.got = <<>>
    BY DEF Burst, AllSent
  <1>5. m.bursts \in Seq(Bursts) /\ c \in Bursts
    BY BurstType DEF Memories
  <1> HIDE DEF c, n
  <1>6. /\ DOMAIN m.bursts = 1 .. Len(m.bursts) /\ Len(m.bursts) \in Nat
        /\ DOMAIN n.bursts = 1 .. last
        /\ \A j \in DOMAIN m.bursts : j \in DOMAIN n.bursts /\ n.bursts[j] = m.bursts[j]
        /\ n.bursts[last] = c
        /\ \A j \in DOMAIN n.bursts : j \in DOMAIN m.bursts \/ j = last
    BY <1>1, <1>5
  <1>7. ~Partial(c)
    BY <1>4 DEF Partial
  <1>8. WroteOnce(m.wrote, OpsOf(A) \cup Ops(Inside(m)))
    BY DEF DataSound
  <1>9. BurstSound(m.wrote, c)
    <2>1. ASSUME NEW k \in DOMAIN r.lines, r.lines[k] \in Lines
          PROVE  r.op \notin Range(m.wrote[r.lines[k]])
      BY <1>8, <2>1 DEF WroteOnce
    <2>2. ASSUME NEW k \in DOMAIN r.lines
          PROVE  ~(c.resp = OKAY /\ k <= c.sent)
      <3>1. k \in Nat \ {0}
        BY DEF MemRequests
      <3> QED
        BY <1>4, <3>1
    <2>3. ReadSound(m.wrote, r.op, <<>>)
      BY DEF ReadSound
    <2> QED
      BY <1>4, <1>7, <2>1, <2>2, <2>3 DEF BurstSound
  <1>10. OneByOne(n)
    <2>1. ASSUME NEW p \in DOMAIN n.bursts, NEW q \in DOMAIN n.bursts, p < q,
                 ~AllSent(n.bursts[p])
          PROVE  ~Partial(n.bursts[q])
      <3>1. CASE q = last
        BY <1>6, <1>7, <3>1
      <3>2. CASE q # last
        <4>1. p \in DOMAIN m.bursts /\ q \in DOMAIN m.bursts
          BY <1>6, <2>1, <3>2
        <4>2. n.bursts[p] = m.bursts[p] /\ n.bursts[q] = m.bursts[q]
          BY <1>6, <4>1
        <4> QED
          BY <2>1, <4>1, <4>2 DEF DataSound, OneByOne
      <3> QED
        BY <3>1, <3>2
    <2> QED
      BY <2>1 DEF OneByOne
  <1>11. AllWhole(n)
    <2>1. ASSUME NEW w \in DOMAIN ops, ops[w].shape.write,
                 \A j \in DOMAIN n.bursts : n.bursts[j].req.op = w => ~Partial(n.bursts[j])
          PROVE  Whole(n.wrote, w)
      <3>1. \A j \in DOMAIN m.bursts : m.bursts[j].req.op = w => ~Partial(m.bursts[j])
        BY <1>6, <2>1
      <3> QED
        BY <1>1, <2>1, <3>1 DEF DataSound, AllWhole
    <2> QED
      BY <2>1 DEF AllWhole
  <1>12. \A j \in DOMAIN n.bursts : BurstSound(n.wrote, n.bursts[j])
    BY <1>1, <1>6, <1>9 DEF DataSound
  <1>13. WroteOnce(n.wrote, OpsOf(A) \cup Ops(Inside(n)))
    BY <1>1, <1>3, <1>8 DEF WroteOnce
  <1>14. \A a \in A : AnswerSound(n.wrote, a)
    BY <1>1 DEF DataSound
  <1> QED
    BY <1>10, <1>11, <1>12, <1>13, <1>14 DEF DataSound, n, c

\* Pieces come back: only which are out changes.
LEMMA CollectedSound ==
    ASSUME NEW m \in Memories, NEW A, DataSound(A, m), NEW answered
    PROVE  DataSound(A, Collected(m, answered))
  <1> DEFINE n == Collected(m, answered)
  <1>1. n.wrote = m.wrote /\ DOMAIN n.bursts = DOMAIN m.bursts
    BY DEF Collected, Memories
  <1>2. ASSUME NEW j \in DOMAIN m.bursts
        PROVE  /\ n.bursts[j].req = m.bursts[j].req /\ n.bursts[j].resp = m.bursts[j].resp
               /\ n.bursts[j].sent = m.bursts[j].sent /\ n.bursts[j].got = m.bursts[j].got
    <2>1. n.bursts[j] = [m.bursts[j] EXCEPT !.out = {k \in @ : <<j, k>> \notin answered}]
      BY DEF Collected, Memories
    <2>2. m.bursts[j] \in Bursts
      BY InsideIs
    <2> HIDE DEF n
    <2> QED
      BY <2>1, <2>2 DEF Bursts
  <1>3. Inside(n) = Inside(m)
    <2>1. n \in Memories /\ Len(n.bursts) = Len(m.bursts)
      BY CollectedType
    <2> HIDE DEF n
    <2> QED
      BY <1>2, <2>1, SameInside
  <1> HIDE DEF n
  <1>4. \A j \in DOMAIN m.bursts : /\ AllSent(n.bursts[j]) <=> AllSent(m.bursts[j])
                                   /\ Partial(n.bursts[j]) <=> Partial(m.bursts[j])
    BY <1>2 DEF AllSent, Partial
  <1>5. ASSUME NEW j \in DOMAIN m.bursts
        PROVE  BurstSound(m.wrote, n.bursts[j])
    <2>1. BurstSound(m.wrote, m.bursts[j])
      BY DEF DataSound
    <2> QED
      BY <1>2, <1>4, <2>1 DEF BurstSound
  <1>6. OneByOne(n)
    BY <1>1, <1>4 DEF DataSound, OneByOne
  <1>7. AllWhole(n)
    BY <1>1, <1>2, <1>4 DEF DataSound, AllWhole
  <1> QED
    BY <1>1, <1>3, <1>5, <1>6, <1>7 DEF DataSound, n

\* The answer of the first burst.
LEMMA GivenSound ==
    ASSUME OpsType, NEW m \in Memories, NEW A, DataSound(A, m), Answerable(m)
    PROVE  DataSound(A \cup {Answer(m)}, [m EXCEPT !.bursts = Tail(@)])
  <1> DEFINE b == Head(m.bursts)
             a == Answer(m)
             n == [m EXCEPT !.bursts = Tail(@)]
  <1>1. n.wrote = m.wrote /\ n.bursts = Tail(m.bursts)
    BY DEF Memories
  <1>2. m.bursts # <<>> /\ AllSent(b)
    BY DEF Answerable
  <1>3. /\ Inside(n) = Tail(Inside(m)) /\ Inside(m) # <<>> /\ Head(Inside(m)) = b.req
        /\ b \in Bursts /\ b.req \in MemRequests
    BY <1>2, InsideGives, AnswerType
  <1>4. a = [op |-> b.req.op, id |-> b.req.id, write |-> b.req.write,
             beats |-> Len(b.req.lines), resp |-> b.resp, got |-> b.got]
    BY DEF Answer
  <1>5. m.bursts \in Seq(Bursts)
    BY DEF Memories
  <1>6. b = m.bursts[1] /\ 1 \in DOMAIN m.bursts
    BY <1>2, <1>5
  <1> HIDE DEF a, b, n
  <1>7. Ops(Inside(m)) = Ops(Inside(n)) \cup {b.req.op}
    <2>1. Inside(m) \in Seq(MemRequests)
      BY InsideIs
    <2> QED
      BY <1>3, <2>1, OpsTail
  <1>8. \A j \in DOMAIN n.bursts : /\ j \in Nat /\ j + 1 \in DOMAIN m.bursts
                                   /\ n.bursts[j] = m.bursts[j + 1]
    BY <1>1, <1>2, <1>5
  <1>9. \A j \in DOMAIN m.bursts : j = 1 \/ (j - 1 \in DOMAIN n.bursts
                                             /\ m.bursts[j] = n.bursts[j - 1])
    BY <1>1, <1>2, <1>5
  <1>10. BurstSound(m.wrote, b)
    BY <1>6 DEF DataSound
  <1>11. AnswerSound(m.wrote, a)
    <2>1. a.op = b.req.op /\ a.write = b.req.write /\ a.resp = b.resp /\ a.got = b.got
      BY <1>4
    <2>2. b.req.lines = Wants(b.req.op) /\ b.req.lines \in Seq(Nat)
      BY <1>3, RequestIs
    <2>3. ASSUME b.req.write, b.resp = OKAY, NEW l \in Range(Wants(b.req.op))
          PROVE  l \in Lines /\ b.req.op \in Range(m.wrote[l])
      <3>1. b.resp = Status(b.req) /\ b.sent = Len(b.req.lines)
        BY <1>2, <1>3 DEF Bursts, AllSent
      <3>2. Range(b.req.lines) \subseteq Lines
        BY <2>3, <3>1 DEF Status, OKAY, SLVERR, DECERR
      <3>3. PICK k \in DOMAIN b.req.lines : b.req.lines[k] = l
        BY <2>2, <2>3 DEF Range
      <3>4. l \in Lines /\ k <= b.sent
        BY <2>2, <2>3, <3>1, <3>2, <3>3
      <3> QED
        BY <1>10, <2>3, <3>3, <3>4 DEF BurstSound
    <2>4. ~b.req.write => ReadSound(m.wrote, b.req.op, b.got)
      BY <1>10 DEF BurstSound
    <2> QED
      BY <2>1, <2>3, <2>4 DEF AnswerSound
  <1>12. OneByOne(n)
    <2>1. ASSUME NEW p \in DOMAIN n.bursts, NEW q \in DOMAIN n.bursts, p < q,
                 ~AllSent(n.bursts[p])
          PROVE  ~Partial(n.bursts[q])
      <3>1. p + 1 < q + 1
        BY <1>8, <2>1
      <3> QED
        BY <1>8, <2>1, <3>1 DEF DataSound, OneByOne
    <2> QED
      BY <2>1 DEF OneByOne
  <1>13. AllWhole(n)
    <2>1. ASSUME NEW w \in DOMAIN ops, ops[w].shape.write,
                 \A j \in DOMAIN n.bursts : n.bursts[j].req.op = w => ~Partial(n.bursts[j])
          PROVE  Whole(n.wrote, w)
      <3>1. ~Partial(m.bursts[1])
        BY <1>2, <1>6 DEF Partial
      <3>2. \A j \in DOMAIN m.bursts : m.bursts[j].req.op = w => ~Partial(m.bursts[j])
        BY <1>9, <2>1, <3>1
      <3> QED
        BY <1>1, <2>1, <3>2 DEF DataSound, AllWhole
    <2> QED
      BY <2>1 DEF AllWhole
  <1>14. \A j \in DOMAIN n.bursts : BurstSound(n.wrote, n.bursts[j])
    BY <1>1, <1>8 DEF DataSound
  <1>15. WroteOnce(n.wrote, OpsOf(A \cup {a}) \cup Ops(Inside(n)))
    <2>1. OpsOf(A \cup {a}) = OpsOf(A) \cup {b.req.op}
      BY <1>4 DEF OpsOf
    <2>2. WroteOnce(m.wrote, OpsOf(A) \cup Ops(Inside(m)))
      BY DEF DataSound
    <2> QED
      BY <1>1, <1>7, <2>1, <2>2
  <1>16. \A x \in A \cup {a} : AnswerSound(n.wrote, x)
    BY <1>1, <1>11 DEF DataSound
  <1> QED
    BY <1>12, <1>13, <1>14, <1>15, <1>16 DEF DataSound, n, a

\* An access is in one place: inside once, and not answered; the next to go inside
\* is not there yet, nor on its way back.
LEMMA Placed ==
    ASSUME OpsType, NEW s \in Adapters, NEW inside \in Seq(MemRequests), NEW access,
           NEW done, Order(s, inside, access, done)
    PROVE  /\ \A i, j \in DOMAIN inside : inside[i].op = inside[j].op => i = j
           /\ \A i \in DOMAIN inside : inside[i].op \notin done
           /\ s.req # <<>> =>
                 Head(s.req).op \notin OpsOf(Back(s)) \cup done \cup Ops(inside)
  <1> DEFINE F == Queues(s, inside)
  <1>1. /\ F["req"] = Numbers(s.req) /\ F["inside"] = Numbers(inside)
        /\ F["rsp"] = Numbers(s.rsp) /\ F["completed"] = Numbers(s.completed)
        /\ F["drsp"] = Numbers(s.drsp) /\ DOMAIN F = Places
    BY QueuesAre DEF Lists
  <1>2. /\ Once(F) /\ Held(F) \cap Leaving(s) = {} /\ Held(F) \cap done = {}
    BY DEF Order, InOnePlace
  <1> HIDE DEF F
  <1>3. \A i \in DOMAIN inside : i \in DOMAIN F["inside"] /\ F["inside"][i] = inside[i].op
    BY <1>1 DEF Numbers
  <1>4. \A i, j \in DOMAIN inside : inside[i].op = inside[j].op => i = j
    BY <1>1, <1>2, <1>3 DEF Once, Places
  <1>5. \A i \in DOMAIN inside : inside[i].op \notin done
    BY <1>1, <1>2, <1>3, HeldIs DEF Places
  <1>6. ASSUME s.req # <<>>
        PROVE  Head(s.req).op \notin OpsOf(Back(s)) \cup done \cup Ops(inside)
    <2> DEFINE n == Head(s.req).op
    <2>1. s.req \in Seq(MemRequests)
      BY DEF Adapters
    <2>2. 1 \in DOMAIN F["req"] /\ F["req"][1] = n
      BY <1>1, <1>6, <2>1 DEF Numbers
    <2> HIDE DEF n
    <2>3. n \in Held(F)
      BY <1>1, <2>2, HeldIs DEF Places
    <2>4. ASSUME NEW p \in {"inside", "rsp", "completed", "drsp"}, NEW i \in DOMAIN F[p]
          PROVE  F[p][i] # n
      <3>1. p \in DOMAIN F /\ "req" \in DOMAIN F /\ p # "req"
        BY <1>1, <2>4 DEF Places
      <3> QED
        BY <1>2, <2>2, <3>1 DEF Once
    <2>5. n \notin Ops(inside)
      BY <1>3, <2>4 DEF Ops
    <2>6. ASSUME NEW a \in Range(s.rsp) \cup Range(s.completed) \cup Range(s.drsp)
          PROVE  a.op # n
      <3>1. ASSUME NEW q, NEW p \in {"rsp", "completed", "drsp"}, F[p] = Numbers(q),
                   a \in Range(q)
            PROVE  a.op # n
        <4>1. PICK i \in DOMAIN q : a = q[i]
          BY <3>1 DEF Range
        <4>2. i \in DOMAIN F[p] /\ F[p][i] = a.op
          BY <3>1, <4>1 DEF Numbers
        <4> QED
          BY <2>4, <4>2
      <3> QED
        BY <1>1, <2>6, <3>1
    <2>7. ASSUME NEW a \in Range(s.hrsp)
          PROVE  a.op # n
      <3>1. PICK i \in DOMAIN s.hrsp : a = s.hrsp[i]
        BY <2>7 DEF Range
      <3>2. a.op \in Leaving(s)
        BY <3>1 DEF Leaving, Numbers, Range
      <3> QED
        BY <1>2, <2>3, <3>2
    <2>8. n \notin OpsOf(Back(s))
      BY <2>6, <2>7 DEF OpsOf, Back
    <2>9. n \notin done
      BY <1>2, <2>3
    <2> QED
      BY <2>5, <2>8, <2>9 DEF n
  <1> QED
    BY <1>4, <1>5, <1>6

\* Every answer on its way back is of an access that was issued.
LEMMA BackIssued ==
    ASSUME NEW s \in Adapters, NEW a \in Back(s)
    PROVE  a.op \in DOMAIN ops
  <1>1. /\ s.rsp \in Seq(MemAnswers) /\ s.completed \in Seq(HostReturns)
        /\ s.drsp \in Seq(DmaReturns) /\ s.hrsp \in Seq(HostReturns)
    BY DEF Adapters
  <1>2. ASSUME NEW S, NEW q \in Seq(S), a \in Range(q)
        PROVE  a \in S
    BY <1>2 DEF Range
  <1>3. a \in MemAnswers \cup HostReturns \cup DmaReturns
    BY <1>1, <1>2 DEF Back
  <1> QED
    BY <1>3 DEF MemAnswers, HostReturns, DmaReturns, Returns

\* Appending and taking the first, as sets.
LEMMA RangeAppend ==
    ASSUME NEW S, NEW q \in Seq(S), NEW x \in S
    PROVE  Range(Append(q, x)) = Range(q) \cup {x}
  <1>1. /\ DOMAIN q = 1 .. Len(q) /\ Len(q) \in Nat
        /\ DOMAIN Append(q, x) = 1 .. Len(q) + 1
        /\ \A i \in 1 .. Len(q) : Append(q, x)[i] = q[i]
        /\ Append(q, x)[Len(q) + 1] = x
    OBVIOUS
  <1>2. \A i \in DOMAIN Append(q, x) : i \in DOMAIN q \/ i = Len(q) + 1
    BY <1>1
  <1> DEFINE t == Append(q, x)
  <1>3. DOMAIN q \subseteq DOMAIN t /\ Len(q) + 1 \in DOMAIN t
    BY <1>1
  <1> HIDE DEF t
  <1>4. Range(t) \subseteq Range(q) \cup {x}
    BY <1>1, <1>2 DEF Range, t
  <1>5. Range(q) \cup {x} \subseteq Range(t)
    BY <1>1, <1>3 DEF Range, t
  <1> QED
    BY <1>4, <1>5 DEF t

LEMMA RangeTail ==
    ASSUME NEW S, NEW q \in Seq(S), q # <<>>
    PROVE  Range(q) = Range(Tail(q)) \cup {Head(q)}
  <1> DEFINE t == Tail(q)
  <1>1. /\ DOMAIN q = 1 .. Len(q) /\ Len(q) \in Nat \ {0}
        /\ DOMAIN t = 1 .. Len(q) - 1 /\ \A i \in 1 .. Len(q) - 1 : t[i] = q[i + 1]
        /\ Head(q) = q[1]
    OBVIOUS
  <1> HIDE DEF t
  <1>2. \A i \in DOMAIN q : i = 1 \/ (i - 1 \in DOMAIN t /\ t[i - 1] = q[i])
    BY <1>1
  <1>3. \A i \in DOMAIN t : i + 1 \in DOMAIN q /\ t[i] = q[i + 1]
    BY <1>1
  <1>4. Range(q) \subseteq Range(t) \cup {Head(q)}
    BY <1>1, <1>2 DEF Range
  <1>5. Range(t) \cup {Head(q)} \subseteq Range(q)
    BY <1>1, <1>3 DEF Range
  <1> QED
    BY <1>4, <1>5 DEF t

\* A whole period.
LEMMA PeriodSound ==
    ASSUME OpsType, Numbered, Straight, NEW s \in Adapters, NEW v, NEW tickets,
           Bridge(v, tickets), NEW takes, NEW answered, NEW held,
           NEW u \in Periods(v, Depth, takes, answered, held),
           NEW access, NEW R, BridgeOrder(s, v, access, OpsOf(R)),
           \A a \in R : a.op \in DOMAIN ops,
           \A o \in DOMAIN ops : ops[o].before \subseteq OpsOf(R),
           DataSound(Back(With(s, v)) \cup R, v.mem)
    PROVE  DataSound(Back(With(s, u)) \cup R, u.mem)
  <1> DEFINE taken == IF Len(v.mem.bursts) < Slots /\ v.req # <<>>
                      THEN [v EXCEPT !.mem.bursts = Append(@, Burst(Head(v.req))),
                                     !.req = Tail(@)]
                      ELSE v
             offered(t) == IF Unsent(t.mem) # {} /\ takes
                           THEN [t EXCEPT !.mem = Submitted(@)] ELSE t
             stepped(t) == [t EXCEPT !.mem = Collected(@, answered)]
             given(t) == IF Answerable(t.mem) /\ ~held /\ Len(t.rsp) < Depth
                         THEN [t EXCEPT !.rsp = Append(@, Answer(t.mem)),
                                        !.mem.bursts = Tail(@)]
                         ELSE t
             done == OpsOf(R)
             A(t) == Back(With(s, t)) \cup R
             Good(t) == /\ Bridge(t, tickets) /\ BridgeOrder(s, t, access, done)
                        /\ DataSound(A(t), t.mem)
  <1>1. ASSUME NEW t, Bridge(t, tickets)
        PROVE  /\ t \in [req : Seq(MemRequests), rsp : Seq(MemAnswers), mem : Memories]
               /\ t.mem \in Memories /\ Inside(t.mem) \in Seq(MemRequests)
               /\ With(s, t) \in Adapters /\ With(s, t).req = t.req
               /\ A(t) = Range(t.rsp) \cup Range(s.completed) \cup Range(s.drsp)
                         \cup Range(s.hrsp) \cup R
    <2>1. t \in [req : Seq(MemRequests), rsp : Seq(MemAnswers), mem : Memories]
      BY <1>1 DEF Bridge
    <2>2. t.mem \in Memories /\ Inside(t.mem) \in Seq(MemRequests)
      BY <2>1, InsideIs
    <2> QED
      BY <1>1, <2>1, <2>2, WithIs DEF Back
  <1>2. ASSUME NEW t, Good(t)
        PROVE  /\ Apart(t.mem)
               /\ t.req # <<>> => Head(t.req).op \notin OpsOf(A(t)) \cup Ops(Inside(t.mem))
               /\ \A a \in A(t) : a.op \in DOMAIN ops
    <2>1. /\ With(s, t) \in Adapters /\ With(s, t).req = t.req
          /\ Inside(t.mem) \in Seq(MemRequests) /\ t.mem \in Memories
          /\ Order(With(s, t), Inside(t.mem), access, done)
      BY <1>1, <1>2 DEF BridgeOrder
    <2> HIDE DEF done
    <2>2. /\ \A i, j \in DOMAIN Inside(t.mem) :
                Inside(t.mem)[i].op = Inside(t.mem)[j].op => i = j
          /\ \A i \in DOMAIN Inside(t.mem) : Inside(t.mem)[i].op \notin done
          /\ t.req # <<>> =>
                Head(t.req).op \notin OpsOf(Back(With(s, t))) \cup done \cup Ops(Inside(t.mem))
      BY <2>1, Placed
    <2>3. Apart(t.mem)
      BY <2>1, <2>2, InsideIs DEF Apart, done
    <2>4. OpsOf(A(t)) = OpsOf(Back(With(s, t))) \cup done
      BY DEF OpsOf, done
    <2>5. \A a \in A(t) : a.op \in DOMAIN ops
      BY <2>1, BackIssued
    <2> QED
      BY <2>2, <2>3, <2>4, <2>5
  <1>3. Good(v)
    OBVIOUS
  <1>4. Good(taken)
    <2>1. CASE Len(v.mem.bursts) < Slots /\ v.req # <<>>
      <3> DEFINE r == Head(v.req)
                 n == [v.mem EXCEPT !.bursts = Append(@, Burst(r))]
      <3>1. /\ v \in [req : Seq(MemRequests), rsp : Seq(MemAnswers), mem : Memories]
            /\ v.mem \in Memories /\ v.req \in Seq(MemRequests) /\ r \in MemRequests
        BY <1>1, <2>1
      <3>2. r.op \notin OpsOf(A(v)) \cup Ops(Inside(v.mem))
        BY <1>2, <1>3, <2>1
      <3>3. DataSound(A(v), n)
        BY <3>1, <3>2, TakenSound
      <3>4. taken = [v EXCEPT !.mem = n, !.req = Tail(v.req)]
        BY <2>1
      <3>5. Bridge(taken, tickets) /\ BridgeOrder(s, taken, access, done)
        BY <2>1, TakenKeeps, TakenOrder
      <3> HIDE DEF n, r, taken
      <3>6. taken.mem = n /\ taken.rsp = v.rsp
        BY <3>1, <3>4
      <3>7. A(taken) = A(v)
        BY <1>1, <3>5, <3>6
      <3> QED
        BY <3>3, <3>5, <3>6, <3>7
    <2>2. CASE ~(Len(v.mem.bursts) < Slots /\ v.req # <<>>)
      BY <1>3, <2>2
    <2> QED
      BY <2>1, <2>2
  <1>5. ASSUME NEW t, NEW n \in Memories, Good(t), Len(n.bursts) = Len(t.mem.bursts),
               \A j \in DOMAIN t.mem.bursts : n.bursts[j].req = t.mem.bursts[j].req,
               DataSound(A(t), n)
        PROVE  Good([t EXCEPT !.mem = n])
    <2> DEFINE w == [t EXCEPT !.mem = n]
    <2>1. Bridge(w, tickets) /\ BridgeOrder(s, w, access, done)
      BY <1>5, PiecesKeep, PiecesOrder
    <2>2. w.mem = n /\ w.rsp = t.rsp
      BY <1>1, <1>5
    <2> HIDE DEF w
    <2>3. A(w) = A(t)
      BY <1>1, <1>5, <2>1, <2>2
    <2>4. Good(w)
      BY <1>5, <2>1, <2>2, <2>3
    <2> QED
      BY <2>4 DEF w
  <1>6. ASSUME NEW t, Good(t)
        PROVE  Good(offered(t))
    <2>1. CASE Unsent(t.mem) # {} /\ takes
      <3> DEFINE n == Submitted(t.mem)
      <3>1. /\ n \in Memories /\ Len(n.bursts) = Len(t.mem.bursts)
            /\ \A j \in DOMAIN t.mem.bursts : n.bursts[j].req = t.mem.bursts[j].req
        BY <1>1, <1>6, <2>1, SubmittedType
      <3>2. DataSound(A(t), n)
        BY <1>1, <1>2, <1>6, <2>1, SubmittedSound
      <3> HIDE DEF n, Good
      <3>3. Good([t EXCEPT !.mem = n])
        BY <1>5, <1>6, <3>1, <3>2 DEF Good
      <3> QED
        BY <2>1, <3>3 DEF n
    <2> QED
      BY <1>6, <2>1
  <1>7. ASSUME NEW t, Good(t)
        PROVE  Good(stepped(t))
    <2> DEFINE n == Collected(t.mem, answered)
    <2>1. /\ n \in Memories /\ Len(n.bursts) = Len(t.mem.bursts)
          /\ \A j \in DOMAIN t.mem.bursts : n.bursts[j].req = t.mem.bursts[j].req
      BY <1>1, <1>7, CollectedType
    <2>2. DataSound(A(t), n)
      BY <1>1, <1>7, CollectedSound
    <2> HIDE DEF n, Good
    <2>3. Good([t EXCEPT !.mem = n])
      BY <1>5, <1>7, <2>1, <2>2 DEF Good
    <2> QED
      BY <2>3 DEF n
  <1>8. ASSUME NEW t, Good(t)
        PROVE  Good(given(t))
    <2>1. CASE Answerable(t.mem) /\ ~held /\ Len(t.rsp) < Depth
      <3> DEFINE a == Answer(t.mem)
                 n == [t.mem EXCEPT !.bursts = Tail(@)]
                 w == [t EXCEPT !.rsp = Append(@, Answer(t.mem)), !.mem.bursts = Tail(@)]
      <3>1. /\ t \in [req : Seq(MemRequests), rsp : Seq(MemAnswers), mem : Memories]
            /\ t.mem \in Memories /\ t.mem.bursts # <<>>
        BY <1>1, <1>8, <2>1 DEF Answerable
      <3>2. a \in MemAnswers
        BY <3>1, AnswerType
      <3>3. DataSound(A(t) \cup {a}, n)
        BY <1>8, <2>1, <3>1, GivenSound
      <3>4. Bridge(w, tickets) /\ BridgeOrder(s, w, access, done)
        BY <1>8, <3>1, GivenKeeps, GivenOrder
      <3>5. w = [t EXCEPT !.rsp = Append(t.rsp, a), !.mem = n]
        OBVIOUS
      <3> HIDE DEF a, n, w
      <3>6. w.mem = n /\ w.rsp = Append(t.rsp, a)
        BY <3>1, <3>5
      <3>7. Range(w.rsp) = Range(t.rsp) \cup {a}
        BY <3>1, <3>2, <3>6, RangeAppend
      <3>8. A(w) = A(t) \cup {a}
        BY <1>1, <1>8, <3>4, <3>7
      <3>9. Good(w)
        BY <3>3, <3>4, <3>6, <3>8
      <3> QED
        BY <2>1, <3>9 DEF w
    <2> QED
      BY <1>8, <2>1
  <1>9. u = given(stepped(offered(taken)))
    BY ZenonT(40) DEF Periods
  <1>10. Good(u)
    <2> HIDE DEF taken, offered, stepped, given, Good
    <2> QED
      BY <1>4, <1>6, <1>7, <1>8, <1>9
  <1> QED
    BY <1>10

-----------------------------------------------------------------------------
(* The answers through the stages of an edge                                 *)

Like(a, b) == a.op = b.op /\ a.write = b.write /\ a.resp = b.resp /\ a.got = b.got

\* The answers B are those of A, what concerns memory, with registers' among them.
Passed(A, B) ==
    /\ \A a \in A : \E b \in B : b.op = a.op
    /\ \A b \in B : FromMemory(b.op) => \E a \in A : Like(a, b)

LEMMA PassedSound ==
    ASSUME NEW A, NEW B, Passed(A, B), NEW m, DataSound(A, m)
    PROVE  DataSound(B, m)
  <1>1. OpsOf(A) \subseteq OpsOf(B)
    BY DEF Passed, OpsOf
  <1>2. WroteOnce(m.wrote, OpsOf(B) \cup Ops(Inside(m)))
    BY <1>1 DEF DataSound, WroteOnce
  <1>3. ASSUME NEW b \in B
        PROVE  AnswerSound(m.wrote, b)
    <2>1. CASE FromMemory(b.op)
      <3>1. PICK a \in A : Like(a, b)
        BY <2>1 DEF Passed
      <3>2. AnswerSound(m.wrote, a)
        BY DEF DataSound
      <3> QED
        BY <3>1, <3>2 DEF Like, AnswerSound
    <2>2. CASE ~FromMemory(b.op)
      BY <2>2 DEF AnswerSound
    <2> QED
      BY <2>1, <2>2
  <1> QED
    BY <1>2, <1>3 DEF DataSound

LEMMA PassedOn ==
    ASSUME NEW A, NEW B, NEW C, Passed(A, B), Passed(B, C)
    PROVE  Passed(A, C)
  <1>1. ASSUME NEW c \in C, FromMemory(c.op)
        PROVE  \E a \in A : Like(a, c)
    <2>1. PICK b \in B : Like(b, c)
      BY <1>1 DEF Passed
    <2>2. FromMemory(b.op)
      BY <1>1, <2>1 DEF Like
    <2>3. PICK a \in A : Like(a, b)
      BY <2>2 DEF Passed
    <2> QED
      BY <2>1, <2>3 DEF Like
  <1>2. ASSUME NEW a \in A
        PROVE  \E c \in C : c.op = a.op
    <2>1. PICK b \in B : b.op = a.op
      BY DEF Passed
    <2> QED
      BY <2>1 DEF Passed
  <1> QED
    BY <1>1, <1>2 DEF Passed

LEMMA PassedBeside ==
    ASSUME NEW A, NEW B, NEW X, Passed(A, B)
    PROVE  Passed(A \cup X, B \cup X)
  BY DEF Passed, Like

LEMMA PassedSame == \A A : Passed(A, A)
  BY DEF Passed, Like

\* A register access's answer is nothing to the memory.
LEMMA RegisterAside ==
    ASSUME NEW r \in RegisterBound, NEW x
    PROVE  ~FromMemory(HostAnswer(r, x, <<>>).op)
  <1>1. ~ops[r.op].dma /\ r.mmio /\ r = Request(ops[r.op].shape, r.op)
    BY DEF RegisterBound, HostRequests
  <1>2. ops[r.op].shape.mmio
    BY <1>1 DEF Request
  <1> QED
    BY <1>1, <1>2 DEF HostAnswer, FromMemory

\* One is appended to the answers completed.
LEMMA AsideIsPassed ==
    ASSUME NEW s \in Adapters, NEW t \in Adapters, NEW a \in HostReturns, ~FromMemory(a.op),
           t.completed = Append(s.completed, a), t.rsp = s.rsp, t.drsp = s.drsp,
           t.hrsp = s.hrsp
    PROVE  Passed(Back(s), Back(t))
  <1>0. s.completed \in Seq(HostReturns)
    BY DEF Adapters
  <1>1. Range(t.completed) = Range(s.completed) \cup {a}
    BY <1>0, RangeAppend
  <1>2. Back(t) = Back(s) \cup {a}
    BY <1>1 DEF Back
  <1> QED
    BY <1>2 DEF Passed, Like

SameAnswers(s, t) ==
    t.rsp = s.rsp /\ t.completed = s.completed /\ t.drsp = s.drsp /\ t.hrsp = s.hrsp

LEMMA SlaveData ==
    ASSUME NEW s \in Adapters, NEW moves, SlaveHandshakes(s, moves) \in Adapters
    PROVE  Passed(Back(s), Back(SlaveHandshakes(s, moves)))
  <1> DEFINE t == SlaveHandshakes(s, moves)
  <1>1. CASE s.mmio = <<>>
    BY <1>1, PassedSame DEF SlaveHandshakes
  <1>2. CASE s.mmio # <<>>
    <2> DEFINE m == s.mmio[1]
               beats == Len(m.req.lines)
               answers0 == /\ "answer" \in moves /\ m.addr /\ HasRoom(s) /\ ~m.complete
                           /\ m.req.write => m.sent = beats
               got == IF answers0 THEN m.got + 1 ELSE m.got
               addr == m.addr \/ "address" \in moves
               sent == IF m.req.write /\ m.sent < beats /\ "beat" \in moves
                       THEN m.sent + 1 ELSE m.sent
               complete == m.complete \/ (answers0 /\ (m.req.write \/ got = beats))
               after == [m EXCEPT !.addr = addr, !.sent = sent, !.got = got,
                                  !.complete = complete]
               answer == HostAnswer(m.req, 0, <<>>)
    <2>1. m \in Registers
      <3>1. s.mmio \in Seq(Registers) /\ s.mmio # <<>>
        BY <1>2 DEF Adapters
      <3> QED
        BY <3>1
    <2>2. m.req \in RegisterBound /\ ~m.req.lock
      BY <2>1 DEF Registers
    <2>3. answer \in HostReturns /\ ~FromMemory(answer.op)
      BY <2>2, RegisterAnswer, RegisterAside
    <2>4. \/ t = [s EXCEPT !.mmio = <<>>, !.completed = Append(@, answer)]
          \/ t = [s EXCEPT !.mmio = <<after>>]
      BY <1>2, Zenon DEF SlaveHandshakes
    <2> HIDE DEF m, after, answer, t
    <2>5. /\ t.rsp = s.rsp /\ t.drsp = s.drsp /\ t.hrsp = s.hrsp
          /\ t.completed \in {s.completed, Append(s.completed, answer)}
      BY <2>4 DEF Adapters
    <2>6. CASE t.completed = s.completed
      <3>1. Back(t) = Back(s)
        BY <2>5, <2>6 DEF Back
      <3> QED
        BY <3>1, PassedSame DEF t
    <2>7. CASE t.completed = Append(s.completed, answer)
      BY <2>3, <2>5, <2>7, AsideIsPassed DEF t
    <2> QED
      BY <2>5, <2>6, <2>7
  <1> QED
    BY <1>1, <1>2

LEMMA BegunData ==
    ASSUME NEW s \in Adapters, Begun(s) \in Adapters
    PROVE  Passed(Back(s), Back(Begun(s)))
  <1> DEFINE t == Begun(s)
             r == Head(s.mmio_wait)
             begun == [req |-> r, addr |-> FALSE, sent |-> 0, got |-> 0, complete |-> FALSE]
             answer == HostAnswer(r, 2, <<>>)
  <1>1. CASE s.mmio # <<>> \/ s.mmio_wait = <<>> \/ (r.lock /\ ~HasRoom(s))
    BY <1>1, PassedSame DEF Begun
  <1>2. CASE ~(s.mmio # <<>> \/ s.mmio_wait = <<>> \/ (r.lock /\ ~HasRoom(s)))
    <2>1. r \in RegisterBound
      <3>1. s.mmio_wait \in Seq(RegisterBound) /\ s.mmio_wait # <<>>
        BY <1>2 DEF Adapters
      <3> QED
        BY <3>1
    <2>2. r.lock \in BOOLEAN
      BY <2>1 DEF RegisterBound, HostRequests
    <2>3. \/ r.lock /\ t = [s EXCEPT !.completed = Append(@, answer), !.mmio_wait = Tail(@)]
          \/ ~r.lock /\ t = [s EXCEPT !.mmio = <<begun>>, !.mmio_wait = Tail(@)]
      BY <1>2, <2>2 DEF Begun
    <2>4. (r.lock => answer \in HostReturns) /\ ~FromMemory(answer.op)
      BY <2>1, RegisterAnswer, RegisterAside
    <2> HIDE DEF r, begun, answer, t
    <2>5. /\ t.rsp = s.rsp /\ t.drsp = s.drsp /\ t.hrsp = s.hrsp
          /\ t.completed = IF r.lock THEN Append(s.completed, answer) ELSE s.completed
      BY <2>2, <2>3 DEF Adapters
    <2>6. CASE r.lock
      BY <2>4, <2>5, <2>6, AsideIsPassed DEF t
    <2>7. CASE ~r.lock
      <3>1. Back(t) = Back(s)
        BY <2>5, <2>7 DEF Back
      <3> QED
        BY <3>1, PassedSame DEF t
    <2> QED
      BY <2>2, <2>6, <2>7
  <1> QED
    BY <1>1, <1>2

\* Stages that have nothing to do with answers.
LEMMA QuietData ==
    ASSUME NEW s \in Adapters, NEW wants, NEW access
    PROVE  /\ SameAnswers(s, MasterRequests(s, wants, access))
           /\ SameAnswers(s, Read(s)) /\ SameAnswers(s, Sorted(s))
           /\ SameAnswers(s, MemoryIssue(s))
  <1>1. SameAnswers(s, MasterRequests(s, wants, access))
    BY DEF MasterRequests, SameAnswers, Adapters
  <1>2. SameAnswers(s, Read(s))
    BY DEF Read, SameAnswers, Adapters
  <1>3. SameAnswers(s, Sorted(s))
    BY DEF Sorted, SameAnswers, Adapters
  <1>4. SameAnswers(s, MemoryIssue(s))
    BY DEF MemoryIssue, SameAnswers, Adapters
  <1> QED
    BY <1>1, <1>2, <1>3, <1>4

\* The engine takes its answer.
LEMMA MasterAnswerData ==
    ASSUME NEW s \in Adapters
    PROVE  Back(MasterAnswer(s)) \cup Range(s.drsp) = Back(s)
  <1> DEFINE t == MasterAnswer(s)
  <1>1. CASE s.drsp = <<>>
    BY <1>1 DEF MasterAnswer, Back
  <1>2. CASE s.drsp # <<>>
    <2>1. t = [s EXCEPT !.drsp = <<>>, !.dactive = FALSE]
      BY <1>2 DEF MasterAnswer
    <2> HIDE DEF t
    <2>2. t.rsp = s.rsp /\ t.completed = s.completed /\ t.drsp = <<>> /\ t.hrsp = s.hrsp
      BY <2>1 DEF Adapters
    <2>3. Range(t.drsp) = {}
      BY <2>2 DEF Range
    <2>4. Back(t) \cup Range(s.drsp) = Back(s)
      BY <2>2, <2>3 DEF Back
    <2> QED
      BY <2>4 DEF t
  <1> QED
    BY <1>1, <1>2

LEMMA HostResponseData ==
    ASSUME NEW s \in Adapters
    PROVE  Back(HostResponse(s)) = Back(s)
  <1> DEFINE t == HostResponse(s)
  <1>1. CASE s.completed = <<>> \/ Len(s.hrsp) = Depth
    BY <1>1 DEF HostResponse
  <1>2. CASE ~(s.completed = <<>> \/ Len(s.hrsp) = Depth)
    <2> DEFINE a == Head(s.completed)
    <2>1. /\ s.completed \in Seq(HostReturns) /\ s.hrsp \in Seq(HostReturns)
          /\ s.completed # <<>> /\ a \in HostReturns
      BY <1>2 DEF Adapters
    <2>2. t = [s EXCEPT !.hrsp = Append(@, a), !.groups = @ \ {Group(a)},
                        !.completed = Tail(@)]
      BY <1>2 DEF HostResponse
    <2> HIDE DEF t
    <2>3. /\ t.rsp = s.rsp /\ t.drsp = s.drsp /\ t.completed = Tail(s.completed)
          /\ t.hrsp = Append(s.hrsp, a)
      BY <2>2 DEF Adapters
    <2>4. /\ Range(t.hrsp) = Range(s.hrsp) \cup {a}
          /\ Range(s.completed) = Range(t.completed) \cup {a}
      BY <2>1, <2>3, RangeAppend, RangeTail
    <2>5. Back(t) = Back(s)
      BY <2>3, <2>4 DEF Back
    <2> QED
      BY <2>5 DEF t
  <1> QED
    BY <1>1, <1>2

\* An answer of the memory gets its owner back; what it says stays.
LEMMA MemoryReturnData ==
    ASSUME NEW s \in Adapters, NEW inside, OpsType, Tagged(s, inside)
    PROVE  Passed(Back(s), Back(MemoryReturn(s)))
  <1> DEFINE u == MemoryReturn(s)
  <1>1. CASE ~HasRoom(s) \/ s.drsp # <<>> \/ s.rsp = <<>>
    BY <1>1, PassedSame DEF MemoryReturn
  <1>2. CASE ~(~HasRoom(s) \/ s.drsp # <<>> \/ s.rsp = <<>>)
    <2> DEFINE a == Head(s.rsp)
               t == s.tickets[a.id]
               owned == [op |-> a.op, write |-> a.write, rp |-> t.rp, id |-> t.id,
                         resp |-> a.resp, beats |-> a.beats, got |-> a.got]
               rest == Restrict(s.tickets, DOMAIN s.tickets \ {a.id})
    <2>1. /\ s.rsp \in Seq(MemAnswers) /\ s.completed \in Seq(HostReturns)
          /\ s.drsp \in Seq(DmaReturns) /\ s.tickets \in TicketTables
      BY DEF Adapters
    <2>2. s.rsp # <<>> /\ s.drsp = <<>>
      BY <1>2
    <2>3. a \in MemAnswers /\ TicketOf(a, s.tickets)
      BY <2>1, <2>2 DEF Tagged, Ticketed
    <2>4. /\ t.dma \in BOOLEAN
          /\ t.dma => owned \in DmaReturns
          /\ ~t.dma => owned \in HostReturns
      BY <2>1, <2>3, OwnerFound
    <2>5. Like(a, owned)
      BY DEF Like
    <2>6. \/ t.dma /\ u = [s EXCEPT !.rsp = Tail(@), !.tickets = rest, !.drsp = <<owned>>]
          \/ ~t.dma /\ u = [s EXCEPT !.rsp = Tail(@), !.tickets = rest,
                                    !.completed = Append(@, owned)]
      BY <1>2, <2>4 DEF MemoryReturn, Adapters
    <2> HIDE DEF owned, rest, t, u
    <2>7. /\ u.rsp = Tail(s.rsp) /\ u.hrsp = s.hrsp
          /\ t.dma => u.completed = s.completed /\ u.drsp = <<owned>>
          /\ ~t.dma => u.completed = Append(s.completed, owned) /\ u.drsp = s.drsp
      BY <2>6, <2>4 DEF Adapters
    <2> HIDE DEF a
    <2>8. Range(s.rsp) = Range(u.rsp) \cup {a}
      BY <2>1, <2>2, <2>7, RangeTail DEF a
    <2>9. Range(u.completed) \cup Range(u.drsp) = Range(s.completed) \cup Range(s.drsp) \cup {owned}
      <3>1. CASE t.dma
        <4>1. Range(u.drsp) = {owned} /\ Range(s.drsp) = {}
          BY <2>2, <2>7, <3>1 DEF Range
        <4> QED
          BY <2>7, <3>1, <4>1
      <3>2. CASE ~t.dma
        <4>1. Range(u.completed) = Range(s.completed) \cup {owned}
          <5>1. u.completed = Append(s.completed, owned) /\ owned \in HostReturns
            BY <2>4, <2>7, <3>2
          <5> QED
            BY <2>1, <5>1, RangeAppend
        <4> QED
          BY <2>7, <3>2, <4>1
      <3> QED
        BY <2>4, <3>1, <3>2
    <2>10. /\ a \in Back(s) /\ owned \in Back(u)
           /\ \A x \in Back(s) : x = a \/ x \in Back(u)
           /\ \A x \in Back(u) : x = owned \/ x \in Back(s)
      BY <2>7, <2>8, <2>9 DEF Back
    <2>11. Passed(Back(s), Back(u))
      BY <2>5, <2>10 DEF Passed, Like
    <2> QED
      BY <2>11 DEF u
  <1> QED
    BY <1>1, <1>2

\* A whole edge: the engine's answer leaves, all others are on their way.
LEMMA EdgeData ==
    ASSUME OpsType, NEW s, NEW inside, NEW access \in Accesses \cup {NoAccess}, NEW wants,
           NEW moves, NEW shows \in SUBSET wants, NEW t \in Edges(s, moves, shows, access),
           Flow(s, inside, access, wants)
    PROVE  Passed(Back(s), Back(t) \cup Range(s.drsp))
  <1> DEFINE a == SlaveHandshakes(s, moves)
             b == MasterRequests(a, shows, access)
             c == MasterAnswer(b)
             left == IF s.dactive THEN wants ELSE wants \ shows
  <1>1. t = MemoryIssue(QueueHost(MemoryReturn(HostResponse(c))))
    BY DEF Edges
  <1>2. /\ Flow(a, inside, access, wants) /\ a.dactive = s.dactive /\ a.drsp = s.drsp
        /\ Passed(Back(s), Back(a))
    <2>1. Flow(a, inside, access, wants) /\ a.dactive = s.dactive /\ a.drsp = s.drsp
      BY SlaveFlow DEF KeepsDma
    <2>2. a \in Adapters /\ s \in Adapters
      BY <2>1 DEF Flow
    <2> QED
      BY <2>1, <2>2, SlaveData
  <1> HIDE DEF a
  <1>3. /\ Flow(b, inside, access, left) /\ b.drsp = s.drsp
        /\ Back(b) = Back(a)
    <2>1. left = IF a.dactive THEN wants ELSE wants \ shows
      BY <1>2
    <2> HIDE DEF left
    <2>2. Flow(b, inside, access, left)
      BY <1>2, <2>1, MasterRequestsFlow
    <2>3. SameAnswers(a, b)
      BY <1>2, QuietData DEF Flow
    <2> QED
      BY <1>2, <2>2, <2>3 DEF SameAnswers, Back
  <1> HIDE DEF b, left
  <1>4. \E owner : Flow(c, inside, owner, left)
    BY <1>3, MasterAnswerFlow
  <1>5. Back(c) \cup Range(s.drsp) = Back(a)
    BY <1>3, MasterAnswerData DEF Flow
  <1> HIDE DEF c
  <1>6. Passed(Back(c), Back(t))
    <2> DEFINE d == HostResponse(c)
               e == MemoryReturn(d)
               f == Read(e)
               g == Sorted(f)
               h == Begun(g)
    <2>0. PICK owner : Flow(c, inside, owner, left)
      BY <1>4
    <2>1. Flow(d, inside, owner, left) /\ Back(d) = Back(c)
      BY <2>0, HostResponseFlow, HostResponseData DEF Flow
    <2> HIDE DEF d
    <2>2. Flow(e, inside, owner, left) /\ Passed(Back(d), Back(e))
      <3>1. Flow(e, inside, owner, left)
        BY <2>1, MemoryReturnFlow
      <3> QED
        BY <2>1, <3>1, MemoryReturnData DEF Flow
    <2> HIDE DEF e
    <2>3. Flow(f, inside, owner, left) /\ Back(f) = Back(e)
      <3>1. Flow(f, inside, owner, left)
        BY <2>2, ReadFlow
      <3> QED
        BY <2>2, <3>1, QuietData DEF Flow, SameAnswers, Back
    <2> HIDE DEF f
    <2>4. Flow(g, inside, owner, left) /\ Back(g) = Back(f)
      <3>1. Flow(g, inside, owner, left)
        BY <2>3, SortedFlow
      <3> QED
        BY <2>3, <3>1, QuietData DEF Flow, SameAnswers, Back
    <2> HIDE DEF g
    <2>5. Flow(h, inside, owner, left) /\ Passed(Back(g), Back(h))
      <3>1. Flow(h, inside, owner, left)
        BY <2>4, BegunFlow
      <3> QED
        BY <2>4, <3>1, BegunData DEF Flow
    <2>6. QueueHost(e) = h
      <3>1. {Begun(y) : y \in {Sorted(x) : x \in {Read(e)}}} = {h}
        BY DEF f, g
      <3> QED
        BY <3>1 DEF QueueHost
    <2> HIDE DEF h
    <2>7. Back(MemoryIssue(h)) = Back(h)
      BY <2>5, QuietData DEF Flow, SameAnswers, Back
    <2>8. t = MemoryIssue(h)
      BY <1>1, <2>6 DEF d, e
    <2> QED
      BY <2>1, <2>2, <2>3, <2>4, <2>5, <2>7, <2>8, PassedOn
  <1>7. Passed(Back(a), Back(t) \cup Range(s.drsp))
    <2>1. Passed(Back(c) \cup Range(s.drsp), Back(t) \cup Range(s.drsp))
      BY <1>6, PassedBeside
    <2> QED
      BY <1>5, <2>1
  <1> QED
    BY <1>2, <1>7, PassedOn

-----------------------------------------------------------------------------
(* The steps keep the data                                                   *)

\* An access is issued: no write of it is anywhere, and the others are as they were.
LEMMA DataGrows ==
    ASSUME OpsGrow, Numbered, DOMAIN ops' \subseteq Nat \ {0}, mem' \in Memories,
           \A a \in Back(ad') \cup answers' : a.op \in DOMAIN ops,
           Straight', \A o \in DOMAIN ops' : ops'[o].before \subseteq Answered',
           DataSound(Back(ad') \cup answers', mem'), OpsType
    PROVE  DataInv'
  <1> DEFINE A == Back(ad') \cup answers'
             wr == mem'.wrote
             bs == mem'.bursts
             reached == OpsOf(A) \cup Ops(Inside(mem'))
  <1>1. /\ \A a \in A : AnswerSound(wr, a) /\ a.op \in DOMAIN ops
        /\ WroteOnce(wr, reached)
        /\ \A j \in DOMAIN bs : BurstSound(wr, bs[j]) /\ bs[j].req.op \in DOMAIN ops
        /\ OneByOne(mem') /\ AllWhole(mem')
    <2>1. \A j \in DOMAIN bs : bs[j].req.op \in DOMAIN ops
      <3>1. \A j \in DOMAIN bs : bs[j].req \in MemRequests
        BY InsideIs DEF Bursts
      <3> QED
        BY <3>1, RequestIs
    <2> QED
      BY <2>1 DEF DataSound
  <1>2. /\ A = (Back(ad) \cup answers)' /\ wr = mem.wrote' /\ bs = mem.bursts'
        /\ reached = (OpsOf(Back(ad) \cup answers) \cup Ops(Inside(mem)))'
    BY DEF Back, OpsOf, Ops, Inside
  <1>3. Histories(wr)
    BY <1>1, HistoriesAre
  <1> HIDE DEF A, wr, bs, reached
  <1>4. \A o \in DOMAIN ops :
            /\ o \in DOMAIN ops' /\ ops'[o] = ops[o]
            /\ Wants(o)' = Wants(o) /\ (FromMemory(o)' <=> FromMemory(o))
    BY DEF OpsGrow, Wants, FromMemory
  <1>5. \A l \in Lines : Range(wr[l]) \subseteq DOMAIN ops
    BY <1>1 DEF WroteOnce
  <1>6. ASSUME NEW w \in DOMAIN ops', w \notin DOMAIN ops, NEW l \in Lines,
               NEW g \in {0} \cup Range(wr[l])
        PROVE  ~Sees(wr, l, w, g)
    <2>1. History(wr[l]) /\ Len(wr[l]) \in Nat
      BY <1>3 DEF Histories
    <2>2. w \in Nat \ {0} /\ w \notin Range(wr[l])
      BY <1>5, <1>6
    <2>3. Turn(wr[l], w) = Len(wr[l]) + 1
      BY <2>1, <2>2, TurnIs
    <2>4. g \in Nat
      BY <1>5, <1>6 DEF Numbered
    <2>5. Turn(wr[l], g) \in 0 .. Len(wr[l])
      BY <2>1, <2>4, <1>6, TurnIs
    <2> QED
      BY <2>1, <2>3, <2>5 DEF Sees
  <1>7. ASSUME NEW o \in DOMAIN ops, NEW got, ReadSound(wr, o, got)
        PROVE  ReadSound(mem.wrote, o, got)'
    <2>1. ASSUME NEW k \in DOMAIN got
          PROVE  /\ k \in DOMAIN Wants(o)' /\ Wants(o)'[k] \in Lines
                 /\ got[k] \in {0} \cup Range(wr[Wants(o)'[k]])
                 /\ \A w \in ops'[o].before :
                       w \in Range(wr[Wants(o)'[k]]) => Sees(wr, Wants(o)'[k], w, got[k])
      BY <1>4, <1>7 DEF ReadSound
    <2>2. ASSUME NEW w \in DOMAIN ops', NEW j \in DOMAIN got, NEW k \in DOMAIN got,
                 ops'[w].shape.write, Wants(o)'[j] \in Range(Wants(w)'),
                 Wants(o)'[k] \in Range(Wants(w)')
          PROVE  Sees(wr, Wants(o)'[j], w, got[j]) <=> Sees(wr, Wants(o)'[k], w, got[k])
      <3>1. CASE w \in DOMAIN ops
        <4>1. Covers(w, Wants(o)[j]) /\ Covers(w, Wants(o)[k])
          BY <1>4, <2>2, <3>1 DEF Covers
        <4>2. Sees(wr, Wants(o)[j], w, got[j]) <=> Sees(wr, Wants(o)[k], w, got[k])
          BY <1>7, <3>1, <4>1 DEF ReadSound
        <4> QED
          BY <1>4, <4>2
      <3>2. CASE w \notin DOMAIN ops
        BY <1>6, <2>1, <3>2
      <3> QED
        BY <3>1, <3>2
    <2>3. \A l, w, g : Sees(mem.wrote, l, w, g)' <=> Sees(wr, l, w, g)
      BY <1>2 DEF Sees, Turn
    <2>4. \A w, l : Covers(w, l)' <=> ops'[w].shape.write /\ l \in Range(Wants(w)')
      BY DEF Covers
    <2> QED
      BY <1>2, <2>1, <2>2, <2>3, <2>4, Zenon DEF ReadSound
  <1>8. ASSUME NEW a \in A
        PROVE  AnswerSound(mem.wrote, a)'
    <2>1. AnswerSound(wr, a) /\ a.op \in DOMAIN ops
      BY <1>1
    <2>2. ASSUME FromMemory(a.op), a.write, a.resp = OKAY
          PROVE  \A l \in Range(Wants(a.op)') : l \in Lines /\ a.op \in Range(wr[l])
      BY <1>4, <2>1, <2>2 DEF AnswerSound
    <2>3. ASSUME FromMemory(a.op), ~a.write
          PROVE  ReadSound(mem.wrote, a.op, a.got)'
      BY <1>7, <2>1, <2>3 DEF AnswerSound
    <2>4. FromMemory(a.op)' <=> FromMemory(a.op)
      BY <1>4, <2>1
    <2> QED
      BY <1>2, <2>2, <2>3, <2>4 DEF AnswerSound
  <1>9. ASSUME NEW j \in DOMAIN bs
        PROVE  BurstSound(mem.wrote, mem.bursts[j])'
    <2>1. PICK b : b = bs[j]
      OBVIOUS
    <2>2. BurstSound(wr, b) /\ b.req.op \in DOMAIN ops
      BY <1>1, <2>1
    <2>3. b = mem.bursts[j]'
      BY <1>2, <2>1
    <2>4. ~b.req.write => ReadSound(mem.wrote, b.req.op, b.got)'
      BY <1>7, <2>2 DEF BurstSound
    <2>5. ~b.req.write => ReadSound(mem.wrote, mem.bursts[j].req.op, mem.bursts[j].got)'
      BY <2>3, <2>4
    <2>6. /\ AllSent(mem.bursts[j])' <=> AllSent(b)
          /\ Partial(mem.bursts[j])' <=> Partial(b)
      BY <2>3 DEF AllSent, Partial
    <2> QED
      BY <1>2, <2>2, <2>3, <2>5, <2>6 DEF BurstSound, Newest
  <1>10. OneByOne(mem)'
    BY <1>1 DEF OneByOne, Partial, AllSent
  <1>11. AllWhole(mem)'
    <2>1. ASSUME NEW o \in DOMAIN ops', ops'[o].shape.write,
                 \A i \in DOMAIN bs : bs[i].req.op = o => ~Partial(bs[i])
          PROVE  \A l, k \in Range(Wants(o)') \cap Lines : o \in Range(wr[l]) <=> o \in Range(wr[k])
      <3>1. CASE o \in DOMAIN ops
        <4>1. ops[o].shape.write /\ Wants(o)' = Wants(o)
          BY <1>4, <2>1, <3>1
        <4>2. Whole(wr, o)
          BY <1>1, <2>1, <3>1, <4>1 DEF AllWhole, wr, bs
        <4> QED
          BY <4>1, <4>2 DEF Whole
      <3>2. CASE o \notin DOMAIN ops
        BY <1>5, <3>2
      <3> QED
        BY <3>1, <3>2
    <2>2. \A i \in DOMAIN bs : Partial(mem.bursts[i])' <=> Partial(bs[i])
      BY <1>2 DEF Partial, AllSent
    <2> QED
      BY <1>2, <2>1, <2>2 DEF AllWhole, Whole
  <1>12. WroteOnce(mem.wrote, OpsOf(Back(ad) \cup answers) \cup Ops(Inside(mem)))'
    BY <1>1, <1>2, <1>4 DEF WroteOnce
  <1>13. DataSound(Back(ad) \cup answers, mem)'
    BY <1>2, <1>8, <1>9, <1>10, <1>11, <1>12 DEF DataSound
  <1> QED
    BY <1>13 DEF DataInv

LEMMA NumberedIs == PathInv /\ DataInv => Numbered
  <1> SUFFICES ASSUME PathInv, DataInv PROVE Numbered
    OBVIOUS
  <1>1. Answered \in SUBSET DOMAIN ops /\ DOMAIN ops \subseteq Nat \ {0}
    BY AnsweredIssued
  <1> QED
    BY <1>1 DEF DataInv, Numbered

\* Of every answer, on its way or given, the access was issued.
LEMMA GivenIssued ==
    ASSUME PathInv
    PROVE  \A a \in Back(ad) \cup answers : a.op \in DOMAIN ops
  BY BackIssued DEF PathInv, PathType, Returns

\* A step that issues nothing.
LEMMA DataStays ==
    ASSUME PathInv, DataInv, ops' = ops, Answered \subseteq Answered', mem' \in Memories,
           \A a \in Back(ad') \cup answers' : a.op \in DOMAIN ops,
           DataSound(Back(ad') \cup answers', mem')
    PROVE  DataInv'
  <1>1. OpsGrow /\ OpsType
    BY DEF OpsGrow, PathInv, PathType
  <1>2. Numbered /\ DOMAIN ops' \subseteq Nat \ {0}
    BY NumberedIs DEF Numbered
  <1>3. Straight'
    BY DEF DataInv, Straight, Wants, FromMemory
  <1>4. \A o \in DOMAIN ops' : ops'[o].before \subseteq Answered'
    BY DEF DataInv
  <1> QED
    BY <1>1, <1>2, <1>3, <1>4, DataGrows

\* An access is issued.
LEMMA IssueData ==
    ASSUME PathInv, DataInv, NEW shape, NEW dma \in BOOLEAN, Issue(shape, dma),
           shape \in IF dma THEN DmaShapes ELSE HostShapes,
           dma \/ ~shape.mmio => IsInjective(shape.lines),
           UNCHANGED <<mem, answers>>, Back(ad') = Back(ad)
    PROVE  DataInv'
  <1> DEFINE n == Len(ops) + 1
             x == [shape |-> shape, dma |-> dma, before |-> Answered]
  <1>1. ops \in Seq(Issues) /\ ops' = Append(ops, x) /\ OpsType /\ mem \in Memories
    BY DEF PathInv, PathType, OpsType, Issue
  <1>2. /\ OpsGrow /\ n \in Nat \ {0}
    BY IssueGrows DEF PathInv
  <1>3. /\ DOMAIN ops' = 1 .. n /\ DOMAIN ops = 1 .. Len(ops) /\ Len(ops) \in Nat
        /\ ops'[n] = x
    BY <1>1
  <1>4. x.shape = shape /\ x.dma = dma /\ x.before = Answered
    OBVIOUS
  <1> HIDE DEF x
  <1>5. \A o \in DOMAIN ops' : o = n \/ (o \in DOMAIN ops /\ ops'[o] = ops[o])
    BY <1>2, <1>3 DEF OpsGrow
  <1>6. Straight'
    <2>1. ASSUME NEW o \in DOMAIN ops', ops'[o].dma \/ ~ops'[o].shape.mmio
          PROVE  IsInjective(ops'[o].shape.lines)
      <3>1. CASE o = n
        BY <1>3, <1>4, <2>1, <3>1
      <3>2. CASE o \in DOMAIN ops /\ ops'[o] = ops[o]
        BY <2>1, <3>2 DEF DataInv, Straight, Wants, FromMemory
      <3> QED
        BY <1>5, <3>1, <3>2
    <2> QED
      BY <2>1 DEF Straight, Wants, FromMemory
  <1>7. Answered' = Answered
    BY DEF Answered
  <1>8. \A o \in DOMAIN ops' : ops'[o].before \subseteq Answered'
    BY <1>3, <1>4, <1>5, <1>7 DEF DataInv
  <1>9. /\ mem' \in Memories /\ Back(ad') \cup answers' = Back(ad) \cup answers
        /\ DataSound(Back(ad') \cup answers', mem')
    BY <1>1 DEF DataInv
  <1>10. \A a \in Back(ad') \cup answers' : a.op \in DOMAIN ops
    BY <1>9, GivenIssued
  <1>11. Numbered /\ DOMAIN ops' \subseteq Nat \ {0}
    BY <1>2, <1>3, NumberedIs
  <1> QED
    BY <1>1, <1>2, <1>6, <1>8, <1>9, <1>10, <1>11, DataGrows

LEMMA HostIssuesData == PathInv /\ DataInv /\ HostIssues => DataInv'
  <1> SUFFICES ASSUME PathInv, DataInv, HostIssues PROVE DataInv'
    OBVIOUS
  <1> DEFINE n == Cardinality(HostOps) + 1
             shape == program[n]
             r == Request(shape, Len(ops) + 1)
  <1>1. /\ ad \in Adapters /\ ad' = [ad EXCEPT !.hreq = Append(@, r)] /\ Issue(shape, FALSE)
        /\ n <= Len(program) /\ UNCHANGED <<program, rtl, mem, answers>>
    BY DEF PathInv, PathType, HostIssues
  <1>2. shape \in HostShapes
    BY HostShape
  <1>3. ~shape.mmio => IsInjective(shape.lines)
    <2>1. program \in Programs /\ program \in Seq(HostShapes)
      BY PathAssumption DEF PathInv, PathType, HostShapes
    <2>2. n \in Nat \ {0}
      <3>1. ops \in Seq(Issues)
        BY DEF PathInv, PathType, OpsType
      <3>2. HostOps \subseteq 1 .. Len(ops) /\ IsFiniteSet(1 .. Len(ops))
        BY <3>1, FS_Interval DEF HostOps
      <3>3. Cardinality(HostOps) \in Nat
        BY <3>2, FS_Subset, FS_CardinalityType
      <3> QED
        BY <3>3
    <2>3. n \in DOMAIN program
      BY <1>1, <2>1, <2>2
    <2> QED
      BY <2>1, <2>3, PathAssumption
  <1> HIDE DEF shape, r, n
  <1>4. Back(ad') = Back(ad)
    <2>1. SameAnswers(ad, ad')
      BY <1>1 DEF Adapters, SameAnswers
    <2> QED
      BY <2>1 DEF SameAnswers, Back
  <1> QED
    BY <1>1, <1>2, <1>3, <1>4, IssueData

LEMMA EngineAsksData == PathInv /\ DataInv /\ EngineAsks => DataInv'
  <1> SUFFICES ASSUME PathInv, DataInv, EngineAsks PROVE DataInv'
    OBVIOUS
  <1>1. PICK o \in DmaOps : Issue(o, TRUE)
    BY DEF EngineAsks
  <1>2. UNCHANGED <<ad, mem, answers>>
    BY DEF EngineAsks
  <1>3. o \in DmaShapes /\ IsInjective(o.lines)
    BY PathAssumption DEF DmaShapes
  <1> QED
    BY <1>1, <1>2, <1>3, IssueData

LEMMA HostTakesData == PathInv /\ DataInv /\ HostTakes => DataInv'
  <1> SUFFICES ASSUME PathInv, DataInv, HostTakes PROVE DataInv'
    OBVIOUS
  <1> DEFINE a == Head(ad.hrsp)
  <1>1. /\ ad \in Adapters /\ ad.hrsp # <<>> /\ ad' = [ad EXCEPT !.hrsp = Tail(@)]
        /\ answers' = answers \cup {a} /\ UNCHANGED <<program, rtl, mem, ops>>
        /\ mem \in Memories
    BY DEF PathInv, PathType, HostTakes
  <1>2. /\ ad'.rsp = ad.rsp /\ ad'.completed = ad.completed /\ ad'.drsp = ad.drsp
        /\ ad'.hrsp = Tail(ad.hrsp) /\ ad.hrsp \in Seq(HostReturns)
    BY <1>1 DEF Adapters
  <1> HIDE DEF a
  <1>3. Range(ad.hrsp) = Range(ad'.hrsp) \cup {a}
    BY <1>1, <1>2, RangeTail DEF a
  <1>4. Back(ad') \cup answers' = Back(ad) \cup answers
    BY <1>1, <1>2, <1>3 DEF Back
  <1>5. Answered \subseteq Answered'
    BY <1>1 DEF Answered
  <1> QED
    BY <1>1, <1>4, <1>5, DataStays, GivenIssued DEF DataInv

LEMMA ClockData ==
    ASSUME PathInv, DataInv, NEW moves, NEW shows \in SUBSET rtl.wants, Clock(moves, shows)
    PROVE  DataInv'
  <1>1. /\ OpsType /\ ad \in Adapters /\ mem \in Memories
        /\ rtl.access \in Accesses \cup {NoAccess}
        /\ ad' \in Edges(ad, moves, shows, rtl.access)
        /\ UNCHANGED <<program, mem, ops>>
        /\ Flow(ad, Inside(mem), rtl.access, rtl.wants)
    BY DEF PathInv, PathType, Clock, Flow
  <1>2. Passed(Back(ad), Back(ad') \cup Range(ad.drsp))
    BY <1>1, EdgeData
  <1>3. answers' = answers \cup Range(ad.drsp)
    <2>1. CASE ad.drsp = <<>>
      <3>1. Range(ad.drsp) = {} /\ answers' = answers
        BY <2>1 DEF Range, Clock
      <3> QED
        BY <3>1
    <2>2. CASE ad.drsp # <<>>
      <3>1. Len(ad.drsp) = 1 /\ ad.drsp \in Seq(DmaReturns)
        BY <1>1, <2>2 DEF Flow, DmaTurn, Adapters
      <3>2. Range(ad.drsp) = {ad.drsp[1]}
        BY <3>1 DEF Range
      <3>3. answers' = answers \cup {ad.drsp[1]}
        BY <2>2 DEF Clock
      <3> QED
        BY <3>2, <3>3
    <2> QED
      BY <2>1, <2>2
  <1>4. Passed(Back(ad) \cup answers, Back(ad') \cup answers')
    <2>1. Passed(Back(ad) \cup answers, (Back(ad') \cup Range(ad.drsp)) \cup answers)
      BY <1>2, PassedBeside
    <2>2. (Back(ad') \cup Range(ad.drsp)) \cup answers = Back(ad') \cup answers'
      BY <1>3
    <2> QED
      BY <2>1, <2>2
  <1>5. DataSound(Back(ad') \cup answers', mem')
    <2>1. DataSound(Back(ad) \cup answers, mem)
      BY DEF DataInv
    <2>2. DataSound(Back(ad') \cup answers', mem)
      BY <1>4, <2>1, PassedSound
    <2> QED
      BY <1>1, <2>2
  <1>6. ad' \in Adapters
    BY <1>1, EdgeFlow DEF Flow
  <1>7. \A a \in Back(ad') \cup answers' : a.op \in DOMAIN ops
    <2>1. \A a \in Back(ad') : a.op \in DOMAIN ops
      BY <1>6, BackIssued
    <2>2. \A a \in answers' : a \in Back(ad) \cup answers
      BY <1>3 DEF Back
    <2> QED
      BY <2>1, <2>2, GivenIssued
  <1>8. Answered \subseteq Answered'
    BY <1>3 DEF Answered
  <1> QED
    BY <1>1, <1>5, <1>7, <1>8, DataStays

LEMMA MemoryPeriodData ==
    ASSUME PathInv, OrderInv, DataInv, NEW takes, NEW answered, NEW held,
           MemoryPeriod(takes, answered, held)
    PROVE  DataInv'
  <1> DEFINE v == [req |-> ad.req, rsp |-> ad.rsp, mem |-> mem]
  <1>1. PICK u \in Periods(v, Depth, takes, answered, held) :
            /\ ad' = [ad EXCEPT !.req = u.req, !.rsp = u.rsp]
            /\ mem' = u.mem
            /\ UNCHANGED <<program, rtl, ops, answers>>
    BY DEF MemoryPeriod
  <1>2. /\ ad \in Adapters /\ mem \in Memories /\ OpsType
        /\ Tagged(ad, Inside(mem)) /\ Order(ad, Inside(mem), rtl.access, Answered)
    BY DEF PathInv, PathType, OrderInv
  <1>3. Bridge(v, ad.tickets)
    BY <1>2 DEF Bridge, Adapters, Tagged
  <1>4. With(ad, v) = ad /\ v.mem = mem
    BY <1>2 DEF With, Adapters
  <1> HIDE DEF v
  <1>5. BridgeOrder(ad, v, rtl.access, OpsOf(answers))
    BY <1>2, <1>4 DEF BridgeOrder, Answered, OpsOf
  <1>6. /\ Straight /\ DataSound(Back(With(ad, v)) \cup answers, v.mem)
        /\ \A o \in DOMAIN ops : ops[o].before \subseteq OpsOf(answers)
        /\ \A a \in answers : a.op \in DOMAIN ops /\ Numbered
    BY <1>4, GivenIssued, NumberedIs DEF DataInv, OpsOf, Answered
  <1>7. DataSound(Back(With(ad, u)) \cup answers, u.mem)
    BY <1>2, <1>3, <1>5, <1>6, NumberedIs, PeriodSound
  <1>8. Bridge(u, ad.tickets)
    BY <1>2, <1>3, PeriodKeeps
  <1>9. u.mem \in Memories /\ With(ad, u) \in Adapters
    BY <1>2, <1>8, WithIs DEF Bridge
  <1>10. ad' = With(ad, u) /\ mem' = u.mem /\ answers' = answers /\ ops' = ops
    BY <1>1 DEF With
  <1>11. \A a \in Back(ad') \cup answers' : a.op \in DOMAIN ops
    BY <1>6, <1>9, <1>10, BackIssued
  <1>12. Answered \subseteq Answered'
    BY <1>10 DEF Answered
  <1> QED
    BY <1>7, <1>9, <1>10, <1>11, <1>12, DataStays

LEMMA DataStutter == PathInv /\ DataInv /\ UNCHANGED vars => DataInv'
  <1> SUFFICES ASSUME PathInv, DataInv, UNCHANGED vars PROVE DataInv'
    OBVIOUS
  <1>1. ad' = ad /\ mem' = mem /\ ops' = ops /\ answers' = answers
    BY DEF vars
  <1>2. Answered' = Answered /\ mem \in Memories
    BY <1>1 DEF Answered, PathInv, PathType
  <1> QED
    BY <1>1, <1>2, DataStays, GivenIssued DEF DataInv

LEMMA InitData == Init => DataInv
  <1> SUFFICES ASSUME Init PROVE DataInv
    OBVIOUS
  <1>1. /\ ad = Adapter0 /\ mem = Memory0 /\ ops = <<>> /\ answers = {} /\ DOMAIN ops = {}
    BY DEF Init
  <1>2. /\ ad.rsp = <<>> /\ ad.completed = <<>> /\ ad.drsp = <<>> /\ ad.hrsp = <<>>
        /\ mem.bursts = <<>> /\ DOMAIN mem.bursts = {}
        /\ \A l \in Lines : mem.wrote[l] = <<>>
    BY <1>1 DEF Adapter0, Memory0
  <1>3. Back(ad) \cup answers = {}
    BY <1>1, <1>2 DEF Back, Range
  <1>4. WroteOnce(mem.wrote, OpsOf({}) \cup Ops(Inside(mem)))
    <2>1. \A l \in Lines : DOMAIN mem.wrote[l] = {} /\ Range(mem.wrote[l]) = {}
      BY <1>2 DEF Range
    <2> QED
      BY <2>1 DEF WroteOnce
  <1>5. DataSound({}, mem)
    BY <1>1, <1>2, <1>4 DEF DataSound, OneByOne, AllWhole
  <1> QED
    BY <1>1, <1>3, <1>5 DEF DataInv, Straight

-----------------------------------------------------------------------------
(* What holds of the data of every behaviour                                 *)

\* What a read has got was written, is no older than what was answered when the read was
\* issued, and of two lines it has the same writes; a write that was answered has reached
\* every line; only the burst that is being submitted has reached some of its lines
\* (memsim_backend.cc:62, 83-129).
THEOREM DataInvariant == Spec => []DataInv
  <1>1. PathInv /\ OrderInv /\ DataInv /\ [Next]_vars => DataInv'
    <2> SUFFICES ASSUME PathInv, OrderInv, DataInv, [Next]_vars PROVE DataInv'
      OBVIOUS
    <2>1. CASE HostIssues
      BY <2>1, HostIssuesData
    <2>2. CASE HostTakes
      BY <2>2, HostTakesData
    <2>3. CASE EngineAsks
      BY <2>3, EngineAsksData
    <2>4. ASSUME NEW moves \in Moves, NEW shows \in SUBSET rtl.wants, Clock(moves, shows)
          PROVE  DataInv'
      BY <2>4, ClockData
    <2>5. ASSUME NEW takes \in BOOLEAN, NEW held \in BOOLEAN,
                 NEW answered \in SUBSET (Children(mem)), MemoryPeriod(takes, answered, held)
          PROVE  DataInv'
      BY <2>5, MemoryPeriodData
    <2>6. CASE Finished \/ UNCHANGED vars
      BY <2>6, DataStutter DEF Finished
    <2> QED
      BY <2>1, <2>2, <2>3, <2>4, <2>5, <2>6 DEF Next
  <1> QED
    BY <1>1, InitData, PathInvariant, OrderInvariant, PTL DEF Spec

\* A read sees every write that was answered when it was issued, and of a write to
\* several of its lines all or nothing (memsim_backend.cc:62, 83-129).
THEOREM AlwaysCoherent == Spec => []Coherent
  <1>1. PathInv /\ DataInv => Coherent
    <2> SUFFICES ASSUME PathInv, DataInv PROVE Coherent
      OBVIOUS
    <2>0. mem.wrote \in [Lines -> Seq(Nat)]
      BY DEF PathInv, PathType, Memories
    <2>1. \A l, o : When(l, o) = Turn(mem.wrote[l], o)
      BY DEF When, Turn
    <2>2. \A l, w, g : When(l, w) <= When(l, g) <=> Sees(mem.wrote, l, w, g)
      BY <2>1 DEF Sees
    <2>3. \A a : LinesOf(a) = Wants(a.op)
      BY DEF LinesOf, Wants
    <2>4. ASSUME NEW a \in MemoryAnswers(FALSE)
          PROVE  ReadSound(mem.wrote, a.op, a.got)
      BY DEF DataInv, DataSound, AnswerSound, MemoryAnswers, FromMemory
    <2>5. ASSUME NEW w \in MemoryAnswers(TRUE), NEW l \in Range(LinesOf(w))
          PROVE  w.op \in Range(mem.wrote[l])
      BY <2>3 DEF DataInv, DataSound, AnswerSound, MemoryAnswers, FromMemory
    <2>6. ASSUME NEW a \in MemoryAnswers(FALSE), NEW w \in MemoryAnswers(TRUE),
                 w.op \in ops[a.op].before, NEW k \in DOMAIN a.got,
                 LinesOf(a)[k] \in Range(LinesOf(w))
          PROVE  When(LinesOf(a)[k], w.op) <= When(LinesOf(a)[k], a.got[k])
      <3>1. w.op \in Range(mem.wrote[Wants(a.op)[k]])
        BY <2>3, <2>5, <2>6
      <3>2. Sees(mem.wrote, Wants(a.op)[k], w.op, a.got[k])
        BY <2>4, <2>6, <3>1 DEF ReadSound
      <3> QED
        BY <2>2, <2>3, <3>2
    <2>7. ReadsSeeAnswered
      BY <2>6 DEF ReadsSeeAnswered
    <2>8. ASSUME NEW a \in MemoryAnswers(FALSE), NEW w \in DOMAIN ops, ops[w].shape.write,
                 NEW j \in DOMAIN a.got, NEW k \in DOMAIN a.got,
                 LinesOf(a)[j] \in Range(ops[w].shape.lines),
                 LinesOf(a)[k] \in Range(ops[w].shape.lines)
          PROVE  When(LinesOf(a)[j], w) <= When(LinesOf(a)[j], a.got[j])
                 <=> When(LinesOf(a)[k], w) <= When(LinesOf(a)[k], a.got[k])
      <3>1. Covers(w, Wants(a.op)[j]) /\ Covers(w, Wants(a.op)[k])
        BY <2>3, <2>8 DEF Covers, Wants
      <3>2. Sees(mem.wrote, Wants(a.op)[j], w, a.got[j])
            <=> Sees(mem.wrote, Wants(a.op)[k], w, a.got[k])
        BY <2>4, <2>8, <3>1 DEF ReadSound
      <3> QED
        BY <2>2, <2>3, <3>2
    <2>9. WholeBursts
      <3> SUFFICES ASSUME NEW a \in MemoryAnswers(FALSE), NEW w \in DOMAIN ops,
                          NEW j \in DOMAIN a.got, NEW k \in DOMAIN a.got,
                          ops[w].shape.write,
                          LinesOf(a)[j] \in Range(ops[w].shape.lines),
                          LinesOf(a)[k] \in Range(ops[w].shape.lines)
                   PROVE  (When(LinesOf(a)[j], w) <= When(LinesOf(a)[j], a.got[j]))
                          = (When(LinesOf(a)[k], w) <= When(LinesOf(a)[k], a.got[k]))
        BY ZenonT(60) DEF WholeBursts
      <3>1. ASSUME NEW i \in DOMAIN a.got, NEW o \in Nat
            PROVE  When(LinesOf(a)[i], o) \in Nat
        <4>1. LinesOf(a)[i] \in Lines
          BY <2>3, <2>4 DEF ReadSound
        <4>2. mem.wrote[LinesOf(a)[i]] \in Seq(Nat)
          BY <2>0, <4>1
        <4>3. PICK h \in Seq(Nat) : h = mem.wrote[LinesOf(a)[i]]
          BY <4>2
        <4>4. CASE o \in Range(h)
          <5>1. \E x \in DOMAIN h : h[x] = o
            BY <4>4 DEF Range
          <5>2. (CHOOSE x \in DOMAIN h : h[x] = o) \in DOMAIN h
            BY <5>1
          <5>3. (CHOOSE x \in DOMAIN h : h[x] = o) \in Nat
            BY <5>2
          <5> QED
            BY <4>3, <4>4, <5>3 DEF When
        <4>5. CASE o \notin Range(h)
          <5>1. Len(h) + 1 \in Nat
            OBVIOUS
          <5> QED
            BY <4>3, <4>5, <5>1 DEF When
        <4> QED
          BY <4>4, <4>5
      <3>2. w \in Nat /\ a.got[j] \in Nat /\ a.got[k] \in Nat
        <4>1. ops \in Seq(Issues)
          BY DEF PathInv, PathType, OpsType
        <4>2. \A i \in DOMAIN a.got : /\ LinesOf(a)[i] \in Lines
                                      /\ a.got[i] \in {0} \cup Range(mem.wrote[LinesOf(a)[i]])
          BY <2>3, <2>4 DEF ReadSound
        <4>3. \A l \in Lines : Range(mem.wrote[l]) \subseteq Nat
          BY <2>0 DEF Range
        <4> QED
          BY <4>1, <4>2, <4>3
      <3>3. (When(LinesOf(a)[j], w) <= When(LinesOf(a)[j], a.got[j]))
            <=> (When(LinesOf(a)[k], w) <= When(LinesOf(a)[k], a.got[k]))
        BY <2>8
      <3>4. /\ When(LinesOf(a)[j], w) \in Nat /\ When(LinesOf(a)[j], a.got[j]) \in Nat
            /\ When(LinesOf(a)[k], w) \in Nat /\ When(LinesOf(a)[k], a.got[k]) \in Nat
        BY <3>1, <3>2
      <3> QED
        BY <3>3, <3>4
    <2> QED
      BY <2>7, <2>9 DEF Coherent
  <1> QED
    BY <1>1, PathInvariant, DataInvariant, PTL
=============================================================================
