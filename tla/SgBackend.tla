----------------------------- MODULE SgBackend -----------------------------
(***************************************************************************)
(* SparseGateBackend (gem5_axi/sparse_gate_backend.cc): stands between the AoU   *)
(* target and the memory, sends register accesses to the SparseGate engine and    *)
(* everything else to the memory, which the engine's DMA shares.               *)
(*                                                                         *)
(* The adapter's state and its FIFOs are one record s, and each stage of a       *)
(* clock edge maps it to the next:                                            *)
(*   pending, bypass, mmio_wait: requests of the host, before and after they       *)
(*       are sorted;  groups: those of the admitted ones, active_host_groups;      *)
(*   mmio: the register access in progress, at most one;  completed: answers;     *)
(*   tickets: requests in the memory by tag;  next: next_tag;                    *)
(*   aw, w: the engine's address or data waiting for the other;  dreq, drsp:       *)
(*       its request and answer;  dactive;  prefer: prefer_dma;                   *)
(*   hreq, hrsp, req, rsp: the FIFOs to the host and to the memory.              *)
(* A request is a record with op, write, rp, id, mmio, lock and lines; the lines  *)
(* of a register access only count its beats.                                  *)
(***************************************************************************)
EXTENDS Naturals, Sequences, SequencesExt, FiniteSets, Functions

CONSTANTS
    QueueLimit, \* length of the adapter's queues
    TagLimit,   \* tags in use at a time
    Tags,       \* tags are 1 .. Tags
    Depth       \* of the four FIFOs

ASSUME AdapterAssumption ==
    /\ {QueueLimit, TagLimit, Tags, Depth} \subseteq Nat \ {0}
    /\ TagLimit <= Tags

NoTickets == [t \in {} |-> 0]

Adapter0 ==
    [pending |-> <<>>, bypass |-> <<>>, mmio_wait |-> <<>>, groups |-> {},
     mmio |-> <<>>, completed |-> <<>>, tickets |-> NoTickets, next |-> 1,
     aw |-> FALSE, w |-> FALSE, dreq |-> <<>>, drsp |-> <<>>, dactive |-> FALSE,
     prefer |-> TRUE, hreq |-> <<>>, hrsp |-> <<>>, req |-> <<>>, rsp |-> <<>>]

Group(r) == <<r.write, r.rp, r.id>>

HostAnswer(req, resp, got) ==
    [op |-> req.op, write |-> req.write, rp |-> req.rp, id |-> req.id, resp |-> resp,
     beats |-> Len(req.lines), got |-> got]

HasRoom(s) == Len(s.completed) < QueueLimit

-----------------------------------------------------------------------------
\* slave_handshakes.  moves: what the register slave takes or gives at this edge.
\* It answers a write when it has the address and every beat, a read when it has
\* the address; the adapter is ready for an answer while completed has room.
SlaveHandshakes(s, moves) ==
    IF s.mmio = <<>> THEN s
    ELSE LET m == s.mmio[1]
             beats == Len(m.req.lines)
             answers == /\ "answer" \in moves /\ m.addr /\ HasRoom(s) /\ ~m.complete
                        /\ m.req.write => m.sent = beats
             got == IF answers THEN m.got + 1 ELSE m.got
             after == [m EXCEPT
                         !.addr = @ \/ "address" \in moves,
                         !.sent = IF m.req.write /\ @ < beats /\ "beat" \in moves
                                  THEN @ + 1 ELSE @,
                         !.got = got,
                         !.complete = @ \/ (answers /\ (m.req.write \/ got = beats))]
         IN  IF after.complete /\ HasRoom(s)
             THEN [s EXCEPT !.mmio = <<>>,
                            !.completed = Append(@, HostAnswer(m.req, 0, <<>>))]
             ELSE [s EXCEPT !.mmio = <<after>>]

\* master_handshakes, the engine's requests; wants: what it offers, among AW, W
\* and AR; op: the DMA access it is for.
MasterRequests(s, wants, access) ==
    LET aw == s.aw \/ ("AW" \in wants /\ ~s.dactive)
        w == s.w \/ ("W" \in wants /\ ~s.dactive)
        ar == "AR" \in wants /\ ~s.dactive /\ ~s.aw /\ ~s.w
    IN  CASE ar \/ (aw /\ w) ->
                [s EXCEPT !.aw = FALSE, !.w = FALSE, !.dreq = <<access>>, !.dactive = TRUE]
          [] OTHER -> [s EXCEPT !.aw = aw, !.w = w]

\* and the answers, which it takes at once.
MasterAnswer(s) ==
    IF s.drsp = <<>> THEN s ELSE [s EXCEPT !.drsp = <<>>, !.dactive = FALSE]

\* A slip: the group stays active.
HostResponseKeepsGroup(s) ==
    IF s.completed = <<>> \/ Len(s.hrsp) = Depth THEN s
    ELSE [s EXCEPT !.hrsp = Append(@, Head(s.completed)), !.completed = Tail(@)]

HostResponse(s) ==
    IF s.completed = <<>> \/ Len(s.hrsp) = Depth THEN s
    ELSE LET a == Head(s.completed) IN
         [s EXCEPT !.hrsp = Append(@, a), !.groups = @ \ {Group(a)}, !.completed = Tail(@)]

\* memory_return: the tag gives the answer its owner and identity back.
MemoryReturn(s) ==
    IF ~HasRoom(s) \/ s.drsp # <<>> \/ s.rsp = <<>> THEN s
    ELSE LET a == Head(s.rsp)
             t == s.tickets[a.id]
             owned == [op |-> a.op, write |-> a.write, rp |-> t.rp, id |-> t.id,
                       resp |-> a.resp, beats |-> a.beats, got |-> a.got]
             left == [s EXCEPT !.rsp = Tail(@),
                               !.tickets = Restrict(@, DOMAIN @ \ {a.id})]
         IN  IF t.dma THEN [left EXCEPT !.drsp = <<owned>>]
                      ELSE [left EXCEPT !.completed = Append(@, owned)]

-----------------------------------------------------------------------------
\* queue_host, in three steps: a request is read, the first one sorted, and a
\* register access begun.
Read(s) ==
    IF Len(s.pending) = QueueLimit \/ s.hreq = <<>> THEN s
    ELSE [s EXCEPT !.pending = Append(@, Head(s.hreq)), !.hreq = Tail(@)]

\* A slip: requests of one group are admitted together.
AdmissibleTogether(s, r) ==
    Len(IF r.mmio THEN s.mmio_wait ELSE s.bypass) < QueueLimit

\* The first one waits, and all behind it, until its group is free.
Admissible(s, r) ==
    /\ Len(IF r.mmio THEN s.mmio_wait ELSE s.bypass) < QueueLimit
    /\ Group(r) \notin s.groups

Sorted(s) ==
    IF s.pending = <<>> \/ ~Admissible(s, Head(s.pending)) THEN s
    ELSE LET r == Head(s.pending)
             admitted == [s EXCEPT !.groups = @ \union {Group(r)}, !.pending = Tail(@)]
         IN  IF r.mmio THEN [admitted EXCEPT !.mmio_wait = Append(@, r)]
                       ELSE [admitted EXCEPT !.bypass = Append(@, r)]

\* A locked access is refused without reaching the engine.
Begun(s) ==
    IF s.mmio # <<>> \/ s.mmio_wait = <<>> THEN s
    ELSE LET r == Head(s.mmio_wait)
             begun == [req |-> r, addr |-> FALSE, sent |-> 0, got |-> 0, complete |-> FALSE]
         IN  CASE r.lock /\ ~HasRoom(s) -> s
               [] r.lock /\ HasRoom(s) ->
                    [s EXCEPT !.completed = Append(@, HostAnswer(r, 2, <<>>)),
                              !.mmio_wait = Tail(@)]
               [] OTHER -> [s EXCEPT !.mmio = <<begun>>, !.mmio_wait = Tail(@)]

QueueHost(s) == CHOOSE t \in {Begun(b) : b \in {Sorted(a) : a \in {Read(s)}}} : TRUE

\* A slip: the next number is taken without looking.
FreeTagNext(s) == s.next

\* tag: the next number round the circle that no ticket has.
FreeTag(s) ==
    LET distance(t) == (t + Tags - s.next) % Tags
        free == (1 .. Tags) \ DOMAIN s.tickets
    IN  CHOOSE t \in free : \A u \in free : distance(t) <= distance(u)

\* memory_issue: the engine and the host take turns when both want the memory.
\* A tag is spent even if the memory's FIFO is full.
MemoryIssue(s) ==
    LET dma == s.dreq # <<>> /\ (s.prefer \/ s.bypass = <<>>)
        r == IF dma THEN s.dreq[1] ELSE Head(s.bypass)
        tag == FreeTag(s)
        tagged == [s EXCEPT !.next = (tag % Tags) + 1]
        issued == [tagged EXCEPT
                     !.req = Append(@, [op |-> r.op, id |-> tag, write |-> r.write,
                                        lines |-> r.lines, lock |-> r.lock]),
                     !.tickets = [t \in DOMAIN @ \union {tag} |->
                         IF t = tag THEN [dma |-> dma, write |-> r.write,
                                          rp |-> r.rp, id |-> r.id]
                                    ELSE @[t]],
                     !.prefer = ~dma]
    IN  IF Cardinality(DOMAIN s.tickets) >= TagLimit \/ (~dma /\ s.bypass = <<>>) THEN s
        ELSE IF Len(s.req) = Depth THEN tagged
        ELSE IF dma THEN [issued EXCEPT !.dreq = <<>>]
        ELSE [issued EXCEPT !.bypass = Tail(@)]

\* edge, at a rising edge: the state the stages lead to, as a set of one.
Edges(s, moves, wants, access) ==
    {MemoryIssue(e) : e \in
    {QueueHost(d) : d \in
    {MemoryReturn(c) : c \in
    {HostResponse(b) : b \in
    {MasterAnswer(MasterRequests(a, wants, access)) : a \in
    {SlaveHandshakes(s, moves)}}}}}}
=============================================================================
