------------------------------- MODULE AxiBus -------------------------------
(***************************************************************************)
(* The AXI master of the gem5 system (gem5_axi/axi_master.cc) and what it may   *)
(* be connected to: the test memory (axi_ram.cc) or the fabric in front of the   *)
(* bridge (aou_backend.cc).  All take their steps at the same clock edge, from   *)
(* the wires before it.                                                       *)
(*                                                                         *)
(* A packet is a record with the fields n, cmd, addr, len and on, the offsets    *)
(* its byte mask enables.  Written data is the number of its packet, so that     *)
(* the contents of a byte are the packets that wrote it, in order.  A wire is a   *)
(* sequence of no or one payload.  When a ready wire is high, how long the test   *)
(* memory takes and whether a valid wire waits for the master's stalls            *)
(* (awAfter, wAfter) is left open.                                            *)
(***************************************************************************)
EXTENDS Naturals, Sequences, SequencesExt, FiniteSets, FiniteSetsExt, TLC

CONSTANTS
    DataBytes,   \* width of the bus, a power of two
    PageBytes,   \* a burst stays in a page (4096)
    MaxBeats,    \* beats of a burst (256)
    MaxLength,   \* bytes of a packet (65536)
    MemBytes,    \* bytes behind the bus
    Slots,       \* packets in work at a time (outstanding)
    MaxId,       \* 65535, or 1023 with the fabric
    AddressRoom, \* addresses the test memory takes (16)
    BeatRoom,    \* beats it takes (512)
    FabricRoom   \* writes the fabric takes (1023)

ASSUME BusAssumption ==
    /\ {DataBytes, PageBytes, MaxBeats, MaxLength, MemBytes, Slots, MaxId,
        AddressRoom, BeatRoom, FabricRoom} \subseteq Nat \ {0}
    /\ Slots <= MaxId /\ PageBytes % DataBytes = 0

OK == 0
DECERR == 3

-----------------------------------------------------------------------------
\* The master

Widths == {w \in 1 .. DataBytes : DataBytes % w = 0}

\* The segments of a packet: beats as wide as address and rest allow.
RECURSIVE Split(_, _, _)
Split(addr, offset, len) ==
    IF offset >= len THEN <<>>
    ELSE LET rest == len - offset
             beat == Max({w \in Widths : w <= rest /\ addr % w = 0})
             beats == Min({rest \div beat, MaxBeats,
                           (PageBytes - (addr % PageBytes)) \div beat})
         IN  <<[addr |-> addr, offset |-> offset, beat |-> beat, beats |-> beats]>>
                \o Split(addr + beat * beats, offset + beat * beats, len)

\* active: by ID, the packet, its segments and the one on its way (seg), beats of it that
\* went out (w) or came in (r), and got, the bytes a read has so far.
Master0 ==
    [pending |-> <<>>, active |-> <<>>, next |-> 1,
     awq |-> <<>>, wq |-> <<>>, arq |-> <<>>,
     responses |-> <<>>, responding |-> <<>>, ok |-> TRUE]

Idle(m) == m.pending = <<>> /\ m.active = <<>>

Segment(t) == t.segs[t.seg]

Legal(p) == p.cmd \in {"read", "write"} /\ p.len \in 1 .. MaxLength

\* The first ID from next on, round, that is not in use.
FreshId(m) ==
    LET start == IF m.next \in 1 .. MaxId THEN m.next ELSE 1
        free == (1 .. MaxId) \ DOMAIN m.active
        ahead(i) == (i + MaxId - start) % MaxId
    IN  CHOOSE i \in free : \A j \in free : ahead(i) <= ahead(j)

EnqueueSegment(m, id) ==
    LET s == [m EXCEPT !.active[id].w = 0, !.active[id].r = 0] IN
    IF m.active[id].p.cmd = "write"
    THEN [s EXCEPT !.awq = Append(@, id), !.wq = Append(@, id)]
    ELSE [s EXCEPT !.arq = Append(@, id)]

FinishSegment(m, id) ==
    IF m.active[id].seg < Len(m.active[id].segs)
    THEN EnqueueSegment([m EXCEPT !.active[id].seg = @ + 1], id)
    ELSE [m EXCEPT !.responses = Append(@, id)]

CanAdmit(m) == m.pending # <<>> /\ Cardinality(DOMAIN m.active) < Slots

\* END_REQ: the next packet may come.  One that is not legal never sees the bus.
Admit(m) ==
    LET p == m.pending[1]
        id == FreshId(m)
        t == [p |-> p, segs |-> IF Legal(p) THEN Split(p.addr, 0, p.len) ELSE <<>>,
              seg |-> 1, w |-> 0, r |-> 0, got |-> {},
              status |-> IF Legal(p) THEN "ok" ELSE "burst error"]
        s == [m EXCEPT !.pending = <<>>, !.next = id + 1, !.active = (id :> t) @@ @]
    IN  IF Legal(p) THEN EnqueueSegment(s, id)
        ELSE [s EXCEPT !.responses = Append(@, id)]

\* BEGIN_RESP for one packet at a time.
Respond(m) ==
    IF m.responding = <<>> /\ m.responses # <<>>
    THEN [m EXCEPT !.responding = <<Head(m.responses)>>, !.responses = Tail(@)]
    ELSE m

\* END_RESP.
Responded(m) ==
    LET id == m.responding[1] IN
    [m EXCEPT !.responding = <<>>,
              !.active = [i \in DOMAIN @ \ {id} |-> @[i]]]

\* The wires the master drives.
AddressWire(m, queue) ==
    IF queue = <<>> THEN <<>>
    ELSE LET b == Segment(m.active[Head(queue)]) IN
         <<[id |-> Head(queue), addr |-> b.addr, beat |-> b.beat, beats |-> b.beats]>>

AwWire(m) == AddressWire(m, m.awq)
ArWire(m) == AddressWire(m, m.arq)

WWire(m) ==
    IF m.wq = <<>> THEN <<>>
    ELSE LET t == m.active[Head(m.wq)]
             b == Segment(t)
             lane == (b.addr + t.w * b.beat) % DataBytes
             first == b.offset + t.w * b.beat
         IN  <<[data |-> t.p.n, last |-> t.w + 1 = b.beats,
                strb |-> {lane + j : j \in {j \in 0 .. b.beat - 1 : first + j \in t.p.on}}]>>

WTaken(m) ==
    LET id == Head(m.wq)
        t == m.active[id]
    IN  [m EXCEPT !.active[id].w = @ + 1,
                  !.wq = IF t.w + 1 = Segment(t).beats THEN Tail(@) ELSE @]

Noted(status, resp) == IF resp = OK THEN status ELSE "address error"

RTaken(m, x) ==
    IF \/ x.id \notin DOMAIN m.active
       \/ m.active[x.id].p.cmd # "read"
       \/ x.last # (m.active[x.id].r + 1 = Segment(m.active[x.id]).beats)
    THEN [m EXCEPT !.ok = FALSE]
    ELSE LET t == m.active[x.id]
             b == Segment(t)
             lane == (b.addr + t.r * b.beat) % DataBytes
             first == b.offset + t.r * b.beat
             bytes == {<<first + j, x.data[lane + j]>> :
                          j \in {j \in 0 .. b.beat - 1 : first + j \in t.p.on}}
             s == [m EXCEPT !.active[x.id] =
                      [t EXCEPT !.r = @ + 1, !.got = @ \union bytes,
                                !.status = Noted(@, x.resp)]]
         IN  IF x.last THEN FinishSegment(s, x.id) ELSE s

BTaken(m, x) ==
    IF x.id \notin DOMAIN m.active \/ m.active[x.id].p.cmd # "write"
    THEN [m EXCEPT !.ok = FALSE]
    ELSE FinishSegment([m EXCEPT !.active[x.id].status = Noted(@, x.resp)], x.id)

\* What an edge does to the master: the channels of takes have a handshake, r and b are
\* what it takes from the other two.
MasterTick(m, takes, r, b, admits) ==
    LET m1 == IF "AW" \in takes THEN [m EXCEPT !.awq = Tail(@)] ELSE m
        m2 == IF "AR" \in takes THEN [m1 EXCEPT !.arq = Tail(@)] ELSE m1
        m3 == IF "W" \in takes THEN WTaken(m2) ELSE m2
        m4 == IF r # <<>> THEN RTaken(m3, r[1]) ELSE m3
        m5 == IF b # <<>> /\ m4.ok THEN BTaken(m4, b[1]) ELSE m4
        m6 == IF CanAdmit(m5) /\ admits THEN Admit(m5) ELSE m5
    IN  Respond(m6)

\* Demo::channel: a payload that was offered and not taken stays.
Steady(m, n, takes) ==
    /\ AwWire(m) # <<>> /\ "AW" \notin takes => AwWire(n) = AwWire(m)
    /\ WWire(m) # <<>> /\ "W" \notin takes => WWire(n) = WWire(m)
    /\ ArWire(m) # <<>> /\ "AR" \notin takes => ArWire(n) = ArWire(m)

-----------------------------------------------------------------------------
\* What both slaves share

Bytes0 == [a \in 0 .. MemBytes - 1 |-> <<>>]

Inside(addr, count) == addr + count <= MemBytes

Newest(bytes, a) == IF bytes[a] = <<>> THEN 0 ELSE Last(bytes[a])

Written(bytes, addrs, n) ==
    [a \in DOMAIN bytes |-> IF a \in addrs THEN Append(bytes[a], n) ELSE bytes[a]]

\* The lanes of a beat, from the contents.
Lanes(bytes, addr, count) ==
    [l \in 0 .. DataBytes - 1 |->
        LET a == addr + l - (addr % DataBytes) IN
        IF a \in addr .. addr + count - 1 /\ Inside(addr, count)
        THEN Newest(bytes, a) ELSE 0]

BeatAddress(c, k) == c.addr + k * c.beat

\* Where a beat of data goes that belongs to the address addr.
Targets(x, addr) == {addr + l - (addr % DataBytes) : l \in x.strb}

Fits(x, addr, count) ==
    LET lane == addr % DataBytes IN x.strb \subseteq lane .. lane + count - 1

-----------------------------------------------------------------------------
\* The test memory

Ram0 == [kind |-> "ram", writes |-> <<>>, data |-> <<>>, reads |-> <<>>,
         responses |-> <<>>, shown |-> <<>>, bytes |-> Bytes0, ok |-> TRUE]

RamRoom(s) ==
    {c \in {"AW", "W", "AR"} :
        CASE c = "AW" -> Len(s.writes) + Len(s.responses) < AddressRoom
          [] c = "W" -> Len(s.data) < BeatRoom
          [] c = "AR" -> Len(s.reads) < AddressRoom}

ReadSeen(s) ==
    LET c == Head(s.reads) IN
    [s EXCEPT !.reads = IF c.seen + 1 = c.beats THEN Tail(@)
                        ELSE [@ EXCEPT ![1].seen = c.seen + 1]]

\* One beat of data meets the oldest write.
Paired(s) ==
    IF s.writes = <<>> \/ s.data = <<>> THEN s
    ELSE LET w == Head(s.writes)
             x == Head(s.data)
             addr == BeatAddress(w, w.seen)
             inside == Inside(addr, w.beat)
             done == w.seen + 1 = w.beats
             error == w.error \/ ~inside
         IN  [s EXCEPT
                !.ok = @ /\ x.last = done /\ Fits(x, addr, w.beat),
                !.data = Tail(@),
                !.bytes = IF inside THEN Written(@, Targets(x, addr), x.data) ELSE @,
                !.writes = IF done THEN Tail(@)
                           ELSE [@ EXCEPT ![1] = [w EXCEPT !.seen = @ + 1, !.error = error]],
                !.responses = IF done
                              THEN Append(@, [id |-> w.id,
                                              resp |-> IF error THEN DECERR ELSE OK])
                              ELSE @]

\* What it shows on R: the contents as they are at this edge.
ReadBeat(s) ==
    LET c == Head(s.reads)
        addr == BeatAddress(c, c.seen)
    IN  [id |-> c.id, data |-> Lanes(s.bytes, addr, c.beat),
         resp |-> IF Inside(addr, c.beat) THEN OK ELSE DECERR,
         last |-> c.seen + 1 = c.beats]

\* A slip: the beat on R follows the contents while it waits.
RamShowsLate(s, held, shows) ==
    [s EXCEPT !.shown = IF s.reads # <<>> /\ shows THEN <<ReadBeat(s)>> ELSE <<>>]

\* A beat that is not taken stays, with its data.
RamShows(s, held, shows) ==
    IF held THEN s
    ELSE [s EXCEPT !.shown = IF s.reads # <<>> /\ shows THEN <<ReadBeat(s)>> ELSE <<>>]

RamTick(s, m, takes, r, b, shows) ==
    LET s1 == IF b # <<>> THEN [s EXCEPT !.responses = Tail(@)] ELSE s
        s2 == IF r # <<>> THEN ReadSeen(s1) ELSE s1
        s3 == IF "AW" \in takes
              THEN [s2 EXCEPT !.writes =
                        Append(@, AwWire(m)[1] @@ [seen |-> 0, error |-> FALSE])]
              ELSE s2
        s4 == IF "AR" \in takes
              THEN [s3 EXCEPT !.reads = Append(@, ArWire(m)[1] @@ [seen |-> 0])] ELSE s3
        s5 == IF "W" \in takes THEN [s4 EXCEPT !.data = Append(@, WWire(m)[1])] ELSE s4
    IN  RamShows(Paired(s5), s.shown # <<>> /\ r = <<>>, shows)

\* Functional and atomic accesses go past the bus.
RamAccess(s, p) ==
    IF Inside(p.addr, p.len) /\ p.cmd = "write"
    THEN [s EXCEPT !.bytes = Written(@, {p.addr + j : j \in p.on}, p.n)]
    ELSE s

-----------------------------------------------------------------------------
\* The fabric: its cursors are the writes that lack beats and the reads.  The bridge
\* and all behind it are one memory that serves a whole burst at some time and answers
\* in any order (AouLoop and GatePath have them in detail).

Fabric0 == [kind |-> "aou", writes |-> <<>>, reads |-> <<>>, answers |-> {},
            bytes |-> Bytes0, ok |-> TRUE]

Open(s) == {i \in DOMAIN s.writes : Len(s.writes[i].got) < s.writes[i].beats}

FabricRooms(s) ==
    {c \in {"AW", "W", "AR"} :
        CASE c = "AW" -> Cardinality(Open(s)) < FabricRoom
          [] c = "W" -> Open(s) # {}
          [] c = "AR" -> TRUE}

\* The answers the bridge may offer.
FabricBeats(s) ==
    {[id |-> i, data |-> s.reads[i].vals[s.reads[i].seen + 1], resp |-> s.reads[i].resp,
      last |-> s.reads[i].seen + 1 = s.reads[i].beats] :
        i \in {i \in DOMAIN s.reads : s.reads[i].vals # <<>>}}

FabricTick(s, m, takes, r, b) ==
    LET i == Min(Open(s))
        x == WWire(m)[1]
        s1 == IF "W" \in takes
              THEN [s EXCEPT !.writes[i].got = Append(@, x),
                             !.ok = @ /\ x.last = (Len(s.writes[i].got) + 1 = s.writes[i].beats)]
              ELSE s
        s2 == IF "AW" \in takes
              THEN [s1 EXCEPT !.writes = Append(@, AwWire(m)[1] @@ [got |-> <<>>]),
                              !.ok = @ /\ AwWire(m)[1].id \in 1 .. MaxId]
              ELSE s1
        ra == ArWire(m)[1]
        s3 == IF "AR" \in takes
              THEN [s2 EXCEPT !.reads = (ra.id :> (ra @@ [seen |-> 0, vals |-> <<>>,
                                                          resp |-> OK])) @@ @,
                              !.ok = @ /\ ra.id \in (1 .. MaxId) \ DOMAIN s2.reads]
              ELSE s2
        s4 == IF b # <<>> THEN [s3 EXCEPT !.answers = @ \ {b[1]}] ELSE s3
    IN  IF r = <<>> THEN s4
        ELSE IF r[1].last
             THEN [s4 EXCEPT !.reads = [j \in DOMAIN @ \ {r[1].id} |-> @[j]]]
             ELSE [s4 EXCEPT !.reads[r[1].id].seen = @ + 1]

\* The memory behind serves the write i, or the read with the ID i.
ServeWrite(s, i) ==
    LET w == s.writes[i]
        inside == Inside(w.addr, w.beat * w.beats)
        addrs == UNION {Targets(w.got[k], BeatAddress(w, k - 1)) : k \in DOMAIN w.got}
    IN  [s EXCEPT !.writes = RemoveAt(@, i),
                  !.bytes = IF inside THEN Written(@, addrs, w.got[1].data) ELSE @,
                  !.answers = @ \union {[id |-> w.id, resp |-> IF inside THEN OK ELSE DECERR]}]

ServeRead(s, i) ==
    LET c == s.reads[i] IN
    [s EXCEPT !.reads[i].vals =
                  [k \in 1 .. c.beats |-> Lanes(s.bytes, BeatAddress(c, k - 1), c.beat)],
              !.reads[i].resp = IF Inside(c.addr, c.beat * c.beats) THEN OK ELSE DECERR]

\* Every way the memory may serve one burst.
Served(s) ==
    {ServeWrite(s, i) : i \in DOMAIN s.writes \ Open(s)}
        \union {ServeRead(s, i) : i \in {i \in DOMAIN s.reads : s.reads[i].vals = <<>>}}

-----------------------------------------------------------------------------
\* Either slave

Rooms(s) == IF s.kind = "ram" THEN RamRoom(s) ELSE FabricRooms(s)

\* The handshakes of the master's channels that may happen.
Possible(m, s) ==
    {c \in Rooms(s) : CASE c = "AW" -> AwWire(m) # <<>>
                        [] c = "W" -> WWire(m) # <<>>
                        [] c = "AR" -> ArWire(m) # <<>>}

RWires(s) ==
    IF s.kind = "ram" THEN {s.shown} \ {<<>>} ELSE {<<x>> : x \in FabricBeats(s)}

BWires(s) ==
    IF s.kind = "aou" THEN {<<x>> : x \in s.answers}
    ELSE IF s.responses = <<>> THEN {} ELSE {<<Head(s.responses)>>}

SlaveTick(s, m, takes, r, b, shows) ==
    IF s.kind = "ram" THEN RamTick(s, m, takes, r, b, shows)
    ELSE FabricTick(s, m, takes, r, b)

\* Demo::channel for the other two; the bridge behind the fabric keeps its own offers.
SteadySlave(s, t, r, b) ==
    s.kind = "ram" =>
        /\ s.shown # <<>> /\ r = <<>> => t.shown = s.shown
        /\ s.responses # <<>> /\ b = <<>> => Head(t.responses) = Head(s.responses)

Drained(s) ==
    IF s.kind = "ram"
    THEN s.writes = <<>> /\ s.data = <<>> /\ s.reads = <<>> /\ s.responses = <<>>
    ELSE s.writes = <<>> /\ s.reads = <<>> /\ s.answers = {}
=============================================================================
