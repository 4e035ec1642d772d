---------------------------- MODULE CreditManager ----------------------------
(***************************************************************************)
(* The credit state of one end of the link                                  *)
(* (axi2flit/systemc/include/credit_manager.h), as operators over a record:  *)
(*                                                                         *)
(*   avail    tx_available_: credit the peer granted and no message used     *)
(*   pend     rx_pending_return_: own buffer space not granted yet           *)
(*   next_rp  next_header_rp_                                                *)
(*                                                                         *)
(* A lane is a resource plane and a kind of message.  One credit stands for   *)
(* one granule of the receiver's buffer of its lane.                         *)
(***************************************************************************)
EXTENDS Integers, Sequences, FiniteSets

CONSTANTS
    NRp,        \* rp_count
    CounterMax  \* CREDIT_COUNTER_MAX

Rps == 0 .. NRp - 1

RequestKinds == {"WREQ", "RREQ", "WDATA"}
ResponseKinds == {"RDATA", "WRESP"}
Lanes == Rps \X (RequestKinds \cup ResponseKinds)

Least(a, b) == IF a < b THEN a ELSE b

\* The rp in S that a rotation starting at `first` meets first.
FirstFrom(first, S) ==
    CHOOSE rp \in S :
        \A other \in S : (rp - first) % NRp <= (other - first) % NRp

Manager(capacity) ==
    [avail |-> [l \in Lanes |-> 0], pend |-> capacity, next_rp |-> 0]

\* The amounts a field of the given kind can carry: three bits, two for WRESP.
Encodings(kind) ==
    {0, 1, 4, 8} \cup IF kind = "WRESP" THEN {} ELSE {16, 32, 64, 128}

\* What encode_credit_amount makes of n credits: the rest stays pending.
Encodable(n, kind) ==
    CHOOSE v \in Encodings(kind) :
        /\ v <= n
        /\ \A w \in Encodings(kind) : w <= n => w <= v

AddTx(cm, l, n) ==
    [cm EXCEPT !.avail[l] = Least(CounterMax, @ + n)]

\* Every credit of a grant, a function from some lanes to amounts.
AddGrant(cm, grant) ==
    [cm EXCEPT !.avail = [l \in Lanes |->
        IF l \in DOMAIN grant THEN Least(CounterMax, @[l] + grant[l]) ELSE @[l]]]

CanConsume(cm, l, n) == cm.avail[l] >= n

Consume(cm, l, n) == [cm EXCEPT !.avail[l] = @ - n]

ReturnRx(cm, capacity, l, n) ==
    [cm EXCEPT !.pend[l] = Least(capacity[l], @ + n)]

Pending(cm) == {l \in Lanes : cm.pend[l] > 0}

\* What a grant of the lanes L carries.
Granted(cm, L) == [l \in L |-> Encodable(cm.pend[l], l[2])]

\* A slip: what the encoding could not carry is not kept.
TakeAll(cm, grant) ==
    [cm EXCEPT !.pend = [l \in Lanes |-> IF l \in DOMAIN grant THEN 0 ELSE @[l]]]

Take(cm, grant) ==
    [cm EXCEPT !.pend = [l \in Lanes |->
        IF l \in DOMAIN grant THEN @[l] - grant[l] ELSE @[l]]]

\* take_header_grant: a header serves the pending lanes of one plane, the
\* planes in turn.
HeaderPlane(cm) == FirstFrom(cm.next_rp, {l[1] : l \in Pending(cm)})

HeaderGrant(cm) ==
    Granted(cm, IF Pending(cm) = {} THEN {}
                ELSE {l \in Pending(cm) : l[1] = HeaderPlane(cm)})

AfterHeader(cm) ==
    IF Pending(cm) = {} THEN cm
    ELSE [Take(cm, HeaderGrant(cm)) EXCEPT
             !.next_rp = (HeaderPlane(cm) + 1) % NRp]

\* take_misc_grants: a CrdtGrant message serves every pending lane.
MiscGrant(cm) == Granted(cm, Pending(cm))

AfterMisc(cm) == Take(cm, MiscGrant(cm))
=============================================================================
