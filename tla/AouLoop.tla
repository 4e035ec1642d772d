------------------------------- MODULE AouLoop -------------------------------
(***************************************************************************)
(* The bridge and the target joined by the link, with the memory behind the   *)
(* target: the whole way of an AXI transaction and of the credits that let it  *)
(* pass.  The link delivers flits in order and once each (UcieLink and        *)
(* FlitStream); here it is the two FIFOs.                                    *)
(*                                                                         *)
(* The memory is the model of any backend: it answers what it has in any      *)
(* order, but transactions of one direction, plane and ID in theirs.          *)
(***************************************************************************)
EXTENDS AouTarget

vars == <<bridgeVars, targetVars, fwd, rev, fault>>

Init ==
    /\ BridgeInit
    /\ TargetInit
    /\ fwd = <<>>
    /\ rev = <<>>
    /\ fault = FALSE

MemoryAnswer(i) ==
    /\ i \in DOMAIN memreq
    /\ \A j \in 1 .. i - 1 : Group(memreq[j].tx) # Group(memreq[i].tx)
    /\ Len(memrsp) < MemDepth
    /\ memrsp' = Append(memrsp, memreq[i].tx)
    /\ memreq' = RemoveAt(memreq, i)
    /\ UNCHANGED <<bridgeVars, tgt, fwd, rev, fault>>

Next ==
    \/ BridgeNext /\ UNCHANGED targetVars
    \/ TargetTick
    \/ \E i \in DOMAIN memreq : MemoryAnswer(i)

Spec == Init /\ [][Next]_vars

\* Every thread runs at every clock edge, the link moves, the master offers
\* what it has and takes its answers, and the memory answers.
Fairness ==
    /\ \A t \in DOMAIN Txns :
           WF_vars((AcceptAw(t) \/ AcceptAr(t)) /\ UNCHANGED targetVars)
    /\ WF_vars(AcceptW /\ UNCHANGED targetVars)
    /\ \A kind \in ResponseKinds :
           WF_vars(ChannelTick(kind, TRUE) /\ UNCHANGED targetVars)
    /\ WF_vars(PackerTick /\ UNCHANGED targetVars)
    /\ WF_vars(SendFlit /\ UNCHANGED targetVars)
    /\ WF_vars(UnpackerTick /\ UNCHANGED targetVars)
    /\ WF_vars(TargetTick)
    /\ WF_vars(\E i \in DOMAIN memreq : MemoryAnswer(i))

FairSpec == Spec /\ Fairness

-----------------------------------------------------------------------------
(* Where the credit is *)

IfAny(x) == IF x = None THEN <<>> ELSE <<x>>

\* Granules of the messages of lane l in a sequence of messages.
SizeOn(l, msgs) == SumOver(LAMBDA m : IF m.lane = l THEN m.size ELSE 0, msgs)

Ends(p) == p.from + p.take = p.msg.size

\* Granules of the messages of lane l whose last fragment is in one of the
\* flits, and of the one that is still to be spilled.
InFlight(l, flits, spill) ==
    LET whole(p) == IF p.msg.lane = l /\ Ends(p) THEN p.msg.size ELSE 0
        rest(s) == IF s.msg.lane = l THEN s.msg.size ELSE 0
    IN  SumOver(LAMBDA f : SumOver(whole, f.parts), flits) + SumOver(rest, IfAny(spill))

\* Credit for lane l in the headers and the CrdtGrant messages of the flits.
InFlits(l, flits) ==
    LET amount(grant) == IF l \in DOMAIN grant THEN grant[l] ELSE 0
        misc(p) == IF IsGrant(p.msg) THEN amount(p.msg.grant) ELSE 0
    IN  SumOver(LAMBDA f : amount(f.credit) + SumOver(misc, f.parts), flits)

InEvents(l, events) == SumOver(LAMBDA e : IF e.lane = l THEN e.n ELSE 0, events)

\* Everything on the way to the target.
ToTarget == fwd \o IfAny(pk.out) \o <<pk.cur>>

Requests == Rps \X RequestKinds

BridgeBuffer(l) ==
    SizeOn(l, un.msgs \o rx[l] \o IfAny(chan[l[2]].msg)) + InEvents(l, ret)

TargetBuffer(l) ==
    CASE l[2] = "WREQ" -> ReqGranules * Len(tgt.writes[l[1]])
      [] l[2] = "RREQ" -> ReqGranules * Len(tgt.reads[l[1]])
      [] l[2] = "WDATA" -> Size(tgt.data[l[1]])

Credits == INSTANCE CreditLoop WITH
    Lanes <- Lanes,
    Capacity <- [l \in Lanes |-> BridgeCapacity[l] + TargetCapacity[l]],
    CounterMax <- CounterMax,
    avail <- [l \in Lanes |-> IF l \in Requests THEN pk.cm.avail[l]
                              ELSE tgt.cm.avail[l]],
    flying <- [l \in Lanes |-> IF l \in Requests THEN InFlight(l, ToTarget, pk.spill)
                               ELSE InFlight(l, rev, tgt.spill)],
    held <- [l \in Lanes |-> IF l \in Requests THEN TargetBuffer(l)
                             ELSE BridgeBuffer(l)],
    pending <- [l \in Lanes |-> IF l \in Requests THEN tgt.cm.pend[l]
                                ELSE pk.cm.pend[l]],
    grants <- [l \in Lanes |->
        IF l \in Requests
        THEN InFlits(l, rev) + InEvents(l, un.creds) + InEvents(l, upd)
        ELSE InFlits(l, ToTarget)]

\* What the theorems about the credit loop assume.
ASSUME CapacityAssumption == Credits!CapacitiesFit

-----------------------------------------------------------------------------
Finished(t) == done[t] = Answers(t)

\* None of the require()s, asserts and protocol checks of the two ends fails:
\* the credits alone keep the queues of aou_target.h within their capacity, and
\* spilled messages are put together from the right parts.
NeverFatal == ~fault

\* The two ends implement the abstract credit loop: no step of a thread loses
\* credit or makes any, wherever it travels (credit_manager.h:119-198).
ImplementsCredits == Credits!Spec

\* W beats carry no ID and may overtake their write request; what aou_target.h
\* assembles (lines 128-147) is still the data of the request, in beat order.
DataMeetsItsRequest ==
    LET beats(r) == [b \in DOMAIN r.got |-> [tx |-> r.tx, beat |-> b]]
        own(r) == [b \in DOMAIN r.got |-> [tx |-> r.got[b].tx, beat |-> r.got[b].beat]]
    IN  /\ \A rp \in Rps : \A j \in DOMAIN tgt.writes[rp] :
               own(tgt.writes[rp][j]) = beats(tgt.writes[rp][j])
        /\ \A i \in DOMAIN memreq :
               /\ own(memreq[i]) = beats(memreq[i])
               /\ Txns[memreq[i].tx].write =>
                      Len(memreq[i].got) = Txns[memreq[i].tx].len

\* AXI's order: answers of one direction and ID come in the order of the
\* requests.  The bridge does not enforce it across planes; what it promises
\* (rp_order_guard.h) is that it is not broken unnoticed.
OrderedOrReported ==
    \A t, u \in DOMAIN Txns :
        /\ t < u
        /\ Txns[t].write = Txns[u].write
        /\ Txns[t].id = Txns[u].id
        /\ done[u] > 0
        => Finished(t) \/ guard.violated

\* outstanding_ counts the transactions between submit and the last granule of
\* their answer in the link FIFO (aou_target.h:163,227,237), so that idle() and
\* the limit of 8 mean what they say.
SlotsBalanced ==
    LET replies == [rp \in Rps |-> Len(tgt.wrep[rp]) + Len(tgt.rrep[rp])]
        spilled == IF tgt.spill = None THEN 0 ELSE Freed(tgt.spill.completes)
    IN  tgt.out = Len(tgt.tickets) + spilled + SumFunction(replies)

\* Every transaction is answered in full: neither end waits for credit that the
\* other keeps (flit_packer.cpp:91-97), whatever is spilled or stalled.
Answered == <>(\A t \in DOMAIN Txns : Finished(t))
=============================================================================
