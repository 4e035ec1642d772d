----------------------------- MODULE CreditLoop -----------------------------
(***************************************************************************)
(* What the credits of the link promise, whatever carries them.             *)
(*                                                                         *)
(* On every lane a sender and a receiver pass credit round: the sender       *)
(* spends it on messages, the messages fill the receiver's buffer, the freed  *)
(* buffer becomes credit to grant, and the grant travels back.  A step may    *)
(* take several of these at once, on any number of lanes, as a clock edge of  *)
(* the bridge or of the target does.  Both ends count with the saturating     *)
(* counters of credit_manager.h.                                             *)
(***************************************************************************)
EXTENDS Integers, TLAPS

CONSTANTS
    Lanes,      \* the independent credit pools
    Capacity,   \* the receiver's buffer on each lane, in granules
    CounterMax  \* CREDIT_COUNTER_MAX

\* Every capacity is one the counters can hold (4095; the largest
\* buffer of the system, the bridge's for read data, has 544 granules).
CapacitiesFit ==
    /\ CounterMax \in Nat
    /\ Capacity \in [Lanes -> 0 .. CounterMax]

VARIABLES
    avail,   \* what the sender may spend: its tx_available_
    flying,  \* granules of messages paid for and not yet in the buffer
    held,    \* granules in the receiver's buffer
    pending, \* what the receiver has to grant: its rx_pending_return_
    grants   \* granted and not yet counted by the sender

vars == <<avail, flying, held, pending, grants>>

Lower(a, b) == IF a < b THEN a ELSE b

\* All counters are unsigned.
TypeOK ==
    /\ avail \in [Lanes -> Nat]
    /\ flying \in [Lanes -> Nat]
    /\ held \in [Lanes -> Nat]
    /\ pending \in [Lanes -> Nat]
    /\ grants \in [Lanes -> Nat]

\* Nothing may be sent before the receiver has published its capacity.
Init ==
    /\ avail = [l \in Lanes |-> 0]
    /\ flying = [l \in Lanes |-> 0]
    /\ held = [l \in Lanes |-> 0]
    /\ pending = Capacity
    /\ grants = [l \in Lanes |-> 0]

\* Grants reach the sender, which then pays for the messages it sends.
SenderMove(l) ==
    LET got  == grants[l] - grants'[l]
        sent == flying'[l] - flying[l]
    IN  /\ got >= 0
        /\ sent >= 0
        /\ avail'[l] = Lower(CounterMax, avail[l] + got) - sent
        /\ held'[l] = held[l]
        /\ pending'[l] = pending[l]

\* Messages arrive, buffer space is freed and granted.
ReceiverMove(l) ==
    LET arrived == flying[l] - flying'[l]
        freed   == held[l] + arrived - held'[l]
        granted == grants'[l] - grants[l]
    IN  /\ arrived >= 0
        /\ freed >= 0
        /\ granted >= 0
        /\ pending'[l] = Lower(Capacity[l], pending[l] + freed) - granted
        /\ avail'[l] = avail[l]

Next ==
    /\ TypeOK'
    /\ \A l \in Lanes : SenderMove(l) \/ ReceiverMove(l)

Spec == Init /\ [][Next]_vars

-----------------------------------------------------------------------------
\* No credit is lost or made: the saturating counters never cut anything off.
Conserved ==
    \A l \in Lanes :
        avail[l] + flying[l] + held[l] + pending[l] + grants[l] = Capacity[l]

\* The receiver's buffer never overflows, though nothing asks for its state.
NoOverrun == \A l \in Lanes : held[l] <= Capacity[l]

\* The granted credit never exceeds what the saturating counter can hold.
NoSaturation ==
    \A l \in Lanes : avail[l] + grants[l] <= CounterMax

-----------------------------------------------------------------------------
(* Proofs: for every set of lanes and every capacity the counters can hold,   *)
(* credit is conserved, so the buffers never overflow and the saturating       *)
(* counters never cut anything off.                                         *)

\* The sum of a lane's credit is the inductive invariant: with it each of the
\* two saturating additions stays below its bound, so both are exact.
CreditInv == TypeOK /\ Conserved

\* A step of one lane keeps its sum.
LEMMA LaneKeepsSum ==
    ASSUME CapacitiesFit, CreditInv, TypeOK', NEW l \in Lanes, SenderMove(l) \/ ReceiverMove(l)
    PROVE  avail'[l] + flying'[l] + held'[l] + pending'[l] + grants'[l] = Capacity[l]
<1>1. Capacity[l] \in 0 .. CounterMax /\ CounterMax \in Nat
    BY DEF CapacitiesFit
<1>2. /\ avail[l] \in Nat /\ flying[l] \in Nat /\ held[l] \in Nat
      /\ pending[l] \in Nat /\ grants[l] \in Nat
    BY DEF CreditInv, TypeOK
<1>3. /\ avail'[l] \in Nat /\ flying'[l] \in Nat /\ held'[l] \in Nat
      /\ pending'[l] \in Nat /\ grants'[l] \in Nat
    BY DEF TypeOK
<1>4. avail[l] + flying[l] + held[l] + pending[l] + grants[l] = Capacity[l]
    BY DEF CreditInv, Conserved
<1>5. CASE SenderMove(l)
    BY <1>1, <1>2, <1>3, <1>4, <1>5 DEF SenderMove, Lower
<1>6. CASE ReceiverMove(l)
    BY <1>1, <1>2, <1>3, <1>4, <1>6 DEF ReceiverMove, Lower
<1> QED
    BY <1>5, <1>6

\* The invariant holds at the start: all credit waits to be granted.
LEMMA InitConserves ==
    ASSUME CapacitiesFit PROVE Init => CreditInv
<1> SUFFICES ASSUME Init PROVE CreditInv
    OBVIOUS
<1>1. TypeOK
    BY DEF CapacitiesFit, Init, TypeOK
<1>2. ASSUME NEW l \in Lanes
      PROVE  avail[l] + flying[l] + held[l] + pending[l] + grants[l] = Capacity[l]
    <2>1. Capacity[l] \in Nat
        BY DEF CapacitiesFit
    <2>2. avail[l] = 0 /\ flying[l] = 0 /\ held[l] = 0 /\ grants[l] = 0
        BY DEF Init
    <2>3. pending[l] = Capacity[l]
        BY DEF Init
    <2> QED
        BY <2>1, <2>2, <2>3
<1> QED
    BY <1>1, <1>2 DEF CreditInv, Conserved

\* Every step, however many lanes it moves, keeps the invariant.
LEMMA StepConserves ==
    ASSUME CapacitiesFit PROVE CreditInv /\ [Next]_vars => CreditInv'
<1> SUFFICES ASSUME CreditInv, [Next]_vars PROVE CreditInv'
    OBVIOUS
<1>1. CASE Next
    <2>1. TypeOK'
        BY <1>1 DEF Next
    <2>2. Conserved'
        BY <1>1, <2>1, LaneKeepsSum DEF Next, Conserved
    <2> QED
        BY <2>1, <2>2 DEF CreditInv
<1>2. CASE UNCHANGED vars
    BY <1>2 DEF vars, CreditInv, TypeOK, Conserved
<1> QED
    BY <1>1, <1>2

\* The credits of every lane add up to the capacity its receiver published,
\* although both ends count with counters that saturate.
THEOREM CreditConserved ==
    ASSUME CapacitiesFit PROVE Spec => []Conserved
<1>1. CreditInv => Conserved
    BY DEF CreditInv
<1>2. Init => CreditInv
    BY InitConserves
<1>3. CreditInv /\ [Next]_vars => CreditInv'
    BY StepConserves
<1> QED
    BY <1>1, <1>2, <1>3, PTL DEF Spec

\* A receive buffer never holds more than its capacity: the require() calls of
\* AouTarget and the FIFOs of the bridge rest on this.
THEOREM BuffersNeverOverflow ==
    ASSUME CapacitiesFit PROVE Spec => []NoOverrun
<1>1. CreditInv => NoOverrun
    <2> SUFFICES ASSUME CreditInv, NEW l \in Lanes PROVE held[l] <= Capacity[l]
        BY DEF NoOverrun
    <2>1. avail[l] + flying[l] + held[l] + pending[l] + grants[l] = Capacity[l]
        BY DEF CreditInv, Conserved
    <2>2. /\ avail[l] \in Nat /\ flying[l] \in Nat /\ held[l] \in Nat
          /\ pending[l] \in Nat /\ grants[l] \in Nat
        BY DEF CreditInv, TypeOK
    <2>3. Capacity[l] \in Nat
        BY DEF CapacitiesFit
    <2> QED
        BY <2>1, <2>2, <2>3
<1>2. Init => CreditInv
    BY InitConserves
<1>3. CreditInv /\ [Next]_vars => CreditInv'
    BY StepConserves
<1> QED
    BY <1>1, <1>2, <1>3, PTL DEF Spec

\* add_tx_credit never reaches CREDIT_COUNTER_MAX with credit to spare.
THEOREM CountersNeverSaturate ==
    ASSUME CapacitiesFit PROVE Spec => []NoSaturation
<1>1. CreditInv => NoSaturation
    <2> SUFFICES ASSUME CreditInv, NEW l \in Lanes
                 PROVE  avail[l] + grants[l] <= CounterMax
        BY DEF NoSaturation
    <2>1. avail[l] + flying[l] + held[l] + pending[l] + grants[l] = Capacity[l]
        BY DEF CreditInv, Conserved
    <2>2. /\ avail[l] \in Nat /\ flying[l] \in Nat /\ held[l] \in Nat
          /\ pending[l] \in Nat /\ grants[l] \in Nat
        BY DEF CreditInv, TypeOK
    <2>3. Capacity[l] \in 0 .. CounterMax /\ CounterMax \in Nat
        BY DEF CapacitiesFit
    <2> QED
        BY <2>1, <2>2, <2>3
<1>2. Init => CreditInv
    BY InitConserves
<1>3. CreditInv /\ [Next]_vars => CreditInv'
    BY StepConserves
<1> QED
    BY <1>1, <1>2, <1>3, PTL DEF Spec
=============================================================================
