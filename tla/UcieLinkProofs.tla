-------------------------- MODULE UcieLinkProofs --------------------------
(***************************************************************************)
(* Proofs about one direction of the UCIe link, for every sequence space,   *)
(* retry-buffer size, FIFO depth, stream length and number of corrupted     *)
(* frames.                                                                  *)
(*                                                                         *)
(* The invariants of UcieLink are not inductive: that the receiver reads    *)
(* the right meaning into eight bits depends on every frame that is still   *)
(* on its way.  LinkInv adds what is needed: the retry buffer is a          *)
(* contiguous window of at most RetrySize numbers that ends at next_seq;    *)
(* no frame on the wire lies more than RetrySize behind the expected number *)
(* or behind a frame in front of it; and only delivered flits are           *)
(* acknowledged.                                                            *)
(***************************************************************************)
EXTENDS UcieLink, FiniteSetTheorems, TLAPS

-----------------------------------------------------------------------------
(* Arithmetic of the header                                                  *)

\* Quotient and remainder of a division by a positive number (the eight header
\* bits of a sequence number are a remainder).
LEMMA DivMod ==
    ASSUME NEW a \in Int, NEW m \in Nat \ {0}
    PROVE  /\ a \div m \in Int
           /\ a % m \in 0 .. (m - 1)
           /\ a = m * (a \div m) + (a % m)
  BY SMTT(30)

\* A multiple of m that differs from another by less than m is the same one: what
\* the header drops of two close sequence numbers is determined by what it keeps.
LEMMA FactorOut ==
    ASSUME NEW x \in Int, NEW m \in Nat \ {0}, NEW r \in 0 .. (m - 1),
           NEW y \in Int, y = m * x + r
    PROVE  /\ x >= 1 => y >= m
           /\ x <= -2 => y < -m
           /\ x = 0 => y = r
           /\ x = -1 => y = r - m
  <1>1. ASSUME x >= 1 PROVE m * x >= m
    BY <1>1, SMTT(30)
  <1>2. ASSUME x <= -2 PROVE m * x <= -2 * m
    BY <1>2, SMTT(30)
  <1>3. m * x \in Int
    OBVIOUS
  <1>4. (x = 0 => m * x = 0) /\ (x = -1 => m * x = -m)
    BY SMTT(30)
  <1> QED
    BY <1>1, <1>2, <1>3, <1>4

\* The receiver's comparison decides the true order of two sequence numbers
\* that are at most half the sequence space apart.
LEMMA DiffIsRight ==
    ASSUME NEW s \in Nat, NEW e \in Nat, e <= s + HalfSeq, s < e + HalfSeq
    PROVE  /\ Diff(s, e) \in 0 .. (SeqSpace - 1)
           /\ Diff(s, e) = 0 <=> s = e
           /\ Diff(s, e) >= HalfSeq <=> s < e
  <1> DEFINE m == SeqSpace
             a == s \div m
             b == e \div m
             p == s % m
             q == e % m
             r == p - q
             c == r \div m
             d == r % m
             x == (a - b) + c
             y == s - e
  <1>1. m \in Nat \ {0} /\ m = HalfSeq + HalfSeq /\ HalfSeq \in Nat \ {0}
    BY LinkAssumption DEF SeqSpace
  <1>2. Diff(s, e) = d
    BY DEF Diff
  <1> HIDE DEF m
  <1>3. s \in Int /\ e \in Int
    OBVIOUS
  <1>4. a \in Int /\ p \in 0 .. (m - 1) /\ s = m * a + p
    BY <1>1, <1>3, DivMod, Zenon
  <1>5. b \in Int /\ q \in 0 .. (m - 1) /\ e = m * b + q
    BY <1>1, <1>3, DivMod, Zenon
  <1> HIDE DEF a, b, p, q
  <1>6. r \in Int
    BY <1>1, <1>4, <1>5
  <1> HIDE DEF r
  <1>7. c \in Int /\ d \in 0 .. (m - 1) /\ r = m * c + d
    BY <1>1, <1>6, DivMod, Zenon
  <1> HIDE DEF c, d
  <1>8. x \in Int /\ y \in Int
    BY <1>3, <1>4, <1>5, <1>7
  <1>9. m * x = (m * a - m * b) + m * c
    BY <1>1, <1>4, <1>5, <1>7, SMTT(30)
  <1>10. y = m * x + d
    <2>1. m * a \in Int /\ m * b \in Int /\ m * c \in Int
      BY <1>1, <1>4, <1>5, <1>7
    <2>2. y = (m * a - m * b) + (p - q)
      BY <1>1, <1>3, <1>4, <1>5, <2>1
    <2> QED
      BY <1>1, <1>7, <1>9, <2>1, <2>2 DEF r
  <1> HIDE DEF x, y
  <1>11. /\ x >= 1 => y >= m
         /\ x <= -2 => y < -m
         /\ x = 0 => y = d
         /\ x = -1 => y = d - m
    BY <1>1, <1>7, <1>8, <1>10, FactorOut
  <1>12. x = 0 \/ x = -1
    BY <1>1, <1>8, <1>11 DEF y
  <1> QED
    BY <1>1, <1>2, <1>7, <1>11, <1>12 DEF y, m

-----------------------------------------------------------------------------
(* Types                                                                     *)

\* Reading the head of a FIFO (sc_fifo read) and what is left of it.
LEMMA TailType ==
    ASSUME NEW S, NEW q \in Seq(S), q # <<>>
    PROVE  /\ Tail(q) \in Seq(S)
           /\ Len(q) \in Nat /\ Len(q) > 0
           /\ Len(Tail(q)) = Len(q) - 1
           /\ Head(q) \in S /\ Head(q) = q[1]
           /\ \A i \in 1 .. (Len(q) - 1) : Tail(q)[i] = q[i + 1]
  OBVIOUS

\* Writing to the end of a FIFO (sc_fifo write).
LEMMA AppendType ==
    ASSUME NEW S, NEW q \in Seq(S), NEW x \in S
    PROVE  /\ Append(q, x) \in Seq(S)
           /\ Len(q) \in Nat
           /\ Len(Append(q, x)) = Len(q) + 1
           /\ \A i \in 1 .. Len(q) : Append(q, x)[i] = q[i]
           /\ Append(q, x)[Len(q) + 1] = x
  OBVIOUS

\* The frame FrameSent writes is a Frame.
LEMMA FrameType ==
    ASSUME NEW q \in Seq(Frame), NEW i \in 1 .. Len(q)
    PROVE  q[i] \in Frame /\ q[i].sn \in Nat
  <1>1. q[i] \in Frame
    OBVIOUS
  <1> QED
    BY <1>1 DEF Frame

\* Corrupting a frame leaves its number and its place alone.
LEMMA Damage ==
    ASSUME NEW q \in Seq(Frame), NEW k \in 1 .. Len(q)
    PROVE  LET r == [q EXCEPT ![k].ok = FALSE]
           IN  /\ r \in Seq(Frame)
               /\ Len(r) = Len(q)
               /\ \A i \in 1 .. Len(q) : r[i].sn = q[i].sn
  <1> DEFINE f == [q[k] EXCEPT !.ok = FALSE]
             r == [q EXCEPT ![k] = f]
  <1>1. q[k] \in Frame
    OBVIOUS
  <1>2. f \in Frame /\ f.sn = q[k].sn
    BY <1>1 DEF Frame
  <1> HIDE DEF f
  <1>3. r \in Seq(Frame) /\ Len(r) = Len(q)
    BY <1>2
  <1>4. \A i \in 1 .. Len(q) : r[i].sn = q[i].sn
    BY <1>2
  <1> QED
    BY <1>3, <1>4 DEF f

\* Taking a frame off the wire, and sending feedback or not.
LEMMA TakeFrameType ==
    ASSUME TypeOK, TakeFrame
    PROVE  /\ Head(wire) \in Frame /\ Head(wire) = wire[1]
           /\ Len(wire) \in Nat /\ Len(wire) > 0
           /\ Len(wire') = Len(wire) - 1
           /\ \A i \in 1 .. (Len(wire) - 1) : wire'[i] = wire[i + 1]
           /\ wire' \in Seq(Frame)
           /\ passed' \in Nat
           /\ passed' <= Len(wire')
  <1>1. wire \in Seq(Frame) /\ wire # <<>>
    BY DEF TypeOK, TakeFrame
  <1>2. wire' = Tail(wire) /\ passed' = passed - 1
    BY DEF TakeFrame
  <1>3. passed \in Nat /\ passed > 0 /\ passed <= Len(wire)
    BY DEF TypeOK, TakeFrame
  <1> QED
    BY <1>1, <1>2, <1>3, TailType

\* Whatever the receiver reports, the feedback stays a sequence of messages.
LEMMA FeedType ==
    ASSUME TypeOK, NEW nak \in BOOLEAN, NEW seq \in Nat,
           Feed(nak, seq) \/ UNCHANGED feedback
    PROVE  feedback' \in Seq(FbMsg)
  <1>1. [nak |-> nak, seq |-> seq] \in FbMsg
    BY DEF FbMsg
  <1>2. feedback \in Seq(FbMsg)
    BY DEF TypeOK
  <1>3. CASE feedback' = Append(feedback, [nak |-> nak, seq |-> seq])
    BY <1>1, <1>2, <1>3, AppendType
  <1> QED
    BY <1>2, <1>3 DEF Feed

\* What the head of the sender's loop does to the types of the transmitter.
LEMMA LoopTopType ==
    ASSUME TypeOK, NEW active \in BOOLEAN, NEW cursor \in Nat, NEW end \in Nat,
           LoopTop(active, cursor, end)
    PROVE  /\ pc' \in {"train", "idle", "sending"}
           /\ sending' \in [sn : Nat, replay : BOOLEAN]
           /\ next_seq' \in Nat
           /\ retry_buffer' \in SUBSET Nat
           /\ replay_active' \in BOOLEAN
           /\ replay_cursor' \in Nat
           /\ replay_end' \in Nat
  <1>1. CASE SendReplay(active, cursor, end)
    BY <1>1 DEF SendReplay, StartFrame, LowerBound, LoopTop, TypeOK
  <1>2. CASE SendNew(active, cursor, end)
    <2>1. /\ pc' = "sending"
          /\ sending' = [sn |-> next_seq, replay |-> FALSE]
          /\ next_seq' = next_seq + 1
          /\ retry_buffer' = retry_buffer \cup {next_seq}
          /\ replay_active' = FALSE
          /\ replay_cursor' = cursor
          /\ replay_end' = end
      BY <1>2 DEF SendNew, StartFrame, LoopTop
    <2>2. next_seq \in Nat /\ retry_buffer \subseteq Nat
      BY DEF TypeOK
    <2>3. retry_buffer' \in SUBSET Nat /\ next_seq' \in Nat
      BY <2>1, <2>2
    <2> QED
      BY <2>1, <2>2, <2>3
  <1>3. CASE GoIdle(active, cursor, end)
    BY <1>3 DEF GoIdle, NoFrame, LoopTop, TypeOK
  <1> QED
    BY <1>1, <1>2, <1>3 DEF LoopTop

\* Every action keeps the types.
LEMMA TypeStep == TypeOK /\ [Next]_vars => TypeOK'
  <1> SUFFICES ASSUME TypeOK, [Next]_vars PROVE TypeOK'
    OBVIOUS
  <1> USE LinkAssumption
  <1>1. CASE Offer
    BY <1>1 DEF Offer, TypeOK, txVars, rxVars
  <1>2. CASE Trained
    <2>1. LoopTop(replay_active, replay_cursor, replay_end)
      BY <1>2 DEF Trained
    <2> QED
      BY <1>2, <2>1, LoopTopType DEF Trained, TypeOK, rxVars
  <1>3. CASE FrameSent
    <2>1. \E active \in BOOLEAN, cursor \in Nat, end \in Nat :
              LoopTop(active, cursor, end)
      <3>1. CASE sending.replay
        <4>1. PICK c \in CursorAfterReplay :
                  LoopTop(replay_active /\ c <= replay_end, c, replay_end)
          BY <1>3, <3>1 DEF FrameSent
        <4>2. c \in Nat
          BY DEF CursorAfterReplay, TypeOK
        <4>3. (replay_active /\ c <= replay_end) \in BOOLEAN
          OBVIOUS
        <4>4. replay_end \in Nat
          BY DEF TypeOK
        <4> QED
          BY <4>1, <4>2, <4>3, <4>4, Zenon
      <3>2. CASE ~sending.replay
        BY <1>3, <3>2 DEF FrameSent, TypeOK
      <3> QED
        BY <3>1, <3>2
    <2>2. /\ wire' = Append(wire, [sn |-> sending.sn, ok |-> TRUE])
          /\ UNCHANGED <<offered, passed, rxVars, feedback, errors>>
      BY <1>3 DEF FrameSent
    <2>3. wire' \in Seq(Frame) /\ Len(wire') = Len(wire) + 1
      BY <2>2 DEF TypeOK, Frame
    <2> QED
      BY <2>1, <2>2, <2>3, LoopTopType DEF TypeOK, rxVars
  <1>4. CASE Wake
    <2>1. LoopTop(replay_active, replay_cursor, replay_end)
      BY <1>4 DEF Wake
    <2> QED
      BY <1>4, <2>1, LoopTopType DEF Wake, TypeOK, rxVars
  <1>5. CASE ReplayTimeout
    <2>1. \E lo, hi \in Nat : LoopTop(TRUE, lo, hi)
      BY <1>5 DEF ReplayTimeout, TypeOK
    <2> QED
      BY <1>5, <2>1, LoopTopType DEF ReplayTimeout, TypeOK, rxVars
  <1>6. CASE ReceiveAck
    <2>1. feedback' \in Seq(FbMsg)
      BY <1>6, TailType DEF ReceiveAck, TypeOK
    <2>2. retry_buffer' \in SUBSET Nat
      BY <1>6 DEF ReceiveAck, TypeOK
    <2> QED
      BY <1>6, <2>1, <2>2 DEF ReceiveAck, TypeOK, rxVars
  <1>7. CASE ReceiveNak
    <2>1. feedback' \in Seq(FbMsg)
      BY <1>7, TailType DEF ReceiveNak, TypeOK
    <2>2. replay_active' \in BOOLEAN /\ replay_cursor' \in Nat /\ replay_end' \in Nat
      BY <1>7 DEF ReceiveNak, TypeOK
    <2> QED
      BY <1>7, <2>1, <2>2 DEF ReceiveNak, TypeOK, rxVars
  <1>8. CASE PhyIngress
    <2>0. /\ passed < Len(wire)
          /\ passed' = passed + 1
          /\ UNCHANGED <<offered, txVars, rxVars, feedback>>
      BY <1>8 DEF PhyIngress
    <2>1. /\ wire \in Seq(Frame) /\ Len(wire) \in Nat
          /\ passed \in Nat /\ errors \in 0 .. MaxErrors
          /\ passed' \in Nat /\ passed' <= Len(wire)
      BY <2>0 DEF TypeOK
    <2>2. CASE UNCHANGED <<wire, errors>>
      BY <2>0, <2>1, <2>2 DEF TypeOK, txVars, rxVars
    <2>3. CASE /\ errors < MaxErrors
               /\ errors' = errors + 1
               /\ wire' = [wire EXCEPT ![passed + 1].ok = FALSE]
      <3>1. wire' \in Seq(Frame) /\ Len(wire') = Len(wire)
        BY <2>0, <2>1, <2>3, Damage, SMTT(30)
      <3>2. errors' \in 0 .. MaxErrors
        BY <2>1, <2>3, SMTT(30)
      <3> QED
        BY <2>0, <2>1, <3>1, <3>2 DEF TypeOK, txVars, rxVars
    <2> QED
      BY <1>8, <2>2, <2>3 DEF PhyIngress
  <1>9. CASE RxInOrder
    <2>1. TakeFrame /\ Feed(FALSE, expected_seq)
      BY <1>9 DEF RxInOrder
    <2>2. feedback' \in Seq(FbMsg)
      BY <2>1, FeedType DEF TypeOK
    <2>3. Head(wire).sn \in Nat
      BY <2>1, TakeFrameType DEF Frame
    <2>4. delivered' \in Seq(Nat)
      <3>1. delivered \in Seq(Nat) /\ delivered' = Append(delivered, Head(wire).sn)
        BY <1>9 DEF RxInOrder, TypeOK
      <3> QED
        BY <2>3, <3>1, AppendType
    <2>5. unread' \in 0 .. FdiDepth /\ expected_seq' \in Nat
      BY <1>9 DEF RxInOrder, TypeOK
    <2>6. rx_retry' = FALSE /\ frames_since_nak' = 0 /\ UNCHANGED <<offered, txVars, errors>>
      BY <1>9 DEF RxInOrder
    <2>7. wire' \in Seq(Frame) /\ passed' \in Nat /\ passed' <= Len(wire')
      BY <2>1, TakeFrameType
    <2> QED
      BY <2>2, <2>4, <2>5, <2>6, <2>7 DEF TypeOK, txVars
  <1>10. CASE RxDuplicate
    <2>1. TakeFrame
      BY <1>10 DEF RxDuplicate
    <2>2. feedback' \in Seq(FbMsg)
      <3>1. CASE expected_seq > 0
        <4>1. expected_seq - 1 \in Nat
          BY <3>1 DEF TypeOK
        <4>2. Feed(FALSE, expected_seq - 1)
          BY <1>10, <3>1 DEF RxDuplicate
        <4> QED
          BY <4>1, <4>2, FeedType
      <3>2. CASE ~(expected_seq > 0)
        BY <1>10, <3>2 DEF RxDuplicate, TypeOK
      <3> QED
        BY <3>1, <3>2
    <2> QED
      BY <1>10, <2>1, <2>2, TakeFrameType DEF RxDuplicate, TypeOK, txVars, rxVars
  <1>11. CASE RxBad
    <2>1. TakeFrame /\ (Feed(TRUE, expected_seq) \/ UNCHANGED feedback)
      BY <1>11 DEF RxBad
    <2>2. feedback' \in Seq(FbMsg)
      BY <2>1, FeedType DEF TypeOK
    <2>3. frames_since_nak' \in Nat /\ rx_retry' \in BOOLEAN
      <3>1. frames_since_nak \in Nat
        BY DEF TypeOK
      <3>2. frames_since_nak' = frames_since_nak + 1 \/ frames_since_nak' = 0
        BY <1>11 DEF RxBad
      <3>3. rx_retry' = TRUE
        BY <1>11 DEF RxBad
      <3> QED
        BY <3>1, <3>2, <3>3
    <2> QED
      BY <1>11, <2>1, <2>2, <2>3, TakeFrameType DEF RxBad, TypeOK, txVars
  <1>12. CASE Consume
    BY <1>12 DEF Consume, TypeOK, txVars
  <1>13. CASE UNCHANGED vars
    BY <1>13 DEF vars, txVars, rxVars, TypeOK
  <1> QED
    BY <1>1, <1>2, <1>3, <1>4, <1>5, <1>6, <1>7, <1>8, <1>9, <1>10, <1>11,
       <1>12, <1>13 DEF Next, Sender, ReceiveFeedback, Receiver

\* The type invariant of the link direction.
THEOREM TypeCorrect == Spec => []TypeOK
  <1>1. Init => TypeOK
    <2> SUFFICES ASSUME Init PROVE TypeOK
      OBVIOUS
    <2>1. NoFrame \in [sn : Nat, replay : BOOLEAN]
      BY DEF NoFrame
    <2>2. /\ <<>> \in Seq(Frame) /\ <<>> \in Seq(FbMsg) /\ <<>> \in Seq(Nat)
          /\ Len(<<>>) = 0 /\ {} \in SUBSET Nat
      OBVIOUS
    <2>3. 0 \in 0 .. MaxFlits /\ 0 \in 0 .. FdiDepth /\ 0 \in 0 .. MaxErrors
      BY LinkAssumption
    <2> QED
      <3>1. /\ wire \in Seq(Frame) /\ passed \in Nat /\ passed <= Len(wire)
            /\ delivered \in Seq(Nat) /\ feedback \in Seq(FbMsg)
        BY <2>2 DEF Init
      <3>2. /\ sending \in [sn : Nat, replay : BOOLEAN]
            /\ pc \in {"train", "idle", "sending"}
        BY <2>1 DEF Init
      <3>3. /\ next_seq \in Nat /\ retry_buffer \in SUBSET Nat
            /\ replay_cursor \in Nat /\ replay_end \in Nat
            /\ expected_seq \in Nat /\ frames_since_nak \in Nat
        BY <2>2 DEF Init
      <3>4. replay_active \in BOOLEAN /\ rx_retry \in BOOLEAN
        BY DEF Init
      <3>5. offered \in 0 .. MaxFlits /\ unread \in 0 .. FdiDepth /\ errors \in 0 .. MaxErrors
        BY <2>3 DEF Init
      <3> QED
        BY <3>1, <3>2, <3>3, <3>4, <3>5 DEF TypeOK
  <1> QED
    BY <1>1, TypeStep, PTL DEF Spec

-----------------------------------------------------------------------------
(* The inductive invariant                                                   *)

\* The head of the sender's loop keeps the window in order: when it accepts a
\* flit the buffer had room, and whatever it starts to send is buffered.
LEMMA LoopTopWindow ==
    ASSUME TypeOK, InOrder, UnackedKept, WindowInv,
           NEW active \in BOOLEAN, NEW cursor \in Nat, NEW end \in Nat,
           LoopTop(active, cursor, end), UNCHANGED <<offered, delivered>>
    PROVE  InOrder' /\ UnackedKept' /\ WindowInv' /\ SendingInv' /\ next_seq <= next_seq'
  <1>0. next_seq \in Nat /\ retry_buffer \subseteq Nat /\ RetrySize \in Nat \ {0}
        /\ offered \in Nat /\ Len(delivered) \in Nat
    BY LinkAssumption DEF TypeOK
  <1>1. CASE SendReplay(active, cursor, end)
    <2>1. PICK s \in retry_buffer : pc' = "sending" /\ sending' = [sn |-> s, replay |-> TRUE]
      BY <1>1 DEF SendReplay, StartFrame
    <2>2. UNCHANGED <<next_seq, retry_buffer>>
      BY <1>1 DEF SendReplay
    <2>3. SendingInv'
      BY <2>1, <2>2 DEF SendingInv, WindowInv
    <2> QED
      BY <1>0, <2>2, <2>3 DEF InOrder, UnackedKept, WindowInv
  <1>2. CASE SendNew(active, cursor, end)
    <2>1. /\ pc' = "sending" /\ sending' = [sn |-> next_seq, replay |-> FALSE]
          /\ retry_buffer' = retry_buffer \cup {next_seq}
          /\ next_seq' = next_seq + 1
          /\ offered > next_seq /\ Cardinality(retry_buffer) < RetrySize
      BY <1>2 DEF SendNew, StartFrame, CanAccept
    <2>2. IsFiniteSet(retry_buffer)
      BY DEF WindowInv
    <2>3. ASSUME NEW s \in retry_buffer PROVE next_seq < s + RetrySize
      <3>1. s \in Nat /\ s < next_seq /\ s .. (next_seq - 1) \subseteq retry_buffer
        BY <1>0, <2>3 DEF WindowInv
      <3>2. Cardinality(s .. (next_seq - 1)) = next_seq - s
        <4>1. s \in Int /\ next_seq - 1 \in Int /\ s <= next_seq - 1
          BY <1>0, <3>1
        <4>2. Cardinality(s .. (next_seq - 1)) = (next_seq - 1) - s + 1
          BY <4>1, FS_Interval
        <4> QED
          BY <1>0, <3>1, <4>2
      <3>3. /\ Cardinality(s .. (next_seq - 1)) <= Cardinality(retry_buffer)
            /\ Cardinality(retry_buffer) \in Nat
        BY <2>2, <3>1, FS_Subset, FS_CardinalityType
      <3> QED
        BY <1>0, <2>1, <3>1, <3>2, <3>3
    <2>4. IsFiniteSet(retry_buffer')
      BY <2>1, <2>2, FS_AddElement
    <2>5. WindowInv'
      <3>1. ASSUME NEW s \in retry_buffer'
            PROVE  /\ s < next_seq'
                   /\ next_seq' <= s + RetrySize
                   /\ \A t \in s .. (next_seq' - 1) : t \in retry_buffer'
        <4>1. CASE s = next_seq
          BY <1>0, <2>1, <4>1
        <4>2. CASE s \in retry_buffer
          <5>1. s \in Nat /\ s < next_seq /\ next_seq < s + RetrySize
                /\ \A t \in s .. (next_seq - 1) : t \in retry_buffer
            BY <1>0, <2>3, <4>2 DEF WindowInv
          <5>2. \A t \in s .. (next_seq' - 1) : t \in s .. (next_seq - 1) \/ t = next_seq
            BY <1>0, <2>1, <5>1
          <5> QED
            BY <1>0, <2>1, <5>1, <5>2
        <4> QED
          BY <2>1, <3>1, <4>1, <4>2
      <3>2. next_seq' <= offered'
        BY <1>0, <2>1
      <3> QED
        BY <2>4, <3>1, <3>2 DEF WindowInv
    <2>6. UnackedKept'
      <3>1. ASSUME NEW n \in 0 .. (next_seq' - 1), n >= Len(delivered)
            PROVE  n \in retry_buffer'
        <4>1. n \in 0 .. (next_seq - 1) \/ n = next_seq
          BY <1>0, <2>1
        <4> QED
          BY <2>1, <3>1, <4>1 DEF UnackedKept
      <3> QED
        BY <3>1 DEF UnackedKept
    <2>7. SendingInv' /\ InOrder' /\ next_seq <= next_seq'
      BY <1>0, <2>1 DEF SendingInv, InOrder
    <2> QED
      BY <2>5, <2>6, <2>7
  <1>3. CASE GoIdle(active, cursor, end)
    <2>1. pc' = "idle" /\ UNCHANGED <<next_seq, retry_buffer>>
      BY <1>3 DEF GoIdle
    <2> QED
      BY <1>0, <2>1 DEF InOrder, UnackedKept, WindowInv, SendingInv
  <1> QED
    BY <1>1, <1>2, <1>3 DEF LoopTop

\* A frame the sender has built goes to the end of the wire, or nothing does.
LEMMA SenderStep ==
    ASSUME TypeOK, LinkInv,
           NEW active \in BOOLEAN, NEW cursor \in Nat, NEW end \in Nat,
           LoopTop(active, cursor, end),
           UNCHANGED <<offered, rxVars, feedback>>,
           \/ UNCHANGED wire
           \/ /\ pc = "sending"
              /\ wire' = Append(wire, [sn |-> sending.sn, ok |-> TRUE])
    PROVE  LinkInv'
  <1>1. /\ expected_seq' = expected_seq /\ delivered' = delivered
        /\ offered' = offered /\ feedback' = feedback
    BY DEF rxVars
  <1>2. InOrder' /\ UnackedKept' /\ WindowInv' /\ SendingInv' /\ next_seq <= next_seq'
    BY <1>1, LoopTopWindow DEF LinkInv
  <1>3. FeedbackInv'
    BY <1>1 DEF LinkInv, FeedbackInv
  <1>4. next_seq \in Nat /\ next_seq' \in Nat /\ RetrySize \in Nat /\ expected_seq \in Nat
        /\ wire \in Seq(Frame)
    BY LinkAssumption, LoopTopType DEF TypeOK
  <1>5. \A i \in 1 .. Len(wire) : wire[i].sn \in Nat
    BY <1>4, FrameType
  <1>6. CASE UNCHANGED wire
    BY <1>1, <1>2, <1>3, <1>4, <1>5, <1>6, SMTT(30) DEF LinkInv, WireInv
  <1>7. CASE /\ pc = "sending"
             /\ wire' = Append(wire, [sn |-> sending.sn, ok |-> TRUE])
    <2> DEFINE x == [sn |-> sending.sn, ok |-> TRUE]
               n == Len(wire)
    <2>1. sending.sn \in Nat /\ x \in Frame /\ x.sn = sending.sn
      BY DEF TypeOK, Frame
    <2>2. sending.sn < next_seq /\ next_seq <= sending.sn + RetrySize
      BY <1>7 DEF LinkInv, SendingInv
    <2>3. expected_seq <= next_seq
      BY DEF LinkInv, FeedbackInv, InOrder
    <2>4. /\ n \in Nat
          /\ Len(wire') = n + 1
          /\ \A i \in 1 .. n : wire'[i] = wire[i]
          /\ wire'[n + 1] = x
      BY <1>4, <1>7, <2>1, AppendType
    <2> HIDE DEF n
    <2>5. \A i \in 1 .. n : wire[i].sn < next_seq /\ expected_seq <= wire[i].sn + RetrySize
      BY DEF LinkInv, WireInv, n
    <2>6. \A i, j \in 1 .. n : i < j => wire[i].sn < wire[j].sn + RetrySize
      BY DEF LinkInv, WireInv, n
    <2>7. ASSUME NEW i \in 1 .. Len(wire')
          PROVE  wire'[i].sn < next_seq' /\ expected_seq' <= wire'[i].sn + RetrySize
      <3>1. CASE i \in 1 .. n
        BY <1>1, <1>2, <1>4, <1>5, <2>4, <2>5, <3>1 DEF n
      <3>2. CASE i = n + 1
        BY <1>1, <1>2, <1>4, <2>1, <2>2, <2>3, <2>4, <3>2
      <3> QED
        BY <2>4, <3>1, <3>2
    <2>8. ASSUME NEW i \in 1 .. Len(wire'), NEW j \in 1 .. Len(wire'), i < j
          PROVE  wire'[i].sn < wire'[j].sn + RetrySize
      <3>1. i \in 1 .. n
        BY <2>4, <2>8
      <3>2. CASE j \in 1 .. n
        BY <2>4, <2>6, <2>8, <3>1, <3>2
      <3>3. CASE j = n + 1
        <4>1. wire'[i].sn < next_seq /\ wire'[i].sn \in Nat
          BY <1>5, <2>4, <2>5, <3>1 DEF n
        <4>2. wire'[j].sn = sending.sn
          BY <2>1, <2>4, <3>3
        <4> QED
          BY <1>4, <2>1, <2>2, <4>1, <4>2, SMTT(30)
      <3> QED
        BY <2>4, <3>2, <3>3
    <2>9. WireInv'
      BY <2>7, <2>8 DEF WireInv
    <2> QED
      BY <1>2, <1>3, <2>9 DEF LinkInv
  <1> QED
    BY <1>6, <1>7

\* The receiver's verdict about the frame at the head of the wire is right.
LEMMA HeadVerdict ==
    ASSUME TypeOK, LinkInv, passed > 0
    PROVE  LET s == Head(wire).sn
               d == Diff(s, expected_seq)
           IN  /\ s \in Nat /\ s < next_seq
               /\ d \in 0 .. (SeqSpace - 1)
               /\ d = 0 <=> s = expected_seq
               /\ d >= HalfSeq <=> s < expected_seq
  <1> DEFINE s == Head(wire).sn
  <1>1. wire \in Seq(Frame) /\ Len(wire) > 0 /\ Head(wire) = wire[1] /\ Head(wire) \in Frame
    <2>1. wire \in Seq(Frame) /\ wire # <<>>
      BY DEF TypeOK
    <2> QED
      BY <2>1, TailType
  <1>2. s \in Nat /\ expected_seq \in Nat /\ next_seq \in Nat
    BY <1>1 DEF TypeOK, Frame
  <1>3. s < next_seq /\ expected_seq <= s + RetrySize
    BY <1>1 DEF LinkInv, WireInv
  <1>4. next_seq <= expected_seq + RetrySize
    <2>1. CASE expected_seq < next_seq
      BY <1>2, <2>1 DEF LinkInv, UnackedKept, FeedbackInv, WindowInv
    <2>2. CASE ~(expected_seq < next_seq)
      BY <1>2, <2>2, LinkAssumption
    <2> QED
      BY <2>1, <2>2
  <1>5. RetrySize \in Nat /\ HalfSeq \in Nat /\ RetrySize <= HalfSeq
    BY LinkAssumption
  <1>6. expected_seq <= s + HalfSeq /\ s < expected_seq + HalfSeq
    BY <1>2, <1>3, <1>4, <1>5
  <1> HIDE DEF s
  <1>7. /\ Diff(s, expected_seq) \in 0 .. (SeqSpace - 1)
        /\ Diff(s, expected_seq) = 0 <=> s = expected_seq
        /\ Diff(s, expected_seq) >= HalfSeq <=> s < expected_seq
    BY <1>2, <1>6, DiffIsRight
  <1> QED
    BY <1>2, <1>3, <1>7 DEF s

\* Taking the frame at the head keeps what is known of the others.
LEMMA TakeFrameWire ==
    ASSUME TypeOK, LinkInv, TakeFrame, UNCHANGED txVars,
           \/ expected_seq' = expected_seq
           \/ expected_seq' = Head(wire).sn + 1
    PROVE  WireInv'
  <1>1. /\ Head(wire) = wire[1] /\ Len(wire) \in Nat /\ Len(wire) > 0
        /\ Len(wire') = Len(wire) - 1
        /\ \A i \in 1 .. (Len(wire) - 1) : wire'[i] = wire[i + 1]
        /\ wire \in Seq(Frame)
    BY TakeFrameType DEF TypeOK
  <1>2. \A i \in 1 .. Len(wire) : wire[i].sn \in Nat
    BY <1>1, FrameType
  <1>3. RetrySize \in Nat /\ expected_seq \in Nat /\ next_seq' = next_seq
    BY LinkAssumption DEF TypeOK, txVars
  <1>4. \A i \in 1 .. Len(wire) : wire[i].sn < next_seq /\ expected_seq <= wire[i].sn + RetrySize
    BY DEF LinkInv, WireInv
  <1>5. \A i, j \in 1 .. Len(wire) : i < j => wire[i].sn < wire[j].sn + RetrySize
    BY DEF LinkInv, WireInv
  <1>6. ASSUME NEW i \in 1 .. Len(wire')
        PROVE  wire'[i].sn < next_seq' /\ expected_seq' <= wire'[i].sn + RetrySize
    <2>1. i + 1 \in 1 .. Len(wire) /\ 1 \in 1 .. Len(wire) /\ wire'[i] = wire[i + 1] /\ 1 < i + 1
      BY <1>1
    <2>2. wire[1].sn < wire[i + 1].sn + RetrySize /\ wire[1].sn \in Nat /\ wire[i + 1].sn \in Nat
      BY <1>2, <1>5, <2>1
    <2> QED
      BY <1>1, <1>3, <1>4, <2>1, <2>2, SMTT(30)
  <1>7. ASSUME NEW i \in 1 .. Len(wire'), NEW j \in 1 .. Len(wire'), i < j
        PROVE  wire'[i].sn < wire'[j].sn + RetrySize
    <2>1. i + 1 \in 1 .. Len(wire) /\ j + 1 \in 1 .. Len(wire) /\ i + 1 < j + 1
          /\ wire'[i] = wire[i + 1] /\ wire'[j] = wire[j + 1]
      BY <1>1, <1>7
    <2> QED
      BY <1>5, <2>1
  <1> QED
    BY <1>6, <1>7 DEF WireInv

\* Sending feedback that acknowledges only what was handed out.
LEMMA FeedKeeps ==
    ASSUME TypeOK, LinkInv, NEW nak \in BOOLEAN, NEW seq \in Nat,
           \/ Feed(nak, seq)
           \/ UNCHANGED feedback,
           expected_seq' \in Nat, expected_seq <= expected_seq',
           expected_seq' = Len(delivered'),
           nak \/ seq < expected_seq'
    PROVE  FeedbackInv'
  <1>1. /\ feedback \in Seq(FbMsg) /\ expected_seq \in Nat
        /\ \A i \in 1 .. Len(feedback) : ~feedback[i].nak => feedback[i].seq < expected_seq
    BY DEF TypeOK, LinkInv, FeedbackInv
  <1>2. \A i \in 1 .. Len(feedback) : feedback[i].seq \in Nat
    <2>1. \A i \in 1 .. Len(feedback) : feedback[i] \in FbMsg
      BY <1>1
    <2> QED
      BY <2>1 DEF FbMsg
  <1>3. \A i \in 1 .. Len(feedback) : ~feedback[i].nak => feedback[i].seq < expected_seq'
    BY <1>1, <1>2
  <1>4. CASE UNCHANGED feedback
    BY <1>3, <1>4 DEF FeedbackInv
  <1>5. CASE Feed(nak, seq)
    <2> DEFINE x == [nak |-> nak, seq |-> seq]
    <2>1. x \in FbMsg /\ x.nak = nak /\ x.seq = seq
      BY DEF FbMsg
    <2>2. feedback' = Append(feedback, x)
      BY <1>5 DEF Feed
    <2> HIDE DEF x
    <2>3. /\ Len(feedback) \in Nat /\ Len(feedback') = Len(feedback) + 1
          /\ \A i \in 1 .. Len(feedback) : feedback'[i] = feedback[i]
          /\ feedback'[Len(feedback) + 1] = x
      BY <1>1, <2>1, <2>2, AppendType
    <2>4. ASSUME NEW i \in 1 .. Len(feedback'), ~feedback'[i].nak
          PROVE  feedback'[i].seq < expected_seq'
      <3>1. CASE i \in 1 .. Len(feedback)
        BY <1>3, <2>3, <2>4, <3>1
      <3>2. CASE i = Len(feedback) + 1
        BY <2>1, <2>3, <2>4, <3>2
      <3> QED
        BY <2>3, <3>1, <3>2
    <2> QED
      BY <2>4 DEF FeedbackInv
  <1> QED
    BY <1>4, <1>5

\* Taking feedback out keeps what is known of the rest.
LEMMA FeedbackTail ==
    ASSUME TypeOK, LinkInv, feedback # <<>>, feedback' = Tail(feedback),
           UNCHANGED <<expected_seq, delivered>>
    PROVE  /\ FeedbackInv'
           /\ Head(feedback).seq \in Nat
           /\ ~Head(feedback).nak => Head(feedback).seq < expected_seq
  <1>1. /\ feedback \in Seq(FbMsg)
        /\ expected_seq = Len(delivered)
        /\ \A i \in 1 .. Len(feedback) : ~feedback[i].nak => feedback[i].seq < expected_seq
    BY DEF TypeOK, LinkInv, FeedbackInv
  <1>2. /\ Len(feedback) \in Nat /\ Len(feedback) > 0
        /\ Len(feedback') = Len(feedback) - 1
        /\ Head(feedback) \in FbMsg /\ Head(feedback) = feedback[1]
        /\ \A i \in 1 .. (Len(feedback) - 1) : feedback'[i] = feedback[i + 1]
    BY <1>1, TailType
  <1>3. Head(feedback).seq \in Nat
    BY <1>2 DEF FbMsg
  <1>4. ASSUME NEW i \in 1 .. Len(feedback'), ~feedback'[i].nak
        PROVE  feedback'[i].seq < expected_seq'
    <2>1. i + 1 \in 1 .. Len(feedback) /\ feedback'[i] = feedback[i + 1]
      BY <1>2
    <2> QED
      BY <1>1, <1>4, <2>1
  <1> QED
    BY <1>1, <1>2, <1>3, <1>4 DEF FeedbackInv

\* Every action keeps the inductive invariant.
LEMMA LinkStep == TypeOK /\ LinkInv /\ [Next]_vars => LinkInv'
  <1> SUFFICES ASSUME TypeOK, LinkInv, [Next]_vars PROVE LinkInv'
    OBVIOUS
  <1>t. /\ next_seq \in Nat /\ retry_buffer \subseteq Nat /\ RetrySize \in Nat
        /\ offered \in Nat /\ expected_seq \in Nat /\ delivered \in Seq(Nat)
        /\ Len(delivered) = expected_seq /\ replay_active \in BOOLEAN
        /\ replay_cursor \in Nat /\ replay_end \in Nat
    BY LinkAssumption DEF TypeOK, LinkInv, FeedbackInv
  <1>1. CASE Offer
    <2>1. offered' = offered + 1 /\ UNCHANGED <<txVars, wire, rxVars, feedback>>
      BY <1>1 DEF Offer
    <2>2. WindowInv'
      BY <1>t, <2>1 DEF LinkInv, WindowInv, txVars
    <2> QED
      BY <2>1, <2>2 DEF LinkInv, InOrder, UnackedKept, SendingInv, WireInv,
                        FeedbackInv, txVars, rxVars
  <1>2. CASE Trained
    BY <1>2, <1>t, SenderStep DEF Trained
  <1>3. CASE FrameSent
    <2>1. \E active \in BOOLEAN, cursor \in Nat, end \in Nat : LoopTop(active, cursor, end)
      <3>1. CASE sending.replay
        <4>1. PICK c \in CursorAfterReplay :
                  LoopTop(replay_active /\ c <= replay_end, c, replay_end)
          BY <1>3, <3>1 DEF FrameSent
        <4>2. c \in Nat
          BY DEF CursorAfterReplay, TypeOK
        <4>3. (replay_active /\ c <= replay_end) \in BOOLEAN
          OBVIOUS
        <4> QED
          BY <1>t, <4>1, <4>2, <4>3, Zenon
      <3>2. CASE ~sending.replay
        BY <1>3, <1>t, <3>2 DEF FrameSent
      <3> QED
        BY <3>1, <3>2
    <2>2. /\ pc = "sending"
          /\ wire' = Append(wire, [sn |-> sending.sn, ok |-> TRUE])
          /\ UNCHANGED <<offered, rxVars, feedback>>
      BY <1>3 DEF FrameSent
    <2> QED
      BY <2>1, <2>2, SenderStep
  <1>4. CASE Wake
    BY <1>4, <1>t, SenderStep DEF Wake
  <1>5. CASE ReplayTimeout
    <2>1. \E lo, hi \in Nat : LoopTop(TRUE, lo, hi)
      BY <1>5, <1>t DEF ReplayTimeout
    <2>2. UNCHANGED <<offered, wire, rxVars, feedback>>
      BY <1>5 DEF ReplayTimeout
    <2> QED
      BY <2>1, <2>2, SenderStep
  <1>6. CASE ReceiveAck
    <2> DEFINE a == Head(feedback).seq
    <2>1. /\ feedback # <<>> /\ feedback' = Tail(feedback) /\ ~Head(feedback).nak
          /\ retry_buffer' = {s \in retry_buffer : s > a}
          /\ UNCHANGED <<offered, pc, sending, next_seq, wire, rxVars>>
      BY <1>6 DEF ReceiveAck
    <2>2. FeedbackInv' /\ a \in Nat /\ a < expected_seq
      BY <2>1, FeedbackTail DEF rxVars
    <2> HIDE DEF a
    <2>3. IsFiniteSet(retry_buffer')
      <3>1. retry_buffer' \subseteq retry_buffer
        BY <2>1
      <3> QED
        BY <3>1, FS_Subset DEF LinkInv, WindowInv
    <2>4. WindowInv'
      <3>1. ASSUME NEW s \in retry_buffer'
            PROVE  /\ s < next_seq /\ next_seq <= s + RetrySize
                   /\ \A u \in s .. (next_seq - 1) : u \in retry_buffer'
        <4>1. s \in retry_buffer /\ s > a /\ s \in Nat
          BY <1>t, <2>1
        <4>2. /\ s < next_seq /\ next_seq <= s + RetrySize
              /\ \A u \in s .. (next_seq - 1) : u \in retry_buffer
          BY <4>1 DEF LinkInv, WindowInv
        <4>3. \A u \in s .. (next_seq - 1) : u > a
          BY <1>t, <2>2, <4>1
        <4> QED
          BY <2>1, <4>2, <4>3
      <3> QED
        BY <2>1, <2>3, <3>1 DEF LinkInv, WindowInv
    <2>5. UnackedKept'
      <3>1. ASSUME NEW n \in 0 .. (next_seq - 1), n >= Len(delivered)
            PROVE  n \in retry_buffer'
        <4>1. n \in retry_buffer
          BY <3>1 DEF LinkInv, UnackedKept
        <4>2. n > a
          BY <1>t, <2>2, <3>1
        <4> QED
          BY <2>1, <4>1, <4>2
      <3> QED
        BY <2>1, <3>1 DEF UnackedKept, rxVars
    <2> QED
      BY <2>1, <2>2, <2>4, <2>5 DEF LinkInv, InOrder, SendingInv, WireInv, rxVars
  <1>7. CASE ReceiveNak
    <2>1. /\ feedback # <<>> /\ feedback' = Tail(feedback)
          /\ UNCHANGED <<offered, pc, sending, next_seq, retry_buffer, wire, rxVars>>
      BY <1>7 DEF ReceiveNak
    <2>2. FeedbackInv'
      BY <2>1, FeedbackTail DEF rxVars
    <2> QED
      BY <2>1, <2>2 DEF LinkInv, InOrder, UnackedKept, WindowInv, SendingInv, WireInv, rxVars
  <1>8. CASE PhyIngress
    <2>1. UNCHANGED <<offered, txVars, rxVars, feedback>> /\ wire \in Seq(Frame)
      BY <1>8 DEF PhyIngress, TypeOK
    <2>2. Len(wire') = Len(wire) /\ \A i \in 1 .. Len(wire) : wire'[i].sn = wire[i].sn
      <3>1. CASE UNCHANGED wire
        BY <3>1
      <3>2. CASE wire' = [wire EXCEPT ![passed + 1].ok = FALSE]
        <4>1. passed + 1 \in 1 .. Len(wire)
          BY <1>8, SMTT(30) DEF PhyIngress, TypeOK
        <4> QED
          BY <2>1, <3>2, <4>1, Damage
      <3> QED
        BY <1>8, <3>1, <3>2 DEF PhyIngress
    <2>3. WireInv'
      BY <2>1, <2>2 DEF LinkInv, WireInv, txVars, rxVars
    <2> QED
      BY <2>1, <2>3 DEF LinkInv, InOrder, UnackedKept, WindowInv, SendingInv,
                        FeedbackInv, txVars, rxVars
  <1>9. CASE RxInOrder
    <2>1. /\ TakeFrame /\ Feed(FALSE, expected_seq) /\ UNCHANGED <<offered, txVars>>
          /\ delivered' = Append(delivered, Head(wire).sn)
          /\ expected_seq' = expected_seq + 1
          /\ Diff(Head(wire).sn, expected_seq) = 0 /\ passed > 0
      BY <1>9 DEF RxInOrder, TakeFrame
    <2>2. Head(wire).sn = expected_seq /\ expected_seq < next_seq
      BY <2>1, HeadVerdict
    <2>3. /\ Len(delivered') = expected_seq + 1
          /\ \A i \in 1 .. expected_seq : delivered'[i] = delivered[i]
          /\ delivered'[expected_seq + 1] = expected_seq
      BY <1>t, <2>1, <2>2, AppendType
    <2>4. WireInv'
      BY <2>1, <2>2, TakeFrameWire
    <2>5. FeedbackInv'
      <3>1. /\ expected_seq' \in Nat /\ expected_seq <= expected_seq'
            /\ expected_seq' = Len(delivered') /\ expected_seq < expected_seq'
        BY <1>t, <2>1, <2>3
      <3>2. FALSE \in BOOLEAN /\ Feed(FALSE, expected_seq)
        BY <2>1
      <3> QED
        BY <1>t, <3>1, <3>2, FeedKeeps
    <2>6. InOrder'
      <3>1. Len(delivered') <= next_seq'
        BY <1>t, <2>1, <2>2, <2>3 DEF txVars
      <3>2. \A i \in 1 .. expected_seq : delivered[i] = i - 1
        BY <1>t DEF LinkInv, InOrder
      <3>3. ASSUME NEW i \in 1 .. Len(delivered') PROVE delivered'[i] = i - 1
        <4>1. i \in 1 .. expected_seq \/ i = expected_seq + 1
          BY <1>t, <2>3
        <4> QED
          BY <1>t, <2>3, <3>2, <4>1
      <3> QED
        BY <3>1, <3>3 DEF InOrder
    <2>7. UnackedKept'
      BY <1>t, <2>1, <2>3 DEF LinkInv, UnackedKept, txVars
    <2> QED
      BY <2>1, <2>4, <2>5, <2>6, <2>7 DEF LinkInv, WindowInv, SendingInv, txVars
  <1>10. CASE RxDuplicate
    <2>1. TakeFrame /\ UNCHANGED <<offered, txVars, rxVars>>
      BY <1>10 DEF RxDuplicate
    <2>2. FeedbackInv'
      <3>1. CASE expected_seq > 0
        <4>1. Feed(FALSE, expected_seq - 1)
          BY <1>10, <3>1 DEF RxDuplicate
        <4>2. expected_seq - 1 \in Nat
          BY <1>t, <3>1
        <4>3. expected_seq' = expected_seq /\ delivered' = delivered
          BY <2>1 DEF rxVars
        <4>4. /\ expected_seq' \in Nat /\ expected_seq <= expected_seq'
              /\ expected_seq' = Len(delivered') /\ expected_seq - 1 < expected_seq'
          BY <1>t, <4>3
        <4> QED
          BY <4>1, <4>2, <4>4, FeedKeeps
      <3>2. CASE ~(expected_seq > 0)
        BY <1>10, <2>1, <3>2 DEF RxDuplicate, LinkInv, FeedbackInv, rxVars
      <3> QED
        BY <3>1, <3>2
    <2>3. WireInv'
      BY <2>1, TakeFrameWire DEF rxVars
    <2> QED
      BY <2>1, <2>2, <2>3 DEF LinkInv, InOrder, UnackedKept, WindowInv, SendingInv,
                              txVars, rxVars
  <1>11. CASE RxBad
    <2>1. /\ TakeFrame /\ UNCHANGED <<offered, txVars, expected_seq, delivered>>
          /\ Feed(TRUE, expected_seq) \/ UNCHANGED feedback
      BY <1>11 DEF RxBad
    <2>2. FeedbackInv'
      <3>1. /\ expected_seq' \in Nat /\ expected_seq <= expected_seq'
            /\ expected_seq' = Len(delivered')
        BY <1>t, <2>1
      <3> QED
        BY <1>t, <2>1, <3>1, FeedKeeps
    <2>3. WireInv'
      BY <2>1, TakeFrameWire
    <2> QED
      BY <2>1, <2>2, <2>3 DEF LinkInv, InOrder, UnackedKept, WindowInv, SendingInv, txVars
  <1>12. CASE Consume
    BY <1>12 DEF Consume, LinkInv, InOrder, UnackedKept, WindowInv, SendingInv,
                 WireInv, FeedbackInv, txVars
  <1>13. CASE UNCHANGED vars
    BY <1>13 DEF vars, LinkInv, InOrder, UnackedKept, WindowInv, SendingInv,
                 WireInv, FeedbackInv, txVars, rxVars
  <1> QED
    BY <1>1, <1>2, <1>3, <1>4, <1>5, <1>6, <1>7, <1>8, <1>9, <1>10, <1>11,
       <1>12, <1>13 DEF Next, Sender, ReceiveFeedback, Receiver

\* The inductive invariant holds: window, frames in flight and feedback agree.
THEOREM LinkInvariant == Spec => []LinkInv
  <1>1. Init => LinkInv
    <2> SUFFICES ASSUME Init PROVE LinkInv
      OBVIOUS
    <2>1. IsFiniteSet({})
      BY FS_EmptySet
    <2> QED
      BY <2>1 DEF Init, LinkInv, InOrder, UnackedKept, WindowInv, SendingInv,
                  WireInv, FeedbackInv
  <1> QED
    BY <1>1, LinkStep, TypeCorrect, PTL DEF Spec

\* Flits are handed out exactly once and in order, whatever is corrupted,
\* replayed or duplicated on the way.
THEOREM DeliveredInOrder == Spec => []InOrder
  <1>1. LinkInv => InOrder
    BY DEF LinkInv
  <1> QED
    BY <1>1, LinkInvariant, PTL

\* No accepted flit leaves the retry buffer before it is handed out.
THEOREM NothingForgotten == Spec => []UnackedKept
  <1>1. LinkInv => UnackedKept
    BY DEF LinkInv
  <1> QED
    BY <1>1, LinkInvariant, PTL

\* The comparison of header bits never mistakes an old frame for a new one.
THEOREM VerdictCorrect == Spec => []VerdictIsRight
  <1>1. TypeOK /\ LinkInv => VerdictIsRight
    BY HeadVerdict DEF VerdictIsRight
  <1> QED
    BY <1>1, LinkInvariant, TypeCorrect, PTL

\* One direction of the link implements a stream of flits.
THEOREM LinkIsAStream == Spec => ImplementsStream
  <1>1. Init => Stream!StreamInit
    BY DEF Init, Stream!StreamInit
  <1>2. TypeOK /\ LinkInv /\ [Next]_vars => [Stream!StreamNext]_Stream!streamVars
    <2> SUFFICES ASSUME TypeOK, LinkInv, [Next]_vars
                 PROVE  Stream!StreamNext \/ UNCHANGED <<offered, delivered>>
      BY DEF Stream!streamVars
    <2>1. CASE Offer
      BY <2>1 DEF Offer, rxVars, Stream!StreamNext, Stream!Write
    <2>2. CASE RxInOrder
      <3>1. /\ TakeFrame /\ UNCHANGED offered
            /\ delivered' = Append(delivered, Head(wire).sn)
            /\ Diff(Head(wire).sn, expected_seq) = 0 /\ passed > 0
        BY <2>2 DEF RxInOrder, TakeFrame
      <3>2. Head(wire).sn = expected_seq /\ expected_seq < next_seq
        BY <3>1, HeadVerdict
      <3>3. expected_seq = Len(delivered) /\ next_seq <= offered
        BY DEF LinkInv, FeedbackInv, WindowInv
      <3>4. Len(delivered) < offered
        BY <3>2, <3>3 DEF TypeOK
      <3> QED
        BY <3>1, <3>2, <3>3, <3>4 DEF Stream!StreamNext, Stream!HandOut
    <2>3. CASE Sender
      BY <2>3 DEF Sender, Trained, FrameSent, Wake, ReplayTimeout, rxVars
    <2>4. CASE ReceiveFeedback
      BY <2>4 DEF ReceiveFeedback, ReceiveAck, ReceiveNak, rxVars
    <2>5. CASE PhyIngress
      BY <2>5 DEF PhyIngress, rxVars
    <2>6. CASE RxDuplicate
      BY <2>6 DEF RxDuplicate, rxVars
    <2>7. CASE RxBad
      BY <2>7 DEF RxBad
    <2>8. CASE Consume
      BY <2>8 DEF Consume
    <2>9. CASE UNCHANGED vars
      BY <2>9 DEF vars, rxVars
    <2> QED
      BY <2>1, <2>2, <2>3, <2>4, <2>5, <2>6, <2>7, <2>8, <2>9 DEF Next, Receiver
  <1> QED
    BY <1>1, <1>2, LinkInvariant, TypeCorrect, PTL
       DEF Spec, ImplementsStream, Stream!StreamSpec
=============================================================================
