------------------------------ MODULE UcieLink ------------------------------
(***************************************************************************)
(* One direction of the UCIe link model (ucie-model/src/ucie_link.h): the  *)
(* TxAdapter with its two threads, the PhyChannel, the RxAdapter and the    *)
(* FeedbackPath.  UcieLink instantiates this four-module chain twice, with  *)
(* no state shared between the directions except statistics.                *)
(*                                                                         *)
(* SystemC threads are cooperative: a thread runs without interruption from *)
(* one wait (or blocking FIFO access) to the next, so an action here is one *)
(* such stretch.  The sender's stretches are: the end of training, the end  *)
(* of a frame's serialisation, a wake-up from its idle wait, and a timeout  *)
(* of that wait; each of them ends by running the head of the loop again,   *)
(* operator LoopTop.  The feedback thread runs between any two of them, in  *)
(* particular while the sender waits inside send_one.                       *)
(*                                                                         *)
(* Time is abstracted: the replay timer may expire whenever the sender is   *)
(* idle with unacknowledged flits (back-pressure of the receiver makes it   *)
(* expire early in the program too).  A flit is identified with its 64-bit  *)
(* sequence number; only the low bits travel in the header, and only they   *)
(* are used by the receiver.  The CRC is taken to detect every corruption.  *)
(***************************************************************************)
EXTENDS Integers, Sequences, FiniteSets

CONSTANTS
    HalfSeq,      \* half the sequence space of the header: 128 in the code
    RetrySize,    \* cfg.retry_buffer_size
    NakRepeat,    \* cfg.nak_repeat_frames
    TxFifo,       \* depth of tx_to_phy (4)
    FbFifo,       \* BOUND: feedback on its way (the path's deque has none)
    FdiDepth,     \* depth of the FDI FIFO behind the receiver
    MaxInFlight,  \* BOUND: frames between the PHY's ingress and the RX
    MaxFlits,     \* BOUND: flits the producer writes
    MaxErrors     \* BOUND: frames the PHY corrupts

\* ucie_common.h bounds retry_buffer_size by 127, below half the sequence
\* space; half of it would still do.
ASSUME LinkAssumption ==
    /\ HalfSeq \in Nat \ {0}
    /\ RetrySize \in 1 .. HalfSeq
    /\ NakRepeat \in Nat \ {0}
    /\ TxFifo \in Nat \ {0}
    /\ FbFifo \in Nat \ {0}
    /\ FdiDepth \in Nat \ {0}
    /\ MaxInFlight \in Nat \ {0}
    /\ MaxFlits \in Nat
    /\ MaxErrors \in Nat

VARIABLES
    offered,          \* flits written to fdi_in so far
    pc,               \* where the sender thread waits
    sending,          \* the frame being serialised
    next_seq,         \* next_seq_
    retry_buffer,     \* the keys of retry_buffer_
    replay_active,    \* replay_active_
    replay_cursor,    \* replay_cursor_
    replay_end,       \* replay_end_
    wire,             \* tx_to_phy, the PHY's pending_ and phy_to_rx, in a row
    passed,           \* how many frames of wire are past the PHY's ingress
    expected_seq,     \* expected_seq_
    rx_retry,         \* rx_state_ = RetryInProgress
    frames_since_nak, \* frames_since_nak_
    delivered,        \* every flit written to fdi_out, oldest first
    unread,           \* how many of them are still in the FDI FIFO
    feedback,         \* rx_to_feedback, the path's pending_ and feedback_to_tx
    errors            \* frames corrupted so far

txVars == <<pc, sending, next_seq, retry_buffer,
            replay_active, replay_cursor, replay_end>>
rxVars == <<expected_seq, rx_retry, frames_since_nak, delivered, unread>>
vars == <<offered, txVars, wire, passed, rxVars, feedback, errors>>

SeqSpace == 2 * HalfSeq

Frame == [sn : Nat, ok : BOOLEAN]
FbMsg == [nak : BOOLEAN, seq : Nat]
NoFrame == [sn |-> 0, replay |-> FALSE]

Init ==
    /\ offered = 0
    /\ pc = "train"
    /\ sending = NoFrame
    /\ next_seq = 0
    /\ retry_buffer = {}
    /\ replay_active = FALSE
    /\ replay_cursor = 0
    /\ replay_end = 0
    /\ wire = <<>>
    /\ passed = 0
    /\ expected_seq = 0
    /\ rx_retry = FALSE
    /\ frames_since_nak = 0
    /\ delivered = <<>>
    /\ unread = 0
    /\ feedback = <<>>
    /\ errors = 0

-----------------------------------------------------------------------------
(* The transmitter: sender thread                                           *)

\* The producer writes a flit to fdi_in.
Offer ==
    /\ offered < MaxFlits
    /\ offered' = offered + 1
    /\ UNCHANGED <<txVars, wire, passed, rxVars, feedback, errors>>

\* retry_buffer_.lower_bound(from) finds s.
LowerBound(from, s) ==
    /\ s \in retry_buffer
    /\ from <= s
    /\ \A t \in retry_buffer : from <= t => s <= t

\* The replay that starts at cursor still has a flit to send.
ReplayDue(active, cursor, end) ==
    active /\ \E s \in retry_buffer : cursor <= s /\ s <= end

\* A new flit waits and the retry buffer has room for it.
CanAccept == offered > next_seq /\ Cardinality(retry_buffer) < RetrySize

\* send_one up to its wait: the frame is built and starts to serialise.
StartFrame(s, replay) ==
    /\ pc' = "sending"
    /\ sending' = [sn |-> s, replay |-> replay]

SendReplay(active, cursor, end) ==
    /\ ReplayDue(active, cursor, end)
    /\ \E s \in retry_buffer : LowerBound(cursor, s) /\ StartFrame(s, TRUE)
    /\ replay_active' = TRUE
    /\ UNCHANGED <<next_seq, retry_buffer>>

SendNew(active, cursor, end) ==
    /\ ~ReplayDue(active, cursor, end)
    /\ CanAccept
    /\ StartFrame(next_seq, FALSE)
    /\ retry_buffer' = retry_buffer \cup {next_seq}
    /\ next_seq' = next_seq + 1
    /\ replay_active' = FALSE

GoIdle(active, cursor, end) ==
    /\ ~ReplayDue(active, cursor, end)
    /\ ~CanAccept
    /\ pc' = "idle"
    /\ sending' = NoFrame
    /\ replay_active' = FALSE
    /\ UNCHANGED <<next_seq, retry_buffer>>

\* The sender's loop from its head to its next wait, entered with these
\* values of replay_active_, replay_cursor_ and replay_end_.
LoopTop(active, cursor, end) ==
    /\ \/ SendReplay(active, cursor, end)
       \/ SendNew(active, cursor, end)
       \/ GoIdle(active, cursor, end)
    /\ replay_cursor' = cursor
    /\ replay_end' = end

Trained ==
    /\ pc = "train"
    /\ LoopTop(replay_active, replay_cursor, replay_end)
    /\ UNCHANGED <<offered, wire, passed, rxVars, feedback, errors>>

\* What replay_cursor_ may hold after a replayed frame is written.  The code
\* reads it->first + 1 there; when the feedback thread has erased that entry
\* during the wait the iterator dangles and any value may be read.  Only its
\* place among the buffered numbers matters to lower_bound.
CursorAfterReplay ==
    IF sending.sn \in retry_buffer
    THEN {sending.sn + 1}
    ELSE retry_buffer \cup {next_seq}

\* Serialisation is over and tx_to_phy has room: the frame is written.
FrameSent ==
    /\ pc = "sending"
    /\ Len(wire) - passed < TxFifo
    /\ wire' = Append(wire, [sn |-> sending.sn, ok |-> TRUE])
    /\ IF sending.replay
       THEN \E c \in CursorAfterReplay :
                LoopTop(replay_active /\ c <= replay_end, c, replay_end)
       ELSE LoopTop(replay_active, replay_cursor, replay_end)
    /\ UNCHANGED <<offered, passed, rxVars, feedback, errors>>

\* wake_ev_ or data_written_event() ends the idle wait and there is work.  Both
\* events follow every change the loop head looks at, so a wake-up that finds
\* nothing to do is a stuttering step.
Wake ==
    /\ pc = "idle"
    /\ ReplayDue(replay_active, replay_cursor, replay_end) \/ CanAccept
    /\ LoopTop(replay_active, replay_cursor, replay_end)
    /\ UNCHANGED <<offered, wire, passed, rxVars, feedback, errors>>

\* A slip: the idle wait has no timeout.
NoReplayTimeout == FALSE

\* The replay timer expires: the whole retry buffer is to be sent again.
ReplayTimeout ==
    /\ pc = "idle"
    /\ ~replay_active
    /\ \E lo, hi \in retry_buffer :
          /\ \A s \in retry_buffer : lo <= s /\ s <= hi
          /\ LoopTop(TRUE, lo, hi)
    /\ UNCHANGED <<offered, wire, passed, rxVars, feedback, errors>>

Sender == Trained \/ FrameSent \/ Wake \/ ReplayTimeout

-----------------------------------------------------------------------------
(* The transmitter: feedback thread                                         *)

\* A slip: an acknowledgement frees one entry less than it names.
ReceiveAckTooLittle ==
    /\ feedback # <<>>
    /\ ~Head(feedback).nak
    /\ retry_buffer' = {s \in retry_buffer : s >= Head(feedback).seq}
    /\ feedback' = Tail(feedback)
    /\ UNCHANGED <<offered, pc, sending, next_seq, replay_active, replay_cursor,
                   replay_end, wire, passed, rxVars, errors>>

\* A cumulative acknowledgement.
ReceiveAck ==
    /\ feedback # <<>>
    /\ ~Head(feedback).nak
    /\ retry_buffer' = {s \in retry_buffer : s > Head(feedback).seq}
    /\ feedback' = Tail(feedback)
    /\ UNCHANGED <<offered, pc, sending, next_seq, replay_active, replay_cursor,
                   replay_end, wire, passed, rxVars, errors>>

\* A request to replay from the first buffered number at or after seq; stale
\* when there is none.
ReceiveNak ==
    /\ feedback # <<>>
    /\ Head(feedback).nak
    /\ \/ /\ \A s \in retry_buffer : s < Head(feedback).seq
          /\ UNCHANGED <<replay_active, replay_cursor, replay_end>>
       \/ /\ replay_active' = TRUE
          /\ \E s, hi \in retry_buffer :
                /\ LowerBound(Head(feedback).seq, s)
                /\ \A t \in retry_buffer : t <= hi
                /\ replay_cursor' = s
                /\ replay_end' = hi
    /\ feedback' = Tail(feedback)
    /\ UNCHANGED <<offered, pc, sending, next_seq, retry_buffer,
                   wire, passed, rxVars, errors>>

ReceiveFeedback == ReceiveAck \/ ReceiveNak

-----------------------------------------------------------------------------
(* The PHY                                                                   *)

\* The ingress thread takes the next frame out of tx_to_phy and sends it over
\* the lanes, which may damage it.  Its place in the row does not change.
PhyIngress ==
    /\ passed < Len(wire)
    /\ passed < MaxInFlight
    /\ passed' = passed + 1
    /\ \/ UNCHANGED <<wire, errors>>
       \/ /\ errors < MaxErrors
          /\ errors' = errors + 1
          /\ wire' = [wire EXCEPT ![passed + 1].ok = FALSE]
    /\ UNCHANGED <<offered, txVars, rxVars, feedback>>

-----------------------------------------------------------------------------
(* The receiver                                                              *)

\* diff: how far the header is ahead of the expected number, modulo the
\* sequence space.
Diff(sn, expected) == ((sn % SeqSpace) - (expected % SeqSpace)) % SeqSpace

TakeFrame ==
    /\ passed > 0
    /\ wire' = Tail(wire)
    /\ passed' = passed - 1

Feed(nak, seq) ==
    /\ Len(feedback) < FbFifo
    /\ feedback' = Append(feedback, [nak |-> nak, seq |-> seq])

\* A slip: a frame from the future is handed out as well.
RxAhead ==
    /\ TakeFrame
    /\ Head(wire).ok
    /\ Diff(Head(wire).sn, expected_seq) < HalfSeq
    /\ unread < FdiDepth
    /\ delivered' = Append(delivered, Head(wire).sn)
    /\ unread' = unread + 1
    /\ Feed(FALSE, expected_seq)
    /\ expected_seq' = expected_seq + 1
    /\ rx_retry' = FALSE
    /\ frames_since_nak' = 0
    /\ UNCHANGED <<offered, txVars, errors>>

\* A slip: the expected number stays behind.
RxStuck ==
    /\ TakeFrame
    /\ Head(wire).ok
    /\ Diff(Head(wire).sn, expected_seq) = 0
    /\ unread < FdiDepth
    /\ delivered' = Append(delivered, Head(wire).sn)
    /\ unread' = unread + 1
    /\ Feed(FALSE, expected_seq)
    /\ rx_retry' = FALSE
    /\ frames_since_nak' = 0
    /\ UNCHANGED <<offered, txVars, expected_seq, errors>>

\* An intact frame with the expected number: deliver it and acknowledge it.
\* Both writes may block; nothing else the receiver owns changes in between.
RxInOrder ==
    /\ TakeFrame
    /\ Head(wire).ok
    /\ Diff(Head(wire).sn, expected_seq) = 0
    /\ unread < FdiDepth
    /\ delivered' = Append(delivered, Head(wire).sn)
    /\ unread' = unread + 1
    /\ Feed(FALSE, expected_seq)
    /\ expected_seq' = expected_seq + 1
    /\ rx_retry' = FALSE
    /\ frames_since_nak' = 0
    /\ UNCHANGED <<offered, txVars, errors>>

\* A slip: the repeated acknowledgement names the number that is expected.
RxDuplicateAhead ==
    /\ TakeFrame
    /\ Head(wire).ok
    /\ Diff(Head(wire).sn, expected_seq) >= HalfSeq
    /\ Feed(FALSE, expected_seq)
    /\ UNCHANGED <<offered, txVars, rxVars, errors>>

\* An intact frame from the past: drop it, repeat the latest acknowledgement.
RxDuplicate ==
    /\ TakeFrame
    /\ Head(wire).ok
    /\ Diff(Head(wire).sn, expected_seq) >= HalfSeq
    /\ IF expected_seq > 0 THEN Feed(FALSE, expected_seq - 1)
                           ELSE UNCHANGED feedback
    /\ UNCHANGED <<offered, txVars, rxVars, errors>>

\* A damaged frame or one from the future: drop it, and ask for a replay
\* unless that was done a few frames ago.
RxBad ==
    /\ TakeFrame
    /\ \/ ~Head(wire).ok
       \/ Diff(Head(wire).sn, expected_seq) \in 1 .. (HalfSeq - 1)
    /\ IF rx_retry /\ frames_since_nak + 1 < NakRepeat
       THEN /\ frames_since_nak' = frames_since_nak + 1
            /\ UNCHANGED feedback
       ELSE /\ frames_since_nak' = 0
            /\ Feed(TRUE, expected_seq)
    /\ rx_retry' = TRUE
    /\ UNCHANGED <<offered, txVars, expected_seq, delivered, unread, errors>>

Receiver == RxInOrder \/ RxDuplicate \/ RxBad

\* Whoever reads fdi_out takes a flit.
Consume ==
    /\ unread > 0
    /\ unread' = unread - 1
    /\ UNCHANGED <<offered, txVars, wire, passed, expected_seq, rx_retry,
                   frames_since_nak, delivered, feedback, errors>>

-----------------------------------------------------------------------------
Next ==
    \/ Offer
    \/ Sender
    \/ ReceiveFeedback
    \/ PhyIngress
    \/ Receiver
    \/ Consume

Spec == Init /\ [][Next]_vars

\* The SystemC kernel runs every thread whose wait is over, and the reader of
\* fdi_out keeps reading; nobody has to offer anything.
FairSpec ==
    /\ Spec
    /\ WF_vars(Sender)
    /\ WF_vars(ReceiveFeedback)
    /\ WF_vars(PhyIngress)
    /\ WF_vars(Receiver)
    /\ WF_vars(Consume)

-----------------------------------------------------------------------------
(* Properties                                                                *)

\* The type of every variable of the link direction.
TypeOK ==
    /\ offered \in 0 .. MaxFlits
    /\ pc \in {"train", "idle", "sending"}
    /\ sending \in [sn : Nat, replay : BOOLEAN]
    /\ next_seq \in Nat
    /\ retry_buffer \in SUBSET Nat
    /\ replay_active \in BOOLEAN
    /\ replay_cursor \in Nat
    /\ replay_end \in Nat
    /\ wire \in Seq(Frame)
    /\ passed \in Nat
    /\ passed <= Len(wire)
    /\ expected_seq \in Nat
    /\ rx_retry \in BOOLEAN
    /\ frames_since_nak \in Nat
    /\ delivered \in Seq(Nat)
    /\ unread \in 0 .. FdiDepth
    /\ feedback \in Seq(FbMsg)
    /\ errors \in 0 .. MaxErrors

\* Exactly once and in order: whatever was corrupted, replayed or duplicated,
\* the flits handed out are the first ones accepted, each once (RxAdapter::run
\* compares eight bits of a 64-bit number).
InOrder ==
    /\ Len(delivered) <= next_seq
    /\ \A i \in 1 .. Len(delivered) : delivered[i] = i - 1

\* No flit is forgotten: an accepted flit that the receiver has not handed out
\* yet can still be replayed (TxAdapter::feedback erases up to the acknowledged
\* number, while frames and feedback are in flight).
UnackedKept == \A n \in 0 .. (next_seq - 1) : n >= Len(delivered) => n \in retry_buffer

\* The eight-bit comparison is never ambiguous: an intact frame that reaches the
\* receiver is classified as its full sequence number demands, however old the
\* replay that sent it.
VerdictIsRight ==
    passed > 0 /\ Head(wire).ok =>
        LET s == Head(wire).sn
            d == Diff(s, expected_seq)
        IN  /\ d = 0 <=> s = expected_seq
            /\ d >= HalfSeq <=> s < expected_seq

\* The retry buffer is a contiguous window that ends at next_seq and is no
\* longer than RetrySize.
WindowInv ==
    /\ next_seq <= offered
    /\ IsFiniteSet(retry_buffer)
    /\ \A s \in retry_buffer :
          /\ s < next_seq
          /\ next_seq <= s + RetrySize
          /\ \A t \in s .. (next_seq - 1) : t \in retry_buffer

\* The frame being serialised was buffered when it was built, and nothing was
\* accepted since.
SendingInv ==
    pc = "sending" =>
        /\ sending.sn < next_seq
        /\ next_seq <= sending.sn + RetrySize

\* No frame on the wire is more than RetrySize behind the expected number, or
\* behind a frame that will arrive before it.
WireInv ==
    /\ \A i \in 1 .. Len(wire) :
          /\ wire[i].sn < next_seq
          /\ expected_seq <= wire[i].sn + RetrySize
    /\ \A i, j \in 1 .. Len(wire) : i < j => wire[i].sn < wire[j].sn + RetrySize

\* Only what was handed out is acknowledged.
FeedbackInv ==
    /\ expected_seq = Len(delivered)
    /\ \A i \in 1 .. Len(feedback) : ~feedback[i].nak => feedback[i].seq < expected_seq

\* The inductive invariant of the link direction.
LinkInv ==
    /\ InOrder
    /\ UnackedKept
    /\ WindowInv
    /\ SendingInv
    /\ WireInv
    /\ FeedbackInv

\* What the two ports show is the abstract stream.
Stream == INSTANCE FlitStream

\* The link direction implements the stream of flits: every step writes a flit,
\* hands out the oldest outstanding one, or is invisible at the ports.
ImplementsStream == Stream!StreamSpec

\* Every flit offered is delivered in the end, although frames are lost, requests
\* for a replay are suppressed by the repeat counter or overwritten by the
\* sender, and the timer may expire at any time.
EventuallyDelivered ==
    \A n \in 1 .. MaxFlits : offered >= n ~> Len(delivered) >= n

\* The retry buffer empties once the producer stops: the last acknowledgement is
\* never lost.
EventuallyDrained == []<>(retry_buffer = {} \/ next_seq < offered)
=============================================================================
