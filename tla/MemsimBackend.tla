--------------------------- MODULE MemsimBackend ---------------------------
(***************************************************************************)
(* MemSimBackend (gem5_axi/memsim_backend.cc): takes bursts from a FIFO, cuts   *)
(* each into pieces of one memory line, submits one piece per memory period,   *)
(* collects the answers in whatever order they come, and answers the bursts in   *)
(* the order they were taken.                                                *)
(*                                                                         *)
(* A burst is a record with the fields op, write, lines (a sequence), lock and  *)
(* id.  Of the memory behind (external here: ss_mem_submit and ss_mem_pop,       *)
(* modelled in MemSystem) only this is used: it may refuse a piece, it gives     *)
(* pieces of one line their effect in the order they were submitted, and it      *)
(* answers every piece once, in any order.                                     *)
(***************************************************************************)
EXTENDS Naturals, Sequences, SequencesExt, FiniteSets

CONSTANTS
    Lines, \* memory lines in the window
    Slots  \* bursts taken at a time

ASSUME SlotsAssumption == Slots \in Nat \ {0}

\* wrote: for every line the writes in the order of their effect.
Memory0 == [bursts |-> <<>>, wrote |-> [l \in Lines |-> <<>>]]

OKAY == 0
SLVERR == 2
DECERR == 3

Status(req) ==
    IF ~(Range(req.lines) \subseteq Lines) THEN DECERR
    ELSE IF req.lock THEN SLVERR ELSE OKAY

\* accept: a burst in error is never submitted.
Burst(req) ==
    [req |-> req, resp |-> Status(req), out |-> {}, got |-> <<>>,
     sent |-> IF Status(req) = OKAY THEN 0 ELSE Len(req.lines)]

AllSent(b) == b.sent = Len(b.req.lines)

Unsent(m) == {i \in DOMAIN m.bursts : ~AllSent(m.bursts[i])}

\* A slip: the newest burst goes first.
NextToSubmitLast(m) == CHOOSE i \in Unsent(m) : \A j \in Unsent(m) : j <= i

\* The burst whose piece is submitted: the next one waits until it is complete.
NextToSubmit(m) == CHOOSE i \in Unsent(m) : \A j \in Unsent(m) : i <= j

\* ss_mem_submit, if the memory takes it.  What a read will return is settled
\* here, the newest write submitted before it.
Submitted(m) ==
    LET i == NextToSubmit(m)
        b == m.bursts[i]
        k == b.sent + 1
        l == b.req.lines[k]
        newest == IF m.wrote[l] = <<>> THEN 0 ELSE Last(m.wrote[l])
        sent == [b EXCEPT !.sent = k, !.out = @ \union {k},
                          !.got = IF b.req.write THEN @ ELSE Append(@, newest)]
    IN  [bursts |-> [m.bursts EXCEPT ![i] = sent],
         wrote |-> IF b.req.write THEN [m.wrote EXCEPT ![l] = Append(@, b.req.op)]
                                  ELSE m.wrote]

\* The pieces the memory still has.
Children(m) == UNION {{<<i, k>> : k \in m.bursts[i].out} : i \in DOMAIN m.bursts}

\* ss_mem_pop, until there is nothing to pop.
Collected(m, answered) ==
    LET left(i) == [m.bursts[i] EXCEPT !.out = {k \in @ : <<i, k>> \notin answered}]
    IN  [m EXCEPT !.bursts = [i \in DOMAIN m.bursts |-> left(i)]]

Answerable(m) ==
    /\ m.bursts # <<>>
    /\ AllSent(Head(m.bursts)) /\ Head(m.bursts).out = {}

Answer(m) ==
    LET b == Head(m.bursts) IN
    [op |-> b.req.op, id |-> b.req.id, write |-> b.req.write, beats |-> Len(b.req.lines),
     resp |-> b.resp, got |-> b.got]

\* One period of run, from what it finds in its two FIFOs to what it leaves
\* there, as a set of one; takes: the memory takes the piece offered; answered: the pieces it
\* answers; held: the answer of the front burst is held back (response_hold).
Periods(s, depth, takes, answered, held) ==
    LET taken ==
            IF Len(s.mem.bursts) < Slots /\ s.req # <<>>
            THEN [s EXCEPT !.mem.bursts = Append(@, Burst(Head(s.req))), !.req = Tail(@)]
            ELSE s
        offered(t) ==
            IF Unsent(t.mem) # {} /\ takes THEN [t EXCEPT !.mem = Submitted(@)] ELSE t
        stepped(t) == [t EXCEPT !.mem = Collected(@, answered)]
        given(t) ==
            IF Answerable(t.mem) /\ ~held /\ Len(t.rsp) < depth
            THEN [t EXCEPT !.rsp = Append(@, Answer(t.mem)), !.mem.bursts = Tail(@)]
            ELSE t
    IN  {given(c) : c \in {stepped(b) : b \in {offered(a) : a \in {taken}}}}
=============================================================================
