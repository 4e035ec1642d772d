-------------------------- MODULE SparseGateProofs --------------------------
(***************************************************************************)
(* Proofs about the SparseGate engine.  First what each of its states does to *)
(* its registers, and the control of the design: the types, the commands that  *)
(* meet an idle engine, and the DMA the engine stays in step with.  Then the   *)
(* job: JobInv says where engine, scoring core, DMA and the recorded writes     *)
(* stand in every state of a job; it is inductive, and what the engine promises *)
(* about its writes and its cached selection follows from it.                 *)
(***************************************************************************)
EXTENDS SparseGateAxi, FiniteSetTheorems, TLAPS

-----------------------------------------------------------------------------
(* Types                                                                     *)

EngineStates ==
    {"S_IDLE", "S_START", "S_JOB", "S_QREQ", "S_QWAIT", "S_QLOAD", "S_NEXT_KEY",
     "S_CREQ", "S_CWAIT", "S_CSELECT", "S_KREQ", "S_KWAIT", "S_KLOAD",
     "S_KEYSTART", "S_KEYWAIT", "S_END", "S_RESULTS", "S_SORT_SIFT",
     "S_SORT_TAKE", "S_OUTREQ", "S_OUTWAIT", "S_GREAD", "S_GWAIT", "S_GWRITE",
     "S_GWRITEWAIT", "S_ADVANCE", "S_FINISH", "S_ERROR"}

CacheKeys == [context : Nat, epoch : Nat, nkeys : Nat, topk : Nat, heads : Nat,
              qbase : Nat, kbase : Nat]

Engines ==
    [es : EngineStates, busy : BOOLEAN, done_flag : BOOLEAN, error_flag : BOOLEAN,
     error_code : Nat, cache_valid : BOOLEAN, result_count : Nat, head_no : Nat,
     line_no : Nat, scan_no : Nat, current_key : Nat, previous_candidate : Nat,
     gather_line : {<<>>} \cup ({"kv"} \X Int), output_no : Nat,
     gather_offset : Nat, saved : CacheKeys]

Slaves ==
    [aw_have : BOOLEAN, w_have : BOOLEAN, write_drain : BOOLEAN, bvalid : BOOLEAN,
     bresp : {"OKAY", "SLVERR"}, start : BOOLEAN, invalidate : BOOLEAN,
     illegal : BOOLEAN]

Configs ==
    [line0 : [mode : Nat, qbase : Nat, kbase : Nat],
     line1 : [cbase : Nat, obase : Nat, kvbase : Nat, gbase : Nat],
     line2 : [nkeys : Nat, ncand : Nat, topk : Nat, heads : Nat,
              context : Nat, epoch : Nat, kv : Nat]]

\* The registers of the DMA; what a line holds has no type of its own.
Dmas(data) ==
    [state : {"IDLE", "READ", "RRESP", "WRITE", "BRESP"}, done : BOOLEAN,
     error : BOOLEAN, aw_sent : BOOLEAN, w_sent : BOOLEAN, addr : Int, data : data,
     write_beats : Nat]

Cores ==
    [state : {"IDLE", "READY", "BUSY", "SCORE", "OUTPUTS", "DONE"}, limit : Nat,
     key : Nat, kept : SUBSET Nat, failed : BOOLEAN, head : Nat]

Scans == [key : CacheKeys, kept : SUBSET Nat]

TypeOK ==
    /\ slave \in Slaves
    /\ cfg \in Configs
    /\ dma \in Dmas({dma.data})
    /\ eng \in Engines
    /\ sort \in Sorters
    /\ core \in Cores
    /\ scanned \in Scans

-----------------------------------------------------------------------------
(* The register slave                                                        *)

\* What a command finds: the pulse of one is over before the next beat can be
\* complete, and the engine takes it while it is idle.
OneCommand ==
    /\ slave.start \/ slave.invalidate \/ slave.illegal =>
           eng.es = "S_IDLE" /\ ~slave.aw_have /\ ~slave.w_have
    /\ eng.busy = (eng.es # "S_IDLE")

\* What the slave holds of a beat keeps its type (aw_have, w_have and their latches).
LEMMA LatchedType ==
    ASSUME slave \in Slaves, NEW aw \in BOOLEAN, NEW w \in BOOLEAN, NEW b \in BOOLEAN
    PROVE  LET s == Latched(aw, w, b)
           IN  s \in Slaves /\ ~s.start /\ ~s.invalidate /\ ~s.illegal
  <1> DEFINE s == Latched(aw, w, b)
  <1> DEFINE bvalid == slave.bvalid /\ ~b
             aw_have == slave.aw_have \/ aw
             w_have == slave.w_have \/ w
  <1>1. slave.aw_have \in BOOLEAN /\ slave.w_have \in BOOLEAN /\ slave.bvalid \in BOOLEAN
    BY DEF Slaves
  <1>2. bvalid \in BOOLEAN /\ aw_have \in BOOLEAN /\ w_have \in BOOLEAN
    BY <1>1, Zenon
  <1>3. s = [slave EXCEPT !.start = FALSE, !.invalidate = FALSE, !.illegal = FALSE,
                          !.bvalid = bvalid, !.aw_have = aw_have, !.w_have = w_have]
    BY DEF Latched
  <1> HIDE DEF bvalid, aw_have, w_have
  <1> QED
    BY <1>2, <1>3 DEF Slaves

\* An edge of the slave: a command is seen only of a beat that was complete while
\* the engine was not busy, and its beat is used up.
LEMMA RegsStepFacts ==
    ASSUME slave \in Slaves, cfg \in Configs, NEW busy \in BOOLEAN, RegsStep(busy)
    PROVE  /\ slave' \in Slaves
           /\ cfg' \in Configs
           /\ cfg' # cfg \/ slave'.start \/ slave'.invalidate \/ slave'.illegal =>
                  /\ ~busy
                  /\ slave.aw_have /\ slave.w_have
                  /\ ~slave'.aw_have /\ ~slave'.w_have
  <1>0. slave.aw_have \in BOOLEAN /\ slave.w_have \in BOOLEAN /\ slave.bvalid \in BOOLEAN
        /\ slave.write_drain \in BOOLEAN
    BY DEF Slaves
  <1>1. PICK aw, w, b \in BOOLEAN :
            LET s == Latched(aw, w, b)
            IN  DropBeat(s) \/ RejectBeat(s) \/ CommitBeat(s, busy) \/ NoBeat(s)
    <2>1. {FALSE, AwReady} \subseteq BOOLEAN /\ {FALSE, WReady} \subseteq BOOLEAN
          /\ {FALSE, slave.bvalid} \subseteq BOOLEAN
      BY <1>0, Zenon DEF AwReady, WReady
    <2> QED
      BY <2>1, Zenon DEF RegsStep
  <1> DEFINE s == Latched(aw, w, b)
  <1>2. s \in Slaves /\ ~s.start /\ ~s.invalidate /\ ~s.illegal
    BY LatchedType
  <1> HIDE DEF s
  <1>3. CASE DropBeat(s)
    <2>1. PICK last \in BOOLEAN :
              slave' = IF last
                       THEN [s EXCEPT !.w_have = FALSE, !.write_drain = FALSE,
                                      !.aw_have = FALSE, !.bvalid = TRUE,
                                      !.bresp = "SLVERR"]
                       ELSE [s EXCEPT !.w_have = FALSE]
      BY <1>3, Zenon DEF DropBeat
    <2> QED
      BY <1>2, <1>3, <2>1 DEF DropBeat, Slaves
  <1>4. CASE RejectBeat(s)
    <2>1. PICK last \in BOOLEAN :
              slave' = IF last
                       THEN [s EXCEPT !.w_have = FALSE, !.aw_have = FALSE,
                                      !.bvalid = TRUE, !.bresp = "SLVERR"]
                       ELSE [s EXCEPT !.w_have = FALSE, !.write_drain = TRUE]
      BY <1>4, Zenon DEF RejectBeat
    <2> QED
      BY <1>2, <1>4, <2>1 DEF RejectBeat, Slaves
  <1>5. CASE NoBeat(s)
    BY <1>2, <1>5 DEF NoBeat
  <1>6. CASE CommitBeat(s, busy)
    <2>0. "none" \in Commands
      BY DEF Commands
    <2>1. ~busy /\ slave.aw_have /\ slave.w_have
      BY <1>6 DEF CommitBeat, BeatComplete
    <2>2. PICK line, value, command :
              /\ command \in Commands
              /\ Commit(s, line, value, command)
              /\ \/ line = "line0" /\ value \in Line0 \cup {cfg.line0}
                 \/ line = "line1" /\ value \in Line1
                 \/ line = "line2" /\ value \in Line2
      BY <1>6, <2>0, Zenon DEF CommitBeat
    <2>3. cfg' \in Configs
      BY <2>2, RegisterAssumption DEF Commit, Configs
    <2>4. /\ slave' \in Slaves
          /\ ~slave'.aw_have /\ ~slave'.w_have
      <3> DEFINE r == IF command = "illegal" THEN "SLVERR" ELSE "OKAY"
                 t == command = "start"
                 i == command = "invalidate"
                 g == command = "illegal"
      <3>1. r \in {"OKAY", "SLVERR"} /\ t \in BOOLEAN /\ i \in BOOLEAN /\ g \in BOOLEAN
        OBVIOUS
      <3>2. slave' = [s EXCEPT !.w_have = FALSE, !.aw_have = FALSE, !.bvalid = TRUE,
                               !.bresp = r, !.start = t, !.invalidate = i, !.illegal = g]
        BY <2>2 DEF Commit
      <3>3. s.write_drain \in BOOLEAN
        BY <1>2 DEF Slaves
      <3> HIDE DEF r, t, i, g
      <3>4. slave' = [aw_have |-> FALSE, w_have |-> FALSE, write_drain |-> s.write_drain,
                      bvalid |-> TRUE, bresp |-> r, start |-> t, invalidate |-> i,
                      illegal |-> g]
        BY <1>2, <3>2, Zenon DEF Slaves
      <3> QED
        BY <3>1, <3>3, <3>4 DEF Slaves
    <2> QED
      BY <2>1, <2>3, <2>4
  <1> QED
    BY <1>1, <1>3, <1>4, <1>5, <1>6 DEF s

-----------------------------------------------------------------------------
(* The DMA                                                                   *)

\* An edge of the DMA, whatever the memory does: a request is accepted or refused
\* at once, one under way ends with exactly one pulse of done, and address and data
\* stay those of the request; nothing is answered that was not asked.
LEMMA DmaStepFacts ==
    ASSUME dma \in Dmas({dma.data}), NEW req, NEW clear \in BOOLEAN, DmaStep(req, clear)
    PROVE  /\ dma' \in Dmas({dma'.data})
           /\ dma.state = "IDLE" /\ ~req.valid => dma'.state = "IDLE" /\ ~dma'.done
           /\ dma.state = "IDLE" /\ req.valid /\ dma'.state = "IDLE" => dma'.done /\ dma'.error
           /\ dma'.state # "IDLE" => ~dma'.done
           /\ dma.state = "IDLE" /\ dma'.state # "IDLE" =>
                  /\ LineOk(req.addr)
                  /\ dma'.addr = req.addr
                  /\ req.write => dma'.data = req.data
                  /\ dma'.state \in {"READ", "WRITE"}
                  /\ dma'.state = "WRITE" <=> req.write
           /\ dma.state # "IDLE" =>
                  /\ dma'.addr = dma.addr
                  /\ dma'.data = dma.data
                  /\ dma'.state = "IDLE" => dma'.done
           /\ dma.state \in {"READ", "RRESP"} => dma'.state \in {"READ", "RRESP", "IDLE"}
           /\ dma.state \in {"WRITE", "BRESP"} => dma'.state \in {"WRITE", "BRESP", "IDLE"}
           /\ dma.state = "WRITE" => dma'.state # "IDLE"
  <1> DEFINE p == Pulse(clear)
  <1>1. /\ p \in Dmas({dma.data})
        /\ p.state = dma.state /\ ~p.done
        /\ p.addr = dma.addr /\ p.data = dma.data
    BY DEF Dmas, Pulse
  <1> HIDE DEF p
  <1>2. CASE Refuse(req, clear)
    <2>1. dma' = [p EXCEPT !.done = TRUE, !.error = TRUE]
      BY <1>2 DEF Refuse, p
    <2> QED
      BY <1>1, <1>2, <2>1 DEF Refuse, Dmas
  <1>3. CASE Accept(req, clear)
    <2>0. dma.state = "IDLE" /\ req.valid /\ LineOk(req.addr) /\ req.addr \in Int
      BY <1>3, ApertureAssumption DEF Accept, LineOk
    <2>1. CASE req.write
      <3>1. dma' = [p EXCEPT !.error = FALSE, !.state = "WRITE", !.addr = req.addr,
                             !.data = req.data, !.aw_sent = FALSE, !.w_sent = FALSE]
        BY <1>3, <2>1 DEF Accept, p
      <3>2. dma' \in Dmas({dma'.data})
        BY <1>1, <2>0, <3>1 DEF Dmas
      <3>3. /\ dma'.addr = req.addr /\ ~dma'.done
            /\ dma'.state = "WRITE" /\ dma'.data = req.data
        BY <1>1, <2>0, <3>1 DEF Dmas
      <3> QED
        BY <2>0, <2>1, <3>2, <3>3
    <2>2. CASE ~req.write
      <3>1. dma' = [p EXCEPT !.error = FALSE, !.state = "READ", !.addr = req.addr,
                             !.data = p.data, !.aw_sent = p.aw_sent, !.w_sent = p.w_sent]
        BY <1>3, <2>2 DEF Accept, p
      <3>2. dma' \in Dmas({dma'.data})
        BY <1>1, <2>0, <3>1 DEF Dmas
      <3>3. /\ dma'.addr = req.addr /\ ~dma'.done
            /\ dma'.state = "READ"
        BY <1>1, <2>0, <3>1 DEF Dmas
      <3> QED
        BY <2>0, <2>2, <3>2, <3>3
    <2> QED
      BY <2>1, <2>2
  <1>4. CASE Rest(req, clear)
    BY <1>1, <1>4 DEF Rest, p
  <1>5. CASE SendWrite(clear)
    <2>1. PICK aw \in {dma.aw_sent, TRUE}, w \in {dma.w_sent, TRUE} :
              dma' = [p EXCEPT !.aw_sent = aw, !.w_sent = w,
                               !.state = IF aw /\ w THEN "BRESP" ELSE @]
      BY <1>5 DEF SendWrite, p
    <2>2. aw \in BOOLEAN /\ w \in BOOLEAN
      BY DEF Dmas
    <2> QED
      BY <1>1, <1>5, <2>1, <2>2 DEF SendWrite, Dmas
  <1>6. CASE TakeBresp(clear)
    <2>1. CASE dma' = p
      BY <1>1, <1>6, <2>1 DEF TakeBresp
    <2>2. CASE \E good \in BOOLEAN :
                   dma' = [p EXCEPT !.done = TRUE, !.error = ~good,
                                    !.write_beats = dma.write_beats + 1, !.state = "IDLE"]
      <3>1. PICK good \in BOOLEAN :
                   dma' = [p EXCEPT !.done = TRUE, !.error = ~good,
                                    !.write_beats = dma.write_beats + 1, !.state = "IDLE"]
        BY <2>2
      <3>2. dma.write_beats + 1 \in Nat
        BY DEF Dmas
      <3>3. CASE good
        <4>1. dma' = [p EXCEPT !.done = TRUE, !.error = FALSE,
                               !.write_beats = dma.write_beats + 1, !.state = "IDLE"]
          BY <3>1, <3>3
        <4> QED
          BY <1>1, <1>6, <3>2, <4>1 DEF TakeBresp, Dmas
      <3>4. CASE ~good
        <4>1. dma' = [p EXCEPT !.done = TRUE, !.error = TRUE,
                               !.write_beats = dma.write_beats + 1, !.state = "IDLE"]
          BY <3>1, <3>4
        <4> QED
          BY <1>1, <1>6, <3>2, <4>1 DEF TakeBresp, Dmas
      <3> QED
        BY <3>3, <3>4
    <2> QED
      BY <1>6, <2>1, <2>2 DEF TakeBresp, p
  <1>7. CASE SendRead(clear)
    BY <1>1, <1>7 DEF SendRead, Dmas, p
  <1>8. CASE TakeRresp(clear)
    <2>1. CASE dma' = p
      BY <1>1, <1>8, <2>1 DEF TakeRresp
    <2>2. CASE dma' # p
      <3>1. PICK good, last \in BOOLEAN :
                dma' = [p EXCEPT !.error = dma.error \/ ~good \/ ~last, !.done = last,
                                 !.state = IF last THEN "IDLE" ELSE @]
        BY <1>8, <2>2, Zenon DEF TakeRresp, p
      <3> DEFINE e == dma.error \/ ~good \/ ~last
      <3>2. e \in BOOLEAN
        OBVIOUS
      <3>3. dma' = [p EXCEPT !.error = e, !.done = last, !.state = IF last THEN "IDLE" ELSE @]
        BY <3>1
      <3> HIDE DEF e
      <3> QED
        BY <1>1, <1>8, <3>2, <3>3 DEF TakeRresp, Dmas
    <2> QED
      BY <2>1, <2>2
  <1> QED
    BY <1>2, <1>3, <1>4, <1>5, <1>6, <1>7, <1>8 DEF DmaStep

\* What the DMA counts, from one clear to the next: the writes it has an answer to.
LEMMA DmaCounts ==
    ASSUME dma \in Dmas({dma.data}), NEW req, NEW clear \in BOOLEAN, DmaStep(req, clear)
    PROVE  /\ ~clear => dma'.write_beats = IF dma.state = "BRESP" /\ dma'.done
                                           THEN dma.write_beats + 1 ELSE dma.write_beats
           /\ clear /\ dma.state # "BRESP" => dma'.write_beats = 0
  <1> DEFINE p == Pulse(clear)
  <1>1. /\ p \in Dmas({dma.data})
        /\ p.state = dma.state /\ ~p.done
        /\ p.write_beats = IF clear THEN 0 ELSE dma.write_beats
    BY DEF Dmas, Pulse
  <1> HIDE DEF p
  <1>2. CASE dma.state # "BRESP"
    <2>1. dma'.write_beats = p.write_beats
      <3>1. CASE Refuse(req, clear)
        BY <1>1, <3>1 DEF Refuse, Dmas, p
      <3>2. CASE Accept(req, clear)
        <4>1. PICK s, a, d, x, y :
                  dma' = [p EXCEPT !.error = FALSE, !.state = s, !.addr = a,
                                   !.data = d, !.aw_sent = x, !.w_sent = y]
          BY <3>2, Zenon DEF Accept, p
        <4> QED
          BY <1>1, <4>1 DEF Dmas
      <3>3. CASE Rest(req, clear)
        BY <1>1, <3>3 DEF Rest, p
      <3>4. CASE SendWrite(clear)
        BY <1>1, <3>4 DEF SendWrite, Dmas, p
      <3>5. CASE SendRead(clear)
        BY <1>1, <3>5 DEF SendRead, Dmas, p
      <3>6. CASE TakeRresp(clear)
        <4>1. CASE dma' = p
          BY <4>1
        <4>2. CASE dma' # p
          <5>1. PICK good, last \in BOOLEAN :
                    dma' = [p EXCEPT !.error = dma.error \/ ~good \/ ~last, !.done = last,
                                     !.state = IF last THEN "IDLE" ELSE @]
            BY <3>6, <4>2, Zenon DEF TakeRresp, p
          <5> QED
            BY <1>1, <5>1 DEF Dmas
        <4> QED
          BY <4>1, <4>2
      <3> QED
        BY <1>2, <3>1, <3>2, <3>3, <3>4, <3>5, <3>6 DEF DmaStep, TakeBresp
    <2> QED
      BY <1>1, <1>2, <2>1
  <1>3. CASE dma.state = "BRESP"
    <2>1. TakeBresp(clear)
      BY <1>3 DEF DmaStep, Refuse, Accept, Rest, SendWrite, SendRead, TakeRresp
    <2>2. CASE dma' = p
      BY <1>1, <1>3, <2>2
    <2>3. CASE dma' # p
      <3>1. PICK e : dma' = [p EXCEPT !.done = TRUE, !.error = e,
                                      !.write_beats = dma.write_beats + 1, !.state = "IDLE"]
        BY <2>1, <2>3, Zenon DEF TakeBresp, p
      <3> QED
        BY <1>1, <1>3, <3>1 DEF Dmas
    <2> QED
      BY <2>2, <2>3
  <1> QED
    BY <1>2, <1>3

-----------------------------------------------------------------------------
(* The engine, state by state                                                *)

KeepsFlags(e) ==
    /\ e.busy = eng.busy
    /\ e.saved = eng.saved
    /\ e.cache_valid => eng.cache_valid
    /\ e.done_flag => eng.done_flag

KeepsScan(e) ==
    /\ e.scan_no = eng.scan_no
    /\ e.current_key = eng.current_key
    /\ e.previous_candidate = eng.previous_candidate

KeepsOutput(e) ==
    /\ e.output_no = eng.output_no
    /\ e.gather_offset = eng.gather_offset
    /\ e.gather_line = eng.gather_line

\* The engine with nothing but its state, its load counters and the error it
\* reports changed, or a flag taken back.
Keeps(e) ==
    /\ e \in Engines
    /\ e.result_count = eng.result_count
    /\ KeepsFlags(e)
    /\ KeepsScan(e)
    /\ KeepsOutput(e)

\* Clearing the one-cycle outputs at the top of the engine's edge moves nothing else.
LEMMA PulsesKeep ==
    ASSUME slave \in Slaves, eng \in Engines
    PROVE  Keeps(AfterPulses) /\ AfterPulses.es = eng.es
  <1> DEFINE a == eng.cache_valid /\ ~slave.invalidate
             b == eng.done_flag /\ ~(slave.illegal /\ ~eng.busy)
             c == eng.error_flag \/ (slave.illegal /\ ~eng.busy)
             d == IF slave.illegal /\ ~eng.busy THEN 6 ELSE eng.error_code
  <1>1. /\ a \in BOOLEAN /\ b \in BOOLEAN /\ c \in BOOLEAN /\ d \in Nat
        /\ a => eng.cache_valid
        /\ b => eng.done_flag
    BY DEF Engines, Slaves
  <1>2. AfterPulses = [eng EXCEPT !.cache_valid = a, !.done_flag = b, !.error_flag = c,
                                  !.error_code = d]
    BY DEF AfterPulses
  <1> HIDE DEF a, b, c, d
  <1> QED
    BY <1>1, <1>2, ZenonT(60) DEF Keeps, KeepsFlags, KeepsScan, KeepsOutput, Engines

\* A branch that only takes another state moves no flag and no counter.
LEMMA GotoKeeps ==
    ASSUME slave \in Slaves, eng \in Engines, NEW s \in EngineStates
    PROVE  Keeps(Goto(s)) /\ Goto(s).es = s
  <1> DEFINE e == AfterPulses
  <1>1. Keeps(e)
    BY PulsesKeep
  <1>2. Goto(s) = [e EXCEPT !.es = s]
    BY DEF Goto
  <1> HIDE DEF e
  <1> QED
    BY <1>1, <1>2 DEF Keeps, KeepsFlags, KeepsScan, KeepsOutput, Engines

\* A branch to S_ERROR sets the error code and moves nothing else of the job.
LEMMA FailKeeps ==
    ASSUME slave \in Slaves, eng \in Engines, NEW code \in Nat
    PROVE  Keeps(Fail(code)) /\ Fail(code).es = "S_ERROR"
  <1> DEFINE e == AfterPulses
  <1>1. Keeps(e)
    BY PulsesKeep
  <1>2. Fail(code) = [e EXCEPT !.es = "S_ERROR", !.error_code = code]
    BY DEF Fail
  <1>3. "S_ERROR" \in EngineStates
    BY DEF EngineStates
  <1> HIDE DEF e
  <1> QED
    BY <1>1, <1>2, <1>3 DEF Keeps, KeepsFlags, KeepsScan, KeepsOutput, Engines

\* A state that makes a request, with the state that waits for its answer.
WaitFor == [S_QREQ |-> "S_QWAIT", S_CREQ |-> "S_CWAIT", S_KREQ |-> "S_KWAIT",
            S_OUTREQ |-> "S_OUTWAIT", S_GREAD |-> "S_GWAIT", S_GWRITE |-> "S_GWRITEWAIT"]

Asking == {"S_QREQ", "S_CREQ", "S_KREQ", "S_OUTREQ", "S_GREAD", "S_GWRITE"}

\* A state that asks (S_QREQ, S_CREQ, S_KREQ, S_OUTREQ, S_GREAD, S_GWRITE) starts the
\* DMA and takes the state that waits for it.
LEMMA AskingFacts ==
    ASSUME slave \in Slaves, eng \in Engines, EngineStep, eng.es \in Asking
    PROVE  /\ Keeps(eng')
           /\ eng'.es = IF dma.state = "IDLE" THEN WaitFor[eng.es] ELSE eng.es
           /\ SelectionAlone
  <1>1. ASSUME NEW s \in Asking, eng.es = s, Ask(WaitFor[s])
        PROVE  /\ Keeps(eng')
               /\ eng'.es = IF dma.state = "IDLE" THEN WaitFor[eng.es] ELSE eng.es
    <2>1. WaitFor[s] \in EngineStates
      BY DEF WaitFor, EngineStates, Asking
    <2> QED
      BY <1>1, <2>1, PulsesKeep, GotoKeeps DEF Ask
  <1>2. Ask(WaitFor[eng.es]) /\ SelectionAlone
    BY DEF EngineStep, Asking, WaitFor, S_QREQ, S_CREQ, S_KREQ, S_OUTREQ, S_GREAD, S_GWRITE
  <1> QED
    BY <1>1, <1>2

\* A state that waits stands until done, then fails on a DMA error or goes on.
LEMMA WaitingFacts ==
    ASSUME slave \in Slaves, eng \in Engines, NEW next, Await(next)
    PROVE  \/ ~dma.done /\ Keeps(eng') /\ eng'.es = eng.es
           \/ dma.done /\ dma.error /\ Keeps(eng') /\ eng'.es = "S_ERROR"
           \/ dma.done /\ ~dma.error /\ eng' = next
  BY PulsesKeep, FailKeeps DEF Await

\* S_IDLE takes a command, and is busy from then on; without one it stays.
LEMMA IdleFacts ==
    ASSUME slave \in Slaves, eng \in Engines, EngineStep, eng.es = "S_IDLE"
    PROVE  /\ \/ ~slave.start /\ Keeps(eng') /\ eng'.es = "S_IDLE"
              \/ /\ slave.start
                 /\ eng' \in Engines
                 /\ eng'.es = "S_START"
                 /\ eng'.busy
                 /\ ~eng'.done_flag
                 /\ eng'.saved = eng.saved
                 /\ eng'.cache_valid => eng.cache_valid
                 /\ eng'.result_count = eng.result_count
                 /\ KeepsScan(eng')
                 /\ KeepsOutput(eng')
           /\ SelectionAlone
  <1>1. S_IDLE
    BY DEF EngineStep
  <1>2. CASE slave.start
    <2> DEFINE e == Goto("S_START")
    <2>1. Keeps(e) /\ e.es = "S_START"
      BY GotoKeeps DEF EngineStates
    <2>2. eng' = [e EXCEPT !.busy = TRUE, !.done_flag = FALSE, !.error_flag = FALSE,
                           !.error_code = 0]
      BY <1>1, <1>2 DEF S_IDLE
    <2> HIDE DEF e
    <2>3. eng' \in Engines
      BY <2>1, <2>2 DEF Keeps, Engines
    <2>4. eng'.es = "S_START" /\ eng'.busy /\ ~eng'.done_flag
      BY <2>1, <2>2 DEF Keeps, Engines
    <2>5. /\ eng'.saved = eng.saved
          /\ eng'.cache_valid => eng.cache_valid
          /\ eng'.result_count = eng.result_count
          /\ KeepsScan(eng')
          /\ KeepsOutput(eng')
      BY <2>1, <2>2 DEF Keeps, KeepsFlags, KeepsScan, KeepsOutput, Engines
    <2> QED
      BY <1>1, <1>2, <2>3, <2>4, <2>5 DEF S_IDLE
  <1>3. CASE ~slave.start
    BY <1>1, <1>3, PulsesKeep DEF S_IDLE
  <1> QED
    BY <1>2, <1>3

\* S_START refuses the job, reuses a valid selection of the same parameters, or
\* clears the counters and begins a scan.
LEMMA StartFacts ==
    ASSUME slave \in Slaves, eng \in Engines, EngineStep, eng.es = "S_START"
    PROVE  /\ \/ Keeps(eng') /\ eng'.es = "S_ERROR"
              \/ /\ mode = REUSE /\ ReuseOk /\ ConfigOk
                 /\ eng' \in Engines
                 /\ eng'.es = "S_OUTREQ"
                 /\ eng'.output_no = 0
                 /\ eng'.gather_offset = eng.gather_offset
                 /\ eng'.result_count = eng.result_count
                 /\ KeepsFlags(eng')
                 /\ KeepsScan(eng')
              \/ /\ mode # REUSE /\ ConfigOk
                 /\ eng' \in Engines
                 /\ eng'.es = "S_JOB"
                 /\ ~eng'.cache_valid
                 /\ eng'.result_count = 0
                 /\ eng'.scan_no = 0
                 /\ eng'.busy = eng.busy
                 /\ eng'.done_flag => eng.done_flag
           /\ SelectionAlone
  <1>1. S_START
    BY DEF EngineStep
  <1>2. CASE eng' = Fail(2) \/ eng' = Fail(1)
    BY <1>1, <1>2, FailKeeps DEF S_START
  <1>3. CASE mode = REUSE /\ ReuseOk /\ ConfigOk /\ eng' = [Goto("S_OUTREQ") EXCEPT !.output_no = 0]
    <2> DEFINE e == Goto("S_OUTREQ")
    <2>1. Keeps(e) /\ e.es = "S_OUTREQ"
      BY GotoKeeps DEF EngineStates
    <2> HIDE DEF e
    <2>2. eng' = [e EXCEPT !.output_no = 0]
      BY <1>3 DEF e
    <2>3. /\ eng' \in Engines /\ eng'.es = "S_OUTREQ" /\ eng'.output_no = 0
          /\ eng'.gather_offset = e.gather_offset /\ eng'.result_count = e.result_count
          /\ KeepsFlags(eng') /\ KeepsScan(eng')
      BY <2>1, <2>2, SMTT(30) DEF Keeps, KeepsFlags, KeepsScan, KeepsOutput, Engines
    <2>4. SelectionAlone
      BY <1>1, <1>3 DEF S_START
    <2> QED
      BY <1>3, <2>1, <2>3, <2>4 DEF Keeps, KeepsOutput
  <1>4. CASE mode # REUSE /\ ConfigOk
             /\ eng' = [Goto("S_JOB") EXCEPT !.cache_valid = FALSE, !.result_count = 0,
                                             !.head_no = 0, !.line_no = 0, !.scan_no = 0]
    <2> DEFINE e == Goto("S_JOB")
    <2>1. Keeps(e) /\ e.es = "S_JOB"
      BY GotoKeeps DEF EngineStates
    <2> HIDE DEF e
    <2>2. eng' = [e EXCEPT !.cache_valid = FALSE, !.result_count = 0,
                           !.head_no = 0, !.line_no = 0, !.scan_no = 0]
      BY <1>4 DEF e
    <2>3. eng' \in Engines
      BY <2>1, <2>2 DEF Keeps, Engines
    <2>4. /\ eng'.es = "S_JOB" /\ ~eng'.cache_valid
          /\ eng'.result_count = 0 /\ eng'.scan_no = 0
      BY <2>1, <2>2 DEF Keeps, Engines
    <2>5. /\ eng'.busy = eng.busy
          /\ eng'.done_flag => eng.done_flag
      BY <2>1, <2>2 DEF Keeps, KeepsFlags, Engines
    <2> QED
      BY <1>1, <1>4, <2>3, <2>4, <2>5 DEF S_START
  <1> QED
    BY <1>1, <1>2, <1>3, <1>4 DEF S_START

\* The load counters are nobody else's.
LEMMA CountersKeep ==
    ASSUME NEW e, Keeps(e), NEW h \in Nat, NEW l \in Nat
    PROVE  /\ Keeps([e EXCEPT !.line_no = l])
           /\ [e EXCEPT !.line_no = l].es = e.es
           /\ Keeps([e EXCEPT !.line_no = l, !.head_no = h])
           /\ [e EXCEPT !.line_no = l, !.head_no = h].es = e.es
  BY DEF Keeps, KeepsFlags, KeepsScan, KeepsOutput, Engines

\* S_JOB pulses the core's job_start and goes on to the query records.
LEMMA JobFacts ==
    ASSUME slave \in Slaves, eng \in Engines, EngineStep, eng.es = "S_JOB"
    PROVE  /\ Keeps(eng')
           /\ eng'.es = IF core.state = "IDLE" THEN "S_QREQ" ELSE "S_JOB"
           /\ SelectionAlone
  <1>1. S_JOB
    BY DEF EngineStep
  <1>2. Keeps(Goto("S_QREQ")) /\ Goto("S_QREQ").es = "S_QREQ"
    BY GotoKeeps DEF EngineStates
  <1> QED
    BY <1>1, <1>2, PulsesKeep DEF S_JOB

\* S_QWAIT: the query line arrives, or the read failed.
LEMMA QwaitFacts ==
    ASSUME slave \in Slaves, eng \in Engines, EngineStep, eng.es = "S_QWAIT"
    PROVE  /\ Keeps(eng')
           /\ eng'.es = IF ~dma.done THEN "S_QWAIT"
                        ELSE IF dma.error THEN "S_ERROR" ELSE "S_QLOAD"
           /\ SelectionAlone
  <1>1. S_QWAIT
    BY DEF EngineStep
  <1>2. Keeps(Goto("S_QLOAD")) /\ Goto("S_QLOAD").es = "S_QLOAD"
    BY GotoKeeps DEF EngineStates
  <1> QED
    BY <1>1, <1>2, WaitingFacts DEF S_QWAIT

\* S_QLOAD hands a query line to the core and turns to the next line, head or scan.
LEMMA QloadFacts ==
    ASSUME slave \in Slaves, eng \in Engines, EngineStep, eng.es = "S_QLOAD"
    PROVE  /\ Keeps(eng')
           /\ IF core.state = "READY" THEN eng'.es \in {"S_QREQ", "S_NEXT_KEY"}
                                      ELSE eng'.es = "S_QLOAD"
           /\ SelectionAlone
  <1>1. S_QLOAD
    BY DEF EngineStep
  <1>2. /\ Keeps(Goto("S_QREQ")) /\ Goto("S_QREQ").es = "S_QREQ"
        /\ Keeps(Goto("S_NEXT_KEY")) /\ Goto("S_NEXT_KEY").es = "S_NEXT_KEY"
    BY GotoKeeps DEF EngineStates
  <1>3. CASE core.state # "READY"
    BY <1>1, <1>3, PulsesKeep DEF S_QLOAD
  <1>4. CASE core.state = "READY"
    <2> DEFINE q == Goto("S_QREQ")
               n == Goto("S_NEXT_KEY")
    <2>1. /\ Keeps(q) /\ q.es = "S_QREQ"
          /\ Keeps(n) /\ n.es = "S_NEXT_KEY"
      BY <1>2
    <2>2. \/ eng' = [q EXCEPT !.line_no = q.line_no + 1]
          \/ eng' = [n EXCEPT !.line_no = 0]
          \/ eng' = [q EXCEPT !.line_no = 0, !.head_no = q.head_no + 1]
      BY <1>1, <1>4 DEF S_QLOAD
    <2> HIDE DEF q, n
    <2>3. q.line_no + 1 \in Nat /\ q.head_no + 1 \in Nat
      <3>1. q \in Engines
        BY <2>1 DEF Keeps
      <3>2. q.line_no \in Nat /\ q.head_no \in Nat
        BY <3>1 DEF Engines
      <3> QED
        BY <3>2
    <2>4. /\ Keeps([q EXCEPT !.line_no = q.line_no + 1])
          /\ [q EXCEPT !.line_no = q.line_no + 1].es = "S_QREQ"
      BY <2>1, <2>3, CountersKeep
    <2>5. /\ Keeps([n EXCEPT !.line_no = 0])
          /\ [n EXCEPT !.line_no = 0].es = "S_NEXT_KEY"
      BY <2>1, CountersKeep
    <2>6. /\ Keeps([q EXCEPT !.line_no = 0, !.head_no = q.head_no + 1])
          /\ [q EXCEPT !.line_no = 0, !.head_no = q.head_no + 1].es = "S_QREQ"
      BY <2>1, <2>3, CountersKeep, ZenonT(60)
    <2>7. Keeps(eng') /\ eng'.es \in {"S_QREQ", "S_NEXT_KEY"}
      BY <2>2, <2>4, <2>5, <2>6
    <2> QED
      BY <1>1, <1>4, <2>7 DEF S_QLOAD
  <1> QED
    BY <1>3, <1>4

\* S_NEXT_KEY turns to the next enabled key, or ends the scan after the last one.
LEMMA NextKeyFacts ==
    ASSUME slave \in Slaves, cfg \in Configs, eng \in Engines, EngineStep,
           eng.es = "S_NEXT_KEY"
    PROVE  /\ \/ eng.scan_no = scan_count /\ Keeps(eng') /\ eng'.es = "S_END"
              \/ /\ eng.scan_no # scan_count
                 /\ mode = REINDEX
                 /\ Keeps(eng') /\ eng'.es \in {"S_CREQ", "S_CSELECT"}
              \/ /\ eng.scan_no # scan_count
                 /\ mode # REINDEX
                 /\ eng' \in Engines
                 /\ eng'.es = "S_KREQ"
                 /\ eng'.current_key = eng.scan_no
                 /\ eng'.scan_no = eng.scan_no
                 /\ eng'.result_count = eng.result_count
                 /\ KeepsFlags(eng')
           /\ SelectionAlone
  <1>1. S_NEXT_KEY
    BY DEF EngineStep
  <1>2. CASE eng.scan_no = scan_count
    <2>1. Keeps(Goto("S_END")) /\ Goto("S_END").es = "S_END"
      BY GotoKeeps DEF EngineStates
    <2> QED
      BY <1>1, <1>2, <2>1 DEF S_NEXT_KEY
  <1>3. CASE eng.scan_no # scan_count /\ mode = REINDEX
    <2>1. /\ Keeps(Goto("S_CREQ")) /\ Goto("S_CREQ").es = "S_CREQ"
          /\ Keeps(Goto("S_CSELECT")) /\ Goto("S_CSELECT").es = "S_CSELECT"
      BY GotoKeeps DEF EngineStates
    <2> QED
      BY <1>1, <1>3, <2>1 DEF S_NEXT_KEY
  <1>4. CASE eng.scan_no # scan_count /\ mode # REINDEX
    <2> DEFINE e == Goto("S_KREQ")
    <2>1. Keeps(e) /\ e.es = "S_KREQ"
      BY GotoKeeps DEF EngineStates
    <2> HIDE DEF e
    <2>2. eng' = [e EXCEPT !.current_key = eng.scan_no, !.line_no = 0]
      BY <1>1, <1>4 DEF S_NEXT_KEY, e
    <2>3. /\ eng' \in Engines
          /\ eng'.es = "S_KREQ"
          /\ eng'.current_key = eng.scan_no
          /\ eng'.scan_no = eng.scan_no
          /\ eng'.result_count = eng.result_count
      BY <2>1, <2>2 DEF Keeps, KeepsScan, Engines
    <2>4. KeepsFlags(eng')
      BY <2>1, <2>2 DEF Keeps, KeepsFlags, Engines
    <2> QED
      BY <1>1, <1>4, <2>3, <2>4 DEF S_NEXT_KEY
  <1> QED
    BY <1>2, <1>3, <1>4

\* S_CWAIT: the candidate mask arrives, or the read failed.
LEMMA CwaitFacts ==
    ASSUME slave \in Slaves, eng \in Engines, EngineStep, eng.es = "S_CWAIT"
    PROVE  /\ Keeps(eng')
           /\ eng'.es = IF ~dma.done THEN "S_CWAIT"
                        ELSE IF dma.error THEN "S_ERROR" ELSE "S_CSELECT"
           /\ SelectionAlone
  <1>1. S_CWAIT
    BY DEF EngineStep
  <1>2. Keeps(Goto("S_CSELECT")) /\ Goto("S_CSELECT").es = "S_CSELECT"
    BY GotoKeeps DEF EngineStates
  <1> QED
    BY <1>1, <1>2, WaitingFacts DEF S_CWAIT

\* S_CSELECT takes the key if its bit of the mask is set, and skips it if not.
LEMMA CselectFacts ==
    ASSUME slave \in Slaves, cfg \in Configs, eng \in Engines, EngineStep,
           eng.es = "S_CSELECT"
    PROVE  /\ \/ Keeps(eng') /\ eng'.es = "S_ERROR"
              \/ /\ eng' \in Engines
                 /\ eng'.es = "S_KREQ"
                 /\ eng'.current_key < nkeys
                 /\ eng.scan_no # 0 => eng'.current_key > eng.previous_candidate
                 /\ eng'.previous_candidate = eng'.current_key
                 /\ eng'.scan_no = eng.scan_no
                 /\ eng'.result_count = eng.result_count
                 /\ KeepsFlags(eng')
           /\ SelectionAlone
  <1>1. S_CSELECT
    BY DEF EngineStep
  <1> DEFINE e == Goto("S_KREQ")
  <1>2. Keeps(e) /\ e.es = "S_KREQ"
    BY GotoKeeps DEF EngineStates
  <1> HIDE DEF e
  <1>3. PICK id \in 0 .. nkeys :
            eng' = IF id >= nkeys \/ (eng.scan_no # 0 /\ id <= eng.previous_candidate)
                   THEN Fail(3)
                   ELSE [e EXCEPT !.current_key = id, !.previous_candidate = id, !.line_no = 0]
    BY <1>1 DEF S_CSELECT, e
  <1>4. id \in Nat /\ nkeys \in Nat /\ eng.previous_candidate \in Nat
    BY DEF nkeys, Configs, Engines
  <1>5. CASE id >= nkeys \/ (eng.scan_no # 0 /\ id <= eng.previous_candidate)
    BY <1>1, <1>3, <1>5, FailKeeps DEF S_CSELECT
  <1>6. CASE id < nkeys /\ (eng.scan_no # 0 => id > eng.previous_candidate)
    <2>1. eng' = [e EXCEPT !.current_key = id, !.previous_candidate = id, !.line_no = 0]
      BY <1>3, <1>4, <1>6
    <2>2. /\ eng' \in Engines
          /\ eng'.es = "S_KREQ"
          /\ eng'.current_key = id
          /\ eng'.previous_candidate = id
          /\ eng'.scan_no = eng.scan_no
          /\ eng'.result_count = eng.result_count
      BY <1>2, <1>4, <2>1 DEF Keeps, KeepsScan, Engines
    <2>3. KeepsFlags(eng')
      BY <1>2, <2>1 DEF Keeps, KeepsFlags, Engines
    <2> QED
      BY <1>1, <1>6, <2>2, <2>3 DEF S_CSELECT
  <1> QED
    BY <1>4, <1>5, <1>6

\* S_KWAIT: the key line arrives, or the read failed.
LEMMA KwaitFacts ==
    ASSUME slave \in Slaves, eng \in Engines, EngineStep, eng.es = "S_KWAIT"
    PROVE  /\ Keeps(eng')
           /\ eng'.es = IF ~dma.done THEN "S_KWAIT"
                        ELSE IF dma.error THEN "S_ERROR" ELSE "S_KLOAD"
           /\ SelectionAlone
  <1>1. S_KWAIT
    BY DEF EngineStep
  <1>2. Keeps(Goto("S_KLOAD")) /\ Goto("S_KLOAD").es = "S_KLOAD"
    BY GotoKeeps DEF EngineStates
  <1> QED
    BY <1>1, <1>2, WaitingFacts DEF S_KWAIT

\* S_KLOAD hands a key line to the core and turns to the next line or starts the key.
LEMMA KloadFacts ==
    ASSUME slave \in Slaves, eng \in Engines, EngineStep, eng.es = "S_KLOAD"
    PROVE  /\ Keeps(eng')
           /\ IF core.state = "READY" THEN eng'.es \in {"S_KREQ", "S_KEYSTART"}
                                      ELSE eng'.es = "S_KLOAD"
           /\ SelectionAlone
  <1>1. S_KLOAD
    BY DEF EngineStep
  <1>2. CASE core.state # "READY"
    BY <1>1, <1>2, PulsesKeep DEF S_KLOAD
  <1>3. CASE core.state = "READY"
    <2> DEFINE q == Goto("S_KREQ")
               n == Goto("S_KEYSTART")
    <2>1. /\ Keeps(q) /\ q.es = "S_KREQ"
          /\ Keeps(n) /\ n.es = "S_KEYSTART"
      BY GotoKeeps DEF EngineStates
    <2>2. \/ eng' = [q EXCEPT !.line_no = q.line_no + 1]
          \/ eng' = [n EXCEPT !.line_no = 0]
      BY <1>1, <1>3 DEF S_KLOAD
    <2> HIDE DEF q, n
    <2>3. q.line_no + 1 \in Nat
      <3>1. q \in Engines
        BY <2>1 DEF Keeps
      <3>2. q.line_no \in Nat
        BY <3>1 DEF Engines
      <3> QED
        BY <3>2
    <2>4. /\ Keeps([q EXCEPT !.line_no = q.line_no + 1])
          /\ [q EXCEPT !.line_no = q.line_no + 1].es = "S_KREQ"
      BY <2>1, <2>3, CountersKeep
    <2>5. /\ Keeps([n EXCEPT !.line_no = 0])
          /\ [n EXCEPT !.line_no = 0].es = "S_KEYSTART"
      BY <2>1, CountersKeep
    <2>6. Keeps(eng') /\ eng'.es \in {"S_KREQ", "S_KEYSTART"}
      BY <2>2, <2>4, <2>5
    <2> QED
      BY <1>1, <1>3, <2>6 DEF S_KLOAD
  <1> QED
    BY <1>2, <1>3

\* S_KEYSTART pulses the core's key_start.
LEMMA KeystartFacts ==
    ASSUME slave \in Slaves, eng \in Engines, EngineStep, eng.es = "S_KEYSTART"
    PROVE  /\ Keeps(eng')
           /\ eng'.es = IF core.state = "READY" THEN "S_KEYWAIT" ELSE "S_KEYSTART"
           /\ SelectionAlone
  <1>1. S_KEYSTART
    BY DEF EngineStep
  <1>2. Keeps(Goto("S_KEYWAIT")) /\ Goto("S_KEYWAIT").es = "S_KEYWAIT"
    BY GotoKeeps DEF EngineStates
  <1> QED
    BY <1>1, <1>2, PulsesKeep DEF S_KEYSTART

\* S_KEYWAIT: the core is done with the key, and the scan goes on to the next one.
LEMMA KeywaitFacts ==
    ASSUME slave \in Slaves, eng \in Engines, EngineStep, eng.es = "S_KEYWAIT"
    PROVE  /\ \/ core.state # "SCORE" /\ Keeps(eng') /\ eng'.es = "S_KEYWAIT"
              \/ core.state = "SCORE" /\ core.failed /\ Keeps(eng') /\ eng'.es = "S_ERROR"
              \/ /\ core.state = "SCORE" /\ ~core.failed
                 /\ eng' \in Engines
                 /\ eng'.es = "S_NEXT_KEY"
                 /\ eng'.scan_no = eng.scan_no + 1
                 /\ eng'.current_key = eng.current_key
                 /\ eng'.previous_candidate = eng.previous_candidate
                 /\ eng'.result_count = eng.result_count
                 /\ KeepsFlags(eng')
           /\ SelectionAlone
  <1>1. S_KEYWAIT
    BY DEF EngineStep
  <1>2. CASE core.state # "SCORE"
    BY <1>1, <1>2, PulsesKeep DEF S_KEYWAIT
  <1>3. CASE core.state = "SCORE" /\ core.failed
    BY <1>1, <1>3, FailKeeps DEF S_KEYWAIT
  <1>4. CASE core.state = "SCORE" /\ ~core.failed
    <2> DEFINE e == Goto("S_NEXT_KEY")
    <2>1. Keeps(e) /\ e.es = "S_NEXT_KEY"
      BY GotoKeeps DEF EngineStates
    <2> HIDE DEF e
    <2>2. e \in Engines /\ e.scan_no = eng.scan_no /\ eng.scan_no \in Nat
      BY <2>1 DEF Keeps, KeepsScan, Engines
    <2> DEFINE n == eng.scan_no + 1
    <2>3. n \in Nat /\ eng' = [e EXCEPT !.scan_no = n]
      BY <1>1, <1>4, <2>2 DEF S_KEYWAIT, e
    <2> HIDE DEF n
    <2>4. /\ eng' \in Engines
          /\ eng'.es = "S_NEXT_KEY"
          /\ eng'.scan_no = n
          /\ eng'.current_key = e.current_key
          /\ eng'.previous_candidate = e.previous_candidate
          /\ eng'.result_count = e.result_count
      BY <2>1, <2>2, <2>3 DEF Engines
    <2>5. KeepsFlags(eng')
      BY <2>1, <2>3 DEF Keeps, KeepsFlags, Engines
    <2> QED
      BY <1>1, <1>4, <2>1, <2>4, <2>5 DEF S_KEYWAIT, Keeps, KeepsScan, n
  <1> QED
    BY <1>2, <1>3, <1>4

\* S_END pulses the core's end_job and the results are awaited.
LEMMA EndFacts ==
    ASSUME slave \in Slaves, eng \in Engines, EngineStep, eng.es = "S_END"
    PROVE  /\ Keeps(eng')
           /\ eng'.es = IF core.state = "READY" THEN "S_RESULTS" ELSE "S_END"
           /\ SelectionAlone
  <1>1. S_END
    BY DEF EngineStep
  <1>2. Keeps(Goto("S_RESULTS")) /\ Goto("S_RESULTS").es = "S_RESULTS"
    BY GotoKeeps DEF EngineStates
  <1> QED
    BY <1>1, <1>2, PulsesKeep DEF S_END

\* S_RESULTS stores the results in the order they come and starts the sorter after
\* the last of them; none at all ends the job.
LEMMA ResultsFacts ==
    ASSUME slave \in Slaves, eng \in Engines, EngineStep, eng.es = "S_RESULTS"
    PROVE  \/ /\ core.state = "DONE" /\ core.failed
              /\ Keeps(eng') /\ eng'.es = "S_ERROR"
              /\ SelectionAlone
           \/ /\ core.state # "OUTPUTS"
              /\ Keeps(eng') /\ eng'.es = "S_RESULTS"
              /\ SelectionAlone
           \/ /\ core.state = "OUTPUTS"
              /\ eng' \in Engines
              /\ eng'.result_count = eng.result_count + 1
              /\ KeepsFlags(eng')
              /\ KeepsScan(eng')
              /\ eng'.es = IF core.kept # {core.head} THEN "S_RESULTS"
                           ELSE IF eng.result_count = 0 THEN "S_OUTREQ"
                           ELSE "S_SORT_SIFT"
              /\ eng'.es = "S_OUTREQ" => eng'.output_no = 0
              /\ selection' = [selection EXCEPT ![eng.result_count] = core.head]
              /\ sort' = IF core.kept = {core.head} /\ eng.result_count # 0
                         THEN SortStart(eng.result_count) ELSE sort
  <1>1. S_RESULTS
    BY DEF EngineStep
  <1>2. CASE core.state = "DONE" /\ core.failed
    BY <1>1, <1>2, FailKeeps DEF S_RESULTS
  <1>3. CASE ~(core.state = "DONE" /\ core.failed) /\ core.state # "OUTPUTS"
    BY <1>1, <1>3, PulsesKeep DEF S_RESULTS
  <1>4. CASE core.state = "OUTPUTS"
    <2> DEFINE e == AfterPulses
               last == core.kept = {core.head}
               next == IF ~last THEN "S_RESULTS"
                       ELSE IF eng.result_count = 0 THEN "S_OUTREQ" ELSE "S_SORT_SIFT"
               out == IF last /\ eng.result_count = 0 THEN 0 ELSE eng.output_no
               n == eng.result_count + 1
    <2>1. Keeps(e) /\ e.es = "S_RESULTS"
      BY PulsesKeep
    <2>2. /\ eng' = [e EXCEPT !.result_count = e.result_count + 1,
                              !.es = IF ~last THEN e.es
                                     ELSE IF eng.result_count = 0 THEN "S_OUTREQ"
                                     ELSE "S_SORT_SIFT",
                              !.output_no = IF last /\ eng.result_count = 0
                                            THEN 0 ELSE e.output_no]
          /\ selection' = [selection EXCEPT ![eng.result_count] = core.head]
          /\ sort' = IF last /\ eng.result_count # 0
                     THEN SortStart(eng.result_count) ELSE sort
      BY <1>1, <1>4 DEF S_RESULTS
    <2> HIDE DEF e
    <2>3. /\ e \in Engines
          /\ e.result_count = eng.result_count
          /\ e.output_no = eng.output_no
          /\ eng.result_count \in Nat
          /\ eng.output_no \in Nat
      BY <2>1 DEF Keeps, KeepsOutput, Engines
    <2>4. eng' = [e EXCEPT !.result_count = n, !.es = next, !.output_no = out]
      BY <2>1, <2>2, <2>3
    <2>5. next \in EngineStates /\ out \in Nat /\ n \in Nat
      BY <2>3 DEF EngineStates
    <2> HIDE DEF next, out, n
    <2>6. /\ eng' \in Engines
          /\ eng'.result_count = n
          /\ eng'.es = next
          /\ eng'.output_no = out
      BY <2>3, <2>4, <2>5 DEF Engines
    <2>7. KeepsFlags(eng') /\ KeepsScan(eng')
      BY <2>1, <2>4 DEF Keeps, KeepsFlags, KeepsScan, Engines
    <2> QED
      BY <1>4, <2>2, <2>6, <2>7 DEF next, out, n
  <1> QED
    BY <1>2, <1>3, <1>4

\* Both states of the sorter.
LEMMA SortingFacts ==
    ASSUME slave \in Slaves, eng \in Engines,
           NEW step, Sorting(step), step.sort.at \in {"SIFT", "TAKE", "DONE"}
    PROVE  /\ eng' \in Engines
           /\ eng'.es = CASE step.sort.at = "SIFT" -> "S_SORT_SIFT"
                          [] step.sort.at = "TAKE" -> "S_SORT_TAKE"
                          [] step.sort.at = "DONE" -> "S_OUTREQ"
           /\ eng'.es = "S_OUTREQ" => eng'.output_no = 0
           /\ eng'.result_count = eng.result_count
           /\ KeepsFlags(eng')
           /\ KeepsScan(eng')
           /\ selection' = step.idx
           /\ sort' = step.sort
  <1>1. /\ Keeps(Goto("S_SORT_SIFT")) /\ Goto("S_SORT_SIFT").es = "S_SORT_SIFT"
        /\ Keeps(Goto("S_SORT_TAKE")) /\ Goto("S_SORT_TAKE").es = "S_SORT_TAKE"
    BY GotoKeeps DEF EngineStates
  <1>2. CASE step.sort.at = "SIFT"
    BY <1>1, <1>2 DEF Sorting, Keeps
  <1>3. CASE step.sort.at = "TAKE"
    BY <1>1, <1>3 DEF Sorting, Keeps
  <1>4. CASE step.sort.at = "DONE"
    <2> DEFINE e == Goto("S_OUTREQ")
    <2>1. Keeps(e) /\ e.es = "S_OUTREQ"
      BY GotoKeeps DEF EngineStates
    <2> HIDE DEF e
    <2>2. eng' = [e EXCEPT !.output_no = 0]
      BY <1>4 DEF Sorting, e
    <2>3. /\ eng' \in Engines
          /\ eng'.es = "S_OUTREQ"
          /\ eng'.output_no = 0
          /\ eng'.result_count = eng.result_count
      BY <2>1, <2>2 DEF Keeps, Engines
    <2>4. KeepsFlags(eng') /\ KeepsScan(eng')
      BY <2>1, <2>2 DEF Keeps, KeepsFlags, KeepsScan, Engines
    <2> QED
      BY <1>4, <2>3, <2>4 DEF Sorting
  <1> QED
    BY <1>2, <1>3, <1>4

\* A successful answer moves a waiting state on: to another place, or to the next
\* part of a record.
\* S_OUTWAIT: a result is acknowledged and the gather or the next key follows.
LEMMA OutwaitFacts ==
    ASSUME slave \in Slaves, eng \in Engines, EngineStep, eng.es = "S_OUTWAIT"
    PROVE  /\ \/ ~dma.done /\ Keeps(eng') /\ eng'.es = "S_OUTWAIT"
              \/ dma.done /\ dma.error /\ Keeps(eng') /\ eng'.es = "S_ERROR"
              \/ dma.done /\ ~dma.error /\ kv = 0 /\ Keeps(eng') /\ eng'.es = "S_ADVANCE"
              \/ /\ dma.done /\ ~dma.error /\ kv # 0
                 /\ eng' \in Engines
                 /\ eng'.es = "S_GREAD"
                 /\ eng'.gather_offset = 0
                 /\ eng'.output_no = eng.output_no
                 /\ eng'.result_count = eng.result_count
                 /\ KeepsFlags(eng')
                 /\ KeepsScan(eng')
           /\ SelectionAlone
  <1>1. S_OUTWAIT
    BY DEF EngineStep
  <1> DEFINE e == Goto("S_GREAD")
             next == IF kv = 0 THEN Goto("S_ADVANCE") ELSE [e EXCEPT !.gather_offset = 0]
  <1>2. Keeps(e) /\ e.es = "S_GREAD"
    BY GotoKeeps DEF EngineStates
  <1>3. Keeps(Goto("S_ADVANCE")) /\ Goto("S_ADVANCE").es = "S_ADVANCE"
    BY GotoKeeps DEF EngineStates
  <1>4. Await(next) /\ SelectionAlone
    BY <1>1 DEF S_OUTWAIT
  <1> HIDE DEF e
  <1>5. /\ [e EXCEPT !.gather_offset = 0] \in Engines
        /\ [e EXCEPT !.gather_offset = 0].es = "S_GREAD"
        /\ [e EXCEPT !.gather_offset = 0].gather_offset = 0
        /\ [e EXCEPT !.gather_offset = 0].output_no = eng.output_no
        /\ [e EXCEPT !.gather_offset = 0].result_count = eng.result_count
    BY <1>2 DEF Keeps, KeepsOutput, Engines
  <1>6. KeepsFlags([e EXCEPT !.gather_offset = 0]) /\ KeepsScan([e EXCEPT !.gather_offset = 0])
    BY <1>2 DEF Keeps, KeepsFlags, KeepsScan, Engines
  <1>7. CASE kv = 0
    BY <1>3, <1>4, <1>7, WaitingFacts
  <1>8. CASE kv # 0
    <2>1. next = [e EXCEPT !.gather_offset = 0]
      BY <1>8
    <2>2. \/ ~dma.done /\ Keeps(eng') /\ eng'.es = "S_OUTWAIT"
          \/ dma.done /\ dma.error /\ Keeps(eng') /\ eng'.es = "S_ERROR"
          \/ dma.done /\ ~dma.error /\ eng' = next
      BY <1>4, WaitingFacts
    <2> QED
      BY <1>4, <1>5, <1>6, <1>8, <2>1, <2>2
  <1> QED
    BY <1>7, <1>8

\* S_GWAIT: the line to gather was read and is written next.
LEMMA GwaitFacts ==
    ASSUME slave \in Slaves, dma \in Dmas({dma.data}), eng \in Engines, EngineStep,
           eng.es = "S_GWAIT"
    PROVE  /\ \/ ~dma.done /\ Keeps(eng') /\ eng'.es = "S_GWAIT"
              \/ dma.done /\ dma.error /\ Keeps(eng') /\ eng'.es = "S_ERROR"
              \/ /\ dma.done /\ ~dma.error
                 /\ eng' \in Engines
                 /\ eng'.es = "S_GWRITE"
                 /\ eng'.gather_line = <<"kv", dma.addr>>
                 /\ eng'.gather_offset = eng.gather_offset
                 /\ eng'.output_no = eng.output_no
                 /\ eng'.result_count = eng.result_count
                 /\ KeepsFlags(eng')
                 /\ KeepsScan(eng')
           /\ SelectionAlone
  <1>1. S_GWAIT
    BY DEF EngineStep
  <1> DEFINE e == Goto("S_GWRITE")
             line == <<"kv", dma.addr>>
             next == [e EXCEPT !.gather_line = line]
  <1>2. Keeps(e) /\ e.es = "S_GWRITE"
    BY GotoKeeps DEF EngineStates
  <1>3. line \in {<<>>} \cup ({"kv"} \X Int)
    BY DEF Dmas
  <1>4. Await(next) /\ SelectionAlone
    BY <1>1 DEF S_GWAIT
  <1> HIDE DEF e, line
  <1>5. /\ next \in Engines
        /\ next.es = "S_GWRITE"
        /\ next.gather_line = line
        /\ next.gather_offset = eng.gather_offset
        /\ next.output_no = eng.output_no
        /\ next.result_count = eng.result_count
    BY <1>2, <1>3 DEF Keeps, KeepsOutput, Engines
  <1>6. KeepsFlags(next) /\ KeepsScan(next)
    BY <1>2 DEF Keeps, KeepsFlags, KeepsScan, Engines
  <1> HIDE DEF next
  <1>7. \/ ~dma.done /\ Keeps(eng') /\ eng'.es = "S_GWAIT"
        \/ dma.done /\ dma.error /\ Keeps(eng') /\ eng'.es = "S_ERROR"
        \/ dma.done /\ ~dma.error /\ eng' = next
    BY <1>4, WaitingFacts
  <1> QED
    BY <1>4, <1>5, <1>6, <1>7 DEF line

\* S_GWRITEWAIT: a gathered line is acknowledged; the next line, or the next result.
LEMMA GwritewaitFacts ==
    ASSUME slave \in Slaves, eng \in Engines, EngineStep, eng.es = "S_GWRITEWAIT"
    PROVE  /\ \/ ~dma.done /\ Keeps(eng') /\ eng'.es = "S_GWRITEWAIT"
              \/ dma.done /\ dma.error /\ Keeps(eng') /\ eng'.es = "S_ERROR"
              \/ /\ dma.done /\ ~dma.error /\ eng.gather_offset + 1 = kv
                 /\ Keeps(eng') /\ eng'.es = "S_ADVANCE"
              \/ /\ dma.done /\ ~dma.error /\ eng.gather_offset + 1 # kv
                 /\ eng' \in Engines
                 /\ eng'.es = "S_GREAD"
                 /\ eng'.gather_offset = eng.gather_offset + 1
                 /\ eng'.output_no = eng.output_no
                 /\ eng'.result_count = eng.result_count
                 /\ KeepsFlags(eng')
                 /\ KeepsScan(eng')
           /\ SelectionAlone
  <1>1. S_GWRITEWAIT
    BY DEF EngineStep
  <1> DEFINE e == Goto("S_GREAD")
             n == eng.gather_offset + 1
             more == [e EXCEPT !.gather_offset = n]
             next == IF n = kv THEN Goto("S_ADVANCE")
                     ELSE [e EXCEPT !.gather_offset = e.gather_offset + 1]
  <1>2. Keeps(e) /\ e.es = "S_GREAD"
    BY GotoKeeps DEF EngineStates
  <1>3. Keeps(Goto("S_ADVANCE")) /\ Goto("S_ADVANCE").es = "S_ADVANCE"
    BY GotoKeeps DEF EngineStates
  <1>4. Await(next) /\ SelectionAlone
    BY <1>1 DEF S_GWRITEWAIT
  <1> HIDE DEF e
  <1>5. e.gather_offset + 1 = n /\ n \in Nat
    BY <1>2, SMTT(30) DEF Keeps, KeepsOutput, Engines
  <1>6. next = IF n = kv THEN Goto("S_ADVANCE") ELSE more
    BY <1>5
  <1> HIDE DEF n, next
  <1>7. /\ more \in Engines
        /\ more.es = "S_GREAD"
        /\ more.gather_offset = n
        /\ more.output_no = eng.output_no
        /\ more.result_count = eng.result_count
    BY <1>2, <1>5 DEF Keeps, KeepsOutput, Engines
  <1>8. KeepsFlags(more) /\ KeepsScan(more)
    BY <1>2 DEF Keeps, KeepsFlags, KeepsScan, Engines
  <1> HIDE DEF more
  <1>9. \/ ~dma.done /\ Keeps(eng') /\ eng'.es = "S_GWRITEWAIT"
        \/ dma.done /\ dma.error /\ Keeps(eng') /\ eng'.es = "S_ERROR"
        \/ dma.done /\ ~dma.error /\ eng' = next
    BY <1>4, WaitingFacts
  <1> QED
    BY <1>3, <1>4, <1>6, <1>7, <1>8, <1>9 DEF n

\* S_ADVANCE turns to the next result, or ends the job after the last one.
LEMMA AdvanceFacts ==
    ASSUME slave \in Slaves, eng \in Engines, EngineStep, eng.es = "S_ADVANCE"
    PROVE  /\ \/ /\ eng.output_no + 1 = eng.result_count
                 /\ Keeps(eng') /\ eng'.es = "S_FINISH"
              \/ /\ eng.output_no + 1 # eng.result_count
                 /\ eng' \in Engines
                 /\ eng'.es = "S_OUTREQ"
                 /\ eng'.output_no = eng.output_no + 1
                 /\ eng'.result_count = eng.result_count
                 /\ KeepsFlags(eng')
                 /\ KeepsScan(eng')
           /\ SelectionAlone
  <1>1. S_ADVANCE
    BY DEF EngineStep
  <1> DEFINE e == Goto("S_OUTREQ")
             n == eng.output_no + 1
  <1>2. Keeps(e) /\ e.es = "S_OUTREQ"
    BY GotoKeeps DEF EngineStates
  <1>3. CASE n = eng.result_count
    <2>1. Keeps(Goto("S_FINISH")) /\ Goto("S_FINISH").es = "S_FINISH"
      BY GotoKeeps DEF EngineStates
    <2> QED
      BY <1>1, <1>3, <2>1 DEF S_ADVANCE
  <1>4. CASE n # eng.result_count
    <2>1. eng' = [e EXCEPT !.output_no = e.output_no + 1]
      BY <1>1, <1>4 DEF S_ADVANCE
    <2> HIDE DEF e
    <2>2. e.output_no + 1 = n /\ n \in Nat
      BY <1>2 DEF Keeps, KeepsOutput, Engines
    <2>3. eng' = [e EXCEPT !.output_no = n]
      BY <2>1, <2>2
    <2> HIDE DEF n
    <2>4. /\ eng' \in Engines
          /\ eng'.es = "S_OUTREQ"
          /\ eng'.output_no = n
          /\ eng'.result_count = eng.result_count
      BY <1>2, <2>2, <2>3 DEF Keeps, Engines
    <2>5. KeepsFlags(eng') /\ KeepsScan(eng')
      BY <1>2, <2>3 DEF Keeps, KeepsFlags, KeepsScan, Engines
    <2> QED
      BY <1>1, <1>4, <2>4, <2>5 DEF S_ADVANCE, n
  <1> QED
    BY <1>3, <1>4

\* S_FINISH saves the parameters with the selection, reports DONE and is idle.
LEMMA FinishFacts ==
    ASSUME slave \in Slaves, cfg \in Configs, eng \in Engines, EngineStep,
           eng.es = "S_FINISH"
    PROVE  /\ eng' \in Engines
           /\ eng'.es = "S_IDLE"
           /\ ~eng'.busy
           /\ eng'.saved = CacheKey
           /\ eng'.result_count = eng.result_count
           /\ SelectionAlone
  <1>1. S_FINISH
    BY DEF EngineStep
  <1> DEFINE e == Goto("S_IDLE")
             key == CacheKey
  <1>2. Keeps(e) /\ e.es = "S_IDLE"
    BY GotoKeeps DEF EngineStates
  <1>3. key \in CacheKeys
    BY DEF CacheKey, CacheKeys, Configs, nkeys, topk, heads, qbase, kbase
  <1> HIDE DEF e, key
  <1>4. eng' = [e EXCEPT !.busy = FALSE, !.done_flag = TRUE, !.cache_valid = TRUE,
                         !.saved = key]
    BY <1>1 DEF S_FINISH, e, key
  <1>5. /\ eng' \in Engines
        /\ eng'.es = "S_IDLE"
        /\ ~eng'.busy
        /\ eng'.saved = key
        /\ eng'.result_count = e.result_count
    BY <1>2, <1>3, <1>4 DEF Keeps, Engines
  <1> QED
    BY <1>1, <1>2, <1>5 DEF S_FINISH, Keeps, key

\* S_ERROR reports ERROR, gives up the cached selection and is idle.
LEMMA ErrorFacts ==
    ASSUME slave \in Slaves, eng \in Engines, EngineStep, eng.es = "S_ERROR"
    PROVE  /\ eng' \in Engines
           /\ eng'.es = "S_IDLE"
           /\ ~eng'.busy
           /\ ~eng'.done_flag
           /\ ~eng'.cache_valid
           /\ eng'.result_count = eng.result_count
           /\ SelectionAlone
  <1>1. S_ERROR
    BY DEF EngineStep
  <1> DEFINE e == Goto("S_IDLE")
  <1>2. Keeps(e) /\ e.es = "S_IDLE"
    BY GotoKeeps DEF EngineStates
  <1> HIDE DEF e
  <1>3. eng' = [e EXCEPT !.busy = FALSE, !.done_flag = FALSE, !.error_flag = TRUE,
                         !.cache_valid = FALSE]
    BY <1>1 DEF S_ERROR, e
  <1>4. /\ eng' \in Engines
        /\ eng'.es = "S_IDLE"
        /\ ~eng'.busy /\ ~eng'.done_flag /\ ~eng'.cache_valid
        /\ eng'.result_count = e.result_count
    BY <1>2, <1>3 DEF Keeps, Engines
  <1> QED
    BY <1>1, <1>2, <1>4 DEF S_ERROR, Keeps

-----------------------------------------------------------------------------
(* Types and the control of the engine                                       *)

\* The sorter's positions stay inside the selection memory.
LEMMA SortTypes ==
    ASSUME sort \in Sorters
    PROVE  /\ SortSift(selection, sort).sort \in Sorters
           /\ SortTake(selection, sort).sort \in Sorters
  <1> DEFINE child == SortChild(selection, sort)
  <1>1. /\ sort.pos \in Nat /\ sort.root \in Nat /\ sort.size \in Nat
        /\ sort.root # 0 => sort.root - 1 \in Nat
        /\ sort.size > 1 => sort.size - 1 \in Nat
    BY DEF Sorters
  <1>2. child \in Nat
    BY <1>1 DEF SortChild
  <1> HIDE DEF child
  <1>3. [sort EXCEPT !.pos = child] \in Sorters
    BY <1>2 DEF Sorters
  <1>4. sort.root # 0 => [sort EXCEPT !.root = @ - 1, !.pos = sort.root - 1] \in Sorters
    BY <1>1 DEF Sorters
  <1>5. [sort EXCEPT !.at = "TAKE", !.extract = TRUE] \in Sorters
    BY DEF Sorters
  <1>6. [sort EXCEPT !.at = "DONE"] \in Sorters
    BY DEF Sorters
  <1>7. sort.size > 1 => [sort EXCEPT !.at = "SIFT", !.size = @ - 1, !.pos = 0] \in Sorters
    BY <1>1 DEF Sorters
  <1>8. SortSift(selection, sort).sort \in Sorters
    BY <1>3, <1>4, <1>5 DEF SortSift, SinkOne, child
  <1>9. SortTake(selection, sort).sort \in Sorters
    BY <1>1, <1>6, <1>7 DEF SortTake
  <1> QED
    BY <1>8, <1>9

\* The positions S_RESULTS gives the sorter are of its type.
LEMMA StartSorter ==
    ASSUME NEW last \in Nat
    PROVE  SortStart(last) \in Sorters
  BY DEF SortStart, Sorters

\* Where the engine goes: it waits where it has asked, leaves when it is answered,
\* and is busy from the start of a job to its end.
LEMMA EngineFlow ==
    ASSUME TypeOK, EngineStep
    PROVE  /\ eng' \in Engines
           /\ sort' \in Sorters
           /\ eng'.es = "S_IDLE" =>
                  (~slave.start /\ eng.es = "S_IDLE") \/ eng.es \in {"S_FINISH", "S_ERROR"}
           /\ eng.busy = (eng.es # "S_IDLE") => eng'.busy = (eng'.es # "S_IDLE")
           /\ eng.es \in Asking /\ dma.state = "IDLE" => eng'.es = WaitFor[eng.es]
           /\ eng.es \in Waiting => IF dma.done THEN eng'.es \notin Waiting
                                                ELSE eng'.es = eng.es
           /\ eng.es \notin Asking \cup Waiting => eng'.es \notin Waiting
  <1> DEFINE Flow ==
             /\ eng' \in Engines
             /\ sort' \in Sorters
             /\ eng'.es = "S_IDLE" =>
                    (~slave.start /\ eng.es = "S_IDLE") \/ eng.es \in {"S_FINISH", "S_ERROR"}
             /\ eng.busy = (eng.es # "S_IDLE") => eng'.busy = (eng'.es # "S_IDLE")
             /\ eng.es \in Asking /\ dma.state = "IDLE" => eng'.es = WaitFor[eng.es]
             /\ eng.es \in Waiting => IF dma.done THEN eng'.es \notin Waiting
                                                  ELSE eng'.es = eng.es
             /\ eng.es \notin Asking \cup Waiting => eng'.es \notin Waiting
  <1> USE DEF TypeOK, SelectionAlone, Asking, Waiting
  <1>1. CASE eng.es \in Asking
    BY <1>1, AskingFacts DEF Keeps, KeepsFlags, WaitFor
  <1>2. CASE eng.es = "S_IDLE"
    BY <1>2, IdleFacts DEF Keeps, KeepsFlags
  <1>3. CASE eng.es = "S_START"
    BY <1>3, StartFacts DEF Keeps, KeepsFlags
  <1>4. CASE eng.es = "S_JOB"
    BY <1>4, JobFacts DEF Keeps, KeepsFlags
  <1>5. CASE eng.es = "S_QWAIT"
    BY <1>5, QwaitFacts DEF Keeps, KeepsFlags
  <1>6. CASE eng.es = "S_QLOAD"
    BY <1>6, QloadFacts DEF Keeps, KeepsFlags
  <1>7. CASE eng.es = "S_NEXT_KEY"
    BY <1>7, NextKeyFacts DEF Keeps, KeepsFlags
  <1>8. CASE eng.es = "S_CWAIT"
    BY <1>8, CwaitFacts DEF Keeps, KeepsFlags
  <1>9. CASE eng.es = "S_CSELECT"
    BY <1>9, CselectFacts DEF Keeps, KeepsFlags
  <1>10. CASE eng.es = "S_KWAIT"
    BY <1>10, KwaitFacts DEF Keeps, KeepsFlags
  <1>11. CASE eng.es = "S_KLOAD"
    BY <1>11, KloadFacts DEF Keeps, KeepsFlags
  <1>12. CASE eng.es = "S_KEYSTART"
    BY <1>12, KeystartFacts DEF Keeps, KeepsFlags
  <1>13. CASE eng.es = "S_KEYWAIT"
    BY <1>13, KeywaitFacts DEF Keeps, KeepsFlags
  <1>14. CASE eng.es = "S_END"
    BY <1>14, EndFacts DEF Keeps, KeepsFlags
  <1>15. CASE eng.es = "S_OUTWAIT"
    BY <1>15, OutwaitFacts DEF Keeps, KeepsFlags
  <1>16. CASE eng.es = "S_GWAIT"
    BY <1>16, GwaitFacts DEF Keeps, KeepsFlags
  <1>17. CASE eng.es = "S_GWRITEWAIT"
    BY <1>17, GwritewaitFacts DEF Keeps, KeepsFlags
  <1>18. CASE eng.es = "S_ADVANCE"
    BY <1>18, AdvanceFacts DEF Keeps, KeepsFlags
  <1>19. CASE eng.es = "S_FINISH"
    BY <1>19, FinishFacts DEF Engines
  <1>20. CASE eng.es = "S_ERROR"
    BY <1>20, ErrorFacts DEF Engines
  <1>21. CASE eng.es = "S_RESULTS"
    <2>1. sort' \in Sorters
      BY <1>21, ResultsFacts, StartSorter DEF Engines
    <2> QED
      BY <1>21, <2>1, ResultsFacts DEF KeepsFlags, Keeps
  <1>22. CASE eng.es = "S_SORT_SIFT"
    <2>1. Sorting(SortSift(selection, sort))
      BY <1>22 DEF EngineStep, S_SORT_SIFT
    <2> QED
      BY <1>22, <2>1, SortTypes, SortingFacts DEF Sorters, KeepsFlags
  <1>23. CASE eng.es = "S_SORT_TAKE"
    <2>1. Sorting(SortTake(selection, sort))
      BY <1>23 DEF EngineStep, S_SORT_TAKE
    <2> QED
      BY <1>23, <2>1, SortTypes, SortingFacts DEF Sorters, KeepsFlags
  <1>99. eng.es \in EngineStates
    BY DEF Engines
  <1> QED
    BY <1>1, <1>2, <1>3, <1>4, <1>5, <1>6, <1>7, <1>8, <1>9, <1>10, <1>11, <1>12, <1>13, <1>14, <1>15, <1>16, <1>17, <1>18, <1>19, <1>20, <1>21, <1>22, <1>23, <1>99 DEF EngineStates

\* What the engine asks for, by its state.
LEMMA RequestFacts ==
    /\ Request.valid <=> eng.es \in Asking
    /\ Request.write <=> eng.es \in {"S_OUTREQ", "S_GWRITE"}
    /\ eng.es = "S_OUTREQ" => Request.addr = obase + eng.output_no /\ Request.data = ResultData
    /\ eng.es = "S_GREAD" =>
           Request.addr = kvbase + selection[eng.output_no] * kv + eng.gather_offset
    /\ eng.es = "S_GWRITE" =>
           /\ Request.addr = gbase + eng.output_no * kv + eng.gather_offset
           /\ Request.data = eng.gather_line
  <1>1. CASE eng.es \notin Asking
    <2>1. Request = NoRequest
      BY <1>1 DEF Request, Asking
    <2> QED
      BY <1>1, <2>1 DEF NoRequest, Asking
  <1>2. CASE eng.es = "S_QREQ"
    BY <1>2 DEF Request, Asking
  <1>3. CASE eng.es = "S_CREQ"
    BY <1>3 DEF Request, Asking
  <1>4. CASE eng.es = "S_KREQ"
    BY <1>4 DEF Request, Asking
  <1>5. CASE eng.es = "S_OUTREQ"
    BY <1>5 DEF Request, Asking
  <1>6. CASE eng.es = "S_GREAD"
    BY <1>6 DEF Request, Asking
  <1>7. CASE eng.es = "S_GWRITE"
    BY <1>7 DEF Request, Asking
  <1> QED
    BY <1>1, <1>2, <1>3, <1>4, <1>5, <1>6, <1>7 DEF Asking

\* Edges of the scoring core keep its counters and the keys it has kept in type.
LEMMA CoreTypes ==
    ASSUME TypeOK, CoreStep(CorePorts)
    PROVE  core' \in Cores
  <1> DEFINE p == CorePorts
  <1>1. /\ core \in Cores /\ p.limit \in Nat /\ p.key \in Nat
    BY DEF TypeOK, CorePorts, Configs, Engines, topk
  <1>2. CoreReset \in Cores
    BY DEF CoreReset, Cores
  <1>3. CoreDone(TRUE) \in Cores /\ CoreDone(FALSE) \in Cores
    BY <1>2 DEF CoreDone, Cores
  <1>4. CASE CoreTakesJob(p)
    BY <1>1, <1>2, <1>3, <1>4 DEF CoreTakesJob, Cores
  <1>5. CASE CoreAccepts(p)
    <2>1. PICK failed \in BOOLEAN :
              core' = [core EXCEPT !.state = IF failed THEN "SCORE" ELSE "BUSY",
                                   !.key = IF failed THEN 0 ELSE p.key,
                                   !.failed = failed]
      BY <1>5, Zenon DEF CoreAccepts
    <2> HIDE DEF p
    <2>2. CASE failed
      <3>1. core' = [core EXCEPT !.state = "SCORE", !.key = 0, !.failed = TRUE]
        BY <2>1, <2>2
      <3> QED
        BY <1>1, <3>1 DEF Cores
    <2>3. CASE ~failed
      <3>1. core' = [core EXCEPT !.state = "BUSY", !.key = p.key, !.failed = FALSE]
        BY <2>1, <2>3
      <3> QED
        BY <1>1, <3>1 DEF Cores
    <2> QED
      BY <2>2, <2>3
  <1>6. CASE CoreFinishes(p)
    BY <1>1, <1>3, <1>6 DEF CoreFinishes, Cores
  <1>7. CASE CoreScores
    <2>1. \A kept \in CoreKeeps : kept \in SUBSET Nat
      BY <1>1 DEF CoreKeeps, Cores
    <2>2. CASE core' = [core EXCEPT !.state = "SCORE", !.key = 0, !.failed = TRUE]
      BY <1>1, <2>2 DEF Cores
    <2>3. ASSUME NEW kept \in CoreKeeps,
                 core' = [core EXCEPT !.state = "SCORE", !.key = 0, !.kept = kept]
          PROVE  core' \in Cores
      BY <1>1, <2>1, <2>3 DEF Cores
    <2> QED
      BY <1>7, <2>2, <2>3 DEF CoreScores
  <1>8. CASE CoreAnswers(p)
    BY <1>1, <1>3, <1>8 DEF CoreAnswers, Cores
  <1>9. CASE CoreOutputs(p)
    BY <1>1, <1>3, <1>9 DEF CoreOutputs, Cores
  <1>10. CASE CoreEnds(p)
    BY <1>1, <1>2, <1>10 DEF CoreEnds
  <1>11. CASE CoreWaits(p)
    BY <1>1, <1>11 DEF CoreWaits
  <1> HIDE DEF p
  <1> QED
    BY <1>2, <1>4, <1>5, <1>6, <1>7, <1>8, <1>9, <1>10, <1>11 DEF CoreStep, p

\* The control of the engine: the registers have their types, commands meet an
\* idle engine, and the engine is in step with the DMA.
ControlInv == TypeOK /\ OneCommand /\ DmaInStep

\* After reset the registers have their types and nothing is under way.
LEMMA ControlInit ==
    ASSUME Init
    PROVE  ControlInv
  <1>1. slave \in Slaves /\ cfg \in Configs
    BY RegisterAssumption DEF Init, RegsInit, Slaves, Configs
  <1>2. dma \in Dmas({dma.data})
    BY DEF Init, DmaInit, Dmas
  <1>3. eng \in Engines
    <2>1. NoKey \in CacheKeys
      BY DEF NoKey, CacheKeys
    <2> QED
      BY <2>1 DEF Init, EngineInit, Engines, EngineStates
  <1>4. sort \in Sorters
    BY StartSorter DEF Init, EngineInit
  <1>5. core \in Cores
    BY DEF Init, CoreInit, CoreReset, Cores
  <1>7. scanned \in Scans
    BY DEF Init, GhostInit, Scans, NoKey, CacheKeys
  <1>6. OneCommand /\ DmaInStep
    BY DEF Init, RegsInit, EngineInit, DmaInit, OneCommand, DmaInStep, Waiting
  <1> QED
    BY <1>1, <1>2, <1>3, <1>4, <1>5, <1>6, <1>7 DEF ControlInv, TypeOK

\* An edge keeps types, the one command and the step of engine and DMA.
LEMMA ControlStep ==
    ASSUME ControlInv, [Tick]_vars
    PROVE  ControlInv'
  <1> USE DEF ControlInv
  <1>1. CASE Tick
    <2>1. slave.start \/ slave.invalidate \/ slave.illegal =>
              eng.es = "S_IDLE" /\ ~slave.aw_have /\ ~slave.w_have
      BY DEF OneCommand
    <2>2. eng.busy \in BOOLEAN /\ eng.busy = (eng.es # "S_IDLE")
      BY DEF OneCommand, TypeOK, Engines
    <2>3. /\ slave' \in Slaves
          /\ cfg' \in Configs
          /\ slave'.start \/ slave'.invalidate \/ slave'.illegal =>
                 /\ ~eng.busy
                 /\ slave.aw_have /\ slave.w_have
                 /\ ~slave'.aw_have /\ ~slave'.w_have
      BY <1>1, <2>2, RegsStepFacts DEF Tick, TypeOK
    <2>4. EngineStep
      BY <1>1 DEF Tick
    <2>5. dma' \in Dmas({dma'.data})
      BY <1>1, DmaStepFacts DEF Tick, TypeOK
    <2>9. scanned' \in Scans
      <3>1. CacheKey \in CacheKeys
        BY DEF TypeOK, CacheKey, CacheKeys, Configs, nkeys, topk, heads, qbase, kbase
      <3>2. scanned \in Scans /\ core.kept \in SUBSET Nat
        BY DEF TypeOK, Cores
      <3> QED
        BY <1>1, <3>1, <3>2 DEF Tick, GhostStep, Scans
    <2>6. TypeOK'
      BY <1>1, <2>9, <2>3, <2>4, <2>5, EngineFlow, CoreTypes DEF Tick, TypeOK
    <2>7. OneCommand'
      <3>1. slave'.start \/ slave'.invalidate \/ slave'.illegal => ~slave.start /\ eng.es = "S_IDLE"
        BY <2>1, <2>2, <2>3
      <3>2. slave'.start \/ slave'.invalidate \/ slave'.illegal => eng'.es = "S_IDLE"
        BY <2>4, <3>1, IdleFacts DEF TypeOK
      <3>3. eng'.busy = (eng'.es # "S_IDLE")
        BY <2>2, <2>4, EngineFlow
      <3> QED
        BY <2>3, <3>2, <3>3 DEF OneCommand
    <2>8. DmaInStep'
      <3>1. /\ dma.state = "IDLE" /\ ~Request.valid => dma'.state = "IDLE" /\ ~dma'.done
            /\ dma.state = "IDLE" /\ Request.valid /\ dma'.state = "IDLE" => dma'.done
            /\ dma'.state # "IDLE" => ~dma'.done
            /\ dma.state # "IDLE" /\ dma'.state = "IDLE" => dma'.done
            /\ dma'.done \in BOOLEAN /\ dma.done \in BOOLEAN
        BY <1>1, DmaStepFacts DEF Tick, TypeOK, Dmas
      <3>2. CASE eng.es \in Asking
        <4>1. dma.state = "IDLE" /\ Request.valid
          BY <3>2, RequestFacts DEF DmaInStep, Asking, Waiting
        <4>2. eng'.es \in Waiting
          BY <2>4, <3>2, <4>1, EngineFlow DEF WaitFor, Asking, Waiting
        <4> QED
          BY <3>1, <4>1, <4>2 DEF DmaInStep
      <3>3. CASE eng.es \in Waiting
        <4>1. ~Request.valid
          BY <3>3, RequestFacts DEF Asking, Waiting
        <4>2. CASE dma.done
          BY <2>4, <3>1, <3>3, <4>1, <4>2, EngineFlow DEF DmaInStep
        <4>3. CASE ~dma.done
          BY <2>4, <3>1, <3>3, <4>1, <4>3, EngineFlow DEF DmaInStep
        <4> QED
          BY <4>2, <4>3
      <3>4. CASE eng.es \notin Asking \cup Waiting
        BY <2>4, <3>1, <3>4, RequestFacts, EngineFlow DEF DmaInStep
      <3> QED
        BY <3>2, <3>3, <3>4
    <2> QED
      BY <2>6, <2>7, <2>8
  <1>2. CASE UNCHANGED vars
    BY <1>2 DEF vars, TypeOK, OneCommand, DmaInStep
  <1> QED
    BY <1>1, <1>2

\* Types, one command at an idle engine and the engine in step with its DMA, at every
\* edge: slave, DMA and engine each change in the same edge and see the others' old
\* registers.
THEOREM ControlInvariant == Spec => []ControlInv
  BY ControlInit, ControlStep, PTL DEF Spec

\* A command is seen only by an idle engine: busy rises before another beat can be
\* complete, and a beat that is complete while the engine is busy is refused.
THEOREM CommandsAlwaysMeetIdle == Spec => []CommandsMeetIdle
  <1>1. ControlInv => CommandsMeetIdle
    BY DEF ControlInv, OneCommand, CommandsMeetIdle
  <1> QED
    BY <1>1, ControlInvariant, PTL

\* The engine and its DMA stay in step: one request at a time, one answer to each,
\* and none left over, whatever the memory answers and when.
THEOREM DmaAlwaysInStep == Spec => []DmaInStep
  <1>1. ControlInv => DmaInStep
    BY DEF ControlInv
  <1> QED
    BY <1>1, ControlInvariant, PTL

-----------------------------------------------------------------------------
(* The phases of a job                                                       *)

\* The states before a key is chosen, and those in which its record is loaded.
Loading == {"S_QREQ", "S_QWAIT", "S_QLOAD", "S_NEXT_KEY", "S_CREQ", "S_CWAIT", "S_CSELECT"}
Keyed == {"S_KREQ", "S_KWAIT", "S_KLOAD", "S_KEYSTART"}
Scanning == Loading \cup Keyed \cup {"S_KEYWAIT", "S_END"}
Sorts == {"S_SORT_SIFT", "S_SORT_TAKE"}
Selecting == {"S_JOB", "S_RESULTS"} \cup Scanning \cup Sorts
Gathering == {"S_GREAD", "S_GWAIT", "S_GWRITE", "S_GWRITEWAIT"}
Delivering == {"S_OUTREQ", "S_OUTWAIT", "S_ADVANCE", "S_FINISH"} \cup Gathering

\* What S_START has found holds for the whole job, which a scan begins by giving
\* up the cached selection.
JobStands ==
    /\ eng.es \in Selecting \cup Delivering => ConfigOk /\ scanned.key = CacheKey
    /\ eng.es \in Selecting => mode # REUSE /\ ~eng.cache_valid

\* The scoring core is where the engine believes it to be.
CoreInStep ==
    /\ eng.es \in {"S_IDLE", "S_START", "S_JOB"} \cup Sorts \cup Delivering =>
           core.state \in {"IDLE", "DONE"}
    /\ eng.es \in Loading \cup Keyed \cup {"S_END"} => core.state = "READY"
    /\ eng.es = "S_KEYWAIT" => core.state \in {"BUSY", "SCORE"}
    /\ eng.es = "S_KEYWAIT" /\ core.state = "BUSY" => core.key = eng.current_key
    /\ eng.es = "S_RESULTS" => core.state = "OUTPUTS" /\ core.head \in core.kept
    /\ eng.es \in Scanning => core.limit = topk

\* After n keys, all of them below a bound, the core has kept as many as it may.
KeptOf(kept, n, bound) ==
    /\ IsFiniteSet(kept)
    /\ Cardinality(kept) = IF n < topk THEN n ELSE topk
    /\ \A k \in kept : k < bound

\* Keys come in ascending order, so the next one is none of those before it.
NextKey ==
    IF mode # REINDEX THEN eng.scan_no
    ELSE IF eng.scan_no = 0 THEN 0 ELSE eng.previous_candidate + 1

KeysCounted ==
    /\ eng.es = "S_JOB" => eng.scan_no = 0
    /\ eng.es \in {"S_CREQ", "S_CWAIT", "S_CSELECT"} => mode = REINDEX
    /\ eng.es \in {"S_CREQ", "S_CWAIT", "S_CSELECT", "S_KEYWAIT"} \cup Keyed =>
           eng.scan_no < scan_count
    /\ eng.es \in Scanning => eng.scan_no <= scan_count
    /\ eng.es = "S_END" => eng.scan_no = scan_count
    /\ eng.es \in Loading \cup {"S_END"} => KeptOf(core.kept, eng.scan_no, NextKey)
    /\ eng.es \in Keyed \cup {"S_KEYWAIT"} =>
           eng.current_key = IF mode = REINDEX THEN eng.previous_candidate ELSE eng.scan_no
    /\ eng.es \in Keyed \/ (eng.es = "S_KEYWAIT" /\ core.state = "BUSY") =>
           KeptOf(core.kept, eng.scan_no, eng.current_key)
    /\ eng.es = "S_KEYWAIT" /\ core.state = "SCORE" /\ ~core.failed =>
           KeptOf(core.kept, eng.scan_no + 1, eng.current_key + 1)

\* The results that have come and those still in the core are the keys it kept.
Collecting ==
    /\ eng.result_count + Cardinality(core.kept) = out_count
    /\ IsFiniteSet(core.kept)
    /\ Distinct(selection, eng.result_count)
    /\ Entries(selection, eng.result_count) \cup core.kept = scanned.kept
    /\ Entries(selection, eng.result_count) \cap core.kept = {}

\* The selection is the one the latest scan made, in ascending order.
Selected ==
    /\ Entries(selection, eng.result_count) = scanned.kept
    /\ Cardinality(scanned.kept) = eng.result_count
    /\ Ascending(eng.result_count)

SelectionGood ==
    /\ selection \in [0 .. MaxK - 1 -> Nat]
    /\ eng.es \in {"S_JOB"} \cup Scanning => eng.result_count = 0
    /\ eng.es \in {"S_RESULTS"} \cup Sorts => Cardinality(scanned.kept) = out_count
    /\ eng.es = "S_RESULTS" => Collecting
    /\ eng.es \in Sorts =>
           /\ eng.result_count = out_count
           /\ Entries(selection, eng.result_count) = scanned.kept
           /\ SortInv(selection, sort, eng.result_count)
           /\ sort.at = IF eng.es = "S_SORT_SIFT" THEN "SIFT" ELSE "TAKE"
    /\ eng.es \in Delivering =>
           /\ eng.result_count = out_count
           /\ eng.output_no < eng.result_count
           /\ Selected
    /\ eng.es = "S_FINISH" => eng.output_no + 1 = eng.result_count
    /\ eng.es \in Gathering => eng.gather_offset < kv
    /\ eng.cache_valid => eng.saved = scanned.key /\ Selected

-----------------------------------------------------------------------------
(* What is written                                                           *)

ResultLine(i) == <<obase + i, <<"result", selection[i]>>>>
GatherLine(i, j) == <<gbase + i * kv + j, <<"kv", kvbase + selection[i] * kv + j>>>>

\* The DMA writes the line the engine is at, and a line that was read to be
\* gathered is the one its key calls for.
WritesFollow ==
    /\ dma.state \in {"WRITE", "BRESP"} =>
           /\ eng.es \in {"S_OUTWAIT", "S_GWRITEWAIT"}
           /\ LineOk(dma.addr)
           /\ eng.es = "S_OUTWAIT" => <<dma.addr, dma.data>> = ResultLine(eng.output_no)
           /\ eng.es = "S_GWRITEWAIT" =>
                  <<dma.addr, dma.data>> = GatherLine(eng.output_no, eng.gather_offset)
    /\ eng.es \in {"S_OUTWAIT", "S_GWRITEWAIT"} /\ dma.state # "IDLE" =>
           dma.state \in {"WRITE", "BRESP"}
    /\ eng.es = "S_GWAIT" /\ (dma.state # "IDLE" \/ ~dma.error) =>
           dma.addr = kvbase + selection[eng.output_no] * kv + eng.gather_offset
    /\ eng.es \in {"S_GWRITE", "S_GWRITEWAIT"} =>
           eng.gather_line =
               <<"kv", kvbase + selection[eng.output_no] * kv + eng.gather_offset>>

\* The lines of the first n results, and the lines gathered for the first n of them
\* and the first g of the next.
Results(n) == {ResultLine(i) : i \in 0 .. n - 1}
Gathered(n, g) ==
    {GatherLine(i, j) : i \in 0 .. n - 1, j \in 0 .. kv - 1}
    \cup {GatherLine(n, j) : j \in 0 .. g - 1}

\* How far a job has come by its state, while no answer was bad.
ResultsOut ==
    IF eng.es = "S_OUTREQ" \/ (eng.es = "S_OUTWAIT" /\ ~dma.done)
    THEN eng.output_no ELSE eng.output_no + 1

GatheredOut ==
    IF eng.es \in {"S_ADVANCE", "S_FINISH"} THEN Gathered(eng.output_no + 1, 0)
    ELSE IF eng.es \in {"S_OUTREQ", "S_OUTWAIT"} THEN Gathered(eng.output_no, 0)
    ELSE IF eng.es = "S_GWRITEWAIT" /\ dma.done
    THEN Gathered(eng.output_no, eng.gather_offset + 1)
    ELSE Gathered(eng.output_no, eng.gather_offset)

WrittenSoFar ==
    /\ eng.es \in {"S_IDLE", "S_START"} \cup Selecting => written = {}
    /\ eng.es \in Selecting => dma.write_beats = 0
    /\ written # {} => ConfigOk
    /\ \A w \in written :
          /\ LineOk(w[1])
          /\ w[1] \in obase .. (obase + out_count - 1) \/ w[1] \in gbase .. (gbase + glines - 1)
    /\ eng.es \in Delivering /\ ~(dma.done /\ dma.error) =>
          /\ written = Results(ResultsOut) \cup GatheredOut
          /\ IsFiniteSet(written)
          /\ dma.write_beats = Cardinality(written)

JobInv == ControlInv /\ JobStands /\ CoreInStep /\ KeysCounted /\ SelectionGood
          /\ WritesFollow /\ WrittenSoFar

-----------------------------------------------------------------------------
(* How a job goes on                                                         *)

\* Registers stand while the engine is busy: a beat that comes then is refused.
LEMMA ConfigStays ==
    ASSUME ControlInv, Tick, eng.es # "S_IDLE"
    PROVE  cfg' = cfg
  <1>1. eng.busy \in BOOLEAN /\ eng.busy = (eng.es # "S_IDLE")
    BY DEF ControlInv, TypeOK, OneCommand, Engines
  <1> QED
    BY <1>1, RegsStepFacts DEF Tick, ControlInv, TypeOK

\* The regions of a job are those of its registers, so they stand while it runs.
LEMMA ScopeStays ==
    ASSUME cfg' = cfg, mode = REUSE => eng'.result_count = eng.result_count
    PROVE  /\ out_count' = out_count
           /\ ConfigOk' <=> ConfigOk
           /\ CacheKey' = CacheKey
           /\ glines' = glines
  <1>1. out_count' = out_count
    BY DEF out_count, mode, scan_count, ncand, nkeys, topk
  <1>2. RangesOk' <=> RangesOk
    BY <1>1 DEF RangesOk, RegionOk, Separate, qbase, kbase, cbase, obase, kvbase, gbase,
                qlines, klines, clines, vlines, glines, mode, heads, nkeys, ncand, kv
  <1> QED
    BY <1>1, <1>2 DEF ConfigOk, CacheKey, glines, mode, nkeys, topk, heads, ncand, kv,
                      qbase, kbase

\* A scan goes on, ends with a selection or fails; it never marks one as valid.
LEMMA SelectingFlow ==
    ASSUME ControlInv, EngineStep, eng.es \in Selecting
    PROVE  /\ eng'.es \in Selecting \cup {"S_OUTREQ", "S_ERROR"}
           /\ eng'.cache_valid => eng.cache_valid
           /\ eng'.done_flag => eng.done_flag
  <1> USE DEF ControlInv, TypeOK
  <1> USE DEF Keeps, KeepsFlags, Selecting, Scanning, Loading, Keyed, Sorts
  <1>1. CASE eng.es \in {"S_QREQ", "S_CREQ", "S_KREQ"}
    BY <1>1, AskingFacts DEF WaitFor, Asking
  <1>2. CASE eng.es = "S_JOB"
    BY <1>2, JobFacts
  <1>3. CASE eng.es = "S_QWAIT"
    BY <1>3, QwaitFacts
  <1>4. CASE eng.es = "S_QLOAD"
    BY <1>4, QloadFacts
  <1>5. CASE eng.es = "S_NEXT_KEY"
    BY <1>5, NextKeyFacts
  <1>6. CASE eng.es = "S_CWAIT"
    BY <1>6, CwaitFacts
  <1>7. CASE eng.es = "S_CSELECT"
    BY <1>7, CselectFacts
  <1>8. CASE eng.es = "S_KWAIT"
    BY <1>8, KwaitFacts
  <1>9. CASE eng.es = "S_KLOAD"
    BY <1>9, KloadFacts
  <1>10. CASE eng.es = "S_KEYSTART"
    BY <1>10, KeystartFacts
  <1>11. CASE eng.es = "S_KEYWAIT"
    BY <1>11, KeywaitFacts
  <1>12. CASE eng.es = "S_END"
    BY <1>12, EndFacts
  <1>13. CASE eng.es = "S_RESULTS"
    BY <1>13, ResultsFacts
  <1>14. CASE eng.es \in Sorts
    <2>1. PICK step : Sorting(step) /\ step.sort \in Sorters
      BY <1>14, SortTypes DEF EngineStep, S_SORT_SIFT, S_SORT_TAKE
    <2> QED
      BY <1>14, <2>1, SortingFacts DEF Sorters
  <1> QED
    BY <1>1, <1>2, <1>3, <1>4, <1>5, <1>6, <1>7, <1>8, <1>9, <1>10, <1>11, <1>12, <1>13, <1>14

\* Results go out, or a write fails; the selection stays.
LEMMA DeliveringFlow ==
    ASSUME ControlInv, EngineStep, eng.es \in Delivering, eng.es # "S_FINISH"
    PROVE  /\ eng'.es \in Delivering \cup {"S_ERROR"}
           /\ eng'.result_count = eng.result_count
           /\ KeepsFlags(eng')
           /\ SelectionAlone
  <1> USE DEF ControlInv, TypeOK, Keeps, Delivering, Gathering
  <1>1. CASE eng.es \in {"S_OUTREQ", "S_GREAD", "S_GWRITE"}
    BY <1>1, AskingFacts DEF WaitFor, Asking
  <1>2. CASE eng.es = "S_OUTWAIT"
    BY <1>2, OutwaitFacts
  <1>3. CASE eng.es = "S_GWAIT"
    BY <1>3, GwaitFacts
  <1>4. CASE eng.es = "S_GWRITEWAIT"
    BY <1>4, GwritewaitFacts
  <1>5. CASE eng.es = "S_ADVANCE"
    BY <1>5, AdvanceFacts
  <1> QED
    BY <1>1, <1>2, <1>3, <1>4, <1>5

\* The checks S_START makes hold of the registers until the job ends.
LEMMA JobStandsStep ==
    ASSUME JobInv, Tick
    PROVE  JobStands'
  <1> USE DEF JobInv
  <1>1. EngineStep /\ GhostStep
    BY DEF Tick
  <1>2. /\ eng.es # "S_IDLE" => cfg' = cfg
        /\ eng.es \in EngineStates
    BY ConfigStays DEF ControlInv, TypeOK, Engines
  <1>3. eng.es # "S_START" => scanned'.key = scanned.key
    <2>1. scanned' = scanned \/ scanned' = [scanned EXCEPT !.kept = core.kept] \/ eng.es = "S_START"
      BY <1>1 DEF GhostStep
    <2> QED
      BY <2>1 DEF ControlInv, TypeOK, Scans
  <1>4. CASE eng.es = "S_IDLE"
    <2>1. eng'.es \in {"S_IDLE", "S_START"}
      BY <1>1, <1>4, IdleFacts DEF ControlInv, TypeOK
    <2> QED
      BY <2>1 DEF JobStands, Selecting, Scanning, Loading, Keyed, Sorts, Delivering, Gathering
  <1>5. CASE eng.es = "S_START"
    <2>1. CASE eng'.es = "S_ERROR"
      BY <2>1 DEF JobStands, Selecting, Scanning, Loading, Keyed, Sorts, Delivering, Gathering
    <2>2. CASE eng'.es = "S_OUTREQ"
      <3>1. /\ mode = REUSE /\ ReuseOk /\ ConfigOk
            /\ eng'.result_count = eng.result_count
        BY <1>1, <1>5, <2>2, StartFacts DEF ControlInv, TypeOK
      <3>2. scanned' = scanned
        BY <1>1, <1>5, <2>2 DEF GhostStep
      <3>3. scanned.key = CacheKey
        BY <3>1 DEF ReuseOk, SelectionGood
      <3>4. ConfigOk' /\ CacheKey' = CacheKey
        BY <1>2, <1>5, <3>1, ScopeStays
      <3> QED
        BY <2>2, <3>2, <3>3, <3>4 DEF JobStands, Selecting, Scanning, Loading, Keyed, Sorts
    <2>3. CASE eng'.es = "S_JOB"
      <3>1. /\ mode # REUSE /\ ConfigOk
            /\ ~eng'.cache_valid
        BY <1>1, <1>5, <2>3, StartFacts DEF ControlInv, TypeOK
      <3>2. scanned' = [key |-> CacheKey, kept |-> {}]
        BY <1>1, <1>5, <2>3 DEF GhostStep
      <3>3. ConfigOk' /\ CacheKey' = CacheKey /\ mode' = mode
        BY <1>2, <1>5, <3>1, ScopeStays DEF mode
      <3> QED
        BY <3>1, <3>2, <3>3 DEF JobStands, REUSE
    <2> QED
      BY <1>1, <1>5, <2>1, <2>2, <2>3, StartFacts DEF ControlInv, TypeOK
  <1>6. CASE eng.es \in Selecting
    <2>1. ConfigOk /\ scanned.key = CacheKey /\ mode # REUSE /\ ~eng.cache_valid
      BY <1>6 DEF JobStands
    <2>2. ConfigOk' /\ CacheKey' = CacheKey /\ mode' = mode /\ scanned'.key = scanned.key
      BY <1>2, <1>3, <1>6, <2>1, ScopeStays
      DEF mode, Selecting, Scanning, Loading, Keyed, Sorts
    <2>3. ~eng'.cache_valid
      BY <1>1, <1>6, <2>1, SelectingFlow
    <2> QED
      BY <2>1, <2>2, <2>3 DEF JobStands, REUSE
  <1>7. CASE eng.es \in Delivering /\ eng.es # "S_FINISH"
    <2>1. ConfigOk /\ scanned.key = CacheKey
      BY <1>7 DEF JobStands
    <2>2. /\ eng'.es \in Delivering \cup {"S_ERROR"}
          /\ eng'.result_count = eng.result_count
      BY <1>1, <1>7, DeliveringFlow
    <2>3. ConfigOk' /\ CacheKey' = CacheKey /\ scanned'.key = scanned.key
      BY <1>2, <1>3, <1>7, <2>1, <2>2, ScopeStays DEF Delivering, Gathering
    <2> QED
      BY <2>1, <2>2, <2>3
      DEF JobStands, Selecting, Scanning, Loading, Keyed, Sorts, Delivering, Gathering
  <1>8. CASE eng.es \in {"S_FINISH", "S_ERROR"}
    <2>1. eng'.es = "S_IDLE"
      BY <1>1, <1>8, FinishFacts, ErrorFacts DEF ControlInv, TypeOK
    <2> QED
      BY <2>1 DEF JobStands, Selecting, Scanning, Loading, Keyed, Sorts, Delivering, Gathering
  <1> QED
    BY <1>2, <1>4, <1>5, <1>6, <1>7, <1>8
    DEF EngineStates, Selecting, Scanning, Loading, Keyed, Sorts, Delivering, Gathering

-----------------------------------------------------------------------------
(* The scoring core                                                          *)

\* An edge of the core, by its state and what the engine's state asks of it.
LEMMA CoreFacts ==
    ASSUME TypeOK, CoreStep(CorePorts)
    PROVE  /\ eng.es = "S_ERROR" => core'.state = "IDLE"
           /\ eng.es # "S_ERROR" =>
              /\ core.state = "IDLE" /\ eng.es # "S_JOB" => core'.state = "IDLE"
              /\ core.state = "IDLE" /\ eng.es = "S_JOB" /\ ConfigOk =>
                     core'.state = "READY" /\ core'.limit = topk /\ core'.kept = {}
              /\ core.state = "READY" /\ eng.es \notin {"S_KEYSTART", "S_END"} => core' = core
              /\ core.state = "READY" /\ eng.es = "S_KEYSTART" =>
                     /\ \/ core'.state = "SCORE" /\ core'.failed
                        \/ core'.state = "BUSY" /\ core'.key = eng.current_key
                     /\ core'.limit = core.limit /\ core'.kept = core.kept
              /\ core.state = "READY" /\ eng.es = "S_END" =>
                     \/ core.kept = {}
                     \/ /\ core'.state = "OUTPUTS" /\ core'.kept = core.kept
                        /\ core'.head \in core.kept
              /\ core.state = "BUSY" =>
                     /\ core'.state = "SCORE" /\ core'.limit = core.limit
                     /\ ~core'.failed => core'.kept \in CoreKeeps
              /\ core.state = "SCORE" /\ eng.es = "S_KEYWAIT" /\ ~core.failed =>
                     /\ core'.state = "READY" /\ core'.limit = core.limit
                     /\ core'.kept = core.kept
              /\ core.state = "OUTPUTS" /\ eng.es = "S_RESULTS" =>
                     \/ core.kept = {core.head} /\ core'.state = "DONE"
                     \/ /\ core.kept # {core.head}
                        /\ core'.state = "OUTPUTS" /\ core'.kept = core.kept \ {core.head}
                        /\ core'.head \in core'.kept
              /\ core.state = "DONE" => core'.state = "IDLE"
  <1> DEFINE p == CorePorts
  <1>1. /\ core \in Cores
        /\ p.reset <=> eng.es = "S_ERROR"
        /\ p.job <=> eng.es = "S_JOB"
        /\ ConfigOk => p.job_ok
        /\ p.limit = topk
        /\ p.key_valid <=> eng.es = "S_KEYSTART"
        /\ p.key = eng.current_key
        /\ p.finish <=> eng.es = "S_END"
        /\ p.score_ready <=> eng.es = "S_KEYWAIT"
        /\ p.result_ready <=> eng.es = "S_RESULTS"
        /\ p.done_ready
    BY DEF TypeOK, CorePorts, ConfigOk
  <1>2. CoreReset.state = "IDLE" /\ CoreReset.kept = {}
    BY DEF CoreReset
  <1>3. /\ CoreDone(TRUE).state = "DONE"
        /\ CoreDone(FALSE).state = "DONE"
    BY DEF CoreReset, CoreDone
  <1>4. CoreStep(p)
    OBVIOUS
  <1> HIDE DEF p
  <1>5. CASE p.reset /\ core' = CoreReset
    BY <1>1, <1>2, <1>5
  <1>6. CASE ~p.reset /\ CoreTakesJob(p)
    <2>1. [CoreReset EXCEPT !.state = "READY", !.limit = p.limit].state = "READY"
          /\ [CoreReset EXCEPT !.state = "READY", !.limit = p.limit].limit = p.limit
          /\ [CoreReset EXCEPT !.state = "READY", !.limit = p.limit].kept = {}
      BY DEF CoreReset
    <2> QED
      BY <1>1, <1>6, <2>1 DEF CoreTakesJob
  <1>7. CASE ~p.reset /\ CoreAccepts(p)
    <2>1. PICK failed \in BOOLEAN :
              core' = [core EXCEPT !.state = IF failed THEN "SCORE" ELSE "BUSY",
                                   !.key = IF failed THEN 0 ELSE p.key,
                                   !.failed = failed]
      BY <1>7, Zenon DEF CoreAccepts
    <2>2. CASE failed
      <3>1. core' = [core EXCEPT !.state = "SCORE", !.key = 0, !.failed = TRUE]
        BY <2>1, <2>2
      <3> QED
        BY <1>1, <1>7, <3>1 DEF CoreAccepts, Cores
    <2>3. CASE ~failed
      <3>1. core' = [core EXCEPT !.state = "BUSY", !.key = p.key, !.failed = FALSE]
        BY <2>1, <2>3
      <3> QED
        BY <1>1, <1>7, <3>1 DEF CoreAccepts, Cores
    <2> QED
      BY <2>2, <2>3
  <1>8. CASE ~p.reset /\ CoreFinishes(p)
    BY <1>1, <1>8 DEF CoreFinishes, Cores
  <1>9. CASE ~p.reset /\ CoreWaits(p)
    BY <1>1, <1>9 DEF CoreWaits
  <1>10. CASE ~p.reset /\ CoreScores
    <2>1. CASE core' = [core EXCEPT !.state = "SCORE", !.key = 0, !.failed = TRUE]
      BY <1>1, <1>10, <2>1 DEF CoreScores, Cores
    <2>2. CASE \E kept \in CoreKeeps :
                   core' = [core EXCEPT !.state = "SCORE", !.key = 0, !.kept = kept]
      BY <1>1, <1>10, <2>2 DEF CoreScores, Cores
    <2> QED
      BY <1>10, <2>1, <2>2 DEF CoreScores
  <1>11. CASE ~p.reset /\ CoreAnswers(p)
    BY <1>1, <1>11 DEF CoreAnswers, Cores
  <1>12. CASE ~p.reset /\ CoreOutputs(p)
    BY <1>1, <1>3, <1>12 DEF CoreOutputs, Cores
  <1>13. CASE ~p.reset /\ CoreEnds(p)
    BY <1>1, <1>2, <1>13 DEF CoreEnds
  <1> QED
    BY <1>4, <1>5, <1>6, <1>7, <1>8, <1>9, <1>10, <1>11, <1>12, <1>13 DEF CoreStep

\* While records are loaded, the engine asks, waits and hands over; the core does
\* not move.
LEMMA LoadingFlow ==
    ASSUME ControlInv, EngineStep, eng.es \in Loading \cup Keyed, core.state = "READY"
    PROVE  \/ eng'.es = "S_ERROR"
           \/ /\ eng.es \in Loading \ {"S_NEXT_KEY", "S_CSELECT"}
              /\ Keeps(eng')
              /\ eng'.es \in Loading
              /\ eng'.es \in {"S_CREQ", "S_CWAIT", "S_CSELECT"} =>
                     eng.es \in {"S_CREQ", "S_CWAIT", "S_CSELECT"}
           \/ eng.es = "S_NEXT_KEY" /\ eng'.es \in {"S_END", "S_CREQ", "S_CSELECT", "S_KREQ"}
           \/ eng.es = "S_CSELECT" /\ eng'.es = "S_KREQ"
           \/ /\ eng.es \in Keyed
              /\ Keeps(eng')
              /\ eng'.es \in Keyed \cup {"S_KEYWAIT"}
              /\ eng'.es = "S_KEYWAIT" <=> eng.es = "S_KEYSTART"
  <1> USE DEF ControlInv, TypeOK, Loading, Keyed
  <1>1. CASE eng.es \in {"S_QREQ", "S_CREQ", "S_KREQ"}
    BY <1>1, AskingFacts DEF WaitFor, Asking, DmaInStep, Waiting
  <1>2. CASE eng.es = "S_QWAIT"
    BY <1>2, QwaitFacts
  <1>3. CASE eng.es = "S_QLOAD"
    BY <1>3, QloadFacts
  <1>4. CASE eng.es = "S_NEXT_KEY"
    BY <1>4, NextKeyFacts
  <1>5. CASE eng.es = "S_CWAIT"
    BY <1>5, CwaitFacts
  <1>6. CASE eng.es = "S_CSELECT"
    BY <1>6, CselectFacts
  <1>7. CASE eng.es = "S_KWAIT"
    BY <1>7, KwaitFacts
  <1>8. CASE eng.es = "S_KLOAD"
    BY <1>8, KloadFacts
  <1>9. CASE eng.es = "S_KEYSTART"
    BY <1>9, KeystartFacts
  <1> QED
    BY <1>1, <1>2, <1>3, <1>4, <1>5, <1>6, <1>7, <1>8, <1>9

\* A job that stands has keys to scan and may keep some.
LEMMA CountsPositive ==
    ASSUME cfg \in Configs, ConfigOk, mode # REUSE
    PROVE  /\ topk \in Nat \ {0} /\ topk <= MaxK
           /\ scan_count \in Nat \ {0}
           /\ out_count = IF scan_count < topk THEN scan_count ELSE topk
           /\ out_count \in Nat \ {0} /\ out_count <= MaxK
  <1>1. topk \in Nat \ {0} /\ topk <= MaxK /\ nkeys \in Nat \ {0} /\ mode \in {FULL, REINDEX}
    BY EngineAssumption DEF ConfigOk
  <1>2. scan_count \in Nat \ {0}
    BY <1>1 DEF ConfigOk, scan_count, FULL, REINDEX
  <1> QED
    BY <1>1, <1>2, EngineAssumption DEF out_count

\* The engine and the scoring core stay in step: what S_QLOAD, S_KLOAD and S_KEYWAIT
\* await of the core, the core is at.
LEMMA CoreInStepStep ==
    ASSUME JobInv, Tick
    PROVE  CoreInStep'
  <1> USE DEF JobInv
  <1>1. EngineStep /\ CoreStep(CorePorts) /\ TypeOK /\ ControlInv
    BY DEF Tick, ControlInv
  <1>2. /\ eng.es \in EngineStates
        /\ core.state \in {"IDLE", "READY", "BUSY", "SCORE", "OUTPUTS", "DONE"}
    BY <1>1 DEF TypeOK, Engines, Cores
  <1>3. eng.es # "S_IDLE" => topk' = topk
    BY ConfigStays DEF topk
  <1> DEFINE Resting == {"S_IDLE", "S_START", "S_JOB"} \cup Sorts \cup Delivering
  <1>4. ASSUME core'.state \in {"IDLE", "DONE"}, eng'.es \in Resting \cup {"S_ERROR"}
        PROVE  CoreInStep'
    BY <1>4 DEF CoreInStep, Loading, Keyed, Scanning, Sorts, Delivering, Gathering
  <1>5. CASE eng.es \in {"S_IDLE", "S_START"} \cup Sorts \cup Delivering
    <2>1. core'.state = "IDLE"
      BY <1>1, <1>5, CoreFacts DEF CoreInStep, Sorts, Delivering, Gathering
    <2>2. CASE eng.es = "S_IDLE"
      BY <1>1, <1>4, <2>1, <2>2, IdleFacts DEF TypeOK
    <2>3. CASE eng.es = "S_START"
      BY <1>1, <1>4, <2>1, <2>3, StartFacts DEF TypeOK, Delivering
    <2>4. CASE eng.es \in Sorts
      <3>1. PICK step : Sorting(step) /\ step.sort \in Sorters
        BY <1>1, <2>4, SortTypes DEF Sorts, EngineStep, S_SORT_SIFT, S_SORT_TAKE, TypeOK
      <3>2. eng'.es \in Sorts \cup {"S_OUTREQ"}
        BY <1>1, <3>1, SortingFacts DEF Sorters, Sorts, TypeOK
      <3> QED
        BY <1>4, <2>1, <3>2 DEF Delivering
    <2>5. CASE eng.es \in Delivering /\ eng.es # "S_FINISH"
      BY <1>1, <1>4, <2>1, <2>5, DeliveringFlow
    <2>6. CASE eng.es = "S_FINISH"
      BY <1>1, <1>4, <2>1, <2>6, FinishFacts DEF TypeOK
    <2> QED
      BY <1>5, <2>2, <2>3, <2>4, <2>5, <2>6
  <1>6. CASE eng.es = "S_JOB"
    <2>1. Keeps(eng') /\ eng'.es = IF core.state = "IDLE" THEN "S_QREQ" ELSE "S_JOB"
      BY <1>1, <1>6, JobFacts DEF TypeOK
    <2>2. CASE core.state = "IDLE"
      <3>1. ConfigOk
        BY <1>6 DEF JobStands, Selecting
      <3>2. core'.state = "READY" /\ core'.limit = topk
        BY <1>1, <1>6, <2>2, <3>1, CoreFacts
      <3> QED
        BY <1>3, <1>6, <2>1, <2>2, <3>2
        DEF CoreInStep, Loading, Keyed, Scanning, Sorts, Delivering, Gathering
    <2>3. CASE core.state = "DONE"
      BY <1>1, <1>4, <1>6, <2>1, <2>3, CoreFacts
    <2> QED
      BY <1>6, <2>2, <2>3 DEF CoreInStep
  <1>7. CASE eng.es \in Loading \cup Keyed
    <2>1. core.state = "READY" /\ core.limit = topk
      BY <1>7 DEF CoreInStep, Scanning
    <2>2. CASE eng.es = "S_KEYSTART"
      <3>1. Keeps(eng') /\ eng'.es = "S_KEYWAIT"
        BY <1>1, <2>1, <2>2, KeystartFacts DEF TypeOK
      <3>2. /\ core'.state \in {"SCORE", "BUSY"} /\ core'.limit = core.limit
            /\ core'.state = "BUSY" => core'.key = eng.current_key
        BY <1>1, <2>1, <2>2, CoreFacts
      <3>3. eng'.current_key = eng.current_key
        BY <3>1 DEF Keeps, KeepsScan
      <3> QED
        BY <1>3, <2>1, <2>2, <3>1, <3>2, <3>3
        DEF CoreInStep, Loading, Keyed, Scanning, Sorts, Delivering, Gathering
    <2>3. CASE eng.es # "S_KEYSTART"
      <3>1. core' = core
        BY <1>1, <1>7, <2>1, <2>3, CoreFacts DEF Loading, Keyed
      <3>2. eng'.es \in Loading \cup Keyed \cup {"S_END", "S_ERROR"}
        BY <1>1, <1>7, <2>1, <2>3, LoadingFlow DEF Loading, Keyed
      <3>3. topk' = topk
        BY <1>3, <1>7 DEF Loading, Keyed
      <3> QED
        BY <2>1, <3>1, <3>2, <3>3
        DEF CoreInStep, Loading, Keyed, Scanning, Sorts, Delivering, Gathering
    <2> QED
      BY <2>2, <2>3
  <1>8. CASE eng.es = "S_KEYWAIT"
    <2>1. core.state \in {"BUSY", "SCORE"} /\ core.limit = topk
      BY <1>8 DEF CoreInStep, Scanning
    <2>2. \/ core.state = "BUSY" /\ Keeps(eng') /\ eng'.es = "S_KEYWAIT"
          \/ core.state = "SCORE" /\ core.failed /\ eng'.es = "S_ERROR"
          \/ core.state = "SCORE" /\ ~core.failed /\ eng'.es = "S_NEXT_KEY"
      BY <1>1, <1>8, <2>1, KeywaitFacts DEF TypeOK
    <2>3. /\ core.state = "BUSY" => core'.state = "SCORE" /\ core'.limit = core.limit
          /\ core.state = "SCORE" /\ ~core.failed =>
                 core'.state = "READY" /\ core'.limit = core.limit
      BY <1>1, <1>8, CoreFacts
    <2> QED
      BY <1>3, <1>8, <2>1, <2>2, <2>3
      DEF CoreInStep, Loading, Keyed, Scanning, Sorts, Delivering, Gathering
  <1>9. CASE eng.es = "S_END"
    <2>1. core.state = "READY" /\ eng'.es = "S_RESULTS"
      BY <1>1, <1>9, EndFacts DEF TypeOK, CoreInStep
    <2>2. core.kept # {}
      <3>1. topk \in Nat \ {0} /\ scan_count \in Nat \ {0}
        BY <1>1, <1>9, CountsPositive DEF TypeOK, JobStands, Selecting, Scanning
      <3>2. Cardinality(core.kept) # 0
        BY <1>9, <3>1 DEF KeysCounted, KeptOf
      <3> QED
        BY <3>2, FS_EmptySet
    <2>3. core'.state = "OUTPUTS" /\ core'.head \in core'.kept
      BY <1>1, <1>9, <2>1, <2>2, CoreFacts
    <2> QED
      BY <2>1, <2>3 DEF CoreInStep, Loading, Keyed, Scanning, Sorts, Delivering, Gathering
  <1>10. CASE eng.es = "S_RESULTS"
    <2>1. core.state = "OUTPUTS"
      BY <1>10 DEF CoreInStep
    <2>2. eng'.es = IF core.kept # {core.head} THEN "S_RESULTS"
                    ELSE IF eng.result_count = 0 THEN "S_OUTREQ"
                    ELSE "S_SORT_SIFT"
      BY <1>1, <1>10, <2>1, ResultsFacts DEF TypeOK
    <2>3. \/ core.kept = {core.head} /\ core'.state = "DONE"
          \/ /\ core.kept # {core.head}
             /\ core'.state = "OUTPUTS"
             /\ core'.head \in core'.kept
      BY <1>1, <1>10, <2>1, CoreFacts
    <2>4. CASE core.kept = {core.head}
      BY <1>4, <2>2, <2>3, <2>4 DEF Sorts, Delivering
    <2>5. CASE core.kept # {core.head}
      BY <2>2, <2>3, <2>5 DEF CoreInStep, Loading, Keyed, Scanning, Sorts, Delivering, Gathering
    <2> QED
      BY <2>4, <2>5
  <1>11. CASE eng.es = "S_ERROR"
    BY <1>1, <1>4, <1>11, ErrorFacts, CoreFacts DEF TypeOK
  <1> QED
    BY <1>2, <1>5, <1>6, <1>7, <1>8, <1>9, <1>10, <1>11
    DEF EngineStates, Loading, Keyed, Sorts, Delivering, Gathering

-----------------------------------------------------------------------------
(* The keys of a scan                                                        *)

\* A key above all the kept ones enters the heap, or one of the keys leaves it.
LEMMA KeepingCounts ==
    ASSUME TypeOK, NEW n \in Nat, NEW kept \in CoreKeeps, topk \in Nat \ {0},
           KeptOf(core.kept, n, core.key), core.limit = topk
    PROVE  KeptOf(kept, n + 1, core.key + 1)
  <1> DEFINE both == core.kept \cup {core.key}
  <1>1. /\ core.key \in Nat /\ core.kept \in SUBSET Nat
        /\ core.key \notin core.kept
        /\ IsFiniteSet(core.kept)
        /\ Cardinality(core.kept) = IF n < topk THEN n ELSE topk
    BY DEF TypeOK, Cores, KeptOf
  <1>2. /\ IsFiniteSet(both)
        /\ Cardinality(both) = Cardinality(core.kept) + 1
    BY <1>1, FS_AddElement
  <1>3. \A k \in both : k < core.key + 1
    BY <1>1 DEF KeptOf
  <1>4. CASE n < topk
    <2>1. kept = both
      BY <1>1, <1>4 DEF CoreKeeps
    <2> HIDE DEF both
    <2> QED
      BY <1>1, <1>2, <1>3, <1>4, <2>1 DEF KeptOf
  <1>5. CASE ~(n < topk)
    <2>1. PICK worst \in both : kept = both \ {worst}
      BY <1>1, <1>5 DEF CoreKeeps
    <2> HIDE DEF both
    <2>2. IsFiniteSet(kept) /\ Cardinality(kept) = Cardinality(both) - 1
      BY <1>2, <2>1, FS_RemoveElement
    <2>3. Cardinality(kept) = topk
      BY <1>1, <1>2, <1>5, <2>2
    <2> QED
      BY <1>3, <1>5, <2>1, <2>2, <2>3 DEF KeptOf
  <1> QED
    BY <1>4, <1>5

\* The core has seen the enabled keys before the one the engine is at, and has kept the
\* best of them (S_NEXT_KEY to S_END).
LEMMA KeysCountedStep ==
    ASSUME JobInv, Tick
    PROVE  KeysCounted'
  <1> USE DEF JobInv
  <1>1. EngineStep /\ CoreStep(CorePorts) /\ TypeOK /\ ControlInv /\ TypeOK'
    BY ControlStep DEF Tick, ControlInv
  <1>2. /\ slave \in Slaves /\ cfg \in Configs /\ eng \in Engines
        /\ eng.es \in EngineStates /\ eng.scan_no \in Nat /\ eng.current_key \in Nat
        /\ eng.previous_candidate \in Nat
    BY <1>1 DEF TypeOK, Engines
  <1>3. eng.es # "S_IDLE" => topk' = topk /\ mode' = mode /\ scan_count' = scan_count
    BY ConfigStays DEF topk, mode, scan_count, nkeys, ncand
  <1>4. eng.es \in {"S_JOB"} \cup Scanning =>
            topk \in Nat \ {0} /\ scan_count \in Nat \ {0}
    BY <1>2, CountsPositive DEF JobStands, Selecting
  <1>5. ASSUME eng'.es \notin {"S_JOB"} \cup Scanning
        PROVE  KeysCounted'
    BY <1>5 DEF KeysCounted, Scanning, Loading, Keyed
  <1>6. CASE eng.es \in {"S_IDLE", "S_START"}
    <2>1. CASE eng'.es = "S_JOB"
      <3>1. eng'.scan_no = 0
        BY <1>1, <1>2, <1>6, <2>1, StartFacts, IdleFacts
      <3> QED
        BY <2>1, <3>1 DEF KeysCounted, Scanning, Loading, Keyed
    <2> QED
      BY <1>1, <1>2, <1>5, <1>6, <2>1, StartFacts, IdleFacts DEF Scanning, Loading, Keyed
  <1>7. CASE eng.es = "S_JOB"
    <2>1. Keeps(eng') /\ eng'.es = IF core.state = "IDLE" THEN "S_QREQ" ELSE "S_JOB"
      BY <1>1, <1>2, <1>7, JobFacts
    <2>2. eng'.scan_no = 0
      BY <1>7, <2>1 DEF KeysCounted, Keeps, KeepsScan
    <2>3. CASE core.state = "IDLE"
      <3>1. core'.kept = {}
        BY <1>1, <1>7, <2>3, CoreFacts DEF JobStands, Selecting
      <3>2. KeptOf({}, 0, NextKey)'
        BY <1>3, <1>4, <1>7, FS_EmptySet DEF KeptOf
      <3> QED
        BY <1>3, <1>4, <1>7, <2>1, <2>2, <2>3, <3>1, <3>2
        DEF KeysCounted, Scanning, Loading, Keyed
    <2>4. CASE core.state # "IDLE"
      BY <2>1, <2>2, <2>4 DEF KeysCounted, Scanning, Loading, Keyed
    <2> QED
      BY <2>3, <2>4
  <1>8. CASE eng.es \in Loading \cup Keyed
    <2>1. core.state = "READY"
      BY <1>8 DEF CoreInStep
    <2>2. CASE eng'.es = "S_ERROR"
      BY <1>5, <2>2 DEF Scanning, Loading, Keyed
    <2>3. CASE eng.es \in Loading \ {"S_NEXT_KEY", "S_CSELECT"} /\ eng'.es \in Loading
      <3>1. /\ Keeps(eng') /\ eng'.es \in Loading
            /\ eng'.es \in {"S_CREQ", "S_CWAIT", "S_CSELECT"} =>
                   eng.es \in {"S_CREQ", "S_CWAIT", "S_CSELECT"}
        BY <1>1, <1>8, <2>1, <2>3, LoadingFlow DEF Loading, Keyed
      <3>2. core' = core
        BY <1>1, <2>1, <2>3, CoreFacts DEF Loading
      <3>3. /\ eng'.scan_no = eng.scan_no
            /\ NextKey' = NextKey
        BY <1>3, <2>3, <3>1 DEF Keeps, KeepsScan, NextKey, Loading
      <3>4. KeptOf(core.kept, eng.scan_no, NextKey) /\ eng.scan_no <= scan_count
        BY <2>3 DEF KeysCounted, Scanning
      <3>5. KeptOf(core.kept, eng.scan_no, NextKey)'
        BY <1>3, <2>3, <3>2, <3>3, <3>4 DEF KeptOf, Loading
      <3> QED
        BY <1>3, <2>3, <3>1, <3>3, <3>4, <3>5 DEF KeysCounted, Scanning, Loading, Keyed
    <2>4. CASE eng.es = "S_NEXT_KEY"
      <3>1. core' = core
        BY <1>1, <2>1, <2>4, CoreFacts
      <3>2. KeptOf(core.kept, eng.scan_no, NextKey) /\ eng.scan_no <= scan_count
        BY <2>4 DEF KeysCounted, Scanning, Loading
      <3>3. CASE eng.scan_no = scan_count \/ mode = REINDEX
        <4>1. /\ Keeps(eng')
              /\ IF eng.scan_no = scan_count THEN eng'.es = "S_END"
                                             ELSE eng'.es \in {"S_CREQ", "S_CSELECT"}
          BY <1>1, <1>2, <2>4, <3>3, NextKeyFacts
        <4>2. /\ eng'.scan_no = eng.scan_no
              /\ NextKey' = NextKey
          BY <1>3, <2>4, <4>1 DEF Keeps, KeepsScan, NextKey
        <4>3. KeptOf(core.kept, eng.scan_no, NextKey)'
          BY <1>3, <2>4, <3>1, <3>2, <4>2 DEF KeptOf
        <4> QED
          BY <1>2, <1>3, <1>4, <2>4, <3>2, <3>3, <4>1, <4>2, <4>3
          DEF KeysCounted, Scanning, Loading, Keyed, REINDEX
      <3>4. CASE eng.scan_no # scan_count /\ mode # REINDEX
        <4>1. /\ eng'.es = "S_KREQ"
              /\ eng'.current_key = eng.scan_no
              /\ eng'.scan_no = eng.scan_no
          BY <1>1, <1>2, <2>4, <3>4, NextKeyFacts
        <4>2. KeptOf(core.kept, eng.scan_no, eng.current_key)'
          BY <1>3, <2>4, <3>1, <3>2, <3>4, <4>1 DEF KeptOf, NextKey
        <4> QED
          BY <1>2, <1>3, <1>4, <2>4, <3>2, <3>4, <4>1, <4>2
          DEF KeysCounted, Scanning, Loading, Keyed, REINDEX
      <3> QED
        BY <3>3, <3>4
    <2>5. CASE eng.es = "S_CSELECT" /\ eng'.es = "S_KREQ"
      <3>1. core' = core
        BY <1>1, <2>1, <2>5, CoreFacts
      <3>2. /\ eng' \in Engines
            /\ eng.scan_no # 0 => eng'.current_key > eng.previous_candidate
            /\ eng'.previous_candidate = eng'.current_key
            /\ eng'.scan_no = eng.scan_no
        BY <1>1, <1>2, <2>5, CselectFacts DEF Keeps
      <3>3. /\ KeptOf(core.kept, eng.scan_no, NextKey)
            /\ mode = REINDEX /\ eng.scan_no < scan_count
        BY <2>5 DEF KeysCounted, Loading
      <3>4. eng'.current_key \in Nat /\ NextKey \in Nat /\ NextKey <= eng'.current_key
        BY <1>2, <3>2, <3>3, SMTT(30) DEF NextKey, Engines
      <3>5. \A k \in core.kept : k \in Nat
        BY <1>1 DEF TypeOK, Cores
      <3>6. KeptOf(core.kept, eng.scan_no, eng.current_key)'
        BY <1>3, <2>5, <3>1, <3>2, <3>3, <3>4, <3>5 DEF KeptOf
      <3> QED
        BY <1>2, <1>3, <1>4, <2>5, <3>2, <3>3, <3>6
        DEF KeysCounted, Scanning, Loading, Keyed
    <2>6. CASE eng.es \in Keyed /\ eng'.es \in Keyed \cup {"S_KEYWAIT"}
      <3>1. Keeps(eng') /\ (eng'.es = "S_KEYWAIT" <=> eng.es = "S_KEYSTART")
        BY <1>1, <1>8, <2>1, <2>6, LoadingFlow DEF Loading, Keyed
      <3>2. /\ eng'.scan_no = eng.scan_no
            /\ eng'.current_key = eng.current_key
            /\ eng'.previous_candidate = eng.previous_candidate
        BY <3>1 DEF Keeps, KeepsScan
      <3>3. /\ KeptOf(core.kept, eng.scan_no, eng.current_key)
            /\ eng.scan_no < scan_count
            /\ eng.current_key = IF mode = REINDEX THEN eng.previous_candidate ELSE eng.scan_no
        BY <2>6 DEF KeysCounted
      <3>4. /\ core'.kept = core.kept
            /\ eng'.es = "S_KEYWAIT" => \/ core'.state = "SCORE" /\ core'.failed
                                       \/ core'.state = "BUSY"
        BY <1>1, <2>1, <2>6, <3>1, CoreFacts DEF Keyed
      <3>5. KeptOf(core.kept, eng.scan_no, eng.current_key)'
        BY <1>3, <2>6, <3>2, <3>3, <3>4 DEF KeptOf, Keyed
      <3>6. topk' = topk /\ mode' = mode /\ scan_count' = scan_count
        BY <1>3, <2>6 DEF Keyed
      <3> QED
        BY <1>2, <1>4, <2>6, <3>2, <3>3, <3>4, <3>5, <3>6
        DEF KeysCounted, Scanning, Loading, Keyed, REINDEX
    <2> QED
      BY <1>1, <1>8, <2>1, <2>2, <2>3, <2>4, <2>5, <2>6, LoadingFlow
  <1>9. CASE eng.es = "S_KEYWAIT"
    <2>1. /\ core.state \in {"BUSY", "SCORE"} /\ core.limit = topk
          /\ core.state = "BUSY" => core.key = eng.current_key
      BY <1>9 DEF CoreInStep, Scanning
    <2>2. /\ eng.scan_no < scan_count
          /\ eng.current_key = IF mode = REINDEX THEN eng.previous_candidate ELSE eng.scan_no
      BY <1>9 DEF KeysCounted
    <2>3. CASE core.state = "BUSY"
      <3>1. Keeps(eng') /\ eng'.es = "S_KEYWAIT"
        BY <1>1, <1>2, <1>9, <2>3, KeywaitFacts
      <3>2. /\ eng'.scan_no = eng.scan_no
            /\ eng'.current_key = eng.current_key
            /\ eng'.previous_candidate = eng.previous_candidate
        BY <3>1 DEF Keeps, KeepsScan
      <3>3. core'.state = "SCORE" /\ (~core'.failed => core'.kept \in CoreKeeps)
        BY <1>1, <1>9, <2>3, CoreFacts
      <3>4. KeptOf(core.kept, eng.scan_no, core.key)
        BY <1>9, <2>1, <2>3 DEF KeysCounted
      <3>5. ~core'.failed => KeptOf(core'.kept, eng.scan_no + 1, core.key + 1)
        BY <1>1, <1>2, <1>4, <1>9, <2>1, <3>3, <3>4, KeepingCounts DEF Scanning
      <3>6. ~core'.failed => KeptOf(core.kept, eng.scan_no + 1, eng.current_key + 1)'
        BY <1>3, <1>9, <2>1, <2>3, <3>2, <3>5 DEF KeptOf
      <3> QED
        BY <1>2, <1>3, <1>4, <1>9, <2>2, <3>1, <3>2, <3>3, <3>6
        DEF KeysCounted, Scanning, Loading, Keyed, REINDEX
    <2>4. CASE core.state = "SCORE" /\ core.failed
      BY <1>1, <1>2, <1>5, <1>9, <2>4, KeywaitFacts DEF Scanning, Loading, Keyed
    <2>5. CASE core.state = "SCORE" /\ ~core.failed
      <3>1. /\ eng'.es = "S_NEXT_KEY"
            /\ eng'.scan_no = eng.scan_no + 1
            /\ eng'.previous_candidate = eng.previous_candidate
        BY <1>1, <1>2, <1>9, <2>5, KeywaitFacts
      <3>2. core'.kept = core.kept
        BY <1>1, <1>9, <2>5, CoreFacts
      <3>3. KeptOf(core.kept, eng.scan_no + 1, eng.current_key + 1)
        BY <1>9, <2>5 DEF KeysCounted
      <3>4. NextKey' = eng.current_key + 1
        BY <1>2, <1>3, <1>9, <2>2, <3>1 DEF NextKey, REINDEX
      <3>5. KeptOf(core.kept, eng.scan_no, NextKey)'
        BY <1>3, <1>9, <3>1, <3>2, <3>3, <3>4 DEF KeptOf
      <3>6. (eng.scan_no <= scan_count)'
        BY <1>2, <1>3, <1>4, <1>9, <2>2, <3>1 DEF Scanning
      <3> QED
        BY <3>1, <3>5, <3>6 DEF KeysCounted, Scanning, Loading, Keyed
    <2> QED
      BY <2>1, <2>3, <2>4, <2>5
  <1>10. CASE eng.es = "S_END"
    BY <1>1, <1>2, <1>5, <1>10, EndFacts DEF CoreInStep, Scanning, Loading, Keyed
  <1>11. CASE eng.es \in {"S_RESULTS"} \cup Sorts
    <2>1. CASE eng.es = "S_RESULTS"
      BY <1>1, <1>2, <1>5, <2>1, ResultsFacts DEF Scanning, Loading, Keyed
    <2>2. CASE eng.es \in Sorts
      <3>1. PICK step : Sorting(step) /\ step.sort \in Sorters
        BY <1>1, <2>2, SortTypes DEF Sorts, EngineStep, S_SORT_SIFT, S_SORT_TAKE, TypeOK
      <3>2. eng'.es \in Sorts \cup {"S_OUTREQ"}
        BY <1>2, <3>1, SortingFacts DEF Sorters, Sorts
      <3> QED
        BY <1>5, <3>2 DEF Sorts, Scanning, Loading, Keyed
    <2> QED
      BY <1>11, <2>1, <2>2
  <1>12. CASE eng.es \in Delivering \cup {"S_ERROR"}
    <2>1. eng'.es \in Delivering \cup {"S_ERROR", "S_IDLE"}
      BY <1>1, <1>2, <1>12, DeliveringFlow, FinishFacts, ErrorFacts
    <2> QED
      BY <1>5, <2>1 DEF Delivering, Gathering, Scanning, Loading, Keyed
  <1> QED
    BY <1>2, <1>6, <1>7, <1>8, <1>9, <1>10, <1>11, <1>12
    DEF EngineStates, Loading, Keyed, Sorts, Delivering, Gathering

-----------------------------------------------------------------------------
(* The selection                                                             *)

\* A result that is stored joins the entries before it.
LEMMA StoringEntry ==
    ASSUME selection \in [0 .. MaxK - 1 -> Nat], NEW n \in Nat, n < MaxK, NEW key \in Nat,
           Distinct(selection, n), key \notin Entries(selection, n)
    PROVE  LET new == [selection EXCEPT ![n] = key]
           IN  /\ new \in [0 .. MaxK - 1 -> Nat]
               /\ Entries(new, n + 1) = Entries(selection, n) \cup {key}
               /\ Distinct(new, n + 1)
  <1> DEFINE new == [selection EXCEPT ![n] = key]
  <1>1. MaxK \in Nat /\ n \in 0 .. MaxK - 1
    BY EngineAssumption
  <1>2. new \in [0 .. MaxK - 1 -> Nat] /\ new[n] = key
    BY <1>1
  <1>3. \A i \in 0 .. n - 1 : new[i] = selection[i]
    BY <1>1
  <1> HIDE DEF new
  <1>4. 0 .. (n + 1) - 1 = (0 .. n - 1) \cup {n}
    OBVIOUS
  <1>5. Entries(new, n + 1) = Entries(selection, n) \cup {key}
    BY <1>2, <1>3, <1>4 DEF Entries
  <1>6. Distinct(new, n + 1)
    BY <1>2, <1>3, <1>4 DEF Entries, Distinct
  <1> QED
    BY <1>2, <1>5, <1>6 DEF new

\* The selection is built, sorted and kept: S_RESULTS, the sorter, S_FINISH, S_ERROR.
LEMMA SelectionGoodStep ==
    ASSUME JobInv, Tick
    PROVE  SelectionGood'
  <1> USE DEF JobInv
  <1>1. EngineStep /\ CoreStep(CorePorts) /\ GhostStep /\ TypeOK /\ ControlInv
    BY DEF Tick, ControlInv
  <1>2. /\ slave \in Slaves /\ cfg \in Configs /\ eng \in Engines /\ dma \in Dmas({dma.data})
        /\ eng.es \in EngineStates /\ eng.result_count \in Nat /\ eng.output_no \in Nat
        /\ eng.gather_offset \in Nat /\ kv \in Nat
        /\ core \in Cores
    BY <1>1 DEF TypeOK, Engines, Configs, kv
  <1>3. eng.es # "S_IDLE" => cfg' = cfg /\ kv' = kv /\ mode' = mode
    BY ConfigStays DEF kv, mode
  <1>4. selection \in [0 .. MaxK - 1 -> Nat]
    BY DEF SelectionGood
  <1> DEFINE Bare == {"S_IDLE", "S_START", "S_ERROR"}
  <1>5. ASSUME selection' = selection, eng'.result_count = eng.result_count,
               scanned'.kept = scanned.kept
        PROVE  Selected' <=> Selected
    BY <1>5 DEF Selected, Ascending
  <1>6. CASE eng.es = "S_IDLE" \/ (eng.es = "S_START" /\ eng'.es = "S_ERROR")
    <2>1. /\ eng'.es \in Bare
          /\ eng'.saved = eng.saved
          /\ eng'.cache_valid => eng.cache_valid
          /\ eng'.result_count = eng.result_count
          /\ selection' = selection
      BY <1>1, <1>2, <1>6, IdleFacts, StartFacts DEF Keeps, KeepsFlags, SelectionAlone
    <2>2. scanned' = scanned
      BY <1>1, <1>6 DEF GhostStep
    <2>3. eng'.cache_valid => (eng.saved = scanned.key)' /\ Selected'
      BY <1>5, <2>1, <2>2 DEF SelectionGood
    <2> QED
      BY <1>4, <2>1, <2>3
      DEF SelectionGood, Loading, Keyed, Scanning, Sorts, Delivering, Gathering
  <1>7. CASE eng.es = "S_START" /\ eng'.es # "S_ERROR"
    <2>1. CASE eng'.es = "S_OUTREQ"
      <3>1. /\ mode = REUSE /\ ReuseOk /\ ConfigOk
            /\ eng'.output_no = 0
            /\ eng'.result_count = eng.result_count
            /\ eng'.saved = eng.saved
            /\ selection' = selection
        BY <1>1, <1>2, <1>7, <2>1, StartFacts DEF KeepsFlags, SelectionAlone
      <3>2. scanned' = scanned
        BY <1>1, <1>7, <2>1 DEF GhostStep
      <3>3. eng.saved = scanned.key /\ Selected
        BY <3>1 DEF ReuseOk, SelectionGood
      <3>4. (eng.saved = scanned.key)' /\ Selected'
        BY <1>5, <3>1, <3>2, <3>3
      <3>5. out_count = eng.result_count /\ out_count' = out_count
        BY <1>3, <1>7, <3>1, ScopeStays DEF out_count
      <3>6. eng.result_count # 0
        BY <3>1, <3>5 DEF ConfigOk, RangesOk, RegionOk
      <3> QED
        BY <1>2, <1>4, <2>1, <3>1, <3>4, <3>5, <3>6
        DEF SelectionGood, Loading, Keyed, Scanning, Sorts, Delivering, Gathering
    <2>2. CASE eng'.es = "S_JOB"
      <3>1. /\ ~eng'.cache_valid
            /\ eng'.result_count = 0
            /\ selection' = selection
        BY <1>1, <1>2, <1>7, <2>2, StartFacts DEF SelectionAlone
      <3> QED
        BY <1>4, <2>2, <3>1
        DEF SelectionGood, Loading, Keyed, Scanning, Sorts, Delivering, Gathering
    <2> QED
      BY <1>1, <1>2, <1>7, <2>1, <2>2, StartFacts
  <1>8. CASE eng.es \in {"S_JOB"} \cup Loading \cup Keyed \cup {"S_KEYWAIT"}
    <2>1. /\ eng'.es \in {"S_JOB", "S_ERROR"} \cup Scanning
          /\ eng'.result_count = eng.result_count
          /\ selection' = selection
      <3> USE DEF Keeps, SelectionAlone, Scanning, Loading, Keyed
      <3>1. CASE eng.es = "S_JOB"
        BY <1>1, <1>2, <3>1, JobFacts
      <3>2. CASE eng.es = "S_KEYWAIT"
        BY <1>1, <1>2, <3>2, KeywaitFacts
      <3>3. CASE eng.es \in Loading \cup Keyed
        <4>1. eng'.es \in {"S_ERROR", "S_KEYWAIT", "S_END"} \cup Loading \cup Keyed
          BY <1>1, <3>3, LoadingFlow DEF CoreInStep
        <4>2. CASE eng.es \in {"S_QREQ", "S_CREQ", "S_KREQ"}
          BY <1>1, <1>2, <4>1, <4>2, AskingFacts DEF Asking
        <4>3. CASE eng.es \in {"S_QWAIT", "S_CWAIT", "S_KWAIT"}
          BY <1>1, <1>2, <4>1, <4>3, QwaitFacts, CwaitFacts, KwaitFacts
        <4>4. CASE eng.es \in {"S_QLOAD", "S_KLOAD", "S_KEYSTART"}
          BY <1>1, <1>2, <4>1, <4>4, QloadFacts, KloadFacts, KeystartFacts
        <4>5. CASE eng.es = "S_NEXT_KEY"
          BY <1>1, <1>2, <4>1, <4>5, NextKeyFacts
        <4>6. CASE eng.es = "S_CSELECT"
          BY <1>1, <1>2, <4>1, <4>6, CselectFacts
        <4> QED
          BY <3>3, <4>2, <4>3, <4>4, <4>5, <4>6
      <3> QED
        BY <1>8, <3>1, <3>2, <3>3
    <2>2. eng.result_count = 0 /\ ~eng.cache_valid
      BY <1>8 DEF SelectionGood, JobStands, Scanning, Selecting
    <2>3. ~eng'.cache_valid
      BY <1>1, <1>8, <2>2, SelectingFlow DEF Scanning, Selecting
    <2> QED
      BY <1>4, <2>1, <2>2, <2>3
      DEF SelectionGood, Loading, Keyed, Scanning, Sorts, Delivering, Gathering
  <1>9. CASE eng.es = "S_END"
    <2>1. /\ Keeps(eng') /\ eng'.es = "S_RESULTS" /\ selection' = selection
      BY <1>1, <1>2, <1>9, EndFacts DEF CoreInStep, SelectionAlone
    <2>2. /\ eng.result_count = 0 /\ eng'.result_count = 0 /\ ~eng'.cache_valid
      BY <1>9, <2>1 DEF Keeps, KeepsFlags, SelectionGood, JobStands, Scanning, Selecting
    <2>3. /\ IsFiniteSet(core.kept)
          /\ Cardinality(core.kept) = out_count
          /\ out_count \in Nat \ {0}
      BY <1>2, <1>9, CountsPositive DEF KeysCounted, KeptOf, JobStands, Scanning, Selecting
    <2>4. core.kept # {} /\ core'.kept = core.kept
      BY <1>1, <1>9, <2>3, FS_EmptySet, CoreFacts DEF CoreInStep
    <2>5. scanned'.kept = core.kept
      BY <1>1, <1>9, <2>1 DEF GhostStep, TypeOK, Scans
    <2>6. out_count' = out_count
      BY <1>3, <1>9, <2>2, ScopeStays
    <2>7. Collecting'
      <3>1. Entries(selection, 0) = {} /\ Distinct(selection, 0)
        BY DEF Entries, Distinct
      <3> QED
        BY <2>1, <2>2, <2>3, <2>4, <2>5, <2>6, <3>1 DEF Collecting
    <2> QED
      BY <1>4, <2>1, <2>2, <2>3, <2>5, <2>6, <2>7
      DEF SelectionGood, Loading, Keyed, Scanning, Sorts, Delivering, Gathering
  <1>10. CASE eng.es = "S_RESULTS"
    <2> DEFINE n == eng.result_count
    <2>1. /\ core.state = "OUTPUTS" /\ core.head \in core.kept /\ core.head \in Nat
          /\ mode # REUSE /\ ~eng.cache_valid /\ ConfigOk
      BY <1>2, <1>10 DEF CoreInStep, JobStands, Selecting, Cores
    <2>2. /\ eng'.result_count = n + 1
          /\ eng'.cache_valid => eng.cache_valid
          /\ eng'.es = IF core.kept # {core.head} THEN "S_RESULTS"
                       ELSE IF n = 0 THEN "S_OUTREQ" ELSE "S_SORT_SIFT"
          /\ eng'.es = "S_OUTREQ" => eng'.output_no = 0
          /\ selection' = [selection EXCEPT ![n] = core.head]
          /\ sort' = IF core.kept = {core.head} /\ n # 0 THEN SortStart(n) ELSE sort
      BY <1>1, <1>2, <1>10, <2>1, ResultsFacts DEF KeepsFlags
    <2>3. scanned' = scanned /\ Cardinality(scanned.kept) = out_count
      BY <1>1, <1>10 DEF GhostStep, SelectionGood
    <2>4. /\ n + Cardinality(core.kept) = out_count
          /\ IsFiniteSet(core.kept)
          /\ Distinct(selection, n)
          /\ Entries(selection, n) \cup core.kept = scanned.kept
          /\ Entries(selection, n) \cap core.kept = {}
      BY <1>10 DEF SelectionGood, Collecting
    <2>5. out_count' = out_count /\ out_count \in Nat /\ out_count <= MaxK
      BY <1>2, <1>3, <1>10, <2>1, CountsPositive, ScopeStays
    <2>6. /\ IsFiniteSet(core.kept \ {core.head})
          /\ Cardinality(core.kept \ {core.head}) = Cardinality(core.kept) - 1
          /\ Cardinality(core.kept) \in Nat
      BY <2>1, <2>4, FS_RemoveElement, FS_CardinalityType
    <2>7. n < MaxK
      <3>1. Cardinality(core.kept) # 0
        BY <2>1, <2>4, FS_EmptySet
      <3> QED
        BY <1>2, <2>4, <2>5, <2>6, <3>1, EngineAssumption
    <2>8. /\ selection' \in [0 .. MaxK - 1 -> Nat]
          /\ Entries(selection', n + 1) = Entries(selection, n) \cup {core.head}
          /\ Distinct(selection', n + 1)
      BY <1>2, <1>4, <2>1, <2>2, <2>4, <2>7, StoringEntry
    <2>9. CASE core.kept # {core.head}
      <3>1. core'.kept = core.kept \ {core.head}
        BY <1>1, <1>10, <2>1, <2>9, CoreFacts
      <3>2. Entries(selection', n + 1) \cup core'.kept = scanned.kept
        BY <2>1, <2>4, <2>8, <3>1
      <3>3. Entries(selection', n + 1) \cap core'.kept = {}
        BY <2>4, <2>8, <3>1
      <3>4. (n + 1) + Cardinality(core'.kept) = out_count
        BY <1>2, <2>4, <2>5, <2>6, <3>1
      <3>5. Collecting'
        BY <2>2, <2>3, <2>5, <2>6, <2>8, <3>1, <3>2, <3>3, <3>4 DEF Collecting
      <3> QED
        BY <2>1, <2>2, <2>3, <2>5, <2>8, <2>9, <3>5
        DEF SelectionGood, Loading, Keyed, Scanning, Sorts, Delivering, Gathering
    <2>10. CASE core.kept = {core.head}
      <3>1. n + 1 = out_count
        <4>1. Cardinality(core.kept) = 1
          BY <2>10, FS_Singleton
        <4> QED
          BY <2>4, <4>1
      <3>2. Entries(selection', n + 1) = scanned.kept
        BY <2>4, <2>8, <2>10
      <3>3. CASE n = 0
        <4>1. Selected'
          BY <2>2, <2>3, <2>5, <3>1, <3>2, <3>3 DEF Selected, Ascending
        <4> QED
          BY <2>1, <2>2, <2>5, <2>8, <2>10, <3>1, <3>3, <4>1
          DEF SelectionGood, Loading, Keyed, Scanning, Sorts, Delivering, Gathering
      <3>4. CASE n # 0
        <4>1. SortInv(selection', SortStart(n), n + 1)
          BY <1>2, <2>7, <2>8, SortBegins, EngineAssumption
        <4>2. SortStart(n).at = "SIFT"
          BY DEF SortStart
        <4> QED
          BY <2>1, <2>2, <2>3, <2>5, <2>8, <2>10, <3>1, <3>2, <3>4, <4>1, <4>2
          DEF SelectionGood, Loading, Keyed, Scanning, Sorts, Delivering, Gathering
      <3> QED
        BY <3>3, <3>4
    <2> QED
      BY <2>9, <2>10
  <1>11. CASE eng.es \in Sorts
    <2> DEFINE n == eng.result_count
    <2>1. /\ n = out_count /\ Cardinality(scanned.kept) = out_count
          /\ Entries(selection, n) = scanned.kept
          /\ SortInv(selection, sort, n)
          /\ sort.at = IF eng.es = "S_SORT_SIFT" THEN "SIFT" ELSE "TAKE"
      BY <1>11 DEF SelectionGood
    <2>2. mode # REUSE /\ ~eng.cache_valid /\ ConfigOk
      BY <1>11 DEF JobStands, Selecting
    <2>3. n \in 0 .. MaxK /\ MaxK \in Nat /\ n \in Nat \ {0}
      BY <1>2, <2>1, <2>2, CountsPositive, EngineAssumption
    <2>4. PICK step :
              /\ Sorting(step)
              /\ step.idx \in [0 .. MaxK - 1 -> Nat]
              /\ Entries(step.idx, n) = Entries(selection, n)
              /\ SortInv(step.idx, step.sort, n)
      <3>1. CASE eng.es = "S_SORT_SIFT"
        <4>1. Sorting(SortSift(selection, sort))
          BY <1>1, <3>1 DEF EngineStep, S_SORT_SIFT
        <4> QED
          BY <1>4, <2>1, <2>3, <3>1, <4>1, SiftKeeps
      <3>2. CASE eng.es = "S_SORT_TAKE"
        <4>1. Sorting(SortTake(selection, sort))
          BY <1>1, <3>2 DEF EngineStep, S_SORT_TAKE
        <4> QED
          BY <1>4, <2>1, <2>3, <3>2, <4>1, TakeKeeps
      <3> QED
        BY <1>11, <3>1, <3>2 DEF Sorts
    <2>5. step.sort.at \in {"SIFT", "TAKE", "DONE"}
      BY <2>4 DEF SortInv, Sorters
    <2>6. /\ eng'.es = CASE step.sort.at = "SIFT" -> "S_SORT_SIFT"
                          [] step.sort.at = "TAKE" -> "S_SORT_TAKE"
                          [] step.sort.at = "DONE" -> "S_OUTREQ"
          /\ eng'.es = "S_OUTREQ" => eng'.output_no = 0
          /\ eng'.result_count = n
          /\ eng'.cache_valid => eng.cache_valid
          /\ selection' = step.idx
          /\ sort' = step.sort
      BY <1>2, <2>4, <2>5, SortingFacts DEF KeepsFlags
    <2>7. scanned' = scanned
      BY <1>1, <1>11 DEF GhostStep, Sorts
    <2>8. out_count' = out_count
      BY <1>3, <1>11, <2>6, ScopeStays DEF Sorts
    <2>9. CASE step.sort.at = "DONE"
      <3>1. Selected'
        BY <2>1, <2>3, <2>4, <2>6, <2>7, <2>9, SortEnds DEF Selected, Ascending
      <3> QED
        BY <2>1, <2>2, <2>3, <2>4, <2>6, <2>8, <2>9, <3>1
        DEF SelectionGood, Loading, Keyed, Scanning, Sorts, Delivering, Gathering
    <2>10. CASE step.sort.at # "DONE"
      BY <2>1, <2>2, <2>4, <2>5, <2>6, <2>7, <2>8, <2>10
      DEF SelectionGood, Loading, Keyed, Scanning, Sorts, Delivering, Gathering
    <2> QED
      BY <2>9, <2>10
  <1>12. CASE eng.es \in Delivering /\ eng.es # "S_FINISH"
    <2>1. /\ eng'.es \in Delivering \cup {"S_ERROR"}
          /\ eng'.result_count = eng.result_count
          /\ eng'.saved = eng.saved
          /\ eng'.cache_valid => eng.cache_valid
          /\ selection' = selection
      BY <1>1, <1>12, DeliveringFlow DEF KeepsFlags, SelectionAlone
    <2>2. scanned' = scanned
      BY <1>1, <1>12 DEF GhostStep, Delivering, Gathering
    <2>3. out_count' = out_count
      BY <1>3, <1>12, <2>1, ScopeStays DEF Delivering, Gathering
    <2>4. /\ eng.result_count = out_count
          /\ eng.output_no < eng.result_count
          /\ Selected
      BY <1>12 DEF SelectionGood
    <2>5. /\ eng'.es # "S_ERROR" => eng'.output_no < eng.result_count
          /\ eng'.es = "S_FINISH" => eng'.output_no + 1 = eng.result_count
          /\ eng'.es \in Gathering => eng'.gather_offset < kv
      <3> USE DEF Keeps, KeepsOutput, Gathering, Delivering
      <3>1. CASE eng.es \in {"S_OUTREQ", "S_GREAD", "S_GWRITE"}
        BY <1>1, <1>2, <2>4, <3>1, AskingFacts DEF Asking, WaitFor, SelectionGood
      <3>2. CASE eng.es = "S_OUTWAIT"
        BY <1>1, <1>2, <2>4, <3>2, OutwaitFacts DEF SelectionGood
      <3>3. CASE eng.es = "S_GWAIT"
        BY <1>1, <1>2, <2>4, <3>3, GwaitFacts DEF SelectionGood
      <3>4. CASE eng.es = "S_GWRITEWAIT"
        BY <1>1, <1>2, <2>4, <3>4, GwritewaitFacts DEF SelectionGood
      <3>5. CASE eng.es = "S_ADVANCE"
        BY <1>1, <1>2, <2>4, <3>5, AdvanceFacts DEF SelectionGood
      <3> QED
        BY <1>12, <3>1, <3>2, <3>3, <3>4, <3>5
    <2>6. Selected' /\ (eng'.cache_valid => (eng.saved = scanned.key)')
      BY <1>5, <2>1, <2>2, <2>4 DEF SelectionGood
    <2>7. kv' = kv
      BY <1>3, <1>12 DEF Delivering, Gathering
    <2> QED
      BY <1>4, <2>1, <2>3, <2>4, <2>5, <2>6, <2>7
      DEF SelectionGood, Loading, Keyed, Scanning, Sorts, Delivering, Gathering
  <1>13. CASE eng.es = "S_FINISH"
    <2>1. /\ eng'.es = "S_IDLE"
          /\ eng'.saved = CacheKey
          /\ eng'.result_count = eng.result_count
          /\ selection' = selection
      BY <1>1, <1>2, <1>13, FinishFacts DEF SelectionAlone
    <2>2. scanned' = scanned
      BY <1>1, <1>13 DEF GhostStep
    <2>3. scanned.key = CacheKey /\ Selected
      BY <1>13 DEF JobStands, SelectionGood, Delivering
    <2>4. Selected' /\ (eng.saved = scanned.key)'
      BY <1>5, <2>1, <2>2, <2>3
    <2> QED
      BY <1>4, <2>1, <2>4
      DEF SelectionGood, Loading, Keyed, Scanning, Sorts, Delivering, Gathering
  <1>14. CASE eng.es = "S_ERROR"
    <2>1. eng'.es = "S_IDLE" /\ ~eng'.cache_valid /\ selection' = selection
      BY <1>1, <1>2, <1>14, ErrorFacts DEF SelectionAlone
    <2> QED
      BY <1>4, <2>1
      DEF SelectionGood, Loading, Keyed, Scanning, Sorts, Delivering, Gathering
  <1> QED
    BY <1>2, <1>6, <1>7, <1>8, <1>9, <1>10, <1>11, <1>12, <1>13, <1>14
    DEF EngineStates, Loading, Keyed, Sorts, Delivering, Gathering

-----------------------------------------------------------------------------
(* The requests of a job and what they write                                 *)

\* While an answer is awaited nothing of the job moves.
LEMMA WaitingStays ==
    ASSUME ControlInv, EngineStep, eng.es \in Waiting, ~dma.done
    PROVE  Keeps(eng') /\ eng'.es = eng.es /\ SelectionAlone
  <1> USE DEF ControlInv, TypeOK
  <1>1. CASE eng.es = "S_QWAIT"
    BY <1>1, QwaitFacts
  <1>2. CASE eng.es = "S_CWAIT"
    BY <1>2, CwaitFacts
  <1>3. CASE eng.es = "S_KWAIT"
    BY <1>3, KwaitFacts
  <1>4. CASE eng.es = "S_OUTWAIT"
    BY <1>4, OutwaitFacts
  <1>5. CASE eng.es = "S_GWAIT"
    BY <1>5, GwaitFacts
  <1>6. CASE eng.es = "S_GWRITEWAIT"
    BY <1>6, GwritewaitFacts
  <1> QED
    BY <1>1, <1>2, <1>3, <1>4, <1>5, <1>6 DEF Waiting

\* What was read is written next, and only then.
LEMMA OnlyReadIsGathered ==
    ASSUME ControlInv, EngineStep, eng'.es = "S_GWRITE"
    PROVE  eng.es = "S_GWAIT" /\ dma.done /\ ~dma.error
  <1> USE DEF ControlInv, TypeOK
  <1>1. eng.es \notin Selecting
    BY SelectingFlow DEF Selecting, Scanning, Loading, Keyed, Sorts
  <1>2. eng.es \notin {"S_IDLE", "S_START", "S_FINISH", "S_ERROR"}
    BY IdleFacts, StartFacts, FinishFacts, ErrorFacts
  <1>3. eng.es \notin {"S_OUTREQ", "S_GREAD", "S_GWRITE"}
    BY AskingFacts DEF Asking, WaitFor, DmaInStep, Waiting
  <1>4. eng.es \notin {"S_OUTWAIT", "S_GWRITEWAIT", "S_ADVANCE"}
    BY OutwaitFacts, GwritewaitFacts, AdvanceFacts
  <1>5. eng.es = "S_GWAIT"
    BY <1>1, <1>2, <1>3, <1>4
    DEF Engines, EngineStates, Selecting, Scanning, Loading, Keyed, Sorts
  <1> QED
    BY <1>5, GwaitFacts

\* A write under way goes to the place the counters of its state say (S_OUTREQ,
\* S_GREAD, S_GWRITE).
LEMMA WritesFollowStep ==
    ASSUME JobInv, Tick
    PROVE  WritesFollow'
  <1> USE DEF JobInv
  <1>1. /\ EngineStep /\ TypeOK /\ ControlInv /\ DmaInStep
        /\ DmaStep(Request, eng.es = "S_START")
    BY DEF Tick, ControlInv
  <1>2. /\ slave \in Slaves /\ eng \in Engines /\ dma \in Dmas({dma.data})
        /\ dma.state \in {"IDLE", "READ", "RRESP", "WRITE", "BRESP"}
        /\ dma'.state \in {"IDLE", "READ", "RRESP", "WRITE", "BRESP"}
    BY <1>1, DmaStepFacts DEF TypeOK, Dmas
  <1>3. eng.es # "S_IDLE" => cfg' = cfg
    BY ConfigStays
  <1> DEFINE KvLine == kvbase + selection[eng.output_no] * kv + eng.gather_offset
  <1>4. ASSUME Keeps(eng'), SelectionAlone, eng.es # "S_IDLE"
        PROVE  /\ ResultLine(eng.output_no)' = ResultLine(eng.output_no)
               /\ GatherLine(eng.output_no, eng.gather_offset)'
                    = GatherLine(eng.output_no, eng.gather_offset)
               /\ KvLine' = KvLine
               /\ eng'.gather_line = eng.gather_line
    BY <1>3, <1>4 DEF Keeps, KeepsOutput, SelectionAlone, ResultLine, GatherLine,
                      obase, gbase, kvbase, kv
  <1>5. CASE eng.es \in {"S_OUTREQ", "S_GREAD", "S_GWRITE"}
    <2>1. /\ dma.state = "IDLE" /\ Request.valid
          /\ Request.write <=> eng.es # "S_GREAD"
      BY <1>1, <1>5, RequestFacts DEF DmaInStep, Waiting, Asking
    <2>2. /\ dma'.state = "IDLE" => dma'.error
          /\ dma'.state # "IDLE" =>
                 /\ LineOk(Request.addr)
                 /\ dma'.addr = Request.addr
                 /\ Request.write => dma'.data = Request.data
                 /\ dma'.state \in {"READ", "WRITE"}
                 /\ dma'.state = "WRITE" <=> Request.write
      BY <1>1, <1>2, <2>1, DmaStepFacts
    <2>3. Keeps(eng') /\ eng'.es = WaitFor[eng.es] /\ SelectionAlone
      BY <1>1, <1>2, <1>5, <2>1, AskingFacts DEF Asking
    <2>4. CASE eng.es = "S_OUTREQ"
      <3>1. eng'.es = "S_OUTWAIT" /\ <<Request.addr, Request.data>> = ResultLine(eng.output_no)
        BY <2>3, <2>4, RequestFacts DEF WaitFor, ResultLine, ResultData
      <3> QED
        BY <1>4, <2>1, <2>2, <2>3, <2>4, <3>1 DEF WritesFollow
    <2>5. CASE eng.es = "S_GREAD"
      <3>1. eng'.es = "S_GWAIT" /\ Request.addr = KvLine
        BY <2>3, <2>5, RequestFacts DEF WaitFor
      <3> QED
        BY <1>4, <2>1, <2>2, <2>3, <2>5, <3>1 DEF WritesFollow
    <2>6. CASE eng.es = "S_GWRITE"
      <3>1. eng.gather_line = <<"kv", KvLine>>
        BY <2>6 DEF WritesFollow
      <3>2. /\ eng'.es = "S_GWRITEWAIT"
            /\ <<Request.addr, Request.data>> = GatherLine(eng.output_no, eng.gather_offset)
        BY <2>3, <2>6, <3>1, RequestFacts DEF WaitFor, GatherLine
      <3> QED
        BY <1>4, <2>1, <2>2, <2>3, <2>6, <3>1, <3>2 DEF WritesFollow
    <2> QED
      BY <1>5, <2>4, <2>5, <2>6
  <1>6. CASE eng.es \in {"S_OUTWAIT", "S_GWAIT", "S_GWRITEWAIT"} /\ ~dma.done
    <2>1. dma.state # "IDLE"
      BY <1>1, <1>2, <1>6 DEF DmaInStep, Waiting, Dmas
    <2>2. Keeps(eng') /\ eng'.es = eng.es /\ SelectionAlone
      BY <1>1, <1>6, WaitingStays DEF Waiting
    <2>3. /\ dma'.addr = dma.addr /\ dma'.data = dma.data
          /\ dma.state \in {"READ", "RRESP"} => dma'.state \in {"READ", "RRESP", "IDLE"}
          /\ dma.state \in {"WRITE", "BRESP"} => dma'.state \in {"WRITE", "BRESP", "IDLE"}
      BY <1>1, <1>2, <2>1, DmaStepFacts
    <2>4. CASE eng.es = "S_GWAIT"
      BY <1>2, <1>4, <2>1, <2>2, <2>3, <2>4 DEF WritesFollow
    <2>5. CASE eng.es \in {"S_OUTWAIT", "S_GWRITEWAIT"}
      BY <1>2, <1>4, <2>1, <2>2, <2>3, <2>5 DEF WritesFollow
    <2> QED
      BY <1>6, <2>4, <2>5
  <1>7. CASE eng.es = "S_GWAIT" /\ dma.done /\ ~dma.error
    <2>1. dma.state = "IDLE" /\ ~Request.valid
      BY <1>1, <1>7, RequestFacts DEF DmaInStep, Waiting, Asking
    <2>2. dma'.state = "IDLE"
      BY <1>1, <1>2, <2>1, DmaStepFacts
    <2>3. /\ eng'.es = "S_GWRITE"
          /\ eng'.gather_line = <<"kv", dma.addr>>
          /\ eng'.gather_offset = eng.gather_offset
          /\ eng'.output_no = eng.output_no
          /\ SelectionAlone
      BY <1>1, <1>2, <1>7, GwaitFacts
    <2>4. dma.addr = KvLine
      BY <1>7 DEF WritesFollow
    <2>5. KvLine' = KvLine
      BY <1>3, <1>7, <2>3 DEF SelectionAlone, kvbase, kv
    <2> QED
      BY <2>2, <2>3, <2>4, <2>5 DEF WritesFollow
  <1>8. CASE /\ eng.es \notin {"S_OUTREQ", "S_GREAD", "S_GWRITE"}
             /\ ~(eng.es \in {"S_OUTWAIT", "S_GWAIT", "S_GWRITEWAIT"} /\ ~dma.done)
             /\ ~(eng.es = "S_GWAIT" /\ dma.done /\ ~dma.error)
    <2>1. dma'.state \notin {"WRITE", "BRESP"}
      <3>1. ~Request.write
        BY <1>8, RequestFacts
      <3>2. dma.state \notin {"WRITE", "BRESP"}
        BY <1>1, <1>2, <1>8 DEF WritesFollow, DmaInStep, Waiting
      <3>3. /\ dma.state \in {"READ", "RRESP"} => dma'.state \in {"READ", "RRESP", "IDLE"}
            /\ dma.state = "IDLE" /\ dma'.state # "IDLE" =>
                   /\ dma'.state \in {"READ", "WRITE"}
                   /\ dma'.state = "WRITE" <=> Request.write
        BY <1>1, <1>2, DmaStepFacts
      <3> QED
        BY <1>2, <3>1, <3>2, <3>3
    <2>2. eng'.es \notin {"S_OUTWAIT", "S_GWAIT", "S_GWRITEWAIT"}
      <3>1. CASE eng.es \in {"S_QREQ", "S_CREQ", "S_KREQ"}
        BY <1>1, <3>1, EngineFlow DEF DmaInStep, Waiting, Asking, WaitFor
      <3>2. CASE eng.es \in Waiting /\ dma.done
        BY <1>1, <3>2, EngineFlow DEF Waiting
      <3>3. CASE eng.es \in Waiting /\ ~dma.done
        BY <1>1, <1>8, <3>3, EngineFlow DEF Waiting
      <3>4. CASE eng.es \notin Asking \cup Waiting
        BY <1>1, <3>4, EngineFlow DEF Waiting
      <3> QED
        BY <1>8, <3>1, <3>2, <3>3, <3>4 DEF Asking
    <2>3. eng'.es # "S_GWRITE"
      BY <1>1, <1>8, OnlyReadIsGathered
    <2> QED
      BY <2>1, <2>2, <2>3 DEF WritesFollow
  <1> QED
    BY <1>5, <1>6, <1>7, <1>8

\* A line of a record lies before the end of the records.
LEMMA LineBefore ==
    ASSUME NEW i \in Nat, NEW j \in Nat, NEW n \in Nat, NEW k \in Nat, i < n, j < k
    PROVE  /\ i * k \in Nat /\ n * k \in Nat
           /\ i * k + j < n * k
  <1>1. PICK d \in Nat : n = i + 1 + d
    <2>1. n - i - 1 \in Nat /\ n = i + 1 + (n - i - 1)
      OBVIOUS
    <2> QED
      BY <2>1
  <1>2. n * k = i * k + k + d * k
    BY <1>1
  <1>3. i * k \in Nat /\ d * k \in Nat
    OBVIOUS
  <1> QED
    BY <1>2, <1>3

\* What one more answer adds, and that it was not there before: results and
\* gathered records have regions of their own.
LEMMA OneMoreResult ==
    ASSUME cfg \in Configs, ConfigOk, NEW n \in Nat, n < out_count, out_count \in Nat
    PROVE  /\ Results(n + 1) = Results(n) \cup {ResultLine(n)}
           /\ ResultLine(n) \notin Results(n) \cup Gathered(n, 0)
  <1>1. /\ obase \in Nat /\ gbase \in Nat /\ kv \in Nat
        /\ glines = out_count * kv
        /\ kv # 0 => Separate(obase, out_count, gbase, glines)
    BY DEF obase, gbase, kv, Configs, glines, ConfigOk, RangesOk
  <1>2. 0 .. (n + 1) - 1 = (0 .. n - 1) \cup {n}
    OBVIOUS
  <1>3. Results(n + 1) = Results(n) \cup {ResultLine(n)}
    BY <1>2 DEF Results
  <1>4. ResultLine(n) \notin Results(n)
    <2>1. \A i \in 0 .. n - 1 : obase + i # obase + n
      BY <1>1
    <2> QED
      BY <2>1 DEF Results, ResultLine
  <1>5. ResultLine(n) \notin Gathered(n, 0)
    <2> SUFFICES ASSUME NEW i \in 0 .. n - 1, NEW j \in 0 .. kv - 1,
                        ResultLine(n) = GatherLine(i, j)
                 PROVE  FALSE
      BY DEF Gathered
    <2>1. obase + n = gbase + i * kv + j
      BY DEF ResultLine, GatherLine
    <2>2. i * kv \in Nat /\ i * kv + j < out_count * kv
      BY <1>1, LineBefore
    <2>3. kv # 0 /\ out_count * kv \in Nat
      BY <1>1
    <2>4. \/ obase + out_count <= gbase
          \/ gbase + glines <= obase
      BY <1>1, <2>3 DEF Separate
    <2> DEFINE s == i * kv
               t == out_count * kv
    <2>5. s \in Nat /\ t \in Nat /\ s + j < t /\ obase + n = gbase + s + j /\ glines = t
      BY <1>1, <2>1, <2>2, <2>3
    <2> HIDE DEF s, t
    <2> QED
      BY <1>1, <2>4, <2>5
  <1> QED
    BY <1>3, <1>4, <1>5

\* The next line of a row joins those already gathered, and is none of them.
LEMMA OneMoreGathered ==
    ASSUME cfg \in Configs, ConfigOk, NEW n \in Nat, n < out_count, out_count \in Nat,
           NEW g \in Nat, g < kv
    PROVE  /\ Gathered(n, g + 1) = Gathered(n, g) \cup {GatherLine(n, g)}
           /\ GatherLine(n, g) \notin Results(n + 1) \cup Gathered(n, g)
           /\ gbase + n * kv + g \in gbase .. gbase + glines - 1
  <1>1. /\ obase \in Nat /\ gbase \in Nat /\ kv \in Nat /\ kv # 0
        /\ glines = out_count * kv
        /\ Separate(obase, out_count, gbase, glines)
    BY DEF obase, gbase, kv, Configs, glines, ConfigOk, RangesOk
  <1>2. 0 .. (g + 1) - 1 = (0 .. g - 1) \cup {g}
    OBVIOUS
  <1>3. Gathered(n, g + 1) = Gathered(n, g) \cup {GatherLine(n, g)}
    BY <1>2 DEF Gathered
  <1> DEFINE s == n * kv
             t == out_count * kv
  <1>4. s \in Nat /\ t \in Nat /\ s + g < t
    BY <1>1, LineBefore
  <1>5. gbase + n * kv + g \in gbase .. gbase + glines - 1
    <2>1. gbase + s + g \in gbase .. gbase + t - 1
      <3> HIDE DEF s, t
      <3> QED
        BY <1>1, <1>4
    <2> QED
      BY <1>1, <2>1
  <1>6. GatherLine(n, g) \notin Results(n + 1)
    <2> SUFFICES ASSUME NEW i \in 0 .. (n + 1) - 1, ResultLine(i) = GatherLine(n, g)
                 PROVE  FALSE
      BY DEF Results
    <2>1. obase + i = gbase + s + g /\ glines = t
      BY <1>1 DEF ResultLine, GatherLine
    <2> HIDE DEF s, t
    <2> QED
      BY <1>1, <1>4, <2>1 DEF Separate
  <1>7. GatherLine(n, g) \notin Gathered(n, g)
    <2>1. ASSUME NEW i \in 0 .. n - 1, NEW j \in 0 .. kv - 1, GatherLine(n, g) = GatherLine(i, j)
          PROVE  FALSE
      <3> DEFINE u == i * kv
      <3>1. u \in Nat /\ u + j < s
        BY <1>1, LineBefore
      <3>2. gbase + s + g = gbase + u + j
        BY <2>1 DEF GatherLine
      <3> HIDE DEF s, u
      <3> QED
        BY <1>1, <1>4, <3>1, <3>2
    <2>2. ASSUME NEW j \in 0 .. g - 1, GatherLine(n, g) = GatherLine(n, j)
          PROVE  FALSE
      <3>1. gbase + s + g = gbase + s + j
        BY <2>2 DEF GatherLine
      <3> HIDE DEF s
      <3> QED
        BY <1>1, <1>4, <3>1
    <2> QED
      BY <2>1, <2>2 DEF Gathered
  <1> QED
    BY <1>3, <1>5, <1>6, <1>7

\* All lines of a record are those before the next record.
LEMMA RecordGathered ==
    ASSUME NEW n \in Nat
    PROVE  /\ Gathered(n, kv) = Gathered(n + 1, 0)
           /\ kv = 0 => Gathered(n, 0) = {}
           /\ Gathered(0, 0) = {} /\ Results(0) = {}
  <1>1. 0 .. (n + 1) - 1 = (0 .. n - 1) \cup {n} /\ 0 .. 0 - 1 = {}
    OBVIOUS
  <1>2. \A i \in 0 .. (n + 1) - 1, j \in 0 .. kv - 1 :
            GatherLine(i, j) \in Gathered(n, kv)
    BY <1>1 DEF Gathered
  <1>3. \A x \in Gathered(n, kv) : x \in Gathered(n + 1, 0)
    BY <1>1 DEF Gathered
  <1>4. \A x \in Gathered(n + 1, 0) : x \in Gathered(n, kv)
    BY <1>1, <1>2 DEF Gathered
  <1> QED
    BY <1>1, <1>3, <1>4 DEF Gathered, Results

\* Writes land in the regions of the job that stands.
LEMMA WritesInPlace ==
    ASSUME JobInv, Tick
    PROVE  /\ (written # {} => ConfigOk)'
           /\ (\A w \in written :
                 /\ LineOk(w[1])
                 /\ \/ w[1] \in obase .. (obase + out_count - 1)
                    \/ w[1] \in gbase .. (gbase + glines - 1))'
  <1> USE DEF JobInv
  <1> DEFINE InPlace(a) == /\ LineOk(a)
                           /\ \/ a \in obase .. (obase + out_count - 1)
                              \/ a \in gbase .. (gbase + glines - 1)
  <1>1. EngineStep /\ GhostStep /\ TypeOK /\ ControlInv /\ DmaInStep
    BY DEF Tick, ControlInv
  <1>2. /\ cfg \in Configs /\ eng \in Engines /\ eng.es \in EngineStates
        /\ eng.output_no \in Nat /\ eng.gather_offset \in Nat /\ obase \in Nat
    BY <1>1 DEF TypeOK, Engines, Configs, obase
  <1>3. CASE written' = {}
    BY <1>3
  <1>4. CASE written' # {}
    <2>1. eng.es \in Delivering /\ eng.es # "S_FINISH"
      <3>1. eng.es \notin {"S_START", "S_FINISH", "S_ERROR"}
        BY <1>1, <1>4 DEF GhostStep
      <3>2. ASSUME eng.es \in {"S_IDLE"} \cup Selecting PROVE FALSE
        <4>1. written = {} /\ dma.state # "BRESP"
          BY <1>1, <3>2 DEF WrittenSoFar, WritesFollow, Selecting, Scanning, Loading, Keyed, Sorts
        <4> QED
          BY <1>1, <1>4, <4>1 DEF GhostStep
      <3> QED
        BY <1>2, <3>1, <3>2
        DEF EngineStates, Selecting, Scanning, Loading, Keyed, Sorts, Delivering, Gathering
    <2>2. ConfigOk /\ eng'.result_count = eng.result_count /\ cfg' = cfg
      BY <1>1, <2>1, DeliveringFlow, ConfigStays DEF JobStands, Delivering, Gathering
    <2>3. ConfigOk' /\ out_count' = out_count /\ glines' = glines /\ obase' = obase /\ gbase' = gbase
      BY <2>2, ScopeStays DEF obase, gbase
    <2>4. \A w \in written : InPlace(w[1])
      BY DEF WrittenSoFar
    <2>5. dma.state = "BRESP" => InPlace(dma.addr)
      <3> SUFFICES ASSUME dma.state = "BRESP" PROVE InPlace(dma.addr)
        OBVIOUS
      <3>1. /\ LineOk(dma.addr)
            /\ eng.es \in {"S_OUTWAIT", "S_GWRITEWAIT"}
            /\ eng.es = "S_OUTWAIT" => dma.addr = obase + eng.output_no
            /\ eng.es = "S_GWRITEWAIT" =>
                   dma.addr = gbase + eng.output_no * kv + eng.gather_offset
        BY DEF WritesFollow, ResultLine, GatherLine
      <3>2. eng.output_no < out_count /\ out_count \in Nat
        BY <1>2, <2>1 DEF SelectionGood, Engines
      <3>3. CASE eng.es = "S_OUTWAIT"
        BY <1>2, <3>1, <3>2, <3>3
      <3>4. CASE eng.es = "S_GWRITEWAIT"
        <4>1. eng.gather_offset < kv
          BY <3>4 DEF SelectionGood, Gathering
        <4>2. gbase + eng.output_no * kv + eng.gather_offset \in gbase .. gbase + glines - 1
          BY <1>2, <2>2, <3>2, <4>1, OneMoreGathered
        <4> QED
          BY <3>1, <3>4, <4>2
      <3> QED
        BY <3>1, <3>3, <3>4
    <2>6. \A w \in written' : w \in written \/ (dma.state = "BRESP" /\ w = <<dma.addr, dma.data>>)
      BY <1>1 DEF GhostStep
    <2>7. \A w \in written' : InPlace(w[1])
      BY <2>4, <2>5, <2>6
    <2> QED
      BY <2>3, <2>7 DEF LineOk
  <1> QED
    BY <1>3, <1>4

\* A new line is counted once.
LEMMA OneMoreWritten ==
    ASSUME NEW S, NEW T, NEW x, NEW n, IsFiniteSet(S), n = Cardinality(S), x \notin S,
           T = S \cup {x}
    PROVE  IsFiniteSet(T) /\ Cardinality(T) = n + 1
  BY FS_AddElement

\* The acknowledged lines are those of the results and records behind the counters,
\* each counted once.
LEMMA WrittenSoFarStep ==
    ASSUME JobInv, Tick
    PROVE  WrittenSoFar'
  <1> USE DEF JobInv
  <1>1. /\ EngineStep /\ GhostStep /\ TypeOK /\ ControlInv /\ DmaInStep
        /\ DmaStep(Request, eng.es = "S_START")
        /\ DmaInStep'
    BY ControlStep DEF Tick, ControlInv
  <1>2. /\ slave \in Slaves /\ cfg \in Configs /\ eng \in Engines /\ dma \in Dmas({dma.data})
        /\ eng.es \in EngineStates
        /\ eng.output_no \in Nat /\ eng.gather_offset \in Nat /\ eng.result_count \in Nat
        /\ kv \in Nat
    BY <1>1 DEF TypeOK, Engines, Configs, kv
  <1>3. eng.es # "S_IDLE" => cfg' = cfg
    BY ConfigStays
  <1>4. /\ dma'.done \in BOOLEAN /\ dma'.error \in BOOLEAN
        /\ dma'.state \in {"IDLE", "READ", "RRESP", "WRITE", "BRESP"}
        /\ dma.done \in BOOLEAN /\ dma.error \in BOOLEAN
        /\ dma'.state # "IDLE" => ~dma'.done
        /\ dma.state = "IDLE" /\ ~Request.valid => dma'.state = "IDLE" /\ ~dma'.done
        /\ dma.state = "IDLE" /\ Request.valid /\ dma'.state = "IDLE" => dma'.done /\ dma'.error
        /\ dma.state = "WRITE" => dma'.state # "IDLE"
    BY <1>1, <1>2, DmaStepFacts DEF Dmas
  <1>5. /\ eng.es # "S_START" =>
               dma'.write_beats = IF dma.state = "BRESP" /\ dma'.done
                                  THEN dma.write_beats + 1 ELSE dma.write_beats
        /\ eng.es = "S_START" /\ dma.state # "BRESP" => dma'.write_beats = 0
    BY <1>1, <1>2, DmaCounts
  <1>6. /\ eng.es \in {"S_START", "S_FINISH", "S_ERROR"} => written' = {}
        /\ eng.es \notin {"S_START", "S_FINISH", "S_ERROR"} =>
               written' = IF dma.state = "BRESP" /\ dma'.done /\ ~dma'.error
                          THEN written \cup {<<dma.addr, dma.data>>} ELSE written
    BY <1>1 DEF GhostStep
  <1> DEFINE Bare == {"S_IDLE", "S_START"} \cup Selecting
             Place == /\ (written # {} => ConfigOk)'
                      /\ (\A w \in written :
                            /\ LineOk(w[1])
                            /\ \/ w[1] \in obase .. (obase + out_count - 1)
                               \/ w[1] \in gbase .. (gbase + glines - 1))'
             Progress == /\ written' = Results(ResultsOut)' \cup GatheredOut'
                         /\ IsFiniteSet(written')
                         /\ dma'.write_beats = Cardinality(written')
  <1>7. Place
    BY WritesInPlace
  <1>8. ASSUME eng'.es \in Bare => written' = {},
               eng'.es \in Selecting => dma'.write_beats = 0,
               eng'.es \in Delivering /\ ~(dma'.done /\ dma'.error) => Progress
        PROVE  WrittenSoFar'
    BY <1>7, <1>8 DEF WrittenSoFar
  <1>9. ASSUME cfg' = cfg, selection' = selection
        PROVE  /\ \A n : Results(n)' = Results(n)
               /\ \A n, g : Gathered(n, g)' = Gathered(n, g)
    BY <1>9 DEF Results, Gathered, ResultLine, GatherLine, obase, gbase, kvbase, kv
  <1>10. ASSUME eng'.es = "S_OUTREQ", eng'.output_no = 0, written' = {}, dma'.write_beats = 0
         PROVE  Progress
    <2>1. Results(ResultsOut)' = {} /\ GatheredOut' = {}
      <3>1. Results(0)' = {} /\ Gathered(0, 0)' = {}
        BY DEF Results, Gathered
      <3> QED
        BY <1>10, <3>1 DEF ResultsOut, GatheredOut
    <2> QED
      BY <1>10, <2>1, FS_EmptySet
  <1>11. CASE eng.es = "S_IDLE"
    <2>1. eng'.es \in {"S_IDLE", "S_START"} /\ written' = {}
      BY <1>1, <1>2, <1>6, <1>11, IdleFacts DEF WrittenSoFar, DmaInStep, Waiting
    <2> QED
      BY <1>8, <2>1 DEF Selecting, Scanning, Loading, Keyed, Sorts, Delivering, Gathering
  <1>12. CASE eng.es = "S_START"
    <2>1. written' = {} /\ dma'.write_beats = 0
      BY <1>1, <1>5, <1>6, <1>12 DEF DmaInStep, Waiting
    <2>2. CASE eng'.es = "S_OUTREQ"
      <3>1. eng'.output_no = 0
        BY <1>1, <1>2, <1>12, <2>2, StartFacts
      <3> QED
        BY <1>8, <1>10, <2>1, <2>2, <3>1
    <2>3. CASE eng'.es \in {"S_ERROR", "S_JOB"}
      BY <1>8, <2>1, <2>3 DEF Delivering, Gathering
    <2> QED
      BY <1>1, <1>2, <1>12, <2>2, <2>3, StartFacts
  <1>13. CASE eng.es \in Selecting
    <2>1. eng'.es \in Selecting \cup {"S_OUTREQ", "S_ERROR"}
      BY <1>1, <1>13, SelectingFlow
    <2>2. written = {} /\ dma.write_beats = 0 /\ dma.state # "BRESP"
      BY <1>13 DEF WrittenSoFar, WritesFollow, Selecting, Scanning, Loading, Keyed, Sorts
    <2>3. written' = {} /\ dma'.write_beats = 0
      BY <1>5, <1>6, <1>13, <2>2 DEF Selecting, Scanning, Loading, Keyed, Sorts
    <2>4. eng'.es = "S_OUTREQ" => eng'.output_no = 0
      <3> SUFFICES ASSUME eng'.es = "S_OUTREQ" PROVE eng'.output_no = 0
        OBVIOUS
      <3>1. eng.es \in {"S_RESULTS"} \cup Sorts
        <4>1. CASE eng.es = "S_JOB"
          BY <1>1, <1>2, <4>1, JobFacts
        <4>2. CASE eng.es = "S_KEYWAIT"
          BY <1>1, <1>2, <4>2, KeywaitFacts
        <4>3. CASE eng.es = "S_END"
          BY <1>1, <1>2, <4>3, EndFacts
        <4>4. CASE eng.es \in Loading \cup Keyed
          BY <1>1, <4>4, LoadingFlow DEF CoreInStep, Loading, Keyed
        <4> QED
          BY <1>13, <4>1, <4>2, <4>3, <4>4 DEF Selecting, Scanning
      <3>2. CASE eng.es = "S_RESULTS"
        BY <1>1, <1>2, <3>2, ResultsFacts DEF CoreInStep
      <3>3. CASE eng.es \in Sorts
        <4>1. PICK step : Sorting(step) /\ step.sort \in Sorters
          BY <1>1, <3>3, SortTypes DEF Sorts, EngineStep, S_SORT_SIFT, S_SORT_TAKE, TypeOK
        <4> QED
          BY <1>2, <4>1, SortingFacts DEF Sorters
      <3> QED
        BY <3>1, <3>2, <3>3
    <2>5. eng'.es \in Delivering => eng'.es = "S_OUTREQ"
      BY <2>1 DEF Selecting, Scanning, Loading, Keyed, Sorts, Delivering, Gathering
    <2> QED
      BY <1>8, <1>10, <2>3, <2>4, <2>5
  <1>14. CASE eng.es \in {"S_FINISH", "S_ERROR"}
    <2>1. eng'.es = "S_IDLE" /\ written' = {}
      BY <1>1, <1>2, <1>6, <1>14, FinishFacts, ErrorFacts
    <2> QED
      BY <1>8, <2>1 DEF Selecting, Scanning, Loading, Keyed, Sorts, Delivering, Gathering
  <1>15. CASE eng.es \in Delivering /\ eng.es # "S_FINISH"
    <2>1. /\ eng'.es \in Delivering \cup {"S_ERROR"}
          /\ selection' = selection
          /\ cfg' = cfg
      BY <1>1, <1>3, <1>15, DeliveringFlow DEF SelectionAlone, Delivering, Gathering
    <2>2. /\ \A n : Results(n)' = Results(n)
          /\ \A n, g : Gathered(n, g)' = Gathered(n, g)
      BY <1>9, <2>1
    <2>3. eng'.es \notin Bare
      BY <2>1 DEF Selecting, Scanning, Loading, Keyed, Sorts, Delivering, Gathering
    <2>4. SUFFICES ASSUME eng'.es \in Delivering, ~(dma'.done /\ dma'.error)
                   PROVE  Progress
      BY <1>8, <2>3
    <2>5. ~(dma.done /\ dma.error)
      <3> SUFFICES ASSUME dma.done, dma.error PROVE FALSE
        OBVIOUS
      <3>1. eng.es \in Waiting
        BY <1>1 DEF DmaInStep
      <3>2. eng'.es = "S_ERROR"
        BY <1>1, <1>2, <1>15, <3>1, OutwaitFacts, GwaitFacts, GwritewaitFacts
        DEF Waiting, Delivering, Gathering
      <3> QED
        BY <2>4, <3>2 DEF Delivering, Gathering
    <2>6. /\ written = Results(ResultsOut) \cup GatheredOut
          /\ IsFiniteSet(written)
          /\ dma.write_beats = Cardinality(written)
      BY <1>15, <2>5 DEF WrittenSoFar
    <2>7. eng.output_no < out_count /\ out_count \in Nat /\ ConfigOk
      BY <1>2, <1>15 DEF SelectionGood, JobStands
    <2>8. ASSUME ~(dma.state = "BRESP" /\ dma'.done),
                 Results(ResultsOut)' = Results(ResultsOut), GatheredOut' = GatheredOut
          PROVE  Progress
      BY <1>5, <1>6, <1>15, <2>6, <2>8 DEF Delivering, Gathering
    <2>9. CASE eng.es = "S_OUTREQ"
      <3>1. /\ dma.state = "IDLE" /\ Request.valid
        BY <1>1, <2>9, RequestFacts DEF DmaInStep, Waiting, Asking
      <3>2. Keeps(eng') /\ eng'.es = "S_OUTWAIT"
        BY <1>1, <1>2, <2>9, <3>1, AskingFacts DEF Asking, WaitFor
      <3>3. ~dma'.done
        BY <1>4, <2>4, <3>1
      <3>4. eng'.output_no = eng.output_no
        BY <3>2 DEF Keeps, KeepsOutput
      <3> QED
        BY <2>2, <2>8, <2>9, <3>1, <3>2, <3>3, <3>4 DEF ResultsOut, GatheredOut
    <2>10. CASE eng.es = "S_OUTWAIT" /\ ~dma.done
      <3>1. dma.state \in {"WRITE", "BRESP"}
        BY <1>1, <1>2, <1>4, <2>10 DEF DmaInStep, Waiting, WritesFollow
      <3>2. eng'.output_no = eng.output_no /\ eng'.es = "S_OUTWAIT"
        BY <1>1, <2>10, WaitingStays DEF Waiting, Keeps, KeepsOutput
      <3>3. CASE ~dma'.done
        BY <2>2, <2>8, <2>10, <3>2, <3>3 DEF ResultsOut, GatheredOut
      <3>4. CASE dma'.done
        <4>1. dma.state = "BRESP" /\ ~dma'.error
          BY <1>4, <2>4, <3>1, <3>4
        <4>2. <<dma.addr, dma.data>> = ResultLine(eng.output_no)
          BY <2>10, <4>1 DEF WritesFollow
        <4>3. written = Results(eng.output_no) \cup Gathered(eng.output_no, 0)
          BY <2>6, <2>10 DEF ResultsOut, GatheredOut
        <4>4. written' = written \cup {ResultLine(eng.output_no)}
          BY <1>6, <2>10, <3>4, <4>1, <4>2
        <4>5. /\ Results(eng.output_no + 1) = Results(eng.output_no) \cup {ResultLine(eng.output_no)}
              /\ ResultLine(eng.output_no) \notin written
          BY <1>2, <2>7, <4>3, OneMoreResult
        <4>6. written' = Results(eng.output_no + 1) \cup Gathered(eng.output_no, 0)
          BY <4>3, <4>4, <4>5
        <4>7. dma'.write_beats = dma.write_beats + 1
          BY <1>5, <2>10, <3>4, <4>1
        <4>8. IsFiniteSet(written') /\ Cardinality(written') = dma.write_beats + 1
          BY <2>6, <4>4, <4>5, OneMoreWritten
        <4>9. /\ Results(ResultsOut)' = Results(eng.output_no + 1)
              /\ GatheredOut' = Gathered(eng.output_no, 0)
          BY <2>2, <3>2, <3>4 DEF ResultsOut, GatheredOut
        <4> QED
          BY <4>6, <4>7, <4>8, <4>9
      <3> QED
        BY <3>3, <3>4
    <2>11. CASE eng.es = "S_OUTWAIT" /\ dma.done
      <3>1. dma.state = "IDLE" /\ ~Request.valid
        BY <1>1, <1>4, <2>11, RequestFacts DEF DmaInStep, Waiting, Asking
      <3>2. ~dma'.done
        BY <1>4, <3>1
      <3>3. /\ \/ kv = 0 /\ eng'.es = "S_ADVANCE"
               \/ eng'.es = "S_GREAD" /\ eng'.gather_offset = 0
            /\ eng'.output_no = eng.output_no
        BY <1>1, <1>2, <2>5, <2>11, OutwaitFacts DEF Keeps, KeepsOutput
      <3>4. /\ kv = 0 => Gathered(eng.output_no, 0) = {} /\ Gathered(eng.output_no + 1, 0) = {}
        BY <1>2, RecordGathered
      <3> QED
        BY <2>2, <2>8, <2>11, <3>1, <3>2, <3>3, <3>4 DEF ResultsOut, GatheredOut
    <2>12. CASE eng.es \in {"S_GREAD", "S_GWRITE"}
      <3>1. /\ dma.state = "IDLE" /\ Request.valid
        BY <1>1, <2>12, RequestFacts DEF DmaInStep, Waiting, Asking
      <3>2. Keeps(eng') /\ eng'.es = WaitFor[eng.es]
        BY <1>1, <1>2, <2>12, <3>1, AskingFacts DEF Asking
      <3>3. ~dma'.done
        BY <1>4, <2>4, <3>1
      <3>4. eng'.output_no = eng.output_no /\ eng'.gather_offset = eng.gather_offset
        BY <3>2 DEF Keeps, KeepsOutput
      <3> QED
        BY <2>2, <2>8, <2>12, <3>1, <3>2, <3>3, <3>4 DEF WaitFor, ResultsOut, GatheredOut
    <2>13. CASE eng.es = "S_GWAIT"
      <3>1. dma.state # "BRESP"
        BY <2>13 DEF WritesFollow
      <3>2. /\ eng'.es \in {"S_GWAIT", "S_GWRITE"}
            /\ eng'.output_no = eng.output_no /\ eng'.gather_offset = eng.gather_offset
        BY <1>1, <1>2, <2>5, <2>13, GwaitFacts DEF Keeps, KeepsOutput
      <3> QED
        BY <2>2, <2>8, <2>13, <3>1, <3>2 DEF ResultsOut, GatheredOut
    <2>14. CASE eng.es = "S_GWRITEWAIT" /\ ~dma.done
      <3>1. dma.state \in {"WRITE", "BRESP"}
        BY <1>1, <1>2, <1>4, <2>14 DEF DmaInStep, Waiting, WritesFollow
      <3>2. /\ eng'.output_no = eng.output_no /\ eng'.es = "S_GWRITEWAIT"
            /\ eng'.gather_offset = eng.gather_offset
        BY <1>1, <2>14, WaitingStays DEF Waiting, Keeps, KeepsOutput
      <3>3. CASE ~dma'.done
        BY <2>2, <2>8, <2>14, <3>2, <3>3 DEF ResultsOut, GatheredOut
      <3>4. CASE dma'.done
        <4> DEFINE n == eng.output_no
                   g == eng.gather_offset
        <4>1. dma.state = "BRESP" /\ ~dma'.error
          BY <1>4, <2>4, <3>1, <3>4
        <4>2. <<dma.addr, dma.data>> = GatherLine(n, g)
          BY <2>14, <4>1 DEF WritesFollow
        <4>3. written = Results(n + 1) \cup Gathered(n, g)
          BY <2>6, <2>14 DEF ResultsOut, GatheredOut
        <4>4. written' = written \cup {GatherLine(n, g)}
          BY <1>6, <2>14, <3>4, <4>1, <4>2
        <4>5. g < kv
          BY <2>14 DEF SelectionGood, Gathering
        <4>6. /\ Gathered(n, g + 1) = Gathered(n, g) \cup {GatherLine(n, g)}
              /\ GatherLine(n, g) \notin written
          BY <1>2, <2>7, <4>3, <4>5, OneMoreGathered
        <4>7. written' = Results(n + 1) \cup Gathered(n, g + 1)
          BY <4>3, <4>4, <4>6
        <4>8. dma'.write_beats = dma.write_beats + 1
          BY <1>5, <2>14, <3>4, <4>1
        <4>9. IsFiniteSet(written') /\ Cardinality(written') = dma.write_beats + 1
          BY <2>6, <4>4, <4>6, OneMoreWritten
        <4>10. /\ Results(ResultsOut)' = Results(n + 1)
               /\ GatheredOut' = Gathered(n, g + 1)
          BY <2>2, <3>2, <3>4 DEF ResultsOut, GatheredOut
        <4> QED
          BY <4>7, <4>8, <4>9, <4>10
      <3> QED
        BY <3>3, <3>4
    <2>15. CASE eng.es = "S_GWRITEWAIT" /\ dma.done
      <3>1. dma.state = "IDLE" /\ ~Request.valid
        BY <1>1, <1>4, <2>15, RequestFacts DEF DmaInStep, Waiting, Asking
      <3>2. ~dma'.done
        BY <1>4, <3>1
      <3>3. /\ \/ eng.gather_offset + 1 = kv /\ eng'.es = "S_ADVANCE"
               \/ eng'.es = "S_GREAD" /\ eng'.gather_offset = eng.gather_offset + 1
            /\ eng'.output_no = eng.output_no
        BY <1>1, <1>2, <2>5, <2>15, GwritewaitFacts DEF Keeps, KeepsOutput
      <3>4. Gathered(eng.output_no, kv) = Gathered(eng.output_no + 1, 0)
        BY <1>2, RecordGathered
      <3> QED
        BY <2>2, <2>8, <2>15, <3>1, <3>2, <3>3, <3>4 DEF ResultsOut, GatheredOut
    <2>16. CASE eng.es = "S_ADVANCE"
      <3>1. dma.state = "IDLE" /\ ~Request.valid
        BY <1>1, <2>16, RequestFacts DEF DmaInStep, Waiting, Asking
      <3>2. ~dma'.done
        BY <1>4, <3>1
      <3>3. \/ eng'.es = "S_FINISH" /\ eng'.output_no = eng.output_no
            \/ eng'.es = "S_OUTREQ" /\ eng'.output_no = eng.output_no + 1
        BY <1>1, <1>2, <2>16, AdvanceFacts DEF Keeps, KeepsOutput
      <3> QED
        BY <2>2, <2>8, <2>16, <3>1, <3>2, <3>3 DEF ResultsOut, GatheredOut
    <2> QED
      BY <1>15, <2>9, <2>10, <2>11, <2>12, <2>13, <2>14, <2>15, <2>16 DEF Delivering, Gathering
  <1> QED
    BY <1>2, <1>11, <1>12, <1>13, <1>14, <1>15
    DEF EngineStates, Selecting, Scanning, Loading, Keyed, Sorts, Delivering, Gathering

-----------------------------------------------------------------------------
(* What the engine promises                                                  *)

\* The invariant holds after reset.
LEMMA JobInit ==
    ASSUME Init
    PROVE  JobInv
  <1> USE DEF Loading, Keyed, Scanning, Sorts, Selecting, Gathering, Delivering
  <1>1. /\ eng.es = "S_IDLE" /\ ~eng.cache_valid /\ written = {}
        /\ core.state = "IDLE" /\ dma.state = "IDLE"
    BY DEF Init, EngineInit, GhostInit, CoreInit, CoreReset, DmaInit
  <1>2. selection \in [0 .. MaxK - 1 -> Nat]
    BY DEF Init, EngineInit
  <1>3. JobStands /\ CoreInStep /\ KeysCounted
    BY <1>1 DEF JobStands, CoreInStep, KeysCounted
  <1>4. SelectionGood
    BY <1>1, <1>2 DEF SelectionGood
  <1>5. WritesFollow /\ WrittenSoFar
    BY <1>1 DEF WritesFollow, WrittenSoFar
  <1> QED
    BY <1>3, <1>4, <1>5, ControlInit DEF JobInv

\* Every edge keeps the invariant of a job.
LEMMA JobStep ==
    ASSUME JobInv, [Tick]_vars
    PROVE  JobInv'
  <1>1. CASE Tick
    <2>1. ControlInv'
      BY <1>1, ControlStep DEF JobInv
    <2>2. JobStands' /\ CoreInStep' /\ KeysCounted' /\ SelectionGood'
      BY <1>1, JobStandsStep, CoreInStepStep, KeysCountedStep, SelectionGoodStep
    <2>3. WritesFollow' /\ WrittenSoFar'
      BY <1>1, WritesFollowStep, WrittenSoFarStep
    <2> QED
      BY <2>1, <2>2, <2>3 DEF JobInv
  <1>2. CASE UNCHANGED vars
    <2>1. ControlInv'
      BY <1>2, ControlStep DEF JobInv
    <2>2. /\ eng' = eng /\ cfg' = cfg /\ core' = core /\ dma' = dma /\ sort' = sort
          /\ selection' = selection /\ written' = written /\ scanned' = scanned
      BY <1>2 DEF vars
    <2>3. /\ out_count' = out_count /\ (ConfigOk' <=> ConfigOk) /\ CacheKey' = CacheKey
          /\ glines' = glines /\ mode' = mode /\ topk' = topk /\ scan_count' = scan_count
          /\ obase' = obase /\ gbase' = gbase /\ kvbase' = kvbase /\ kv' = kv
      BY <2>2, ScopeStays DEF mode, topk, scan_count, nkeys, ncand, obase, gbase, kvbase, kv
    <2>4. JobStands' /\ CoreInStep'
      BY <2>2, <2>3 DEF JobInv, JobStands, CoreInStep
    <2>5. KeysCounted'
      BY <2>2, <2>3 DEF JobInv, KeysCounted, KeptOf, NextKey
    <2>6. SelectionGood'
      BY <2>2, <2>3 DEF JobInv, SelectionGood, Collecting, Selected, Ascending
    <2>7. WritesFollow'
      BY <2>2, <2>3 DEF JobInv, WritesFollow, ResultLine, GatherLine
    <2>8. WrittenSoFar'
      <3>1. /\ Results(ResultsOut)' = Results(ResultsOut)
            /\ GatheredOut' = GatheredOut
        BY <2>2, <2>3 DEF Results, ResultsOut, GatheredOut, Gathered, ResultLine, GatherLine
      <3> QED
        BY <2>2, <2>3, <3>1 DEF JobInv, WrittenSoFar
    <2> QED
      BY <2>1, <2>4, <2>5, <2>6, <2>7, <2>8 DEF JobInv
  <1> QED
    BY <1>1, <1>2

\* From its command to its report a job stands: regions checked, core in step, keys
\* counted, selection good and writes where the counters are.
THEOREM JobInvariant == Spec => []JobInv
  BY JobInit, JobStep, PTL DEF Spec

\* The registers of slave, engine, DMA, sorter and core keep their types, and the
\* selection stays a table of MaxK numbers: S_RESULTS and the sorter never write
\* beside it.
THEOREM TypeCorrect == Spec => [](TypeOK /\ selection \in [0 .. MaxK - 1 -> Nat])
  <1>1. JobInv => TypeOK /\ selection \in [0 .. MaxK - 1 -> Nat]
    BY DEF JobInv, ControlInv, SelectionGood
  <1> QED
    BY <1>1, JobInvariant, PTL

\* Whatever is written lies in the output regions of the job, clear of its inputs,
\* of the register window and of everything outside the aperture, in jobs that fail
\* as in those that succeed (S_START checks the regions pair by pair; no counter of
\* S_OUTREQ to S_ADVANCE passes their ends).
THEOREM InputsAlwaysUntouched == Spec => []InputsUntouched
  <1>1. ASSUME JobInv PROVE InputsUntouched
    <2> SUFFICES ASSUME NEW w \in written
                 PROVE  /\ LineOk(w[1])
                        /\ w[1] \in obase .. (obase + out_count - 1) \union gbase .. (gbase + glines - 1)
                        /\ w[1] \notin qbase .. (qbase + qlines - 1)
                        /\ w[1] \notin kbase .. (kbase + klines - 1)
                        /\ kv # 0 => w[1] \notin kvbase .. (kvbase + vlines - 1)
                        /\ mode = REINDEX => w[1] \notin cbase .. (cbase + clines - 1)
      BY DEF InputsUntouched
    <2> DEFINE a == w[1]
    <2>1. /\ ConfigOk /\ LineOk(a)
          /\ a \in obase .. (obase + out_count - 1) \/ a \in gbase .. (gbase + glines - 1)
      BY <1>1 DEF JobInv, WrittenSoFar
    <2>2. /\ nkeys \in Nat /\ ncand \in Nat /\ heads \in Nat /\ kv \in Nat /\ topk \in Nat
          /\ qbase \in Nat /\ kbase \in Nat /\ cbase \in Nat /\ obase \in Nat
          /\ kvbase \in Nat /\ gbase \in Nat
          /\ eng.result_count \in Nat
      BY <1>1 DEF JobInv, ControlInv, TypeOK, Configs, Engines, nkeys, ncand, heads, kv, topk,
                  qbase, kbase, cbase, obase, kvbase, gbase
    <2>3. /\ qlines \in Nat /\ klines \in Nat /\ vlines \in Nat
          /\ out_count \in Nat
      BY <2>2, EngineAssumption DEF qlines, klines, vlines, out_count, scan_count
    <2>4. glines \in Nat /\ clines \in Nat
      BY <2>2, <2>3, EngineAssumption DEF glines, clines
    <2>5. kv = 0 => glines = 0
      BY <2>3 DEF glines
    <2>6. a \in Int
      BY <2>1, <2>2, <2>3, <2>4
    <2>7. CASE a \in obase .. (obase + out_count - 1)
      <3>1. /\ Separate(obase, out_count, qbase, qlines)
            /\ Separate(obase, out_count, kbase, klines)
            /\ kv # 0 => Separate(obase, out_count, kvbase, vlines)
            /\ mode = REINDEX => Separate(obase, out_count, cbase, clines)
        BY <2>1 DEF ConfigOk, RangesOk
      <3> QED
        BY <2>1, <2>2, <2>3, <2>4, <2>6, <2>7, <3>1 DEF Separate
    <2>8. CASE a \in gbase .. (gbase + glines - 1)
      <3>1. kv # 0
        BY <2>2, <2>5, <2>6, <2>8
      <3>2. /\ Separate(gbase, glines, qbase, qlines)
            /\ Separate(gbase, glines, kbase, klines)
            /\ Separate(gbase, glines, kvbase, vlines)
            /\ mode = REINDEX => Separate(gbase, glines, cbase, clines)
        BY <2>1, <3>1 DEF ConfigOk, RangesOk
      <3> QED
        BY <2>1, <2>2, <2>3, <2>4, <2>6, <2>8, <3>2 DEF Separate
    <2> QED
      BY <2>1, <2>7, <2>8
  <1> QED
    BY <1>1, JobInvariant, PTL

\* A valid cache holds, in ascending order, the very keys the core kept in the scan
\* made under the saved parameters, through REUSE jobs, refused jobs and failed ones
\* (S_START, S_RESULTS, S_FINISH and S_ERROR and the sorter between them).
THEOREM CacheAlwaysIsSelection == Spec => []CacheIsSelection
  <1>1. JobInv => CacheIsSelection
    BY DEF JobInv, SelectionGood, Selected, Entries, CacheIsSelection
  <1> QED
    BY <1>1, JobInvariant, PTL

\* A job reports DONE only with every result and gathered line acknowledged, each
\* once, nothing else written, and its results in ascending order.
THEOREM DoneAlwaysMeansWritten == Spec => DoneMeansWritten
  <1>1. ASSUME JobInv, Tick, eng'.done_flag, ~eng.done_flag
        PROVE  /\ written = Owed
               /\ dma.write_beats = Cardinality(written)
               /\ eng.result_count = out_count
               /\ Ascending(eng.result_count)
    <2>1. /\ EngineStep /\ TypeOK /\ ControlInv /\ slave \in Slaves /\ cfg \in Configs
          /\ eng \in Engines /\ eng.es \in EngineStates
      BY <1>1 DEF Tick, JobInv, ControlInv, TypeOK, Engines
    <2>2. eng.es = "S_FINISH"
      <3>1. eng.es \notin Selecting
        BY <1>1, <2>1, SelectingFlow
      <3>2. ~(eng.es \in Delivering /\ eng.es # "S_FINISH")
        BY <1>1, <2>1, DeliveringFlow DEF KeepsFlags
      <3>3. eng.es \notin {"S_IDLE", "S_START", "S_ERROR"}
        BY <1>1, <2>1, IdleFacts, StartFacts, ErrorFacts DEF Keeps, KeepsFlags
      <3> QED
        BY <2>1, <3>1, <3>2, <3>3
        DEF EngineStates, Selecting, Scanning, Loading, Keyed, Sorts, Delivering, Gathering
    <2>3. ~dma.done
      BY <1>1, <2>2 DEF JobInv, ControlInv, DmaInStep, Waiting
    <2>4. /\ written = Results(eng.output_no + 1) \cup Gathered(eng.output_no + 1, 0)
          /\ dma.write_beats = Cardinality(written)
      BY <1>1, <2>2, <2>3 DEF JobInv, WrittenSoFar, ResultsOut, GatheredOut, Delivering
    <2>5. /\ eng.output_no + 1 = eng.result_count
          /\ eng.result_count = out_count
          /\ Ascending(eng.result_count)
      BY <1>1, <2>2 DEF JobInv, SelectionGood, Selected, Delivering
    <2>6. Results(eng.result_count) \cup Gathered(eng.result_count, 0) = Owed
      <3>1. 0 .. 0 - 1 = {}
        OBVIOUS
      <3> QED
        BY <3>1 DEF Results, Gathered, ResultLine, GatherLine, Owed
    <2> QED
      BY <2>4, <2>5, <2>6
  <1>2. ASSUME JobInv, [Tick]_vars
        PROVE  [eng'.done_flag /\ ~eng.done_flag =>
                   /\ written = Owed
                   /\ dma.write_beats = Cardinality(written)
                   /\ eng.result_count = out_count
                   /\ Ascending(eng.result_count)]_vars
    BY <1>1, <1>2
  <1> QED
    BY <1>2, JobInvariant, PTL DEF Spec, DoneMeansWritten
=============================================================================
