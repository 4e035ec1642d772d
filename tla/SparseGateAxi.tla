---------------------------- MODULE SparseGateAxi ----------------------------
(***************************************************************************)
(* The memory-side SparseGate engine (rtl/sparse_gate_axi/sparse_gate_axi.sv):*)
(* register slave, engine and DMA on one clock, with the scoring core and    *)
(* the memory as nondeterministic surroundings.                              *)
(*                                                                         *)
(* The always_ff blocks read each other's registers as they are before the   *)
(* edge, so the design is one action, Tick, the conjunction of what each     *)
(* block does.  The engine has one operator per state.                       *)
(*                                                                         *)
(* Abstracted: the 32 steps that hand a line to the core byte by byte are one *)
(* (the core takes a byte at every edge once it is ready); the core is SgCore, *)
(* which SgIndexCore implements; statistics other than the counts are left    *)
(* out.  Bases are multiples of 32 bytes.                                     *)
(***************************************************************************)
EXTENDS SgDma, SgRegs, SgSort, SgCore

CONSTANTS
    MaxKeys, MaxK, MaxHeads, MaxKv,  \* 65536, 512, 32 and 4096 / 32
    RecordLines,                     \* lines of a Q or K record: 3
    IdsPerLine                       \* candidate numbers in a line: 8

ASSUME EngineAssumption ==
    /\ MaxKeys \in Nat \ {0}
    /\ MaxK \in Nat \ {0}
    /\ MaxHeads \in Nat \ {0}
    /\ MaxKv \in Nat
    /\ RecordLines \in Nat \ {0}
    /\ IdsPerLine \in Nat \ {0}

\* Registers hold unsigned numbers, whatever hosts write.
ASSUME RegisterAssumption ==
    /\ Line0 \cup {Zero0} \subseteq [mode : Nat, qbase : Nat, kbase : Nat]
    /\ Line1 \cup {Zero1} \subseteq [cbase : Nat, obase : Nat, kvbase : Nat, gbase : Nat]
    /\ Line2 \cup {Zero2} \subseteq [nkeys : Nat, ncand : Nat, topk : Nat, heads : Nat,
                                      context : Nat, epoch : Nat, kv : Nat]

VARIABLES
    eng,        \* the engine's registers
    selection,  \* cache_idx
    sort,       \* the sorter's registers
    written,    \* GHOST: <<address, data>> of the lines acknowledged in this job
    scanned     \* GHOST: the key of the latest scan, and the keys the core kept

vars == <<slave, cfg, dma, eng, core, selection, sort, written, scanned>>

-----------------------------------------------------------------------------
(* The configuration, by the names of the wires that carry it                *)

mode == cfg.line0.mode
qbase == cfg.line0.qbase
kbase == cfg.line0.kbase
cbase == cfg.line1.cbase
obase == cfg.line1.obase
kvbase == cfg.line1.kvbase
gbase == cfg.line1.gbase
nkeys == cfg.line2.nkeys
ncand == cfg.line2.ncand
topk == cfg.line2.topk
heads == cfg.line2.heads
kv == cfg.line2.kv

FULL == 0
REINDEX == 1
REUSE == 2

\* What a cached selection depends on: saved_context to saved_kbase.
CacheKey == [context |-> cfg.line2.context, epoch |-> cfg.line2.epoch,
             nkeys |-> nkeys, topk |-> topk, heads |-> heads,
             qbase |-> qbase, kbase |-> kbase]

NoKey == [context |-> 0, epoch |-> 0, nkeys |-> 0, topk |-> 0, heads |-> 0,
          qbase |-> 0, kbase |-> 0]

\* A region of n > 0 lines inside the aperture and clear of the register window.
RegionOk(a, n) ==
    /\ n # 0
    /\ a >= MemBase
    /\ a + n <= MemBase + MemLines
    /\ a + n <= RegBase \/ a >= RegBase + RegLines

Separate(a, n, b, m) == a + n <= b \/ b + m <= a

qlines == heads * RecordLines
klines == nkeys * RecordLines
clines == (ncand + IdsPerLine - 1) \div IdsPerLine
scan_count == IF mode = REINDEX THEN ncand ELSE nkeys
out_count == IF mode = REUSE THEN eng.result_count
             ELSE IF scan_count < topk THEN scan_count ELSE topk
vlines == nkeys * kv
glines == out_count * kv

\* A slip: the results may lie over the K records.
RangesOkButK ==
    /\ RegionOk(qbase, qlines)
    /\ RegionOk(kbase, klines)
    /\ RegionOk(obase, out_count)
    /\ Separate(obase, out_count, qbase, qlines)
    /\ mode = REINDEX => /\ RegionOk(cbase, clines)
                         /\ Separate(obase, out_count, cbase, clines)
    /\ kv # 0 => /\ RegionOk(kvbase, vlines)
                 /\ RegionOk(gbase, glines)
                 /\ Separate(obase, out_count, kvbase, vlines)
                 /\ Separate(obase, out_count, gbase, glines)
                 /\ Separate(gbase, glines, qbase, qlines)
                 /\ Separate(gbase, glines, kbase, klines)
                 /\ Separate(gbase, glines, kvbase, vlines)
                 /\ mode = REINDEX => Separate(gbase, glines, cbase, clines)

RangesOk ==
    /\ RegionOk(qbase, qlines)
    /\ RegionOk(kbase, klines)
    /\ RegionOk(obase, out_count)
    /\ Separate(obase, out_count, qbase, qlines)
    /\ Separate(obase, out_count, kbase, klines)
    /\ mode = REINDEX => /\ RegionOk(cbase, clines)
                         /\ Separate(obase, out_count, cbase, clines)
    /\ kv # 0 => /\ RegionOk(kvbase, vlines)
                 /\ RegionOk(gbase, glines)
                 /\ Separate(obase, out_count, kvbase, vlines)
                 /\ Separate(obase, out_count, gbase, glines)
                 /\ Separate(gbase, glines, qbase, qlines)
                 /\ Separate(gbase, glines, kbase, klines)
                 /\ Separate(gbase, glines, kvbase, vlines)
                 /\ mode = REINDEX => Separate(gbase, glines, cbase, clines)

ConfigOk ==
    /\ RangesOk
    /\ mode \in {FULL, REINDEX, REUSE}
    /\ nkeys \in 1 .. MaxKeys
    /\ topk \in 1 .. MaxK
    /\ heads \in 1 .. MaxHeads
    /\ mode = REINDEX => ncand \in 1 .. nkeys
    /\ kv \in 0 .. MaxKv

\* A slip: any valid selection may be reused.
ReuseAny == eng.cache_valid

ReuseOk == eng.cache_valid /\ eng.saved = CacheKey

-----------------------------------------------------------------------------
(* The wires to the scoring core                                             *)

\* A slip: an error does not reset the core.
PortsNeverReset ==
    [reset |-> FALSE,
     job |-> eng.es = "S_JOB",
     job_ok |-> topk \in 1 .. MaxK /\ heads \in 1 .. MaxHeads,
     limit |-> topk,
     key_valid |-> eng.es = "S_KEYSTART",
     key |-> eng.current_key,
     finish |-> eng.es = "S_END",
     score_ready |-> eng.es = "S_KEYWAIT",
     result_ready |-> eng.es = "S_RESULTS",
     done_ready |-> TRUE]

\* What the engine's state puts on the core's inputs.
CorePorts ==
    [reset |-> eng.es = "S_ERROR",
     job |-> eng.es = "S_JOB",
     job_ok |-> topk \in 1 .. MaxK /\ heads \in 1 .. MaxHeads,
     limit |-> topk,
     key_valid |-> eng.es = "S_KEYSTART",
     key |-> eng.current_key,
     finish |-> eng.es = "S_END",
     score_ready |-> eng.es = "S_KEYWAIT",
     result_ready |-> eng.es = "S_RESULTS",
     done_ready |-> TRUE]

-----------------------------------------------------------------------------
(* The engine                                                                *)

EngineInit ==
    /\ eng = [es |-> "S_IDLE", busy |-> FALSE, done_flag |-> FALSE,
              error_flag |-> FALSE, error_code |-> 0, cache_valid |-> FALSE,
              result_count |-> 0, head_no |-> 0, line_no |-> 0, scan_no |-> 0,
              current_key |-> 0, previous_candidate |-> 0, gather_line |-> <<>>,
              output_no |-> 0, gather_offset |-> 0, saved |-> NoKey]
    /\ selection = [i \in 0 .. (MaxK - 1) |-> 0]
    /\ sort = SortStart(0)

\* The line of the record with this number, counted from base.
RecordLine(base, number) == base + number * RecordLines + eng.line_no

\* What goes out when result number output_no is written: its key.
ResultData == <<"result", selection[eng.output_no]>>

\* The engine's request to the DMA in each state that makes one.
Request ==
    LET Read(addr) == [valid |-> TRUE, write |-> FALSE, addr |-> addr, data |-> <<>>]
        Write(addr, data) == [valid |-> TRUE, write |-> TRUE, addr |-> addr, data |-> data]
    IN  CASE eng.es = "S_QREQ" -> Read(RecordLine(qbase, eng.head_no))
          [] eng.es = "S_CREQ" -> Read(cbase + eng.scan_no \div IdsPerLine)
          [] eng.es = "S_KREQ" -> Read(RecordLine(kbase, eng.current_key))
          [] eng.es = "S_OUTREQ" -> Write(obase + eng.output_no, ResultData)
          [] eng.es = "S_GREAD" ->
               Read(kvbase + selection[eng.output_no] * kv + eng.gather_offset)
          [] eng.es = "S_GWRITE" ->
               Write(gbase + eng.output_no * kv + eng.gather_offset, eng.gather_line)
          [] OTHER -> NoRequest

\* What every edge does before the state is looked at.
AfterPulses ==
    LET illegal == slave.illegal /\ ~eng.busy
    IN  [eng EXCEPT !.cache_valid = @ /\ ~slave.invalidate,
                    !.done_flag = @ /\ ~illegal,
                    !.error_flag = @ \/ illegal,
                    !.error_code = IF illegal THEN 6 ELSE @]

Goto(state) == [AfterPulses EXCEPT !.es = state]
Fail(code) == [AfterPulses EXCEPT !.es = "S_ERROR", !.error_code = code]

\* A slip: an error answer is taken for a good one.
AwaitBlindly(next) == eng' = IF dma.done THEN next ELSE AfterPulses

\* A state that waits for the DMA, and where it goes when that has succeeded.
Await(next) ==
    \/ ~dma.done /\ eng' = AfterPulses
    \/ dma.done /\ dma.error /\ eng' = Fail(4)
    \/ dma.done /\ ~dma.error /\ eng' = next

\* A state that makes a request: it is taken as soon as the DMA is idle.
Ask(next) == eng' = IF dma.state = "IDLE" THEN Goto(next) ELSE AfterPulses

SelectionAlone == UNCHANGED <<selection, sort>>

S_IDLE ==
    /\ eng' = IF slave.start
              THEN [Goto("S_START") EXCEPT !.busy = TRUE, !.done_flag = FALSE,
                                           !.error_flag = FALSE, !.error_code = 0]
              ELSE AfterPulses
    /\ SelectionAlone

S_START ==
    /\ \/ /\ mode = REUSE
          /\ ~ReuseOk
          /\ eng' = Fail(2)
       \/ /\ mode = REUSE => ReuseOk
          /\ ~ConfigOk
          /\ eng' = Fail(1)
       \/ /\ mode = REUSE
          /\ ReuseOk
          /\ ConfigOk
          /\ eng' = [Goto("S_OUTREQ") EXCEPT !.output_no = 0]
       \/ /\ mode # REUSE
          /\ ConfigOk
          /\ eng' = [Goto("S_JOB") EXCEPT !.cache_valid = FALSE, !.result_count = 0,
                                          !.head_no = 0, !.line_no = 0, !.scan_no = 0]
    /\ SelectionAlone

S_JOB ==
    /\ eng' = IF core.state = "IDLE" THEN Goto("S_QREQ") ELSE AfterPulses
    /\ SelectionAlone

S_QREQ == Ask("S_QWAIT") /\ SelectionAlone
S_QWAIT == Await(Goto("S_QLOAD")) /\ SelectionAlone

S_QLOAD ==
    /\ \/ /\ core.state # "READY"
          /\ eng' = AfterPulses
       \/ /\ core.state = "READY"
          /\ eng.line_no + 1 < RecordLines
          /\ eng' = [Goto("S_QREQ") EXCEPT !.line_no = @ + 1]
       \/ /\ core.state = "READY"
          /\ eng.line_no + 1 = RecordLines
          /\ eng' = IF eng.head_no + 1 = heads
                    THEN [Goto("S_NEXT_KEY") EXCEPT !.line_no = 0]
                    ELSE [Goto("S_QREQ") EXCEPT !.line_no = 0, !.head_no = @ + 1]
    /\ SelectionAlone

S_NEXT_KEY ==
    /\ \/ /\ eng.scan_no = scan_count
          /\ eng' = Goto("S_END")
       \/ /\ eng.scan_no # scan_count
          /\ mode = REINDEX
          /\ eng' = Goto(IF eng.scan_no % IdsPerLine = 0 THEN "S_CREQ" ELSE "S_CSELECT")
       \/ /\ eng.scan_no # scan_count
          /\ mode # REINDEX
          /\ eng' = [Goto("S_KREQ") EXCEPT !.current_key = eng.scan_no, !.line_no = 0]
    /\ SelectionAlone

S_CREQ == Ask("S_CWAIT") /\ SelectionAlone
S_CWAIT == Await(Goto("S_CSELECT")) /\ SelectionAlone

\* Any number may stand in the candidate line; one that is no key, or does not
\* ascend, ends the job.
S_CSELECT ==
    /\ \E id \in 0 .. nkeys :
          eng' = IF id >= nkeys \/ (eng.scan_no # 0 /\ id <= eng.previous_candidate)
                 THEN Fail(3)
                 ELSE [Goto("S_KREQ") EXCEPT !.current_key = id,
                                             !.previous_candidate = id, !.line_no = 0]
    /\ SelectionAlone

S_KREQ == Ask("S_KWAIT") /\ SelectionAlone
S_KWAIT == Await(Goto("S_KLOAD")) /\ SelectionAlone

S_KLOAD ==
    /\ \/ /\ core.state # "READY"
          /\ eng' = AfterPulses
       \/ /\ core.state = "READY"
          /\ eng' = IF eng.line_no + 1 < RecordLines
                    THEN [Goto("S_KREQ") EXCEPT !.line_no = @ + 1]
                    ELSE [Goto("S_KEYSTART") EXCEPT !.line_no = 0]
    /\ SelectionAlone

S_KEYSTART ==
    /\ eng' = IF core.state = "READY" THEN Goto("S_KEYWAIT") ELSE AfterPulses
    /\ SelectionAlone

S_KEYWAIT ==
    /\ \/ /\ core.state # "SCORE"
          /\ eng' = AfterPulses
       \/ /\ core.state = "SCORE"
          /\ eng' = IF core.failed THEN Fail(5)
                    ELSE [Goto("S_NEXT_KEY") EXCEPT !.scan_no = @ + 1]
    /\ SelectionAlone

S_END ==
    /\ eng' = IF core.state = "READY" THEN Goto("S_RESULTS") ELSE AfterPulses
    /\ SelectionAlone

\* The results are stored as they come; after the last one they are sorted,
\* unless there is only one.
S_RESULTS ==
    LET failed == core.state = "DONE" /\ core.failed
        valid == core.state = "OUTPUTS"
        last == core.kept = {core.head}
    IN  \/ /\ failed
           /\ eng' = Fail(5)
           /\ SelectionAlone
        \/ /\ ~failed
           /\ ~valid
           /\ eng' = AfterPulses
           /\ SelectionAlone
        \/ /\ ~failed
           /\ valid
           /\ selection' = [selection EXCEPT ![eng.result_count] = core.head]
           /\ eng' = [AfterPulses EXCEPT
                         !.result_count = @ + 1,
                         !.es = IF ~last THEN @
                                ELSE IF eng.result_count = 0 THEN "S_OUTREQ"
                                ELSE "S_SORT_SIFT",
                         !.output_no = IF last /\ eng.result_count = 0 THEN 0 ELSE @]
           /\ sort' = IF last /\ eng.result_count # 0
                      THEN SortStart(eng.result_count) ELSE sort

\* The two states of the sorter; SgSort has what they do.
Sorting(step) ==
    /\ selection' = step.idx
    /\ sort' = step.sort
    /\ eng' = CASE step.sort.at = "SIFT" -> Goto("S_SORT_SIFT")
                [] step.sort.at = "TAKE" -> Goto("S_SORT_TAKE")
                [] step.sort.at = "DONE" -> [Goto("S_OUTREQ") EXCEPT !.output_no = 0]

S_SORT_SIFT == Sorting(SortSift(selection, sort))
S_SORT_TAKE == Sorting(SortTake(selection, sort))

S_OUTREQ == Ask("S_OUTWAIT") /\ SelectionAlone

S_OUTWAIT ==
    /\ Await(IF kv = 0 THEN Goto("S_ADVANCE")
                       ELSE [Goto("S_GREAD") EXCEPT !.gather_offset = 0])
    /\ SelectionAlone

S_GREAD == Ask("S_GWAIT") /\ SelectionAlone

S_GWAIT ==
    /\ Await([Goto("S_GWRITE") EXCEPT !.gather_line = <<"kv", dma.addr>>])
    /\ SelectionAlone

S_GWRITE == Ask("S_GWRITEWAIT") /\ SelectionAlone

S_GWRITEWAIT ==
    /\ Await(IF eng.gather_offset + 1 = kv THEN Goto("S_ADVANCE")
             ELSE [Goto("S_GREAD") EXCEPT !.gather_offset = @ + 1])
    /\ SelectionAlone

S_ADVANCE ==
    /\ eng' = IF eng.output_no + 1 = eng.result_count THEN Goto("S_FINISH")
              ELSE [Goto("S_OUTREQ") EXCEPT !.output_no = @ + 1]
    /\ SelectionAlone

S_FINISH ==
    /\ eng' = [Goto("S_IDLE") EXCEPT !.busy = FALSE, !.done_flag = TRUE,
                                     !.cache_valid = TRUE, !.saved = CacheKey]
    /\ SelectionAlone

S_ERROR ==
    /\ eng' = [Goto("S_IDLE") EXCEPT !.busy = FALSE, !.done_flag = FALSE,
                                     !.error_flag = TRUE, !.cache_valid = FALSE]
    /\ SelectionAlone

EngineStep ==
    \/ eng.es = "S_IDLE" /\ S_IDLE
    \/ eng.es = "S_START" /\ S_START
    \/ eng.es = "S_JOB" /\ S_JOB
    \/ eng.es = "S_QREQ" /\ S_QREQ
    \/ eng.es = "S_QWAIT" /\ S_QWAIT
    \/ eng.es = "S_QLOAD" /\ S_QLOAD
    \/ eng.es = "S_NEXT_KEY" /\ S_NEXT_KEY
    \/ eng.es = "S_CREQ" /\ S_CREQ
    \/ eng.es = "S_CWAIT" /\ S_CWAIT
    \/ eng.es = "S_CSELECT" /\ S_CSELECT
    \/ eng.es = "S_KREQ" /\ S_KREQ
    \/ eng.es = "S_KWAIT" /\ S_KWAIT
    \/ eng.es = "S_KLOAD" /\ S_KLOAD
    \/ eng.es = "S_KEYSTART" /\ S_KEYSTART
    \/ eng.es = "S_KEYWAIT" /\ S_KEYWAIT
    \/ eng.es = "S_END" /\ S_END
    \/ eng.es = "S_RESULTS" /\ S_RESULTS
    \/ eng.es = "S_SORT_SIFT" /\ S_SORT_SIFT
    \/ eng.es = "S_SORT_TAKE" /\ S_SORT_TAKE
    \/ eng.es = "S_OUTREQ" /\ S_OUTREQ
    \/ eng.es = "S_OUTWAIT" /\ S_OUTWAIT
    \/ eng.es = "S_GREAD" /\ S_GREAD
    \/ eng.es = "S_GWAIT" /\ S_GWAIT
    \/ eng.es = "S_GWRITE" /\ S_GWRITE
    \/ eng.es = "S_GWRITEWAIT" /\ S_GWRITEWAIT
    \/ eng.es = "S_ADVANCE" /\ S_ADVANCE
    \/ eng.es = "S_FINISH" /\ S_FINISH
    \/ eng.es = "S_ERROR" /\ S_ERROR

-----------------------------------------------------------------------------
(* What the ghosts record                                                    *)

GhostInit ==
    /\ written = {}
    /\ scanned = [key |-> NoKey, kept |-> {}]

\* A line is written when the memory has acknowledged it; the record is kept
\* for the length of a job.
GhostStep ==
    /\ written' = IF eng.es \in {"S_START", "S_FINISH", "S_ERROR"} THEN {}
                  ELSE IF dma.state = "BRESP" /\ dma'.done /\ ~dma'.error
                  THEN written \cup {<<dma.addr, dma.data>>}
                  ELSE written
    /\ scanned' = IF eng.es = "S_START" /\ eng'.es = "S_JOB"
                  THEN [key |-> CacheKey, kept |-> {}]
                  ELSE IF eng.es = "S_END" THEN [scanned EXCEPT !.kept = core.kept]
                  ELSE scanned

-----------------------------------------------------------------------------
Init ==
    /\ RegsInit
    /\ DmaInit
    /\ EngineInit
    /\ CoreInit
    /\ GhostInit

\* A rising clock edge.
Tick ==
    /\ RegsStep(eng.busy)
    /\ DmaStep(Request, eng.es = "S_START")
    /\ EngineStep
    /\ CoreStep(CorePorts)
    /\ GhostStep

Spec == Init /\ [][Tick]_vars

\* The memory answers within this tick if it was asked.
MemoryAnswers == dma.state # "IDLE" => dma'.state # dma.state

\* The clock runs, and the memory never leaves a request unanswered for ever.
FairSpec == Spec /\ WF_vars(Tick /\ MemoryAnswers)

-----------------------------------------------------------------------------
(* Properties                                                                *)

\* No start or other command meets a running job: busy rises two edges after the
\* beat that starts a job is looked at, and no other beat may be complete before.
CommandsMeetIdle ==
    slave.start \/ slave.invalidate \/ slave.illegal =>
        eng.es = "S_IDLE" /\ ~eng.busy

\* Engine and DMA are in step: a request is made of an idle DMA, every state that
\* waits has exactly one request under way or just answered, and no answer is
\* left over when the engine goes elsewhere - after an error least of all.
Waiting == {"S_QWAIT", "S_CWAIT", "S_KWAIT", "S_OUTWAIT", "S_GWAIT", "S_GWRITEWAIT"}

DmaInStep ==
    IF eng.es \in Waiting THEN (dma.state # "IDLE") # dma.done
                          ELSE dma.state = "IDLE" /\ ~dma.done

\* The lines a job owes when its selection is in place.
Owed ==
    {<<obase + i, <<"result", selection[i]>>>> : i \in 0 .. eng.result_count - 1}
    \cup
    {<<gbase + i * kv + j, <<"kv", kvbase + selection[i] * kv + j>>>> :
        i \in 0 .. eng.result_count - 1, j \in 0 .. kv - 1}

Ascending(n) == \A i, j \in 0 .. n - 1 : i < j => selection[i] < selection[j]

\* interface.md: all result and gather writes have succeeded before DONE, the
\* results ascend, and nothing else was written.
DoneMeansWritten ==
    [][eng'.done_flag /\ ~eng.done_flag =>
          /\ written = Owed
          /\ dma.write_beats = Cardinality(written)
          /\ eng.result_count = out_count
          /\ Ascending(eng.result_count)]_vars

\* Writes stay inside the output regions and away from every input, the register
\* window and everything outside the aperture, even in a job that fails: the
\* regions of a job that starts are separate, pair by pair, and no counter passes
\* their ends.
InputsUntouched ==
    \A w \in written :
        /\ LineOk(w[1])
        /\ w[1] \in obase .. (obase + out_count - 1) \union gbase .. (gbase + glines - 1)
        /\ w[1] \notin qbase .. (qbase + qlines - 1)
        /\ w[1] \notin kbase .. (kbase + klines - 1)
        /\ kv # 0 => w[1] \notin kvbase .. (kvbase + vlines - 1)
        /\ mode = REINDEX => w[1] \notin cbase .. (cbase + clines - 1)

\* interface.md: REUSE serves only a selection computed under the same context,
\* epoch, counts, heads and bases.  While the cache is valid it holds exactly the
\* keys the core kept in the scan made under the saved parameters, in ascending
\* order, whatever jobs failed, were refused or reused it since.
CacheIsSelection ==
    eng.cache_valid =>
        /\ eng.saved = scanned.key
        /\ {selection[i] : i \in 0 .. eng.result_count - 1} = scanned.kept
        /\ Cardinality(scanned.kept) = eng.result_count
        /\ Ascending(eng.result_count)

\* A job ends: whatever errors, malformed answers or delays it meets, busy falls.
JobEnds == eng.busy ~> ~eng.busy
=============================================================================
