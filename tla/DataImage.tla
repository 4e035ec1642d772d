------------------------------ MODULE DataImage ------------------------------
(***************************************************************************)
(* The memory image (mem_sim/src/core/data.cpp) and the life of the process   *)
(* around it: payload lines with masks and ECC shadows, in front of them the  *)
(* row buffer of a bank, behind them the backing store; checkpoints written   *)
(* when a run ends and read when another starts.  The process may be killed   *)
(* inside any operation, and a system call may fail.                          *)
(* A byte is one bit: what masks, flips and check bits tell apart.             *)
(***************************************************************************)
EXTENDS BackingStore

CONSTANTS
    RowOf,       \* the row of a line in the bank, at least 1
    Writes,      \* the writes a run may make: [line, data], data the bytes it sets
    Period,      \* every Period-th write gets an injected bit error, 0 for none
    WriteMax,    \* writes of a run
    FaultMax,    \* runs that are killed or end because a system call fails
    RunMax       \* runs

ASSUME ImageAssumption ==
    /\ RowOf \in [Lines -> Nat \ {0}]
    /\ Period \in Nat
    /\ \A w \in Writes : w.line \in Lines /\ DOMAIN w.data \subseteq Bits

VARIABLES
    kind,        \* the backing store chosen
    mode,        \* "closed", "running", "finished" or "refused"
    store,       \* the backing store
    row,         \* the bank's row buffer: open row, dirty, loaded lines
    version,     \* next_version_
    checkpoint,  \* the dump in the file system
    \* what happened, for the properties and the bounds
    mem,         \* contents as the completed writes made them
    shot,        \* mem when the dump was made
    wild,        \* lines mem says nothing of
    wildShot,
    safe,        \* lines not stored to since the files were last complete
    damaged,     \* a run was killed, or could not write its files at its end
    faults, runs

imageVars == <<store, row, version>>
ghosts == <<mem, shot, wild, wildShot, safe, damaged>>
vars == <<kind, mode, imageVars, checkpoint, ghosts, faults, runs>>

NoRow == 0
NoLoaded == [l \in {} |-> ZeroLine]
Closed == [open |-> NoRow, dirty |-> FALSE, lines |-> NoLoaded]

NoDump == [l \in {} |-> ZeroLine]
ZeroMem == [l \in Lines |-> [bytes |-> {}, init |-> {}]]

Init ==
    /\ kind \in Kinds
    /\ mode = "closed"
    /\ store = EmptyStore
    /\ row = Closed
    /\ version = 1
    /\ checkpoint = NoDump
    /\ mem = ZeroMem /\ shot = ZeroMem
    /\ wild = {} /\ wildShot = {}
    /\ safe = Lines
    /\ damaged = FALSE
    /\ faults = 0 /\ runs = 0

-----------------------------------------------------------------------------
\* Lines, masks and the shadow.

\* load_backend_line, or the line make_line makes when nothing is stored.
Backing(l) == IF Load(store, l) = Absent THEN ZeroLine ELSE Load(store, l)

InRow(l) == row.open = RowOf[l]

\* row_buffer_block: a line of the open row is loaded when it is touched.
Block(l) == IF InRow(l) /\ l \in DOMAIN row.lines THEN row.lines[l] ELSE Backing(l)

Touched(l, block) ==
    [row EXCEPT !.lines = [k \in DOMAIN @ \cup {l} |-> IF k = l THEN block ELSE @[k]]]

Masked(old, data) == {b \in Bits : IF b \in DOMAIN data THEN data[b] = 1 ELSE b \in old}

\* refresh_ecc_shadow
Shadowed(block) ==
    [block EXCEPT !.meta.shadow = ShadowOf(block.bytes), !.meta.valid = TRUE, !.meta.bad = FALSE]

\* maybe_inject_ecc_error: it flips the first bit, after the shadow was taken.
Injected(block) ==
    IF Period # 0 /\ block.meta.version # 0 /\ block.meta.version % Period = 0
    THEN [block EXCEPT !.bytes = Xor(@, {0})] ELSE block

\* check_ecc_shadow
Checked(block) ==
    LET v == Verdict(block.bytes, block.meta.shadow)
    IN  CASE ~block.meta.valid \/ v = Clean -> block
          [] v = CheckBits -> [block EXCEPT !.meta.shadow = ShadowOf(block.bytes)]
          [] v = Bad -> [block EXCEPT !.meta.bad = TRUE]
          [] OTHER -> Shadowed([block EXCEPT !.bytes = Xor(@, {v.bit})])

\* The bytes of a write go into the line, which gets a version, a shadow over
\* all its bytes and perhaps an injected error.
WrittenTo(block, data, v) ==
    Injected(Shadowed(
        IF DOMAIN data = {} THEN block
        ELSE [bytes |-> Masked(block.bytes, data),
              init  |-> block.init \cup DOMAIN data,
              meta  |-> [block.meta EXCEPT !.version = v]]))

-----------------------------------------------------------------------------
\* The calls of an operation.

\* write: into the open row, where a new line is allocated at once and the bytes
\* are stored when the row closes; or past the row buffer.
WriteCalls(l, block) ==
    IF ~InRow(l) THEN <<LoadLine(l), StoreLine(l, block)>>
    ELSE IF Load(store, l) = Absent THEN <<LoadLine(l), StoreLine(l, ZeroLine)>>
    ELSE <<LoadLine(l)>>

\* read: a correction is stored when it was not made in the row buffer.
ReadCalls(l) ==
    IF InRow(l) THEN IF l \in DOMAIN row.lines THEN <<>> ELSE <<LoadLine(l)>>
    ELSE IF Checked(Backing(l)) = Backing(l) THEN <<LoadLine(l)>>
    ELSE <<LoadLine(l), StoreLine(l, Checked(Backing(l)))>>

InOrder(S) == SetToSortSeq(S, <)

\* The stores of writeback_row_buffer and flush_dirty_row_buffers.
WriteBack ==
    IF ~row.dirty THEN <<>>
    ELSE LET loaded == InOrder(DOMAIN row.lines)
         IN  [i \in DOMAIN loaded |-> StoreLine(loaded[i], row.lines[loaded[i]])]

StoredBy(calls) == {c.line : c \in {d \in ToSet(calls) : d.do = "store"}}

-----------------------------------------------------------------------------
\* The operations of a run.  Each makes its calls, or is interrupted in them.

\* The lines whose contents only the row buffer holds.
Unsaved == IF row.dirty THEN DOMAIN row.lines ELSE {}

\* The process is gone: mem no longer speaks of the lines that were lost.
Gone(left, lost) ==
    /\ mode' = "closed"
    /\ store' = LeftBy(kind, left)
    /\ row' = Closed
    /\ version' = 1
    /\ IF kind = "sparse" THEN mem' = ZeroMem /\ wild' = {}
                          ELSE mem' = mem /\ wild' = wild \cup lost
    /\ safe' = Lines
    /\ UNCHANGED <<kind, runs>>

\* Killed inside the calls: any line stored to since the files were last
\* complete may be torn.
Killed(calls) ==
    /\ faults < FaultMax /\ faults' = faults + 1
    /\ \E n \in DOMAIN Trail(kind, store, calls) :
            Gone(Trail(kind, store, calls)[n].store,
                 (Lines \ safe) \cup StoredBy(calls))
    /\ damaged' = TRUE

\* The destructors of image and store each flush, and swallow what fails.
Ends(s) ==
    LET broken(t) == FailedAt(Trail(kind, t, <<Flush>>))
    IN  {[store |-> Done(kind, s, <<Flush, Flush>>), failed |-> 0]}
          \cup {[store |-> Done(kind, t, <<Flush>>), failed |-> 1] : t \in broken(s)}
          \cup {[store |-> t, failed |-> 2] : t \in UNION {broken(u) : u \in broken(s)}}

\* An exception: the rest of the operation is not done, open rows are dropped.
Failed(calls, lost) ==
    \E s \in FailedAt(Trail(kind, store, calls)) : \E end \in Ends(s) :
        /\ faults < FaultMax /\ faults' = faults + 1
        /\ Gone(end.store, Unsaved \cup lost
                             \cup IF end.failed = 2 THEN (Lines \ safe) \cup StoredBy(calls) ELSE {})
        /\ damaged' = (damaged \/ end.failed = 2)

Interrupted(calls, lost) ==
    /\ Killed(calls) \/ Failed(calls, lost)
    /\ UNCHANGED <<checkpoint, shot, wildShot>>

Made(calls) ==
    /\ store' = Done(kind, store, calls)
    /\ UNCHANGED <<kind, checkpoint, shot, wildShot, damaged, faults, runs>>

\* A write that covers a whole line makes its contents known again; one that
\* keeps a byte which is wrong makes the error look right.
Known(l, data) ==
    LET keeps == Bits \ DOMAIN data
        spoilt == Block(l).bytes \cap keeps # mem[l].bytes \cap keeps
    IN  CASE spoilt -> FALSE [] keeps = {} -> TRUE [] OTHER -> l \notin wild

Remembered(m, l, data) ==
    [m EXCEPT ![l] = [bytes |-> Masked(@.bytes, data), init |-> @.init \cup DOMAIN data]]

Write(w) ==
    LET l == w.line
        block == WrittenTo(Block(l), w.data, version)
        calls == WriteCalls(l, block)
    IN  /\ mode = "running" /\ version <= WriteMax
        /\ \/ /\ Made(calls)
              /\ row' = IF ~InRow(l) THEN row
                        ELSE [Touched(l, block) EXCEPT !.dirty = @ \/ DOMAIN w.data # {}]
              /\ version' = IF DOMAIN w.data = {} THEN version ELSE version + 1
              /\ mem' = Remembered(mem, l, w.data)
              /\ wild' = IF Known(l, w.data) THEN wild \ {l} ELSE wild \cup {l}
              /\ safe' = safe \ {l}
              /\ UNCHANGED mode
           \/ Interrupted(calls, {})

Read(l) ==
    /\ mode = "running"
    /\ \/ /\ Made(ReadCalls(l))
          /\ row' = IF InRow(l) THEN Touched(l, Checked(Block(l))) ELSE row
          /\ safe' = safe \ StoredBy(ReadCalls(l))
          /\ UNCHANGED <<mode, version, mem, wild>>
       \/ Interrupted(ReadCalls(l), {})

\* activate_row: another open row is closed first.
Activate(r) ==
    /\ mode = "running" /\ row.open # r
    /\ \/ /\ Made(WriteBack)
          /\ row' = [Closed EXCEPT !.open = r]
          /\ safe' = safe \ StoredBy(WriteBack)
          /\ UNCHANGED <<mode, version, mem, wild>>
       \/ Interrupted(WriteBack, {})

\* precharge_bank, precharge_all
Precharge ==
    /\ mode = "running" /\ row.open # NoRow
    /\ \/ /\ Made(WriteBack)
          /\ row' = Closed
          /\ safe' = safe \ StoredBy(WriteBack)
          /\ UNCHANGED <<mode, version, mem, wild>>
       \/ Interrupted(WriteBack, {})

\* The end of a run, flush_dirty_row_buffers and flush_backend: rows stay open.
Finish ==
    LET calls == Append(WriteBack, Flush)
    IN  /\ mode = "running"
        /\ \/ /\ Made(calls)
              /\ mode' = "finished"
              /\ row' = [row EXCEPT !.dirty = FALSE]
              /\ safe' = Lines
              /\ UNCHANGED <<version, mem, wild>>
           \/ Interrupted(calls, {})

-----------------------------------------------------------------------------
\* Between runs.

\* Opening: the files are made, taken over, or refused.
Open ==
    LET trail == Opening(kind, store)
        s == Last(trail).store
    IN  /\ mode = "closed" /\ runs < RunMax
        /\ runs' = runs + 1
        /\ \/ /\ IF kind # "sparse" /\ Refused(s)
                 THEN mode' = "refused" /\ store' = s
                 ELSE mode' = "opened" /\ store' = Opened(kind, s)
              /\ UNCHANGED <<damaged, faults>>
           \/ /\ faults < FaultMax /\ faults' = faults + 1
              /\ \E n \in DOMAIN trail : store' = trail[n].store
              /\ damaged' = TRUE
              /\ UNCHANGED mode
           \/ /\ faults < FaultMax /\ faults' = faults + 1
              /\ store' \in FailedAt(trail)
              /\ damaged' = TRUE
              /\ UNCHANGED mode
        /\ UNCHANGED <<kind, row, version, checkpoint, mem, shot, wild, wildShot, safe>>

\* The program's start: without an input image, or with the dump of an earlier
\* run, which is read into an image of its own and written line by line.
Start ==
    /\ mode = "opened" /\ mode' = "running"
    /\ UNCHANGED <<kind, imageVars, checkpoint, ghosts, faults, runs>>

\* load_text, load_binary: a line of the input, unwritten and with a fresh shadow.
Loaded(d, l) == Shadowed([bytes |-> d[l].bytes, init |-> d[l].init, meta |-> NoMeta])

\* The write it becomes: what a read of the input's image returns, under its mask.
DataOf(d, l) ==
    LET found == Checked(Loaded(d, l))
    IN  [b \in found.init |-> IF b \in found.bytes THEN 1 ELSE 0]

StartFromDump ==
    LET lines == InOrder(DOMAIN checkpoint)
        data(l) == DataOf(checkpoint, l)
        number(i) == version + Cardinality({j \in 1 .. i - 1 : DOMAIN data(lines[j]) # {}})
        block(i) == WrittenTo(Backing(lines[i]), data(lines[i]), number(i))
        calls == FlattenSeq([i \in DOMAIN lines |-> WriteCalls(lines[i], block(i))])
        right == {l \in DOMAIN checkpoint : l \notin wildShot /\ Known(l, data(l))}
    IN  /\ mode = "opened" /\ checkpoint # NoDump
        /\ \/ /\ Made(calls)
              /\ mode' = "running"
              /\ version' = number(Len(lines) + 1)
              /\ mem' = [l \in Lines |->
                            IF l \in DOMAIN checkpoint
                            THEN Remembered(mem, l, DataOf(shot, l))[l] ELSE mem[l]]
              /\ wild' = (wild \cup DOMAIN checkpoint) \ right
              /\ safe' = safe \ DOMAIN checkpoint
              /\ UNCHANGED row
           \/ Interrupted(calls, DOMAIN checkpoint)

\* dump_text, dump_csv, dump_binary: the stored lines in order of address, bytes
\* and masks as the store has them.
Dumped(lines) == [l \in ToSet(lines) |-> [bytes |-> Load(store, l).bytes,
                                          init |-> Load(store, l).init]]

\* A process killed in it leaves the first lines.
Dump ==
    LET lines == InOrder(store.present)
        calls == [i \in DOMAIN lines |-> LoadLine(lines[i])]
    IN  /\ mode = "finished"
        /\ shot' = mem
        /\ wildShot' = wild \cup {l \in store.present : Load(store, l).bytes # mem[l].bytes}
        /\ \/ /\ store' = Done(kind, store, calls)
              /\ checkpoint' = Dumped(lines)
              /\ UNCHANGED <<kind, mode, row, version, mem, wild, safe, damaged, faults, runs>>
           \/ /\ Killed(calls)
              /\ \E n \in 0 .. Len(lines) : checkpoint' = Dumped(SubSeq(lines, 1, n))

\* The process ends: destructors flush once more.
Exit ==
    /\ mode = "finished"
    /\ \E end \in Ends(store) :
            /\ end.failed > 0 => faults < FaultMax
            /\ faults' = faults + IF end.failed > 0 THEN 1 ELSE 0
            /\ Gone(end.store, {})
    /\ UNCHANGED <<checkpoint, shot, wildShot, damaged>>

Next == \/ \E w \in Writes : Write(w)
        \/ \E l \in Lines : Read(l) \/ Activate(RowOf[l])
        \/ Precharge \/ Finish
        \/ Open \/ Start \/ StartFromDump \/ Dump \/ Exit

Spec == Init /\ [][Next]_vars

-----------------------------------------------------------------------------
\* Every variable holds a value of its kind.
TypeOK ==
    /\ kind \in Kinds
    /\ mode \in {"closed", "opened", "running", "finished", "refused"}
    /\ store.present \subseteq Lines /\ store.written \subseteq store.present
    /\ row.open \in {NoRow} \cup {RowOf[l] : l \in Lines}
    /\ DOMAIN row.lines \subseteq {l \in Lines : RowOf[l] = row.open}
    /\ mem \in [Lines -> [bytes : SUBSET Bits, init : SUBSET Bits]]
    /\ wild \subseteq Lines /\ safe \subseteq Lines

ReadsWritten(l) ==
    LET found == Checked(Block(l))
    IN  found.bytes = mem[l].bytes /\ found.init = mem[l].init

\* A read finds the bytes and the mask that completed writes left: through the
\* row buffer, its write-back and the cache of chunks, after an injected error
\* was corrected, in a run over the files of an earlier one or over its dump,
\* and after a kill or a failed system call for every line that was not being
\* changed (MemoryImage::read, ChunkFileMemoryBackend::ensure_chunk, flush).
ReadsAreWritten ==
    mode \in {"opened", "running", "finished"} => \A l \in Lines \ wild : ReadsWritten(l)

\* Files are refused only if a run that used them was killed or failed in its
\* destructors: an exception in the middle of a run leaves them usable
\* (validate_header, validate_header_counters, ~ChunkFileMemoryBackend).
CleanFilesReopen == mode = "refused" => damaged
=============================================================================
