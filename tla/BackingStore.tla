---------------------------- MODULE BackingStore ----------------------------
(***************************************************************************)
(* Where a memory image keeps its lines (mem_sim/src/core/                    *)
(* memory_backend.cpp): a map in memory, mapped sparse files, or files behind *)
(* a cache of chunks.  A store is one record; a call passes through a         *)
(* sequence of stores, its trail, and a process that ends inside a call       *)
(* leaves the files as one of them has them.                                  *)
(* A line is its bytes, its mask of initialized bytes and its metadata, three  *)
(* files that are written one after the other.                                *)
(***************************************************************************)
EXTENDS Naturals, FiniteSets, FiniteSetsExt, SequencesExt

(* The ECC shadow of a line (mem_sim/src/core/data.cpp): Hamming check bits and   *)
(* one overall bit, kept beside the payload and recomputed on a read.  A line's  *)
(* bits are the set of the ones among them; check bits and code positions are     *)
(* sets of powers, so that the code's xor is a symmetric difference.             *)

CONSTANT NBits \* data bits of a line

ASSUME NBitsAssumption == NBits \in Nat \ {0}

Bits == 0 .. NBits - 1

Xor(S, T) == (S \ T) \cup (T \ S)
Odd(S) == Cardinality(S) % 2 = 1

\* parity_bits_for_data_bits
ParityBits == CHOOSE p \in 1 .. NBits + 2 :
                /\ 2 ^ p >= NBits + p + 1
                /\ \A q \in 1 .. p - 1 : 2 ^ q < NBits + q + 1

\* The powers of two in a number.
PowersOf(n) == {p \in 0 .. ParityBits - 1 : (n \div 2 ^ p) % 2 = 1}

\* code_position_for_data_bit: the positions that are no power of two, in order.
CodePosition(bit) ==
    CHOOSE n \in 1 .. 2 ^ ParityBits :
        /\ Cardinality(PowersOf(n)) > 1
        /\ Cardinality({m \in 1 .. n - 1 : Cardinality(PowersOf(m)) > 1}) = bit

CodeOf == [bit \in Bits |-> PowersOf(CodePosition(bit))]

\* compute_secded_shadow: the overall bit covers the data and the check bits.
HammingOf(ones) == {p \in 0 .. ParityBits - 1 : Odd({b \in ones : p \in CodeOf[b]})}
ShadowOf(ones) == [hamming |-> HammingOf(ones),
                   overall |-> Odd(ones) # Odd(HammingOf(ones))]

\* check_ecc_shadow, the verdict: what is wrong with these bits, and which of them.
Clean == [kind |-> "clean"]
CheckBits == [kind |-> "check bits"]
Bad == [kind |-> "uncorrectable"]
BitError(bit) == [kind |-> "bit", bit |-> bit]

Verdict(ones, shadow) ==
    LET now == ShadowOf(ones)
        syndrome == Xor(shadow.hamming, now.hamming)
        overall == shadow.overall # now.overall
        named == {b \in Bits : CodeOf[b] = syndrome}
    IN  CASE syndrome = {} /\ ~overall -> Clean
          [] syndrome = {} /\ overall -> CheckBits
          [] syndrome # {} /\ ~overall -> Bad
          [] Cardinality(syndrome) = 1 /\ overall -> CheckBits
          [] OTHER -> IF named = {} THEN Bad ELSE BitError(CHOOSE b \in named : TRUE)

-----------------------------------------------------------------------------
(* The stores. *)

CONSTANTS
    NLines,        \* lines of the memory
    ChunkLines,    \* lines of a chunk
    CacheLimit,    \* chunks the cache holds
    CounterRange   \* values of a line counter

ASSUME StoreAssumption ==
    /\ {NLines, ChunkLines, CacheLimit} \subseteq Nat \ {0}
    /\ CounterRange \in Nat /\ CounterRange > NLines

Kinds == {"sparse", "mmap_sparse", "chunk_file"}
Lines == 0 .. NLines - 1
\* The metadata header: before the files exist, between their creation and the
\* header's write, and with the counters of the last flush.
NoFiles == [is |-> "no files"]
Blank == [is |-> "blank"]
Header(lines, written) == [is |-> "written", lines |-> lines, written |-> written]

\* A metadata record: the last write's number, the ECC shadow and what a check
\* made of it.
\* Files begin with zeros.
NoMeta == [version |-> 0, shadow |-> ShadowOf({}), valid |-> FALSE, bad |-> FALSE]
ZeroLine == [bytes |-> {}, init |-> {}, meta |-> NoMeta]
Absent == [is |-> "absent"]

NoCache == [l \in {} |-> ZeroLine]

\* The files, and the process's counters and cache: order lists the cached
\* chunks, the one used longest ago first.
EmptyStore == [bytes   |-> [l \in Lines |-> {}],
               init    |-> [l \in Lines |-> {}],
               meta    |-> [l \in Lines |-> NoMeta],
               present |-> {}, written |-> {}, header |-> NoFiles,
               lines |-> 0, unique |-> 0,
               cached |-> NoCache, order |-> <<>>, dirty |-> {}]

ChunkOf(l) == l \div ChunkLines
LinesIn(c) == {l \in Lines : ChunkOf(l) = c}

OnFiles(s, l) == [bytes |-> s.bytes[l], init |-> s.init[l], meta |-> s.meta[l]]

\* load, the line it returns.
Load(s, l) ==
    IF l \notin s.present THEN Absent
    ELSE IF l \in DOMAIN s.cached THEN s.cached[l] ELSE OnFiles(s, l)

-----------------------------------------------------------------------------
\* The steps of a call, and what each does to the store.

Put(part, at) == [do |-> "put", part |-> part, at |-> at]
Cleaned(c) == [do |-> "cleaned", chunk |-> c]
Used(c) == [do |-> "used", chunk |-> c]
Kept(l, v) == [do |-> "kept", line |-> l, value |-> v]
Marked(l) == [do |-> "marked", line |-> l]
Counted(l, v) == [do |-> "counted", line |-> l, written |-> v.meta.version > 0]
Saved(h) == [do |-> "saved", header |-> h]

\* A system call that may fail: the mapped files are written by plain stores.
MayFail(kind, step) == kind = "chunk_file" /\ step.do \in {"put", "saved"}

IsFull(s) == Len(s.order) >= CacheLimit

\* ensure_chunk, once the victim is written: the chunk comes from the files and
\* becomes the one used last.
Use(s, c) ==
    IF c \in ToSet(s.order)
    THEN [s EXCEPT !.order = Append(SelectSeq(@, LAMBDA d : d # c), c)]
    ELSE LET out == IF IsFull(s) THEN LinesIn(Head(s.order)) ELSE {}
             staying == DOMAIN s.cached \ out
         IN  [s EXCEPT !.order = Append(IF IsFull(s) THEN Tail(@) ELSE @, c),
                       !.cached = [l \in staying \cup LinesIn(c) |->
                                     IF l \in staying THEN @[l] ELSE OnFiles(s, l)]]

\* The presence bit and the count of lines.
Mark(s, l) ==
    IF l \in s.present THEN s
    ELSE [s EXCEPT !.present = @ \cup {l}, !.lines = (@ + 1) % CounterRange]

\* The bit of a line that holds written data, and their count.
Count(s, l, written) ==
    CASE written /\ l \notin s.written ->
            [s EXCEPT !.written = @ \cup {l}, !.unique = (@ + 1) % CounterRange]
      [] ~written /\ l \in s.written ->
            [s EXCEPT !.written = @ \ {l}, !.unique = (@ + CounterRange - 1) % CounterRange]
      [] OTHER -> s

Taken(s, step) ==
    CASE step.do = "put" ->
            [s EXCEPT ![step.part] =
                [l \in Lines |-> IF l \in DOMAIN step.at THEN step.at[l] ELSE @[l]]]
      [] step.do = "cleaned" -> [s EXCEPT !.dirty = @ \ {step.chunk}]
      [] step.do = "used" -> Use(s, step.chunk)
      [] step.do = "kept" ->
            [s EXCEPT !.cached[step.line] = step.value,
                      !.dirty = @ \cup {ChunkOf(step.line)}]
      [] step.do = "marked" -> Mark(s, step.line)
      [] step.do = "counted" -> Count(s, step.line, step.written)
      [] step.do = "saved" -> [s EXCEPT !.header = step.header]

\* A line's parts go to the files in this order.
PutLines(values) ==
    LET part(p) == Put(p, [l \in DOMAIN values |-> values[l][p]])
    IN  <<part("bytes"), part("init"), part("meta")>>

\* write_chunk: a clean chunk is not written.
WriteChunk(s, c) ==
    IF c \notin s.dirty THEN <<>>
    ELSE PutLines([l \in LinesIn(c) |-> s.cached[l]]) \o <<Cleaned(c)>>

\* A slip: the victim is dropped without being written.
EnsureChunkDropped(s, c) == <<Used(c)>>

\* ensure_chunk: a full cache writes its victim first.
EnsureChunk(s, c) ==
    (IF c \notin ToSet(s.order) /\ IsFull(s) THEN WriteChunk(s, Head(s.order)) ELSE <<>>)
        \o <<Used(c)>>

LoadSteps(kind, s, l) ==
    IF kind = "chunk_file" /\ l \in s.present THEN EnsureChunk(s, ChunkOf(l)) ELSE <<>>

\* store: the cached copy, or the files; then the bits and the counters.
StoreSteps(kind, s, l, v) ==
    (IF kind = "chunk_file" THEN EnsureChunk(s, ChunkOf(l)) \o <<Kept(l, v)>>
                            ELSE PutLines([k \in {l} |-> v]))
        \o <<Marked(l), Counted(l, v)>>

\* A slip: the counters are swapped in the header.
FlushStepsSwapped(kind, s) ==
    IF kind = "sparse" THEN <<>>
    ELSE FlattenSeq([i \in DOMAIN s.order |-> WriteChunk(s, s.order[i])])
            \o <<Saved(Header(s.unique, s.lines))>>

\* flush: every chunk, then the header with the counters.
FlushSteps(kind, s) ==
    IF kind = "sparse" THEN <<>>
    ELSE FlattenSeq([i \in DOMAIN s.order |-> WriteChunk(s, s.order[i])])
            \o <<Saved(Header(s.lines, s.unique))>>

\* The calls of the interface.
LoadLine(l) == [do |-> "load", line |-> l]
StoreLine(l, v) == [do |-> "store", line |-> l, value |-> v]
Flush == [do |-> "flush"]

StepsOf(kind, s, call) ==
    CASE call.do = "load" -> LoadSteps(kind, s, call.line)
      [] call.do = "store" -> StoreSteps(kind, s, call.line, call.value)
      [] call.do = "flush" -> FlushSteps(kind, s)

\* The stores that calls pass through, each with the verdict whether the step
\* that led to it might have failed instead.
Follow(kind, trail, steps) ==
    FoldLeft(LAMBDA t, step : Append(t, [store |-> Taken(Last(t).store, step),
                                         mayFail |-> MayFail(kind, step)]),
             trail, steps)
Trail(kind, s, calls) ==
    FoldLeft(LAMBDA t, call : Follow(kind, t, StepsOf(kind, Last(t).store, call)),
             <<[store |-> s, mayFail |-> FALSE]>>, calls)
Done(kind, s, calls) == Last(Trail(kind, s, calls)).store

\* Where a call that fails stops.
FailedAt(trail) ==
    {trail[n].store : n \in {m \in 1 .. Len(trail) - 1 : trail[m + 1].mayFail}}

-----------------------------------------------------------------------------
\* Opening and closing.

\* What the end of the process leaves of a store.
LeftBy(kind, s) ==
    IF kind = "sparse" THEN EmptyStore
    ELSE [s EXCEPT !.lines = 0, !.unique = 0, !.cached = NoCache,
                   !.order = <<>>, !.dirty = {}]

\* The constructors make the files, with room for the header, and then write it.
Created(s) == [s EXCEPT !.header = Blank]
Opening(kind, s) ==
    IF kind # "sparse" /\ s.header = NoFiles
    THEN Follow(kind, <<[store |-> s, mayFail |-> FALSE], [store |-> Created(s), mayFail |-> FALSE]>>,
                <<Saved(Header(0, 0))>>)
    ELSE <<[store |-> s, mayFail |-> FALSE]>>

\* initialize_or_validate_header
Refused(s) ==
    \/ s.header = Blank
    \/ /\ s.header # NoFiles
       /\ s.header.lines > NLines \/ s.header.written > s.header.lines
Opened(kind, s) ==
    IF kind = "sparse" THEN s
    ELSE [s EXCEPT !.lines = s.header.lines, !.unique = s.header.written]
=============================================================================
