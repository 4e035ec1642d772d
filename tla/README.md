# A TLA+ verification of SparseGate over UCIe

The repository simulates a compute die (gem5 and Vortex) that reads and writes a
stacked memory over a UCIe link, with SparseGate, a top-k selection engine, on the
memory's side of the link.  This directory holds the specifications of its parts,
the TLC configurations that check them on small instances and the theorems that
TLAPS proves about them.

## 1. The system

A transaction travels through the parts in this order; the response travels back.

```
 Vortex command processor / gem5                        memory die
   AXI master                                             SparseGate RTL --+
     gem5_axi/axi_master.cc                                ^   registers    | DMA
       | AXI (AW W B AR R)                                 |                v
   Axi2Flit bridge  ->  UcieAouAdapter -> UcieLink -> AouTarget -> SparseGateBackend -> MemSimBackend
     packer, unpacker,    one register    two one-way    requests,     routes MMIO and        |
     credits, RP guard    each way        links, retry   tickets       DRAM traffic      MemorySystem
                                                                                              |
                                                                          controllers -> PHY -> banks, image
```

| Component | State it keeps | Operations | What makes it correct |
|---|---|---|---|
| UCIe link (`ucie-model/src/ucie_link.h`) | sequence numbers, retry buffer, replay cursor; frames and feedback on the way; expected number, repeat counter | accept a flit, serialise, acknowledge, ask for a replay, replay, time out | every flit once and in order; nothing that may be needed again is erased; everything arrives |
| Behavioural PHY (`ucie_phy.h`) | random generators, CDR lock window | transmit, observe | numerical; to the link it damages a frame or not |
| AXI to flit bridge (`axi2flit/systemc/src`) | five channel threads with FIFOs per resource plane, the flit being packed, the message that spills over, credits, the ID guard | AW, W, AR, B, R handshakes; pack, flush, grant; unpack, route | no FIFO overflows; credits are conserved; every request is answered; responses with one ID keep their order |
| UCIe adapter (`integration/ucie_aou_adapter.h`) | one flit in each direction, a promise of readiness | take over a flit, hold a flit | each flit crosses once |
| AoU target (`integration/aou_target.h`) | request and data queues per plane, tickets, replies, spill | receive, collect, assemble, submit, transmit | capacity is never exceeded; data meet their own request; at most eight transactions are open |
| AXI master (`gem5_axi/axi_master.cc`) | packets split into segments, two queues of packets by direction, wires | transport, admit, split, drive, respond, functional access | each packet is answered once, when all its segments are |
| AXI test memory, fabric (`axi_ram.cc`, `aou_backend.cc`) | accepted addresses, beats, answers; cursors of the fabric | one clock edge | a payload offered stays what it is until it is taken |
| Vortex device (`gem5_new/gem5int/src/dev/vortex`, `simx_online.patch`) | command processor as a coroutine, its DMA queue, accesses of the core by token | tick, access, retire, wake up | a command is retired when its accesses are answered; nobody sleeps while there is work |
| Traffic monitor (`gem5int/src/hettrace`) | IDs of packets on the way, answers not yet written | request, answer, flush | times do not go back; an ID is not begun twice |
| SparseGate backend (`gem5_axi/sparse_gate_backend.cc`) | queue of host requests, active groups, tickets by memory tag, a register access, the DMA's address and data, pending answers | intake, route, memory return, register access, issue, deliver | an answer finds its owner once; the order of a group holds across registers and memory; host and DMA never wait for each other for good |
| mem_sim backend (`gem5_axi/memsim_backend.cc`) | bursts taken, granules submitted and answered | take a burst, submit one granule per memory period, collect, answer in order | bursts over the same lines keep their order |
| mem_sim memory system (`mem_sim/src/core/system.cpp`, `integration/online.cpp`) | ingress queue per stack, assemblies of host requests, answer queues, tags in use | submit, dispatch, collect, publish, pop | one line's accesses stay in order; an answer is whole, and published once; a tag is free when it is reused |
| Backing stores, image, ECC (`core/memory_backend.cpp`, `core/data.cpp`) | lines with masks, versions and check bits; mapped or chunked files behind a cache; row buffers; dumps | read, write, load a row, write back, evict, flush, reopen, dump | what is read is what was written; the counters agree; files are refused only after a kill or a failed end |
| Stack mapping (`mem_sim/src/core/addr_map.cpp`) | none | decode, encode | one address, one place |
| mem_sim controller (`mem_sim/src/controller/controller.cpp`) | read, write, priority and active queue, write buffer, write mode, completions, responses | enqueue, forward, coalesce, pick and issue a command, complete, respond | a read sees the writes accepted before it; a row is not closed under a request; everything drains |
| Refresh and RFM (`refresh.cpp`, `rfm.cpp`) | deadlines owed, credit, batches; activation counts, RFM asked for | tick, pending, issued | an obligation is neither lost nor exceeded |
| DRAM state and PHY (`dram/state.cpp`, `executor.cpp`, `dram/mem_phy.cpp`) | rows open or opening; FIFOs of the PHY; row buffers of the image | precharge, activate, access, refresh; accept, tick, complete; load, write back | a command meets a bank that is ready for it; closing a row loses nothing |
| SparseGate register slave (`rtl/sparse_gate_axi/sparse_gate_axi.sv:48-136`) | latched beats, drain flag, configuration, pulses | latch, commit, refuse, drain, answer | nothing is written while a job runs |
| SparseGate engine (same file, 138-388) | 27 states, counters, selection cache, status | one clock edge | DONE means written; REUSE serves only what was computed |
| SparseGate DMA (`sparse_gate_dma.sv`) | one request, sent flags, done and error | one clock edge | one request, one answer |
| Scoring core (`rtl/sparse_gate/sg_index_core.sv`) | job, loaded records, min-heap | one clock edge | the heap holds the best k |
| Command timing, state and issue (`dram/spec.cpp`, `controller/timing.cpp`, `executor.cpp`, `controller.cpp`) | gates, windows and counts per scope; the queues; low power, training, edges and buses | next command, check, issue, retire | no command breaks a rule of the standard; every request is served |
| Offline validator (`validation/validator.cpp`) | banks, gates and windows of its own | replay one command of a trace | it accepts what the controller issues |
| Scripts, evidence, paper | - | - | surroundings of the simulation |

What is hard here: the SystemC threads of the link interleave at every `wait`, and
the sender uses an iterator it obtained before one; frames are corrupted, replayed
and acknowledged out of step; the RTL's slave, engine, DMA and core see each other's
registers one edge late; credits circulate through two senders that also need
them; errors strike in the middle of jobs whose leftovers a later job may meet;
the host and the engine share one memory through queues that fill; in the controller
requests, refresh, RFM and row policy work on the same banks, and a line's newest data
may be in the write buffer, in the PHY, in a row buffer or in the backing store; a
process may end between the three files a chunk is written to; the command
processor, its DMA and the core of the Vortex device each sleep and count on another to
wake them.

## 2. The modules

The link.

| Module | Code | State and actions |
|---|---|---|
| `FlitStream` | what both ends of `ucie_link.h` promise | The flits written and handed out; `Write`, `HandOut`. |
| `UcieLink` | `ucie_link.h` (TxAdapter, RxAdapter, PhyChannel, feedback) | One variable per member (`next_seq`, `retry_buffer`, `replay_*`, `expected_seq`, `frames_since_nak`, ...) and one per FIFO. An action is what a thread does between two waits, so the sender's iterator lives across its wait in `sending`; the loop around the waits is `LoopTop`. |
| `UcieLinkProofs` | - | Theorems about `UcieLink` for all values of the constants. |

The bridge and its target.

| Module | Code | State and actions |
|---|---|---|
| `CreditManager` | `credit_manager.h` | Both counters as records and functions on them. |
| `CreditLoop` | - | What the credits promise: the abstract specification of the credit traffic, with the theorems about it. |
| `AouBridge` | `axi2flit/systemc/src`, `aou_types.h`, `stream_decoder.h`, `rp_order_guard.h`, `ucie_aou_adapter.h` | Messages of a number of granules, flits as lists of fragments, spilling and rejoining as operators; one action per thread and edge: `AcceptAw`, `AcceptW`, `AcceptAr`, `ChannelTick`, `PackerTick`, `SendFlit`, `UnpackerTick`. |
| `AouTarget` | `aou_target.h` | `TargetTick` is one edge of `run()`: receive, collect, assemble, submit, transmit, in this order. A failed `require()` is the flag `bad`. |
| `AouLoop` | `aou_backend.cc` wires them | Bridge, link FIFOs, target and memory. |

SparseGate.

| Module | Code | State and actions |
|---|---|---|
| `SgRegs` | `sparse_gate_axi.sv:74-124` | The write channels and the configuration; `RegsStep(busy)` is a clock edge. |
| `SgDma` | `sparse_gate_dma.sv` | `DmaStep(req, clear)` is a clock edge with an arbitrary memory. |
| `SgSort` | `sparse_gate_axi.sv:330-353` | `SortSift` and `SortTake` as functions of the selection and the sorter's registers; with lemmas: what a step of the sorter keeps, and that it ends in order. |
| `SgCore` | the core's ports as the engine sees them | The weakest core the engine must work with, and, closed by arbitrary inputs, the abstract specification of the core. |
| `SgIndexCore` | `rtl/sparse_gate/sg_index_core.sv` | Job, loading, one scoring action with any score or error, the heap entry by entry, result and done ports, reset. |
| `SgSelection` | the core with `sparse_gate_axi.sv:318-353` | `SgIndexCore` and behind it the engine's states that store its results and sort them. |
| `SparseGateAxi` | `sparse_gate_axi.sv:138-388` with the above | `Tick` is one clock edge of slave, engine, DMA and core together: they read each other's registers as before the edge. One operator per state of the engine. |
| `SparseGateProofs` | - | Theorems about `SparseGateAxi`: what each state of the engine does and how the parts keep step; then the job as a whole. |
| `SgSelectionProofs` | - | Theorems about `SgIndexCore` and `SgSelection`: the heap, the refinement of `SgCore`, the sorted selection. |

The memory die between the target and the memory.

| Module | Code | State and actions |
|---|---|---|
| `SgBackend` | `sparse_gate_backend.cc` | The adapter as one record, each stage of its clock edge (intake, return, register access, issue, delivery) as an operator on it, in the order of `run()`. |
| `MemsimBackend` | `memsim_backend.cc` | The bursts taken and their granules; the stages of one memory period. The memory behind it answers granules in any order. |
| `GatePath` | `aou_backend.cc` joins them | A host with one of four programs, the adapter, the engine's DMA, the bridge. `Clock` and `MemoryPeriod` are not in step. |
| `GatePathProofs` | - | Theorems about `GatePath`: each stage of an edge and of a period, the tickets, the order of the answers, coherence. |

mem_sim.

| Module | Code | State and actions |
|---|---|---|
| `LineMemory` | - | What a memory promises: accesses taken, effects in the order of a class, answers after effects. |
| `MemSystem` | `system.cpp`, `online.cpp`, `addr_map.cpp` | `Decode` and `Encode` for both mappings, `ChannelOf`; ingress queues, dispatch with both policies, aggregation, the answer queues in all three modes, tags; `TrySubmit`, `EagerStep`, `PopResponse`, `PopTransactionResponse`. The controllers are abstract. |
| `Maintenance` | `refresh.cpp`, `rfm.cpp` | Both managers as functions on their state. |
| `DramBanks` | `state.cpp`, `executor.cpp`, `row_policy.cpp`, the state conditions of `timing_ok` | Which command a bank allows and what a command does to banks, image and row policy. |
| `MemPhy` | `mem_phy.cpp`, the row buffers in `core/data.cpp` | The row buffers as the controller meets them: load, write, write back. Direct and behavioral PHY: what is accepted, FIFOs, effects on the image, completions. |
| `MemController` | `controller.cpp` | `Enqueue`, `PopResponse` and the stages of a tick: a PHY slot, a completion, the managers, a command per bus. |
| `MemControllerProofs`, `MemSystemProofs` | - | Theorems about `MemController`: types, rows, data; about `MemSystem`: the address map, the inductive invariant, the answers and tags, the refinement of `LineMemory`. |
| `CommandTiming` | `spec.cpp`, `timing.cpp`, `executor.cpp` | The rules of both families by scope, the gates and windows they set, and what a command does to them: ticks left until a gate is open. |
| `TraceValidator` | `validator.cpp` | `Replay` of one event on banks, gates and windows of its own; what it reports. |
| `CommandEngine` | `controller.cpp`, `state.cpp`, `scheduler.cpp`, `mem_phy.cpp` | Programs of requests, controls and maintenance; the next command of a request, its checks, both buses of HBM and the one of LPDDR, ACT2's deadline, CAS and WCK, low power. Each issued command goes to the validator. |

Storage.

| Module | Code | State and actions |
|---|---|---|
| `BackingStore` | `memory_backend.cpp`, the ECC shadow of `data.cpp` | Check bits and the overall bit of a line, as sets; what a check reports and repairs. A store is one record: the map in memory, the mapped file, or the cache of chunks with its three files and their header. A call passes through a sequence of stores, its trail, one for every system call. |
| `DataImage` | `data.cpp`, the run in `cli/main.cpp` | Reads, writes with injected errors, row buffers, flush, dump and load; a process that is killed at any point of a trail, or ends because a call fails, and is started again. |

The compute die.

| Module | Code | State and actions |
|---|---|---|
| `AxiBus` | `axi_master.cc`, `axi_ram.cc`, the AXI side of `aou_backend.cc` | The master as one record with its two queues and wires; `Edge` is one clock edge of master and slave, both reading the wires before it. |
| `VortexDevice` | `vortex_gpgpu_dev.cc`, `simx_online.patch` | The command processor's ticks between two yields, the DMA queue, the core's accesses, and every event that wakes one of them. |
| `HostPath` | `run_vortex.py` joins them; `het_axi_monitor.cc`, `writer.h` | A host and the device behind two monitors, gem5's bridge, the master and a slave. A monitor's writer has the IDs in use and the answers that lie in the future. |

The modules whose names begin with `MC` give the constants their values for TLC.

Definitions that no specification uses and that a comment calls a slip
(`BindOffByOne`, `PackReplyEarly`, ...) are plausible bugs.  Each stands before the
definition it would replace; the property named for it in `PROJECT.json` fails when
it does, which shows that the property depends on that piece of the code.

Refinements.

  - `UcieLink` implements `FlitStream`: the flits accepted and the flits handed out
    are the only thing the ports show, and the link is a FIFO between them.
    `AouLoop` relies on it: its link is two FIFOs of the length `LinkDepth`.
  - `SgIndexCore` implements the specification in `SgCore`, and `SparseGateAxi` is composed with
    `SgCore`: the composition is checked with every core that behaves at its ports
    as the specification allows, and the real one is one of them.  Run `core` checks the
    refinement, and it is proved.
  - `AouLoop` implements `CreditLoop`.  The mapping adds up, lane by lane, what the
    code keeps in ten places: both counters, the FIFOs, the flit being packed, the
    message half sent, the flits on the way, the message half received, the tickets
    and the spilled reply.
  - `MemSystem` implements `LineMemory`, the class of an access being its stack and
    line there: what `MemsimBackend` assumes of the memory behind `ss_mem_submit`.

## 3. What is checked

| Run | Instance | What it shows |
|---|---|---|
| `link` | numbers modulo 4, retry buffer 2, 6 flits, 2 damaged frames | Each flit once and in order; nothing that may be replayed is erased; the comparison of numbers modulo the sequence space is right; the stream is implemented; all flits arrive and the retry buffer drains. |
| `engine` | an aperture of 16 lines, 2 keys, k at most 2, all modes | Starts and register writes meet an idle engine; DMA and engine agree; the cache is a selection that was computed from the saved parameters; DONE means that exactly the lines owed were written, inside the regions and not over the inputs; a job always ends. |
| `core` | small jobs of 3 keys one after the other; a heap of 5 with 6 keys in every order | The heap holds the best keys of the present job only; what the engine stores of them is sorted before it is written; the ports behave as `SgCore` says. |
| `aou` | two programs: three writes of one ID on two planes; a write of 2 beats and a read of 3 | No capacity check of bridge or target fails; write data meet their request; answers out of order are reported; credits are conserved at every step; the target's count of open transactions is right; all transactions are answered. |
| `gate_path` | 3 host requests, one DMA access, queues of one entry, 2 of 3 tags in use | Every answer has its ticket; answers keep the order of a group; a read sees what was answered before it; host and DMA are answered. |
| `mem_system` | 2 stacks of 2 channels; 36 configurations | Nothing throws; answers are whole and in order; a tag is free when it is reused; `LineMemory` is implemented; everything is answered. |
| `mem_controller` | up to 3 requests to 2 banks, refresh and RFM, in 7 configurations | Rows stay open under a request; reads that reach the memory see the writes accepted before; the newest write stays; every refresh is counted; what is postponed stays within its limits; RFM is in time; everything drains. |
| `storage` | 3 lines of 2 bits in 2 chunks, a cache of one; 3 stores, 2 runs | What is read is what completed writes left, after a crash too for every line that was not being changed; a store that was closed well can be opened. |
| `host_path` | 12 scenarios of 2 to 6 accesses, a bus of 2 lanes | No assertion fails; the memory sees every access once and whole, reads are no older than what was answered; all work ends. |
| `command_engine` | 8 scenarios of HBM and LPDDR, latencies of a few clocks | The offline validator accepts every trace the controller issues; every request, control and refresh is served. |
| `mem_forward_stale` | the HBM configuration | The first finding of section 6. |
| `command_act2_missed` | LPDDR with closed pages, a write and two reads of one row | The second finding. |

### Bounds and why they are enough

  - Link.  The code has 256 numbers and a retry buffer of at most 127; what matters is
    the ratio.  With four numbers and a buffer of two the window is as
    tight as it may be, six flits wrap the space, and FIFOs of one or two entries
    fill, so every blocking wait happens.  Two damaged frames let a replay be damaged.
    `MaxInFlight`, `MaxFlits` and `MaxErrors` are bounds of the model.  The theorems
    hold for all values, so the instance matters for liveness only.
  - Engine.  One line per record and two candidates per line make each inner loop
    (lines of a record, candidates of a line, lines of the output) run or be skipped.
    Of the layouts the host may write, one is sound and one overlaps, so that jobs are
    accepted and refused.  Two keys, k of one and two, let the selection be full,
    and each of the three modes follows each other with and without an error
    between.  `Chosen` in `MCSparseGateAxi` leaves out combinations of these that take no other
    path: candidates with one result, and the overlapping layout outside full scans.
  - Heap and sorter.  The heap of five has entries with two children, with one and with
    none while it fills, and so has the sort behind it, which ends at every length
    from one to five.  Equal scores occur, and go to the smaller number.
    The large job of the run `core` comes alone, without errors and resets, which the small
    jobs (heap limits 0, 1, 2 and the refused 6) have between them.
  - AoU.  A flit of five granules and messages of one to four make messages spill over
    at every boundary.  A receive buffer has room for one or two messages, so credit
    runs out and must return; the write window of one message makes the data wait;
    an amount of 2 or 3 has no encoding (1, 4, 8, ... have), so a remainder stays
    pending.  `RequestSlots` = 1 and `MaxOutstanding` = 2 let slots run out.  The
    second program has one plane, so that the credit-only flit of the idle bridge is
    the only way the last credit can return.
  - Gate path.  Queues of one entry fill at every place where the code asks for room;
    two tags of three make the counter skip one in use; bursts of two lines interleave
    granules.  The programs write and read the same lines, mix groups, put a register
    access behind a burst of its group, and refuse accesses (locked, or outside the
    window) between accepted ones.
  - Memory system.  Each program has three or four host requests of up to three
    transactions, over both stacks and channels, with tags used again and classes of
    service against the order of arrival; both policies, both mappings and the three ways
    to take answers.  Ingress queues of two and answer queues of one fill.
  - Storage.  Two lines share a row and lie in different chunks, and the cache holds one
    chunk, so that an access to a row evicts; a whole and a partial write of two bits;
    every second write gets an error.  `FaultMax` = 1: one run is killed, or ends because a
    system call fails, at any step of any trail, and the next one finds its files.
  - Host path.  A bus of two lanes, pages of four bytes and a memory of six make packets of
    one to three segments, first and last beats with lanes off, and accesses past the end;
    two slots and two IDs make packets wait; three trace IDs wrap; `MaxNow` = 2 lets an
    atomic answer lie behind other packets.  `SplitAssumption` in `MCHostPath` checks the
    splitting of every packet.  Host and device together are one scenario of small
    programs, their product being large.
  - Controller.  Two cells per line tell partial writes apart, two rows of a bank make
    conflicts, and queues of two with watermarks of one switch between reading and
    writing.  Two refreshes may be postponed and one pulled in; RFM is asked for at the
    second activation.  `conf.requests` (3 for HBM, 2 or 1 for the others) and
    `conf.deadlines` bound the work.  The configurations are those that differ in control: two
    command buses and a behavioral PHY (HBM), one bus and activation in two steps, in
    order, with refresh per rank (LPDDR), a row cap, two ranks with one deadline and with three,
    and one rank with more deadlines than it may postpone: four, without a limit of the credit
    (`Postponing`) and with a limit of one (`CreditBound`).  A request may wait over all of them,
    so that in `Postponing` a rank postpones twice, waits between deadlines (`refresh.cpp:80-84`),
    reaches the limit and pays back; with its two requests work also ends and begins again.
    In `CreditBound` the limit of the credit comes first.  Of the code's two comparisons with
    the limit of postponements (67 and 82) one alone keeps the credit below it, since a rank at the limit
    pays back between deadlines; that is why `MaintenanceInTime` (in `PostponedWithinLimits`) bounds the count of
    postponements as well as the credit.

  - Command engine.  Latencies keep their usual order and are small, so that a request
    takes tens of ticks.  `HbmOpen` and `HbmClosed` have both buses, interleaved SIDs, two
    pseudo-channels, the start-up sequence, refresh of a rank and of a bank, RFM; `LpddrOpen`
    has REFDB and WCK windows that open, last and lapse; `LpddrBoot` and `LpddrFull` the two start-up
    sequences of the command line, with training and low power; `LpddrHasty` an ACT2 that must
    come in the tick after its ACT1; `PowerDown` and `Drowsy` low power asked for and of its own.
    `from` and `wait` of an item bound when it arrives: between them every tick is tried.

### Fairness

  - Link: weak fairness of sender, feedback thread, PHY, receiver and the reader of
    `fdi_out`.  The SystemC kernel runs every thread whose wait is over.  Offering flits
    is not fair, and the number of damaged frames is finite: with a channel that damages
    every frame nothing is delivered.
  - Engine: the clock runs, and the memory answers a request in the end.  It may
    still answer badly.  The host owes nothing.
  - Core, storage: none, they have no liveness property; runs of the storage end or are
    killed.  Of the core, the engine's liveness takes that it answers in the end.
  - AoU: weak fairness of each channel thread, packer, unpacker, adapter, target and
    the memory; the master offers each request it has and takes its answers.
  - Gate path: the host takes its answers; the adapter's clock runs, with an engine that
    brings both halves of an access and takes its answer; the memory's period runs, and the
    memory takes a granule and answers those it has.
  - Memory system: `run_source` offers, steps and pops in a loop, so each is fair;
    in the step that is fair the controllers take, serve and answer what they can.
  - Host path: some step that changes something happens.  gem5 runs every scheduled event;
    a clock edge that changes nothing is no step of the model, and every one that does is
    progress, so that no fairness of a single part is needed.  The ready wires are
    not high for ever or low for ever by assumption: the model leaves out only edges that
    do nothing.
  - Controller: the clock goes on, so some enabled stage of the tick or a pop happens.
    It is not said which: no latency and no timing gate is bounded.
  - Command engine: `FairSpec` lets the front end offer what is due, and lets ticks begin and
    come to their end; the loop of the command line does nothing else.  What a tick chooses is
    not fair: the scheduler is deterministic up to ties.

## 4. What is proved

TLAPS checks these for every value of the constants that satisfies the stated
assumption.

`UcieLinkProofs`, under `LinkAssumption`, whose essential part is
`RetrySize <= HalfSeq` (`require_valid_config`, `ucie_common.h:103`, refuses more than
127, half of the sequence space being 128):

  - `TypeCorrect`, `LinkInvariant`: `TypeOK` and `LinkInv` hold at every step.
  - `DeliveredInOrder`, `NothingForgotten`, `VerdictCorrect`, `LinkIsAStream`: each flit
    once and in order, every flit not handed out is in the retry buffer, the
    receiver's eight bits decide as the full number would, and the refinement
    of `FlitStream`.  `NothingForgotten` and `VerdictCorrect` follow from `LinkInv` and have
    no check of their own in the run.

The argument.  `InOrder` alone is not inductive: it must not happen that a frame so
old that its number has come round again is taken for the next one.  `LinkInv` adds four
parts.  `WindowInv`: the retry buffer is a contiguous window that ends at `next_seq` and
is at most `RetrySize` long.  `SendingInv`: the frame being serialised was in that window
and nothing has been accepted since.  `WireInv`: a frame on the wire is at most
`RetrySize` behind the expected number, and behind those that arrive before it; this
is what survives replays that interrupt replays.  `FeedbackInv`: only what was
handed out is acknowledged.  From `WireInv` and `DiffIsRight` (subtraction modulo
the sequence space) the receiver's verdict follows, and from the verdict
`InOrder`.  `DivMod` and `FactorOut` are the arithmetic that the solver does
not have.

`CreditLoop`, under `CapacitiesFit` (every capacity fits its counter):
`CreditConserved`, `BuffersNeverOverflow`, `CountersNeverSaturate`.  The invariant is
the type together with the sum of the five places of a lane; each step moves
granules from one to another, and since every place is at most the capacity the
saturating additions cut nothing off.  `AouLoop` states the same condition
about its own buffers as an assumption, which TLC evaluates, and the run
`aou` shows that its steps are steps of the abstract loop.

`MemSystemProofs`, under `StackAssumption` (no count, stripe or capacity is zero):
`EncodeDecode`, `DecodeEncode` and, from the first, `DecodeIsInjective`: two addresses
never share a place, whatever the number of stacks and the mapping.  The proof is
division with a remainder, twice for the interleaved mapping.

Of `MemSystem` itself, besides that under `DepthAssumption` (the ingress, the slots of a stack and a
controller's queue are positive: `system.cpp:261`, `controller.cpp:111` throw otherwise; the queues to the
host may be unbounded, which is 0; a controller without a bound on its answers is one with more
room than the program has transactions) and
`ProgramAssumption` (a host request has at least one transaction, as `split_host_request` makes
them, `traffic.cpp:386`, and its addresses are ones a stack has: `addr_map.cpp:51`, `59` and `71`
throw for others):

  - `NothingThrows` (`NeverFails`), `AnswersFindRequests` (`AnswersFindTheirRequests`) and `SystemIsMemory`
    (`ImplementsMemory`): what the run `mem_system` checks for 36 configurations holds for every
    number of stacks and channels, every depth, every program, both policies, the three modes, and
    whatever the controllers serve first.
  - They rest on `SystemInvariant`.  None of the properties is inductive: that a tag is free when it
    is offered again follows from which requests are live, which follows from what was collected,
    which is whatever is no longer in an ingress, a queue or among a controller's answers.  `SystemInv` says
    this: `Flow` relates the queues to the transactions taken (each is in one place, of one class
    the later is never ahead), and `Books` derives the notes, the answers begun and what can be
    popped from the set of those collected, so that a step is proved in two parts: where it moves
    a transaction, and what is written in the books.
  - The loops of a tick (`Dispatched`, `Collected`) are recursive functions over the slots.  `LoopExists`
    and `EveryTurn` say, by the least turn that would go wrong, that such a loop is defined and that every turn
    of it stays in a set; `DispatchedIs` and `CollectedIs` apply them to the states that keep `Flow` and
    `Books`.
  - The refinement maps each step to one of `LineMemory`: `SubmitRefines` to `Take`, `StepRefines` to
    `Effect` of what the tick served (closed in its class because `Flow` holds after it), `PopRefines`
    to `Answer` or, while an answer is popped for a view that does not count, to a stutter.
  - `MemoryKeepsOrder` says of what implements `LineMemory` that no access of a class has its effect
    before an earlier one and none is answered before its effect; `SystemKeepsOrder` is that, of the
    memory system.  It is what its users rely on.

### SparseGate

Three modules, which close a chain: the engine is proved correct with any
core that behaves as `SgCore` says, and the core of the repository is proved to do so.

`SgSort` (no assumption).  `SortInv` says of the sorter between two edges: the
places behind the heap hold the largest entries in ascending order; the places of the
heap satisfy the heap order, except below the entry that sinks (`HeapBut`), whose children
its parent already bounds; no entry is lost or doubled.  `SortBegins`, `SiftKeeps`, `TakeKeeps`
and `SortEnds` are the four facts that the engine's and the core's proofs cite.

`SparseGateProofs`, first part, under `ApertureAssumption`, `EngineAssumption` and `RegisterAssumption` (the
apertures are not empty, the limits of the RTL's parameters are positive, register fields
are numbers).  For each of the engine's states one lemma says what its edge may change.

  - `CommandsAlwaysMeetIdle`: a pulse of START, INVALIDATE or an illegal command finds the engine
    idle.
  - `DmaAlwaysInStep`: a state that waits has exactly one request under way or just
    answered, and no answer is left over elsewhere, whatever the memory answers and when.
  - `ControlInvariant`: `ControlInv`, which is both together with the type and `OneCommand`.
    `CommandsMeetIdle` alone is not inductive: the busy flag is a register, and
    a beat that is complete in the edge in which a job starts would become a command
    one edge later.  `OneCommand` excludes it: with a pulse out, no beat is latched.

Its second part, under the same assumptions: `JobInvariant`, and from it
`TypeCorrect`, `InputsAlwaysUntouched`, `CacheAlwaysIsSelection` and `DoneAlwaysMeansWritten`.
`JobInv` adds to `ControlInv` six parts, each because another cannot be kept without it.

  - `JobStands`: the layout that `S_START` has accepted and the parameters it has saved hold
    for the whole job, since registers are not written meanwhile; and a scan begins
    by giving up the cached selection.
  - `CoreInStep`: the core is where the engine believes it to be, with the key and limit
    the engine has given it.
  - `KeysCounted`: after n keys the core has kept min(n, k), all of them below `NextKey`.  Since
    keys ascend, none is named twice; so the core yields `out_count` results, neither more
    nor fewer, though the engine leaves `S_RESULTS` by its own count.
  - `SelectionGood`: results stored and results still in the core are the keys kept, then
    `SortInv` holds, then the selection is in order; and it stays so under `cache_valid`
    through failed jobs and INVALIDATE.
  - `WritesFollow`: what the DMA writes is the line the engine is at, and a gathered line is
    that of the key it belongs to.
  - `WrittenSoFar`: while no answer was bad, the lines written are those of the results so far and
    of the records gathered so far, and the counter of beats is their number.  At
    `S_FINISH` these are the lines owed and their number, which is `DoneMeansWritten`.

`SgSelectionProofs`, under `CoreAssumption` (limits are positive, keys and scores are numbers):

  - `HeapInvariant`: `HeapInv`.  `HeapIsTopK` speaks of a heap at rest and is not inductive: while
    an entry moves, one of the places holds a stale copy and the candidate is in none.
    `OnItsWay` is the heap with the candidate at `heap_pos`; of it `Updating` says that it
    holds the best entries, and that the heap order is broken at most above that place on
    the way up (`OrderUp`) and below it on the way down (`OrderDown`).
  - `HeapHoldsTopK`: the heap's places hold `TopK`.  `BestOf` (whatever is left out is worse than
    all that is kept) is what steps preserve; `BestIsTopK` shows that it is the same as the
    definition by counting that the model states.
  - `CoreImplementsSgCore`: `SgIndexCore` implements `SgCore`.  `KeepsOne` and `NumbersKept` give the one
    fact at issue: a key scored joins those kept, takes the place of one, or stays out.
    That the numbers of entries may stand for the entries rests on `KeysOnce`.
  - `SelectionSorted`: once the sorter has ended, the selection holds the numbers of the best
    entries in ascending order.  `SelectionInv` joins `HeapInv` and `SortInv` through `S_RESULTS`, where the entries
    of the heap leave it one by one.

`HeapInv`, `SelectionInv` and the parts of `JobInv` were model-checked on the instances of `core` and
`engine` before they were proved.

### The gate path

`GatePathProofs`, under `AdapterAssumption` (queue lengths, tags and FIFO depths are positive, and
there are no more tickets at a time than tags), `SlotsAssumption` (the bridge takes at least one
burst) and `PathAssumption` (the requests have the fields requests have, and a burst to the memory
has every line once: the code accepts INCR bursts only, `axi_request_error`, and cuts them at the
boundaries of the lines, `memsim_backend.cc:62-70`): `PathInvariant`, and from
it `TicketsAlwaysHold`.  `TicketsHold` alone is not inductive.  `PathInv` adds three things.

  - `PathType` types every queue by the accesses that were issued: what lies in it is the request,
    or an answer to the request, with the number it carries.  So an answer that is given its
    ticket's plane and ID (`OwnerFound`) has those of its request.
  - `Tagged`: the tags in the FIFO to the memory, in the bridge and in the FIFO back are
    distinct, and together exactly those with a ticket.  `FreeTagIsFree` shows that the
    search for a tag ends at one that no access carries, as long as `TagLimit` has room.
  - `DmaTurn`: the engine's one access is offered, half latched, requested, ticketed or answered, and
    in no two of these places.  Without it a second DMA request could take the place of one that is
    not issued yet, and `drsp`, which holds one answer, could be overwritten.

Each stage of an edge (`SlaveFlow`, `HostResponseFlow`, `MemoryReturnFlow`, `QueueHostFlow`,
`MemoryIssueFlow` and the two of the master) and each of a period (`TakenKeeps`, `PiecesKeep`,
`GivenKeeps`) keeps all of it, and `OwnedGrow` shows that issuing an access does not
disturb those before it.  `PathInv` was model-checked on the instance of `gate_path` first.

`AnswersInOrder` rests on a second inductive invariant, `OrderInv`, proved relative to `PathInv`
(`OrderInvariant`).  `AnsweredInOrder` speaks of answers alone, so it says nothing of the requests
behind them.  `OrderInv` follows each access from its request to its answer:

  - `InTurn`: the requests in `pending` and in the host's FIFO are the latest, in their order.
  - `Once` and `InOnePlace`: an access is waiting, held (in one of nine queues between its admission
    and its answer, and there once), leaving or answered, and never two of these.
  - `OneOfGroup`: the adapter's `groups` are exactly the groups of the host's requests that are held,
    and no two that are held have the same.  This is what `admissible` relies on.
  - `InGroupOrder`: a request that is held is the latest of its group that was admitted, and the
    answers on their way to the host come later in the group than those that arrived.
  - `EngineWaits`: the only access of the engine that is held is the one it waits for.

The queues are a function from places to sequences of access numbers, and a stage is one of four
moves: nothing changes (`QuietOrder`), the first of a queue becomes the last of another (`PassOrder`),
a request is admitted (`AdmitOrder`) or an answer leaves (`HostResponseOrder`,
`MasterAnswerOrder`).  `QueueMoves` and its parts say once what a move does to the accesses held,
and `OrderGrows` that issuing an access disturbs none of it.  `OrderInv` was model-checked on the
instance of `gate_path` and on a larger one first.

`AlwaysCoherent` rests on a third, `DataInv`, proved relative to the other two (`DataInvariant`).
`Coherent` compares turns: the turn of a write is its place in the history of the line, and a read has
seen a write when it got a turn that is not earlier.  Answers say too little to be inductive, since
what decides is when the pieces of a burst were submitted.  `DataInv` says of the bursts in the bridge,
and of all answers in the adapter's queues and at their owners:

  - `BurstSound`: a write has reached the lines up to its next piece and no others.  A read that is
    part of the way has the newest write of every line it has.
  - `OneByOne`: no burst behind one with pieces left is begun, so that at most one is part of the way.
    This is what the `break` of the loop in `MemSimBackend::run` is for (`memsim_backend.cc:75`).
  - `AllWhole`: a write whose burst is not part of the way has reached all its lines or none.
  - `ReadSound`: what a read got was written to that line, is not older than a write that was answered
    when the read was issued, and sees of any write to two of its lines both or neither.
  - `AnswerSound`: a write that was answered has reached its lines; what a read brought back is sound.
  - `WroteOnce`: a write is in the history of a line once, and is in the bridge or behind it.

The argument is in `SubmittedSound`.  When a piece of a write is submitted, every read in the bridge is
complete or not begun, and it gets the latest turn of its line, behind everything a read has
(`TurnAppend`, `HistoryGrows`).  When a piece of a read is submitted, no write is part of the way, so
that the newest of this line and the newest of another have, of each write, both or
neither (`TurnNewest`, `ReadOnSound`).  The stages of the adapter only carry answers (`Passed`), and
give one the plane and ID of its ticket, which change no data.

### The memory controller

`MemControllerProofs`, under the assumptions that `MemController`, `DramBanks`, `MemPhy` and
`Maintenance` state about their constants (there is a bank, a line and a cell; the ranks of a
configuration share the banks evenly; queues have room and an option is one of the program's).

  - `ControlTypes`: `ControlType`, the types of queues, banks, ranks, buses, timers and PHY.
    Most of the work is arithmetic of the managers (a bank of a rank, a credit that is
    spent) and sequences that lose an entry in the middle.
  - `OpenPageKeepsRows`: `OpenPageKeepsRow`.  It is not inductive alone: `RowInv` adds that a bank being
    activated has no row yet and is the business of exactly the request in the active queue, so that
    no other request of it is marked as served.
  - `LastWritesWin` and `ReadsAreRight`: `LastWriteWins` and `MemoryReadsSeeAccepted`.  A write to a cell is in
    exactly one of the places the code moves it through: the write buffer with its queue
    entry, the PHY's FIFO, the image.  `DataInv` follows for each line and cell the newest
    write (`NewestInv`: whatever still carries the cell newest lands last), keeps every read apart from
    the writes that were accepted after it (`Unread`, `Apart`), and says of a read that was
    issued that its data are those of its acceptance (`AnswerInv`).

The last two assume `AlignedShapes`: two writes to one line have the same address and
the same bytes, or no byte in common.  It is what the callers in `src/` do (`memsim_backend.cc` sends
whole granules, the command line checks the alignment), and without it the
code does not keep the property.  Writes of one line at different addresses are only
compared with reads (`controller.cpp:222-276`), so that of three writes, to cell 2 at offset 2, to
cells 1 and 2 at offset 1, and again to cell 2 at offset 2, the third coalesces into the first's
buffer; that is issued first, and the second overwrites what is newer.

### What only TLC checks

All liveness (`EventuallyDelivered`, `EventuallyDrained`, `JobEnds`, `Answered`, `Drains`,
`EveryAccessAnswered`, `EverythingAnswered`, `EverythingDone`, `EveryRequestServed`): fairness and
`ENABLED` are beyond the prover.  The safety of
the detailed AoU modules (`AouLoop`), of
the command engine, the storage and the host path, and of the controller `MaintenanceInTime`: no
theorem is stated about these, and section 7 says which come next.  How the master splits a packet (`Split` in `AxiBus`) is recursive: its
result is an assumption of `MCHostPath` that TLC evaluates for every packet of the instance, and
proving it for all would need induction over data, which the prover does not have here.

## 5. What is not modelled

  - Numbers and layouts: CRC, byte and bit layouts of frames and messages, the PHY's
    noise, jitter, skew and clock recovery, the BF16/FP32 pipeline of the core.
    Each appears as the choice it comes to (damaged or not; a score or an error).
  - Time.  A timer of the link may expire at any time its thread waits; the threads of
    bridge and target share a clock in the code and take their edges in any order here,
    which covers it.  In the controller any latency and timing gate may take any time.
  - Link training is one step; `link_state` and the thread that publishes it are not
    modelled.
  - The AXI read channel of the SparseGate registers: it reads and changes nothing else.
  - Reset of the SparseGate engine and of the AoU fabric: both are run once at the start.
    The reset of the scoring core is modelled, since the core may meet it at any state.
  - The AXI entry checks of the bridge refuse what the master of the model never sends.
  - Gate path: the data of register accesses, errors the memory itself reports, and
    partial lines.  It writes whole lines, so that `mem_forward_stale` cannot arise there.
  - Memory system: the round-robin and xor mappers of channels, the disabled mode, the
    callbacks; an unaligned or oversized request is refused before anything is kept, and
    what is published for a transaction that was invalid is modelled as the failure it is.
    With the default StrictPriority policy accesses of one line but different classes of
    service are reordered by design; the programs that mix classes keep one line to one class,
    and `MemsimBackend` uses class 0 throughout.
  - Controller: `MemController` has the queues with data, addresses that meet and the managers, and
    lets every gate take any time; `CommandEngine` has commands, time and low power, and requests
    of distinct lines.  No module has both.  Left out of both: the FIFO of commands of the PHY
    (deep, it never refuses), `command_pipeline_cycles` other than 0, pairing of edges other than
    the strict one, the deep FIFOs of data of the behavioral PHY in `CommandEngine`, temperature,
    statistics.
  - Storage: `clear`, the lookup of a storage key, the thermal model.  Of the errors only
    bit 0 of a word is injected.  `load_file` of the command line fills a temporary sparse image
    (`main.cpp:2064-2086`), so that a file that is damaged never reaches the stored one.
    `文档/项目指南.md:333-334` excludes that a power failure leaves the store consistent;
    the crash of the model is the end of the process, which keeps the pages of a mapping.
  - Host path: the Verilator wrapper of the RTL, posted packets, identifiers that are not
    unique, the standalone mode, PIO to the functional BAR, the trace tap of Vortex.  What
    lies outside the repository's source is assumed: `cp_tick`'s result takes effect at its
    end, and a launch comes after the accesses of its command; a DMA port serves in order, one
    packet per access, and reports the end later; gem5's bridge holds one packet until
    END_REQ; the memory behind the fabric serves a burst whole; the timing observer of the
    command processor is absent.  Leads of AW and W are covered, since readiness is free.
  - Scripts, traffic files, configuration and command line apart from the image commands,
    statistics, test benches, research, evidence, paper.

## 6. Findings

`mem_forward_stale`.  `controller.cpp:187-189` says that a read forwarded from the write
buffer is right also after partial writes, since it is decided by byte range.  With the
behavioral PHY a write leaves the buffer when its command issues, but its bytes
reach the image only when they leave the PHY's FIFO.  A partial write to the same
line is then buffered, and a read of the line is put together (`controller.cpp:180`)
from the buffered bytes and an image without the first write.  `MemoryReadsSeeAccepted`
holds: reads that go to the memory pass through the same FIFO.

`command_act2_missed`.  `controller.cpp:1647-1648` says that after its ACT or ACT1 a request is
served by the active queue, so that no other takes the bank being opened.  With the
closed-page policy every data command precharges, and the guard `would_close_active`
(1487-1507) knows explicit precharges, refreshes and RFM only: another queued request to the
row that is open is served first and closes it.  On LPDDR the active request then asks for an
ACT2 whose deadline went with the first one, and `pick_urgent_act2` throws (1103).  With open
pages and with the row cap the promise holds (`OpenPageKeepsRow`; the LPDDR scenarios of
`command_engine` with the closed-page policy have no two requests queued for one row).

Noted while modelling, with no run of its own:

  - The configuration files call `refresh_credit_limit` an absolute limit of the credit
    (`configs/lpddr.cfg:79`), and `refresh.cpp:77-79` says that what was postponed is paid back when
    ordinary work ends or the limit is reached.  With several ranks neither holds.  A deadline passes
    for all ranks in one tick, but the loop returns after the first that owes.  In the next tick the
    second is no longer newly due; if it has postponed before, it waits (80-84) without either limit
    being compared, and its credit has grown.  Mostly the ranks are not both in that state, since
    one that has not postponed is paid back at once; a pull-in of one rank only, just before work
    arrives, brings it about.  From then on each deadline adds one to both ranks and pays back one at
    most, as long as ordinary work lasts.  The model does this in four deadlines, with two ranks,
    limits of 2 (postponed), 1 (pulled in) and 2 (credit); `RefreshManager` compiled alone and given
    the same owes about 30 refreshes after 30 deadlines.  One rank keeps its limits (`PostponedWithinLimits`).
  - `src/ucie-model/MODELING_AND_VERIFICATION.md:325-330` says that a NAK(n) makes the transmitter
    start to replay at the first buffered number at or after n.  The feedback thread sets
    `replay_cursor_` so, but a sender that is in `send_one` with a replayed frame executes
    `replay_cursor_ = it->first + 1U` (`ucie_link.h:109`) after its wait, and the NAK's cursor is
    lost.  The run `link` and the theorems include this: everything still arrives, since the
    receiver repeats the NAK and the replay timer covers the rest.
  - A short write coalesced onto a longer buffered one without byte masks replaces it;
    writes that overlap at different addresses can be reordered when the older waits for an
    older read; pull-in never goes more than one refresh ahead; the round-robin mapper sends
    one address to different channels.
  - A control command (MRW, MRR, DVFS, WCKTRAIN, PDE, SREFEN) needs every bank of its
    channel closed (`timing_ok`, `controller.cpp:1433-1440`), but `next_command` (1289-1310)
    puts no precharge before it.  Accepted while a row is open under the open-page policy, it
    waits at the head of the priority queue, and reads, writes and refreshes wait behind it.
    Traffic files accept such commands anywhere (`traffic.cpp:48-66`).
  - While the idle policy holds low power, such a command is illegal and does not end it;
    it waits until a read or write arrives.
  - A read accepted before a queued PDE has issued schedules no exit, since the exit is
    put in by `enqueue` alone (`controller.cpp:159-167`); with the behavioral PHY and no PDX behind
    it the read never completes.  A read accepted between a PDE or SREFEN and the PDX or SREFEX
    already queued behind it schedules a second exit, which is never legal afterwards and
    blocks the priority queue.
  - The behavioral PHY in low power takes only PDX and SREFEX (`mem_phy.cpp:134-147`): a refresh at
    the head of the priority queue waits for an exit that waits behind it.
    `phy_tests.cpp:222-224` expects refreshes to be possible.  With a direct PHY nothing refuses an
    ACT, RD, WR or REF in power down (`state.cpp` has no such check).
  - `write_low_watermark = 0` is accepted, but write mode then never ends, and reads starve
    (`set_write_mode`).
  - `timing_ok` asks of a PREAB that the row gate is open (`controller.cpp:1428`), not that nRAS,
    nRTP and nWR have passed in the banks it closes.
  - SREFEX between ACT1 and ACT2 moves the row gate and can make ACT2 miss its deadline.
  - The control sequence adds RASERR for HBM with CRC or RAS metadata, though `state.cpp` requires ECC or
    link retry.
  - A window of WCK is kept by its maximum in the engine (`executor.cpp:235-237`) and
    assigned in the validator (`validator.cpp:744-746`), which refuses a read late in the
    longer window.  An explicit PDX during implicit low power is legal for the engine only.
  - `RASERR` has no idle requirement and moves the row gate; with a configured `nAADMin` of
    2 or more it can fall between ACT1 and ACT2 and make ACT2 miss its deadline.
  - `check_ecc_shadow` computes its overall bit over recomputed check bits: one flipped
    data bit at a code position of odd weight is reported as uncorrectable.
  - A partial write over a word with an error reads, corrects nothing and encodes the result
    again: the error is then undetectable (`data.cpp:1822`; `src/mem_sim/src/core/README.md:43`).
  - A simulation that ends with transactions on the way fails an assertion in
    `AouBackend::finish`.
  - The start hook of Vortex starts the core at once when no access is queued yet; accesses of
    the same `cp_tick` that come later are not waited for.

## 7. Plan

What is left, in this order:

  1. Theorems about the bridge: `CreditManager`'s encoding never grants more than is pending;
     the steps of bridge and target are steps of `CreditLoop`.
  2. The status thread of the link.
  3. `PostponedWithinLimits` for one rank as a theorem: its three bounds are kept by each tick.
