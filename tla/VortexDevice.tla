---------------------------- MODULE VortexDevice ----------------------------
(***************************************************************************)
(* The Vortex device (gem5_new vortex_gpgpu_dev.cc): the command processor's    *)
(* ticks as a coroutine that yields at every memory access, its queue of DMA      *)
(* accesses, the accesses of the core by token, and who wakes whom; and the       *)
(* side of the core that the repository adds to Vortex (simx_online.patch).       *)
(*                                                                         *)
(* Vortex itself is external.  Of the command processor this is used: a command    *)
(* is some accesses, one after the other, and maybe a launch after them; it is     *)
(* retired when the launched kernel has ended; cp_tick returns whether it could     *)
(* do more, which is open while it waits for the kernel; cp_has_work is whether a    *)
(* command is not retired yet.  Of the core: a kernel makes some accesses and runs   *)
(* until they are issued.                                                     *)
(***************************************************************************)
EXTENDS Naturals, Sequences, FiniteSets, TLC

\* commands: [accesses, kernel, launch]; rung: how many the host has rung for.
Device0(commands) ==
    [commands |-> commands, rung |-> 0,
     command |-> 1, access |-> 1, launched |-> FALSE,
     coroutine |-> FALSE, queue |-> <<>>, active |-> <<>>, resume |-> FALSE,
     startPending |-> FALSE, cpEvent |-> FALSE, vxEvent |-> FALSE,
     running |-> FALSE, kernel |-> <<>>, token |-> 1, pending |-> <<>>,
     completed |-> <<>>, dmas |-> {}, port |-> <<>>, ok |-> TRUE]

HasWork(d) == d.command <= d.rung

CpQuiet(d) == d.active = <<>> /\ d.queue = <<>>

\* schedule() of an event that is scheduled is fatal.
ScheduleCp(d) == [d EXCEPT !.cpEvent = TRUE, !.ok = @ /\ ~d.cpEvent]

\* A slip: nobody wakes the command processor.
MaybeWakeNever(d) == d

MaybeWakeCp(d) ==
    IF HasWork(d) /\ CpQuiet(d) /\ ~d.cpEvent THEN ScheduleCp(d) ELSE d

StartVortexIfReady(d) ==
    IF d.startPending /\ CpQuiet(d)
    THEN [d EXCEPT !.startPending = FALSE, !.vxEvent = TRUE] ELSE d

StartNextCpDma(d) ==
    IF d.active # <<>> \/ d.queue = <<>> THEN d
    ELSE [d EXCEPT !.active = <<Head(d.queue)>>, !.queue = Tail(@),
                   !.port = Append(@, [kind |-> "cp", token |-> 0, command |-> d.command,
                                      access |-> Head(d.queue)])]

ResumeCpIfReady(d) ==
    IF ~CpQuiet(d) THEN d
    ELSE LET s == StartVortexIfReady(d)
             t == [s EXCEPT !.resume = FALSE]
         IN  IF ~s.resume THEN s
             ELSE IF (s.coroutine \/ HasWork(s)) /\ ~s.cpEvent THEN ScheduleCp(t) ELSE t

\* dmaComplete: the access of the command processor is answered.
DmaComplete(d) ==
    LET s == StartNextCpDma([d EXCEPT !.active = <<>>, !.ok = @ /\ d.active # <<>>]) IN
    ResumeCpIfReady([s EXCEPT !.resume = @ \/ s.coroutine])

Command(d) == d.commands[d.command]

Retired(d) == [d EXCEPT !.command = @ + 1, !.access = 1, !.launched = FALSE]

\* memoryRead and memoryWrite: enqueue, start, yield.
Yielded(d) ==
    StartNextCpDma([d EXCEPT !.queue = Append(@, Command(d).accesses[d.access]),
                             !.access = @ + 1, !.coroutine = TRUE])

\* The end of cp_tick.
Ended(d, busy) ==
    LET s == [d EXCEPT !.coroutine = FALSE, !.resume = FALSE] IN
    IF busy THEN ScheduleCp(s) ELSE s

\* cpTick, up to the next access or the end; waits: what cp_tick returns while it
\* can do nothing but wait for the kernel.
CpTick(d, waits) ==
    LET s == [d EXCEPT !.cpEvent = FALSE] IN
    IF ~HasWork(s) THEN Ended(s, FALSE)
    ELSE IF s.access <= Len(Command(s).accesses) THEN Yielded(s)
    ELSE IF Command(s).launch /\ ~s.launched
    THEN Ended(StartVortexIfReady([s EXCEPT !.launched = TRUE, !.running = TRUE,
                                            !.kernel = Command(s).kernel,
                                            !.startPending = TRUE]), waits)
    ELSE IF s.launched /\ s.running THEN Ended(s, waits)
    ELSE Ended(Retired(s), HasWork(Retired(s)))

\* A doorbell: cp_mmio_write and maybeWakeCp.
Doorbell(d) == MaybeWakeCp([d EXCEPT !.rung = @ + 1])

-----------------------------------------------------------------------------
\* The core: Memory::tick with the external memory, and the device behind it.

IsWrite(access) == access.cmd = "write"

\* Answers reach the core in the order they came; one to a read waits for room.
Deliverable(d) ==
    {k \in 0 .. Len(d.completed) :
        k = Len(d.completed) \/ ~IsWrite(d.pending[d.completed[k + 1]])}

Delivered(d, k) ==
    LET given == {d.completed[i] : i \in 1 .. k} IN
    [d EXCEPT !.completed = SubSeq(@, k + 1, Len(@)),
              !.pending = [t \in DOMAIN @ \ given |-> @[t]]]

\* external_issue_hook_ and issueCoreTiming.
Issued(d) ==
    LET t == d.token
        a == Head(d.kernel)
    IN  [d EXCEPT !.kernel = Tail(@), !.token = @ + 1,
                  !.pending = (t :> a) @@ @,
                  !.dmas = @ \union {t}, !.ok = @ /\ t \notin d.dmas,
                  !.port = Append(@, [kind |-> "core", token |-> t, command |-> d.command,
                                      access |-> a])]

\* A slip: the kernel has ended when its last access is issued.
AnyRunningIssued(d) == d.kernel # <<>>

AnyRunning(d) == d.kernel # <<>> \/ d.pending # <<>>

\* vortexTick.
VortexTick(d, k, issues) ==
    LET s == Delivered(d, k)
        t == IF issues /\ s.kernel # <<>> THEN Issued(s) ELSE s
    IN  IF AnyRunning(t) THEN t
        ELSE MaybeWakeCp([t EXCEPT !.vxEvent = FALSE, !.running = FALSE])

\* coreDmaComplete and complete_external.
CoreDmaComplete(d, token) ==
    IF token \notin d.dmas THEN [d EXCEPT !.ok = FALSE]
    ELSE LET s == [d EXCEPT !.dmas = @ \ {token}] IN
         IF token \notin DOMAIN s.pending THEN s
         ELSE [s EXCEPT !.completed = Append(@, token)]
=============================================================================
