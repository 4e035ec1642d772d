------------------------------- MODULE SgDma -------------------------------
(***************************************************************************)
(* The one-outstanding AXI256 DMA of the SparseGate engine                  *)
(* (rtl/sparse_gate_axi/sparse_gate_dma.sv).                                *)
(*                                                                         *)
(* A step is a rising clock edge.  The request port is the parameter of the *)
(* step; the memory behind the AXI master port is chosen anew at every edge: *)
(* it may hold any channel back for any time and answer well or badly.      *)
(* Addresses count lines of 32 bytes, and a line is known by what it holds. *)
(* The statistics counter read_beats is left out.                           *)
(***************************************************************************)
EXTENDS Integers

CONSTANTS
    MemBase, MemLines,  \* MEM_BASE and MEM_BYTES, in lines
    RegBase, RegLines   \* REG_BASE and the 4096 bytes of the register window

ASSUME ApertureAssumption ==
    /\ MemBase \in Nat
    /\ MemLines \in Nat \ {0}
    /\ RegBase \in Nat
    /\ RegLines \in Nat \ {0}

VARIABLE dma    \* the registers of the module, m_axi_*addr and wdata included

NoRequest == [valid |-> FALSE, write |-> FALSE, addr |-> 0, data |-> <<>>]

DmaInit ==
    dma = [state |-> "IDLE", done |-> FALSE, error |-> FALSE,
           aw_sent |-> FALSE, w_sent |-> FALSE, addr |-> 0, data |-> <<>>,
           write_beats |-> 0]

\* A line the DMA may touch: inside the aperture, outside the register window.
LineOk(addr) ==
    /\ addr \in MemBase .. (MemBase + MemLines - 1)
    /\ addr \notin RegBase .. (RegBase + RegLines - 1)

\* What every edge does first: done is a pulse, clear_counts clears.
Pulse(clear) ==
    [dma EXCEPT !.done = FALSE,
                !.write_beats = IF clear THEN 0 ELSE @]

Refuse(req, clear) ==
    /\ dma.state = "IDLE"
    /\ req.valid
    /\ ~LineOk(req.addr)
    /\ dma' = [Pulse(clear) EXCEPT !.done = TRUE, !.error = TRUE]

Accept(req, clear) ==
    /\ dma.state = "IDLE"
    /\ req.valid
    /\ LineOk(req.addr)
    /\ dma' = [Pulse(clear) EXCEPT
                  !.error = FALSE,
                  !.state = IF req.write THEN "WRITE" ELSE "READ",
                  !.addr = req.addr,
                  !.data = IF req.write THEN req.data ELSE @,
                  !.aw_sent = IF req.write THEN FALSE ELSE @,
                  !.w_sent = IF req.write THEN FALSE ELSE @]

Rest(req, clear) ==
    /\ dma.state = "IDLE"
    /\ ~req.valid
    /\ dma' = Pulse(clear)

\* Address and data leave in either order, as awready and wready come.
SendWrite(clear) ==
    /\ dma.state = "WRITE"
    /\ \E aw \in {dma.aw_sent, TRUE}, w \in {dma.w_sent, TRUE} :
          dma' = [Pulse(clear) EXCEPT
                     !.aw_sent = aw,
                     !.w_sent = w,
                     !.state = IF aw /\ w THEN "BRESP" ELSE @]

TakeBresp(clear) ==
    /\ dma.state = "BRESP"
    /\ \/ dma' = Pulse(clear)
       \/ \E good \in BOOLEAN :
             dma' = [Pulse(clear) EXCEPT !.done = TRUE,
                                         !.error = ~good,
                                         !.write_beats = dma.write_beats + 1,
                                         !.state = "IDLE"]

SendRead(clear) ==
    /\ dma.state = "READ"
    /\ \E arready \in BOOLEAN :
          dma' = [Pulse(clear) EXCEPT !.state = IF arready THEN "RRESP" ELSE @]

\* A slip: every beat of the answer ends the request.
TakeRrespEarly(clear) ==
    /\ dma.state = "RRESP"
    /\ \/ dma' = Pulse(clear)
       \/ \E good, last \in BOOLEAN :
             dma' = [Pulse(clear) EXCEPT
                        !.error = dma.error \/ ~good \/ ~last,
                        !.done = TRUE,
                        !.state = IF last THEN "IDLE" ELSE @]

\* A malformed answer of several beats is drained before it is reported; only
\* its last beat ends the read.
TakeRresp(clear) ==
    /\ dma.state = "RRESP"
    /\ \/ dma' = Pulse(clear)
       \/ \E good, last \in BOOLEAN :
             dma' = [Pulse(clear) EXCEPT
                        !.error = dma.error \/ ~good \/ ~last,
                        !.done = last,
                        !.state = IF last THEN "IDLE" ELSE @]

DmaStep(req, clear) ==
    \/ Refuse(req, clear)
    \/ Accept(req, clear)
    \/ Rest(req, clear)
    \/ SendWrite(clear)
    \/ TakeBresp(clear)
    \/ SendRead(clear)
    \/ TakeRresp(clear)
=============================================================================
