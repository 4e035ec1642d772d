----------------------------- MODULE FlitStream -----------------------------
(***************************************************************************)
(* What one direction of the UCIe link promises at its two FDI ports       *)
(* (ucie-model/INTERFACE.md, UcieLink in ucie_link.h): the flits a producer *)
(* writes come out exactly once and in the order they went in, whatever    *)
(* the PHY does to the frames in between.                                   *)
(*                                                                         *)
(* The n-th flit is identified with n - 1, the number the transmitter will *)
(* give it; nothing in the link looks into a payload.                      *)
(***************************************************************************)
EXTENDS Naturals, Sequences

CONSTANT MaxFlits   \* how many flits the producer ever writes

VARIABLES
    offered,        \* how many flits the producer has written so far
    delivered       \* the flits the receiver has handed out, oldest first

streamVars == <<offered, delivered>>

StreamInit ==
    /\ offered = 0
    /\ delivered = <<>>

\* fdi_in: the producer writes one more flit.
Write ==
    /\ offered < MaxFlits
    /\ offered' = offered + 1
    /\ UNCHANGED delivered

\* fdi_out: the oldest flit that is not yet out comes out.
HandOut ==
    /\ Len(delivered) < offered
    /\ delivered' = Append(delivered, Len(delivered))
    /\ UNCHANGED offered

StreamNext == Write \/ HandOut

StreamSpec == StreamInit /\ [][StreamNext]_streamVars

=============================================================================
