---------------------------- MODULE MCFIFOQueue ----------------------------
(***************************************************************************)
(* Four packets: two small ones, one that fills half of the queue and one  *)
(* that only fits into an empty queue.                                     *)
(***************************************************************************)
EXTENDS FIFOQueue

CONSTANTS p1, p2, p3, p4

MCPackets == {p1, p2, p3, p4}
MCSize == [p \in MCPackets |-> CASE p \in {p1, p2} -> 1
                                 [] p = p3 -> 2
                                 [] p = p4 -> 4]
=============================================================================
