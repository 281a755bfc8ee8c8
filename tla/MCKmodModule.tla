---------------------------- MODULE MCKmodModule ----------------------------
(* Two queues of one NVMe device, and a bridge with and one without a      *)
(* shadow address.                                                         *)
EXTENDS KmodModule, KmodAddress

CONSTANTS d1, q1, q2, b1, b2

MCDevOf == [q \in {q1, q2} |-> d1]
=============================================================================
