------------------------------ MODULE MCMmFifo ------------------------------
(* Instances of MmFifo for TLC. *)
EXTENDS MmFifo, TLC

CONSTANTS s1, s2, d0, d1, d2, d3, d4

MCInitDesc2 == 0 :> d0 @@ 1 :> d1
MCInitDesc4 == MCInitDesc2 @@ 2 :> d3 @@ 3 :> d4
\* Bound: messages that take a place; the third uses an element again.
ThreeTaken == Len(log) <= 3
SenderSymmetry == Permutations(Senders)
=============================================================================
