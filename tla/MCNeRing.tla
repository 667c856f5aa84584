------------------------------ MODULE MCNeRing ------------------------------
(* NeRing for TLC: packets and producers are interchangeable.              *)
EXTENDS NeRing, TLC

Symmetry == Permutations(Producers) \cup Permutations(Packets)
=============================================================================
