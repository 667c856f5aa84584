------------------------------- MODULE MCUmem -------------------------------
(* Umem for TLC.  Lengths: RX segments hold 3 units of a 4 unit frame.     *)
EXTENDS Umem, TLC

\* Frames are interchangeable.
Symmetry == Permutations(Frames)

\* egress: a one-segment packet, and one that must be split (5 + 1 > 5).
\* ingress: a second fragment, and a plain packet.
SmallLens == [d \in Dirs |-> IF d = "egress" THEN {2, 5} ELSE {2, 4}]

\* For both directions at once.  egress: a packet that must be split.  ingress:
\* a second fragment, a packet whose plain text needs one frame less, and one
\* that is too long for the WAN and for JumboMax.
MixedLens == [d \in Dirs |-> IF d = "egress" THEN {5} ELSE {1, 4, 6}]
=============================================================================
