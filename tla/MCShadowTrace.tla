---------------------------- MODULE MCShadowTrace ---------------------------
(* Instances of ShadowTrace for TLC.                                       *)
EXTENDS ShadowTraceInv, TLC

(* The temporaries of a frame and the addresses are interchangeable.       *)
Symmetry == Permutations(Slots) \cup Permutations(Cells)
=============================================================================
