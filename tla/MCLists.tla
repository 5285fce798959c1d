------------------------------ MODULE MCLists ------------------------------
(* Instances of IsnsLists for TLC: the cells are interchangeable. *)
EXTENDS IsnsLists, TLC

MCSymmetry == Permutations(Cells)
=============================================================================
