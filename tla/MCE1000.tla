------------------------------ MODULE MCE1000 -------------------------------
(* Instances of E1000 for TLC. *)
EXTENDS E1000, TLC

Symmetry == Permutations(Mbuf)
=============================================================================
