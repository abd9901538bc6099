---------------------------- MODULE MCBufCache ------------------------------
(* Instances of BufCache for TLC. *)
EXTENDS BufCache, TLC

\* Everything but descriptors is interchangeable.
Symmetry == Permutations(Proc) \cup Permutations(Buf)
                \cup Permutations(Block) \cup Permutations(Val)
=============================================================================
