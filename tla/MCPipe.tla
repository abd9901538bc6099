------------------------------- MODULE MCPipe -------------------------------
(* Instances of Pipe for TLC. *)
EXTENDS Pipe, TLC

Symmetry == Permutations(Readers \ Victims) \cup Permutations(Writers \ Victims)
=============================================================================
