------------------------------ MODULE MCPtrace ------------------------------
(* A small instance of Ptrace: one process, launched or attached, two Targets for it. *)
EXTENDS Ptrace, TLC

MCValues == {0, -1}
Symmetry == Permutations(Targets)
=============================================================================
