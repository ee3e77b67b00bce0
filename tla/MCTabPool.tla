----------------------------- MODULE MCTabPool ------------------------------
(* One page target that comes and goes under several sessions, two requests *)
(* and two threads that scan.                                               *)
EXTENDS TabPool, TLC

Symmetry == Permutations(Tasks) \cup Permutations(Targets) \cup Permutations(Scanners)
=============================================================================
