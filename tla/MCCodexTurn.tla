---------------------------- MODULE MCCodexTurn ----------------------------
(* TLC instance of CodexTurn: turn ids are interchangeable. *)
EXTENDS CodexTurn, TLC

Symmetry == Permutations(Turns)
=============================================================================
