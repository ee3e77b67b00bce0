---------------------------- MODULE MCTabSession ----------------------------
(* TLC instance of TabSession: the request ids are interchangeable, and so  *)
(* are the terminate calls.                                                 *)
EXTENDS TabSession, TLC

Symmetry == Permutations(Requests) \cup Permutations(Terminators)
=============================================================================
