-------------------------- MODULE MCRequestManager --------------------------
(* TLC instance of RequestManager: the request ids are interchangeable. *)
EXTENDS RequestManager, TLC

Symmetry == Permutations(Requests)
=============================================================================
