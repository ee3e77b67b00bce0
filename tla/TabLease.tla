------------------------------ MODULE TabLease ------------------------------
(***************************************************************************)
(* What one pooled browser tab promises to the requests and commands that  *)
(* share it: a lease.  The tab is free, held by exactly one task, draining *)
(* (nobody holds it and nobody may take it yet) or gone for good.          *)
(*                                                                         *)
(* TabSession implements this specification.                               *)
(***************************************************************************)

CONSTANTS Tasks,    (* the request and command ids that compete for the tab *)
          NoTask    (* "nobody"                                             *)

VARIABLES phase,    (* "free", "held", "draining" or "gone"  *)
          holder    (* the task that holds the tab, or NoTask *)

leaseVars == <<phase, holder>>

Phases == {"free", "held", "draining", "gone"}

LeaseInit == phase = "free" /\ holder = NoTask

(* A task takes a free tab. *)
Grant(t) == /\ phase = "free"
            /\ phase' = "held"
            /\ holder' = t

(* The tenure ends (release, eviction) or a free tab is withheld. *)
Drain == /\ phase \in {"free", "held"}
         /\ phase' = "draining"
         /\ holder' = NoTask

(* The page is quiet again. *)
Settle == /\ phase = "draining"
          /\ phase' = "free"
          /\ UNCHANGED holder

(* The tab failed or was closed: from here it is never handed out again. *)
Lose == /\ phase' = "gone"
        /\ holder' = NoTask

LeaseNext == \/ \E t \in Tasks : Grant(t)
             \/ Drain
             \/ Settle
             \/ Lose

LeaseSpec == LeaseInit /\ [][LeaseNext]_leaseVars
=============================================================================
