------------------------------ MODULE FairLine ------------------------------
(***************************************************************************)
(* What the waiting lines of the tab pool promise, and no more: whoever    *)
(* waits for a key is served before those who came later for the same key, *)
(* or leaves.  TabQueue implements it.                                     *)
(***************************************************************************)
EXTENDS Naturals

CONSTANTS Tasks, Keys,
          Nowhere  (* not a key *)

VARIABLES
  stands,  (* the key each task waits for                     *)
  ticket,  (* the number it drew                              *)
  drawn,   (* the number of tickets drawn so far              *)
  served   (* the tasks that got what they waited for         *)

vars == <<stands, ticket, drawn, served>>

Init ==
  /\ stands = [t \in Tasks |-> Nowhere]
  /\ ticket = [t \in Tasks |-> 0]
  /\ drawn = 0
  /\ served = {}

Join(t, k) ==
  /\ stands[t] = Nowhere
  /\ stands' = [stands EXCEPT ![t] = k]
  /\ ticket' = [ticket EXCEPT ![t] = drawn + 1]
  /\ drawn' = drawn + 1
  /\ UNCHANGED served

(* Nobody came earlier for the same key. *)
First(t) == \A u \in Tasks : stands[u] = stands[t] => ticket[t] <= ticket[u]

Serve(t) ==
  /\ stands[t] # Nowhere
  /\ First(t)
  /\ stands' = [stands EXCEPT ![t] = Nowhere]
  /\ served' = served \cup {t}
  /\ UNCHANGED <<ticket, drawn>>

Leave(t) ==
  /\ stands[t] # Nowhere
  /\ stands' = [stands EXCEPT ![t] = Nowhere]
  /\ UNCHANGED <<ticket, drawn, served>>

Next == \E t \in Tasks : (\E k \in Keys : Join(t, k)) \/ Serve(t) \/ Leave(t)

Spec == Init /\ [][Next]_vars
=============================================================================
