--------------------------- MODULE MCCommandQueue ---------------------------
(* Two commands, two events, in five settings: an urgent command that hears *)
(* both events from a listener; an urgent and a plain one; an urgent one    *)
(* under two checks; a plain one with two workflows; two urgent ones.      *)
EXTENDS CommandQueue

CONSTANTS u, p, e1, e2, k1, k2, l1, w1, w2

Heard(hu, hp) == [c \in Commands |-> IF c = u THEN hu ELSE hp]
With(hears, urgent, aborting, reported, threads, workflows) ==
  [hears |-> hears, urgent |-> urgent, aborting |-> aborting, reported |-> reported,
   threads |-> threads, workflows |-> workflows]

MCSettings ==
  {With(Heard({e1, e2}, {}), {u}, {u}, {e1}, {k1, l1}, {w1}),
   With(Heard({e1}, {e2}), {u}, {u}, {e1}, {k1, l1}, {w1}),
   With(Heard({e1, e2}, {}), {u}, {}, {e1, e2}, {k1, k2}, {w1}),
   With(Heard({}, {e1, e2}), {}, {}, {e1, e2}, {k1}, {w1, w2}),
   With(Heard({e1}, {e2}), {u, p}, {u}, {e1, e2}, {k1, k2}, {w1})}
=============================================================================
