SPECIFICATION Spec
CONSTANTS
  Commands = {u, p}
  Events = {e1, e2}
  Checkers = {k1, k2}
  Listeners = {l1}
  Workflows = {w1, w2}
  Settings <- MCSettings
  NoEvent = none
  Nobody = nobody
  u = u
  p = p
  e1 = e1
  e2 = e2
  k1 = k1
  k2 = k2
  l1 = l1
  w1 = w1
  w2 = w2
INVARIANTS
  EventAccounted
  RunsOnce
PROPERTIES
  EventSettles
CHECK_DEADLOCK FALSE
