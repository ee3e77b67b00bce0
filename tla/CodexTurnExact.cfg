SPECIFICATION Spec
CONSTANTS
  Turns = {t1, t2, t3}
  NoTurn = none
  MaxActive = 1
  MaxRestarts = 1
  Disturbances = {}
SYMMETRY Symmetry
INVARIANTS
  ExactContext
CHECK_DEADLOCK FALSE
