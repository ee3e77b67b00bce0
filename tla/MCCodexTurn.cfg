SPECIFICATION Spec
CONSTANTS
  Turns = {t1, t2, t3}
  NoTurn = none
  MaxActive = 1
  MaxRestarts = 0
  Disturbances = {"fork", "lost_answer", "late_name", "flapping_page", "disk_lost", "uncleared_hint"}
SYMMETRY Symmetry
INVARIANTS
  TypeOK
  NothingMissing
  BindingHonest
  HintScoped
CHECK_DEADLOCK FALSE
