SPECIFICATION Spec
CONSTANTS
  Clients = {c1}
  Ids = {m1, none}
  EmptyId = none
  NoClient = free
  MaxSubmits = 1
INVARIANTS
  CancelTrueOnlyBeforeStart
CHECK_DEADLOCK FALSE
