SPECIFICATION PartSpec
CONSTANTS
  Callers = {c1, c2, c3, c4}
  Threshold = 3
  Cooldown = 3
  Clients = {c1, c2}
  Memories = {1, 2, 3}
  Texts = {t1, t2}
  Dims = {1, 2}
  MaxCalls = 3
INVARIANTS
  PartTypeOK
  ClosedBelowThreshold
  ReindexPersists
  RecallExplains
PROPERTIES
  ImplementsShield
  RefusalEnds
CHECK_DEADLOCK FALSE
