SPECIFICATION Spec
CONSTANTS
  Clients = {c1, c2}
  Ids = {1, 2}
  Failing = FALSE
  Editing = FALSE
  Marked = {}
  MaxVersions = 2
INVARIANT MirroredAtRest
CHECK_DEADLOCK FALSE
