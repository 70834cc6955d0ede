SPECIFICATION Spec
CONSTANTS
  Clients = {c1, c2}
  Actions = {1, 2}
  Lists <- Chain
  Actors = {own, other}
  Foreign = {other}
  MaxSignals = 0
  PageSizes = {}
  MaxGraphs = 1
INVARIANTS
  FrontierIsUnblocked
