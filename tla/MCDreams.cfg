SPECIFICATION PartSpec
CONSTANTS
  Schedulers = {s1}
  Writers = {w1}
  Readers = {r1}
  EvidenceRows = 1
  Observers = {o1}
  Peers = {p1}
  Contents = {g1, g2}
  MinConclusions = 1
  Cooldown = 1
  IdleTimeout = 1
  ManualAllowed = TRUE
  Completions = {"cooldown", "status"}
  MaxClock = 3
  MaxConclusions = 2
  MaxDreams = 2
  Clients = {g1, g2}
  Attempts = 2
  MaxTurns = 3
  a = "a"
  b = "b"
  about = about
  tier = "tier"
  image = image
  MaxRows = 3
SYMMETRY PartSymmetric
INVARIANTS
  AtMostOneActive
  PartTypeOK
  ToldIsKept
  StatusTellsGates
PROPERTIES
  NewWithoutManual
  AutomaticDreamIsQuiet
  CooldownElapsed
CHECK_DEADLOCK FALSE
