SPECIFICATION WatchedSpec
CONSTANTS
  Schedulers = {s1}
  Writers = {w1}
  Readers = {}
  EvidenceRows = 10
  Observers = {o1}
  Peers = {p1}
  Contents = {t1, t2, t3}
  MinConclusions = 1
  Cooldown = 1
  IdleTimeout = 1
  ManualAllowed = FALSE
  Completions = {"time"}
  MaxClock = 4
  MaxConclusions = 3
  MaxDreams = 3
PROPERTY CooldownElapsed
CHECK_DEADLOCK FALSE
