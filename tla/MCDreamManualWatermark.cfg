SPECIFICATION WatchedSpec
CONSTANTS
  Schedulers = {s1}
  Writers = {w1}
  Readers = {}
  EvidenceRows = 10
  Observers = {o1}
  Peers = {p1}
  Contents = {t1}
  MinConclusions = 1
  Cooldown = 2
  IdleTimeout = 1
  ManualAllowed = TRUE
  Completions = {"cooldown"}
  MaxClock = 6
  MaxConclusions = 1
  MaxDreams = 3
PROPERTY AutomaticDreamIsNew
CHECK_DEADLOCK FALSE
