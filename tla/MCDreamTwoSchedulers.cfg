SPECIFICATION WatchedSpec
CONSTANTS
  Schedulers = {s1, s2}
  Writers = {w1}
  Readers = {}
  EvidenceRows = 10
  Observers = {o1}
  Peers = {p1}
  Contents = {t1}
  MinConclusions = 1
  Cooldown = 2
  IdleTimeout = 1
  ManualAllowed = FALSE
  Completions = {"cooldown"}
  MaxClock = 3
  MaxConclusions = 1
  MaxDreams = 2
INVARIANT AtMostOneActive
CHECK_DEADLOCK FALSE
