SPECIFICATION PartSpec
CONSTANTS
  Clients = {alice, bob}
  Owners = {alice, bob}
  OwnerOf <- OneClientPerOwner
  Actions = {a1, a2}
  KnownActions = {a1, a2}
  TTLs = {1}
  MaxInt = 3
  MaxClock = 3
  MaxAudit = 3
  Planned = {1, 2}
  Actors = {own, other}
  Foreign = {other}
  MaxSignals = 2
  MaxGraphs = 1
  Tools = {t1}
  Messages = {m1}
  Recalled = {r1}
  MinFailures = 2
  Limits = {0, 1}
  MaxObserved = 2
  MaxItems = 2
  Tuples = {t1}
  MaxLength = 2
  MaxAgents = 2
  Letters = {"a", "1", "-"}
  MessageSizes = {1, 2, 3}
  MaxTurns = 1
  Paths = {"p", "q"}
  Included = {"p"}
  Contents = {"a", "b", "z"}
  Binary = {"z"}
  MaxChanges = 1
  None = None
  Agents = {"b", "c"}
  Workspaces = {"w", "v"}
  MemoryRows <- TieredRows
  Spelled <- SpelledTiers
  Stamps = {1, 2}
  MaxProposals = 3
  ListMax = 2
  ListCap = 4
  Sentinels <- SomeSentinels
  MaxUpserts = 3
  AskedKeys <- SomeKeys
  TrimmedNames <- Spaced
  Modes <- SpelledModes
  Scopes <- SomeScopes
  MaxTime = 6
  MaxKeys = 2
SYMMETRY Symmetric
INVARIANTS
  PartTypeOK
  PromiseKept
  AuditsExplain
  UnbrokenTenure
  GraphTellsTheTruth
  ReviewsSettle
  IntakeAgrees
CHECK_DEADLOCK FALSE
