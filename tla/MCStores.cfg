SPECIFICATION Spec
CONSTANTS
  Clients = {c1, c2}
  Texts = {i1, i2, t3}
  MaxWrites = 3
  Ids = {i1, i2}
  Limits = {1, 2}
  MaxAttempts = 2
  MaxResults = 3
  MaxFailures = 1
  again = again
  once = once
  Memories = {1, 2}
  MaxVersions = 3
  Queueable = {i1, i2}
  Cacheable = {s1, s2}
  key = key
  KeyOf <- OneKey
  MaxAccepted = 3
  MaxChunks = 2
  MaxBytes = 3
  MaxHooks = 2
  MaxCopies = 3
  None = None
SYMMETRY Symmetric
INVARIANTS
  TypeOK
  WritesLostOnlyToStaleOnes
  ChangesTold
  DeliveriesEnd
  QuietWritesMirror
  QueueInOrder
  CacheLossNeedsRace
  StoredOnceWhole
  CapturesAgree
  
  CopiesAreWhole
PROPERTIES
  CallsAsPromised
  UndoneOnlyInDoubt
CHECK_DEADLOCK FALSE
