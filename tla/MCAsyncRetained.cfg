SPECIFICATION Spec
CONSTANTS
  Clients = {f1, f2}
  Texts = {}
  MaxWrites = 0
  Ids = {}
  Limits = {1}
  MaxAttempts = 1
  MaxResults = 0
  MaxFailures = 0
  again = again
  once = once
  Memories = {}
  MaxVersions = 0
  Queueable = {}
  Cacheable = {c1, c2}
  key = key
  KeyOf <- OneKey
  MaxAccepted = 2
  MaxChunks = 0
  MaxBytes = 0
  MaxHooks = 0
  MaxCopies = 0
  None = None
INVARIANTS
  FailedWriteRetained
CHECK_DEADLOCK FALSE
