SPECIFICATION FairSpec
CONSTANTS
  Clients = {c1, c2}
  Ids = {m1, m2, none}
  EmptyId = none
  NoClient = free
  MaxSubmits = 3
INVARIANTS
  TypeOK
  DetectorSeesEarlierWrites
  OnTimeCancelHonoured
  RelationsBacked
PROPERTIES
  VerdictTellsTheWrite
  ImplementsLedger
  SubmitReturns
CHECK_DEADLOCK FALSE
