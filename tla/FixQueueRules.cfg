SPECIFICATION FairSpec
CONSTANTS
  Jobs = {j1, j2}
  Fingerprints = {g1, g2}
  NewFp <- MCAnyRules
  None = None
  Timeout = 1
  QueueBy = 1
  MaxTime = 3
INVARIANTS
  TypeOK
  CancelledNeverHanded
  OldestFirst
PROPERTIES
  ReportStands
  EveryAttemptEnds
