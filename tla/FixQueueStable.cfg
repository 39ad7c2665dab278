SPECIFICATION Spec
CONSTANTS
  Jobs = {j1, j2, j3}
  Fingerprints = {g1, g2}
  NewFp <- MCStable
  None = None
  Timeout = 1
  QueueBy = 1
  MaxTime = 3
SYMMETRY MCSymmetry
INVARIANTS
  OneActivePerGroup
PROPERTIES
  ImplementsSlots
