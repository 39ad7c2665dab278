SPECIFICATION Spec
CONSTANTS
  Groups = {g1, g2}
  Spawned = {t1}
  None = None
  MaxEditFailures = 1
  Unhandled = TRUE
  MissingChannel = TRUE
  MaxVersion = 2
  MaxMessages = 2
  MaxRestarts = 1
SYMMETRY MCSymmetry
INVARIANTS
  TypeOK
  RestedStaleIsFlagged
CHECK_DEADLOCK FALSE
