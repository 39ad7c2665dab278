SPECIFICATION Spec
CONSTANTS
  Groups = {g1}
  Spawned = {t1}
  None = None
  MaxEditFailures = 2
  Unhandled = FALSE
  MissingChannel = FALSE
  MaxVersion = 3
  MaxMessages = 2
  MaxRestarts = 0

INVARIANTS
  StaleIsFlagged
