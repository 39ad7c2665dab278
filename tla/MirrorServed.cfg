SPECIFICATION FairSpec
CONSTANTS
  Groups = {g1}
  Spawned = {t1}
  None = None
  MaxEditFailures = 2
  Unhandled = FALSE
  MissingChannel = FALSE
  MaxVersion = 2
  MaxMessages = 2
  MaxRestarts = 1

PROPERTIES
  FlagIsServed
