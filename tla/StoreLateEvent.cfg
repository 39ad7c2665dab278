SPECIFICATION Spec
CONSTANTS
  Groups = {g1}
  Servers = {s1}
  Hour = 2
  Window = 2
  PurgeWindows = {1}
  Skew = 1
  RawCap = 1
  MaxEvents = 3
  MaxTime = 3
PROPERTIES
  OnlyUnseenExpire
