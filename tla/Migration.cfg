SPECIFICATION Spec
CONSTANTS
  Rows = 3
  Traces = {f1, f2}
  Texts = {m1, m2}
  Times = {1, 2}
  None = None
SYMMETRY MCSymmetry
INVARIANTS
  TypeOK
  Settled
  StaysTogether
  NothingLost
  ChangedIsFlagged
