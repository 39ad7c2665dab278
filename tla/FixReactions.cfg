SPECIFICATION Spec
CONSTANTS
  Jobs = {j1, j2}
  None = None
  MaxMessages = 1
  MaxEnds = 2
  Reports = {"success", "declined"}
  MaxWrenches = 1
  MaxFaults = 1
INVARIANTS TypeOK NoneLingers OutcomeEarned EveryEndTold CancelledOnce WrenchGoes
SYMMETRY JobSymmetry
CHECK_DEADLOCK FALSE
