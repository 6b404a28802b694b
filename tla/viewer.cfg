SPECIFICATION ViewerSpec
CONSTANTS
  Settings = {"relay", "direct"}
  Relayed <- MCRelayed
  MaxChanges = 3
  Patient = TRUE
  None = None
  MaxRequests = 2
  MaxRestarts = 1
  Guid = {a, b}
  MaxPlugs = 2
INVARIANTS InForce NoConflict CleanExit MenuUsable
PROPERTIES WaitingEnds GamepadsServed
CHECK_DEADLOCK FALSE
