SPECIFICATION Spec
CONSTANTS
  User = {"g", "h", "i"}
  Guest = {"g"}
  Member = {"h"}
  Slot = {s1, s2}
  MaxMessages = 2
  MaxIds = 2
  MaxBreaks = 1
  None = None
SYMMETRY Handlers
INVARIANTS Delivered DrivesAgree 
CHECK_DEADLOCK FALSE
