SPECIFICATION StreamerSpec
CONSTANTS
  Connection = {k1, k2}
  MaxRequests = 3
  MaxRetries = 2
  Slow = FALSE
  QpMin = 20
  QpMax = 32
  MaxBytes = 200
  MinStep = 1
  MaxStep = 5
  Cooldown = 1
  Scenes = {120, 190, 230, 600, 1500}
  MaxChanges = 2
  MaxFaults = 1
  MaxBuilt = 1
  SimInterval = 2
  MaxTurns = 1
  MaxMisses = 1
PROPERTIES SizesSettle  EndsAtRest DisplaysWorld
CHECK_DEADLOCK FALSE
