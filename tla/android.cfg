SPECIFICATION FairSpec
CONSTANTS
  MaxAttempts = 2
  MaxChanges = 4
  MaxStarts = 3
  Careful = TRUE
  MaxRetries = 1
  MaxReplaced = 1
  Patient = TRUE
  ClockSteps = FALSE
  MaxRestarts = 2
  MaxFaults = 2
  Prompt = TRUE
INVARIANTS  NotFreedInUse
PROPERTIES Connects PictureRecovers
CHECK_DEADLOCK FALSE
