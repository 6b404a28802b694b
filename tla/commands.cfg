SPECIFICATION FairCommandSpec
CONSTANTS
  Command = {"trim", "record", "odd"}
  Unsendable <- MCUnsendable
  MaxRetries = 2
  MaxWorkers = 2
  Worker = {w1}
  ClientTimeout = 0
  ServerTimeout = 1
  Prompt = FALSE
INVARIANTS AnsweredConsistently SuccessMeansReceived ExecutedOnce
PROPERTY Answered
CHECK_DEADLOCK FALSE
