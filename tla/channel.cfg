SPECIFICATION FairChannelSpec
CONSTANTS
  Command = {"trim", "odd"}
  Unsendable <- MCUnsendable
  MaxRetries = 1
  MaxWorkers = 1
  Worker = {w1}
  ClientTimeout = 0
  ServerTimeout = 1
  Prompt = FALSE
PROPERTIES  ClientRecovers CutNoticed
