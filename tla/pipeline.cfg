SPECIFICATION FairPipelineSpec
CONSTANTS
  Client = {c1, c2}
  Main = main
  Branch = {b1, b2}
  MaxIdle = 1
  GoOn = FALSE
  DiskFails = FALSE
  None = None
  MaxFrames = 4
  SizeBuffers = 1
  SizeUdp = 1
  Depth = 2
  MaxLost = 1
  Timing = TRUE
INVARIANTS  TimesOwn
PROPERTIES FilesComplete StopsAtLast QueueRecovers
CHECK_DEADLOCK FALSE
