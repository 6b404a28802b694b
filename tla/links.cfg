SPECIFICATION LinkSpec
CONSTANTS
  Capacity = 2
  QueueSize = 2
  MaxMessages = 3
  MaxRetries = 1
  MaxConns = 2
  MaxUp = 2
  MaxDown = 2
  MaxFaults = 1
  Backlog = 2
PROPERTIES ControlsInOrder InOrder ServedAndStopped
CHECK_DEADLOCK FALSE
