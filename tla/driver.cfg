SPECIFICATION DriverSpec
CONSTANTS
  MaxBuffer = 3
  Target = 1
  MaxOld = 1
  Port = {p1, p2}
  None = None
  Friction = 3
  MaxStep = 10
  HoldRamp = 2
  HoldInterval = 5
  MinTapInterval = 3
  Window = 2
  Centering = 4
  Cooldown = 3
  MaxVal = 20
  MaxInterval = 7
  Raw = {0, 1, 2}
  Deadbands = {20}
  Ids = {r1, r2}
  NoId = r0
  Patient = TRUE
  MaxEdits = 2
INVARIANTS FramesOwn DriveObeyed
PROPERTIES PictureFollows 
CHECK_DEADLOCK FALSE
