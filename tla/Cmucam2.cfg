SPECIFICATION Spec
CONSTANTS
  Commands <- MCCommands
  Rows = 1
  FifoLen = 4
  MaxCmds = 2
  StopCRs = 2
  SERVO_MAX = 4
  ServoStep = 2
INVARIANTS FrameRestored MemoryReturned InTurn
PROPERTIES StillAtCentre PromptReturns
\* The host may have sent all its commands, and the program waits.
CHECK_DEADLOCK FALSE
