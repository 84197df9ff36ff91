SPECIFICATION FairSpec
CONSTANTS
  Servos = {0, 1}
  RES = 2
  PERIOD = 4
  Positions = {2}
  Modes = {"INPUT", "SERVO"}
  MaxLate = 1
  MaxService = 1
INVARIANTS PulseBounded OffIsLow ServosDrive
PROPERTIES PulseIsPosition ServosKeepMoving
