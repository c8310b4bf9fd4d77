SPECIFICATION TargetingSpec
CONSTANTS
  Points <- McPoints
  Position <- McPosition
  Ephemeris <- McEphemeris
  Missions <- TwoMissions
  PREPARATION_TIME = 900
  LoadingMargin = 13
  TIME_BEFORE_REINI_AND_CALAGE = 2
  EMERGENCY_SEC_TIMEOUT = 2
  MAX_TRAJ_LENGTH = 4
  ANTENNA_MESSAGE_LENGTH = 4
  MaxPoint = 6
  OrderFifoSize = 8
  LogFifoSize = 5
  Faults = {"button", "command", "lost", "corrupted", "silent", "restart"}
  MaxFaults = 1
  MaxSlips = 0
  MaxTime = 31
  ANTICIPATION_TIME_BEFORE_TRACKING = 4
  PcMessages <- Commands
  GotoFrame = "goto"
  StatusFrame = "status"
  CrcErrors = FALSE
  ButtonPressed = TRUE
  AntennaHeaders = {}
  GpsDates = {}
  GpsNoise = FALSE
INVARIANTS FramesInOrder LoadedBeforePlayed CheckTells
CHECK_DEADLOCK FALSE
