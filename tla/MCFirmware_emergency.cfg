SPECIFICATION FairSpec
CONSTANTS
  p1 = p1
  Points <- McPoints
  MAX_TRAJ_LENGTH = 2
  ANTENNA_MESSAGE_LENGTH = 2
  MaxPoint = 3
  OrderFifoSize = 2
  LogFifoSize = 2
  MaxTime = 1
  ANTICIPATION_TIME_BEFORE_TRACKING = 0
  PcMessages <- FirmwareMessages
  CrcErrors = FALSE
  ButtonPressed = TRUE
  AntennaHeaders = {}
  GpsDates = {}
  GpsNoise = FALSE
INVARIANTS EmergencyFirst EmergencyCycle
PROPERTIES ImplementsModes OnlySurvivalWhileAsked ServesEmergencies EmergencyReported WaitingEnds
CHECK_DEADLOCK FALSE
