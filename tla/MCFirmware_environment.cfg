SPECIFICATION Spec
CONSTANTS
  p1 = p1
  Points <- McPoints
  MAX_TRAJ_LENGTH = 1
  ANTENNA_MESSAGE_LENGTH = 1
  MaxPoint = 2
  OrderFifoSize = 1
  LogFifoSize = 2
  MaxTime = 1
  ANTICIPATION_TIME_BEFORE_TRACKING = 0
  PcMessages <- AllMessages
  CrcErrors = TRUE
  ButtonPressed = FALSE
  AntennaHeaders = {"good", "bad"}
  GpsDates = {0}
  GpsNoise = TRUE
INVARIANTS TypeOK ObjectsAccounted StateReported
CHECK_DEADLOCK FALSE
