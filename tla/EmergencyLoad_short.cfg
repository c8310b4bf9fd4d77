SPECIFICATION Spec
CONSTANTS
  FIFO_BUFFER_SIZE = 20
  USER_BUTTON_TIMEOUT = 3
  PulsePeriod = 20
  EMERGENCY_TIMEOUT = 200
  MaxAsked = 21
INVARIANT OrdersKept
PROPERTY SurvivalsEnd
