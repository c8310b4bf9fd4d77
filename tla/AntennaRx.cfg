SPECIFICATION ReceptionSpec
CONSTANTS
  ANTENNA_MESSAGE_LENGTH = 12
  LOG_LENGTH = 23
  SERIAL_BUFFERS_SIZE = 320
  FIFO_BUFFER_SIZE = 20
  DRAIN = 6
  TIMEOUT_BYTES = 48
  MaxNoise = 19
  MaxAnswers = 2
  MaxOthers = 2
INVARIANTS Connected LogsKept AnswersHeard
PROPERTY AllRun
