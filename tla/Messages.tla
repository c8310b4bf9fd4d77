------------------------------ MODULE Messages ------------------------------
(***************************************************************************)
(* The vocabulary of the PC <-> microcontroller protocol: the identifiers  *)
(* of Messages/messages.h, the thresholds that classify them, and the      *)
(* records that stand for the two C message types.                         *)
(*                                                                         *)
(* The union ARGS is kept as two fields: "frame" for the twelve bytes of   *)
(* an antenna message, "value" for the number that a date (in seconds) or  *)
(* a trajectory length decodes to.  A message uses at most one of them.    *)
(***************************************************************************)
EXTENDS Integers

CONSTANT Points          \* the pointing frames a trajectory may contain

ID_MSG_ORDER_SURVIE             == 0
ID_MSG_ORDER_DESACTIVATE        == 1
ID_MSG_ORDER_REINI              == 2
ID_MSG_ORDER_CALAGE             == 3
ID_MSG_ORDER_GOTO               == 4
ID_MSG_ORDER_ANTENNA            == 5
ID_MSG_ORDER_DO_TRAJ_AT_DATE    == 6

FIRST_ORDER_TRAJ_ID             == 30
ID_MSG_ORDER_TRAJ_SET_LENGTH    == FIRST_ORDER_TRAJ_ID
ID_MSG_ORDER_TRAJ_SET_NEW_POINT == 31
ID_MSG_ORDER_TRAJ_REINI         == 32
ID_MSG_ORDER_TRAJ_CHECK_CORRECT == 33

FIRST_ERROR_ID                    == 50
ID_MSG_ALERT_CRC_ERROR            == FIRST_ERROR_ID
ID_MSG_ALERT_BAD_ANTENNA_RESPONSE == 51
ID_MSG_ALERT_BAD_MESSAGE_ID       == 52
ID_MSG_ALERT_NO_1PPS              == 53
ID_MSG_ALERT_WRONG_GPS_MESSAGE    == 54
ID_MSG_ALERT_MESSAGE_DROPPED      == 55
ID_MSG_ALERT_TRAJECTORY_DROPPED   == 56
ID_MSG_ALERT_ANTENNA_EMERGENCY    == 57

ID_MSG_LOG_ANTENNA_RETURN          == 80
ID_MSG_LOG_TRAJ_RESPONSE_CORRECT   == 82
ID_MSG_LOG_TRAJ_BEGIN_TRAJECTORY   == 83
ID_MSG_LOG_TRAJ_WAITING_TRAJECTORY == 84
ID_MSG_LOG_TRAJ_FINISH_TRAJECTORY  == 85
ID_MSG_LOG_EXIT_EMERGENCY          == 86

ID_MSG_LOG_REEMIT_OFFSET == 150

Byte == 0..255

\* The frames the firmware knows by name (TrameAntennaConstructor.h), the
\* zero bytes of a cleared trajectory entry, and bytes read from outside the
\* trajectory table.
ANTENNA_SURVIE      == "SURVIE"
ANTENNA_DESACTIVATE == "DESACTIVATE"
ANTENNA_REINI       == "REINI"
ANTENNA_CALLAGE     == "CALLAGE"
ZeroFrame           == "zeros"
GarbageFrame        == "garbage"
BasicFrames == {ANTENNA_SURVIE, ANTENNA_DESACTIVATE, ANTENNA_REINI,
                ANTENNA_CALLAGE, ZeroFrame, GarbageFrame}
Frames == Points \cup BasicFrames

ASSUME PointsAssumption == Points \cap BasicFrames = {}

SimpleMessage == [id : Byte, frame : Frames, value : Nat]
Message(i, f, v) == [id |-> i, frame |-> f, value |-> v]

\* The log entries of fifo_log: identifier and, for the one log that carries
\* a boolean, its value.  NullObject is the NULL pointer in a mailbox slot.
LogEntry == [id : Byte, value : {0, 1}]
Log(i) == [id |-> i, value |-> 0]
NullObject == [id |-> -1, value |-> 0]

\* testEmergencyStop's condition, also handleCommunMessage's for ORDER_ANTENNA
IsEmergency(m) ==
  \/ m.id = ID_MSG_ORDER_SURVIE
  \/ m.id = ID_MSG_ORDER_ANTENNA /\ m.frame = ANTENNA_SURVIE

\* The log with which antennaTxThread echoes an order: uint8_t arithmetic
Echo(m) == Log((m.id + ID_MSG_LOG_REEMIT_OFFSET) % 256)
=============================================================================
