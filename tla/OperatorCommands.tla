-------------------------- MODULE OperatorCommands --------------------------
(***************************************************************************)
(* The six small programs of EasyComTools.  Each writes one message to the *)
(* pipe of the communication server and ends; the operator may run any of  *)
(* them whenever he likes, also while the automatic client executes a      *)
(* mission.                                                                *)
(***************************************************************************)
EXTENDS Messages

CONSTANTS GotoFrame,     \* computeAntennaMessage in the mode POSITION
          StatusFrame    \* with the power of PUISSANCE_STATUS added

ASSUME CommandFramesAssumption == {GotoFrame, StatusFrame} \subseteq Points

AskSurvie          == Message(ID_MSG_ORDER_SURVIE, ZeroFrame, 0)
AskCalage          == Message(ID_MSG_ORDER_CALAGE, ZeroFrame, 0)
AskDeactivatePower == Message(ID_MSG_ORDER_DESACTIVATE, ZeroFrame, 0)

AskGoTo   == Message(ID_MSG_ORDER_ANTENNA, GotoFrame, 0)
AskStatus == Message(ID_MSG_ORDER_ANTENNA, StatusFrame, 0)

\* An elevation of 0 is below MIN_EL_ANGLE, so that the frame has the steps
\* 0 and 0: its bytes are those of ANTENNA_REINI (see AntennaFrames).
AskStandby == Message(ID_MSG_ORDER_ANTENNA, ANTENNA_REINI, 0)

Commands ==
  {AskSurvie, AskCalage, AskDeactivatePower, AskGoTo, AskStatus, AskStandby}
=============================================================================
