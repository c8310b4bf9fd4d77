----------------------------- MODULE MCFirmware -----------------------------
(***************************************************************************)
(* Message sets for the runs of Firmware.                                  *)
(***************************************************************************)
EXTENDS Firmware

CONSTANT p1              \* a pointing frame

McPoints == {p1}

Order(id)    == Message(id, ZeroFrame, 0)
Survie       == Order(ID_MSG_ORDER_SURVIE)
SurvieFrame  == Message(ID_MSG_ORDER_ANTENNA, ANTENNA_SURVIE, 0)
Pointing     == Message(ID_MSG_ORDER_ANTENNA, p1, 0)
DoTraj(date) == Message(ID_MSG_ORDER_DO_TRAJ_AT_DATE, ZeroFrame, date)
SetLength(n) == Message(ID_MSG_ORDER_TRAJ_SET_LENGTH, ZeroFrame, n)
AddPoint     == Message(ID_MSG_ORDER_TRAJ_SET_NEW_POINT, p1, 0)

\* One message of every kind, with an unknown identifier of each range
AllMessages ==
  {Survie, DoTraj(0), SetLength(1), AddPoint,
   Order(ID_MSG_ORDER_TRAJ_REINI), Order(ID_MSG_ORDER_TRAJ_CHECK_CORRECT),
   Order(7), Order(40), Order(ID_MSG_LOG_ANTENNA_RETURN)}

\* Orders alone: an emergency in its two forms, an antenna frame, trajectories
\* to wait for and to come too late for
FirmwareMessages == {Survie, SurvieFrame, Pointing, DoTraj(0), DoTraj(1)}
=============================================================================
