------------------------------ MODULE PcSerial ------------------------------
(***************************************************************************)
(* The two threads of the PC link.  pcRxThread handles each message whose  *)
(* CRC is right: it loads the trajectory itself and posts the orders to    *)
(* the antenna thread.  pcTxThread sends the logs, in order, to the PC.    *)
(***************************************************************************)
EXTENDS Board

VARIABLES transmitting,    \* log object pcTxThread holds while it writes, or NoObject
          reported         \* history: the state of the antenna thread that the
                           \* logs already sent tell the PC

pcVars == <<transmitting, reported>>

NoObject == [id |-> -2, value |-> 0]

PcInit == transmitting = NoObject /\ reported = "NOMINAL"

PcCrash == LogCrash /\ UNCHANGED pcVars

\* A handler whose only effect is one log
JustLog(entry) ==
  \/ /\ writeLogToFifo(entry)
     /\ UNCHANGED <<orderVars, trajVars, rtc, antenna, panic, pcVars>>
  \/ PcCrash

(* readMessage returned 0                                                   *)
ReceiveCrcError == Running /\ JustLog(Log(ID_MSG_ALERT_CRC_ERROR))

CommunIds == 0 .. (FIRST_ORDER_TRAJ_ID - 1)
TrajIds   == FIRST_ORDER_TRAJ_ID .. (FIRST_ERROR_ID - 1)

KnownCommunIds == {ID_MSG_ORDER_SURVIE, ID_MSG_ORDER_DESACTIVATE, ID_MSG_ORDER_REINI,
                   ID_MSG_ORDER_CALAGE, ID_MSG_ORDER_GOTO, ID_MSG_ORDER_ANTENNA,
                   ID_MSG_ORDER_DO_TRAJ_AT_DATE}
KnownTrajIds == {ID_MSG_ORDER_TRAJ_SET_LENGTH, ID_MSG_ORDER_TRAJ_SET_NEW_POINT,
                 ID_MSG_ORDER_TRAJ_REINI, ID_MSG_ORDER_TRAJ_CHECK_CORRECT}

(* The three ways an identifier can be wrong: handleIncomingMessage's test, *)
(* and the default cases of handleTrajectory and handleCommunMessage.       *)
HandleWrongId(m) ==
  /\ Running
  /\ \/ m.id >= FIRST_ERROR_ID
     \/ m.id \in TrajIds \ KnownTrajIds
     \/ m.id \in CommunIds \ KnownCommunIds
  /\ JustLog(Log(ID_MSG_ALERT_BAD_MESSAGE_ID))

(* handleTrajectory: the table is written whatever the antenna thread does. *)
HandleTrajSetLength(m) ==
  /\ Running /\ m.id = ID_MSG_ORDER_TRAJ_SET_LENGTH
  /\ trajSetLength(m.value)
  /\ UNCHANGED <<orderVars, logVars, rtc, antenna, panic, pcVars>>

HandleTrajSetNewPoint(m) ==
  /\ Running /\ m.id = ID_MSG_ORDER_TRAJ_SET_NEW_POINT
  /\ \/ /\ trajAddPoint(m.frame)
        /\ UNCHANGED <<orderVars, logVars, rtc, antenna, panic, pcVars>>
     \/ WildStore /\ Stop("wild") /\ UNCHANGED pcVars

HandleTrajReini(m) ==
  /\ Running /\ m.id = ID_MSG_ORDER_TRAJ_REINI
  /\ trajInit(rtc)
  /\ UNCHANGED <<orderVars, logVars, rtc, antenna, panic, pcVars>>

HandleTrajCheckCorrect(m) ==
  /\ Running /\ m.id = ID_MSG_ORDER_TRAJ_CHECK_CORRECT
  /\ JustLog([id    |-> ID_MSG_LOG_TRAJ_RESPONSE_CORRECT,
              value |-> IF trajCheckCorrectLength THEN 1 ELSE 0])

(* handleCommunMessage: an emergency in either of its two forms goes ahead  *)
(* of the queue ...                                                         *)
HandleEmergency(m) ==
  /\ Running /\ IsEmergency(m)
  /\ \/ /\ writeEmergencyToOrder
        /\ UNCHANGED <<logVars, trajVars, rtc, antenna, panic, pcVars>>
     \/ OrderCrash /\ UNCHANGED pcVars

\* What handleCommunMessage makes of the orders that are antenna messages
Converted(m) ==
  CASE m.id = ID_MSG_ORDER_DESACTIVATE -> Message(ID_MSG_ORDER_ANTENNA, ANTENNA_DESACTIVATE, 0)
    [] m.id = ID_MSG_ORDER_REINI       -> Message(ID_MSG_ORDER_ANTENNA, ANTENNA_REINI, 0)
    [] m.id = ID_MSG_ORDER_CALAGE      -> Message(ID_MSG_ORDER_ANTENNA, ANTENNA_CALLAGE, 0)
    [] OTHER                           -> m

(* ... and every other order behind it.                                     *)
HandleOrder(m) ==
  /\ Running /\ m.id \in KnownCommunIds /\ ~IsEmergency(m)
  /\ \/ /\ OrderFifo!SendObject(Converted(m))
        /\ UNCHANGED <<logVars, trajVars, rtc, antenna, panic, pcVars>>
     \/ OrderCrash /\ UNCHANGED pcVars

handleIncomingMessage(m) ==
  \/ HandleWrongId(m)
  \/ HandleTrajSetLength(m) \/ HandleTrajSetNewPoint(m)
  \/ HandleTrajReini(m) \/ HandleTrajCheckCorrect(m)
  \/ HandleEmergency(m) \/ HandleOrder(m)

-----------------------------------------------------------------------------
\* What a log tells of the antenna thread's state: every change of state is
\* followed, before the thread blocks, by exactly one of these.
TellingIds ==
  {ID_MSG_ALERT_ANTENNA_EMERGENCY, ID_MSG_LOG_TRAJ_BEGIN_TRAJECTORY,
   ID_MSG_LOG_TRAJ_WAITING_TRAJECTORY, ID_MSG_ALERT_TRAJECTORY_DROPPED,
   ID_MSG_LOG_TRAJ_FINISH_TRAJECTORY, ID_MSG_LOG_EXIT_EMERGENCY}

StateTold(id) ==
  CASE id = ID_MSG_ALERT_ANTENNA_EMERGENCY     -> "EMERGENCY"
    [] id = ID_MSG_LOG_TRAJ_BEGIN_TRAJECTORY   -> "PROCESS_TRAJ"
    [] id = ID_MSG_LOG_TRAJ_WAITING_TRAJECTORY -> "WAITING_TIME"
    [] OTHER                                   -> "NOMINAL"

Holds == transmitting # NoObject

(* chFifoReceiveObjectTimeout(TIME_INFINITE), then sdWrite, which blocks    *)
(* while the output queue of the serial driver is full                      *)
PcTxReceive ==
  /\ Running /\ ~Holds
  /\ LogFifo!ReceiveObject
  /\ transmitting' = Head(logMbx)
  /\ UNCHANGED <<orderVars, trajVars, rtc, antenna, panic, reported>>

\* Faulty variant: the object is not returned to the pool.
PcTxReturnNothing ==
  /\ Running /\ Holds /\ transmitting # NullObject
  /\ transmitting' = NoObject
  /\ reported' = IF transmitting.id \in TellingIds THEN StateTold(transmitting.id)
                                                   ELSE reported
  /\ UNCHANGED <<logVars, orderVars, trajVars, rtc, antenna, panic>>

(* sdWrite is done; the object goes back to the pool.                       *)
PcTxReturn ==
  /\ Running /\ Holds /\ transmitting # NullObject
  /\ LogFifo!ReturnObject
  /\ transmitting' = NoObject
  /\ reported' = IF transmitting.id \in TellingIds THEN StateTold(transmitting.id)
                                                   ELSE reported
  /\ UNCHANGED <<orderVars, trajVars, rtc, antenna, panic>>

(* chFifoReturnObject(NULL) fails the parameter check of the pool.          *)
PcTxReturnNull ==
  /\ Running /\ transmitting = NullObject
  /\ Stop("log")
  /\ UNCHANGED pcVars

PcTxNext == PcTxReceive \/ PcTxReturn \/ PcTxReturnNull
=============================================================================
