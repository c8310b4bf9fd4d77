--------------------------- MODULE FirmwareProofs ---------------------------
(***************************************************************************)
(* Type correctness of Firmware, for every size of the FIFOs and of the    *)
(* trajectory table, every set of messages and every environment; the      *)
(* lemmas on its operations that the other proofs share; and emergencies   *)
(* come first: in Fifo_order, in the cycle of the antenna thread, on the   *)
(* antenna line, and so in the modes that the operator sees (the           *)
(* refinement of AntennaModes).  No object of the FIFOs is lost, and the   *)
(* logs that are on their way tell the state of the antenna thread.        *)
(***************************************************************************)
EXTENDS Firmware, SequenceTheorems, WellFoundedInduction, TLAPS

-----------------------------------------------------------------------------
(* Appending to, pushing onto and taking from a queue keeps it a queue.     *)
LEMMA QueueOps ==
  ASSUME NEW S, NEW q \in Seq(S), NEW x \in S
  PROVE  /\ Append(q, x) \in Seq(S)
         /\ <<x>> \o q \in Seq(S)
         /\ q # <<>> => Tail(q) \in Seq(S) /\ Head(q) \in S
<1>1. <<x>> \in Seq(S)
  OBVIOUS
<1>2. <<x>> \o q \in Seq(S)
  BY <1>1
<1> QED BY <1>2

(* A queue seen through its indices.                                        *)
LEMMA QueueIndices ==
  ASSUME NEW S, NEW q \in Seq(S), NEW x \in S
  PROVE  /\ Len(Append(q, x)) = Len(q) + 1
         /\ \A i \in 1 .. Len(q) : Append(q, x)[i] = q[i]
         /\ Append(q, x)[Len(q) + 1] = x
         /\ Len(<<x>> \o q) = Len(q) + 1
         /\ (<<x>> \o q)[1] = x
         /\ \A i \in 2 .. (Len(q) + 1) : (<<x>> \o q)[i] = q[i - 1]
         /\ q # <<>> => /\ Len(q) > 0 /\ Len(Tail(q)) = Len(q) - 1
                        /\ Head(q) = q[1]
                        /\ \A i \in 1 .. (Len(q) - 1) : Tail(q)[i] = q[i + 1]
<1>1. <<x>> \in Seq(S) /\ Len(<<x>>) = 1 /\ <<x>>[1] = x
  OBVIOUS
<1>2. /\ Len(<<x>> \o q) = Len(q) + 1
      /\ (<<x>> \o q)[1] = x
      /\ \A i \in 2 .. (Len(q) + 1) : (<<x>> \o q)[i] = q[i - 1]
  BY <1>1, ConcatProperties
<1>3. q # <<>> => /\ Len(q) > 0 /\ Len(Tail(q)) = Len(q) - 1
                  /\ Head(q) = q[1]
                  /\ \A i \in 1 .. (Len(q) - 1) : Tail(q)[i] = q[i + 1]
  OBVIOUS
<1>4. /\ Len(Append(q, x)) = Len(q) + 1
      /\ \A i \in 1 .. Len(q) : Append(q, x)[i] = q[i]
      /\ Append(q, x)[Len(q) + 1] = x
  OBVIOUS
<1> QED BY <1>2, <1>3, <1>4

(* What writeLogToFifo does to Fifo_log keeps its type.                     *)
LEMMA WriteLogType ==
  ASSUME LogsTypeOK, NEW entry \in LogEntry, writeLogToFifo(entry)
  PROVE  LogsTypeOK'
<1>1. CASE LogFifo!SendObject(entry)
  BY <1>1, QueueOps DEF LogFifo!SendObject, LogFifo!CanTake, LogsTypeOK
<1>2. CASE LogFifo!SendNull
  BY <1>2, QueueOps DEF LogFifo!SendNull, LogsTypeOK
<1> QED BY <1>1, <1>2 DEF writeLogToFifo

(* Every log the firmware builds is a log entry.                            *)
LEMMA LogType == ASSUME NEW i \in Byte PROVE Log(i) \in LogEntry
BY DEF Log, LogEntry

LEMMA EchoType == ASSUME NEW m \in SimpleMessage PROVE Echo(m) \in LogEntry
BY DEF Echo, Log, LogEntry, Byte, SimpleMessage, ID_MSG_LOG_REEMIT_OFFSET

(* The frames written to the antenna are frames, also the one read from     *)
(* outside the trajectory table.                                            *)
LEMMA FrameTypes ==
  /\ {ANTENNA_SURVIE, ANTENNA_DESACTIVATE, ANTENNA_REINI, ANTENNA_CALLAGE,
      ZeroFrame, GarbageFrame} \subseteq Frames
  /\ TrajTypeOK => \A i \in Int : Target(i) \in Frames
BY DEF Frames, BasicFrames, Target, TrajTypeOK

LEMMA AdvanceType == ASSUME NEW n \in -1 .. MaxPoint
                     PROVE  Advance(n) \in -1 .. MaxPoint
BY TrajectoryAssumption DEF Advance

(* Each operation on the trajectory keeps its type.                         *)
LEMMA TrajectoryOpsType ==
  ASSUME TrajTypeOK, NEW now \in Nat, NEW f \in Frames
  PROVE  /\ trajInit(now) => TrajTypeOK'
         /\ trajSetLength(now) => TrajTypeOK'
         /\ trajAddPoint(f) => TrajTypeOK'
         /\ trajGetNextTarget => TrajTypeOK'
         /\ trajPrepareAtDate(now) => TrajTypeOK'
<1>1. trajInit(now) => TrajTypeOK'
  BY FrameTypes, TrajectoryAssumption DEF trajInit, TrajTypeOK
<1>2. trajSetLength(now) => TrajTypeOK'
  BY TrajectoryAssumption DEF trajSetLength, TrajTypeOK
<1>3. trajAddPoint(f) => TrajTypeOK'
  BY AdvanceType DEF trajAddPoint, TrajTypeOK
<1>4. trajGetNextTarget => TrajTypeOK'
  BY AdvanceType DEF trajGetNextTarget, TrajTypeOK
<1>5. trajPrepareAtDate(now) => TrajTypeOK'
  BY AdvanceType, TrajectoryAssumption DEF trajPrepareAtDate, TrajTypeOK
<1> QED BY <1>1, <1>2, <1>3, <1>4, <1>5

(* A failed post or a wild store changes nothing but panic.                 *)
LEMMA StopType ==
  ASSUME TypeOK, NEW cause \in {"order", "log", "wild"}, Stop(cause),
         UNCHANGED <<txVars, pcVars>>
  PROVE  TypeOK'
BY DEF TypeOK, OrdersTypeOK, LogsTypeOK, TrajTypeOK, LinesTypeOK, TxTypeOK,
       PcTypeOK, Stop, orderVars, logVars, trajVars, txVars, pcVars

-----------------------------------------------------------------------------
LEMMA InitTypeOK == Init => TypeOK
BY BoardAssumption, TrajectoryAssumption
   DEF Init, BoardInit, TxInit, PcInit, TypeOK, OrdersTypeOK, LogsTypeOK,
       TrajTypeOK, LinesTypeOK, TxTypeOK, PcTypeOK, OrderFifo!Init,
       LogFifo!Init, TrajectoryInit, Time, Frames, BasicFrames, ZeroFrame,
       States, NOMINAL, NoInput, Message, SimpleMessage, Byte, NoObject

(* The steps of the antenna transmission thread keep the types.             *)
LEMMA TxThreadType == ASSUME TypeOK, TxThread PROVE TypeOK'
<1> USE DEF TypeOK, TxTypeOK, orderVars, logVars, boardVars
<1>1. UNCHANGED pcVars /\ PcTypeOK'
  BY DEF TxThread, pcVars, PcTypeOK
<1>2. CASE PpsEdge
  BY <1>1, <1>2 DEF PpsEdge, OrdersTypeOK, LogsTypeOK, TrajTypeOK, LinesTypeOK, trajVars
<1>3. CASE NoOrder
  BY <1>1, <1>3 DEF NoOrder, OrdersTypeOK, LogsTypeOK, TrajTypeOK, LinesTypeOK, trajVars
<1>4. CASE NominalBehaviour
  BY <1>1, <1>4 DEF NominalBehaviour, OrdersTypeOK, LogsTypeOK, TrajTypeOK, LinesTypeOK, trajVars
<1>5. CASE TxCrash
  BY <1>1, <1>5, StopType DEF TxCrash, LogCrash
<1>6. CASE PpsTimeout
  <2>1. Log(ID_MSG_ALERT_NO_1PPS) \in LogEntry
    BY LogType DEF Byte, ID_MSG_ALERT_NO_1PPS
  <2> QED BY <1>1, <1>5, <1>6, <2>1, WriteLogType
          DEF PpsTimeout, OrdersTypeOK, TrajTypeOK, LinesTypeOK, trajVars
<1>7. CASE ReadOrder
  <2>1. Head(orderMbx) \in SimpleMessage /\ Tail(orderMbx) \in Seq(SimpleMessage)
    BY <1>7, QueueOps DEF ReadOrder, OrdersTypeOK
  <2>2. Echo(Head(orderMbx)) \in LogEntry
    BY <2>1, EchoType
  <2>3. OrderFifo!ReceiveAndReturn => OrdersTypeOK'
    BY <2>1 DEF OrderFifo!ReceiveAndReturn, OrdersTypeOK
  <2> QED BY <1>1, <1>5, <1>7, <2>1, <2>2, <2>3, WriteLogType
          DEF ReadOrder, TrajTypeOK, LinesTypeOK, trajVars
<1>8. \A s \in States : Dispatched(s) => TxTypeOK'
  BY DEF Dispatched, NoInput, Message, SimpleMessage, Byte, Frames, BasicFrames, ZeroFrame
<1>9. States = {NOMINAL, WAITING_TIME, PROCESS_TRAJ, EMERGENCY}
  BY DEF States
<1>10. CASE DispatchEmergency
  <2>1. Log(ID_MSG_ALERT_ANTENNA_EMERGENCY) \in LogEntry
    BY LogType DEF Byte, ID_MSG_ALERT_ANTENNA_EMERGENCY
  <2> QED BY <1>1, <1>5, <1>8, <1>9, <1>10, <2>1, WriteLogType
          DEF DispatchEmergency, OrdersTypeOK, TrajTypeOK, LinesTypeOK, trajVars
<1>11. CASE DispatchDoTrajAtDate
  <2>1. input.value \in Nat /\ Target(0) \in Frames
    BY FrameTypes DEF SimpleMessage
  <2>2. TrajTypeOK'
    BY <1>11, <2>1, FrameTypes, TrajectoryOpsType DEF DispatchDoTrajAtDate
  <2> QED BY <1>1, <1>8, <1>9, <1>11, <2>1, <2>2
          DEF DispatchDoTrajAtDate, stmAntennaWriter, OrdersTypeOK, LogsTypeOK, LinesTypeOK
<1>12. CASE DispatchAntenna
  BY <1>1, <1>8, <1>12
  DEF DispatchAntenna, stmAntennaWriter, SimpleMessage, OrdersTypeOK, LogsTypeOK,
      TrajTypeOK, LinesTypeOK, trajVars
<1>13. CASE DispatchBadId
  <2>1. Log(ID_MSG_ALERT_BAD_MESSAGE_ID) \in LogEntry
    BY LogType DEF Byte, ID_MSG_ALERT_BAD_MESSAGE_ID
  <2> QED BY <1>1, <1>5, <1>8, <1>13, <2>1, WriteLogType
          DEF DispatchBadId, OrdersTypeOK, TrajTypeOK, LinesTypeOK, trajVars
<1>14. CASE DispatchDropped
  <2>1. Log(ID_MSG_ALERT_MESSAGE_DROPPED) \in LogEntry
    BY LogType DEF Byte, ID_MSG_ALERT_MESSAGE_DROPPED
  <2> QED BY <1>1, <1>5, <1>8, <1>14, <2>1, WriteLogType
          DEF DispatchDropped, OrdersTypeOK, TrajTypeOK, LinesTypeOK, trajVars
<1>15. CASE WaitingBehaviour
  <2>1. Log(WaitingOutcome.log) \in LogEntry /\ WaitingOutcome.next \in States
    BY <1>9, LogType DEF WaitingOutcome, Byte, ID_MSG_ALERT_TRAJECTORY_DROPPED,
       ID_MSG_LOG_TRAJ_BEGIN_TRAJECTORY, ID_MSG_LOG_TRAJ_WAITING_TRAJECTORY
  <2> QED BY <1>1, <1>5, <1>15, <2>1, WriteLogType
          DEF WaitingBehaviour, OrdersTypeOK, TrajTypeOK, LinesTypeOK, trajVars
<1>16. Target(current_point) \in Frames
  BY FrameTypes DEF TrajTypeOK
<1>17. CASE TrackingMidway
  <2>1. TrajTypeOK'
    BY <1>17, FrameTypes, TrajectoryOpsType DEF TrackingMidway
  <2> QED BY <1>1, <1>16, <1>17, <2>1
          DEF TrackingMidway, stmAntennaWriter, OrdersTypeOK, LogsTypeOK, LinesTypeOK
<1>18. CASE TrackingLast
  <2>1. Log(ID_MSG_LOG_TRAJ_FINISH_TRAJECTORY) \in LogEntry
    BY LogType DEF Byte, ID_MSG_LOG_TRAJ_FINISH_TRAJECTORY
  <2>2. rtc \in Nat
    BY BoardAssumption DEF LinesTypeOK, Time
  <2>3. trajInit(rtc) => TrajTypeOK'
    BY <2>2, FrameTypes, TrajectoryOpsType
  <2> QED BY <1>1, <1>5, <1>9, <1>16, <1>18, <2>1, <2>3, WriteLogType
          DEF TrackingLast, stmAntennaWriter, OrdersTypeOK, LinesTypeOK
<1>19. CASE EmergencyBegins
  BY <1>1, <1>19, FrameTypes
  DEF EmergencyBegins, stmAntennaWriter, OrdersTypeOK, LogsTypeOK, TrajTypeOK,
      LinesTypeOK, trajVars
<1>20. CASE EmergencyEnds
  <2>1. Log(ID_MSG_LOG_EXIT_EMERGENCY) \in LogEntry
    BY LogType DEF Byte, ID_MSG_LOG_EXIT_EMERGENCY
  <2> QED BY <1>1, <1>5, <1>9, <1>20, <2>1, WriteLogType
          DEF EmergencyEnds, OrdersTypeOK, TrajTypeOK, LinesTypeOK, trajVars
<1> QED BY <1>2, <1>3, <1>4, <1>6, <1>7, <1>10, <1>11, <1>12, <1>13, <1>14, <1>15,
           <1>17, <1>18, <1>19, <1>20 DEF TxThread, TxNext

(* A handler that only logs keeps the types.                                *)
LEMMA JustLogType ==
  ASSUME TypeOK, NEW entry \in LogEntry, JustLog(entry), UNCHANGED txVars
  PROVE  TypeOK'
<1>1. CASE PcCrash
  BY <1>1, StopType DEF PcCrash, LogCrash
<1>2. CASE ~PcCrash
  BY <1>2, WriteLogType DEF JustLog, TypeOK, OrdersTypeOK, TrajTypeOK, LinesTypeOK,
     TxTypeOK, PcTypeOK, orderVars, trajVars, txVars, pcVars
<1> QED BY <1>1, <1>2

(* What HandleOrder posts is a message.                                     *)
LEMMA ConvertedType == ASSUME NEW m \in SimpleMessage PROVE Converted(m) \in SimpleMessage
BY FrameTypes DEF Converted, Message, SimpleMessage, Byte, ID_MSG_ORDER_ANTENNA,
   ID_MSG_ORDER_DESACTIVATE, ID_MSG_ORDER_REINI, ID_MSG_ORDER_CALAGE

(* Posting an order, urgent or not, keeps the type of Fifo_order.           *)
LEMMA PostOrderType ==
  ASSUME OrdersTypeOK, NEW m \in SimpleMessage
  PROVE  /\ writeEmergencyToOrder => OrdersTypeOK'
         /\ OrderFifo!SendObject(m) => OrdersTypeOK'
<1>1. Message(ID_MSG_ORDER_SURVIE, ZeroFrame, 0) \in SimpleMessage
  BY FrameTypes DEF Message, SimpleMessage, Byte, ID_MSG_ORDER_SURVIE
<1>2. writeEmergencyToOrder => OrdersTypeOK'
  BY <1>1, QueueOps
  DEF writeEmergencyToOrder, OrderFifo!SendObjectAhead, OrderFifo!CanTake, OrdersTypeOK
<1>3. OrderFifo!SendObject(m) => OrdersTypeOK'
  BY QueueOps DEF OrderFifo!SendObject, OrderFifo!CanTake, OrdersTypeOK
<1> QED BY <1>2, <1>3

(* Handling a message from the PC keeps the types.                          *)
LEMMA HandleType ==
  ASSUME TypeOK, NEW m \in SimpleMessage, handleIncomingMessage(m), UNCHANGED txVars
  PROVE  TypeOK'
<1> USE DEF TypeOK
<1>1. TxTypeOK'
  BY DEF TxTypeOK, txVars
<1>2. UNCHANGED pcVars => PcTypeOK'
  BY DEF PcTypeOK, pcVars
<1>3. m.frame \in Frames /\ m.value \in Nat /\ rtc \in Nat
  BY BoardAssumption DEF SimpleMessage, LinesTypeOK, Time
<1>4. CASE HandleWrongId(m)
  <2>1. Log(ID_MSG_ALERT_BAD_MESSAGE_ID) \in LogEntry
    BY LogType DEF Byte, ID_MSG_ALERT_BAD_MESSAGE_ID
  <2> QED BY <1>4, <2>1, JustLogType DEF HandleWrongId
<1>5. CASE HandleTrajSetLength(m)
  BY <1>1, <1>2, <1>3, <1>5, TrajectoryOpsType
  DEF HandleTrajSetLength, OrdersTypeOK, LogsTypeOK, LinesTypeOK, orderVars, logVars
<1>6. CASE HandleTrajSetNewPoint(m)
  BY <1>1, <1>2, <1>3, <1>6, TrajectoryOpsType, StopType
  DEF HandleTrajSetNewPoint, OrdersTypeOK, LogsTypeOK, LinesTypeOK, orderVars, logVars
<1>7. CASE HandleTrajReini(m)
  BY <1>1, <1>2, <1>3, <1>7, TrajectoryOpsType
  DEF HandleTrajReini, OrdersTypeOK, LogsTypeOK, LinesTypeOK, orderVars, logVars
<1>8. CASE HandleTrajCheckCorrect(m)
  <2>1. [id    |-> ID_MSG_LOG_TRAJ_RESPONSE_CORRECT,
         value |-> IF trajCheckCorrectLength THEN 1 ELSE 0] \in LogEntry
    BY DEF LogEntry, Byte, ID_MSG_LOG_TRAJ_RESPONSE_CORRECT
  <2> QED BY <1>8, <2>1, JustLogType DEF HandleTrajCheckCorrect
<1>9. OrderCrash /\ UNCHANGED pcVars => TypeOK'
  BY StopType DEF OrderCrash
<1>10. CASE HandleEmergency(m)
  BY <1>1, <1>2, <1>9, <1>10, PostOrderType
  DEF HandleEmergency, LogsTypeOK, TrajTypeOK, LinesTypeOK, logVars, trajVars
<1>11. CASE HandleOrder(m)
  BY <1>1, <1>2, <1>9, <1>11, PostOrderType, ConvertedType
  DEF HandleOrder, LogsTypeOK, TrajTypeOK, LinesTypeOK, logVars, trajVars
<1> QED BY <1>4, <1>5, <1>6, <1>7, <1>8, <1>10, <1>11 DEF handleIncomingMessage

(* The steps of pcTxThread keep the types.                                  *)
LEMMA PcTxType == ASSUME TypeOK, PcTxNext, UNCHANGED txVars PROVE TypeOK'
<1> USE DEF TypeOK, OrdersTypeOK, TrajTypeOK, LinesTypeOK, TxTypeOK,
            orderVars, trajVars, txVars
<1>1. CASE PcTxReceive
  BY <1>1, QueueOps DEF PcTxReceive, LogFifo!ReceiveObject, LogsTypeOK, PcTypeOK
<1>2. CASE PcTxReturn
  <2>1. reported' \in States
    BY <1>2 DEF PcTxReturn, StateTold, PcTypeOK, States, NOMINAL, WAITING_TIME,
       PROCESS_TRAJ, EMERGENCY
  <2> QED BY <1>2, <2>1 DEF PcTxReturn, LogFifo!ReturnObject, LogsTypeOK, PcTypeOK
<1>3. CASE PcTxReturnNull
  BY <1>3, StopType DEF PcTxReturnNull
<1> QED BY <1>1, <1>2, <1>3 DEF PcTxNext

(* The steps of the other threads keep the types.                           *)
LEMMA OtherThreadType == ASSUME TypeOK, OtherThread PROVE TypeOK'
<1> USE DEF TypeOK
<1>1. UNCHANGED txVars /\ TxTypeOK'
  BY DEF OtherThread, TxTypeOK, txVars
<1>2. ASSUME PcReceives PROVE TypeOK'
  <2>1. Log(ID_MSG_ALERT_CRC_ERROR) \in LogEntry
    BY LogType DEF Byte, ID_MSG_ALERT_CRC_ERROR, FIRST_ERROR_ID
  <2>2. CASE CrcErrors /\ ReceiveCrcError
    BY <1>1, <2>1, <2>2, JustLogType DEF ReceiveCrcError
  <2>3. ASSUME NEW m \in PcMessages, handleIncomingMessage(m) PROVE TypeOK'
    BY <1>1, <2>3, HandleType, EnvironmentAssumption
  <2> QED BY <1>2, <2>2, <2>3 DEF PcReceives
<1>3. ASSUME UserButton PROVE TypeOK'
  <2>1. NoInput \in SimpleMessage
    BY FrameTypes DEF NoInput, Message, SimpleMessage, Byte
  <2> QED BY <1>1, <1>3, <2>1, PostOrderType, StopType
          DEF UserButton, OrderCrash, LogsTypeOK, TrajTypeOK, LinesTypeOK, PcTypeOK,
              logVars, trajVars, pcVars
<1>4. ASSUME AntennaAnswer PROVE TypeOK'
  <2>1. /\ Log(ID_MSG_LOG_ANTENNA_RETURN) \in LogEntry
        /\ Log(ID_MSG_ALERT_BAD_ANTENNA_RESPONSE) \in LogEntry
    BY LogType DEF Byte, ID_MSG_LOG_ANTENNA_RETURN, ID_MSG_ALERT_BAD_ANTENNA_RESPONSE
  <2>2. PICK header \in AntennaHeaders :
          JustLog(Log(IF header = "good" THEN ID_MSG_LOG_ANTENNA_RETURN
                                         ELSE ID_MSG_ALERT_BAD_ANTENNA_RESPONSE))
    BY <1>4 DEF AntennaAnswer
  <2>3. CASE header = "good"
    BY <1>1, <2>1, <2>2, <2>3, JustLogType
  <2>4. CASE header # "good"
    BY <1>1, <2>1, <2>2, <2>4, JustLogType
  <2> QED BY <2>3, <2>4
<1>5. ASSUME GpsSetsClock PROVE TypeOK'
  BY <1>1, <1>5, EnvironmentAssumption
  DEF GpsSetsClock, OrdersTypeOK, LogsTypeOK, TrajTypeOK, LinesTypeOK, PcTypeOK,
      orderVars, logVars, trajVars, pcVars
<1>6. ASSUME GpsWrongMessage PROVE TypeOK'
  <2>1. Log(ID_MSG_ALERT_WRONG_GPS_MESSAGE) \in LogEntry
    BY LogType DEF Byte, ID_MSG_ALERT_WRONG_GPS_MESSAGE
  <2> QED BY <1>1, <1>6, <2>1, JustLogType DEF GpsWrongMessage
<1>7. ASSUME PcTxNext PROVE TypeOK'
  BY <1>1, <1>7, PcTxType
<1> QED BY <1>2, <1>3, <1>4, <1>5, <1>6, <1>7 DEF OtherThread

(* Every step keeps the types.                                              *)
LEMMA NextTypeOK == TypeOK /\ [Next]_vars => TypeOK'
<1> SUFFICES ASSUME TypeOK, [Next]_vars PROVE TypeOK'
  OBVIOUS
<1>1. CASE ClockTick
  BY <1>1, BoardAssumption
  DEF ClockTick, TypeOK, OrdersTypeOK, LogsTypeOK, TrajTypeOK, LinesTypeOK, TxTypeOK,
      PcTypeOK, Time, orderVars, logVars, trajVars, txVars, pcVars
<1>2. CASE UNCHANGED vars
  BY <1>2 DEF vars, boardVars, TypeOK, OrdersTypeOK, LogsTypeOK, TrajTypeOK, LinesTypeOK,
     TxTypeOK, PcTypeOK, orderVars, logVars, trajVars, txVars, pcVars
<1> QED BY <1>1, <1>2, TxThreadType, OtherThreadType DEF Next

(* Whatever the sizes, the messages and the environment, the FIFOs hold     *)
(* messages and log entries, the index of the trajectory stays in its range *)
(* and the threads in their states.                                         *)
THEOREM TypeCorrect == Spec => []TypeOK
BY InitTypeOK, NextTypeOK, PTL DEF Spec

-----------------------------------------------------------------------------
(* An order that is no emergency goes behind the others.                    *)
LEMMA PostOrderFirst ==
  ASSUME OrdersTypeOK, EmergencyFirst, NEW m \in SimpleMessage, ~IsEmergency(m),
         OrderFifo!SendObject(m)
  PROVE  EmergencyFirst' /\ (EmergencyQueued' <=> EmergencyQueued)
<1>1. orderMbx' = Append(orderMbx, m) /\ orderMbx \in Seq(SimpleMessage)
  BY DEF OrderFifo!SendObject, OrdersTypeOK
<1>2. orderMbx' \in Seq(SimpleMessage) /\ Len(orderMbx') = Len(orderMbx) + 1
  BY <1>1, QueueOps, QueueIndices
<1>3. DOMAIN orderMbx = 1 .. Len(orderMbx) /\ DOMAIN orderMbx' = 1 .. Len(orderMbx')
  BY <1>1, <1>2
<1>4. \A i \in DOMAIN orderMbx : orderMbx'[i] = orderMbx[i]
  BY <1>1, <1>3, QueueIndices
<1>5. orderMbx'[Len(orderMbx')] = m
  BY <1>1, <1>2, QueueIndices
<1>6. \A i \in DOMAIN orderMbx' : i \in DOMAIN orderMbx \/ i = Len(orderMbx')
  BY <1>1, <1>2, <1>3
<1>7. \A i \in DOMAIN orderMbx : i \in DOMAIN orderMbx'
  BY <1>1, <1>2, <1>3
<1>8. EmergencyFirst'
  <2> SUFFICES ASSUME NEW i \in DOMAIN orderMbx', NEW j \in DOMAIN orderMbx',
                      i < j, IsEmergency(orderMbx'[j])
               PROVE  IsEmergency(orderMbx'[i])
    BY DEF EmergencyFirst
  <2>1. j \in DOMAIN orderMbx
    BY <1>5, <1>6
  <2>2. i \in DOMAIN orderMbx
    BY <1>1, <1>3, <2>1, <1>2
  <2> QED BY <1>4, <2>1, <2>2 DEF EmergencyFirst
<1>9. EmergencyQueued' <=> EmergencyQueued
  BY <1>4, <1>5, <1>6, <1>7 DEF EmergencyQueued
<1> QED BY <1>8, <1>9

(* An emergency goes before the others.                                     *)
LEMMA PostEmergencyFirst ==
  ASSUME OrdersTypeOK, EmergencyFirst, writeEmergencyToOrder
  PROVE  EmergencyFirst' /\ EmergencyQueued'
<1> DEFINE e == Message(ID_MSG_ORDER_SURVIE, ZeroFrame, 0)
<1>1. e \in SimpleMessage
  BY FrameTypes DEF Message, SimpleMessage, Byte, ID_MSG_ORDER_SURVIE
<1>2. IsEmergency(e)
  BY DEF IsEmergency, Message
<1>3. orderMbx' = <<e>> \o orderMbx /\ orderMbx \in Seq(SimpleMessage)
  BY DEF writeEmergencyToOrder, OrderFifo!SendObjectAhead, OrdersTypeOK
<1> HIDE DEF e
<1>4. orderMbx' \in Seq(SimpleMessage) /\ Len(orderMbx') = Len(orderMbx) + 1
  BY <1>1, <1>3, QueueOps, QueueIndices
<1>5. DOMAIN orderMbx = 1 .. Len(orderMbx) /\ DOMAIN orderMbx' = 1 .. Len(orderMbx')
  BY <1>3, <1>4
<1>6. orderMbx'[1] = e /\ \A i \in 2 .. Len(orderMbx') : orderMbx'[i] = orderMbx[i - 1]
  BY <1>1, <1>3, <1>4, QueueIndices
<1>7. EmergencyFirst'
  <2> SUFFICES ASSUME NEW i \in DOMAIN orderMbx', NEW j \in DOMAIN orderMbx',
                      i < j, IsEmergency(orderMbx'[j])
               PROVE  IsEmergency(orderMbx'[i])
    BY DEF EmergencyFirst
  <2>1. CASE i = 1
    BY <1>2, <1>6, <2>1
  <2>2. CASE i # 1
    <3>1. i - 1 \in DOMAIN orderMbx /\ j - 1 \in DOMAIN orderMbx /\ i - 1 < j - 1
      BY <1>3, <1>4, <1>5, <2>2
    <3>2. orderMbx'[i] = orderMbx[i - 1] /\ orderMbx'[j] = orderMbx[j - 1]
      BY <1>3, <1>4, <1>5, <1>6, <2>2
    <3> QED BY <3>1, <3>2 DEF EmergencyFirst
  <2> QED BY <2>1, <2>2
<1>8. EmergencyQueued'
  <2>1. 1 \in DOMAIN orderMbx'
    BY <1>3, <1>4, <1>5
  <2> QED BY <1>2, <1>6, <2>1 DEF EmergencyQueued
<1> QED BY <1>7, <1>8

(* Reading an order leaves the emergencies first; if it is no emergency,    *)
(* none was waiting.                                                        *)
LEMMA ReadOrderFirst ==
  ASSUME OrdersTypeOK, EmergencyFirst, orderMbx # <<>>, orderMbx' = Tail(orderMbx)
  PROVE  /\ EmergencyFirst'
         /\ ~IsEmergency(Head(orderMbx)) => ~EmergencyQueued /\ ~EmergencyQueued'
         /\ IsEmergency(Head(orderMbx)) => EmergencyQueued
<1>1. /\ orderMbx \in Seq(SimpleMessage) /\ orderMbx' \in Seq(SimpleMessage)
      /\ Len(orderMbx) > 0 /\ Len(orderMbx') = Len(orderMbx) - 1
      /\ Head(orderMbx) = orderMbx[1]
      /\ \A i \in 1 .. (Len(orderMbx) - 1) : orderMbx'[i] = orderMbx[i + 1]
  <2>1. orderMbx \in Seq(SimpleMessage) /\ Head(orderMbx) \in SimpleMessage
    BY QueueOps DEF OrdersTypeOK
  <2> QED BY <2>1, QueueOps, QueueIndices
<1>2. DOMAIN orderMbx = 1 .. Len(orderMbx) /\ DOMAIN orderMbx' = 1 .. (Len(orderMbx) - 1)
  BY <1>1
<1>3. \A i \in DOMAIN orderMbx' : i + 1 \in DOMAIN orderMbx /\ orderMbx'[i] = orderMbx[i + 1]
  BY <1>1, <1>2
<1>4. 1 \in DOMAIN orderMbx /\ \A i \in DOMAIN orderMbx : i = 1 \/ 1 < i
  BY <1>1, <1>2
<1>5. EmergencyFirst'
  <2> SUFFICES ASSUME NEW i \in DOMAIN orderMbx', NEW j \in DOMAIN orderMbx',
                      i < j, IsEmergency(orderMbx'[j])
               PROVE  IsEmergency(orderMbx'[i])
    BY DEF EmergencyFirst
  <2>1. i + 1 < j + 1
    BY <1>1, <1>2
  <2> QED BY <1>3, <2>1 DEF EmergencyFirst
<1>6. ~IsEmergency(Head(orderMbx)) => ~EmergencyQueued
  BY <1>1, <1>4 DEF EmergencyFirst, EmergencyQueued
<1>7. ~EmergencyQueued => ~EmergencyQueued'
  BY <1>3 DEF EmergencyQueued
<1>8. IsEmergency(Head(orderMbx)) => EmergencyQueued
  BY <1>1, <1>4 DEF EmergencyQueued
<1> QED BY <1>5, <1>6, <1>7, <1>8

-----------------------------------------------------------------------------
\* The inductive invariant of the emergencies: neither half is preserved
\* without the other (an order that is no emergency shows that none waits
\* only because the queue is ordered) and both need the types.
EmergencyInv == EmergencyFirst /\ EmergencyCycle

LEMMA OrdersUnchanged ==
  UNCHANGED orderVars => /\ EmergencyFirst' <=> EmergencyFirst
                         /\ EmergencyQueued' <=> EmergencyQueued
BY DEF orderVars, EmergencyFirst, EmergencyQueued

LEMMA NoInputNoEmergency == ~IsEmergency(NoInput)
BY DEF NoInput, Message, IsEmergency, ID_MSG_ORDER_SURVIE, ID_MSG_ORDER_ANTENNA

LEMMA ConvertedNoEmergency ==
  ASSUME NEW m \in SimpleMessage, ~IsEmergency(m) PROVE ~IsEmergency(Converted(m))
<1>1. CASE m.id \in {ID_MSG_ORDER_DESACTIVATE, ID_MSG_ORDER_REINI, ID_MSG_ORDER_CALAGE}
  <2>1. \A f \in {ANTENNA_DESACTIVATE, ANTENNA_REINI, ANTENNA_CALLAGE} :
          ~IsEmergency(Message(ID_MSG_ORDER_ANTENNA, f, 0))
    BY DEF Message, IsEmergency, ID_MSG_ORDER_SURVIE, ID_MSG_ORDER_ANTENNA,
       ANTENNA_SURVIE, ANTENNA_DESACTIVATE, ANTENNA_REINI, ANTENNA_CALLAGE
  <2>2. \E f \in {ANTENNA_DESACTIVATE, ANTENNA_REINI, ANTENNA_CALLAGE} :
          Converted(m) = Message(ID_MSG_ORDER_ANTENNA, f, 0)
    BY <1>1 DEF Converted, ID_MSG_ORDER_DESACTIVATE, ID_MSG_ORDER_REINI, ID_MSG_ORDER_CALAGE
  <2> QED BY <2>1, <2>2
<1>2. CASE m.id \notin {ID_MSG_ORDER_DESACTIVATE, ID_MSG_ORDER_REINI, ID_MSG_ORDER_CALAGE}
  BY <1>2 DEF Converted
<1> QED BY <1>1, <1>2

LEMMA InitEmergencyInv == Init => EmergencyInv
BY NoInputNoEmergency
   DEF Init, BoardInit, TxInit, OrderFifo!Init, EmergencyInv, EmergencyFirst,
       EmergencyCycle, NOMINAL, EMERGENCY

(* The antenna thread's steps keep the invariant.                           *)
LEMMA TxThreadEmergencyInv ==
  ASSUME TypeOK, EmergencyInv, TxThread PROVE EmergencyInv'
<1> USE DEF EmergencyInv, EmergencyCycle, orderVars, boardVars, txVars
<1>1. CASE UNCHANGED <<orderVars, txVars>>
  BY <1>1, OrdersUnchanged
<1>2. TxCrash => UNCHANGED <<orderVars, txVars>>
  BY DEF TxCrash, LogCrash, Stop
<1>3. CASE PpsEdge
  BY <1>3, OrdersUnchanged DEF PpsEdge, EMERGENCY
<1>4. CASE PpsTimeout
  BY <1>1, <1>2, <1>4, OrdersUnchanged DEF PpsTimeout, EMERGENCY
<1>5. CASE NoOrder
  <2>1. ~EmergencyQueued
    BY <1>5 DEF NoOrder, EmergencyQueued
  <2> QED BY <1>5, <2>1, OrdersUnchanged DEF NoOrder, EMERGENCY
<1>6. CASE ReadOrder /\ ~TxCrash
  <2>1. /\ orderMbx # <<>> /\ orderMbx' = Tail(orderMbx)
        /\ input' = Head(orderMbx) /\ txPc = "order" /\ txPc' = "dispatch" /\ state' = state
    BY <1>6 DEF ReadOrder, OrderFifo!ReceiveAndReturn
  <2>2. /\ EmergencyFirst'
        /\ ~IsEmergency(Head(orderMbx)) => ~EmergencyQueued'
    BY <2>1, ReadOrderFirst DEF TypeOK
  <2> QED BY <2>1, <2>2 DEF EMERGENCY
<1>7. CASE DispatchEmergency
  BY <1>1, <1>2, <1>7, OrdersUnchanged, NoInputNoEmergency
  DEF DispatchEmergency, Dispatched, EMERGENCY
<1>8. ASSUME txPc = "dispatch", ~IsEmergency(input), UNCHANGED orderVars,
             NEW s \in {NOMINAL, WAITING_TIME, state}, Dispatched(s)
      PROVE  EmergencyInv'
  BY <1>8, OrdersUnchanged, NoInputNoEmergency
  DEF Dispatched, NOMINAL, WAITING_TIME, EMERGENCY
<1>9. CASE DispatchDoTrajAtDate
  BY <1>8, <1>9 DEF DispatchDoTrajAtDate
<1>10. CASE DispatchAntenna
  BY <1>8, <1>10 DEF DispatchAntenna
<1>11. CASE DispatchBadId
  BY <1>1, <1>2, <1>8, <1>11 DEF DispatchBadId
<1>12. CASE DispatchDropped
  BY <1>1, <1>2, <1>8, <1>12 DEF DispatchDropped
<1>13. ASSUME txPc \in {"behave", "survival"}, txPc' = "pps", state' # EMERGENCY,
              UNCHANGED <<orderVars, input>>
       PROVE  EmergencyInv'
  BY <1>13, OrdersUnchanged DEF EMERGENCY
<1>14. CASE NominalBehaviour
  BY <1>13, <1>14 DEF NominalBehaviour, NOMINAL, EMERGENCY
<1>15. CASE WaitingBehaviour
  <2>1. WaitingOutcome.next # EMERGENCY
    BY DEF WaitingOutcome, NOMINAL, WAITING_TIME, PROCESS_TRAJ, EMERGENCY
  <2> QED BY <1>1, <1>2, <1>13, <1>15, <2>1 DEF WaitingBehaviour
<1>16. CASE TrackingMidway
  BY <1>13, <1>16 DEF TrackingMidway, PROCESS_TRAJ, EMERGENCY
<1>17. CASE TrackingLast
  BY <1>1, <1>2, <1>13, <1>17 DEF TrackingLast, NOMINAL, EMERGENCY
<1>18. CASE EmergencyBegins
  BY <1>18, OrdersUnchanged DEF EmergencyBegins, EMERGENCY
<1>19. CASE EmergencyEnds
  BY <1>1, <1>2, <1>13, <1>19 DEF EmergencyEnds, NOMINAL, EMERGENCY
<1> QED BY <1>1, <1>2, <1>3, <1>4, <1>5, <1>6, <1>7, <1>9, <1>10, <1>11, <1>12, <1>14,
           <1>15, <1>16, <1>17, <1>18, <1>19 DEF TxThread, TxNext

(* What the other threads may do to Fifo_order.                             *)
LEMMA OtherThreadOrders ==
  ASSUME TypeOK, EmergencyFirst, OtherThread
  PROVE  /\ EmergencyFirst'
         /\ EmergencyQueued => EmergencyQueued'
         /\ EmergencyQueued' => EmergencyQueued \/ writeEmergencyToOrder
<1> USE DEF orderVars
<1>1. CASE UNCHANGED orderVars
  BY <1>1, OrdersUnchanged
<1>2. CASE writeEmergencyToOrder
  BY <1>2, PostEmergencyFirst DEF TypeOK
<1>3. \A entry : JustLog(entry) => UNCHANGED orderVars
  BY DEF JustLog, PcCrash, LogCrash, Stop
<1>4. OrderCrash => UNCHANGED orderVars
  BY DEF OrderCrash, Stop
<1>5. ASSUME NEW m \in PcMessages, handleIncomingMessage(m)
      PROVE  UNCHANGED orderVars \/ writeEmergencyToOrder \/
             (~IsEmergency(m) /\ OrderFifo!SendObject(Converted(m)))
  <2>1. HandleWrongId(m) \/ HandleTrajCheckCorrect(m) => UNCHANGED orderVars
    BY <1>3 DEF HandleWrongId, HandleTrajCheckCorrect
  <2>2. HandleTrajSetLength(m) \/ HandleTrajSetNewPoint(m) \/ HandleTrajReini(m)
          => UNCHANGED orderVars
    BY DEF HandleTrajSetLength, HandleTrajSetNewPoint, HandleTrajReini, Stop
  <2>3. HandleEmergency(m) => writeEmergencyToOrder \/ UNCHANGED orderVars
    BY <1>4 DEF HandleEmergency
  <2>4. HandleOrder(m) => (~IsEmergency(m) /\ OrderFifo!SendObject(Converted(m)))
                          \/ UNCHANGED orderVars
    BY <1>4 DEF HandleOrder
  <2> QED BY <1>5, <2>1, <2>2, <2>3, <2>4 DEF handleIncomingMessage
<1>6. ASSUME NEW m \in PcMessages, ~IsEmergency(m), OrderFifo!SendObject(Converted(m))
      PROVE  EmergencyFirst' /\ (EmergencyQueued' <=> EmergencyQueued)
  <2>1. m \in SimpleMessage
    BY EnvironmentAssumption
  <2> QED BY <1>6, <2>1, ConvertedType, ConvertedNoEmergency, PostOrderFirst DEF TypeOK
<1>7. PcTxNext => UNCHANGED orderVars
  BY DEF PcTxNext, PcTxReceive, PcTxReturn, PcTxReturnNull, Stop
<1>8. UserButton => UNCHANGED orderVars \/ writeEmergencyToOrder
  BY <1>4 DEF UserButton
<1>9. AntennaAnswer \/ GpsWrongMessage \/ GpsSetsClock \/ ReceiveCrcError => UNCHANGED orderVars
  BY <1>3 DEF AntennaAnswer, GpsWrongMessage, GpsSetsClock, ReceiveCrcError
<1> QED BY <1>1, <1>2, <1>5, <1>6, <1>7, <1>8, <1>9 DEF OtherThread, PcReceives

LEMMA NextEmergencyInv ==
  TypeOK /\ EmergencyInv /\ [Next]_vars => EmergencyInv'
<1> SUFFICES ASSUME TypeOK, EmergencyInv, [Next]_vars PROVE EmergencyInv'
  OBVIOUS
<1>1. CASE OtherThread
  BY <1>1, OtherThreadOrders
  DEF OtherThread, CpuFree, txVars, EmergencyInv, EmergencyCycle
<1>2. CASE ClockTick \/ UNCHANGED vars
  BY <1>2, OrdersUnchanged
  DEF ClockTick, vars, boardVars, txVars, EmergencyInv, EmergencyCycle
<1> QED BY <1>1, <1>2, TxThreadEmergencyInv DEF Next

LEMMA EmergencyInvariant == Spec => [](TypeOK /\ EmergencyInv)
BY InitTypeOK, NextTypeOK, InitEmergencyInv, NextEmergencyInv, PTL DEF Spec

(* An emergency overtakes every order that is none, whoever posts it, in    *)
(* whatever form, and however full Fifo_order is.                           *)
THEOREM EmergenciesFirst == Spec => []EmergencyFirst
<1>1. EmergencyInv => EmergencyFirst
  BY DEF EmergencyInv
<1> QED BY <1>1, EmergencyInvariant, PTL

(* No order read before an emergency is obeyed, and no trajectory is played *)
(* on, while the emergency waits.                                           *)
THEOREM EmergenciesInCycle == Spec => []EmergencyCycle
<1>1. EmergencyInv => EmergencyCycle
  BY DEF EmergencyInv
<1> QED BY <1>1, EmergencyInvariant, PTL

-----------------------------------------------------------------------------
(* A step of the antenna thread that writes to the antenna line either      *)
(* writes the survival frame or finds no emergency waiting.                 *)
LEMMA TxThreadWrites ==
  ASSUME TypeOK, EmergencyInv, TxThread, antenna' # antenna
  PROVE  antenna' = ANTENNA_SURVIE \/ ~EmergencyAsked
<1> USE DEF EmergencyInv, EmergencyCycle, EmergencyAsked
<1>1. PpsEdge \/ NoOrder \/ NominalBehaviour => antenna' = antenna
  BY DEF PpsEdge, NoOrder, NominalBehaviour, boardVars
<1>2. TxCrash => antenna' = antenna
  BY DEF TxCrash, LogCrash, Stop
<1>3. PpsTimeout \/ ReadOrder \/ DispatchEmergency \/ DispatchBadId \/ DispatchDropped
        \/ WaitingBehaviour \/ EmergencyEnds => antenna' = antenna
  BY <1>2 DEF PpsTimeout, ReadOrder, DispatchEmergency, DispatchBadId, DispatchDropped,
     WaitingBehaviour, EmergencyEnds
<1>4. EmergencyBegins => antenna' = ANTENNA_SURVIE
  BY DEF EmergencyBegins, stmAntennaWriter
<1>5. DispatchDoTrajAtDate \/ DispatchAntenna => ~EmergencyAsked
  BY DEF DispatchDoTrajAtDate, DispatchAntenna
<1>6. TrackingMidway \/ TrackingLast => ~EmergencyAsked
  BY DEF TrackingMidway, TrackingLast, PROCESS_TRAJ, EMERGENCY
<1> QED BY <1>1, <1>3, <1>4, <1>5, <1>6 DEF TxThread, TxNext

(* While an emergency is asked for, nothing but the survival frame reaches  *)
(* the antenna: neither an order already read nor the next trajectory point.*)
THEOREM OnlySurvivalReachesAntenna == Spec => OnlySurvivalWhileAsked
<1>1. ASSUME TypeOK, EmergencyInv, [Next]_vars
      PROVE  [EmergencyAsked /\ antenna' # antenna => antenna' = ANTENNA_SURVIE]_vars
  <2>1. OtherThread \/ ClockTick \/ UNCHANGED vars => antenna' = antenna
    <3>1. \A entry : JustLog(entry) => antenna' = antenna
      BY DEF JustLog, PcCrash, LogCrash, Stop
    <3>2. OrderCrash => antenna' = antenna
      BY DEF OrderCrash, Stop
    <3>3. ASSUME NEW m, handleIncomingMessage(m) PROVE antenna' = antenna
      BY <3>1, <3>2, <3>3
      DEF handleIncomingMessage, HandleWrongId, HandleTrajSetLength, HandleTrajSetNewPoint,
          HandleTrajReini, HandleTrajCheckCorrect, HandleEmergency, HandleOrder, Stop
    <3>4. PcTxNext => antenna' = antenna
      BY DEF PcTxNext, PcTxReceive, PcTxReturn, PcTxReturnNull, Stop
    <3>5. UserButton \/ AntennaAnswer \/ GpsWrongMessage \/ GpsSetsClock \/ ReceiveCrcError
            => antenna' = antenna
      BY <3>1, <3>2 DEF UserButton, AntennaAnswer, GpsWrongMessage, GpsSetsClock,
         ReceiveCrcError
    <3> QED BY <3>3, <3>4, <3>5
            DEF OtherThread, PcReceives, ClockTick, vars, boardVars
  <2> QED BY <1>1, <2>1, TxThreadWrites DEF Next
<1> QED BY <1>1, EmergencyInvariant, PTL DEF Spec, OnlySurvivalWhileAsked

-----------------------------------------------------------------------------
LEMMA InitModes == Init => Modes!Init
BY NoInputNoEmergency
   DEF Init, BoardInit, TxInit, OrderFifo!Init, Modes!Init, EmergencyAsked,
       EmergencyQueued, Running, NOMINAL

\* What a stuttering step of AntennaModes leaves unchanged
LEMMA ModesStutter ==
  ASSUME UNCHANGED <<orderVars, state, input, panic>>
  PROVE  UNCHANGED Modes!vars
BY DEF Modes!vars, EmergencyAsked, EmergencyQueued, Running, orderVars

\* Any failed post or wild store is a Fail of AntennaModes.
LEMMA ModesFail ==
  ASSUME Running, NEW cause \in {"order", "log", "wild"}, Stop(cause), UNCHANGED txVars
  PROVE  Modes!Next
BY DEF Modes!Next, Modes!Fail, Stop, Running, EmergencyAsked, EmergencyQueued, txVars,
       orderVars

(* Every step of the antenna thread is a step of AntennaModes.              *)
LEMMA TxThreadModes ==
  ASSUME TypeOK, EmergencyInv, TxThread PROVE [Modes!Next]_Modes!vars
<1> USE DEF EmergencyInv, EmergencyCycle
<1>1. ASSUME UNCHANGED <<orderVars, state, panic>>, UNCHANGED input
      PROVE  UNCHANGED Modes!vars
  BY <1>1, ModesStutter
<1>2. Running
  BY DEF TxThread, TxNext, PpsEdge, PpsTimeout, NoOrder, ReadOrder, DispatchEmergency,
     DispatchDoTrajAtDate, DispatchAntenna, DispatchBadId, DispatchDropped,
     NominalBehaviour, WaitingBehaviour, TrackingMidway, TrackingLast, EmergencyBegins,
     EmergencyEnds
<1>3. CASE TxCrash
  BY <1>2, <1>3, ModesFail DEF TxCrash, LogCrash
<1>4. CASE PpsEdge \/ NoOrder \/ NominalBehaviour
  BY <1>1, <1>4 DEF PpsEdge, NoOrder, NominalBehaviour, boardVars
<1>5. CASE PpsTimeout
  BY <1>1, <1>3, <1>5 DEF PpsTimeout
<1>6. CASE ReadOrder /\ ~TxCrash
  <2>1. /\ orderMbx # <<>> /\ orderMbx' = Tail(orderMbx)
        /\ input' = Head(orderMbx) /\ txPc = "order" /\ state' = state /\ panic' = panic
    BY <1>6 DEF ReadOrder, OrderFifo!ReceiveAndReturn
  <2>2. /\ ~IsEmergency(Head(orderMbx)) => ~EmergencyQueued /\ ~EmergencyQueued'
        /\ IsEmergency(Head(orderMbx)) => EmergencyQueued
    BY <2>1, ReadOrderFirst DEF TypeOK
  <2>3. EmergencyAsked' <=> EmergencyAsked
    BY <2>1, <2>2 DEF EmergencyAsked
  <2> QED BY <2>1, <2>3 DEF Modes!vars, Running
<1>7. ASSUME ~IsEmergency(input), ~EmergencyQueued, UNCHANGED <<orderVars, panic>>,
             input' = input \/ input' = NoInput
      PROVE  /\ ~EmergencyAsked /\ UNCHANGED EmergencyAsked
             /\ Running /\ UNCHANGED Running
  <2>1. ~EmergencyAsked /\ ~EmergencyAsked'
    BY <1>7, OrdersUnchanged, NoInputNoEmergency DEF EmergencyAsked
  <2>2. UNCHANGED EmergencyAsked
    BY <2>1 DEF EmergencyAsked
  <2> QED BY <1>2, <1>7, <2>1, <2>2 DEF Running
<1>8. CASE DispatchEmergency /\ ~TxCrash
  <2>1. /\ txPc = "dispatch" /\ IsEmergency(input) /\ state' = EMERGENCY
        /\ panic' = panic
    BY <1>8 DEF DispatchEmergency, Dispatched
  <2>2. EmergencyAsked /\ state # EMERGENCY /\ EmergencyAsked' \in BOOLEAN
    BY <2>1 DEF EmergencyAsked, EmergencyQueued
  <2> QED BY <1>2, <2>1, <2>2 DEF Modes!Next, Modes!EnterSurvival, EMERGENCY, Running
<1>9. CASE DispatchDoTrajAtDate
  <2>1. /\ ~IsEmergency(input) /\ ~EmergencyQueued /\ UNCHANGED <<orderVars, panic>>
        /\ input' = NoInput /\ state = NOMINAL /\ state' = WAITING_TIME
    BY <1>9 DEF DispatchDoTrajAtDate, Dispatched
  <2> QED BY <1>2, <1>7, <2>1
          DEF Modes!Next, Modes!Arm, Modes!Step, NOMINAL, WAITING_TIME
<1>10. CASE (DispatchAntenna \/ DispatchBadId \/ DispatchDropped) /\ ~TxCrash
  <2>1. /\ ~IsEmergency(input) /\ ~EmergencyQueued /\ UNCHANGED <<orderVars, panic>>
        /\ input' = NoInput /\ state' = state
    BY <1>10 DEF DispatchAntenna, DispatchBadId, DispatchDropped, Dispatched
  <2> QED BY <1>2, <1>7, <2>1 DEF Modes!vars
<1>11. CASE WaitingBehaviour /\ ~TxCrash
  <2>1. /\ ~IsEmergency(input) /\ ~EmergencyQueued /\ UNCHANGED <<orderVars, panic>>
        /\ input' = input /\ state = WAITING_TIME
    BY <1>11 DEF WaitingBehaviour, WAITING_TIME, EMERGENCY
  <2>2. state' \in {NOMINAL, PROCESS_TRAJ, WAITING_TIME}
    BY <1>11 DEF WaitingBehaviour, WaitingOutcome
  <2> QED BY <1>2, <1>7, <2>1, <2>2
          DEF Modes!Next, Modes!Begin, Modes!Drop, Modes!Step, Modes!vars,
              NOMINAL, WAITING_TIME, PROCESS_TRAJ
<1>12. CASE TrackingMidway
  BY <1>1, <1>12 DEF TrackingMidway
<1>13. CASE TrackingLast /\ ~TxCrash
  <2>1. /\ ~IsEmergency(input) /\ ~EmergencyQueued /\ UNCHANGED <<orderVars, panic>>
        /\ input' = input /\ state = PROCESS_TRAJ /\ state' = NOMINAL
    BY <1>13 DEF TrackingLast, PROCESS_TRAJ, EMERGENCY
  <2> QED BY <1>2, <1>7, <2>1
          DEF Modes!Next, Modes!Finish, Modes!Step, NOMINAL, PROCESS_TRAJ
<1>14. CASE EmergencyBegins
  BY <1>1, <1>14 DEF EmergencyBegins
<1>15. CASE EmergencyEnds /\ ~TxCrash
  <2>1. /\ state = EMERGENCY /\ state' = NOMINAL /\ UNCHANGED <<orderVars, input, panic>>
    BY <1>15 DEF EmergencyEnds
  <2>2. EmergencyAsked' <=> EmergencyAsked
    BY <2>1, OrdersUnchanged DEF EmergencyAsked
  <2> QED BY <1>2, <2>1, <2>2 DEF Modes!Next, Modes!LeaveSurvival, NOMINAL, EMERGENCY, Running
<1> QED BY <1>3, <1>4, <1>5, <1>6, <1>8, <1>9, <1>10, <1>11, <1>12, <1>13, <1>14, <1>15
        DEF TxThread, TxNext

(* A step of the other threads runs in a system that has not stopped, and   *)
(* stops it or leaves panic alone.                                          *)
LEMMA OtherThreadStops ==
  ASSUME OtherThread
  PROVE  Running /\ (UNCHANGED panic \/ \E cause \in {"order", "log", "wild"} : Stop(cause))
<1> DEFINE OK == UNCHANGED panic \/ \E cause \in {"order", "log", "wild"} : Stop(cause)
<1>1. \A entry : JustLog(entry) => OK
  BY DEF JustLog, PcCrash, LogCrash
<1>2. OrderCrash => OK
  BY DEF OrderCrash
<1> HIDE DEF OK
<1>3. ASSUME NEW m, handleIncomingMessage(m) PROVE OK /\ Running
  <2>1. HandleWrongId(m) \/ HandleTrajCheckCorrect(m) => OK /\ Running
    BY <1>1 DEF HandleWrongId, HandleTrajCheckCorrect
  <2>2. HandleTrajSetLength(m) \/ HandleTrajSetNewPoint(m) \/ HandleTrajReini(m)
          => OK /\ Running
    BY DEF HandleTrajSetLength, HandleTrajSetNewPoint, HandleTrajReini, OK
  <2>3. HandleEmergency(m) \/ HandleOrder(m) => OK /\ Running
    BY <1>2 DEF HandleEmergency, HandleOrder, OK
  <2> QED BY <1>3, <2>1, <2>2, <2>3 DEF handleIncomingMessage
<1>4. PcTxNext => OK /\ Running
  BY DEF PcTxNext, PcTxReceive, PcTxReturn, PcTxReturnNull, OK
<1>5. UserButton => OK /\ Running
  BY <1>2 DEF UserButton, OK
<1>6. AntennaAnswer \/ GpsWrongMessage \/ GpsSetsClock \/ ReceiveCrcError => OK /\ Running
  BY <1>1 DEF AntennaAnswer, GpsWrongMessage, GpsSetsClock, ReceiveCrcError, OK
<1>7. OK /\ Running
  BY <1>3, <1>4, <1>5, <1>6 DEF OtherThread, PcReceives
<1> QED BY <1>7 DEF OK

(* Every step of the other threads asks for an emergency, fails, or is not  *)
(* seen in AntennaModes.                                                    *)
LEMMA OtherThreadModes ==
  ASSUME TypeOK, EmergencyInv, OtherThread PROVE [Modes!Next]_Modes!vars
<1>1. UNCHANGED <<state, input>> /\ UNCHANGED txVars
  BY DEF OtherThread, txVars
<1>2. CASE \E cause \in {"order", "log", "wild"} : Stop(cause)
  BY <1>1, <1>2, OtherThreadStops, ModesFail
<1>3. CASE UNCHANGED panic
  <2>1. Running /\ UNCHANGED Running
    BY <1>3, OtherThreadStops DEF Running
  <2>2. EmergencyAsked => EmergencyAsked'
    BY <1>1, OtherThreadOrders DEF EmergencyAsked, EmergencyInv
  <2>3. CASE EmergencyAsked
    <3>1. UNCHANGED EmergencyAsked
      BY <2>2, <2>3 DEF EmergencyAsked
    <3> QED BY <1>1, <2>1, <3>1 DEF Modes!vars
  <2>4. CASE ~EmergencyAsked /\ EmergencyAsked'
    <3>1. EmergencyAsked' = TRUE
      BY <2>4 DEF EmergencyAsked
    <3> QED BY <1>1, <2>1, <3>1 DEF Modes!Next, Modes!AskEmergency
  <2>5. CASE ~EmergencyAsked /\ ~EmergencyAsked'
    <3>1. UNCHANGED EmergencyAsked
      BY <2>5 DEF EmergencyAsked
    <3> QED BY <1>1, <2>1, <3>1 DEF Modes!vars
  <2> QED BY <2>3, <2>4, <2>5
<1> QED BY <1>2, <1>3, OtherThreadStops

(* The firmware, for every environment, behaves as AntennaModes: the modes  *)
(* follow each other as the operator expects and an emergency comes before  *)
(* any other change of mode.                                                *)
THEOREM FirmwareImplementsModes == Spec => ImplementsModes
<1>1. ASSUME TypeOK, EmergencyInv, [Next]_vars PROVE [Modes!Next]_Modes!vars
  <2>1. ClockTick \/ UNCHANGED vars => UNCHANGED <<orderVars, state, input, panic>>
    BY DEF ClockTick, vars, boardVars, txVars
  <2> QED BY <1>1, <2>1, TxThreadModes, OtherThreadModes, ModesStutter DEF Next
<1> QED BY <1>1, InitModes, EmergencyInvariant, PTL DEF Spec, ImplementsModes, Modes!Safety
-----------------------------------------------------------------------------
(* No object of the two FIFOs is lost or duplicated: a producer that gets   *)
(* an object finds a mailbox slot for it.  And what becomes of the logs:    *)
(* those that are on their way tell the PC the state of the antenna thread. *)

OrdersAccounted == orderFree + Len(orderMbx) = OrderFifoSize
LogsAccounted ==
  ~NullInFlight => logFree + Len(logMbx) + (IF Holds THEN 1 ELSE 0) = LogFifoSize

LEMMA SplitAccounted == ObjectsAccounted <=> OrdersAccounted /\ LogsAccounted
BY DEF ObjectsAccounted, OrdersAccounted, LogsAccounted

(* Each operation on Fifo_order moves one object.                           *)
LEMMA OrderOpsAccounted ==
  ASSUME OrdersTypeOK, OrdersAccounted, NEW m \in SimpleMessage
  PROVE  /\ OrderFifo!SendObject(m) => OrdersAccounted'
         /\ OrderFifo!SendObjectAhead(m) => OrdersAccounted'
         /\ OrderFifo!ReceiveAndReturn => OrdersAccounted'
         /\ UNCHANGED orderVars => OrdersAccounted'
<1> USE DEF OrdersTypeOK, OrdersAccounted
<1>1. OrderFifo!SendObject(m) => OrdersAccounted'
  BY QueueIndices DEF OrderFifo!SendObject, OrderFifo!CanTake
<1>2. OrderFifo!SendObjectAhead(m) => OrdersAccounted'
  BY QueueIndices DEF OrderFifo!SendObjectAhead, OrderFifo!CanTake
<1>3. OrderFifo!ReceiveAndReturn => OrdersAccounted'
  BY QueueIndices DEF OrderFifo!ReceiveAndReturn
<1>4. UNCHANGED orderVars => OrdersAccounted'
  BY DEF orderVars
<1> QED BY <1>1, <1>2, <1>3, <1>4

(* A log moves one object, or puts a NULL in flight.                        *)
LEMMA WriteLogAccounted ==
  ASSUME LogsTypeOK, LogsAccounted, UNCHANGED transmitting,
         NEW entry \in LogEntry, writeLogToFifo(entry)
  PROVE  LogsAccounted'
<1> USE DEF LogsTypeOK
<1>1. NullObject \in LogEntry \cup {NullObject} /\ entry \in LogEntry \cup {NullObject}
  OBVIOUS
<1>2. CASE LogFifo!SendObject(entry)
  <2>1. /\ logMbx' = Append(logMbx, entry) /\ logFree > 0 /\ logFree' = logFree - 1
        /\ Len(logMbx') = Len(logMbx) + 1
        /\ \A i \in 1 .. Len(logMbx) : logMbx'[i] = logMbx[i]
    BY <1>1, <1>2, QueueIndices DEF LogFifo!SendObject, LogFifo!CanTake
  <2>2. DOMAIN logMbx = 1 .. Len(logMbx) /\ DOMAIN logMbx' = 1 .. Len(logMbx')
    BY <1>1, <2>1, QueueOps
  <2>3. \A i \in DOMAIN logMbx : i \in DOMAIN logMbx'
    BY <2>1, <2>2
  <2>4. NullInFlight => NullInFlight'
    BY <2>1, <2>2, <2>3 DEF NullInFlight
  <2>5. Holds' = Holds
    BY DEF Holds
  <2> QED BY <2>1, <2>4, <2>5 DEF LogsAccounted
<1>3. CASE LogFifo!SendNull
  <2>1. logMbx' = Append(logMbx, NullObject)
    BY <1>3 DEF LogFifo!SendNull
  <2>2. logMbx' \in Seq(LogEntry \cup {NullObject}) /\ Len(logMbx') = Len(logMbx) + 1
        /\ logMbx'[Len(logMbx) + 1] = NullObject
    BY <1>1, <2>1, QueueOps, QueueIndices
  <2>3. Len(logMbx) + 1 \in DOMAIN logMbx'
    BY <2>2
  <2> QED BY <2>2, <2>3 DEF LogsAccounted, NullInFlight
<1> QED BY <1>2, <1>3 DEF writeLogToFifo

LEMMA LogsUnchanged ==
  ASSUME UNCHANGED <<logVars, transmitting>> PROVE LogsAccounted' <=> LogsAccounted
BY DEF logVars, LogsAccounted, NullInFlight, Holds

(* pcTxThread takes a NULL out of the mailbox, and stops on it.             *)
LEMMA NullStays ==
  ASSUME LogsTypeOK, PcTxNext, NullInFlight PROVE NullInFlight'
<1>1. CASE PcTxReceive
  <2>1. /\ logMbx # <<>> /\ logMbx' = Tail(logMbx)
        /\ transmitting' = Head(logMbx) /\ transmitting # NullObject
    BY <1>1 DEF PcTxReceive, LogFifo!ReceiveObject, Holds, NoObject, NullObject
  <2>2. /\ logMbx' \in Seq(LogEntry \cup {NullObject})
        /\ Len(logMbx') = Len(logMbx) - 1 /\ Head(logMbx) = logMbx[1]
        /\ \A i \in 1 .. (Len(logMbx) - 1) : logMbx'[i] = logMbx[i + 1]
    BY <2>1, QueueOps, QueueIndices DEF LogsTypeOK
  <2>3. DOMAIN logMbx = 1 .. Len(logMbx) /\ DOMAIN logMbx' = 1 .. (Len(logMbx) - 1)
    BY <2>2 DEF LogsTypeOK
  <2>4. PICK i \in DOMAIN logMbx : logMbx[i] = NullObject
    BY <2>1 DEF NullInFlight
  <2>5. CASE i = 1
    BY <2>1, <2>2, <2>4, <2>5 DEF NullInFlight
  <2>6. CASE i # 1
    <3>1. i - 1 \in DOMAIN logMbx' /\ logMbx'[i - 1] = NullObject
      BY <2>2, <2>3, <2>4, <2>6
    <3> QED BY <3>1 DEF NullInFlight
  <2> QED BY <2>5, <2>6
<1>2. CASE PcTxReturn
  BY <1>2 DEF PcTxReturn, LogFifo!ReturnObject, NullInFlight
<1>3. CASE PcTxReturnNull
  BY <1>3 DEF PcTxReturnNull, Stop, pcVars, logVars, NullInFlight
<1> QED BY <1>1, <1>2, <1>3 DEF PcTxNext

(* pcTxThread takes an object out of the mailbox and gives it back.         *)
LEMMA PcTxAccounted ==
  ASSUME TypeOK, LogsAccounted, PcTxNext PROVE LogsAccounted'
<1> USE DEF TypeOK, LogsTypeOK
<1>1. CASE PcTxReceive
  <2>1. /\ logMbx # <<>> /\ logMbx' = Tail(logMbx) /\ logFree' = logFree
        /\ transmitting' = Head(logMbx) /\ ~Holds
    BY <1>1 DEF PcTxReceive, LogFifo!ReceiveObject
  <2>2. /\ Head(logMbx) \in LogEntry \cup {NullObject}
        /\ logMbx' \in Seq(LogEntry \cup {NullObject})
    BY <2>1, QueueOps
  <2>3. /\ Len(logMbx') = Len(logMbx) - 1 /\ Len(logMbx) > 0
        /\ Head(logMbx) = logMbx[1]
        /\ \A i \in 1 .. (Len(logMbx) - 1) : logMbx'[i] = logMbx[i + 1]
    BY <2>1, <2>2, QueueIndices
  <2>4. NullInFlight => NullInFlight'
    BY NullStays
  <2>5. Holds'
    <3>1. NoObject \notin LogEntry
      BY DEF NoObject, LogEntry, Byte
    <3>2. NoObject # NullObject
      BY DEF NullObject, NoObject
    <3> QED BY <2>1, <2>2, <3>1, <3>2 DEF Holds
  <2> QED BY <2>1, <2>3, <2>4, <2>5 DEF LogsAccounted
<1>2. CASE PcTxReturn
  <2>1. /\ Holds /\ transmitting # NullObject /\ transmitting' = NoObject
        /\ logFree' = logFree + 1 /\ logMbx' = logMbx
    BY <1>2 DEF PcTxReturn, LogFifo!ReturnObject
  <2>2. ~Holds' /\ (NullInFlight => NullInFlight')
    BY <2>1 DEF Holds, NullInFlight
  <2> QED BY <2>1, <2>2 DEF LogsAccounted
<1>3. CASE PcTxReturnNull
  BY <1>3, LogsUnchanged DEF PcTxReturnNull, Stop, pcVars
<1> QED BY <1>1, <1>2, <1>3 DEF PcTxNext

-----------------------------------------------------------------------------
LEMMA InitAccounted == Init => ObjectsAccounted
BY BoardAssumption
   DEF Init, BoardInit, PcInit, OrderFifo!Init, LogFifo!Init, ObjectsAccounted, Holds

(* writeEmergencyToOrder posts a message that is known.                     *)
LEMMA KnownEmergency ==
  LET m == Message(ID_MSG_ORDER_SURVIE, ZeroFrame, 0)
  IN  m \in SimpleMessage /\ m.id \in KnownCommunIds
BY FrameTypes DEF Message, SimpleMessage, Byte, ID_MSG_ORDER_SURVIE, KnownCommunIds

\* Posting one order that handleCommunMessage knows
PostsKnown ==
  \E m \in SimpleMessage :
    /\ m.id \in KnownCommunIds
    /\ OrderFifo!SendObject(m) \/ OrderFifo!SendObjectAhead(m)

\* What a step may do to Fifo_order
OneOp == UNCHANGED orderVars \/ OrderFifo!ReceiveAndReturn \/ PostsKnown

(* Every step of the firmware takes an order, posts one that                *)
(* handleCommunMessage knows, or leaves Fifo_order alone.                   *)
LEMMA NextOrderOp == ASSUME [Next]_vars PROVE OneOp
<1> USE DEF OneOp
<1>1. \A cause : Stop(cause) => OneOp
  BY DEF Stop
<1>2. \A entry : JustLog(entry) => OneOp
  BY <1>1 DEF JustLog, PcCrash, LogCrash
<1>3. OrderCrash => OneOp
  BY <1>1 DEF OrderCrash
<1>4. writeEmergencyToOrder => OneOp
  BY KnownEmergency DEF writeEmergencyToOrder, PostsKnown
<1>5. TxThread => OneOp
  <2>1. TxCrash => OneOp
    BY <1>1 DEF TxCrash, LogCrash
  <2>2. PpsEdge \/ NoOrder \/ NominalBehaviour => OneOp
    BY DEF PpsEdge, NoOrder, NominalBehaviour, boardVars
  <2>3. PpsTimeout \/ ReadOrder \/ DispatchEmergency \/ DispatchBadId \/ DispatchDropped
          \/ WaitingBehaviour \/ TrackingLast \/ EmergencyEnds => OneOp
    BY <2>1 DEF PpsTimeout, ReadOrder, DispatchEmergency, DispatchBadId, DispatchDropped,
       WaitingBehaviour, TrackingLast, EmergencyEnds
  <2>4. DispatchDoTrajAtDate \/ DispatchAntenna \/ TrackingMidway \/ EmergencyBegins => OneOp
    BY DEF DispatchDoTrajAtDate, DispatchAntenna, TrackingMidway, EmergencyBegins
  <2> QED BY <2>2, <2>3, <2>4 DEF TxThread, TxNext
<1>6. ASSUME NEW m \in PcMessages, handleIncomingMessage(m) PROVE OneOp
  <2>1. m \in SimpleMessage /\ Converted(m) \in SimpleMessage
    BY EnvironmentAssumption, ConvertedType
  <2>2. m.id \in KnownCommunIds => Converted(m).id \in KnownCommunIds
    BY DEF Converted, Message, KnownCommunIds
  <2>3. HandleWrongId(m) \/ HandleTrajCheckCorrect(m) => OneOp
    BY <1>2 DEF HandleWrongId, HandleTrajCheckCorrect
  <2>4. HandleTrajSetLength(m) \/ HandleTrajSetNewPoint(m) \/ HandleTrajReini(m) => OneOp
    BY <1>1 DEF HandleTrajSetLength, HandleTrajSetNewPoint, HandleTrajReini
  <2>5. HandleEmergency(m) => OneOp
    BY <1>3, <1>4 DEF HandleEmergency
  <2>6. HandleOrder(m) => OneOp
    BY <1>3, <2>1, <2>2 DEF HandleOrder, PostsKnown
  <2> QED BY <1>6, <2>3, <2>4, <2>5, <2>6 DEF handleIncomingMessage
<1>7. OtherThread => OneOp
  <2>1. UserButton => OneOp
    BY <1>3, <1>4 DEF UserButton
  <2>2. AntennaAnswer \/ GpsWrongMessage \/ GpsSetsClock \/ ReceiveCrcError => OneOp
    BY <1>2 DEF AntennaAnswer, GpsWrongMessage, GpsSetsClock, ReceiveCrcError
  <2>3. PcTxNext => OneOp
    BY <1>1 DEF PcTxNext, PcTxReceive, PcTxReturn, PcTxReturnNull
  <2> QED BY <1>6, <2>1, <2>2, <2>3 DEF OtherThread, PcReceives
<1>8. ClockTick \/ UNCHANGED vars => OneOp
  BY DEF ClockTick, vars, boardVars
<1> QED BY <1>5, <1>7, <1>8 DEF Next

(* Fifo_order in a step of the firmware                                     *)
LEMMA NextOrdersAccounted ==
  ASSUME TypeOK, OrdersAccounted, [Next]_vars PROVE OrdersAccounted'
<1>1. OrdersTypeOK
  BY DEF TypeOK
<1>2. CASE UNCHANGED orderVars \/ OrderFifo!ReceiveAndReturn
  BY <1>1, <1>2, KnownEmergency, OrderOpsAccounted
<1>3. ASSUME NEW m \in SimpleMessage,
             OrderFifo!SendObject(m) \/ OrderFifo!SendObjectAhead(m)
      PROVE  OrdersAccounted'
  BY <1>1, <1>3, OrderOpsAccounted
<1> QED BY <1>2, <1>3, NextOrderOp DEF OneOp, PostsKnown

(* Fifo_log in a step of the firmware                                       *)
LEMMA NextLogsAccounted ==
  ASSUME TypeOK, LogsAccounted, [Next]_vars PROVE LogsAccounted'
<1> DEFINE OneLog == /\ UNCHANGED transmitting
                     /\ \/ UNCHANGED logVars
                        \/ \E entry \in LogEntry : writeLogToFifo(entry)
<1>1. \A i \in {ID_MSG_ALERT_CRC_ERROR, ID_MSG_ALERT_BAD_ANTENNA_RESPONSE,
                ID_MSG_ALERT_BAD_MESSAGE_ID, ID_MSG_ALERT_NO_1PPS,
                ID_MSG_ALERT_WRONG_GPS_MESSAGE, ID_MSG_ALERT_MESSAGE_DROPPED,
                ID_MSG_ALERT_TRAJECTORY_DROPPED, ID_MSG_ALERT_ANTENNA_EMERGENCY,
                ID_MSG_LOG_ANTENNA_RETURN, ID_MSG_LOG_TRAJ_BEGIN_TRAJECTORY,
                ID_MSG_LOG_TRAJ_WAITING_TRAJECTORY, ID_MSG_LOG_TRAJ_FINISH_TRAJECTORY,
                ID_MSG_LOG_EXIT_EMERGENCY} : Log(i) \in LogEntry
  BY LogType
  DEF Byte, FIRST_ERROR_ID, ID_MSG_ALERT_CRC_ERROR, ID_MSG_ALERT_BAD_ANTENNA_RESPONSE,
      ID_MSG_ALERT_BAD_MESSAGE_ID, ID_MSG_ALERT_NO_1PPS, ID_MSG_ALERT_WRONG_GPS_MESSAGE,
      ID_MSG_ALERT_MESSAGE_DROPPED, ID_MSG_ALERT_TRAJECTORY_DROPPED,
      ID_MSG_ALERT_ANTENNA_EMERGENCY, ID_MSG_LOG_ANTENNA_RETURN,
      ID_MSG_LOG_TRAJ_BEGIN_TRAJECTORY, ID_MSG_LOG_TRAJ_WAITING_TRAJECTORY,
      ID_MSG_LOG_TRAJ_FINISH_TRAJECTORY, ID_MSG_LOG_EXIT_EMERGENCY
<1>2. TxThread => OneLog
  <2>1. TxCrash => UNCHANGED logVars
    BY DEF TxCrash, LogCrash, Stop
  <2>2. TxThread => UNCHANGED transmitting
    BY DEF TxThread, pcVars
  <2>3. PpsEdge \/ NoOrder \/ NominalBehaviour \/ DispatchDoTrajAtDate \/ DispatchAntenna
          \/ TrackingMidway \/ EmergencyBegins => UNCHANGED logVars
    BY DEF PpsEdge, NoOrder, NominalBehaviour, DispatchDoTrajAtDate, DispatchAntenna,
       TrackingMidway, EmergencyBegins, boardVars
  <2>4. PpsTimeout \/ DispatchEmergency \/ DispatchBadId \/ DispatchDropped
          \/ TrackingLast \/ EmergencyEnds
          => UNCHANGED logVars \/ \E entry \in LogEntry : writeLogToFifo(entry)
    BY <1>1, <2>1 DEF PpsTimeout, DispatchEmergency, DispatchBadId, DispatchDropped,
       TrackingLast, EmergencyEnds
  <2>5. WaitingBehaviour
          => UNCHANGED logVars \/ \E entry \in LogEntry : writeLogToFifo(entry)
    <3>1. Log(WaitingOutcome.log) \in LogEntry
      BY <1>1 DEF WaitingOutcome
    <3> QED BY <2>1, <3>1 DEF WaitingBehaviour
  <2>6. ReadOrder => UNCHANGED logVars \/ \E entry \in LogEntry : writeLogToFifo(entry)
    <3>1. orderMbx # <<>> => Echo(Head(orderMbx)) \in LogEntry
      BY QueueOps, EchoType DEF TypeOK, OrdersTypeOK
    <3> QED BY <2>1, <3>1 DEF ReadOrder
  <2> QED BY <2>2, <2>3, <2>4, <2>5, <2>6 DEF TxThread, TxNext
<1>3. ASSUME NEW entry \in LogEntry, JustLog(entry) PROVE OneLog
  BY <1>3 DEF JustLog, PcCrash, LogCrash, Stop, pcVars
<1>4. ASSUME NEW m \in PcMessages, handleIncomingMessage(m) PROVE OneLog
  <2>1. HandleWrongId(m) => OneLog
    BY <1>1, <1>3 DEF HandleWrongId
  <2>2. HandleTrajCheckCorrect(m) => OneLog
    <3>1. [id    |-> ID_MSG_LOG_TRAJ_RESPONSE_CORRECT,
           value |-> IF trajCheckCorrectLength THEN 1 ELSE 0] \in LogEntry
      BY DEF LogEntry, Byte, ID_MSG_LOG_TRAJ_RESPONSE_CORRECT
    <3> QED BY <1>3, <3>1 DEF HandleTrajCheckCorrect
  <2>3. HandleTrajSetLength(m) \/ HandleTrajSetNewPoint(m) \/ HandleTrajReini(m)
          \/ HandleEmergency(m) \/ HandleOrder(m) => OneLog
    BY DEF HandleTrajSetLength, HandleTrajSetNewPoint, HandleTrajReini, HandleEmergency,
       HandleOrder, OrderCrash, Stop, pcVars
  <2> QED BY <1>4, <2>1, <2>2, <2>3 DEF handleIncomingMessage
<1>5. OtherThread => OneLog \/ PcTxNext
  <2>1. UserButton \/ GpsSetsClock => OneLog
    BY DEF UserButton, GpsSetsClock, OrderCrash, Stop, pcVars
  <2>2. GpsWrongMessage \/ ReceiveCrcError => OneLog
    BY <1>1, <1>3 DEF GpsWrongMessage, ReceiveCrcError
  <2>3. AntennaAnswer => OneLog
    BY <1>1, <1>3 DEF AntennaAnswer
  <2> QED BY <1>4, <2>1, <2>2, <2>3 DEF OtherThread, PcReceives
<1>6. ClockTick \/ UNCHANGED vars => OneLog
  BY DEF ClockTick, vars, boardVars, pcVars
<1>7. CASE PcTxNext
  BY <1>7, PcTxAccounted
<1>8. CASE OneLog
  BY <1>8, WriteLogAccounted, LogsUnchanged DEF TypeOK
<1> QED BY <1>2, <1>5, <1>6, <1>7, <1>8 DEF Next

(* An object of Fifo_order is in the pool or in the mailbox; one of         *)
(* Fifo_log may also be with pcTxThread, as long as no NULL was posted.     *)
THEOREM NoObjectLost == Spec => []ObjectsAccounted
<1>1. TypeOK /\ ObjectsAccounted /\ [Next]_vars => ObjectsAccounted'
  BY SplitAccounted, NextOrdersAccounted, NextLogsAccounted
  DEF ObjectsAccounted, OrdersAccounted, LogsAccounted
<1> QED BY <1>1, InitAccounted, InitTypeOK, NextTypeOK, PTL DEF Spec

-----------------------------------------------------------------------------
\* What a sequence of logs tells a reader who believed r
Tells(q) == {i \in DOMAIN q : q[i].id \in TellingIds}
LastTold(q, r) ==
  IF Tells(q) = {} THEN r
  ELSE StateTold(q[CHOOSE i \in Tells(q) : \A j \in Tells(q) : j <= i].id)

LEMMA ToldDef == StateAsTold = LastTold(Pending, reported)
BY DEF StateAsTold, Telling, LastTold, Tells

(* A queue in which some log tells has a last one that does.                *)
LEMMA LastTelling ==
  ASSUME NEW S, NEW q \in Seq(S), Tells(q) # {}
  PROVE  \E k \in Tells(q) : \A j \in Tells(q) : j <= k
<1> DEFINE Behind == {Len(q) - i : i \in Tells(q)}
<1>1. Tells(q) \subseteq 1 .. Len(q)
  BY DEF Tells
<1>2. Behind \subseteq Nat /\ Behind # {}
  BY <1>1
<1> DEFINE Less == {p \in Nat \X Nat : p[1] < p[2]}
<1> HIDE DEF Behind
<1>3. IsWellFoundedOn(Less, Nat)
  BY NatLessThanWellFounded DEF OpToRel
<1>4. \E m \in Behind : \A n \in Behind : ~(<<n, m>> \in Less)
  <2> HIDE DEF Less
  <2> QED BY <1>2, <1>3, WFMin
<1>5. PICK m \in Behind : \A n \in Behind : m <= n
  <2>1. PICK m \in Behind : \A n \in Behind : ~(<<n, m>> \in Less)
    BY <1>4
  <2>2. \A a, b \in Nat : a < b => <<a, b>> \in Less
    OBVIOUS
  <2> HIDE DEF Less
  <2>3. ASSUME NEW n \in Behind PROVE m <= n
    <3>1. m \in Nat /\ n \in Nat
      BY <1>2
    <3>2. ~(n < m)
      BY <2>1, <2>2, <3>1
    <3> QED BY <3>1, <3>2
  <2> QED BY <2>1, <2>3
<1> USE DEF Behind
<1>6. PICK k \in Tells(q) : m = Len(q) - k
  OBVIOUS
<1>7. ASSUME NEW j \in Tells(q) PROVE j <= k
  <2>1. Len(q) - j \in Behind
    OBVIOUS
  <2>2. m <= Len(q) - j
    BY <1>5, <2>1
  <2> QED BY <1>1, <1>6, <2>2
<1> QED BY <1>7

(* It is the one the reader goes by.                                        *)
LEMMA LastToldAt ==
  ASSUME NEW S, NEW q \in Seq(S), NEW r,
         NEW k \in Tells(q), \A j \in Tells(q) : j <= k
  PROVE  LastTold(q, r) = StateTold(q[k].id)
<1>1. Tells(q) \subseteq Int
  BY DEF Tells
<1>2. \A i \in Tells(q) : (\A j \in Tells(q) : j <= i) => i = k
  BY <1>1
<1>3. (CHOOSE i \in Tells(q) : \A j \in Tells(q) : j <= i) = k
  BY <1>2
<1> QED BY <1>3 DEF LastTold

(* A log that is added tells its state, or changes nothing.                 *)
LEMMA LastToldAppend ==
  ASSUME NEW S, NEW q \in Seq(S), NEW x \in S, NEW r
  PROVE  LastTold(Append(q, x), r) =
           IF x.id \in TellingIds THEN StateTold(x.id) ELSE LastTold(q, r)
<1> DEFINE long == Append(q, x)
<1>1. /\ long \in Seq(S) /\ Len(long) = Len(q) + 1
      /\ \A i \in 1 .. Len(q) : long[i] = q[i]
      /\ long[Len(q) + 1] = x
      /\ DOMAIN long = 1 .. Len(long) /\ DOMAIN q = 1 .. Len(q) /\ Len(q) \in Nat
  BY QueueOps, QueueIndices
<1> HIDE DEF long
<1>2. CASE x.id \in TellingIds
  <2>1. Len(q) + 1 \in Tells(long) /\ \A j \in Tells(long) : j <= Len(q) + 1
    BY <1>1, <1>2 DEF Tells
  <2>2. LastTold(long, r) = StateTold(long[Len(q) + 1].id)
    BY <1>1, <2>1, LastToldAt
  <2> QED BY <1>1, <1>2, <2>2 DEF long
<1>3. CASE x.id \notin TellingIds
  <2>1. Tells(long) = Tells(q)
    BY <1>1, <1>3 DEF Tells
  <2>2. CASE Tells(q) = {}
    BY <1>3, <2>1, <2>2 DEF LastTold, long
  <2>3. CASE Tells(q) # {}
    <3>1. PICK k \in Tells(q) : \A j \in Tells(q) : j <= k
      BY <2>3, LastTelling
    <3>2. LastTold(q, r) = StateTold(q[k].id)
      BY <3>1, LastToldAt
    <3>3. LastTold(long, r) = StateTold(long[k].id)
      BY <1>1, <2>1, <3>1, LastToldAt
    <3>4. long[k] = q[k]
      BY <1>1 DEF Tells
    <3> QED BY <1>3, <3>2, <3>3, <3>4 DEF long
  <2> QED BY <2>2, <2>3
<1> QED BY <1>2, <1>3

(* A reader who has read the first log goes on with what it told.           *)
LEMMA LastToldFirst ==
  ASSUME NEW S, NEW q \in Seq(S), NEW x \in S, NEW r
  PROVE  LastTold(<<x>> \o q, r) =
           LastTold(q, IF x.id \in TellingIds THEN StateTold(x.id) ELSE r)
<1> DEFINE long == <<x>> \o q
           known == IF x.id \in TellingIds THEN StateTold(x.id) ELSE r
<1>1. /\ long \in Seq(S) /\ Len(long) = Len(q) + 1 /\ long[1] = x
      /\ \A i \in 2 .. (Len(q) + 1) : long[i] = q[i - 1]
      /\ DOMAIN long = 1 .. Len(long) /\ DOMAIN q = 1 .. Len(q) /\ Len(q) \in Nat
  BY QueueOps, QueueIndices
<1> HIDE DEF long, known
<1>2. \A i \in Tells(q) : i \in 1 .. Len(q) /\ i + 1 \in Tells(long)
  BY <1>1 DEF Tells
<1>3. \A i \in Tells(long) : i = 1 \/ (i - 1 \in Tells(q) /\ i \in 1 .. Len(long))
  BY <1>1 DEF Tells
<1>4. CASE Tells(q) # {}
  <2>1. PICK k \in Tells(q) : \A j \in Tells(q) : j <= k
    BY <1>4, LastTelling
  <2>2. LastTold(q, known) = StateTold(q[k].id)
    BY <2>1, LastToldAt
  <2>3. k + 1 \in Tells(long) /\ \A j \in Tells(long) : j <= k + 1
    BY <1>2, <1>3, <2>1
  <2>4. LastTold(long, r) = StateTold(long[k + 1].id)
    BY <1>1, <2>3, LastToldAt
  <2>5. long[k + 1] = q[k]
    BY <1>1, <1>2
  <2> QED BY <2>2, <2>4, <2>5 DEF long, known
<1>5. CASE Tells(q) = {}
  <2>1. LastTold(q, known) = known
    BY <1>5 DEF LastTold
  <2>2. CASE x.id \in TellingIds
    <3>1. 1 \in Tells(long) /\ \A j \in Tells(long) : j <= 1
      BY <1>1, <1>3, <1>5, <2>2 DEF Tells
    <3>2. LastTold(long, r) = StateTold(long[1].id)
      BY <1>1, <3>1, LastToldAt
    <3> QED BY <1>1, <2>1, <2>2, <3>2 DEF long, known
  <2>3. CASE x.id \notin TellingIds
    <3>1. Tells(long) = {}
      BY <1>1, <1>3, <1>5, <2>3 DEF Tells
    <3> QED BY <2>1, <2>3, <3>1 DEF LastTold, long, known
  <2> QED BY <2>2, <2>3
<1> QED BY <1>4, <1>5

-----------------------------------------------------------------------------
(* The orders that wait have identifiers of orders: their echoes, 150 more, *)
(* are not taken for logs that tell a state.                                *)
OrdersKnown == \A i \in DOMAIN orderMbx : orderMbx[i].id \in KnownCommunIds

\* Between the dispatch of DO_TRAJ_AT_DATE and waitingBehaviour the change to
\* WAITING_TIME is not yet told.
Told ==
  Running /\ ~NullInFlight =>
    StateAsTold = state \/ (txPc = "behave" /\ state = WAITING_TIME)

ReportInv == OrdersKnown /\ Told

(* One operation on Fifo_order adds no order that is not known.             *)
LEMMA OrderOpsKnown ==
  ASSUME OrdersTypeOK, OrdersKnown, NEW m \in SimpleMessage, m.id \in KnownCommunIds
  PROVE  /\ OrderFifo!SendObject(m) => OrdersKnown'
         /\ OrderFifo!SendObjectAhead(m) => OrdersKnown'
         /\ OrderFifo!ReceiveAndReturn => OrdersKnown'
         /\ UNCHANGED orderVars => OrdersKnown'
<1> USE DEF OrdersTypeOK
<1>1. ASSUME OrderFifo!SendObject(m) PROVE OrdersKnown'
  <2>1. /\ orderMbx' \in Seq(SimpleMessage) /\ Len(orderMbx') = Len(orderMbx) + 1
        /\ \A i \in 1 .. Len(orderMbx) : orderMbx'[i] = orderMbx[i]
        /\ orderMbx'[Len(orderMbx) + 1] = m
    BY <1>1, QueueOps, QueueIndices DEF OrderFifo!SendObject
  <2> QED BY <2>1 DEF OrdersKnown
<1>2. ASSUME OrderFifo!SendObjectAhead(m) PROVE OrdersKnown'
  <2>1. /\ orderMbx' \in Seq(SimpleMessage) /\ Len(orderMbx') = Len(orderMbx) + 1
        /\ orderMbx'[1] = m
        /\ \A i \in 2 .. (Len(orderMbx) + 1) : orderMbx'[i] = orderMbx[i - 1]
    BY <1>2, QueueOps, QueueIndices DEF OrderFifo!SendObjectAhead
  <2>2. ASSUME NEW i \in DOMAIN orderMbx' PROVE orderMbx'[i].id \in KnownCommunIds
    <3>1. CASE i = 1
      BY <2>1, <3>1
    <3>2. CASE i # 1
      <4>1. i \in 2 .. (Len(orderMbx) + 1) /\ i - 1 \in DOMAIN orderMbx
        BY <2>1, <3>2
      <4> QED BY <2>1, <4>1 DEF OrdersKnown
    <3> QED BY <3>1, <3>2
  <2> QED BY <2>2 DEF OrdersKnown
<1>3. ASSUME OrderFifo!ReceiveAndReturn PROVE OrdersKnown'
  <2>1. /\ orderMbx' \in Seq(SimpleMessage) /\ Len(orderMbx') = Len(orderMbx) - 1
        /\ \A i \in 1 .. (Len(orderMbx) - 1) : orderMbx'[i] = orderMbx[i + 1]
    BY <1>3, QueueOps, QueueIndices DEF OrderFifo!ReceiveAndReturn
  <2> QED BY <2>1 DEF OrdersKnown
<1>4. UNCHANGED orderVars => OrdersKnown'
  BY DEF orderVars, OrdersKnown
<1> QED BY <1>1, <1>2, <1>3, <1>4

(* Only orders that handleCommunMessage knows reach Fifo_order.             *)
LEMMA NextOrdersKnown ==
  ASSUME TypeOK, OrdersKnown, [Next]_vars PROVE OrdersKnown'
<1>1. OrdersTypeOK
  BY DEF TypeOK
<1>2. CASE UNCHANGED orderVars \/ OrderFifo!ReceiveAndReturn
  BY <1>1, <1>2, KnownEmergency, OrderOpsKnown
<1>3. ASSUME NEW m \in SimpleMessage, m.id \in KnownCommunIds,
             OrderFifo!SendObject(m) \/ OrderFifo!SendObjectAhead(m)
      PROVE  OrdersKnown'
  BY <1>1, <1>3, OrderOpsKnown
<1> QED BY <1>2, <1>3, NextOrderOp DEF OneOp, PostsKnown

(* Two facts on the logs in the hands of pcTxThread and in the mailbox.     *)
LEMMA PendingOps ==
  ASSUME NEW S, NEW q \in Seq(S), NEW x \in S, NEW y \in S
  PROVE  /\ <<x>> \o Append(q, y) = Append(<<x>> \o q, y)
         /\ q # <<>> => <<Head(q)>> \o Tail(q) = q
<1>1. <<x>> \in Seq(S) /\ <<y>> \in Seq(S) /\ <<x>> \o q \in Seq(S)
  BY QueueOps
<1>2. <<x>> \o Append(q, y) = Append(<<x>> \o q, y)
  <2>1. (<<x>> \o q) \o <<y>> = <<x>> \o (q \o <<y>>)
    BY <1>1, ConcatAssociative
  <2>2. Append(q, y) = q \o <<y>> /\ Append(<<x>> \o q, y) = (<<x>> \o q) \o <<y>>
    BY <1>1, AppendIsConcat
  <2> QED BY <2>1, <2>2
<1>3. ASSUME q # <<>> PROVE <<Head(q)>> \o Tail(q) = q
  <2> DEFINE long == <<Head(q)>> \o Tail(q)
  <2>1. Head(q) \in S /\ Tail(q) \in Seq(S)
    BY <1>3, QueueOps
  <2>2. /\ long \in Seq(S) /\ Len(long) = Len(q) /\ long[1] = q[1]
        /\ \A i \in 2 .. Len(q) : long[i] = Tail(q)[i - 1]
    BY <1>3, <2>1, QueueOps, QueueIndices
  <2>3. \A i \in 2 .. Len(q) : Tail(q)[i - 1] = q[i]
    BY <1>3, QueueIndices
  <2>4. \A i \in 1 .. Len(q) : long[i] = q[i]
    BY <2>2, <2>3
  <2> QED BY <2>2, <2>4, SeqEqual
<1> QED BY <1>2, <1>3

LEMMA NoLogTold ==
  ASSUME UNCHANGED <<logVars, pcVars>>
  PROVE  StateAsTold' = StateAsTold /\ (NullInFlight' <=> NullInFlight)
BY DEF logVars, pcVars, StateAsTold, Telling, Pending, Holds, NullInFlight

(* A log is the last one, and unless it is NULL tells what it tells.        *)
LEMMA LogTold ==
  ASSUME LogsTypeOK, PcTypeOK, NEW entry \in LogEntry, writeLogToFifo(entry),
         UNCHANGED pcVars, ~NullInFlight'
  PROVE  /\ ~NullInFlight
         /\ StateAsTold' = IF entry.id \in TellingIds THEN StateTold(entry.id)
                                                      ELSE StateAsTold
<1> DEFINE Slots == LogEntry \cup {NullObject, NoObject}
<1>1. /\ logMbx \in Seq(Slots) /\ entry \in Slots /\ NullObject \in Slots
      /\ transmitting \in Slots
  BY DEF LogsTypeOK, PcTypeOK
<1> HIDE DEF Slots
<1>2. ~LogFifo!SendNull
  <2> SUFFICES ASSUME LogFifo!SendNull PROVE FALSE
    OBVIOUS
  <2>1. logMbx' = Append(logMbx, NullObject)
    BY DEF LogFifo!SendNull
  <2>2. /\ logMbx' \in Seq(Slots) /\ Len(logMbx') = Len(logMbx) + 1
        /\ logMbx'[Len(logMbx) + 1] = NullObject
    BY <1>1, <2>1, QueueOps, QueueIndices
  <2>3. Len(logMbx) + 1 \in DOMAIN logMbx'
    BY <1>1, <2>2
  <2> QED BY <2>2, <2>3 DEF NullInFlight
<1>3. logMbx' = Append(logMbx, entry)
  BY <1>2 DEF writeLogToFifo, LogFifo!SendObject
<1>4. ~NullInFlight
  <2>1. /\ logMbx' \in Seq(Slots) /\ Len(logMbx') = Len(logMbx) + 1
        /\ \A i \in 1 .. Len(logMbx) : logMbx'[i] = logMbx[i]
    BY <1>1, <1>3, QueueOps, QueueIndices
  <2>2. \A i \in DOMAIN logMbx : i \in 1 .. Len(logMbx) /\ i \in DOMAIN logMbx'
    BY <1>1, <2>1
  <2>3. NullInFlight => NullInFlight'
    BY <2>1, <2>2 DEF NullInFlight, pcVars
  <2> QED BY <2>3
<1>5. Pending' = Append(Pending, entry) /\ Pending \in Seq(Slots)
  <2>1. Holds' = Holds /\ transmitting' = transmitting
    BY DEF Holds, pcVars
  <2>2. CASE Holds
    <3>1. Pending = <<transmitting>> \o logMbx /\ Pending' = <<transmitting>> \o logMbx'
      BY <2>1, <2>2 DEF Pending
    <3> QED BY <1>1, <1>3, <3>1, QueueOps, PendingOps
  <2>3. CASE ~Holds
    BY <1>1, <1>3, <2>1, <2>3 DEF Pending
  <2> QED BY <2>2, <2>3
<1>6. StateAsTold' = LastTold(Pending', reported)
  BY ToldDef DEF StateAsTold, Telling, LastTold, Tells, pcVars
<1> QED BY <1>1, <1>4, <1>5, <1>6, ToldDef, LastToldAppend

(* pcTxThread changes nothing of what its logs tell.                        *)
LEMMA PcTxTold ==
  ASSUME LogsTypeOK, PcTypeOK, PcTxNext, Running'
  PROVE  StateAsTold' = StateAsTold
<1> DEFINE Slots == LogEntry \cup {NullObject, NoObject}
<1>1. logMbx \in Seq(Slots) /\ transmitting \in Slots
  BY DEF LogsTypeOK, PcTypeOK
<1>2. StateAsTold' = LastTold(Pending', reported')
  BY DEF StateAsTold, Telling, LastTold, Tells
<1>3. CASE PcTxReceive
  <2>1. /\ logMbx # <<>> /\ logMbx' = Tail(logMbx) /\ transmitting' = Head(logMbx)
        /\ ~Holds /\ reported' = reported
    BY <1>3 DEF PcTxReceive, LogFifo!ReceiveObject
  <2>2. Head(logMbx) \in LogEntry \cup {NullObject}
    BY <2>1, QueueOps DEF LogsTypeOK
  <2>3. Holds'
    <3>1. NoObject \notin LogEntry /\ NoObject # NullObject
      BY DEF NoObject, NullObject, LogEntry, Byte
    <3> QED BY <2>1, <2>2, <3>1 DEF Holds
  <2>4. Pending = logMbx /\ Pending' = <<Head(logMbx)>> \o Tail(logMbx)
    BY <2>1, <2>3 DEF Pending
  <2>5. <<Head(logMbx)>> \o Tail(logMbx) = logMbx
    <3> HIDE DEF Slots
    <3> QED BY <1>1, <2>1, PendingOps
  <2> QED BY <1>2, <2>1, <2>4, <2>5, ToldDef
<1>4. CASE PcTxReturn
  <2>1. /\ Holds /\ ~Holds' /\ logMbx' = logMbx
        /\ reported' = IF transmitting.id \in TellingIds THEN StateTold(transmitting.id)
                                                         ELSE reported
    BY <1>4 DEF PcTxReturn, LogFifo!ReturnObject, Holds
  <2>2. Pending = <<transmitting>> \o logMbx /\ Pending' = logMbx
    BY <2>1 DEF Pending
  <2> HIDE DEF Slots
  <2> QED BY <1>1, <1>2, <2>1, <2>2, ToldDef, LastToldFirst
<1>5. CASE PcTxReturnNull
  BY <1>5 DEF PcTxReturnNull, Stop, Running
<1> QED BY <1>3, <1>4, <1>5 DEF PcTxNext

(* What each log tells of the state, if it tells any                        *)
LEMMA WhatIsTold ==
  /\ {ID_MSG_ALERT_ANTENNA_EMERGENCY, ID_MSG_LOG_TRAJ_BEGIN_TRAJECTORY,
      ID_MSG_LOG_TRAJ_WAITING_TRAJECTORY, ID_MSG_ALERT_TRAJECTORY_DROPPED,
      ID_MSG_LOG_TRAJ_FINISH_TRAJECTORY, ID_MSG_LOG_EXIT_EMERGENCY} = TellingIds
  /\ StateTold(ID_MSG_ALERT_ANTENNA_EMERGENCY) = EMERGENCY
  /\ StateTold(ID_MSG_LOG_TRAJ_BEGIN_TRAJECTORY) = PROCESS_TRAJ
  /\ StateTold(ID_MSG_LOG_TRAJ_WAITING_TRAJECTORY) = WAITING_TIME
  /\ StateTold(ID_MSG_ALERT_TRAJECTORY_DROPPED) = NOMINAL
  /\ StateTold(ID_MSG_LOG_TRAJ_FINISH_TRAJECTORY) = NOMINAL
  /\ StateTold(ID_MSG_LOG_EXIT_EMERGENCY) = NOMINAL
BY DEF TellingIds, StateTold, EMERGENCY, PROCESS_TRAJ, WAITING_TIME, NOMINAL,
   ID_MSG_ALERT_ANTENNA_EMERGENCY, ID_MSG_LOG_TRAJ_BEGIN_TRAJECTORY,
   ID_MSG_LOG_TRAJ_WAITING_TRAJECTORY, ID_MSG_ALERT_TRAJECTORY_DROPPED,
   ID_MSG_LOG_TRAJ_FINISH_TRAJECTORY, ID_MSG_LOG_EXIT_EMERGENCY

LEMMA WhatTellsNothing ==
  /\ {ID_MSG_ALERT_CRC_ERROR, ID_MSG_ALERT_BAD_ANTENNA_RESPONSE,
      ID_MSG_ALERT_BAD_MESSAGE_ID, ID_MSG_ALERT_NO_1PPS, ID_MSG_ALERT_WRONG_GPS_MESSAGE,
      ID_MSG_ALERT_MESSAGE_DROPPED, ID_MSG_LOG_ANTENNA_RETURN,
      ID_MSG_LOG_TRAJ_RESPONSE_CORRECT} \subseteq Byte \ TellingIds
  /\ \A m \in SimpleMessage : m.id \in KnownCommunIds => Echo(m).id \notin TellingIds
<1> USE DEF TellingIds, ID_MSG_ALERT_ANTENNA_EMERGENCY, ID_MSG_LOG_TRAJ_BEGIN_TRAJECTORY,
   ID_MSG_LOG_TRAJ_WAITING_TRAJECTORY, ID_MSG_ALERT_TRAJECTORY_DROPPED,
   ID_MSG_LOG_TRAJ_FINISH_TRAJECTORY, ID_MSG_LOG_EXIT_EMERGENCY
<1>1. {ID_MSG_ALERT_CRC_ERROR, ID_MSG_ALERT_BAD_ANTENNA_RESPONSE,
       ID_MSG_ALERT_BAD_MESSAGE_ID, ID_MSG_ALERT_NO_1PPS, ID_MSG_ALERT_WRONG_GPS_MESSAGE,
       ID_MSG_ALERT_MESSAGE_DROPPED, ID_MSG_LOG_ANTENNA_RETURN,
       ID_MSG_LOG_TRAJ_RESPONSE_CORRECT} \subseteq Byte \ TellingIds
  BY DEF Byte, FIRST_ERROR_ID, ID_MSG_ALERT_CRC_ERROR, ID_MSG_ALERT_BAD_ANTENNA_RESPONSE,
     ID_MSG_ALERT_BAD_MESSAGE_ID, ID_MSG_ALERT_NO_1PPS, ID_MSG_ALERT_WRONG_GPS_MESSAGE,
     ID_MSG_ALERT_MESSAGE_DROPPED, ID_MSG_LOG_ANTENNA_RETURN,
     ID_MSG_LOG_TRAJ_RESPONSE_CORRECT
<1>2. ASSUME NEW m \in SimpleMessage, m.id \in KnownCommunIds
      PROVE  Echo(m).id \notin TellingIds
  <2>1. m.id \in 0 .. 6
    BY <1>2 DEF KnownCommunIds, ID_MSG_ORDER_SURVIE, ID_MSG_ORDER_DESACTIVATE,
       ID_MSG_ORDER_REINI, ID_MSG_ORDER_CALAGE, ID_MSG_ORDER_GOTO, ID_MSG_ORDER_ANTENNA,
       ID_MSG_ORDER_DO_TRAJ_AT_DATE
  <2>2. Echo(m).id = (m.id + 150) % 256
    BY DEF Echo, Log, ID_MSG_LOG_REEMIT_OFFSET
  <2>3. Echo(m).id \in 150 .. 156
    BY <2>1, <2>2
  <2> QED BY <2>3
<1> QED BY <1>1, <1>2

(* A step of the antenna thread that leaves it blocked has told its state.  *)
LEMMA TxTold ==
  ASSUME TypeOK, ReportInv, TxThread PROVE Told'
<1> SUFFICES ASSUME Running', ~NullInFlight'
             PROVE  StateAsTold' = state' \/ (txPc' = "behave" /\ state' = WAITING_TIME)
  BY DEF Told
<1> USE DEF States, NOMINAL, WAITING_TIME, PROCESS_TRAJ, EMERGENCY
<1>1. LogsTypeOK /\ PcTypeOK /\ OrdersTypeOK /\ UNCHANGED pcVars /\ ~TxCrash
  BY DEF TypeOK, TxThread, TxCrash, LogCrash, Stop, Running
<1>2. Running
  BY DEF TxThread, TxNext, PpsEdge, PpsTimeout, NoOrder, ReadOrder, DispatchEmergency,
     DispatchDoTrajAtDate, DispatchAntenna, DispatchBadId, DispatchDropped,
     NominalBehaviour, WaitingBehaviour, TrackingMidway, TrackingLast, EmergencyBegins,
     EmergencyEnds
<1>3. ~NullInFlight => StateAsTold = state \/ (txPc = "behave" /\ state = WAITING_TIME)
  BY <1>2 DEF ReportInv, Told
<1>4. ASSUME UNCHANGED logVars
      PROVE  /\ StateAsTold' = StateAsTold
             /\ StateAsTold = state \/ (txPc = "behave" /\ state = WAITING_TIME)
  BY <1>1, <1>3, <1>4, NoLogTold DEF pcVars
<1>5. ASSUME NEW i \in Byte, writeLogToFifo(Log(i))
      PROVE  /\ StateAsTold' = IF i \in TellingIds THEN StateTold(i) ELSE StateAsTold
             /\ StateAsTold = state \/ (txPc = "behave" /\ state = WAITING_TIME)
  <2>1. Log(i) \in LogEntry /\ Log(i).id = i
    BY LogType DEF Log
  <2> QED BY <1>1, <1>3, <1>5, <2>1, LogTold
<1>6. TellingIds \subseteq Byte
  BY DEF TellingIds, Byte, ID_MSG_ALERT_ANTENNA_EMERGENCY, ID_MSG_LOG_TRAJ_BEGIN_TRAJECTORY,
     ID_MSG_LOG_TRAJ_WAITING_TRAJECTORY, ID_MSG_ALERT_TRAJECTORY_DROPPED,
     ID_MSG_LOG_TRAJ_FINISH_TRAJECTORY, ID_MSG_LOG_EXIT_EMERGENCY
<1>7. CASE PpsEdge \/ NoOrder \/ NominalBehaviour \/ DispatchDoTrajAtDate
             \/ DispatchAntenna \/ TrackingMidway \/ EmergencyBegins
  BY <1>4, <1>7
  DEF PpsEdge, NoOrder, NominalBehaviour, DispatchDoTrajAtDate, DispatchAntenna, Dispatched,
      TrackingMidway, EmergencyBegins, boardVars
<1>8. CASE PpsTimeout \/ DispatchBadId \/ DispatchDropped
  BY <1>1, <1>5, <1>8, WhatTellsNothing
  DEF PpsTimeout, DispatchBadId, DispatchDropped, Dispatched
<1>9. CASE ReadOrder
  <2>1. /\ orderMbx # <<>> /\ writeLogToFifo(Echo(Head(orderMbx)))
        /\ txPc = "order" /\ state' = state
    BY <1>1, <1>9 DEF ReadOrder
  <2>2. Head(orderMbx) \in SimpleMessage /\ Head(orderMbx).id \in KnownCommunIds
    BY <1>1, <2>1, QueueOps, QueueIndices DEF OrdersTypeOK, ReportInv, OrdersKnown
  <2>3. Echo(Head(orderMbx)) \in LogEntry /\ Echo(Head(orderMbx)).id \notin TellingIds
    BY <2>2, EchoType, WhatTellsNothing
  <2> QED BY <1>1, <1>3, <2>1, <2>3, LogTold
<1>10. CASE DispatchEmergency \/ TrackingLast \/ EmergencyEnds
  BY <1>1, <1>5, <1>6, <1>10, WhatIsTold
  DEF DispatchEmergency, Dispatched, TrackingLast, EmergencyEnds
<1>11. CASE WaitingBehaviour
  <2>1. /\ WaitingOutcome.log \in TellingIds
        /\ StateTold(WaitingOutcome.log) = WaitingOutcome.next
    BY WhatIsTold DEF WaitingOutcome
  <2> QED BY <1>1, <1>5, <1>6, <1>11, <2>1 DEF WaitingBehaviour
<1> QED BY <1>7, <1>8, <1>9, <1>10, <1>11 DEF TxThread, TxNext

(* The other threads log nothing of the state.                              *)
LEMMA OtherTold ==
  ASSUME TypeOK, Told, OtherThread PROVE Told'
<1> SUFFICES ASSUME Running', ~NullInFlight' PROVE StateAsTold' = state'
  BY DEF Told
<1>1. LogsTypeOK /\ PcTypeOK /\ UNCHANGED txVars
  BY DEF TypeOK, OtherThread
<1>2. Running /\ ~NullInFlight => StateAsTold = state
  BY DEF Told, OtherThread, CpuFree
<1>3. state' = state
  BY <1>1 DEF txVars
<1>4. ASSUME NEW entry \in LogEntry, entry.id \notin TellingIds, JustLog(entry), Running
      PROVE  StateAsTold' = state'
  <2>1. writeLogToFifo(entry) /\ UNCHANGED pcVars
    BY <1>4 DEF JustLog, PcCrash, LogCrash, Stop, Running
  <2> QED BY <1>1, <1>2, <1>3, <1>4, <2>1, LogTold
<1>5. ASSUME UNCHANGED <<logVars, pcVars>>, Running PROVE StateAsTold' = state'
  BY <1>2, <1>3, <1>5, NoLogTold
<1>6. \A i \in Byte : Log(i) \in LogEntry /\ Log(i).id = i
  BY LogType DEF Log
<1>7. ASSUME NEW m \in PcMessages, handleIncomingMessage(m) PROVE StateAsTold' = state'
  <2>1. CASE HandleWrongId(m)
    BY <1>4, <1>6, <2>1, WhatTellsNothing DEF HandleWrongId
  <2>2. CASE HandleTrajCheckCorrect(m)
    <3> DEFINE answer == [id    |-> ID_MSG_LOG_TRAJ_RESPONSE_CORRECT,
                          value |-> IF trajCheckCorrectLength THEN 1 ELSE 0]
    <3>1. answer \in LogEntry /\ answer.id \notin TellingIds
      BY WhatTellsNothing DEF LogEntry
    <3> QED BY <1>4, <2>2, <3>1 DEF HandleTrajCheckCorrect
  <2>3. CASE HandleTrajSetLength(m) \/ HandleTrajSetNewPoint(m) \/ HandleTrajReini(m)
               \/ HandleEmergency(m) \/ HandleOrder(m)
    <3>1. Running /\ UNCHANGED <<logVars, pcVars>>
      BY <2>3 DEF HandleTrajSetLength, HandleTrajSetNewPoint, HandleTrajReini,
         HandleEmergency, HandleOrder, OrderCrash, Stop
    <3> QED BY <1>5, <3>1
  <2> QED BY <1>7, <2>1, <2>2, <2>3 DEF handleIncomingMessage
<1>8. CASE UserButton \/ GpsSetsClock
  <2>1. Running /\ UNCHANGED <<logVars, pcVars>>
    BY <1>8 DEF UserButton, GpsSetsClock, OrderCrash, Stop
  <2> QED BY <1>5, <2>1
<1>9. CASE GpsWrongMessage \/ ReceiveCrcError
  BY <1>4, <1>6, <1>9, WhatTellsNothing DEF GpsWrongMessage, ReceiveCrcError
<1>10. CASE AntennaAnswer
  <2>1. PICK header \in AntennaHeaders :
          JustLog(Log(IF header = "good" THEN ID_MSG_LOG_ANTENNA_RETURN
                                         ELSE ID_MSG_ALERT_BAD_ANTENNA_RESPONSE))
    BY <1>10 DEF AntennaAnswer
  <2>2. CASE header = "good"
    BY <1>4, <1>6, <1>10, <2>1, <2>2, WhatTellsNothing DEF AntennaAnswer
  <2>3. CASE header # "good"
    BY <1>4, <1>6, <1>10, <2>1, <2>3, WhatTellsNothing DEF AntennaAnswer
  <2> QED BY <2>2, <2>3
<1>11. CASE PcTxNext
  <2>1. Running
    BY <1>11 DEF PcTxNext, PcTxReceive, PcTxReturn, PcTxReturnNull
  <2> QED BY <1>1, <1>2, <1>3, <1>11, <2>1, PcTxTold, NullStays
<1> QED BY <1>7, <1>8, <1>9, <1>10, <1>11 DEF OtherThread, PcReceives

LEMMA NextReport == TypeOK /\ ReportInv /\ [Next]_vars => ReportInv'
<1> SUFFICES ASSUME TypeOK, ReportInv, [Next]_vars PROVE ReportInv'
  OBVIOUS
<1>1. OrdersKnown'
  BY NextOrdersKnown DEF ReportInv
<1>2. CASE ClockTick \/ UNCHANGED vars
  <2>1. UNCHANGED <<logVars, pcVars, state, txPc, panic>>
    BY <1>2 DEF ClockTick, vars, boardVars, txVars
  <2>2. StateAsTold' = StateAsTold /\ (NullInFlight' <=> NullInFlight)
    BY <2>1, NoLogTold
  <2>3. Told'
    BY <2>1, <2>2 DEF ReportInv, Told, Running
  <2> QED BY <1>1, <2>3 DEF ReportInv
<1>3. CASE TxThread \/ OtherThread
  BY <1>1, <1>3, TxTold, OtherTold DEF ReportInv
<1> QED BY <1>2, <1>3 DEF Next

LEMMA InitReport == Init => ReportInv
<1> SUFFICES ASSUME Init PROVE ReportInv
  OBVIOUS
<1>1. orderMbx = <<>> /\ logMbx = <<>> /\ state = "NOMINAL" /\ reported = "NOMINAL" /\ ~Holds
  BY DEF Init, BoardInit, TxInit, PcInit, OrderFifo!Init, LogFifo!Init, NOMINAL, Holds
<1>2. Pending = <<>> /\ Telling = {}
  BY <1>1 DEF Pending, Telling
<1>3. StateAsTold = state
  BY <1>1, <1>2 DEF StateAsTold
<1> QED BY <1>1, <1>3 DEF ReportInv, OrdersKnown, Told

(* Whatever the environment does and however the threads are interleaved,   *)
(* when the antenna thread is blocked the logs that the PC has and will     *)
(* receive tell it the state of the thread, as long as writeLogToFifo has   *)
(* posted no NULL.                                                          *)
THEOREM LogsTellState == Spec => []StateReported
<1>1. ReportInv => StateReported
  BY DEF ReportInv, Told, StateReported, CpuFree
<1>2. Spec => []TypeOK
  BY TypeCorrect
<1> QED BY <1>1, <1>2, InitReport, NextReport, PTL DEF Spec
=============================================================================
