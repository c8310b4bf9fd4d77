------------------------------ MODULE Firmware ------------------------------
(***************************************************************************)
(* The whole firmware: the antenna transmission thread, the two threads of *)
(* the PC link, the antenna receiver, the GPS thread and the user button   *)
(* of main, over the shared state of Board.                                *)
(*                                                                         *)
(* The environment is any PC that sends messages of PcMessages, corrupted  *)
(* ones if CrcErrors, a user who may press the button at any time if       *)
(* ButtonPressed, an antenna that answers with headers of AntennaHeaders,  *)
(* and a GPS receiver that sends dates of GpsDates or, if GpsNoise, is     *)
(* silent or sends another sentence.                                       *)
(***************************************************************************)
EXTENDS AntennaTx, PcSerial

CONSTANTS PcMessages, CrcErrors, ButtonPressed, AntennaHeaders, GpsDates, GpsNoise

vars == <<boardVars, txVars, pcVars>>

ASSUME EnvironmentAssumption ==
  /\ PcMessages \subseteq SimpleMessage
  /\ CrcErrors \in BOOLEAN /\ ButtonPressed \in BOOLEAN /\ GpsNoise \in BOOLEAN
  /\ AntennaHeaders \subseteq {"good", "bad"}
  /\ GpsDates \subseteq Time

Init == BoardInit /\ TxInit /\ PcInit

(* main: the user button, polled every USER_BUTTON_TIMEOUT_MS               *)
UserButton ==
  /\ ButtonPressed /\ Running
  /\ \/ /\ writeEmergencyToOrder
        /\ UNCHANGED <<logVars, trajVars, rtc, antenna, panic, pcVars>>
     \/ OrderCrash /\ UNCHANGED pcVars

(* antennaRxThread: an answer, or a byte that cannot begin one              *)
AntennaAnswer ==
  /\ Running
  /\ \E header \in AntennaHeaders :
       JustLog(Log(IF header = "good" THEN ID_MSG_LOG_ANTENNA_RETURN
                                      ELSE ID_MSG_ALERT_BAD_ANTENNA_RESPONSE))

(* gpsThread: a ZDA sentence sets the clock ...                             *)
GpsSetsClock ==
  /\ Running
  /\ rtc' \in GpsDates
  /\ UNCHANGED <<orderVars, logVars, trajVars, antenna, panic, pcVars>>

(* ... another sentence, or none within TIME_OUT_READ_GPS, is reported.     *)
GpsWrongMessage ==
  /\ GpsNoise /\ Running
  /\ JustLog(Log(ID_MSG_ALERT_WRONG_GPS_MESSAGE))

(* The real-time clock runs on, whatever the threads do.                    *)
ClockTick ==
  /\ Running /\ rtc < MaxTime
  /\ rtc' = rtc + 1
  /\ UNCHANGED <<orderVars, logVars, trajVars, antenna, panic, txVars, pcVars>>

PcReceives ==
  \/ \E m \in PcMessages : handleIncomingMessage(m)
  \/ CrcErrors /\ ReceiveCrcError

OtherThread ==
  /\ CpuFree
  /\ PcReceives \/ PcTxNext \/ UserButton \/ AntennaAnswer
       \/ GpsSetsClock \/ GpsWrongMessage
  /\ UNCHANGED txVars

TxThread == TxNext /\ UNCHANGED pcVars

Next == TxThread \/ OtherThread \/ ClockTick

(* The antenna thread is woken by the pulse or by its timeout, by the end   *)
(* of its sleep, and then runs until it blocks.  pcTxThread is woken by the *)
(* mailbox and by the serial driver, which empties its queue; it runs only  *)
(* when the antenna thread blocks, again and again, and the ready list of   *)
(* the kernel is first in, first out: hence strong fairness.  The clock     *)
(* runs.  Nothing is assumed of the PC, of the user or of the GPS receiver. *)
PcTxThread == CpuFree /\ PcTxNext /\ UNCHANGED txVars

Fairness ==
  /\ WF_vars(TxThread)
  /\ SF_vars(PcTxThread)
  /\ WF_vars(ClockTick)

Spec == Init /\ [][Next]_vars
FairSpec == Spec /\ Fairness

-----------------------------------------------------------------------------
OrdersTypeOK == orderMbx \in Seq(SimpleMessage) /\ orderFree \in Nat
LogsTypeOK == logMbx \in Seq(LogEntry \cup {NullObject}) /\ logFree \in Nat
TrajTypeOK ==
  /\ nb_point \in Nat \cup {-2} /\ current_point \in -1 .. MaxPoint
  /\ table \in [TableIndex -> Frames] /\ init_date \in Nat
LinesTypeOK ==
  /\ rtc \in Time /\ antenna \in Frames
  /\ panic \in {"none", "order", "log", "wild"}
TxTypeOK ==
  /\ state \in States /\ input \in SimpleMessage
  /\ txPc \in {"pps", "order", "dispatch", "behave", "survival"}
PcTypeOK ==
  /\ transmitting \in LogEntry \cup {NullObject, NoObject}
  /\ reported \in States

(* The type invariant of main.c's FIFOs, of the trajectory object, of the   *)
(* clock and the antenna line, and of the threads' own variables.           *)
TypeOK ==
  /\ OrdersTypeOK /\ LogsTypeOK /\ TrajTypeOK
  /\ LinesTypeOK /\ TxTypeOK /\ PcTypeOK

(* An emergency waiting in Fifo_order has only emergencies ahead of it,     *)
(* whichever of the PC, in its two forms, and the user button posted it.    *)
EmergencyFirst ==
  \A i, j \in DOMAIN orderMbx :
    i < j /\ IsEmergency(orderMbx[j]) => IsEmergency(orderMbx[i])

EmergencyQueued == \E i \in DOMAIN orderMbx : IsEmergency(orderMbx[i])
EmergencyAsked  == EmergencyQueued \/ IsEmergency(input)

(* Where an emergency can be in the antenna thread's cycle.  An order read   *)
(* that is no emergency, and a behaviour other than the survival, run only  *)
(* when no emergency waits: the order was the first of the queue.           *)
EmergencyCycle ==
  /\ IsEmergency(input) => txPc = "dispatch"
  /\ state = EMERGENCY => txPc \in {"behave", "survival"}
  /\ txPc = "survival" => state = EMERGENCY
  /\ \/ txPc = "dispatch" /\ ~IsEmergency(input)
     \/ txPc = "behave" /\ state # EMERGENCY
     => ~EmergencyQueued

(* While an emergency waits, the only frame that can change what the        *)
(* antenna last received is the survival frame: neither an order taken      *)
(* before it nor the trajectory being played gets through.                  *)
OnlySurvivalWhileAsked ==
  [][EmergencyAsked /\ antenna' # antenna => antenna' = ANTENNA_SURVIE]_vars

NullInFlight ==
  transmitting = NullObject \/ \E i \in DOMAIN logMbx : logMbx[i] = NullObject

(* The objects of each FIFO are in the pool, in the mailbox or in the hands *)
(* of pcTxThread, none twice and none lost, so that a post that follows a   *)
(* successful take finds a mailbox slot (chFifoSendObject asserts it).      *)
ObjectsAccounted ==
  /\ orderFree + Len(orderMbx) = OrderFifoSize
  /\ ~NullInFlight =>
       logFree + Len(logMbx) + (IF Holds THEN 1 ELSE 0) = LogFifoSize

\* The state that the PC will deduce once it has read all pending logs
Pending == IF Holds THEN <<transmitting>> \o logMbx ELSE logMbx
Telling == {i \in DOMAIN Pending : Pending[i].id \in TellingIds}
StateAsTold ==
  IF Telling = {} THEN reported
  ELSE StateTold(Pending[CHOOSE i \in Telling : \A j \in Telling : j <= i].id)

(* Whenever the antenna thread is blocked, the logs that the PC has and     *)
(* will receive tell it the thread's state: no change of state goes         *)
(* unreported and none is reported that did not happen.                     *)
StateReported ==
  Running /\ CpuFree /\ ~NullInFlight => StateAsTold = state

Modes == INSTANCE AntennaModes
  WITH mode <- state, emergency <- EmergencyAsked, down <- ~Running

(* The firmware implements AntennaModes: only an emergency changes the mode *)
(* while one is asked for, and the trajectory states follow each other in   *)
(* the order arm, begin, finish.                                            *)
ImplementsModes == Modes!Safety

(* With the fairness of the threads, every emergency asked for is served    *)
(* and every emergency ends.                                                *)
ServesEmergencies == Modes!Spec

(* The PC learns of every emergency, unless the system stops first.         *)
EmergencyReported == (state = EMERGENCY) ~> (reported = EMERGENCY \/ ~Running)

(* An armed trajectory does not wait for ever: it begins, it is dropped, or *)
(* an emergency or a stop puts an end to it.                                *)
WaitingEnds == (state = WAITING_TIME) ~> (state # WAITING_TIME \/ ~Running)
=============================================================================
