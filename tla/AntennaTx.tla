----------------------------- MODULE AntennaTx -----------------------------
(***************************************************************************)
(* The antenna transmission thread (antennaTxThread and the behaviours of  *)
(* AntennaFunctions.c).  Once per pulse of the 1PPS line, or per timeout,  *)
(* it takes one order, obeys or drops it, and performs the behaviour of    *)
(* its state.                                                              *)
(*                                                                         *)
(* "txPc" says where the thread is: blocked on the 1PPS line ("pps"),      *)
(* about to read an order ("order"), to dispatch the order it read         *)
(* ("dispatch"), to perform the behaviour of its state ("behave"), or      *)
(* asleep in emergencyBehaviour ("survival").                              *)
(***************************************************************************)
EXTENDS Board

CONSTANT ANTICIPATION_TIME_BEFORE_TRACKING

VARIABLES state, txPc, input

txVars == <<state, txPc, input>>

ASSUME AnticipationAssumption == ANTICIPATION_TIME_BEFORE_TRACKING \in Nat

NOMINAL      == "NOMINAL"
WAITING_TIME == "WAITING_TIME"
PROCESS_TRAJ == "PROCESS_TRAJ"
EMERGENCY    == "EMERGENCY"
States == {NOMINAL, WAITING_TIME, PROCESS_TRAJ, EMERGENCY}

\* input_message before the first order, and once an order is dealt with
NoInput == Message(255, ZeroFrame, 0)

TxInit == state = NOMINAL /\ txPc = "pps" /\ input = NoInput

\* The thread is in a blocking call: only then can another thread run.
CpuFree == txPc \in {"pps", "survival"}

\* sdWrite to the antenna: the output queue never fills (at most two frames
\* a second, 320 bytes of queue), so the call does not block.
stmAntennaWriter(frame) == antenna' = frame

TxCrash == LogCrash /\ UNCHANGED txVars

(* palWaitLineTimeout returns on the rising edge ...                        *)
PpsEdge ==
  /\ Running /\ txPc = "pps"
  /\ txPc' = "order"
  /\ UNCHANGED <<boardVars, state, input>>

(* ... or after TIMEOUT_1PPS, which is reported.                            *)
PpsTimeout ==
  /\ Running /\ txPc = "pps"
  /\ \/ /\ writeLogToFifo(Log(ID_MSG_ALERT_NO_1PPS))
        /\ txPc' = "order"
        /\ UNCHANGED <<orderVars, trajVars, rtc, antenna, panic, state, input>>
     \/ TxCrash

NoOrder ==
  /\ Running /\ txPc = "order"
  /\ orderMbx = <<>>
  /\ txPc' = "behave"
  /\ UNCHANGED <<boardVars, state, input>>

(* The order is copied, its object returned, and it is echoed to the PC.    *)
ReadOrder ==
  /\ Running /\ txPc = "order"
  /\ orderMbx # <<>>
  /\ \/ /\ OrderFifo!ReceiveAndReturn
        /\ input' = Head(orderMbx)
        /\ writeLogToFifo(Echo(Head(orderMbx)))
        /\ txPc' = "dispatch"
        /\ UNCHANGED <<trajVars, rtc, antenna, panic, state>>
     \/ TxCrash

\* What every branch of the dispatch does with the thread's own variables
Dispatched(newState) ==
  /\ state' = newState
  /\ txPc' = "behave"
  /\ input' = NoInput

\* Faulty variant: the alert is forgotten.
DispatchEmergencySilently ==
  /\ Running /\ txPc = "dispatch"
  /\ IsEmergency(input)
  /\ Dispatched(EMERGENCY)
  /\ UNCHANGED boardVars

(* testEmergencyStop, and the alert of antennaTxThread                      *)
DispatchEmergency ==
  /\ Running /\ txPc = "dispatch"
  /\ IsEmergency(input)
  /\ \/ /\ writeLogToFifo(Log(ID_MSG_ALERT_ANTENNA_EMERGENCY))
        /\ Dispatched(EMERGENCY)
        /\ UNCHANGED <<orderVars, trajVars, rtc, antenna, panic>>
     \/ TxCrash

\* Faulty variant: the order is obeyed in any state.
DispatchDoTrajInAnyState ==
  /\ Running /\ txPc = "dispatch"
  /\ ~IsEmergency(input)
  /\ input.id = ID_MSG_ORDER_DO_TRAJ_AT_DATE
  /\ trajPrepareAtDate(input.value)
  /\ stmAntennaWriter(Target(0))
  /\ Dispatched(WAITING_TIME)
  /\ UNCHANGED <<orderVars, logVars, rtc, panic>>

(* nominalBehaviour, ID_MSG_ORDER_DO_TRAJ_AT_DATE                           *)
DispatchDoTrajAtDate ==
  /\ Running /\ txPc = "dispatch"
  /\ ~IsEmergency(input) /\ state = NOMINAL
  /\ input.id = ID_MSG_ORDER_DO_TRAJ_AT_DATE
  /\ trajPrepareAtDate(input.value)
  /\ stmAntennaWriter(Target(0))
  /\ Dispatched(WAITING_TIME)
  /\ UNCHANGED <<orderVars, logVars, rtc, panic>>

(* nominalBehaviour, ID_MSG_ORDER_ANTENNA                                   *)
DispatchAntenna ==
  /\ Running /\ txPc = "dispatch"
  /\ ~IsEmergency(input) /\ state = NOMINAL
  /\ input.id = ID_MSG_ORDER_ANTENNA
  /\ stmAntennaWriter(input.frame)
  /\ Dispatched(state)
  /\ UNCHANGED <<orderVars, logVars, trajVars, rtc, panic>>

(* nominalBehaviour, default: an order the thread does not implement        *)
DispatchBadId ==
  /\ Running /\ txPc = "dispatch"
  /\ ~IsEmergency(input) /\ state = NOMINAL
  /\ input.id \notin {ID_MSG_ORDER_DO_TRAJ_AT_DATE, ID_MSG_ORDER_ANTENNA}
  /\ \/ /\ writeLogToFifo(Log(ID_MSG_ALERT_BAD_MESSAGE_ID))
        /\ Dispatched(state)
        /\ UNCHANGED <<orderVars, trajVars, rtc, antenna, panic>>
     \/ TxCrash

(* An order read while waiting or tracking is dropped.                      *)
DispatchDropped ==
  /\ Running /\ txPc = "dispatch"
  /\ ~IsEmergency(input) /\ state # NOMINAL
  /\ \/ /\ writeLogToFifo(Log(ID_MSG_ALERT_MESSAGE_DROPPED))
        /\ Dispatched(state)
        /\ UNCHANGED <<orderVars, trajVars, rtc, antenna, panic>>
     \/ TxCrash

(* No case of antennaTxThread's switch for the nominal state                *)
NominalBehaviour ==
  /\ Running /\ txPc = "behave" /\ state = NOMINAL
  /\ txPc' = "pps"
  /\ UNCHANGED <<boardVars, state, input>>

\* What waitingBehaviour concludes from the clock
TooLate == rtc > init_date
Near == ~TooLate /\ init_date - rtc <= ANTICIPATION_TIME_BEFORE_TRACKING

\* Faulty variant: the beginning is reported, the state is not changed.
WaitingOutcomeStays ==
  IF TooLate THEN [log |-> ID_MSG_ALERT_TRAJECTORY_DROPPED, next |-> NOMINAL]
  ELSE IF Near THEN [log |-> ID_MSG_LOG_TRAJ_BEGIN_TRAJECTORY, next |-> WAITING_TIME]
  ELSE [log |-> ID_MSG_LOG_TRAJ_WAITING_TRAJECTORY, next |-> WAITING_TIME]

WaitingOutcome ==
  IF TooLate THEN [log |-> ID_MSG_ALERT_TRAJECTORY_DROPPED, next |-> NOMINAL]
  ELSE IF Near THEN [log |-> ID_MSG_LOG_TRAJ_BEGIN_TRAJECTORY, next |-> PROCESS_TRAJ]
  ELSE [log |-> ID_MSG_LOG_TRAJ_WAITING_TRAJECTORY, next |-> WAITING_TIME]

WaitingBehaviour ==
  /\ Running /\ txPc = "behave" /\ state = WAITING_TIME
  /\ \/ /\ writeLogToFifo(Log(WaitingOutcome.log))
        /\ state' = WaitingOutcome.next
        /\ txPc' = "pps"
        /\ UNCHANGED <<orderVars, trajVars, rtc, antenna, panic, input>>
     \/ TxCrash

(* trackingBehaviour: the next target is sent; when the index reaches the   *)
(* length the end is reported and the trajectory reinitialised.             *)
TrackingMidway ==
  /\ Running /\ txPc = "behave" /\ state = PROCESS_TRAJ
  /\ Advance(current_point) # nb_point
  /\ stmAntennaWriter(Target(current_point))
  /\ trajGetNextTarget
  /\ txPc' = "pps"
  /\ UNCHANGED <<orderVars, logVars, rtc, panic, state, input>>

TrackingLast ==
  /\ Running /\ txPc = "behave" /\ state = PROCESS_TRAJ
  /\ Advance(current_point) = nb_point
  /\ \/ /\ stmAntennaWriter(Target(current_point))
        /\ writeLogToFifo(Log(ID_MSG_LOG_TRAJ_FINISH_TRAJECTORY))
        /\ trajInit(rtc)
        /\ state' = NOMINAL
        /\ txPc' = "pps"
        /\ UNCHANGED <<orderVars, rtc, panic, input>>
     \/ TxCrash

(* emergencyBehaviour, up to the sleep of EMERGENCY_SEC_TIMEOUT seconds ... *)
EmergencyBegins ==
  /\ Running /\ txPc = "behave" /\ state = EMERGENCY
  /\ stmAntennaWriter(ANTENNA_SURVIE)
  /\ txPc' = "survival"
  /\ UNCHANGED <<orderVars, logVars, trajVars, rtc, panic, state, input>>

\* Faulty variant: the state is not reset.
EmergencyEndsNever ==
  /\ Running /\ txPc = "survival"
  /\ \/ /\ writeLogToFifo(Log(ID_MSG_LOG_EXIT_EMERGENCY))
        /\ txPc' = "pps"
        /\ UNCHANGED <<orderVars, trajVars, rtc, antenna, panic, state, input>>
     \/ TxCrash

\* Faulty variant: the tracking goes on after the emergency.
EmergencyEndsTracking ==
  /\ Running /\ txPc = "survival"
  /\ \/ /\ writeLogToFifo(Log(ID_MSG_LOG_EXIT_EMERGENCY))
        /\ state' = PROCESS_TRAJ
        /\ txPc' = "pps"
        /\ UNCHANGED <<orderVars, trajVars, rtc, antenna, panic, input>>
     \/ TxCrash

(* ... and after it.                                                        *)
EmergencyEnds ==
  /\ Running /\ txPc = "survival"
  /\ \/ /\ writeLogToFifo(Log(ID_MSG_LOG_EXIT_EMERGENCY))
        /\ state' = NOMINAL
        /\ txPc' = "pps"
        /\ UNCHANGED <<orderVars, trajVars, rtc, antenna, panic, input>>
     \/ TxCrash

TxNext ==
  \/ PpsEdge \/ PpsTimeout
  \/ NoOrder \/ ReadOrder
  \/ DispatchEmergency \/ DispatchDoTrajAtDate \/ DispatchAntenna
  \/ DispatchBadId \/ DispatchDropped
  \/ NominalBehaviour \/ WaitingBehaviour
  \/ TrackingMidway \/ TrackingLast
  \/ EmergencyBegins \/ EmergencyEnds
=============================================================================
