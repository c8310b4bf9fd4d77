-------------------------- MODULE TargetingProofs --------------------------
(***************************************************************************)
(* The client and the antenna thread stay apart although only clocks keep  *)
(* them so: whatever faults happen, no trajectory is loaded while another  *)
(* one waits or is played.                                                 *)
(*                                                                         *)
(* The invariant, Dyn, measures time.  The queue: when each waiting order  *)
(* will be read, emergencies ahead of it and what the faults can still     *)
(* cost included, is before the end of the pass that it announces          *)
(* (QueueInv), so that a date is obeyed, if at all, while the table it     *)
(* needs is kept (DateInv).  The trajectory: the point that is played      *)
(* follows the clock, hence the last one is played before the client can   *)
(* write to the table again (PlayInv, Kept, Earliest).  The table, while   *)
(* it is written, holds what has arrived (LoadInv), and the orders that    *)
(* prepare a mission are obeyed, read, waiting or still to send, in this   *)
(* order (PrepInv).  A system that has stopped keeps what is told of it.   *)
(***************************************************************************)
EXTENDS Targeting, FirmwareProofs, FiniteSetTheorems

Gap == TIME_BEFORE_REINI_AND_CALAGE
Nap == EMERGENCY_SEC_TIMEOUT
Duration(m) == Len(Missions[m].lines)

\* Script(m) in figures: the points are sent by the steps 6 to DateStep(m) - 1
DateStep(m) == Duration(m) + 7

-----------------------------------------------------------------------------
LEMMA MissionFacts ==
  ASSUME NEW m \in DOMAIN Missions
  PROVE  /\ m \in Nat \ {0} /\ Beginning(m) \in Nat
         /\ Duration(m) \in Nat \ {0} /\ Duration(m) < MAX_TRAJ_LENGTH
         /\ Ending(m) = Beginning(m) + Duration(m) - 1
         /\ MissionAt(Beginning(m)) = m
<1>1. /\ m \in Nat \ {0} /\ Missions[m].beginning \in Nat
      /\ \A k \in DOMAIN Missions :
           Missions[k].beginning = Missions[m].beginning => k = m
      /\ Len(Missions[m].lines) \in 1 .. (MAX_TRAJ_LENGTH - 1)
  BY MissionsAssumption
<1>2. MissionAt(Beginning(m)) = m
  BY <1>1 DEF MissionAt, Beginning
<1> QED BY <1>1, <1>2, TrajectoryAssumption DEF Beginning, Ending, Duration

(* The points of a mission: one more than it has lines.                     *)
LEMMA PlanParts ==
  ASSUME NEW m \in DOMAIN Missions
  PROVE  Plan(m) \in Seq(Frames) /\ Len(Plan(m)) = Duration(m) + 1
<1> DEFINE lines == Missions[m].lines
           tracked == [i \in DOMAIN lines |-> Ephemeris(lines[i])]
<1>1. /\ Len(lines) \in Nat \ {0} /\ DOMAIN lines = 1 .. Len(lines)
      /\ \A i \in DOMAIN lines : Position(lines[i]) \in Frames /\ Ephemeris(lines[i]) \in Frames
  BY MissionsAssumption, TrajectoryAssumption
<1>2. tracked \in Seq(Frames) /\ Len(tracked) = Len(lines)
  BY <1>1
<1>3. <<Position(lines[1])>> \in Seq(Frames) /\ Len(<<Position(lines[1])>>) = 1
  BY <1>1
<1>4. Plan(m) = <<Position(lines[1])>> \o tracked
  BY DEF Plan
<1> HIDE DEF tracked, lines
<1>5. Len(Plan(m)) = 1 + Len(lines) /\ Plan(m) \in Seq(Frames)
  BY <1>1, <1>2, <1>3, <1>4, ConcatProperties
<1> QED BY <1>1, <1>5 DEF Duration, lines

(* The script of a mission, step by step.                                   *)
LEMMA ScriptParts ==
  ASSUME NEW m \in DOMAIN Missions
  PROVE  /\ Len(Script(m)) = DateStep(m)
         /\ Script(m)[1] = OrderMessage(ID_MSG_ORDER_DESACTIVATE)
         /\ Script(m)[2] = OrderMessage(ID_MSG_ORDER_REINI)
         /\ Script(m)[3] = OrderMessage(ID_MSG_ORDER_CALAGE)
         /\ Script(m)[4] = OrderMessage(ID_MSG_ORDER_TRAJ_REINI)
         /\ Script(m)[5] = Message(ID_MSG_ORDER_TRAJ_SET_LENGTH, ZeroFrame, Duration(m) + 1)
         /\ \A i \in 6 .. (DateStep(m) - 1) :
              Script(m)[i] = Message(ID_MSG_ORDER_TRAJ_SET_NEW_POINT, Plan(m)[i - 5], 0)
         /\ Script(m)[DateStep(m)] =
              Message(ID_MSG_ORDER_DO_TRAJ_AT_DATE, ZeroFrame, Beginning(m))
<1> DEFINE M == [id : Nat, frame : Frames, value : Nat]
           a == OrderMessage(ID_MSG_ORDER_DESACTIVATE)
           b == OrderMessage(ID_MSG_ORDER_REINI)
           c == OrderMessage(ID_MSG_ORDER_CALAGE)
           d == OrderMessage(ID_MSG_ORDER_TRAJ_REINI)
           e == Message(ID_MSG_ORDER_TRAJ_SET_LENGTH, ZeroFrame, Len(Plan(m)))
           first == <<a, b, c, d, e>>
           points == [i \in DOMAIN Plan(m) |->
                        Message(ID_MSG_ORDER_TRAJ_SET_NEW_POINT, Plan(m)[i], 0)]
           f == Message(ID_MSG_ORDER_DO_TRAJ_AT_DATE, ZeroFrame, Beginning(m))
<1>1. /\ Plan(m) \in Seq(Frames) /\ Len(Plan(m)) = Duration(m) + 1
      /\ DOMAIN Plan(m) = 1 .. (Duration(m) + 1)
      /\ Duration(m) \in Nat /\ Beginning(m) \in Nat /\ ZeroFrame \in Frames
  BY PlanParts, MissionFacts, FrameTypes
<1>2. a \in M /\ b \in M /\ c \in M /\ d \in M /\ e \in M /\ f \in M
  BY <1>1 DEF OrderMessage, Message, ID_MSG_ORDER_DESACTIVATE, ID_MSG_ORDER_REINI,
     ID_MSG_ORDER_CALAGE, ID_MSG_ORDER_TRAJ_REINI, ID_MSG_ORDER_TRAJ_SET_LENGTH,
     ID_MSG_ORDER_DO_TRAJ_AT_DATE, FIRST_ORDER_TRAJ_ID
<1>3. \A i \in DOMAIN Plan(m) : Message(ID_MSG_ORDER_TRAJ_SET_NEW_POINT, Plan(m)[i], 0) \in M
  BY <1>1 DEF Message, ID_MSG_ORDER_TRAJ_SET_NEW_POINT
<1> HIDE DEF M
<1>4. points \in Seq(M) /\ Len(points) = Duration(m) + 1
  BY <1>1, <1>3
<1>5. /\ \A i \in 1 .. (Duration(m) + 1) :
           points[i] = Message(ID_MSG_ORDER_TRAJ_SET_NEW_POINT, Plan(m)[i], 0)
  BY <1>1
<1>6. Script(m) = first \o points \o <<f>>
  BY DEF Script
<1> HIDE DEF points, a, b, c, d, e, f
<1>7. /\ first \in Seq(M) /\ Len(first) = 5 /\ first[1] = a /\ first[2] = b
      /\ first[3] = c /\ first[4] = d /\ first[5] = e
      /\ <<f>> \in Seq(M) /\ Len(<<f>>) = 1 /\ <<f>>[1] = f
  BY <1>2
<1> HIDE DEF first
<1>8. /\ first \o points \in Seq(M) /\ Len(first \o points) = 5 + Len(points)
      /\ \A i \in 1 .. (5 + Len(points)) :
           (first \o points)[i] = IF i <= 5 THEN first[i] ELSE points[i - 5]
  <2>1. /\ first \o points \in Seq(M) /\ Len(first \o points) = Len(first) + Len(points)
        /\ \A i \in 1 .. Len(first) + Len(points) :
             (first \o points)[i] = IF i <= Len(first) THEN first[i]
                                                     ELSE points[i - Len(first)]
    BY <1>4, <1>7, ConcatProperties, Zenon
  <2> QED BY <1>7, <2>1
<1>9. /\ Len(Script(m)) = 6 + Len(points)
      /\ \A i \in 1 .. (6 + Len(points)) :
           Script(m)[i] = IF i <= 5 + Len(points) THEN (first \o points)[i]
                                                  ELSE <<f>>[i - (5 + Len(points))]
  BY <1>4, <1>6, <1>7, <1>8, ConcatProperties
<1>10. \A i \in 1 .. (5 + Len(points)) :
         Script(m)[i] = IF i <= 5 THEN first[i] ELSE points[i - 5]
  BY <1>1, <1>4, <1>8, <1>9, SMTT(30)
<1>11. \A i \in 1 .. 5 : Script(m)[i] = first[i]
  BY <1>1, <1>4, <1>10
<1>12. /\ Script(m)[1] = a /\ Script(m)[2] = b /\ Script(m)[3] = c
       /\ Script(m)[4] = d /\ Script(m)[5] = e
  BY <1>7, <1>11
<1>13. \A i \in 6 .. (Duration(m) + 6) : Script(m)[i] = points[i - 5]
  BY <1>1, <1>4, <1>10
<1>14. Script(m)[Duration(m) + 7] = f
  BY <1>1, <1>4, <1>7, <1>9, SMTT(30)
<1> QED BY <1>1, <1>4, <1>5, <1>9, <1>12, <1>13, <1>14, SMTT(30) DEF DateStep, a, b, c, d, e, f

-----------------------------------------------------------------------------
\* The steps of the antenna thread that do not stop the system, as far as
\* they matter to the client: without the logs they write
IsDate(o) == o.id = ID_MSG_ORDER_DO_TRAJ_AT_DATE

tracksVars == <<ordered, armed, played>>

Wakes ==
  /\ txPc = "pps" /\ pulse /\ ~pulse' /\ txPc' = "order"
  /\ UNCHANGED <<orderMbx, input, state, trajVars, slept, tracksVars>>

FindsNothing ==
  /\ txPc = "order" /\ orderMbx = <<>> /\ txPc' = "behave"
  /\ UNCHANGED <<orderMbx, input, state, trajVars, pulse, slept, tracksVars>>

Reads ==
  /\ txPc = "order" /\ orderMbx # <<>> /\ txPc' = "dispatch"
  /\ orderMbx' = Tail(orderMbx) /\ input' = Head(orderMbx)
  /\ UNCHANGED <<state, trajVars, pulse, slept, tracksVars>>

Deals(s) ==
  /\ txPc = "dispatch" /\ txPc' = "behave" /\ input' = NoInput /\ state' = s
  /\ UNCHANGED <<orderMbx, pulse, slept>>

SeesEmergency ==
  IsEmergency(input) /\ Deals(EMERGENCY) /\ UNCHANGED <<trajVars, tracksVars>>

Arms ==
  /\ state = NOMINAL /\ IsDate(input) /\ Deals(WAITING_TIME)
  /\ trajPrepareAtDate(input.value)
  /\ armed' = [mission |-> MissionAt(input.value), points |-> arrived]
  /\ played' = <<Target(0)>> /\ UNCHANGED ordered

Obeys ==
  /\ ~IsEmergency(input)
  /\ state = NOMINAL /\ input.id = ID_MSG_ORDER_ANTENNA /\ Deals(NOMINAL)
  /\ ordered' = Append(ordered, input.frame)
  /\ UNCHANGED <<trajVars, armed, played>>

Ignores ==
  /\ ~IsEmergency(input)
  /\ state = NOMINAL =>
       input.id \notin {ID_MSG_ORDER_DO_TRAJ_AT_DATE, ID_MSG_ORDER_ANTENNA}
  /\ Deals(state) /\ UNCHANGED <<trajVars, tracksVars>>

Behaves(s, pc) ==
  /\ txPc = "behave" /\ txPc' = pc /\ state' = s
  /\ UNCHANGED <<orderMbx, input, pulse, slept>>

Rests == state = NOMINAL /\ Behaves(NOMINAL, "pps") /\ UNCHANGED <<trajVars, tracksVars>>

Waits ==
  /\ state = WAITING_TIME /\ Behaves(WaitingOutcome.next, "pps")
  /\ UNCHANGED <<trajVars, tracksVars>>

Plays ==
  /\ state = PROCESS_TRAJ /\ played' = Append(played, Target(current_point))
  /\ \/ /\ Advance(current_point) # nb_point /\ Behaves(PROCESS_TRAJ, "pps")
        /\ trajGetNextTarget
     \/ /\ Advance(current_point) = nb_point /\ Behaves(NOMINAL, "pps")
        /\ trajInit(rtc)
  /\ UNCHANGED <<ordered, armed>>

Sleeps ==
  state = EMERGENCY /\ Behaves(EMERGENCY, "survival") /\ UNCHANGED <<trajVars, tracksVars>>

WakesUp ==
  /\ txPc = "survival" /\ txPc' = "pps" /\ slept = Nap /\ slept' = 0
  /\ state' = NOMINAL
  /\ UNCHANGED <<orderMbx, input, pulse, trajVars, tracksVars>>

Moves ==
  \/ Wakes \/ FindsNothing \/ Reads
  \/ SeesEmergency \/ Arms \/ Obeys \/ Ignores
  \/ Rests \/ Waits \/ Plays \/ Sleeps \/ WakesUp

LEMMA CycleMoves ==
  ASSUME AntennaCycle, Running'
  PROVE  /\ Moves /\ Running
         /\ UNCHANGED <<rtc, mission, step, wake, slips, arrived>>
         /\ faults' \in {faults, faults \cup {"silent"}} /\ faults' \subseteq faults \cup Faults
<1>1. /\ TxNext \/ PpsEdge \/ PpsTimeout
      /\ RecordWritten /\ UNCHANGED <<mission, step, wake>>
      /\ slept' = IF txPc = "survival" THEN 0 ELSE slept
      /\ txPc = "survival" => slept = Nap
      /\ txPc # "pps" => UNCHANGED <<pulse, faults, slips>>
      /\ txPc = "pps" => /\ pulse /\ ~pulse' /\ UNCHANGED slips
                         /\ \/ UNCHANGED faults
                            \/ "silent" \in Faults /\ faults' = faults \cup {"silent"}
  BY DEF AntennaCycle, clientVars, environmentVars, Nap, Happens
<1>2. ~TxCrash /\ panic' = "none"
  BY DEF TxCrash, LogCrash, Stop, Running
<1>3. UNCHANGED arrived
  BY <1>1 DEF RecordWritten
<1>4. /\ faults' \in {faults, faults \cup {"silent"}} /\ faults' \subseteq faults \cup Faults
      /\ UNCHANGED slips
  BY <1>1
<1> SUFFICES Moves /\ Running /\ UNCHANGED rtc
  BY <1>1, <1>3, <1>4
<1>5. ~ArmsTrajectory /\ ~ObeysAntennaOrder /\ ~Tracks => UNCHANGED tracksVars
  BY <1>1 DEF RecordWritten, tracksVars
<1> USE <1>1, <1>2 DEF orderVars, boardVars, logVars, Moves
<1>6. CASE PpsEdge
  <2>1. UNCHANGED tracksVars
    BY <1>5, <1>6 DEF PpsEdge, ArmsTrajectory, ObeysAntennaOrder, Tracks
  <2> QED BY <1>6, <2>1 DEF PpsEdge, Wakes
<1>7. CASE PpsTimeout
  <2>1. UNCHANGED tracksVars
    BY <1>5, <1>7 DEF PpsTimeout, ArmsTrajectory, ObeysAntennaOrder, Tracks
  <2> QED BY <1>7, <2>1 DEF PpsTimeout, Wakes
<1>8. CASE NoOrder
  <2>1. UNCHANGED tracksVars
    BY <1>5, <1>8 DEF NoOrder, ArmsTrajectory, ObeysAntennaOrder, Tracks
  <2> QED BY <1>8, <2>1 DEF NoOrder, FindsNothing
<1>9. CASE ReadOrder
  <2>1. UNCHANGED tracksVars
    BY <1>5, <1>9 DEF ReadOrder, ArmsTrajectory, ObeysAntennaOrder, Tracks
  <2> QED BY <1>9, <2>1 DEF ReadOrder, OrderFifo!ReceiveAndReturn, Reads
<1>10. CASE DispatchEmergency
  <2>1. UNCHANGED tracksVars
    BY <1>5, <1>10 DEF DispatchEmergency, ArmsTrajectory, ObeysAntennaOrder, Tracks,
       IsEmergency, ID_MSG_ORDER_SURVIE, ID_MSG_ORDER_ANTENNA, ID_MSG_ORDER_DO_TRAJ_AT_DATE
  <2> QED BY <1>10, <2>1 DEF DispatchEmergency, SeesEmergency, Deals, Dispatched
<1>11. CASE DispatchDoTrajAtDate
  <2>1. ArmsTrajectory /\ ~ObeysAntennaOrder /\ ~Tracks
    BY <1>11 DEF DispatchDoTrajAtDate, ArmsTrajectory, ObeysAntennaOrder, Tracks,
       ID_MSG_ORDER_ANTENNA, ID_MSG_ORDER_DO_TRAJ_AT_DATE
  <2>2. antenna' = Target(0)
    BY <1>11 DEF DispatchDoTrajAtDate, stmAntennaWriter
  <2>3. armed' = [mission |-> MissionAt(input.value), points |-> arrived]
    BY <2>1, Zenon DEF RecordWritten
  <2>4. played' = <<antenna'>>
    BY <2>1 DEF RecordWritten
  <2>5. UNCHANGED ordered
    BY <2>1 DEF RecordWritten
  <2> QED BY <1>11, <2>2, <2>3, <2>4, <2>5 DEF DispatchDoTrajAtDate, Arms, Deals, Dispatched, IsDate
<1>12. CASE DispatchAntenna
  <2>1. ~ArmsTrajectory /\ ObeysAntennaOrder /\ ~Tracks
    BY <1>12 DEF DispatchAntenna, ArmsTrajectory, ObeysAntennaOrder, Tracks,
       ID_MSG_ORDER_ANTENNA, ID_MSG_ORDER_DO_TRAJ_AT_DATE
  <2>2. antenna' = input.frame
    BY <1>12 DEF DispatchAntenna, stmAntennaWriter
  <2>3. ordered' = Append(ordered, input.frame) /\ UNCHANGED <<armed, played>>
    BY <2>1, <2>2 DEF RecordWritten
  <2> QED BY <1>12, <2>3 DEF DispatchAntenna, Obeys, Deals, Dispatched
<1>13. CASE DispatchBadId
  <2>1. UNCHANGED tracksVars
    BY <1>5, <1>13 DEF DispatchBadId, ArmsTrajectory, ObeysAntennaOrder, Tracks
  <2> QED BY <1>13, <2>1 DEF DispatchBadId, Ignores, Deals, Dispatched
<1>14. CASE DispatchDropped
  <2>1. UNCHANGED tracksVars
    BY <1>5, <1>14 DEF DispatchDropped, ArmsTrajectory, ObeysAntennaOrder, Tracks
  <2> QED BY <1>14, <2>1 DEF DispatchDropped, Ignores, Deals, Dispatched
<1>15. CASE NominalBehaviour
  <2>1. UNCHANGED tracksVars
    BY <1>5, <1>15 DEF NominalBehaviour, ArmsTrajectory, ObeysAntennaOrder, Tracks,
       NOMINAL, PROCESS_TRAJ
  <2> QED BY <1>15, <2>1 DEF NominalBehaviour, Rests, Behaves
<1>16. CASE WaitingBehaviour
  <2>1. UNCHANGED tracksVars
    BY <1>5, <1>16 DEF WaitingBehaviour, ArmsTrajectory, ObeysAntennaOrder, Tracks,
       WAITING_TIME, PROCESS_TRAJ
  <2> QED BY <1>16, <2>1 DEF WaitingBehaviour, Waits, Behaves
<1>17. ASSUME Tracks, antenna' = Target(current_point)
       PROVE  played' = Append(played, Target(current_point)) /\ UNCHANGED <<ordered, armed>>
  <2>1. ~ArmsTrajectory /\ ~ObeysAntennaOrder
    BY <1>17 DEF Tracks, ArmsTrajectory, ObeysAntennaOrder
  <2> QED BY <1>17, <2>1 DEF RecordWritten
<1>18. CASE TrackingMidway
  <2>1. Tracks /\ antenna' = Target(current_point)
    BY <1>18 DEF TrackingMidway, Tracks, stmAntennaWriter
  <2> QED BY <1>17, <1>18, <2>1 DEF TrackingMidway, Plays, Behaves
<1>19. CASE TrackingLast
  <2>1. Tracks /\ antenna' = Target(current_point)
    BY <1>19 DEF TrackingLast, Tracks, stmAntennaWriter
  <2> QED BY <1>17, <1>19, <2>1 DEF TrackingLast, Plays, Behaves
<1>20. CASE EmergencyBegins
  <2>1. UNCHANGED tracksVars
    BY <1>5, <1>20 DEF EmergencyBegins, ArmsTrajectory, ObeysAntennaOrder, Tracks,
       EMERGENCY, PROCESS_TRAJ
  <2> QED BY <1>20, <2>1 DEF EmergencyBegins, Sleeps, Behaves
<1>21. CASE EmergencyEnds
  <2>1. UNCHANGED tracksVars
    BY <1>5, <1>21 DEF EmergencyEnds, ArmsTrajectory, ObeysAntennaOrder, Tracks
  <2> QED BY <1>21, <2>1 DEF EmergencyEnds, WakesUp
<1> QED BY <1>6, <1>7, <1>8, <1>9, <1>10, <1>11, <1>12, <1>13, <1>14, <1>15, <1>16, <1>18,
           <1>19, <1>20, <1>21 DEF TxNext

-----------------------------------------------------------------------------
Order(f) == Message(ID_MSG_ORDER_ANTENNA, f, 0)
DateOrder(m) == Message(ID_MSG_ORDER_DO_TRAJ_AT_DATE, ZeroFrame, Beginning(m))
SurvivalOrder == Message(ID_MSG_ORDER_SURVIE, ZeroFrame, 0)

(* What a handler that does not stop the system does to the order queue and *)
(* to the trajectory.                                                       *)
LEMMA HandlerEffects ==
  ASSUME NEW m \in SimpleMessage, handleIncomingMessage(m), Running'
  PROVE  /\ UNCHANGED rtc
         /\ IsEmergency(m) =>
              orderMbx' = <<SurvivalOrder>> \o orderMbx /\ UNCHANGED trajVars
         /\ m.id \in KnownCommunIds /\ ~IsEmergency(m) =>
              orderMbx' = Append(orderMbx, Converted(m)) /\ UNCHANGED trajVars
         /\ m.id = ID_MSG_ORDER_TRAJ_SET_LENGTH =>
              trajSetLength(m.value) /\ UNCHANGED orderMbx
         /\ m.id = ID_MSG_ORDER_TRAJ_SET_NEW_POINT =>
              trajAddPoint(m.frame) /\ UNCHANGED orderMbx
         /\ m.id = ID_MSG_ORDER_TRAJ_REINI =>
              trajInit(rtc) /\ UNCHANGED orderMbx
<1> USE DEF Running, orderVars, Stop
<1>1. \A entry : ~JustLog(entry) \/ UNCHANGED <<rtc, orderVars, trajVars>>
  BY DEF JustLog, PcCrash, LogCrash
<1>2. ~OrderCrash
  BY DEF OrderCrash
<1> USE DEF IsEmergency, KnownCommunIds, KnownTrajIds, CommunIds, TrajIds,
    FIRST_ORDER_TRAJ_ID, FIRST_ERROR_ID, ID_MSG_ORDER_SURVIE, ID_MSG_ORDER_DESACTIVATE,
    ID_MSG_ORDER_REINI, ID_MSG_ORDER_CALAGE, ID_MSG_ORDER_GOTO, ID_MSG_ORDER_ANTENNA,
    ID_MSG_ORDER_DO_TRAJ_AT_DATE, ID_MSG_ORDER_TRAJ_SET_LENGTH,
    ID_MSG_ORDER_TRAJ_SET_NEW_POINT, ID_MSG_ORDER_TRAJ_REINI, ID_MSG_ORDER_TRAJ_CHECK_CORRECT
<1>3. CASE HandleWrongId(m)
  <2>1. UNCHANGED <<rtc, orderVars, trajVars>>
    BY <1>1, <1>3, Zenon DEF HandleWrongId
  <2>2. m.id \in Int
    BY DEF SimpleMessage, Byte
  <2>3. m.id \notin KnownCommunIds \cup KnownTrajIds
    BY <1>3, <2>2 DEF HandleWrongId
  <2> QED BY <2>1, <2>2, <2>3
<1>4. CASE HandleTrajSetLength(m)
  BY <1>4 DEF HandleTrajSetLength
<1>5. CASE HandleTrajSetNewPoint(m)
  BY <1>5 DEF HandleTrajSetNewPoint
<1>6. CASE HandleTrajReini(m)
  BY <1>6 DEF HandleTrajReini
<1>7. CASE HandleTrajCheckCorrect(m)
  <2>1. UNCHANGED <<rtc, orderVars, trajVars>>
    BY <1>1, <1>7 DEF HandleTrajCheckCorrect
  <2> QED BY <1>7, <2>1 DEF HandleTrajCheckCorrect
<1>8. CASE HandleEmergency(m)
  <2>1. writeEmergencyToOrder /\ IsEmergency(m) /\ UNCHANGED <<trajVars, rtc>>
    BY <1>2, <1>8, Zenon DEF HandleEmergency
  <2>2. orderMbx' = <<SurvivalOrder>> \o orderMbx
    BY <2>1, Zenon DEF writeEmergencyToOrder, OrderFifo!SendObjectAhead, SurvivalOrder
  <2>3. m.id \in {0, 5}
    BY <2>1
  <2> HIDE DEF IsEmergency
  <2> QED BY <2>1, <2>2, <2>3
<1>9. CASE HandleOrder(m)
  BY <1>2, <1>9 DEF HandleOrder, OrderFifo!SendObject
<1> QED BY <1>3, <1>4, <1>5, <1>6, <1>7, <1>8, <1>9 DEF handleIncomingMessage

(* What the orders of a script are, and become when they are posted.        *)
LEMMA ScriptOrders ==
  /\ \A id \in {ID_MSG_ORDER_DESACTIVATE, ID_MSG_ORDER_REINI, ID_MSG_ORDER_CALAGE} :
       /\ OrderMessage(id) \in SimpleMessage /\ OrderMessage(id).id = id
       /\ id \in KnownCommunIds /\ ~IsEmergency(OrderMessage(id))
  /\ OrderMessage(ID_MSG_ORDER_TRAJ_REINI) \in SimpleMessage
  /\ OrderMessage(ID_MSG_ORDER_TRAJ_REINI).id = ID_MSG_ORDER_TRAJ_REINI
  /\ Converted(OrderMessage(ID_MSG_ORDER_DESACTIVATE)) = Order(ANTENNA_DESACTIVATE)
  /\ Converted(OrderMessage(ID_MSG_ORDER_REINI)) = Order(ANTENNA_REINI)
  /\ Converted(OrderMessage(ID_MSG_ORDER_CALAGE)) = Order(ANTENNA_CALLAGE)
  /\ \A m \in DOMAIN Missions :
       /\ DateOrder(m) \in SimpleMessage /\ ~IsEmergency(DateOrder(m))
       /\ DateOrder(m).id = ID_MSG_ORDER_DO_TRAJ_AT_DATE /\ Converted(DateOrder(m)) = DateOrder(m)
  /\ ID_MSG_ORDER_DO_TRAJ_AT_DATE \in KnownCommunIds
  /\ \A id \in {ID_MSG_ORDER_TRAJ_SET_LENGTH, ID_MSG_ORDER_TRAJ_SET_NEW_POINT} :
       \A f \in Frames, v \in Nat :
         /\ Message(id, f, v) \in SimpleMessage /\ Message(id, f, v).id = id
         /\ Message(id, f, v).frame = f /\ Message(id, f, v).value = v
<1> USE FrameTypes DEF OrderMessage, Message, SimpleMessage, Byte, KnownCommunIds,
    IsEmergency, FIRST_ORDER_TRAJ_ID, ID_MSG_ORDER_SURVIE, ID_MSG_ORDER_DESACTIVATE,
    ID_MSG_ORDER_REINI, ID_MSG_ORDER_CALAGE, ID_MSG_ORDER_GOTO, ID_MSG_ORDER_ANTENNA,
    ID_MSG_ORDER_TRAJ_REINI, ID_MSG_ORDER_TRAJ_SET_LENGTH,
    ID_MSG_ORDER_TRAJ_SET_NEW_POINT, ID_MSG_ORDER_DO_TRAJ_AT_DATE
<1>1. \A id \in {ID_MSG_ORDER_DESACTIVATE, ID_MSG_ORDER_REINI, ID_MSG_ORDER_CALAGE} :
        /\ OrderMessage(id) \in SimpleMessage /\ OrderMessage(id).id = id
        /\ id \in KnownCommunIds /\ ~IsEmergency(OrderMessage(id))
  OBVIOUS
<1>2. /\ OrderMessage(ID_MSG_ORDER_TRAJ_REINI) \in SimpleMessage
      /\ OrderMessage(ID_MSG_ORDER_TRAJ_REINI).id = ID_MSG_ORDER_TRAJ_REINI
      /\ ID_MSG_ORDER_DO_TRAJ_AT_DATE \in KnownCommunIds
  OBVIOUS
<1>3. /\ Converted(OrderMessage(ID_MSG_ORDER_DESACTIVATE)) = Order(ANTENNA_DESACTIVATE)
      /\ Converted(OrderMessage(ID_MSG_ORDER_REINI)) = Order(ANTENNA_REINI)
      /\ Converted(OrderMessage(ID_MSG_ORDER_CALAGE)) = Order(ANTENNA_CALLAGE)
  BY DEF Converted, Order
<1>4. ASSUME NEW m \in DOMAIN Missions
      PROVE  /\ DateOrder(m) \in SimpleMessage /\ ~IsEmergency(DateOrder(m))
             /\ DateOrder(m).id = ID_MSG_ORDER_DO_TRAJ_AT_DATE
             /\ Converted(DateOrder(m)) = DateOrder(m)
  BY MissionFacts DEF Converted, DateOrder
<1>5. \A id \in {ID_MSG_ORDER_TRAJ_SET_LENGTH, ID_MSG_ORDER_TRAJ_SET_NEW_POINT} :
        \A f \in Frames, v \in Nat :
          /\ Message(id, f, v) \in SimpleMessage /\ Message(id, f, v).id = id
          /\ Message(id, f, v).frame = f /\ Message(id, f, v).value = v
  OBVIOUS
<1> QED BY ONLY <1>1, <1>2, <1>3, <1>4, <1>5

(* The messages of a script are messages.                                   *)
LEMMA ScriptType ==
  ASSUME NEW m \in DOMAIN Missions, NEW i \in 1 .. DateStep(m)
  PROVE  Script(m)[i] \in SimpleMessage
<1>1. /\ Duration(m) \in Nat /\ Beginning(m) \in Nat /\ ZeroFrame \in Frames
      /\ \A j \in 1 .. (Duration(m) + 1) : Plan(m)[j] \in Frames
  BY MissionFacts, PlanParts, FrameTypes
<1>2. /\ Script(m)[1] \in SimpleMessage /\ Script(m)[2] \in SimpleMessage
      /\ Script(m)[3] \in SimpleMessage /\ Script(m)[4] \in SimpleMessage
      /\ Script(m)[5] \in SimpleMessage /\ Script(m)[DateStep(m)] \in SimpleMessage
  BY <1>1, ScriptParts, ScriptOrders DEF DateOrder
<1>3. CASE i \in 6 .. (DateStep(m) - 1)
  <2>1. i - 5 \in 1 .. (Duration(m) + 1)
    BY <1>1, <1>3 DEF DateStep
  <2>2. Script(m)[i] = Message(ID_MSG_ORDER_TRAJ_SET_NEW_POINT, Plan(m)[i - 5], 0)
    BY <1>3, ScriptParts
  <2> QED BY <1>1, <2>1, <2>2, ScriptOrders
<1>4. i \in {1, 2, 3, 4, 5, DateStep(m)} \/ i \in 6 .. (DateStep(m) - 1)
  BY <1>1 DEF DateStep
<1> QED BY <1>2, <1>3, <1>4

(* What the client's next message does, if it does not stop the system.     *)
LEMMA SendEffects ==
  ASSUME SendNext, Running', mission \in {0} \cup DOMAIN Missions, step \in Nat \ {0}
  PROVE  /\ mission \in DOMAIN Missions /\ step \in 1 .. DateStep(mission)
         /\ rtc >= wake /\ step' = step + 1 /\ CpuFree
         /\ wake' = IF step \in {1, 2} /\ Gap > 0 THEN rtc + Gap ELSE wake
         /\ UNCHANGED <<mission, rtc, pulse, slept, state, txPc, input, faults, slips,
                        ordered, armed, played>>
         /\ step = 1 => orderMbx' = Append(orderMbx, Order(ANTENNA_DESACTIVATE))
         /\ step = 2 => orderMbx' = Append(orderMbx, Order(ANTENNA_REINI))
         /\ step = 3 => orderMbx' = Append(orderMbx, Order(ANTENNA_CALLAGE))
         /\ step = DateStep(mission) =>
              orderMbx' = Append(orderMbx, DateOrder(mission))
         /\ step \in {1, 2, 3, DateStep(mission)} => UNCHANGED <<trajVars, arrived>>
         /\ step \in 4 .. (DateStep(mission) - 1) => UNCHANGED orderMbx
         /\ step = 4 => trajInit(rtc) /\ arrived' = <<>>
         /\ step = 5 => trajSetLength(Duration(mission) + 1) /\ arrived' = <<>>
         /\ step \in 6 .. (DateStep(mission) - 1) =>
              /\ trajAddPoint(Plan(mission)[step - 5])
              /\ arrived' = Append(arrived, Plan(mission)[step - 5])
<1> DEFINE m == Script(mission)[step]
<1>1. /\ CpuFree /\ Executing /\ rtc >= wake /\ step' = step + 1
      /\ wake' = IF Pause(step) > 0 THEN rtc + Pause(step) ELSE wake
      /\ handleIncomingMessage(m) /\ arrived' = ArrivedWith(m)
      /\ UNCHANGED <<txVars, mission, pulse, slept, environmentVars, ordered, armed, played>>
  BY DEF SendNext, Advances
<1>2. mission \in DOMAIN Missions /\ step \in 1 .. DateStep(mission)
  BY <1>1, ScriptParts, MissionFacts DEF Executing, DateStep
<1>3. Duration(mission) \in Nat /\ DateStep(mission) = Duration(mission) + 7
  BY <1>2, MissionFacts DEF DateStep
<1>4. m \in SimpleMessage
  BY <1>2, ScriptType
<1> HIDE DEF m
<1>5. /\ UNCHANGED rtc
      /\ m.id \in KnownCommunIds /\ ~IsEmergency(m) =>
              orderMbx' = Append(orderMbx, Converted(m)) /\ UNCHANGED trajVars
      /\ m.id = ID_MSG_ORDER_TRAJ_SET_LENGTH =>
              trajSetLength(m.value) /\ UNCHANGED orderMbx
      /\ m.id = ID_MSG_ORDER_TRAJ_SET_NEW_POINT =>
              trajAddPoint(m.frame) /\ UNCHANGED orderMbx
      /\ m.id = ID_MSG_ORDER_TRAJ_REINI =>
              trajInit(rtc) /\ UNCHANGED orderMbx
  BY <1>1, <1>4, HandlerEffects
<1>6. wake' = IF step \in {1, 2} /\ Gap > 0 THEN rtc + Gap ELSE wake
  BY <1>1, ClientAssumption DEF Pause, Gap
<1>7. UNCHANGED <<state, txPc, input, faults, slips>>
  BY <1>1 DEF txVars, environmentVars
<1> USE DEF FIRST_ORDER_TRAJ_ID, ID_MSG_ORDER_TRAJ_SET_LENGTH,
    ID_MSG_ORDER_TRAJ_SET_NEW_POINT, ID_MSG_ORDER_TRAJ_REINI
<1>8. step = 1 => /\ orderMbx' = Append(orderMbx, Order(ANTENNA_DESACTIVATE))
                  /\ UNCHANGED <<trajVars, arrived>>
  <2> SUFFICES ASSUME step = 1 PROVE /\ orderMbx' = Append(orderMbx, Order(ANTENNA_DESACTIVATE))
                                         /\ UNCHANGED <<trajVars, arrived>>
    OBVIOUS
  <2>1. m = OrderMessage(ID_MSG_ORDER_DESACTIVATE)
    BY <1>2, ScriptParts DEF m
  <2>2. m.id = ID_MSG_ORDER_DESACTIVATE /\ m.id \in KnownCommunIds /\ ~IsEmergency(m)
        /\ Converted(m) = Order(ANTENNA_DESACTIVATE)
    BY <2>1, ScriptOrders
  <2>3. ArrivedWith(m) = arrived
    BY <2>2 DEF ArrivedWith, ID_MSG_ORDER_DESACTIVATE
  <2> QED BY <1>1, <1>5, <2>2, <2>3
<1>9. step = 2 => /\ orderMbx' = Append(orderMbx, Order(ANTENNA_REINI))
                  /\ UNCHANGED <<trajVars, arrived>>
  <2> SUFFICES ASSUME step = 2 PROVE /\ orderMbx' = Append(orderMbx, Order(ANTENNA_REINI))
                                         /\ UNCHANGED <<trajVars, arrived>>
    OBVIOUS
  <2>1. m = OrderMessage(ID_MSG_ORDER_REINI)
    BY <1>2, ScriptParts DEF m
  <2>2. m.id = ID_MSG_ORDER_REINI /\ m.id \in KnownCommunIds /\ ~IsEmergency(m)
        /\ Converted(m) = Order(ANTENNA_REINI)
    BY <2>1, ScriptOrders
  <2>3. ArrivedWith(m) = arrived
    BY <2>2 DEF ArrivedWith, ID_MSG_ORDER_REINI
  <2> QED BY <1>1, <1>5, <2>2, <2>3
<1>10. step = 3 => /\ orderMbx' = Append(orderMbx, Order(ANTENNA_CALLAGE))
                  /\ UNCHANGED <<trajVars, arrived>>
  <2> SUFFICES ASSUME step = 3 PROVE /\ orderMbx' = Append(orderMbx, Order(ANTENNA_CALLAGE))
                                         /\ UNCHANGED <<trajVars, arrived>>
    OBVIOUS
  <2>1. m = OrderMessage(ID_MSG_ORDER_CALAGE)
    BY <1>2, ScriptParts DEF m
  <2>2. m.id = ID_MSG_ORDER_CALAGE /\ m.id \in KnownCommunIds /\ ~IsEmergency(m)
        /\ Converted(m) = Order(ANTENNA_CALLAGE)
    BY <2>1, ScriptOrders
  <2>3. ArrivedWith(m) = arrived
    BY <2>2 DEF ArrivedWith, ID_MSG_ORDER_CALAGE
  <2> QED BY <1>1, <1>5, <2>2, <2>3
<1>11. step = 4 => trajInit(rtc) /\ arrived' = <<>> /\ UNCHANGED orderMbx
  <2> SUFFICES ASSUME step = 4 PROVE trajInit(rtc) /\ arrived' = <<>> /\ UNCHANGED orderMbx
    OBVIOUS
  <2>1. m.id = ID_MSG_ORDER_TRAJ_REINI
    BY <1>2, ScriptParts, ScriptOrders DEF m
  <2>2. ArrivedWith(m) = <<>>
    BY <2>1 DEF ArrivedWith
  <2> QED BY <1>1, <1>5, <2>1, <2>2
<1>12. step = 5 => /\ trajSetLength(Duration(mission) + 1) /\ arrived' = <<>>
                   /\ UNCHANGED orderMbx
  <2> SUFFICES ASSUME step = 5
               PROVE  /\ trajSetLength(Duration(mission) + 1) /\ arrived' = <<>>
                      /\ UNCHANGED orderMbx
    OBVIOUS
  <2>1. m = Message(ID_MSG_ORDER_TRAJ_SET_LENGTH, ZeroFrame, Duration(mission) + 1)
    BY <1>2, ScriptParts DEF m
  <2>2. m.id = ID_MSG_ORDER_TRAJ_SET_LENGTH /\ m.value = Duration(mission) + 1
    BY <2>1 DEF Message
  <2>3. ArrivedWith(m) = <<>>
    BY <2>2 DEF ArrivedWith
  <2> QED BY <1>1, <1>5, <2>2, <2>3
<1>13. step \in 6 .. (DateStep(mission) - 1) =>
         /\ trajAddPoint(Plan(mission)[step - 5])
         /\ arrived' = Append(arrived, Plan(mission)[step - 5])
         /\ UNCHANGED orderMbx
  <2> SUFFICES ASSUME step \in 6 .. (DateStep(mission) - 1)
               PROVE  /\ trajAddPoint(Plan(mission)[step - 5])
                      /\ arrived' = Append(arrived, Plan(mission)[step - 5])
                      /\ UNCHANGED orderMbx
    OBVIOUS
  <2>1. m = Message(ID_MSG_ORDER_TRAJ_SET_NEW_POINT, Plan(mission)[step - 5], 0)
    BY <1>2, ScriptParts DEF m
  <2>2. m.id = ID_MSG_ORDER_TRAJ_SET_NEW_POINT /\ m.frame = Plan(mission)[step - 5]
    BY <2>1 DEF Message
  <2>3. ArrivedWith(m) = Append(arrived, m.frame)
    BY <2>2 DEF ArrivedWith
  <2> QED BY <1>1, <1>5, <2>2, <2>3
<1>14. step = DateStep(mission) => /\ orderMbx' = Append(orderMbx, DateOrder(mission))
                                   /\ UNCHANGED <<trajVars, arrived>>
  <2> SUFFICES ASSUME step = DateStep(mission)
               PROVE  /\ orderMbx' = Append(orderMbx, DateOrder(mission))
                      /\ UNCHANGED <<trajVars, arrived>>
    OBVIOUS
  <2>1. m = DateOrder(mission)
    BY <1>2, ScriptParts DEF m, DateOrder
  <2>2. m.id = ID_MSG_ORDER_DO_TRAJ_AT_DATE /\ m.id \in KnownCommunIds /\ ~IsEmergency(m)
        /\ Converted(m) = DateOrder(mission)
    BY <1>2, <2>1, ScriptOrders
  <2>3. ArrivedWith(m) = arrived
    BY <2>2 DEF ArrivedWith, ID_MSG_ORDER_DO_TRAJ_AT_DATE
  <2> QED BY <1>1, <1>5, <2>2, <2>3
<1>15. step \in 4 .. (DateStep(mission) - 1) => UNCHANGED orderMbx
  BY <1>3, <1>11, <1>12, <1>13
<1>16. step \in {1, 2, 3, DateStep(mission)} => UNCHANGED <<trajVars, arrived>>
  BY <1>8, <1>9, <1>10, <1>14
<1> QED BY <1>1, <1>2, <1>5, <1>6, <1>7, <1>8, <1>9, <1>10, <1>11, <1>12, <1>13, <1>14,
           <1>15, <1>16

-----------------------------------------------------------------------------
(* What the theorems suppose of the constants.                              *)

\* A pass and the time left before it are longer than two emergencies, the
\* pauses of the script and the seconds without cycle; the pauses are longer
\* than these seconds.
LeastMargin == IF "restart" \in Faults THEN 1 ELSE LoadingMargin
Timely ==
  /\ MaxSlips + 1 < 2 * Gap
  /\ \A m \in DOMAIN Missions :
       LeastMargin + Duration(m) >= 2 * Nap + 2 * Gap + MaxSlips + 11

\* One message at most is lost or corrupted.
OneLoss == MaxFaults <= 1 \/ ~({"lost", "corrupted"} \subseteq Faults)

\* A mission is started early enough for its script to be obeyed by then.
Prompt == LoadingMargin >= 2 * Gap + 9 /\ ANTICIPATION_TIME_BEFORE_TRACKING >= 4

Quiet == Prompt /\ Undisturbed

(* The values of the code (PcParameters.h, AntennaThreads.h) satisfy these  *)
(* hypotheses, with two seconds without cycle, for passes of 36 s or more.  *)
LEMMA ValuesOfTheCode ==
  ASSUME TIME_BEFORE_REINI_AND_CALAGE = 2, EMERGENCY_SEC_TIMEOUT = 10,
         ANTICIPATION_TIME_BEFORE_TRACKING = 4, MaxSlips = 2, LoadingMargin >= 13,
         \A m \in DOMAIN Missions : Duration(m) >= 36
  PROVE  Timely /\ Prompt
<1>1. LoadingMargin \in Nat /\ LeastMargin \in Nat \ {0}
  BY ClientAssumption DEF LeastMargin
<1>2. \A m \in DOMAIN Missions : Duration(m) \in Nat
  BY MissionFacts
<1> QED BY <1>1, <1>2 DEF Timely, Prompt, Gap, Nap

LEMMA ConstantTypes ==
  /\ Gap \in Nat /\ Nap \in Nat /\ MaxSlips \in Nat /\ MaxFaults \in Nat
  /\ LoadingMargin \in Nat \ {0} /\ LeastMargin \in Nat \ {0}
  /\ Margin \in Nat \ {0} /\ (faults \subseteq Faults => LeastMargin <= Margin)
  /\ ANTICIPATION_TIME_BEFORE_TRACKING \in Nat /\ MAX_TRAJ_LENGTH \in Nat \ {0}
  /\ MaxPoint \in Nat /\ MaxPoint > MAX_TRAJ_LENGTH
BY ClientAssumption, FaultsAssumption, AnticipationAssumption, TrajectoryAssumption
   DEF Gap, Nap, LeastMargin, Margin

-----------------------------------------------------------------------------
(* The queue in time.  Its orders are read one per cycle, and each          *)
(* emergency ahead keeps the antenna thread for Nap seconds more.  "due" is *)
(* when the first would be read if nothing had gone wrong, "backlog" when   *)
(* the client's next order would be.                                        *)
Cost(e) == e * Nap

LEMMA Costs == ASSUME NEW e \in Nat
               PROVE  Cost(e) \in Nat /\ Cost(e + 1) = Cost(e) + Nap /\ Cost(0) = 0
<1>1. Nap \in Nat
  BY ConstantTypes
<1>2. e * Nap \in Nat
  BY <1>1
<1>3. (e + 1) * Nap = e * Nap + Nap
  BY <1>1
<1> QED BY <1>1, <1>2, <1>3 DEF Cost

\* What the faults that may happen can delay the queue by, all together
MaxSpent == MaxSlips + 2 * (Nap + 1) + Gap + 2

InTime(o, d, quiet) ==
  \A m \in DOMAIN Missions :
    o = DateOrder(m) => /\ d + MaxSpent < Ending(m) + 2 * Gap
                        /\ quiet => d <= Beginning(m) - 4

Queued(q, e, due, backlog, quiet) ==
  /\ \A i \in 1 .. Len(q) : IsEmergency(q[i]) => i <= e
  /\ due + Len(q) - 1 + Cost(e) <= backlog
  /\ \A i \in 1 .. Len(q) : InTime(q[i], due + i - 1 + Cost(e), quiet)

LEMMA InTimeEarlier ==
  ASSUME NEW o, NEW d \in Int, NEW c \in Int, NEW u \in BOOLEAN, NEW v \in BOOLEAN,
         InTime(o, d, u), c <= d, v => u
  PROVE  InTime(o, c, v)
<1> SUFFICES ASSUME NEW m \in DOMAIN Missions, o = DateOrder(m)
             PROVE  c + MaxSpent < Ending(m) + 2 * Gap /\ (v => c <= Beginning(m) - 4)
  BY DEF InTime
<1>1. Ending(m) \in Int /\ Beginning(m) \in Int /\ Gap \in Int /\ MaxSpent \in Int
  BY MissionFacts, ConstantTypes DEF MaxSpent
<1>2. d + MaxSpent < Ending(m) + 2 * Gap /\ (u => d <= Beginning(m) - 4)
  BY DEF InTime
<1> QED BY <1>1, <1>2

(* Nothing is posted nor read.                                              *)
LEMMA QueuedSame ==
  ASSUME NEW q \in Seq(SimpleMessage), NEW e \in Nat, NEW d \in Int, NEW b \in Int,
         NEW u \in BOOLEAN, Queued(q, e, d, b, u),
         NEW d2 \in Int, NEW b2 \in Int, NEW v \in BOOLEAN, d2 <= d, d2 - d + b <= b2, v => u
  PROVE  Queued(q, e, d2, b2, v)
<1>1. Cost(e) \in Nat /\ Len(q) \in Nat
  BY Costs
<1>2. d2 + Len(q) - 1 + Cost(e) <= b2
  BY <1>1 DEF Queued
<1>3. ASSUME NEW i \in 1 .. Len(q) PROVE InTime(q[i], d2 + i - 1 + Cost(e), v)
  <2>1. InTime(q[i], d + i - 1 + Cost(e), u)
    BY DEF Queued
  <2>2. /\ d + i - 1 + Cost(e) \in Int /\ d2 + i - 1 + Cost(e) \in Int
        /\ d2 + i - 1 + Cost(e) <= d + i - 1 + Cost(e)
    BY <1>1
  <2> QED BY <2>1, <2>2, InTimeEarlier
<1> QED BY <1>2, <1>3 DEF Queued

(* An order is posted behind.                                               *)
LEMMA QueuedAppend ==
  ASSUME NEW q \in Seq(SimpleMessage), NEW e \in Nat, NEW d \in Int, NEW b \in Int,
         NEW u \in BOOLEAN, Queued(q, e, d, b, u),
         NEW d2 \in Int, NEW b2 \in Int, NEW v \in BOOLEAN, d2 <= d, v => u,
         b - d + 1 <= b2 - d2, NEW o \in SimpleMessage, ~IsEmergency(o),
         InTime(o, d2 - d + b + 1, v)
  PROVE  Queued(Append(q, o), e, d2, b2, v)
<1> DEFINE r == Append(q, o)
<1>1. Cost(e) \in Nat /\ Len(q) \in Nat
  BY Costs
<1>2. /\ Len(r) = Len(q) + 1 /\ r[Len(q) + 1] = o
      /\ \A i \in 1 .. Len(q) : r[i] = q[i]
  BY QueueIndices
<1> HIDE DEF r
<1>3. d + Len(q) - 1 + Cost(e) <= b
  BY DEF Queued
<1>4. d2 + Len(r) - 1 + Cost(e) <= b2
  BY <1>1, <1>2, <1>3
<1>5. ASSUME NEW i \in 1 .. Len(q) PROVE InTime(r[i], d2 + i - 1 + Cost(e), v)
  <2>1. InTime(q[i], d + i - 1 + Cost(e), u)
    BY DEF Queued
  <2>2. /\ d + i - 1 + Cost(e) \in Int /\ d2 + i - 1 + Cost(e) \in Int
        /\ d2 + i - 1 + Cost(e) <= d + i - 1 + Cost(e)
    BY <1>1
  <2>3. r[i] = q[i]
    BY <1>2
  <2> QED BY <2>1, <2>2, <2>3, InTimeEarlier
<1>6. InTime(o, d2 + (Len(q) + 1) - 1 + Cost(e), v)
  <2>1. /\ d2 + (Len(q) + 1) - 1 + Cost(e) \in Int /\ d2 - d + b + 1 \in Int
        /\ d2 + (Len(q) + 1) - 1 + Cost(e) <= d2 - d + b + 1
    BY <1>1, <1>3
  <2> QED BY <2>1, InTimeEarlier
<1>7. \A i \in 1 .. Len(r) : i \in 1 .. Len(q) \/ i = Len(q) + 1
  BY <1>1, <1>2
<1>8. \A i \in 1 .. Len(r) : InTime(r[i], d2 + i - 1 + Cost(e), v)
  BY <1>2, <1>5, <1>6, <1>7
<1>9. \A i \in 1 .. Len(r) : IsEmergency(r[i]) => i <= e
  BY <1>2, <1>7 DEF Queued
<1> QED BY <1>4, <1>8, <1>9 DEF Queued, r

(* An emergency is posted ahead: what it costs was reckoned.                *)
LEMMA QueuedPush ==
  ASSUME NEW q \in Seq(SimpleMessage), NEW e \in Nat, NEW d \in Int, NEW b \in Int,
         NEW u \in BOOLEAN, Queued(q, e, d, b, u), NEW o \in SimpleMessage, IsEmergency(o)
  PROVE  Queued(<<o>> \o q, e + 1, d - (Nap + 1), b, FALSE)
<1> DEFINE r == <<o>> \o q
<1>1. /\ Cost(e) \in Nat /\ Cost(e + 1) = Cost(e) + Nap /\ Len(q) \in Nat /\ Nap \in Nat
  BY Costs, ConstantTypes
<1>2. /\ Len(r) = Len(q) + 1 /\ r[1] = o
      /\ \A i \in 2 .. (Len(q) + 1) : r[i] = q[i - 1]
  BY QueueIndices
<1> HIDE DEF r
<1>3. d + Len(q) - 1 + Cost(e) <= b
  BY DEF Queued
<1>4. (d - (Nap + 1)) + Len(r) - 1 + Cost(e + 1) <= b
  BY <1>1, <1>2, <1>3
<1>5. InTime(o, (d - (Nap + 1)) + 1 - 1 + Cost(e + 1), FALSE)
  BY ScriptOrders DEF InTime
<1>6. ASSUME NEW i \in 2 .. (Len(q) + 1)
      PROVE  InTime(r[i], (d - (Nap + 1)) + i - 1 + Cost(e + 1), FALSE)
  <2> DEFINE x == d + (i - 1) - 1 + Cost(e)
             y == (d - (Nap + 1)) + i - 1 + Cost(e + 1)
  <2>1. i - 1 \in 1 .. Len(q) /\ i \in Int
    BY <1>1
  <2>2. InTime(q[i - 1], x, u)
    BY <2>1 DEF Queued
  <2>3. x \in Int /\ y \in Int /\ y <= x
    BY <1>1, <2>1
  <2>4. r[i] = q[i - 1]
    BY <1>2
  <2> HIDE DEF x, y
  <2>5. InTime(q[i - 1], y, FALSE)
    BY <2>2, <2>3, InTimeEarlier, Zenon
  <2> QED BY <2>4, <2>5 DEF y
<1>7. \A i \in 1 .. Len(r) : \/ i = 1
                             \/ i \in 2 .. (Len(q) + 1) /\ i - 1 \in 1 .. Len(q)
  BY <1>1, <1>2
<1>8. \A i \in 1 .. Len(r) : InTime(r[i], (d - (Nap + 1)) + i - 1 + Cost(e + 1), FALSE)
  BY <1>2, <1>5, <1>6, <1>7
<1>9. ASSUME NEW i \in 1 .. Len(r), IsEmergency(r[i]) PROVE i <= e + 1
  <2>1. CASE i = 1
    BY <2>1
  <2>2. CASE i \in 2 .. (Len(q) + 1) /\ i - 1 \in 1 .. Len(q)
    <3>1. IsEmergency(q[i - 1])
      BY <1>2, <1>9, <2>2
    <3>2. i - 1 <= e
      BY <2>2, <3>1 DEF Queued
    <3> QED BY <2>2, <3>2
  <2> QED BY <1>7, <2>1, <2>2
<1> QED BY <1>4, <1>8, <1>9 DEF Queued, r

(* The first order is read; an emergency is no longer ahead of the others.  *)
LEMMA QueuedRead ==
  ASSUME NEW q \in Seq(SimpleMessage), q # <<>>, NEW e \in Nat, NEW d \in Int,
         NEW b \in Int, NEW u \in BOOLEAN, Queued(q, e, d, b, u)
  PROVE  /\ ~IsEmergency(Head(q)) => Queued(Tail(q), e, d + 1, b, u)
         /\ IsEmergency(Head(q)) => /\ e - 1 \in Nat
                                    /\ Queued(Tail(q), e - 1, d + Nap + 1, b, u)
         /\ InTime(Head(q), d, u)
<1> DEFINE r == Tail(q)
<1>1. /\ Len(q) \in Nat /\ Len(q) > 0 /\ Len(r) = Len(q) - 1 /\ Head(q) = q[1]
      /\ Head(q) \in SimpleMessage
      /\ \A i \in 1 .. (Len(q) - 1) : r[i] = q[i + 1]
  <2>1. Head(q) \in SimpleMessage
    BY QueueOps
  <2> QED BY <2>1, QueueIndices
<1> HIDE DEF r
<1>2. Cost(e) \in Nat /\ Nap \in Nat /\ d + Len(q) - 1 + Cost(e) <= b
  BY Costs, ConstantTypes DEF Queued
<1>3. /\ \A i \in 1 .. Len(r) : r[i] = q[i + 1]
      /\ \A i \in 1 .. Len(r) : i + 1 \in 1 .. Len(q)
  BY <1>1
<1>4. \A i \in 1 .. Len(r) : InTime(r[i], d + (i + 1) - 1 + Cost(e), u)
  BY <1>3 DEF Queued
<1>5. \A i \in 1 .. Len(r) : IsEmergency(r[i]) => i + 1 <= e
  BY <1>3 DEF Queued
<1>6. InTime(Head(q), d, u)
  <2>1. InTime(q[1], d + 1 - 1 + Cost(e), u)
    BY <1>1 DEF Queued
  <2>2. d + 1 - 1 + Cost(e) \in Int /\ d <= d + 1 - 1 + Cost(e)
    BY <1>2
  <2> QED BY <1>1, <2>1, <2>2, InTimeEarlier
<1>7. Queued(r, e, d + 1, b, u)
  <2>1. \A i \in 1 .. Len(r) : d + (i + 1) - 1 + Cost(e) = (d + 1) + i - 1 + Cost(e)
    BY <1>2
  <2>2. \A i \in 1 .. Len(r) : InTime(r[i], (d + 1) + i - 1 + Cost(e), u)
    BY <1>4, <2>1
  <2>3. \A i \in 1 .. Len(r) : IsEmergency(r[i]) => i <= e
    BY <1>1, <1>5
  <2>4. (d + 1) + Len(r) - 1 + Cost(e) <= b
    BY <1>1, <1>2
  <2> QED BY <2>2, <2>3, <2>4 DEF Queued
<1>8. ASSUME IsEmergency(Head(q))
      PROVE  e - 1 \in Nat /\ Queued(r, e - 1, d + Nap + 1, b, u)
  <2>1. 1 <= e
    BY <1>1, <1>8 DEF Queued
  <2>2. e - 1 \in Nat /\ (e - 1) + 1 = e
    BY <2>1
  <2>3. Cost(e - 1) \in Nat /\ Cost((e - 1) + 1) = Cost(e - 1) + Nap
    BY <2>2, Costs
  <2>4. Cost(e) = Cost(e - 1) + Nap
    BY <2>2, <2>3
  <2>5. \A i \in 1 .. Len(r) : d + (i + 1) - 1 + Cost(e) = (d + Nap + 1) + i - 1 + Cost(e - 1)
    BY <1>2, <2>3, <2>4
  <2>6. \A i \in 1 .. Len(r) : InTime(r[i], (d + Nap + 1) + i - 1 + Cost(e - 1), u)
    BY <1>4, <2>5
  <2>7. \A i \in 1 .. Len(r) : IsEmergency(r[i]) => i <= e - 1
    BY <1>1, <1>5
  <2>8. (d + Nap + 1) + Len(r) - 1 + Cost(e - 1) <= b
    BY <1>1, <1>2, <2>3, <2>4
  <2> QED BY <2>2, <2>6, <2>7, <2>8 DEF Queued
<1> QED BY <1>6, <1>7, <1>8 DEF r

(* Nothing waits.                                                           *)
LEMMA QueuedEmpty ==
  ASSUME NEW d \in Int, NEW b \in Int, d - 1 <= b, NEW u \in BOOLEAN
  PROVE  Queued(<<>>, 0, d, b, u)
<1>1. Cost(0) = 0 /\ Len(<<>>) = 0
  BY Costs
<1> QED BY <1>1 DEF Queued
-----------------------------------------------------------------------------
(* The invariant, while the system runs.                                    *)
Losing == "lost" \in faults \/ "corrupted" \in faults
Armed == state \in {WAITING_TIME, PROCESS_TRAJ}

\* The client writes the trajectory: its next message is one of those between
\* TRAJ_REINI and DO_TRAJ_AT_DATE.
Loading == mission # 0 /\ step \in 5 .. DateStep(mission)

Typed ==
  /\ mission \in {0} \cup DOMAIN Missions /\ step \in Nat \ {0} /\ wake \in Nat
  /\ slept \in 0 .. Nap /\ slips \in 0 .. MaxSlips /\ faults \subseteq Faults
  /\ ordered \in Seq(Frames) /\ arrived \in Seq(Frames) /\ played \in Seq(Frames)
  /\ armed.mission \in {0} \cup DOMAIN Missions /\ armed.points \in Seq(Frames)

\* Where the antenna thread is
Placed ==
  /\ txPc # "dispatch" => input = NoInput
  /\ txPc # "survival" => slept = 0
  /\ pulse => txPc = "pps"
  /\ txPc = "survival" => state = EMERGENCY
  /\ state = EMERGENCY => txPc \in {"behave", "survival"}

\* The client is not late by more than a second at each step.
Drift(s) == IF s = 1 THEN 0 ELSE IF s = 2 THEN Gap + 1 ELSE 2 * Gap + 2
Paced ==
  /\ mission = 0 => step = 1
  /\ mission # 0 =>
       /\ step <= DateStep(mission) + 1
       /\ wake <= rtc + (IF step = 1 THEN 0 ELSE Gap)
       /\ step <= DateStep(mission) => rtc <= wake + 1
       /\ wake + Margin <= Beginning(mission) + Drift(step)

\* When the antenna thread can read its next order, and what the faults have
\* delayed it by.
NextRead ==
  rtc + (IF pulse \/ txPc = "order" THEN 0
         ELSE IF state = EMERGENCY \/ IsEmergency(input) THEN Nap + 1 - slept ELSE 1)
Spent ==
  slips + (IF "button" \in faults THEN Nap + 1 ELSE 0)
        + (IF "command" \in faults THEN Nap + 1 ELSE 0)
        + (IF "restart" \in faults THEN Gap + 2 ELSE 0)
Due == NextRead - Spent

\* The orders of the script are sent in distinct seconds, or not read before
\* those of an earlier step would be.
Backlog ==
  IF mission = 0 THEN rtc
  ELSE IF step <= 3 THEN wake + 1
  ELSE IF step <= DateStep(mission) THEN wake + 2
  ELSE IF rtc <= wake + 3 THEN wake + 3 ELSE rtc

QueueInv == \E e \in Nat : Queued(orderMbx, e, Due, Backlog, Quiet)

\* Before when the client will not send TRAJ_REINI, unless it is done with it
Earliest ==
  IF mission = 0 THEN rtc + 2 * Gap
  ELSE IF step = 1 THEN wake + 2 * Gap
  ELSE IF step = 2 THEN wake + Gap
  ELSE IF step <= 4 THEN wake
  ELSE Ending(mission) + 2 * Gap

\* The trajectory of mission m is in the table, and stays there.
Kept(m) ==
  /\ ~Loading
  /\ Earliest >= Ending(m) + 2 * Gap
  /\ nb_point = Duration(m) + 1

Tabled(points) ==
  \A i \in 1 .. Len(points) : i <= MAX_TRAJ_LENGTH /\ table[i - 1] = points[i]

\* A date is on its way to the antenna thread: its trajectory is loaded.
Given(o) ==
  /\ ~Armed /\ Tabled(arrived)
  /\ \E m \in DOMAIN Missions : o = DateOrder(m) /\ Kept(m)

DateInv ==
  /\ \A i \in 1 .. Len(orderMbx) :
       IsDate(orderMbx[i]) =>
         /\ Given(orderMbx[i]) /\ ~IsDate(input)
         /\ \A j \in 1 .. Len(orderMbx) : IsDate(orderMbx[j]) => j = i
  /\ IsDate(input) =>
       /\ Given(input)
       /\ \A m \in DOMAIN Missions :
            Quiet /\ input = DateOrder(m) => rtc <= Beginning(m) - 4 + slips

\* The table is loaded with what has arrived: all that was sent, except
\* what was lost.
LoadInv ==
  Loading =>
    /\ step = 5 => Losing \/ (nb_point = -2 /\ current_point = -1)
    /\ step >= 6 =>
         \/ step = 6 /\ Losing /\ current_point = -1
         \/ /\ nb_point = Duration(mission) + 1 /\ current_point = Len(arrived)
            /\ Tabled(arrived)
            /\ \/ /\ Len(arrived) = step - 6
                  /\ \A i \in 1 .. Len(arrived) : arrived[i] = Plan(mission)[i]
               \/ Losing /\ Len(arrived) = step - 7

\* A trajectory that waits or is played advances by one point a second.
Coming == IF pulse \/ txPc # "pps" THEN 1 ELSE 0
Progress == IF state = WAITING_TIME THEN 0 ELSE current_point
PlayInv ==
  Armed =>
    /\ armed.mission # 0 /\ Kept(armed.mission) /\ Tabled(armed.points) /\ Tabled(played)
    /\ init_date = Beginning(armed.mission)
    /\ Len(played) = current_point /\ 1 <= current_point /\ current_point < nb_point
    /\ state = WAITING_TIME => current_point = 1
    /\ ~(state = WAITING_TIME /\ txPc = "behave") =>
         rtc <= init_date - 1 + Progress + slips + Coming
    /\ Quiet => rtc <= init_date - 5 + Progress + slips + Coming

\* The orders of the mission that are obeyed, read and waiting, as numbered
\* by the script
Sent == IF step <= 3 THEN step - 1
        ELSE IF mission = 0 \/ step <= DateStep(mission) THEN 3 ELSE 4
Reading == IF txPc = "dispatch" THEN 1 ELSE 0
Obeyed == Sent - Reading - Len(orderMbx)
IsNth(o, k) ==
  \/ k \in 1 .. 3 /\ o = Order(Preparation[k])
  \/ k = 4 /\ mission # 0 /\ o = DateOrder(mission)
PrepInv ==
  Quiet =>
    /\ 0 <= Obeyed
    /\ Reading = 1 => IsNth(input, Obeyed + 1)
    /\ \A j \in 1 .. Len(orderMbx) : IsNth(orderMbx[j], Obeyed + Reading + j)
    /\ Len(ordered) = (IF Obeyed = 4 THEN 3 ELSE Obeyed)
    /\ \A i \in 1 .. Len(ordered) : ordered[i] = Preparation[i]
    /\ Obeyed # 4 => state = NOMINAL
    /\ state # EMERGENCY
    /\ Armed => armed.mission = mission

\* The frames written are those that had arrived.
Written ==
  /\ \A i \in DOMAIN played \cap DOMAIN armed.points : played[i] = armed.points[i]
  /\ armed.mission # 0 => Len(played) <= Len(Plan(armed.mission))

Dyn ==
  /\ Typed /\ Placed /\ Paced /\ QueueInv /\ DateInv
  /\ LoadInv /\ PlayInv /\ PrepInv /\ Written
-----------------------------------------------------------------------------
(* What the other steps do, if they do not stop the system.                 *)
threadVars == <<txPc, input, state, pulse, slept>>
keptVars == <<trajVars, ordered, arrived, armed, played>>

LEMMA LoseEffects ==
  ASSUME LoseNext, Running', mission \in {0} \cup DOMAIN Missions, step \in Nat \ {0}
  PROVE  /\ mission \in DOMAIN Missions /\ step \in 1 .. DateStep(mission)
         /\ rtc >= wake /\ step' = step + 1 /\ CpuFree
         /\ wake' = IF step \in {1, 2} /\ Gap > 0 THEN rtc + Gap ELSE wake
         /\ UNCHANGED <<mission, rtc, slips, threadVars, orderMbx, keptVars>>
         /\ Cardinality(faults) < MaxFaults
         /\ \E kind \in {"lost", "corrupted"} :
              kind \in Faults \ faults /\ faults' = faults \cup {kind}
<1>1. /\ CpuFree /\ Executing /\ rtc >= wake /\ step' = step + 1
      /\ wake' = IF Pause(step) > 0 THEN rtc + Pause(step) ELSE wake
      /\ UNCHANGED <<txVars, mission, pulse, slept>> /\ UNCHANGED historyVars
  BY DEF LoseNext, Advances
<1>2. mission \in DOMAIN Missions /\ step \in 1 .. DateStep(mission)
  BY <1>1, ScriptParts, MissionFacts DEF Executing, DateStep
<1>3. wake' = IF step \in {1, 2} /\ Gap > 0 THEN rtc + Gap ELSE wake
  BY <1>1, ClientAssumption DEF Pause, Gap
<1>4. \E kind \in {"lost", "corrupted"} : Happens(kind)
  BY DEF LoseNext
<1>5. UNCHANGED <<orderMbx, rtc, trajVars>>
  <2>1. CASE UNCHANGED <<boardVars, pcVars>>
    BY <2>1, Zenon DEF boardVars, orderVars
  <2>2. CASE ReceiveCrcError
    BY <2>2, Zenon DEF ReceiveCrcError, JustLog, PcCrash, LogCrash, Stop, orderVars
  <2> QED BY <2>1, <2>2 DEF LoseNext
<1>6. /\ Cardinality(faults) < MaxFaults /\ UNCHANGED slips
      /\ \E kind \in {"lost", "corrupted"} :
           kind \in Faults \ faults /\ faults' = faults \cup {kind}
  BY <1>4, Zenon DEF Happens
<1> QED BY <1>1, <1>2, <1>3, <1>5, <1>6 DEF txVars, historyVars, threadVars, keptVars

LEMMA StartEffects ==
  ASSUME StartMission
  PROVE  /\ Running /\ Awake /\ mission' \in DOMAIN Missions
         /\ Beginning(mission') - rtc \in Margin .. (PREPARATION_TIME - 1)
         /\ step' = 1 /\ wake' = rtc /\ ordered' = <<>>
         /\ UNCHANGED <<rtc, panic, slips, faults, threadVars, orderMbx, trajVars, arrived,
                        armed, played>>
<1>1. /\ Running /\ Awake /\ step' = 1 /\ wake' = rtc /\ ordered' = <<>>
      /\ \E m \in DOMAIN Missions :
           Beginning(m) - rtc \in Margin .. (PREPARATION_TIME - 1) /\ mission' = m
      /\ UNCHANGED <<vars, pulse, slept, environmentVars, arrived, armed, played>>
  BY DEF StartMission
<1>2. UNCHANGED <<rtc, panic, slips, faults, threadVars, orderMbx, trajVars, arrived,
                  armed, played>>
  BY <1>1 DEF vars, boardVars, orderVars, txVars, environmentVars, threadVars
<1>3. \A m \in DOMAIN Missions : mission' = m =>
        (Beginning(m) - rtc \in Margin .. (PREPARATION_TIME - 1) <=>
         Beginning(mission') - rtc \in Margin .. (PREPARATION_TIME - 1))
  BY Zenon DEF Beginning
<1> QED BY <1>1, <1>2, <1>3, Zenon

LEMMA RestartEffects ==
  ASSUME ClientRestarts
  PROVE  /\ Running /\ Executing /\ mission' = 0 /\ step' = 1 /\ wake' = 0
         /\ "restart" \in Faults \ faults /\ faults' = faults \cup {"restart"}
         /\ UNCHANGED <<rtc, panic, slips, threadVars, orderMbx, keptVars>>
<1>1. UNCHANGED <<vars, pulse, slept, historyVars>>
  BY DEF ClientRestarts
<1> QED BY <1>1 DEF ClientRestarts, Happens, vars, boardVars, orderVars, txVars, historyVars,
        threadVars, keptVars

\* The emergency is posted ahead of the queue, or an order of the operator,
\* which is no date, behind it.
Posted ==
  \/ orderMbx' = <<SurvivalOrder>> \o orderMbx
  \/ \E o \in SimpleMessage : /\ ~IsEmergency(o) /\ ~IsDate(o)
                              /\ orderMbx' = Append(orderMbx, o)

LEMMA InterfereEffects ==
  ASSUME Interferes, Running'
  PROVE  /\ CpuFree /\ Posted
         /\ UNCHANGED <<mission, step, wake, rtc, slips, threadVars, keptVars>>
         /\ \E kind \in {"button", "command"} :
              kind \in Faults \ faults /\ faults' = faults \cup {kind}
<1>1. /\ CpuFree /\ UNCHANGED <<txVars, clientVars, pulse, slept, historyVars>>
      /\ \E kind \in {"button", "command"} : Happens(kind)
      /\ UserButton \/ \E m \in PcMessages : handleIncomingMessage(m)
  BY DEF Interferes
<1>2. Posted /\ UNCHANGED <<rtc, trajVars>>
  <2>1. CASE UserButton
    <3>1. ~OrderCrash
      BY DEF OrderCrash, Stop, Running
    <3>2. writeEmergencyToOrder /\ UNCHANGED <<rtc, trajVars>>
      BY <2>1, <3>1, Zenon DEF UserButton
    <3>3. orderMbx' = <<SurvivalOrder>> \o orderMbx
      BY <3>2, Zenon DEF writeEmergencyToOrder, OrderFifo!SendObjectAhead, SurvivalOrder
    <3> QED BY <3>2, <3>3 DEF Posted
  <2>2. ASSUME NEW m \in PcMessages, handleIncomingMessage(m)
        PROVE  Posted /\ UNCHANGED <<rtc, trajVars>>
    <3>1. m \in SimpleMessage /\ m.id \in KnownCommunIds /\ ~IsDate(m)
      BY EnvironmentAssumption, OperatorAssumption DEF IsDate
    <3>2. UNCHANGED rtc
      BY <2>2, <3>1, HandlerEffects
    <3>3. CASE IsEmergency(m)
      BY <2>2, <3>1, <3>2, <3>3, HandlerEffects DEF Posted
    <3>4. CASE ~IsEmergency(m)
      <4>1. orderMbx' = Append(orderMbx, Converted(m)) /\ UNCHANGED trajVars
        BY <2>2, <3>1, <3>4, HandlerEffects
      <4>2. ~IsEmergency(Converted(m)) /\ Converted(m) \in SimpleMessage
        BY <3>1, <3>4, ConvertedType, ConvertedNoEmergency
      <4>3. ~IsDate(Converted(m))
        BY <3>1 DEF IsDate, Converted, Message, ID_MSG_ORDER_ANTENNA, ID_MSG_ORDER_DO_TRAJ_AT_DATE
      <4> QED BY <3>2, <4>1, <4>2, <4>3 DEF Posted
    <3> QED BY <3>3, <3>4
  <2> QED BY <1>1, <2>1, <2>2
<1>3. /\ UNCHANGED slips
      /\ \E kind \in {"button", "command"} :
           kind \in Faults \ faults /\ faults' = faults \cup {kind}
  BY <1>1, Zenon DEF Happens
<1> QED BY <1>1, <1>2, <1>3 DEF txVars, clientVars, historyVars, threadVars, keptVars

LEMMA LogsEffects ==
  ASSUME SendLogs, Running'
  PROVE  UNCHANGED <<mission, step, wake, rtc, slips, faults, threadVars, orderMbx, keptVars>>
<1>1. /\ PcTxNext
      /\ UNCHANGED <<clientVars, pulse, slept, environmentVars, historyVars, txVars>>
  BY DEF SendLogs, PcTxThread
<1>2. UNCHANGED <<rtc, orderVars, trajVars>>
  BY <1>1, Zenon DEF PcTxNext, PcTxReceive, PcTxReturn, PcTxReturnNull, Stop
<1> QED BY <1>1, <1>2 DEF txVars, clientVars, environmentVars, historyVars, orderVars,
        threadVars, keptVars

LEMMA SecondEffects ==
  ASSUME Second
  PROVE  /\ CpuFree /\ ~pulse /\ (Executing => rtc <= wake)
         /\ rtc' = rtc + 1
         /\ slept' = (IF txPc = "survival" THEN slept + 1 ELSE slept)
         /\ txPc = "survival" => slept < Nap
         /\ \/ (pulse' <=> txPc = "pps") /\ slips' = slips
            \/ ~pulse' /\ txPc = "pps" /\ slips < MaxSlips /\ slips' = slips + 1
         /\ UNCHANGED <<panic, mission, step, wake, faults, txPc, input, state, orderMbx, keptVars>>
<1>1. /\ CpuFree /\ ~pulse /\ (Executing => rtc <= wake) /\ rtc' = rtc + 1
      /\ slept' = (IF txPc = "survival" THEN slept + 1 ELSE slept)
      /\ txPc = "survival" => slept < Nap
  BY DEF Second, ClockTick, Nap
<1>2. \/ (pulse' <=> txPc = "pps") /\ slips' = slips
      \/ ~pulse' /\ txPc = "pps" /\ slips < MaxSlips /\ slips' = slips + 1
  BY Zenon DEF Second
<1>3. UNCHANGED <<panic, mission, step, wake, faults, txPc, input, state, orderMbx, keptVars>>
  BY DEF Second, ClockTick, clientVars, historyVars, txVars, orderVars, keptVars
<1> QED BY <1>1, <1>2, <1>3
-----------------------------------------------------------------------------
LEMMA PassLength ==
  ASSUME Timely, faults \subseteq Faults, NEW m \in DOMAIN Missions
  PROVE  Margin + Duration(m) >= 2 * Nap + 2 * Gap + MaxSlips + 11
<1>1. LeastMargin + Duration(m) >= 2 * Nap + 2 * Gap + MaxSlips + 11
  BY DEF Timely
<1> QED BY <1>1, ConstantTypes, MissionFacts

LEMMA TimeFacts ==
  ASSUME Timely, TypeOK, Typed, Placed, Paced
  PROVE  /\ rtc \in Nat /\ NextRead \in Nat /\ rtc <= NextRead
         /\ Spent \in Nat /\ Spent <= MaxSpent /\ Due \in Int /\ Due + Spent = NextRead
         /\ Backlog \in Nat /\ rtc <= Backlog /\ Earliest \in Int
         /\ Quiet => Spent = slips /\ slips <= 2
         /\ slips \in Nat /\ slips <= MaxSlips /\ Quiet \in BOOLEAN
<1>1. rtc \in Nat
  BY BoardAssumption DEF TypeOK, LinesTypeOK, Time
<1>2. Gap \in Nat /\ Nap \in Nat /\ MaxSlips \in Nat /\ slips \in Nat /\ slips <= MaxSlips
  BY ConstantTypes DEF Typed
<1>3. NextRead \in Nat /\ rtc <= NextRead
  <2>1. slept \in 0 .. Nap
    BY DEF Typed
  <2>2. rtc + (Nap + 1 - slept) \in Nat /\ rtc <= rtc + (Nap + 1 - slept)
    BY <1>1, <1>2, <2>1
  <2> QED BY <1>1, <2>2 DEF NextRead
<1>4. Spent \in Nat /\ Spent <= MaxSpent
  BY <1>2 DEF Spent, MaxSpent
<1>5. Backlog \in Nat /\ rtc <= Backlog /\ Earliest \in Int
  <2>1. mission # 0 =>
          Ending(mission) \in Int /\ DateStep(mission) \in Nat /\ DateStep(mission) >= 8
    BY MissionFacts DEF Typed, DateStep
  <2>2. wake \in Nat /\ step \in Nat
    BY DEF Typed
  <2>3. Earliest \in Int
    BY <1>1, <1>2, <2>1, <2>2 DEF Earliest
  <2>4. Backlog \in Nat
    BY <1>1, <2>2 DEF Backlog
  <2>5. mission # 0 /\ step <= DateStep(mission) => rtc <= wake + 1
    BY DEF Paced
  <2>6. rtc <= Backlog
    BY <1>1, <2>1, <2>2, <2>5 DEF Backlog
  <2> QED BY <2>3, <2>4, <2>6
<1>6. Quiet => Spent = slips /\ slips <= 2
  <2> SUFFICES ASSUME Quiet PROVE Spent = slips /\ slips <= 2
    OBVIOUS
  <2>1. faults \subseteq {"silent"} /\ slips <= 2
    BY <1>2 DEF Quiet, Undisturbed, Late
  <2>2. "button" \notin faults /\ "command" \notin faults /\ "restart" \notin faults
    BY <2>1
  <2> QED BY <1>2, <2>1, <2>2 DEF Spent
<1>7. Due \in Int /\ Due + Spent = NextRead
  BY <1>3, <1>4 DEF Due
<1> QED BY <1>1, <1>2, <1>3, <1>4, <1>5, <1>6, <1>7 DEF Quiet, Undisturbed, Prompt

LEMMA QuietStays ==
  ASSUME faults \subseteq faults', slips \in Nat, slips' \in Nat, slips <= slips', Quiet'
  PROVE  Quiet
<1>1. Prompt /\ faults' \subseteq {"silent"} /\ ~(slips' > 2)
  BY DEF Quiet, Undisturbed, Late, Prompt
<1>2. ~(slips > 2)
  BY <1>1
<1> QED BY <1>1, <1>2 DEF Quiet, Undisturbed, Late

(* Nothing but the antenna thread's turn, or the queue, changes.            *)
LEMMA ClientStays ==
  ASSUME UNCHANGED <<mission, step, wake, rtc>>
  PROVE  /\ UNCHANGED <<Backlog, Earliest>> /\ (Loading' <=> Loading)
         /\ UNCHANGED nb_point => \A m \in DOMAIN Missions : Kept(m)' <=> Kept(m)
<1>1. UNCHANGED <<Backlog, Earliest>> /\ (Loading' <=> Loading)
  BY DEF Backlog, Earliest, Loading
<1>2. ASSUME UNCHANGED nb_point, NEW m \in DOMAIN Missions PROVE Kept(m)' <=> Kept(m)
  <2>1. Kept(m)' <=> (~Loading' /\ Earliest' >= Ending(m) + 2 * Gap /\ nb_point' = Duration(m) + 1)
    BY DEF Kept
  <2> QED BY <1>1, <1>2, <2>1 DEF Kept
<1> QED BY <1>1, <1>2

(* While the client loads the table, no trajectory waits or is played.      *)
LEMMA LoadsAlone ==
  ASSUME Loading, DateInv, PlayInv
  PROVE  /\ ~Armed /\ ~IsDate(input)
         /\ \A i \in 1 .. Len(orderMbx) : ~IsDate(orderMbx[i])
BY DEF DateInv, PlayInv, Given, Kept
-----------------------------------------------------------------------------
(* The antenna thread's turn.                                               *)
Turn ==
  /\ Moves /\ UNCHANGED <<rtc, mission, step, wake, slips, arrived>>
  /\ faults' \in {faults, faults \cup {"silent"}} /\ faults' \subseteq faults \cup Faults

LEMMA WaitingNext ==
  ASSUME TypeOK
  PROVE  \/ WaitingOutcome.next = NOMINAL
         \/ WaitingOutcome.next = PROCESS_TRAJ /\ rtc <= init_date
         \/ /\ WaitingOutcome.next = WAITING_TIME
            /\ init_date - rtc > ANTICIPATION_TIME_BEFORE_TRACKING
<1>1. rtc \in Nat /\ init_date \in Nat /\ ANTICIPATION_TIME_BEFORE_TRACKING \in Nat
  BY BoardAssumption, ConstantTypes DEF TypeOK, LinesTypeOK, TrajTypeOK, Time
<1>2. CASE TooLate
  BY <1>2 DEF WaitingOutcome
<1>3. CASE ~TooLate /\ Near
  BY <1>1, <1>3 DEF WaitingOutcome, TooLate
<1>4. CASE ~TooLate /\ ~Near
  BY <1>1, <1>4 DEF WaitingOutcome, TooLate, Near
<1> QED BY <1>2, <1>3, <1>4

LEMMA DatedOrder ==
  ASSUME NEW m \in DOMAIN Missions, NEW o, o = DateOrder(m)
  PROVE  IsDate(o) /\ ~IsEmergency(o) /\ o.value = Beginning(m) /\ MissionAt(o.value) = m
BY ScriptOrders, MissionFacts DEF IsDate, DateOrder, Message

LEMMA TurnTyped == ASSUME TypeOK, Typed, DateInv, Turn PROVE Typed'
<1>1. faults' \subseteq Faults /\ slips' \in 0 .. MaxSlips /\ arrived' \in Seq(Frames)
  BY DEF Turn, Typed
<1>2. mission' \in {0} \cup DOMAIN Missions /\ step' \in Nat \ {0} /\ wake' \in Nat
  BY DEF Turn, Typed
<1>3. slept' \in 0 .. Nap
  BY ConstantTypes DEF Typed, Turn, Moves, Wakes, FindsNothing, Reads, SeesEmergency, Arms, Obeys,
     Ignores, Deals, Rests, Waits, Plays, Sleeps, Behaves, WakesUp
<1> SUFFICES /\ ordered' \in Seq(Frames) /\ played' \in Seq(Frames)
             /\ armed'.mission \in {0} \cup DOMAIN Missions /\ armed'.points \in Seq(Frames)
  BY <1>1, <1>2, <1>3 DEF Typed
<1>4. input.frame \in Frames /\ Target(0) \in Frames /\ Target(current_point) \in Frames
  BY FrameTypes DEF TypeOK, TxTypeOK, TrajTypeOK, SimpleMessage
<1>5. CASE UNCHANGED tracksVars
  BY <1>5 DEF tracksVars, Typed
<1>6. CASE Arms
  <2>1. PICK m \in DOMAIN Missions : input = DateOrder(m)
    BY <1>6 DEF Arms, DateInv, Given
  <2>2. MissionAt(input.value) = m
    BY <2>1, DatedOrder
  <2>3. armed' = [mission |-> m, points |-> arrived] /\ played' = <<Target(0)>> /\ ordered' = ordered
    BY <1>6, <2>2 DEF Arms
  <2> QED BY <1>4, <2>3 DEF Typed
<1>7. CASE Obeys
  BY <1>4, <1>7 DEF Obeys, Typed
<1>8. CASE Plays
  BY <1>4, <1>8 DEF Plays, Typed
<1>9. UNCHANGED tracksVars \/ Arms \/ Obeys \/ Plays
  BY Zenon DEF Turn, Moves, Wakes, FindsNothing, Reads, SeesEmergency, Ignores, Rests, Waits, Sleeps,
     WakesUp
<1> QED BY <1>5, <1>6, <1>7, <1>8, <1>9

LEMMA TurnPlaced == ASSUME TypeOK, Placed, Turn PROVE Placed'
<1> USE DEF Placed, NOMINAL, WAITING_TIME, PROCESS_TRAJ, EMERGENCY
<1>1. CASE Wakes
  BY <1>1 DEF Wakes
<1>2. CASE FindsNothing
  BY <1>2 DEF FindsNothing
<1>3. CASE Reads
  BY <1>3 DEF Reads
<1>4. ASSUME NEW s, Deals(s) PROVE Placed'
  BY <1>4 DEF Deals
<1>5. CASE Rests \/ Plays
  BY <1>5 DEF Rests, Plays, Behaves
<1>6. CASE Waits
  BY <1>6, WaitingNext DEF Waits, Behaves
<1>7. CASE Sleeps
  BY <1>7 DEF Sleeps, Behaves
<1>8. CASE WakesUp
  BY <1>8 DEF WakesUp
<1> QED BY <1>1, <1>2, <1>3, <1>4, <1>5, <1>6, <1>7, <1>8 DEF Turn, Moves, SeesEmergency, Arms,
        Obeys, Ignores

LEMMA TurnPaced == ASSUME Paced, Turn PROVE Paced'
<1>1. Margin' = Margin
  BY DEF Turn, Margin
<1> QED BY <1>1 DEF Paced, Turn

LEMMA TurnQuiet ==
  ASSUME Typed, Turn
  PROVE  Spent' = Spent /\ (Quiet' => Quiet) /\ (Losing' <=> Losing)
<1>1. faults \subseteq faults' /\ slips' = slips /\ slips \in Nat
  BY ConstantTypes DEF Turn, Typed
<1>2. \A k \in {"button", "command", "restart", "lost", "corrupted"} :
        k \in faults' <=> k \in faults
  BY DEF Turn
<1>3. Quiet' => Quiet
  BY <1>1, QuietStays
<1>4. Spent' = Spent
  BY <1>1, <1>2 DEF Spent
<1> QED BY <1>2, <1>3, <1>4 DEF Losing

\* What the thread is about to do does not change when it reads, unless it
\* takes an order or finds none.
LEMMA TurnNextRead ==
  ASSUME TypeOK, Typed, Placed, Turn
  PROVE  /\ Reads \/ FindsNothing \/ UNCHANGED <<orderMbx, NextRead>>
         /\ FindsNothing => NextRead' = rtc + 1
         /\ Reads => /\ NextRead = rtc
                     /\ NextRead' = rtc + (IF IsEmergency(Head(orderMbx)) THEN Nap + 1 ELSE 1)
<1> USE DEF NOMINAL, WAITING_TIME, PROCESS_TRAJ, EMERGENCY
<1>0. rtc \in Nat /\ Nap \in Nat /\ slept \in 0 .. Nap /\ rtc' = rtc
  BY ConstantTypes, BoardAssumption DEF TypeOK, LinesTypeOK, Time, Typed, Turn
<1>1. ~IsEmergency(NoInput)
  BY NoInputNoEmergency
<1>2. CASE Wakes
  <2>1. pulse /\ txPc = "pps" /\ txPc' = "order" /\ UNCHANGED orderMbx
    BY <1>2 DEF Wakes
  <2>2. UNCHANGED NextRead
    BY <1>0, <2>1 DEF NextRead
  <2> QED BY <2>1, <2>2 DEF FindsNothing, Reads
<1>3. CASE FindsNothing
  <2>1. ~pulse' /\ txPc' # "order" /\ state' # EMERGENCY /\ input' = NoInput
    BY <1>3 DEF FindsNothing, Placed
  <2>2. NextRead' = rtc + 1
    BY <1>0, <1>1, <2>1 DEF NextRead
  <2> QED BY <1>3, <2>2 DEF FindsNothing, Reads
<1>4. CASE Reads
  <2>1. /\ ~pulse' /\ txPc' # "order" /\ state' # EMERGENCY /\ input' = Head(orderMbx)
        /\ txPc = "order" /\ slept' = 0 /\ orderMbx # <<>>
    BY <1>4 DEF Reads, Placed
  <2>2. NextRead = rtc
    BY <1>0, <2>1 DEF NextRead
  <2>3. NextRead' = rtc + (IF IsEmergency(Head(orderMbx)) THEN Nap + 1 ELSE 1)
    BY <1>0, <2>1 DEF NextRead
  <2> QED BY <1>4, <2>1, <2>2, <2>3 DEF FindsNothing
<1>5. CASE SeesEmergency
  <2>1. ~pulse /\ ~pulse' /\ txPc = "dispatch" /\ txPc' = "behave" /\ state' = EMERGENCY
        /\ IsEmergency(input) /\ UNCHANGED <<slept, orderMbx>>
    BY <1>5 DEF SeesEmergency, Deals, Placed
  <2>2. UNCHANGED NextRead
    BY <1>0, <2>1 DEF NextRead
  <2> QED BY <2>1, <2>2 DEF FindsNothing, Reads
<1>6. ASSUME NEW s, Deals(s), s # EMERGENCY, ~IsEmergency(input)
      PROVE  UNCHANGED <<orderMbx, NextRead>> /\ ~FindsNothing /\ ~Reads
  <2>1. ~pulse /\ ~pulse' /\ txPc = "dispatch" /\ txPc' = "behave" /\ state' # EMERGENCY
        /\ state # EMERGENCY /\ input' = NoInput /\ UNCHANGED <<slept, orderMbx>>
    BY <1>6 DEF Deals, Placed
  <2>2. UNCHANGED NextRead
    BY <1>0, <1>1, <1>6, <2>1 DEF NextRead
  <2> QED BY <2>1, <2>2 DEF FindsNothing, Reads
<1>7. CASE Arms
  <2>1. Deals(WAITING_TIME) /\ ~IsEmergency(input)
    BY <1>7 DEF Arms, IsDate, IsEmergency, ID_MSG_ORDER_DO_TRAJ_AT_DATE, ID_MSG_ORDER_SURVIE,
       ID_MSG_ORDER_ANTENNA
  <2> QED BY <1>6, <2>1
<1>8. CASE Obeys
  BY <1>6, <1>8 DEF Obeys
<1>9. CASE Ignores
  <2>1. state # EMERGENCY
    BY <1>9 DEF Ignores, Deals, Placed
  <2> QED BY <1>6, <1>9, <2>1 DEF Ignores
<1>10. ASSUME NEW s, Behaves(s, "pps"), s # EMERGENCY, state # EMERGENCY
       PROVE  UNCHANGED <<orderMbx, NextRead>> /\ ~FindsNothing /\ ~Reads
  <2>1. ~pulse /\ ~pulse' /\ txPc = "behave" /\ txPc' = "pps" /\ state' # EMERGENCY
        /\ input = NoInput /\ input' = NoInput /\ UNCHANGED <<slept, orderMbx>>
    BY <1>10 DEF Behaves, Placed
  <2>2. UNCHANGED NextRead
    BY <1>0, <1>1, <1>10, <2>1 DEF NextRead
  <2> QED BY <2>1, <2>2 DEF FindsNothing, Reads
<1>11. CASE Rests \/ Plays
  BY <1>10, <1>11 DEF Rests, Plays
<1>12. CASE Waits
  <2>1. WaitingOutcome.next # EMERGENCY
    BY WaitingNext
  <2> QED BY <1>10, <1>12, <2>1 DEF Waits
<1>13. CASE Sleeps
  <2>1. ~pulse /\ ~pulse' /\ txPc = "behave" /\ txPc' = "survival" /\ state = EMERGENCY
        /\ state' = EMERGENCY /\ UNCHANGED <<slept, orderMbx>>
    BY <1>13 DEF Sleeps, Behaves, Placed
  <2>2. UNCHANGED NextRead
    BY <1>0, <2>1 DEF NextRead
  <2> QED BY <2>1, <2>2 DEF FindsNothing, Reads
<1>14. CASE WakesUp
  <2>1. ~pulse /\ ~pulse' /\ txPc = "survival" /\ txPc' = "pps" /\ state = EMERGENCY
        /\ state' = NOMINAL /\ input' = NoInput /\ slept = Nap /\ UNCHANGED orderMbx
    BY <1>14 DEF WakesUp, Placed
  <2>2. UNCHANGED NextRead
    BY <1>0, <1>1, <2>1 DEF NextRead
  <2> QED BY <2>1, <2>2 DEF FindsNothing, Reads
<1> QED BY <1>2, <1>3, <1>4, <1>5, <1>7, <1>8, <1>9, <1>11, <1>12, <1>13, <1>14 DEF Turn, Moves
LEMMA TurnQueue ==
  ASSUME Timely, TypeOK, Typed, Placed, Paced, QueueInv, Turn
  PROVE  QueueInv'
<1>1. /\ rtc \in Nat /\ NextRead \in Nat /\ rtc <= NextRead /\ Spent \in Nat /\ Due \in Int
      /\ Due + Spent = NextRead /\ Backlog \in Nat /\ rtc <= Backlog /\ Quiet \in BOOLEAN
  BY TimeFacts
<1>2. Backlog' = Backlog
  BY ClientStays DEF Turn
<1>3. Spent' = Spent /\ (Quiet' => Quiet)
  BY TurnQuiet
<1>4. Quiet' \in BOOLEAN
  BY DEF Quiet, Undisturbed, Prompt
<1>5. PICK e \in Nat : Queued(orderMbx, e, Due, Backlog, Quiet)
  BY DEF QueueInv
<1>6. orderMbx \in Seq(SimpleMessage)
  BY DEF TypeOK, OrdersTypeOK
<1> SUFFICES \E f \in Nat : Queued(orderMbx', f, Due', Backlog, Quiet')
  BY <1>2 DEF QueueInv
<1> DEFINE quiet == Quiet'
<1>7. CASE UNCHANGED <<orderMbx, NextRead>>
  <2>1. Due' = Due
    BY <1>3, <1>7 DEF Due
  <2>2. Queued(orderMbx, e, Due, Backlog, quiet)
    <3>1. quiet \in BOOLEAN /\ (quiet => Quiet) /\ Due <= Due /\ Backlog <= Backlog /\ Backlog \in Int
      BY <1>1, <1>3, <1>4
    <3> HIDE DEF quiet
    <3> QED BY <1>1, <1>5, <1>6, <3>1, QueuedSame
  <2> QED BY <1>7, <2>1, <2>2
<1>8. CASE FindsNothing
  <2>0. NextRead' = rtc + 1 /\ orderMbx' = <<>>
    BY <1>8, TurnNextRead DEF FindsNothing
  <2>1. Due' = rtc + 1 - Spent
    BY <1>1, <1>3, <2>0 DEF Due
  <2>2. Queued(<<>>, 0, rtc + 1 - Spent, Backlog, quiet)
    <3>1. /\ quiet \in BOOLEAN /\ rtc + 1 - Spent \in Int /\ Backlog \in Int
          /\ (rtc + 1 - Spent) - 1 <= Backlog
      BY <1>1, <1>4
    <3> HIDE DEF quiet
    <3> QED BY <3>1, QueuedEmpty
  <2> QED BY <2>0, <2>1, <2>2
<1>9. CASE Reads
  <2>1. /\ orderMbx # <<>> /\ orderMbx' = Tail(orderMbx)
        /\ NextRead = rtc
        /\ NextRead' = rtc + (IF IsEmergency(Head(orderMbx)) THEN Nap + 1 ELSE 1)
    BY <1>9, TurnNextRead DEF Reads
  <2>2. /\ ~IsEmergency(Head(orderMbx)) => Queued(orderMbx', e, Due + 1, Backlog, Quiet)
        /\ IsEmergency(Head(orderMbx)) =>
             e - 1 \in Nat /\ Queued(orderMbx', e - 1, Due + Nap + 1, Backlog, Quiet)
    <3>1. Backlog \in Int
      BY <1>1
    <3> QED BY <1>1, <1>5, <1>6, <2>1, <3>1, QueuedRead
  <2>3. Nap \in Nat /\ orderMbx' \in Seq(SimpleMessage)
    BY <1>6, <2>1, QueueOps, ConstantTypes
  <2>4. \E f \in Nat : Queued(orderMbx', f, Due', Backlog, Quiet)
    <3>1. CASE IsEmergency(Head(orderMbx))
      <4>1. Due' = Due + Nap + 1
        BY <1>1, <1>3, <2>1, <2>3, <3>1 DEF Due
      <4> QED BY <2>2, <3>1, <4>1
    <3>2. CASE ~IsEmergency(Head(orderMbx))
      <4>1. Due' = Due + 1
        BY <1>1, <1>3, <2>1, <2>3, <3>2 DEF Due
      <4> QED BY <2>2, <3>2, <4>1
    <3> QED BY <3>1, <3>2
  <2>5. PICK f \in Nat : Queued(orderMbx', f, Due', Backlog, Quiet)
    BY <2>4
  <2>6. Due' \in Int /\ Due' <= Due'
    BY <1>1, <1>3, <2>1, <2>3 DEF Due
  <2> DEFINE q == orderMbx'
             d == Due'
  <2>7. Queued(q, f, d, Backlog, quiet)
    <3>1. /\ quiet \in BOOLEAN /\ (quiet => Quiet) /\ Backlog <= Backlog /\ Backlog \in Int
          /\ q \in Seq(SimpleMessage) /\ d \in Int /\ d <= d /\ Queued(q, f, d, Backlog, Quiet)
      BY <1>1, <1>3, <1>4, <2>3, <2>5, <2>6
    <3> HIDE DEF quiet, q, d
    <3> QED BY <1>1, <3>1, QueuedSame
  <2> QED BY <2>7
<1> QED BY <1>7, <1>8, <1>9, TurnNextRead

\* A trajectory waits or is played, or its date is on its way.
GivenNext(o) ==
  /\ ~Armed' /\ Tabled(arrived)'
  /\ \E m \in DOMAIN Missions : o = DateOrder(m) /\ Kept(m)'

LEMMA DatesNext ==
  ASSUME \A i \in 1 .. Len(orderMbx') :
           IsDate(orderMbx'[i]) =>
             /\ GivenNext(orderMbx'[i]) /\ ~IsDate(input')
             /\ \A j \in 1 .. Len(orderMbx') : IsDate(orderMbx'[j]) => j = i,
         IsDate(input') =>
           /\ GivenNext(input')
           /\ \A m \in DOMAIN Missions :
                Quiet' /\ input' = DateOrder(m) => rtc' <= Beginning(m) - 4 + slips'
  PROVE  DateInv'
<1>1. \A i \in 1 .. Len(orderMbx') : GivenNext(orderMbx'[i]) => Given(orderMbx[i])'
  BY DEF GivenNext, Given
<1>2. GivenNext(input') => Given(input)'
  BY DEF GivenNext, Given
<1>3. \A i \in 1 .. Len(orderMbx') :
        IsDate(orderMbx'[i]) =>
          /\ Given(orderMbx[i])' /\ ~IsDate(input')
          /\ \A j \in 1 .. Len(orderMbx') : IsDate(orderMbx'[j]) => j = i
  BY <1>1
<1>4. IsDate(input') =>
        /\ Given(input)'
        /\ \A m \in DOMAIN Missions :
             Quiet' /\ input' = DateOrder(m) => rtc' <= Beginning(m) - 4 + slips'
  BY <1>2
<1> QED BY <1>3, <1>4, Zenon DEF DateInv, IsDate

LEMMA GivenStays ==
  ASSUME UNCHANGED <<table, arrived>>, Armed' => Armed,
         \A m \in DOMAIN Missions : Kept(m) => Kept(m)', NEW o, Given(o)
  PROVE  GivenNext(o)
<1>1. ~Armed' /\ Tabled(arrived)'
  BY DEF Given, Tabled
<1>2. \E m \in DOMAIN Missions : o = DateOrder(m) /\ Kept(m)'
  BY DEF Given
<1> QED BY <1>1, <1>2 DEF GivenNext

(* The queue and what is read do not change, but for what is dealt with.    *)
LEMMA DatesStay ==
  ASSUME UNCHANGED <<table, arrived, orderMbx>>, Armed' => Armed, input' \in {input, NoInput},
         \A m \in DOMAIN Missions : Kept(m) => Kept(m)', DateInv,
         IsDate(input') => UNCHANGED <<rtc, slips>> /\ (Quiet' => Quiet)
  PROVE  DateInv'
<1>1. ~IsDate(NoInput)
  BY DEF IsDate, NoInput, Message, ID_MSG_ORDER_DO_TRAJ_AT_DATE
<1>2. \A o : Given(o) => GivenNext(o)
  BY GivenStays
<1>3. ASSUME NEW i \in 1 .. Len(orderMbx'), IsDate(orderMbx'[i])
      PROVE  /\ GivenNext(orderMbx'[i]) /\ ~IsDate(input')
             /\ \A j \in 1 .. Len(orderMbx') : IsDate(orderMbx'[j]) => j = i
  <2>1. /\ Given(orderMbx[i]) /\ ~IsDate(input)
        /\ \A j \in 1 .. Len(orderMbx) : IsDate(orderMbx[j]) => j = i
    BY <1>3 DEF DateInv
  <2> QED BY <1>1, <1>2, <2>1
<1>4. ASSUME IsDate(input')
      PROVE  /\ GivenNext(input')
             /\ \A m \in DOMAIN Missions :
                  Quiet' /\ input' = DateOrder(m) => rtc' <= Beginning(m) - 4 + slips'
  <2>1. input' = input /\ IsDate(input)
    BY <1>1, <1>4
  <2>2. /\ Given(input)
        /\ \A m \in DOMAIN Missions :
             Quiet /\ input = DateOrder(m) => rtc <= Beginning(m) - 4 + slips
    BY <2>1 DEF DateInv
  <2> QED BY <1>2, <1>4, <2>1, <2>2
<1> QED BY <1>3, <1>4, DatesNext

LEMMA TurnDates ==
  ASSUME TypeOK, Typed, Placed, Paced, QueueInv, DateInv, Timely, Turn
  PROVE  DateInv'
<1> USE DEF NOMINAL, WAITING_TIME, PROCESS_TRAJ, EMERGENCY
<1>1. UNCHANGED nb_point => \A m \in DOMAIN Missions : Kept(m)' <=> Kept(m)
  BY ClientStays DEF Turn
<1>2. (Quiet' => Quiet) /\ UNCHANGED <<rtc, slips, arrived>>
  BY TurnQuiet DEF Turn
<1>3. ASSUME UNCHANGED trajVars, Armed' => Armed, NEW o, Given(o)
      PROVE  GivenNext(o)
  BY <1>1, <1>2, <1>3, GivenStays DEF trajVars
<1>4. ~IsDate(NoInput)
  BY DEF IsDate, NoInput, Message, ID_MSG_ORDER_DO_TRAJ_AT_DATE
<1>5. ASSUME UNCHANGED <<orderMbx, trajVars>>, Armed' => Armed, input' \in {input, NoInput}
      PROVE  DateInv'
  BY <1>1, <1>2, <1>5, DatesStay DEF trajVars
<1>6. CASE Wakes \/ FindsNothing \/ Rests \/ Sleeps \/ WakesUp
  BY <1>5, <1>6 DEF Wakes, FindsNothing, Rests, Sleeps, WakesUp, Behaves, Armed
<1>7. CASE Waits
  BY <1>5, <1>7, WaitingNext DEF Waits, Behaves, Armed
<1>8. CASE SeesEmergency \/ Obeys \/ Ignores
  BY <1>5, <1>8 DEF SeesEmergency, Obeys, Ignores, Deals, Armed
<1>9. ASSUME \A i \in 1 .. Len(orderMbx') : ~IsDate(orderMbx'[i]), ~IsDate(input')
      PROVE  DateInv'
  BY <1>9, DatesNext
<1>10. CASE Plays
  <2>1. Armed /\ UNCHANGED <<orderMbx, input>>
    BY <1>10 DEF Plays, Behaves, Armed
  <2>2. ~IsDate(input) /\ \A i \in 1 .. Len(orderMbx) : ~IsDate(orderMbx[i])
    BY <2>1 DEF DateInv, Given
  <2> QED BY <1>9, <2>1, <2>2
<1>11. CASE Arms
  <2>1. IsDate(input) /\ input' = NoInput /\ orderMbx' = orderMbx
    BY <1>11 DEF Arms, Deals
  <2>2. \A i \in 1 .. Len(orderMbx) : ~IsDate(orderMbx[i])
    BY <2>1 DEF DateInv
  <2> QED BY <1>4, <1>9, <2>1, <2>2
<1>12. CASE Reads
  <2>1. /\ txPc = "order" /\ orderMbx # <<>> /\ orderMbx' = Tail(orderMbx)
        /\ input' = Head(orderMbx) /\ UNCHANGED <<trajVars, state>>
    BY <1>12 DEF Reads
  <2>2. orderMbx \in Seq(SimpleMessage)
    BY DEF TypeOK, OrdersTypeOK
  <2>3. /\ Len(orderMbx) \in Nat /\ Len(orderMbx) > 0 /\ Len(orderMbx') = Len(orderMbx) - 1
        /\ input' = orderMbx[1]
        /\ \A i \in 1 .. Len(orderMbx') : orderMbx'[i] = orderMbx[i + 1]
        /\ Head(orderMbx) \in SimpleMessage
    <3>1. Head(orderMbx) \in SimpleMessage
      BY <2>1, <2>2, QueueOps
    <3> QED BY <2>1, <2>2, <3>1, QueueIndices
  <2>4. \A i \in 1 .. Len(orderMbx') : i + 1 \in 1 .. Len(orderMbx) /\ i + 1 # 1 /\ i \in Int
    BY <2>3
  <2>5. Armed' => Armed
    BY <2>1 DEF Armed
  <2>6. ASSUME NEW i \in 1 .. Len(orderMbx'), IsDate(orderMbx'[i])
        PROVE  /\ GivenNext(orderMbx'[i]) /\ ~IsDate(input')
               /\ \A j \in 1 .. Len(orderMbx') : IsDate(orderMbx'[j]) => j = i
    <3>1. IsDate(orderMbx[i + 1])
      BY <2>3, <2>6
    <3>2. /\ Given(orderMbx[i + 1])
          /\ \A j \in 1 .. Len(orderMbx) : IsDate(orderMbx[j]) => j = i + 1
      BY <2>4, <3>1 DEF DateInv
    <3>3. GivenNext(orderMbx[i + 1])
      BY <1>3, <2>1, <2>5, <3>2
    <3>4. ~IsDate(input')
      <4>1. 1 \in 1 .. Len(orderMbx)
        BY <2>3
      <4> QED BY <2>3, <2>4, <3>2, <4>1
    <3>5. ASSUME NEW j \in 1 .. Len(orderMbx'), IsDate(orderMbx'[j]) PROVE j = i
      <4>1. j + 1 = i + 1
        BY <2>3, <2>4, <3>2, <3>5
      <4> QED BY <2>4, <4>1
    <3> QED BY <2>3, <3>3, <3>4, <3>5
  <2>7. ASSUME IsDate(input')
        PROVE  /\ GivenNext(input')
               /\ \A m \in DOMAIN Missions :
                    Quiet' /\ input' = DateOrder(m) => rtc' <= Beginning(m) - 4 + slips'
    <3>1. 1 \in 1 .. Len(orderMbx)
      BY <2>3
    <3>2. Given(orderMbx[1])
      BY <2>3, <2>7, <3>1 DEF DateInv
    <3>3. GivenNext(orderMbx[1])
      BY <1>3, <2>1, <2>5, <3>2
    <3>4. ASSUME NEW m \in DOMAIN Missions, Quiet', input' = DateOrder(m)
          PROVE  rtc' <= Beginning(m) - 4 + slips'
      <4>1. /\ rtc \in Nat /\ Due \in Int /\ Due + Spent = NextRead /\ Spent = slips
            /\ Quiet /\ slips \in Nat /\ Backlog \in Int /\ Quiet \in BOOLEAN
        BY <1>2, <3>4, TimeFacts
      <4>2. NextRead = rtc
        BY <1>12, TurnNextRead
      <4>3. PICK e \in Nat : Queued(orderMbx, e, Due, Backlog, Quiet)
        BY DEF QueueInv
      <4>4. InTime(Head(orderMbx), Due, Quiet)
        BY <2>1, <2>2, <4>1, <4>3, QueuedRead
      <4>5. Due <= Beginning(m) - 4
        BY <2>1, <3>4, <4>1, <4>4 DEF InTime
      <4> QED BY <1>2, <4>1, <4>2, <4>5, MissionFacts
    <3> QED BY <2>3, <3>3, <3>4
  <2> QED BY <2>6, <2>7, DatesNext
<1> QED BY <1>6, <1>7, <1>8, <1>10, <1>11, <1>12 DEF Turn, Moves
LEMMA TurnLoad ==
  ASSUME TypeOK, Typed, DateInv, PlayInv, LoadInv, Turn
  PROVE  LoadInv'
<1> SUFFICES ASSUME Loading' PROVE LoadInv'
  BY DEF LoadInv
<1>1. Loading /\ ~Armed /\ ~IsDate(input)
  BY ClientStays, LoadsAlone DEF Turn
<1>2. UNCHANGED trajVars
  <2>1. ~Arms /\ ~Plays
    BY <1>1 DEF Arms, Plays, Armed
  <2> QED BY <2>1, Zenon DEF Turn, Moves, Wakes, FindsNothing, Reads, SeesEmergency, Obeys, Ignores,
             Rests, Waits, Sleeps, WakesUp
<1>3. (Losing' <=> Losing) /\ UNCHANGED <<mission, step, arrived>>
  BY TurnQuiet DEF Turn
<1> QED BY <1>1, <1>2, <1>3 DEF LoadInv, Tabled, trajVars

LEMMA PlayFacts ==
  ASSUME TypeOK, Typed, PlayInv, Armed
  PROVE  /\ armed.mission \in DOMAIN Missions /\ Beginning(armed.mission) \in Nat
         /\ Duration(armed.mission) \in Nat \ {0}
         /\ Ending(armed.mission) = Beginning(armed.mission) + Duration(armed.mission) - 1
         /\ nb_point = Duration(armed.mission) + 1 /\ nb_point <= MAX_TRAJ_LENGTH
         /\ current_point \in Nat /\ Progress \in Nat /\ Progress < nb_point
         /\ Advance(current_point) = current_point + 1
         /\ Target(current_point) = table[current_point] /\ Target(0) = table[0]
         /\ init_date \in Nat /\ rtc \in Nat /\ slips \in Nat /\ Coming \in {0, 1}
<1>1. armed.mission \in DOMAIN Missions
  BY DEF Typed, PlayInv
<1>2. /\ Beginning(armed.mission) \in Nat
      /\ Duration(armed.mission) \in Nat \ {0} /\ Duration(armed.mission) < MAX_TRAJ_LENGTH
      /\ Ending(armed.mission) = Beginning(armed.mission) + Duration(armed.mission) - 1
  BY <1>1, MissionFacts
<1>3. /\ nb_point = Duration(armed.mission) + 1
      /\ current_point \in Int /\ 1 <= current_point /\ current_point < nb_point
  BY DEF TypeOK, TrajTypeOK, PlayInv, Kept
<1>4. MAX_TRAJ_LENGTH \in Nat /\ MaxPoint \in Nat /\ MaxPoint > MAX_TRAJ_LENGTH
  BY ConstantTypes
<1>5. nb_point <= MAX_TRAJ_LENGTH /\ current_point \in Nat /\ current_point < MaxPoint
      /\ current_point \in TableIndex /\ 0 \in TableIndex
  BY <1>2, <1>3, <1>4 DEF TableIndex
<1>6. init_date \in Nat /\ rtc \in Nat /\ slips \in Nat
  BY BoardAssumption DEF TypeOK, LinesTypeOK, TrajTypeOK, Time, Typed
<1>7. Progress \in Nat /\ Progress < nb_point /\ Coming \in {0, 1}
  BY <1>2, <1>3, <1>5 DEF Progress, Coming
<1> QED BY <1>1, <1>2, <1>3, <1>5, <1>6, <1>7 DEF Advance, Target

(* The trajectory goes on, and time not faster than it.                     *)
LEMMA PlayStays ==
  ASSUME TypeOK, Typed, PlayInv, UNCHANGED <<state, trajVars, armed, played>>,
         Armed => \A m \in DOMAIN Missions : Kept(m) => Kept(m)',
         txPc = "behave" => txPc' = "behave",
         rtc' \in Nat, slips' \in Nat, rtc' - slips' - Coming' <= rtc - slips - Coming,
         Quiet' => Quiet
  PROVE  PlayInv'
<1> SUFFICES ASSUME Armed' PROVE PlayInv'
  BY DEF PlayInv
<1>1. Armed
  BY DEF Armed
<1>2. /\ armed.mission \in DOMAIN Missions /\ rtc \in Nat /\ slips \in Nat
      /\ Coming \in {0, 1} /\ Progress \in Nat /\ init_date \in Nat
  BY <1>1, PlayFacts
<1>3. Coming' \in {0, 1} /\ Progress' = Progress
  BY DEF Coming, Progress, trajVars
<1>4. Kept(armed.mission) /\ armed.mission # 0 /\ Tabled(armed.points) /\ Tabled(played)
  BY <1>1 DEF PlayInv
<1>5. Kept(armed.mission)' /\ Tabled(armed.points)' /\ Tabled(played)'
  <2>1. armed'.mission = armed.mission
    OBVIOUS
  <2>2. \A m \in DOMAIN Missions : m = armed.mission => (Kept(armed.mission)' <=> Kept(m)')
    BY <2>1 DEF Kept
  <2>3. Tabled(armed.points)' /\ Tabled(played)'
    BY <1>4 DEF Tabled, trajVars
  <2> QED BY <1>1, <1>2, <1>4, <2>2, <2>3
<1>6. /\ init_date' = Beginning(armed'.mission)
      /\ Len(played') = current_point' /\ 1 <= current_point' /\ current_point' < nb_point'
      /\ state' = WAITING_TIME => current_point' = 1
  BY <1>1 DEF PlayInv, trajVars
<1>7. ~(state' = WAITING_TIME /\ txPc' = "behave") =>
        rtc' <= init_date' - 1 + Progress' + slips' + Coming'
  <2>1. ~(state' = WAITING_TIME /\ txPc' = "behave") =>
          rtc <= init_date - 1 + Progress + slips + Coming
    BY <1>1 DEF PlayInv
  <2> QED BY <1>2, <1>3, <2>1 DEF trajVars
<1>8. Quiet' => rtc' <= init_date' - 5 + Progress' + slips' + Coming'
  <2>1. Quiet => rtc <= init_date - 5 + Progress + slips + Coming
    BY <1>1 DEF PlayInv
  <2> QED BY <1>2, <1>3, <2>1 DEF trajVars
<1> QED BY <1>4, <1>5, <1>6, <1>7, <1>8 DEF PlayInv
LEMMA TurnPlay ==
  ASSUME TypeOK, Typed, Placed, DateInv, PlayInv, Turn
  PROVE  PlayInv'
<1> USE DEF NOMINAL, WAITING_TIME, PROCESS_TRAJ, EMERGENCY
<1>1. UNCHANGED nb_point => \A m \in DOMAIN Missions : Kept(m)' <=> Kept(m)
  BY ClientStays DEF Turn
<1>2. /\ Quiet' => Quiet
      /\ UNCHANGED <<rtc, slips, arrived>> /\ rtc \in Nat /\ slips \in Nat
  BY TurnQuiet, BoardAssumption DEF Turn, Typed, TypeOK, LinesTypeOK, Time
<1>3. ASSUME UNCHANGED <<state, trajVars, tracksVars>>, Coming' = Coming,
             txPc = "behave" => txPc' = "behave"
      PROVE  PlayInv'
  <2>1. /\ UNCHANGED <<armed, played>> /\ Coming \in {0, 1}
        /\ \A m \in DOMAIN Missions : Kept(m) => Kept(m)'
    BY <1>1, <1>3 DEF tracksVars, trajVars, Coming
  <2>2. rtc' \in Nat /\ slips' \in Nat /\ rtc' - slips' - Coming' <= rtc - slips - Coming
    BY <1>2, <1>3, <2>1
  <2> QED BY <1>2, <1>3, <2>1, <2>2, PlayStays
<1>4. CASE Wakes \/ FindsNothing \/ Reads \/ Ignores
  <2>1. Coming = 1
    BY <1>4 DEF Coming, Wakes, FindsNothing, Reads, Ignores, Deals
  <2>2. Coming' = 1 /\ UNCHANGED <<state, trajVars, tracksVars>> /\ txPc # "behave"
    BY <1>4 DEF Coming, Wakes, FindsNothing, Reads, Ignores, Deals
  <2> QED BY <1>3, <2>1, <2>2
<1>5. CASE SeesEmergency \/ Obeys \/ Rests \/ Sleeps \/ WakesUp
  <2>1. ~Armed'
    BY <1>5 DEF SeesEmergency, Obeys, Rests, Sleeps, WakesUp, Deals, Behaves, Armed
  <2> QED BY <2>1 DEF PlayInv
<1>6. CASE Arms
  <2>1. PICK m \in DOMAIN Missions : input = DateOrder(m) /\ Kept(m)
    BY <1>6 DEF Arms, DateInv, Given
  <2>2. MissionAt(input.value) = m /\ input.value = Beginning(m)
    BY <2>1, DatedOrder
  <2>3. /\ armed' = [mission |-> m, points |-> arrived] /\ played' = <<Target(0)>>
        /\ init_date' = Beginning(m) /\ current_point' = Advance(0)
        /\ UNCHANGED <<nb_point, table>>
        /\ state' = WAITING_TIME /\ txPc' = "behave"
    BY <1>6, <2>2 DEF Arms, Deals, trajPrepareAtDate
  <2>4. /\ m # 0 /\ Duration(m) \in Nat \ {0} /\ Duration(m) < MAX_TRAJ_LENGTH
        /\ Beginning(m) \in Nat /\ nb_point = Duration(m) + 1
    BY <2>1, MissionFacts DEF Kept
  <2>5. Advance(0) = 1 /\ Target(0) = table[0] /\ 1 <= MAX_TRAJ_LENGTH
    BY ConstantTypes, TrajectoryAssumption DEF Advance, Target, TableIndex
  <2>6. Kept(armed.mission)'
    <3>1. Kept(m)'
      BY <1>1, <2>1, <2>3
    <3>2. armed'.mission = m
      BY <2>3
    <3> QED BY <3>1, <3>2 DEF Kept
  <2>7. Tabled(armed.points)' /\ Tabled(played)'
    <3>1. Tabled(arrived)
      BY <1>6 DEF Arms, DateInv, Given
    <3>2. armed'.points = arrived
      BY <2>3
    <3>3. Tabled(armed.points)'
      BY <2>3, <3>1, <3>2 DEF Tabled
    <3>4. Len(played') = 1 /\ played'[1] = table[0]
      BY <2>3, <2>5
    <3>5. \A i \in 1 .. Len(played') : i = 1
      BY <3>4
    <3>6. Tabled(played)'
      BY <2>3, <2>5, <3>4, <3>5 DEF Tabled
    <3> QED BY <3>3, <3>6
  <2>8. Coming' = 1 /\ Progress' = 0
    BY <2>3 DEF Coming, Progress
  <2>9. Quiet' => rtc' <= init_date' - 5 + Progress' + slips' + Coming'
    <3>1. IsDate(input) /\ (Quiet' => rtc <= Beginning(m) - 4 + slips)
      BY <1>2, <1>6, <2>1 DEF Arms, DateInv
    <3> QED BY <1>2, <2>3, <2>4, <2>8, <3>1
  <2>10. armed'.mission = m /\ Len(played') = 1
    BY <2>3
  <2> QED BY <2>3, <2>4, <2>5, <2>6, <2>7, <2>9, <2>10 DEF PlayInv
<1>7. CASE Waits
  <2>1. /\ Armed /\ state = WAITING_TIME /\ txPc = "behave" /\ txPc' = "pps"
        /\ state' = WaitingOutcome.next /\ ~pulse'
        /\ UNCHANGED <<trajVars, armed, played>>
    BY <1>7 DEF Waits, Behaves, Armed, tracksVars, Placed
  <2> SUFFICES ASSUME Armed' PROVE PlayInv'
    BY DEF PlayInv
  <2>2. \/ state' = PROCESS_TRAJ /\ rtc <= init_date
        \/ state' = WAITING_TIME /\ init_date - rtc > ANTICIPATION_TIME_BEFORE_TRACKING
    BY <2>1, WaitingNext DEF Armed
  <2>3. /\ armed.mission \in DOMAIN Missions /\ init_date \in Nat
        /\ current_point = 1 /\ Coming = 1 /\ Progress = 0 /\ Coming' = 0
    BY <2>1, PlayFacts DEF PlayInv, Coming, Progress
  <2>4. Kept(armed.mission)' /\ Tabled(armed.points)' /\ Tabled(played)'
    <3>1. Kept(armed.mission) /\ Tabled(armed.points) /\ Tabled(played) /\ UNCHANGED nb_point
      BY <2>1 DEF PlayInv, trajVars
    <3>2. Kept(armed.mission)'
      <4>1. armed'.mission = armed.mission
        BY <2>1
      <4>2. \A m \in DOMAIN Missions : m = armed.mission => (Kept(armed.mission)' <=> Kept(m)')
        BY <4>1 DEF Kept
      <4> QED BY <1>1, <2>3, <3>1, <4>2
    <3> QED BY <2>1, <3>1, <3>2 DEF Tabled, trajVars
  <2>5. /\ armed'.mission # 0 /\ init_date' = Beginning(armed'.mission)
        /\ Len(played') = current_point' /\ 1 <= current_point' /\ current_point' < nb_point'
        /\ state' = WAITING_TIME => current_point' = 1
    BY <2>1, <2>3 DEF PlayInv, trajVars
  <2>6. rtc' <= init_date' - 1 + Progress' + slips' + Coming'
    <3>1. init_date' = init_date /\ ANTICIPATION_TIME_BEFORE_TRACKING \in Nat
      BY <2>1, ConstantTypes DEF trajVars
    <3>2. CASE state' = PROCESS_TRAJ /\ rtc <= init_date
      <4>1. Progress' = 1
        BY <2>1, <2>3, <3>2 DEF Progress, trajVars
      <4> QED BY <1>2, <2>3, <3>1, <3>2, <4>1
    <3>3. CASE state' = WAITING_TIME /\ init_date - rtc > ANTICIPATION_TIME_BEFORE_TRACKING
      <4>1. Progress' = 0
        BY <3>3 DEF Progress
      <4> QED BY <1>2, <2>3, <3>1, <3>3, <4>1
    <3> QED BY <2>2, <3>2, <3>3
  <2>7. ASSUME Quiet' PROVE rtc' <= init_date' - 5 + Progress' + slips' + Coming'
    <3>1. /\ init_date' = init_date /\ ANTICIPATION_TIME_BEFORE_TRACKING \in Nat
          /\ ANTICIPATION_TIME_BEFORE_TRACKING >= 4
          /\ rtc <= init_date - 5 + Progress + slips + Coming
      BY <1>2, <2>1, <2>7, ConstantTypes DEF trajVars, PlayInv, Quiet, Prompt
    <3>2. CASE state' = PROCESS_TRAJ /\ rtc <= init_date
      <4>1. Progress' = 1
        BY <2>1, <2>3, <3>2 DEF Progress, trajVars
      <4> QED BY <1>2, <2>3, <3>1, <3>2, <4>1
    <3>3. CASE state' = WAITING_TIME /\ init_date - rtc > ANTICIPATION_TIME_BEFORE_TRACKING
      <4>1. Progress' = 0
        BY <3>3 DEF Progress
      <4> QED BY <1>2, <2>3, <3>1, <3>3, <4>1
    <3> QED BY <2>2, <3>2, <3>3
  <2> QED BY <2>4, <2>5, <2>6, <2>7 DEF PlayInv
<1>8. CASE Plays
  <2>1. /\ Armed /\ state = PROCESS_TRAJ /\ txPc = "behave" /\ txPc' = "pps" /\ ~pulse'
        /\ played' = Append(played, Target(current_point)) /\ UNCHANGED armed
    BY <1>8 DEF Plays, Behaves, Armed, Placed
  <2> SUFFICES ASSUME Armed' PROVE PlayInv'
    BY DEF PlayInv
  <2>2. /\ state' = PROCESS_TRAJ /\ Advance(current_point) # nb_point
        /\ current_point' = Advance(current_point) /\ UNCHANGED <<nb_point, table, init_date>>
    BY <1>8 DEF Plays, Behaves, Armed, trajGetNextTarget
  <2>3. /\ armed.mission \in DOMAIN Missions /\ nb_point \in Nat /\ nb_point <= MAX_TRAJ_LENGTH
        /\ current_point \in Nat /\ Advance(current_point) = current_point + 1
        /\ Target(current_point) = table[current_point] /\ init_date \in Nat
    <3>1. nb_point \in Nat
      BY <2>1, PlayFacts
    <3> QED BY <2>1, <3>1, PlayFacts
  <2>4. /\ Len(played) = current_point /\ 1 <= current_point /\ current_point < nb_point
        /\ armed.mission # 0 /\ init_date = Beginning(armed.mission)
        /\ Kept(armed.mission) /\ Tabled(armed.points) /\ Tabled(played)
        /\ rtc <= init_date - 1 + Progress + slips + Coming
        /\ Quiet => rtc <= init_date - 5 + Progress + slips + Coming
    BY <2>1 DEF PlayInv
  <2>5. /\ Progress = current_point /\ Progress' = current_point + 1
        /\ Coming = 1 /\ Coming' = 0
    BY <2>1, <2>2, <2>3 DEF Progress, Coming
  <2>6. Kept(armed.mission)' /\ Tabled(armed.points)'
    <3>1. armed'.mission = armed.mission
      BY <2>1
    <3>2. \A m \in DOMAIN Missions : m = armed.mission => (Kept(armed.mission)' <=> Kept(m)')
      BY <3>1 DEF Kept
    <3> QED BY <1>1, <2>1, <2>2, <2>3, <2>4, <3>2 DEF Tabled
  <2>7. /\ Len(played') = current_point + 1
        /\ played'[current_point + 1] = table[current_point]
        /\ \A i \in 1 .. current_point : played'[i] = played[i]
    <3>1. played \in Seq(Frames) /\ Target(current_point) \in Frames
      BY FrameTypes, <2>3 DEF Typed, TypeOK
    <3> QED BY <2>1, <2>3, <2>4, <3>1, QueueIndices
  <2>8. Tabled(played)'
    <3>1. ASSUME NEW i \in 1 .. Len(played')
          PROVE  i <= MAX_TRAJ_LENGTH /\ table'[i - 1] = played'[i]
      <4>1. CASE i \in 1 .. current_point
        BY <2>2, <2>4, <2>7, <4>1 DEF Tabled
      <4>2. CASE i = current_point + 1
        BY <2>2, <2>3, <2>4, <2>7, <4>2, ConstantTypes
      <4> QED BY <2>3, <2>7, <4>1, <4>2
    <3> QED BY <3>1 DEF Tabled
  <2>9. current_point' = current_point + 1 /\ current_point' < nb_point'
    BY <2>2, <2>3, <2>4
  <2>10. /\ rtc' <= init_date' - 1 + Progress' + slips' + Coming'
         /\ Quiet' => rtc' <= init_date' - 5 + Progress' + slips' + Coming'
    <3>1. /\ rtc <= init_date - 1 + (current_point + 1) + slips + 0
          /\ Quiet => rtc <= init_date - 5 + (current_point + 1) + slips + 0
      BY <1>2, <2>3, <2>4, <2>5, SMTT(30)
    <3>2. rtc' = rtc /\ init_date' = init_date /\ slips' = slips
      BY <1>2, <2>2
    <3> QED BY <1>2, <2>5, <3>1, <3>2
  <2>11. Len(played') = current_point' /\ 1 <= current_point'
    BY <2>3, <2>7, <2>9
  <2> QED BY <2>1, <2>2, <2>4, <2>6, <2>8, <2>9, <2>10, <2>11 DEF PlayInv
<1> QED BY <1>4, <1>5, <1>6, <1>7, <1>8 DEF Turn, Moves
LEMMA TurnWritten ==
  ASSUME TypeOK, Typed, DateInv, PlayInv, Written, Turn
  PROVE  Written'
<1>1. CASE UNCHANGED <<armed, played>>
  BY <1>1 DEF Written
<1>2. CASE Arms
  <2>1. PICK m \in DOMAIN Missions : input = DateOrder(m)
    BY <1>2 DEF Arms, DateInv, Given
  <2>2. MissionAt(input.value) = m
    BY <2>1, DatedOrder
  <2>3. armed' = [mission |-> m, points |-> arrived] /\ played' = <<table[0]>>
    BY <1>2, <2>2, TrajectoryAssumption DEF Arms, Target, TableIndex
  <2>4. /\ armed'.mission = m /\ armed'.points = arrived /\ Len(played') = 1
        /\ DOMAIN played' = {1} /\ played'[1] = table[0]
    BY <2>3
  <2>5. ASSUME 1 \in DOMAIN arrived PROVE arrived[1] = table[0]
    <3>1. 1 \in 1 .. Len(arrived)
      BY <2>5 DEF Typed
    <3>2. Tabled(arrived)
      BY <1>2 DEF Arms, DateInv, Given
    <3> QED BY <3>1, <3>2 DEF Tabled
  <2>6. 1 <= Len(Plan(m))
    BY PlanParts, MissionFacts
  <2> QED BY <2>4, <2>5, <2>6 DEF Written
<1>3. CASE Plays
  <2>1. Armed /\ played' = Append(played, Target(current_point)) /\ UNCHANGED armed
    BY <1>3 DEF Plays, Armed
  <2>2. /\ current_point \in Nat /\ Target(current_point) = table[current_point]
        /\ armed.mission \in DOMAIN Missions /\ current_point < nb_point
        /\ nb_point = Duration(armed.mission) + 1 /\ Duration(armed.mission) \in Nat
    BY <2>1, PlayFacts DEF PlayInv
  <2>3. /\ Len(played) = current_point /\ Tabled(armed.points)
        /\ played \in Seq(Frames) /\ armed.points \in Seq(Frames)
        /\ Target(current_point) \in Frames
    BY <2>1, <2>2, FrameTypes DEF PlayInv, Typed, TypeOK
  <2>4. /\ Len(played') = current_point + 1
        /\ played'[current_point + 1] = table[current_point]
        /\ \A i \in 1 .. current_point : played'[i] = played[i]
    BY <2>1, <2>2, <2>3, QueueIndices
  <2>5. /\ DOMAIN played' = 1 .. (current_point + 1) /\ DOMAIN played = 1 .. current_point
        /\ DOMAIN armed.points = 1 .. Len(armed.points)
    <3>1. played' \in Seq(Frames)
      BY <2>1, <2>3
    <3> QED BY <2>3, <2>4, <3>1
  <2>6. ASSUME NEW i \in DOMAIN played' \cap DOMAIN armed'.points
        PROVE  played'[i] = armed'.points[i]
    <3>1. i \in 1 .. (current_point + 1) /\ i \in 1 .. Len(armed.points)
          /\ armed'.points = armed.points
      BY <2>1, <2>5
    <3>2. CASE i \in 1 .. current_point
      BY <2>4, <2>5, <3>1, <3>2 DEF Written
    <3>3. CASE i = current_point + 1
      <4>1. armed.points[current_point + 1] = table[(current_point + 1) - 1]
        BY <2>3, <3>1, <3>3 DEF Tabled
      <4>2. (current_point + 1) - 1 = current_point
        BY <2>2
      <4> QED BY <2>4, <3>1, <3>3, <4>1, <4>2
    <3> QED BY <2>2, <3>1, <3>2, <3>3
  <2>7. Len(played') <= Len(Plan(armed'.mission))
    BY <2>1, <2>2, <2>4, PlanParts
  <2> QED BY <2>6, <2>7 DEF Written
<1>4. UNCHANGED <<armed, played>> \/ Arms \/ Plays
  BY Zenon DEF Turn, Moves, tracksVars, Wakes, FindsNothing, Reads, SeesEmergency, Obeys, Ignores,
     Rests, Waits, Sleeps, WakesUp
<1> QED BY <1>1, <1>2, <1>3, <1>4

(* The orders of the script.                                                *)
LEMMA NthOrder ==
  ASSUME NEW o, NEW k \in Int, mission \in {0} \cup DOMAIN Missions, IsNth(o, k)
  PROVE  /\ k \in 1 .. 4 /\ ~IsEmergency(o)
         /\ k = 4 => mission \in DOMAIN Missions /\ o = DateOrder(mission) /\ IsDate(o)
         /\ k \in 1 .. 3 => /\ o.id = ID_MSG_ORDER_ANTENNA /\ ~IsDate(o)
                            /\ o.frame = Preparation[k]
<1>1. CASE k \in 1 .. 3 /\ o = Order(Preparation[k])
  <2>1. o.id = ID_MSG_ORDER_ANTENNA /\ o.frame = Preparation[k]
    BY <1>1 DEF Order, Message
  <2>2. Preparation[k] # ANTENNA_SURVIE
    BY <1>1 DEF Preparation, ANTENNA_SURVIE, ANTENNA_DESACTIVATE, ANTENNA_REINI, ANTENNA_CALLAGE
  <2> QED BY <1>1, <2>1, <2>2 DEF IsEmergency, IsDate, ID_MSG_ORDER_ANTENNA, ID_MSG_ORDER_SURVIE,
             ID_MSG_ORDER_DO_TRAJ_AT_DATE
<1>2. CASE k = 4 /\ mission # 0 /\ o = DateOrder(mission)
  BY <1>2, DatedOrder
<1> QED BY <1>1, <1>2 DEF IsNth
IsNthNext(o, k) ==
  \/ k \in 1 .. 3 /\ o = Order(Preparation[k])
  \/ k = 4 /\ mission' # 0 /\ o = DateOrder(mission')

LEMMA PrepNext ==
  ASSUME Quiet' =>
           /\ 0 <= Obeyed'
           /\ Reading' = 1 => IsNthNext(input', Obeyed' + 1)
           /\ \A j \in 1 .. Len(orderMbx') : IsNthNext(orderMbx'[j], Obeyed' + Reading' + j)
           /\ Len(ordered') = (IF Obeyed' = 4 THEN 3 ELSE Obeyed')
           /\ \A i \in 1 .. Len(ordered') : ordered'[i] = Preparation[i]
           /\ Obeyed' # 4 => state' = NOMINAL
           /\ state' # EMERGENCY
           /\ Armed' => armed'.mission = mission'
  PROVE  PrepInv'
<1>1. Quiet' => /\ Reading' = 1 => IsNth(input, Obeyed + 1)'
                /\ \A j \in 1 .. Len(orderMbx') : IsNth(orderMbx[j], Obeyed + Reading + j)'
  BY DEF IsNthNext, IsNth
<1> QED BY <1>1 DEF PrepInv, Preparation, NOMINAL, EMERGENCY

LEMMA SentType ==
  ASSUME TypeOK, Typed
  PROVE  /\ Sent \in 0 .. 4 /\ Reading \in {0, 1} /\ Len(orderMbx) \in Nat /\ Obeyed \in Int
         /\ Obeyed + Reading + Len(orderMbx) = Sent
<1>1. step \in Nat \ {0} /\ Len(orderMbx) \in Nat
  BY DEF Typed, TypeOK, OrdersTypeOK
<1>2. Sent \in 0 .. 4 /\ Reading \in {0, 1}
  BY <1>1 DEF Sent, Reading
<1> QED BY <1>1, <1>2 DEF Obeyed

(* No order is posted nor dealt with.                                       *)
LEMMA PrepStays ==
  ASSUME TypeOK, Typed, PrepInv, Quiet' => Quiet, Reading' = Reading, Sent' = Sent,
         UNCHANGED <<mission, orderMbx, input, ordered, armed>>,
         Quiet => \/ state' = state
                  \/ Obeyed = 4 /\ state' # EMERGENCY /\ (Armed' => Armed)
  PROVE  PrepInv'
<1>1. Obeyed' = Obeyed
  BY DEF Obeyed
<1>2. \A o, k : IsNth(o, k) => IsNthNext(o, k)
  BY DEF IsNth, IsNthNext
<1> SUFFICES ASSUME Quiet, Quiet'
             PROVE  /\ 0 <= Obeyed'
                    /\ Reading' = 1 => IsNthNext(input', Obeyed' + 1)
                    /\ \A j \in 1 .. Len(orderMbx') :
                         IsNthNext(orderMbx'[j], Obeyed' + Reading' + j)
                    /\ Len(ordered') = (IF Obeyed' = 4 THEN 3 ELSE Obeyed')
                    /\ \A i \in 1 .. Len(ordered') : ordered'[i] = Preparation[i]
                    /\ Obeyed' # 4 => state' = NOMINAL
                    /\ state' # EMERGENCY
                    /\ Armed' => armed'.mission = mission'
  BY PrepNext
<1>3. /\ 0 <= Obeyed
      /\ Reading = 1 => IsNth(input, Obeyed + 1)
      /\ \A j \in 1 .. Len(orderMbx) : IsNth(orderMbx[j], Obeyed + Reading + j)
      /\ Len(ordered) = (IF Obeyed = 4 THEN 3 ELSE Obeyed)
      /\ \A i \in 1 .. Len(ordered) : ordered[i] = Preparation[i]
      /\ Obeyed # 4 => state = NOMINAL
      /\ state # EMERGENCY
      /\ Armed => armed.mission = mission
  BY DEF PrepInv
<1>4. /\ Obeyed # 4 => state' = NOMINAL
      /\ state' # EMERGENCY
      /\ Armed' => Armed
  BY <1>3 DEF Armed
<1> QED BY <1>1, <1>2, <1>3, <1>4

LEMMA TurnPrep ==
  ASSUME TypeOK, Typed, Placed, PrepInv, Turn
  PROVE  PrepInv'
<1> USE DEF NOMINAL, WAITING_TIME, PROCESS_TRAJ, EMERGENCY
<1>1. (Quiet' => Quiet) /\ UNCHANGED <<mission, step>>
  BY TurnQuiet DEF Turn
<1>2. Sent' = Sent
  BY <1>1 DEF Sent
<1>3. /\ Sent \in 0 .. 4 /\ Reading \in {0, 1} /\ Len(orderMbx) \in Nat /\ Obeyed \in Int
      /\ Obeyed + Reading + Len(orderMbx) = Sent
  BY SentType
<1> SUFFICES ASSUME Quiet PROVE PrepInv'
  BY <1>1 DEF PrepInv
<1>4. /\ 0 <= Obeyed
      /\ Reading = 1 => IsNth(input, Obeyed + 1)
      /\ \A j \in 1 .. Len(orderMbx) : IsNth(orderMbx[j], Obeyed + Reading + j)
      /\ Len(ordered) = (IF Obeyed = 4 THEN 3 ELSE Obeyed)
      /\ \A i \in 1 .. Len(ordered) : ordered[i] = Preparation[i]
      /\ Obeyed # 4 => state = NOMINAL
      /\ state # EMERGENCY
      /\ Armed => armed.mission = mission
  BY DEF PrepInv
<1>5. \A o, k : IsNth(o, k) => IsNthNext(o, k)
  BY <1>1 DEF IsNth, IsNthNext
<1>6. mission \in {0} \cup DOMAIN Missions
  BY DEF Typed
<1>7. txPc = "dispatch" =>
        /\ Reading = 1 /\ Obeyed \in 0 .. 3 /\ ~IsEmergency(input) /\ state = NOMINAL
        /\ Obeyed = 3 => mission \in DOMAIN Missions /\ input = DateOrder(mission) /\ IsDate(input)
        /\ Obeyed # 3 => /\ input.id = ID_MSG_ORDER_ANTENNA /\ ~IsDate(input)
                         /\ input.frame = Preparation[Obeyed + 1]
  <2> SUFFICES ASSUME txPc = "dispatch"
               PROVE  /\ Reading = 1 /\ Obeyed \in 0 .. 3 /\ ~IsEmergency(input) /\ state = NOMINAL
                      /\ Obeyed = 3 => /\ mission \in DOMAIN Missions /\ input = DateOrder(mission)
                                       /\ IsDate(input)
                      /\ Obeyed # 3 => /\ input.id = ID_MSG_ORDER_ANTENNA /\ ~IsDate(input)
                                       /\ input.frame = Preparation[Obeyed + 1]
    OBVIOUS
  <2>1. Reading = 1
    BY DEF Reading
  <2> DEFINE k == Obeyed + 1
  <2>2. k \in Int /\ IsNth(input, k) /\ k - 1 = Obeyed
    BY <1>3, <1>4, <2>1
  <2> HIDE DEF k
  <2>3. /\ k \in 1 .. 4 /\ ~IsEmergency(input)
        /\ k = 4 => mission \in DOMAIN Missions /\ input = DateOrder(mission) /\ IsDate(input)
        /\ k \in 1 .. 3 => /\ input.id = ID_MSG_ORDER_ANTENNA /\ ~IsDate(input)
                           /\ input.frame = Preparation[k]
    BY <1>6, <2>2, NthOrder
  <2>4. k = Obeyed + 1
    BY DEF k
  <2> QED BY <1>3, <1>4, <2>1, <2>2, <2>3, <2>4
<1>8. CASE Wakes \/ FindsNothing \/ Rests
  <2>1. /\ txPc # "dispatch" /\ txPc' # "dispatch"
        /\ UNCHANGED <<orderMbx, input, state, ordered, armed>>
    BY <1>8 DEF Wakes, FindsNothing, Rests, Behaves, tracksVars
  <2>2. Reading' = Reading
    BY <2>1 DEF Reading
  <2> QED BY <1>1, <1>2, <2>1, <2>2, PrepStays
<1>9. CASE Waits \/ Plays
  <2>1. /\ txPc # "dispatch" /\ txPc' # "dispatch"
        /\ UNCHANGED <<orderMbx, input, ordered, armed>>
        /\ state # NOMINAL /\ Armed
    BY <1>9 DEF Waits, Plays, Behaves, tracksVars, Armed
  <2>2. state' # EMERGENCY
    BY <1>9, WaitingNext DEF Waits, Plays, Behaves
  <2>3. Reading' = Reading
    BY <2>1 DEF Reading
  <2> QED BY <1>1, <1>2, <1>4, <2>1, <2>2, <2>3, PrepStays
<1>10. ~SeesEmergency /\ ~Ignores
  BY <1>7 DEF SeesEmergency, Ignores, Deals, IsDate
<1>11. ~Sleeps /\ ~WakesUp
  BY <1>4 DEF Sleeps, WakesUp, Placed
<1>12. CASE Reads
  <2>1. /\ txPc = "order" /\ txPc' = "dispatch" /\ orderMbx # <<>> /\ orderMbx' = Tail(orderMbx)
        /\ input' = Head(orderMbx) /\ UNCHANGED <<state, ordered, armed>>
    BY <1>12 DEF Reads, tracksVars
  <2>2. /\ Len(orderMbx) > 0 /\ Len(orderMbx') = Len(orderMbx) - 1 /\ input' = orderMbx[1]
        /\ \A i \in 1 .. Len(orderMbx') : orderMbx'[i] = orderMbx[i + 1]
    <3>1. orderMbx \in Seq(SimpleMessage) /\ Head(orderMbx) \in SimpleMessage
      BY <2>1, QueueOps DEF TypeOK, OrdersTypeOK
    <3> QED BY <2>1, <3>1, QueueIndices
  <2>3. Reading = 0 /\ Reading' = 1 /\ Obeyed' = Obeyed
    BY <1>2, <1>3, <2>1, <2>2 DEF Reading, Obeyed
  <2>4. IsNthNext(input', Obeyed' + 1)
    <3>1. 1 \in 1 .. Len(orderMbx) /\ Obeyed + 0 + 1 = Obeyed + 1
      BY <1>3, <2>2
    <3>2. IsNth(orderMbx[1], Obeyed + 1)
      BY <1>4, <2>3, <3>1
    <3> QED BY <1>5, <2>2, <2>3, <3>2
  <2>5. ASSUME NEW j \in 1 .. Len(orderMbx')
        PROVE  IsNthNext(orderMbx'[j], Obeyed' + Reading' + j)
    <3>1. j + 1 \in 1 .. Len(orderMbx) /\ Obeyed + 0 + (j + 1) = Obeyed + 1 + j
      BY <1>3, <2>2
    <3>2. IsNth(orderMbx[j + 1], Obeyed + 1 + j)
      BY <1>4, <2>3, <3>1
    <3> QED BY <1>5, <2>2, <2>3, <3>2
  <2> QED BY <1>1, <1>4, <2>1, <2>3, <2>4, <2>5, PrepNext DEF Armed
<1>13. CASE Arms \/ Obeys
  <2>1. /\ txPc = "dispatch" /\ txPc' = "behave" /\ orderMbx' = orderMbx
        /\ state' \in {NOMINAL, WAITING_TIME}
    BY <1>13 DEF Arms, Obeys, Deals
  <2>2. Reading = 1 /\ Reading' = 0 /\ Obeyed' = Obeyed + 1
    BY <1>2, <1>3, <2>1 DEF Reading, Obeyed
  <2>3. ASSUME NEW j \in 1 .. Len(orderMbx')
        PROVE  IsNthNext(orderMbx'[j], Obeyed' + Reading' + j)
    <3>1. j \in 1 .. Len(orderMbx) /\ Obeyed + 1 + j = (Obeyed + 1) + 0 + j
      BY <1>3, <2>1
    <3>2. IsNth(orderMbx[j], Obeyed + 1 + j)
      BY <1>4, <2>2, <3>1
    <3> QED BY <1>5, <2>1, <2>2, <3>1, <3>2
  <2>4. CASE Arms
    <3>1. IsDate(input) /\ UNCHANGED ordered /\ armed'.mission = MissionAt(input.value)
      BY <2>4 DEF Arms
    <3>2. Obeyed = 3 /\ mission \in DOMAIN Missions /\ input = DateOrder(mission)
      BY <1>7, <2>1, <3>1
    <3>3. armed'.mission = mission
      BY <3>1, <3>2, DatedOrder
    <3>4. Obeyed' = 4 /\ Len(ordered) = 3
      BY <1>4, <2>2, <3>2
    <3>5. Len(ordered') = 3 /\ \A i \in 1 .. Len(ordered') : ordered'[i] = Preparation[i]
      <4>1. ordered' = ordered
        BY <3>1
      <4> QED BY <1>4, <3>4, <4>1
    <3> QED BY <1>1, <2>1, <2>2, <2>3, <3>3, <3>4, <3>5, PrepNext
  <2>5. CASE Obeys
    <3>1. input.id = ID_MSG_ORDER_ANTENNA /\ ordered' = Append(ordered, input.frame)
          /\ state' = NOMINAL
      BY <2>5 DEF Obeys, Deals
    <3>2. ~IsDate(input)
      BY <3>1 DEF IsDate, ID_MSG_ORDER_ANTENNA, ID_MSG_ORDER_DO_TRAJ_AT_DATE
    <3>3. Obeyed \in 0 .. 2 /\ input.frame = Preparation[Obeyed + 1]
      BY <1>7, <2>1, <3>2
    <3>4. Len(ordered) = Obeyed /\ ordered \in Seq(Frames) /\ input.frame \in Frames
      BY <1>4, <3>3 DEF Typed, TypeOK, TxTypeOK, SimpleMessage
    <3>5. /\ Len(ordered') = Obeyed + 1 /\ ordered'[Obeyed + 1] = Preparation[Obeyed + 1]
          /\ \A i \in 1 .. Obeyed : ordered'[i] = ordered[i]
      BY <3>1, <3>3, <3>4, QueueIndices
    <3>6. \A i \in 1 .. Len(ordered') : i \in 1 .. Obeyed \/ i = Obeyed + 1
      BY <3>3, <3>5
    <3>7. \A i \in 1 .. Len(ordered') : ordered'[i] = Preparation[i]
      BY <1>4, <3>4, <3>5, <3>6
    <3>8. 0 <= Obeyed' /\ Obeyed' # 4 /\ Len(ordered') = Obeyed' /\ ~Armed'
      BY <2>2, <3>1, <3>3, <3>5 DEF Armed
    <3> QED BY <1>1, <2>2, <2>3, <3>1, <3>7, <3>8, PrepNext
  <2> QED BY <1>13, <2>4, <2>5
<1> QED BY <1>8, <1>9, <1>10, <1>11, <1>12, <1>13 DEF Turn, Moves

LEMMA TurnDyn == ASSUME Timely, TypeOK, Dyn, Turn PROVE Dyn'
<1>1. /\ Typed /\ Placed /\ Paced /\ QueueInv /\ DateInv
      /\ LoadInv /\ PlayInv /\ PrepInv /\ Written
  BY DEF Dyn
<1>2. Typed' /\ Placed' /\ Paced' /\ QueueInv'
  BY <1>1, TurnTyped, TurnPlaced, TurnPaced, TurnQueue
<1>3. DateInv' /\ LoadInv'
  BY <1>1, TurnDates, TurnLoad
<1>4. PlayInv' /\ PrepInv' /\ Written'
  BY <1>1, TurnPlay, TurnPrep, TurnWritten
<1> QED BY <1>2, <1>3, <1>4 DEF Dyn

-----------------------------------------------------------------------------
(* The other steps.                                                         *)
LEMMA QueueKeeps ==
  ASSUME Timely, TypeOK, Typed, Placed, Paced, QueueInv, orderMbx' = orderMbx,
         Due' \in Int, Backlog' \in Int, Due' <= Due, Due' - Due + Backlog <= Backlog',
         Quiet' => Quiet
  PROVE  QueueInv'
<1>1. Due \in Int /\ Backlog \in Int /\ Quiet \in BOOLEAN
  BY TimeFacts
<1>2. PICK e \in Nat : Queued(orderMbx, e, Due, Backlog, Quiet)
  BY DEF QueueInv
<1> DEFINE d == Due'
           b == Backlog'
           quiet == Quiet'
<1>3. /\ d \in Int /\ b \in Int /\ d <= Due /\ d - Due + Backlog <= b /\ (quiet => Quiet)
      /\ quiet \in BOOLEAN /\ orderMbx \in Seq(SimpleMessage)
  BY DEF Quiet, Undisturbed, Prompt, TypeOK, OrdersTypeOK
<1>4. QueueInv' <=> \E f \in Nat : Queued(orderMbx, f, d, b, quiet)
  BY DEF QueueInv
<1> HIDE DEF d, b, quiet
<1>5. Queued(orderMbx, e, d, b, quiet)
  BY <1>1, <1>2, <1>3, QueuedSame
<1> QED BY <1>4, <1>5

LEMMA ThreadStays ==
  ASSUME UNCHANGED <<rtc, threadVars>>
  PROVE  UNCHANGED <<NextRead, Coming, Reading>> /\ (Armed' <=> Armed)
BY DEF threadVars, NextRead, Coming, Reading, Armed

LEMMA KeptLater ==
  ASSUME Earliest \in Int, Earliest' \in Int, Earliest <= Earliest', Loading' => Loading,
         UNCHANGED nb_point
  PROVE  \A m \in DOMAIN Missions : Kept(m) => Kept(m)'
<1> SUFFICES ASSUME NEW m \in DOMAIN Missions, Kept(m) PROVE Kept(m)'
  OBVIOUS
<1>1. Ending(m) + 2 * Gap \in Int
  BY MissionFacts, ConstantTypes
<1>2. ~Loading' /\ Earliest' >= Ending(m) + 2 * Gap /\ nb_point' = Duration(m) + 1
  BY <1>1 DEF Kept
<1> QED BY <1>2 DEF Kept

LEMMA QueuedNoDates ==
  ASSUME \A i \in 1 .. Len(orderMbx') : ~IsDate(orderMbx'[i]), ~IsDate(input')
  PROVE  DateInv'
BY DatesNext

(* An order that is no date is posted.                                      *)
LEMMA DatesPosted ==
  ASSUME TypeOK, DateInv, ~IsDate(input), UNCHANGED <<table, arrived, input>>,
         Armed' => Armed, \A m \in DOMAIN Missions : Kept(m) => Kept(m)', Posted
  PROVE  DateInv'
<1>1. \A o : Given(o) => GivenNext(o)
  BY GivenStays
<1>2. orderMbx \in Seq(SimpleMessage) /\ Len(orderMbx) \in Nat
  BY DEF TypeOK, OrdersTypeOK
<1>3. SurvivalOrder \in SimpleMessage /\ ~IsDate(SurvivalOrder)
  BY FrameTypes DEF SurvivalOrder, Message, SimpleMessage, Byte, IsDate, ID_MSG_ORDER_SURVIE,
     ID_MSG_ORDER_DO_TRAJ_AT_DATE
<1>4. CASE orderMbx' = <<SurvivalOrder>> \o orderMbx
  <2>1. /\ Len(orderMbx') = Len(orderMbx) + 1 /\ orderMbx'[1] = SurvivalOrder
        /\ \A i \in 2 .. (Len(orderMbx) + 1) : orderMbx'[i] = orderMbx[i - 1]
    BY <1>2, <1>3, <1>4, QueueIndices
  <2>2. \A i \in 1 .. Len(orderMbx') :
          \/ i = 1
          \/ i \in 2 .. (Len(orderMbx) + 1) /\ i - 1 \in 1 .. Len(orderMbx)
    BY <1>2, <2>1
  <2>3. \A i \in 1 .. Len(orderMbx') :
          IsDate(orderMbx'[i]) => /\ i \in Int /\ i - 1 \in 1 .. Len(orderMbx)
                                  /\ orderMbx'[i] = orderMbx[i - 1]
    BY <1>3, <2>1, <2>2
  <2>4. ASSUME NEW i \in 1 .. Len(orderMbx'), IsDate(orderMbx'[i])
        PROVE  /\ GivenNext(orderMbx'[i]) /\ ~IsDate(input')
               /\ \A j \in 1 .. Len(orderMbx') : IsDate(orderMbx'[j]) => j = i
    <3>1. i - 1 \in 1 .. Len(orderMbx) /\ orderMbx'[i] = orderMbx[i - 1]
      BY <2>3, <2>4
    <3>2. Given(orderMbx[i - 1])
      BY <2>4, <3>1 DEF DateInv
    <3>3. \A j \in 1 .. Len(orderMbx) : IsDate(orderMbx[j]) => j = i - 1
      BY <2>4, <3>1 DEF DateInv
    <3>4. ASSUME NEW j \in 1 .. Len(orderMbx'), IsDate(orderMbx'[j]) PROVE j = i
      <4>1. j - 1 = i - 1 /\ i \in Int /\ j \in Int
        BY <2>3, <2>4, <3>3, <3>4
      <4> QED BY <4>1
    <3> QED BY <1>1, <3>1, <3>2, <3>4
  <2> QED BY <2>4, DatesNext
<1>5. ASSUME NEW o \in SimpleMessage, ~IsDate(o), orderMbx' = Append(orderMbx, o)
      PROVE  DateInv'
  <2>1. /\ Len(orderMbx') = Len(orderMbx) + 1 /\ orderMbx'[Len(orderMbx) + 1] = o
        /\ \A i \in 1 .. Len(orderMbx) : orderMbx'[i] = orderMbx[i]
    BY <1>2, <1>5, QueueIndices
  <2>2. \A i \in 1 .. Len(orderMbx') : i \in 1 .. Len(orderMbx) \/ i = Len(orderMbx) + 1
    BY <1>2, <2>1
  <2>3. \A i \in 1 .. Len(orderMbx') :
          IsDate(orderMbx'[i]) => i \in 1 .. Len(orderMbx) /\ orderMbx'[i] = orderMbx[i]
    BY <1>5, <2>1, <2>2
  <2>4. ASSUME NEW i \in 1 .. Len(orderMbx'), IsDate(orderMbx'[i])
        PROVE  /\ GivenNext(orderMbx'[i]) /\ ~IsDate(input')
               /\ \A j \in 1 .. Len(orderMbx') : IsDate(orderMbx'[j]) => j = i
    <3>1. i \in 1 .. Len(orderMbx) /\ orderMbx'[i] = orderMbx[i]
      BY <2>3, <2>4
    <3>2. Given(orderMbx[i])
      BY <2>4, <3>1 DEF DateInv
    <3>3. \A j \in 1 .. Len(orderMbx) : IsDate(orderMbx[j]) => j = i
      BY <2>4, <3>1 DEF DateInv
    <3> QED BY <1>1, <2>3, <3>1, <3>2, <3>3
  <2> QED BY <2>4, DatesNext
<1> QED BY <1>4, <1>5 DEF Posted

LEMMA DynStays ==
  ASSUME Dyn,
         UNCHANGED <<mission, step, wake, rtc, slips, faults, threadVars, orderMbx, keptVars>>
  PROVE  Dyn'
<1>1. UNCHANGED threadVars
  OBVIOUS
<1>2. /\ UNCHANGED <<mission, step, wake, rtc, slips, faults, orderMbx>>
      /\ UNCHANGED <<txPc, input, state, pulse, slept>>
      /\ UNCHANGED <<trajVars, ordered, arrived, armed, played>>
  BY DEF threadVars, keptVars
<1>3. UNCHANGED <<NextRead, Coming, Reading>> /\ (Armed' <=> Armed)
  BY <1>1, ThreadStays
<1>4. UNCHANGED <<Backlog, Earliest, Sent, Margin, Progress>> /\ (Loading' <=> Loading)
      /\ (Losing' <=> Losing) /\ (Quiet' <=> Quiet)
  BY <1>2 DEF Backlog, Earliest, Sent, Margin, Progress, trajVars, Loading, Losing, Quiet, Prompt,
     Undisturbed, Late
<1>5. Due' = Due
  BY <1>2, <1>3 DEF Due, Spent
<1>6. Obeyed' = Obeyed
  BY <1>2, <1>3, <1>4 DEF Obeyed
<1>7. \A m : Kept(m) <=> /\ ~Loading' /\ Earliest' >= Ending(m) + 2 * Gap
                         /\ nb_point' = Duration(m) + 1
  BY <1>2, <1>4 DEF Kept, trajVars
<1>8. Typed' /\ Placed' /\ Paced'
  BY <1>2, <1>4 DEF Dyn, Typed, Placed, Paced
<1>9. QueueInv'
  <2>1. PICK e \in Nat : Queued(orderMbx, e, Due, Backlog, Quiet)
    BY DEF Dyn, QueueInv
  <2>2. Queued(orderMbx', e, Due', Backlog', Quiet')
    BY <1>2, <1>4, <1>5, <2>1 DEF Queued, InTime
  <2> QED BY <2>2 DEF QueueInv
<1>10. DateInv'
  <2>1. \A o : Given(o) => GivenNext(o)
    BY <1>2, <1>3, <1>7 DEF Given, GivenNext, Kept, Tabled, trajVars
  <2> QED BY <1>2, <1>4, <2>1, DatesNext DEF Dyn, DateInv
<1>11. LoadInv'
  BY <1>2, <1>4 DEF Dyn, LoadInv, Tabled, trajVars
<1>12. PlayInv'
  BY <1>2, <1>3, <1>4, <1>7 DEF Dyn, PlayInv, Kept, Tabled, trajVars
<1>13. PrepInv'
  BY <1>2, <1>3, <1>4, <1>6 DEF Dyn, PrepInv, IsNth
<1>14. Written'
  BY <1>2 DEF Dyn, Written
<1> QED BY <1>8, <1>9, <1>10, <1>11, <1>12, <1>13, <1>14 DEF Dyn

LEMMA LogsDyn == ASSUME Dyn, SendLogs, Running' PROVE Dyn'
BY LogsEffects, DynStays

(* The thread waits: it has read nothing.                                   *)
LEMMA FreeFacts ==
  ASSUME CpuFree, Placed
  PROVE  /\ input = NoInput /\ ~IsDate(input) /\ ~IsEmergency(input) /\ Reading = 0
         /\ txPc # "order" /\ txPc # "behave" /\ txPc # "dispatch"
         /\ \/ txPc = "pps" /\ state # EMERGENCY /\ slept = 0
            \/ txPc = "survival" /\ state = EMERGENCY /\ ~Armed /\ ~pulse
<1>1. /\ txPc \in {"pps", "survival"} /\ input = NoInput
      /\ txPc = "survival" => state = EMERGENCY /\ ~pulse
      /\ txPc = "pps" => state # EMERGENCY /\ slept = 0
  BY DEF CpuFree, Placed
<1>2. ~IsDate(input)
  BY <1>1 DEF IsDate, NoInput, Message, ID_MSG_ORDER_DO_TRAJ_AT_DATE
<1>3. Reading = 0
  BY <1>1 DEF Reading
<1>4. state = EMERGENCY => ~Armed
  BY DEF Armed, EMERGENCY, WAITING_TIME, PROCESS_TRAJ
<1> QED BY <1>1, <1>2, <1>3, <1>4, NoInputNoEmergency

LEMMA SecondDyn == ASSUME Timely, TypeOK, Dyn, Second PROVE Dyn'
<1>1. /\ Typed /\ Placed /\ Paced /\ QueueInv /\ DateInv
      /\ LoadInv /\ PlayInv /\ PrepInv /\ Written
  BY DEF Dyn
<1>2. /\ CpuFree /\ ~pulse /\ (Executing => rtc <= wake) /\ rtc' = rtc + 1
      /\ slept' = (IF txPc = "survival" THEN slept + 1 ELSE slept)
      /\ txPc = "survival" => slept < Nap
      /\ \/ (pulse' <=> txPc = "pps") /\ slips' = slips
         \/ ~pulse' /\ txPc = "pps" /\ slips < MaxSlips /\ slips' = slips + 1
      /\ UNCHANGED <<mission, step, wake, faults, txPc, input, state, orderMbx>>
      /\ UNCHANGED keptVars
  BY SecondEffects
<1>3. UNCHANGED <<trajVars, ordered, arrived, armed, played>>
  BY <1>2 DEF keptVars
<1>4. /\ rtc \in Nat /\ Spent \in Nat /\ Due \in Int /\ Due + Spent = NextRead
      /\ Backlog \in Nat /\ Earliest \in Int /\ NextRead \in Nat
      /\ slips \in Nat /\ slips <= MaxSlips
      /\ Gap \in Nat /\ Nap \in Nat /\ MaxSlips \in Nat /\ slept \in 0 .. Nap
      /\ step \in Nat /\ wake \in Nat /\ mission \in {0} \cup DOMAIN Missions
  BY <1>1, TimeFacts, ConstantTypes DEF Typed
<1>5. /\ input = NoInput /\ ~IsDate(input) /\ ~IsEmergency(input)
      /\ txPc # "order" /\ txPc # "behave" /\ txPc # "dispatch"
      /\ \/ txPc = "pps" /\ state # EMERGENCY /\ slept = 0
         \/ txPc = "survival" /\ state = EMERGENCY /\ ~Armed
  BY <1>1, <1>2, FreeFacts
<1>6. Quiet' => Quiet
  BY <1>2, <1>4, QuietStays
<1>7. Typed'
  <2>1. slept' \in 0 .. Nap /\ slips' \in 0 .. MaxSlips
    BY <1>2, <1>4
  <2> QED BY <1>1, <1>2, <1>3, <2>1 DEF Typed
<1>8. Placed'
  BY <1>1, <1>2, <1>5 DEF Placed
<1>9. Paced'
  <2>1. Margin' = Margin
    BY <1>2 DEF Margin
  <2>2. mission # 0 /\ step <= DateStep(mission) => rtc <= wake
    BY <1>2, <1>4, ScriptParts DEF Executing
  <2>3. mission # 0 =>
          /\ wake <= rtc + 1 + (IF step = 1 THEN 0 ELSE Gap)
          /\ step <= DateStep(mission) => rtc + 1 <= wake + 1
    BY <1>1, <1>4, <2>2 DEF Paced
  <2> QED BY <1>1, <1>2, <2>1, <2>3 DEF Paced
<1>10. Due' = Due
  <2>1. Spent' = Spent + (slips' - slips)
    BY <1>2, <1>4 DEF Spent
  <2>2. NextRead' = NextRead + (slips' - slips)
    <3>1. CASE txPc = "pps"
      <4>1. NextRead = rtc + 1
        BY <1>2, <1>4, <1>5, <3>1 DEF NextRead, EMERGENCY
      <4>2. NextRead' = rtc' + (IF pulse' THEN 0 ELSE 1)
        BY <1>2, <1>5, <3>1 DEF NextRead
      <4> QED BY <1>2, <1>4, <3>1, <4>1, <4>2
    <3>2. CASE txPc = "survival"
      <4>1. NextRead = rtc + (Nap + 1 - slept) /\ slips' = slips /\ ~pulse'
        BY <1>2, <1>4, <1>5, <3>2 DEF NextRead
      <4>2. NextRead' = rtc' + (Nap + 1 - slept')
        BY <1>2, <1>5, <3>2, <4>1 DEF NextRead
      <4> QED BY <1>2, <1>4, <3>2, <4>1, <4>2
    <3> QED BY <1>5, <3>1, <3>2
  <2>3. Due' = NextRead' - Spent'
    BY DEF Due
  <2> DEFINE d == slips' - slips
  <2>4. d \in Int /\ NextRead' = NextRead + d /\ Spent' = Spent + d
    BY <1>2, <1>4, <2>1, <2>2
  <2> HIDE DEF d
  <2>5. Due' = (NextRead + d) - (Spent + d) /\ Due = NextRead - Spent
    BY <2>3, <2>4 DEF Due
  <2> QED BY <1>4, <2>4, <2>5
<1>11. Backlog' \in Int /\ Backlog <= Backlog'
  BY <1>2, <1>4 DEF Backlog
<1>12. QueueInv'
  <2>1. Due' \in Int /\ Due' <= Due /\ Due' - Due + Backlog <= Backlog'
    BY <1>4, <1>10, <1>11
  <2> QED BY <1>1, <1>2, <1>6, <1>11, <2>1, QueueKeeps
<1>13. \A m \in DOMAIN Missions : Kept(m) => Kept(m)'
  <2>1. Earliest' \in Int /\ Earliest <= Earliest'
    <3>1. CASE mission = 0
      BY <1>2, <1>4, <3>1 DEF Earliest
    <3>2. CASE mission # 0
      <4>1. Earliest' = Earliest
        BY <1>2, <3>2 DEF Earliest
      <4> QED BY <1>4, <4>1
    <3> QED BY <3>1, <3>2
  <2>2. Loading' => Loading
    BY <1>2 DEF Loading
  <2> QED BY <1>3, <1>4, <2>1, <2>2, KeptLater DEF trajVars
<1>14. DateInv'
  <2>1. Armed' => Armed
    BY <1>2 DEF Armed
  <2>2. ~IsDate(input')
    BY <1>2, <1>5
  <2> QED BY <1>1, <1>2, <1>3, <1>13, <2>1, <2>2, DatesStay DEF trajVars
<1>15. LoadInv'
  BY <1>1, <1>2, <1>3 DEF LoadInv, Loading, Losing, Tabled, trajVars
<1>16. PlayInv'
  <2>1. CASE txPc = "survival"
    BY <1>2, <1>5, <2>1 DEF PlayInv, Armed
  <2>2. CASE txPc = "pps"
    <3>1. Coming = 0 /\ Coming' = (IF pulse' THEN 1 ELSE 0)
      BY <1>2, <2>2 DEF Coming
    <3>2. rtc' \in Nat /\ slips' \in Nat /\ rtc' - slips' - Coming' <= rtc - slips - Coming
      BY <1>2, <1>4, <2>2, <3>1
    <3> QED BY <1>1, <1>2, <1>3, <1>5, <1>6, <1>13, <3>2, PlayStays
  <2> QED BY <1>5, <2>1, <2>2
<1>17. PrepInv'
  <2>1. Reading' = Reading /\ Sent' = Sent
    BY <1>2 DEF Reading, Sent
  <2> QED BY <1>1, <1>2, <1>3, <1>6, <2>1, PrepStays
<1>18. Written'
  BY <1>1, <1>3 DEF Written
<1> QED BY <1>7, <1>8, <1>9, <1>12, <1>14, <1>15, <1>16, <1>17, <1>18 DEF Dyn

LEMMA InterfereDyn == ASSUME Timely, TypeOK, Dyn, Interferes, Running' PROVE Dyn'
<1>1. /\ Typed /\ Placed /\ Paced /\ QueueInv /\ DateInv
      /\ LoadInv /\ PlayInv /\ PrepInv /\ Written
  BY DEF Dyn
<1>2. /\ CpuFree /\ Posted /\ UNCHANGED <<mission, step, wake, rtc, slips>>
      /\ UNCHANGED threadVars /\ UNCHANGED keptVars
      /\ \E kind \in {"button", "command"} :
           kind \in Faults \ faults /\ faults' = faults \cup {kind}
  BY InterfereEffects
<1>3. /\ UNCHANGED <<txPc, input, state, pulse, slept>>
      /\ UNCHANGED <<trajVars, ordered, arrived, armed, played>>
  BY <1>2 DEF threadVars, keptVars
<1>4. /\ rtc \in Nat /\ Spent \in Nat /\ Due \in Int /\ Due + Spent = NextRead
      /\ Backlog \in Nat /\ Earliest \in Int /\ NextRead \in Nat
      /\ slips \in Nat /\ Nap \in Nat /\ Quiet \in BOOLEAN
      /\ orderMbx \in Seq(SimpleMessage)
  BY <1>1, TimeFacts, ConstantTypes DEF TypeOK, OrdersTypeOK
<1>5. ~IsDate(input) /\ txPc # "behave"
  BY <1>1, <1>2, FreeFacts
<1>6. UNCHANGED <<NextRead, Coming, Reading>> /\ (Armed' <=> Armed)
  BY <1>2, ThreadStays
<1>7. ~Quiet' /\ (Losing' <=> Losing) /\ UNCHANGED Margin
  BY <1>2 DEF Quiet, Undisturbed, Losing, Margin
<1>8. UNCHANGED <<Backlog, Earliest>> /\ (Loading' <=> Loading)
      /\ \A m \in DOMAIN Missions : Kept(m) => Kept(m)'
  BY <1>2, <1>3, ClientStays DEF trajVars
<1>9. Typed' /\ Placed' /\ Paced'
  BY <1>1, <1>2, <1>3, <1>7 DEF Typed, Placed, Paced
<1>10. QueueInv'
  <2> DEFINE d == Due - (Nap + 1)
  <2>1. Due' = d
    <3>1. \/ /\ "button" \notin faults /\ "button" \in faults'
             /\ \A k \in {"command", "restart"} : k \in faults' <=> k \in faults
          \/ /\ "command" \notin faults /\ "command" \in faults'
             /\ \A k \in {"button", "restart"} : k \in faults' <=> k \in faults
      BY <1>2
    <3>2. Spent' = Spent + (Nap + 1)
      BY <1>2, <1>4, <3>1, ConstantTypes DEF Spent
    <3>3. Due' = NextRead' - Spent' /\ Due = NextRead - Spent
      BY DEF Due
    <3> QED BY <1>4, <1>6, <3>2, <3>3
  <2>2. PICK e \in Nat : Queued(orderMbx, e, Due, Backlog, Quiet)
    BY <1>1 DEF QueueInv
  <2>3. d \in Int /\ d <= Due /\ Backlog - Due + 1 <= Backlog - d /\ Backlog \in Int
    BY <1>4
  <2>4. ASSUME NEW f \in Nat, NEW q \in Seq(SimpleMessage), orderMbx' = q,
               Queued(q, f, d, Backlog, FALSE)
        PROVE  QueueInv'
    <3> DEFINE quiet == Quiet'
    <3>1. quiet \in BOOLEAN /\ ~quiet
      BY <1>7 DEF Quiet, Undisturbed, Prompt
    <3>2. QueueInv' <=> \E g \in Nat : Queued(q, g, d, Backlog, quiet)
      BY <1>8, <2>1, <2>4 DEF QueueInv
    <3> HIDE DEF quiet, d
    <3>3. Queued(q, f, d, Backlog, quiet)
      BY <2>3, <2>4, <3>1, QueuedSame
    <3> QED BY <3>2, <3>3
  <2>5. CASE orderMbx' = <<SurvivalOrder>> \o orderMbx
    <3>1. SurvivalOrder \in SimpleMessage /\ IsEmergency(SurvivalOrder)
      BY FrameTypes DEF SurvivalOrder, Message, SimpleMessage, Byte, IsEmergency, ID_MSG_ORDER_SURVIE
    <3> DEFINE q == <<SurvivalOrder>> \o orderMbx
    <3>2. Queued(q, e + 1, Due - (Nap + 1), Backlog, FALSE)
      BY <1>4, <2>2, <2>3, <3>1, QueuedPush, Zenon
    <3>3. e + 1 \in Nat /\ q \in Seq(SimpleMessage)
      BY <1>4, <3>1, QueueOps
    <3> HIDE DEF q
    <3>4. orderMbx' = q
      BY <2>5 DEF q
    <3> QED BY <2>4, <3>2, <3>3, <3>4
  <2>6. ASSUME NEW o \in SimpleMessage, ~IsEmergency(o), ~IsDate(o),
               orderMbx' = Append(orderMbx, o)
        PROVE  QueueInv'
    <3>1. InTime(o, d - Due + Backlog + 1, FALSE)
      BY <2>6, DatedOrder DEF InTime
    <3> HIDE DEF d
    <3>2. Queued(Append(orderMbx, o), e, d, Backlog, FALSE)
      BY <1>4, <2>2, <2>3, <2>6, <3>1, QueuedAppend
    <3>3. Append(orderMbx, o) \in Seq(SimpleMessage)
      BY <1>4
    <3> QED BY <2>6, <2>4, <3>2, <3>3 DEF d
  <2> QED BY <1>2, <2>5, <2>6 DEF Posted
<1>11. DateInv'
  BY <1>1, <1>2, <1>3, <1>5, <1>6, <1>8, DatesPosted DEF trajVars
<1>12. LoadInv'
  BY <1>1, <1>2, <1>3, <1>7 DEF LoadInv, Loading, Tabled, trajVars
<1>13. PlayInv'
  <2>1. rtc' \in Nat /\ slips' \in Nat /\ rtc' - slips' - Coming' <= rtc - slips - Coming
    <3>1. Coming \in {0, 1}
      BY DEF Coming
    <3> QED BY <1>2, <1>4, <1>6, <3>1
  <2> QED BY <1>1, <1>3, <1>5, <1>7, <1>8, <2>1, PlayStays
<1>14. PrepInv' /\ Written'
  BY <1>1, <1>3, <1>7 DEF PrepInv, Written
<1> QED BY <1>9, <1>10, <1>11, <1>12, <1>13, <1>14 DEF Dyn

LEMMA RestartDyn == ASSUME Timely, TypeOK, Dyn, ClientRestarts PROVE Dyn'
<1>1. /\ Typed /\ Placed /\ Paced /\ QueueInv /\ DateInv
      /\ LoadInv /\ PlayInv /\ PrepInv /\ Written
  BY DEF Dyn
<1>2. /\ Executing /\ mission' = 0 /\ step' = 1 /\ wake' = 0
      /\ "restart" \in Faults \ faults /\ faults' = faults \cup {"restart"}
      /\ UNCHANGED <<rtc, slips, orderMbx>> /\ UNCHANGED threadVars /\ UNCHANGED keptVars
  BY RestartEffects
<1>3. /\ UNCHANGED <<txPc, input, state, pulse, slept>>
      /\ UNCHANGED <<trajVars, ordered, arrived, armed, played>>
  BY <1>2 DEF threadVars, keptVars
<1>4. /\ rtc \in Nat /\ Spent \in Nat /\ Due \in Int /\ Due + Spent = NextRead
      /\ Backlog \in Nat /\ Earliest \in Int /\ NextRead \in Nat
      /\ slips \in Nat /\ Gap \in Nat /\ Nap \in Nat
  BY <1>1, TimeFacts, ConstantTypes
<1>5. /\ mission \in DOMAIN Missions /\ step \in Nat \ {0} /\ wake \in Nat
      /\ step <= DateStep(mission) /\ mission # 0
      /\ wake <= rtc + (IF step = 1 THEN 0 ELSE Gap)
  <2>1. mission \in DOMAIN Missions /\ step \in Nat \ {0} /\ mission # 0 /\ wake \in Nat
    BY <1>1, <1>2 DEF Executing, Typed
  <2> QED BY <1>1, <1>2, <2>1, ScriptParts DEF Executing, Paced
<1>6. UNCHANGED <<NextRead, Coming, Reading>> /\ (Armed' <=> Armed)
  BY <1>2, ThreadStays
<1>7. ~Quiet' /\ ~Loading'
  BY <1>2 DEF Quiet, Undisturbed, Loading
<1>8. Typed' /\ Placed' /\ Paced'
  BY <1>1, <1>2, <1>3 DEF Typed, Placed, Paced
<1>9. QueueInv'
  <2>1. Due' = Due - (Gap + 2)
    <3>1. \A k \in {"button", "command"} : k \in faults' <=> k \in faults
      BY <1>2
    <3>2. Spent' = Spent + (Gap + 2)
      BY <1>2, <1>4, <3>1 DEF Spent
    <3>3. Due' = NextRead' - Spent' /\ Due = NextRead - Spent
      BY DEF Due
    <3> QED BY <1>4, <1>6, <3>2, <3>3
  <2>2. Backlog' = rtc
    BY <1>2 DEF Backlog
  <2>3. Backlog <= rtc + Gap + 2
    BY <1>4, <1>5 DEF Backlog
  <2>4. Due' \in Int /\ Backlog' \in Int /\ Due' <= Due /\ Due' - Due + Backlog <= Backlog'
    BY <1>4, <2>1, <2>2, <2>3
  <2> QED BY <1>1, <1>2, <1>7, <2>4, QueueKeeps
<1>10. \A m \in DOMAIN Missions : Kept(m) => Kept(m)'
  <2>1. CASE Loading
    BY <2>1 DEF Kept
  <2>2. CASE ~Loading
    <3>1. step <= 4
      BY <1>5, <2>2 DEF Loading
    <3>2. Earliest' = rtc + 2 * Gap
      BY <1>2 DEF Earliest
    <3>3. Earliest' \in Int /\ Earliest <= Earliest'
      BY <1>4, <1>5, <3>1, <3>2 DEF Earliest
    <3> QED BY <1>3, <1>4, <1>7, <3>3, KeptLater DEF trajVars
  <2> QED BY <2>1, <2>2
<1>11. DateInv'
  <2>1. ~Quiet' /\ UNCHANGED <<rtc, slips, orderMbx, input, table, arrived>>
    BY <1>2, <1>3, <1>7 DEF trajVars
  <2> QED BY <1>1, <1>6, <1>10, <2>1, DatesStay
<1>12. LoadInv'
  BY <1>7 DEF LoadInv
<1>13. PlayInv'
  <2>1. rtc' \in Nat /\ slips' \in Nat /\ rtc' - slips' - Coming' <= rtc - slips - Coming
    <3>1. Coming \in {0, 1}
      BY DEF Coming
    <3> QED BY <1>2, <1>4, <1>6, <3>1
  <2> QED BY <1>1, <1>3, <1>7, <1>10, <2>1, PlayStays
<1>14. PrepInv' /\ Written'
  BY <1>1, <1>3, <1>7 DEF PrepInv, Written
<1> QED BY <1>8, <1>9, <1>11, <1>12, <1>13, <1>14 DEF Dyn

(* A client that has slept until the end of a pass: undisturbed, it finds   *)
(* the antenna thread idle and nothing in its queue.                        *)
LEMMA IdleWhenAwake ==
  ASSUME Timely, TypeOK, Dyn, Awake, Quiet
  PROVE  /\ orderMbx = <<>> /\ Len(orderMbx) = 0 /\ Reading = 0 /\ state = NOMINAL
<1> USE DEF NOMINAL, WAITING_TIME, PROCESS_TRAJ, EMERGENCY
<1>1. /\ Typed /\ Placed /\ Paced /\ QueueInv /\ DateInv /\ PlayInv /\ PrepInv
  BY DEF Dyn
<1>2. /\ rtc \in Nat /\ NextRead \in Nat /\ rtc <= NextRead /\ Due \in Int
      /\ Due + slips = NextRead /\ slips \in Nat /\ slips <= 2
      /\ Backlog \in Nat /\ Spent = slips
  BY <1>1, TimeFacts
<1>3. /\ Sent \in 0 .. 4 /\ Reading \in {0, 1} /\ Len(orderMbx) \in Nat /\ Obeyed \in Int
      /\ Obeyed + Reading + Len(orderMbx) = Sent
  BY <1>1, SentType
<1>4. /\ 0 <= Obeyed
      /\ Reading = 1 => IsNth(input, Obeyed + 1)
      /\ \A j \in 1 .. Len(orderMbx) : IsNth(orderMbx[j], Obeyed + Reading + j)
      /\ Obeyed # 4 => state = NOMINAL
      /\ state # EMERGENCY
      /\ Armed => armed.mission = mission
  BY <1>1 DEF PrepInv
<1>5. state \in States
  BY DEF TypeOK, TxTypeOK
<1>6. Len(orderMbx) = 0 /\ Reading = 0 /\ state = NOMINAL
  <2>1. CASE mission = 0
    <3>1. Sent = 0
      BY <1>1, <2>1 DEF Paced, Sent
    <3> QED BY <1>3, <1>4, <3>1
  <2>2. CASE mission # 0
    <3>1. mission \in DOMAIN Missions /\ rtc >= Ending(mission) /\ step = DateStep(mission) + 1
      <4>1. mission \in DOMAIN Missions /\ step \in Nat
        BY <1>1, <2>2 DEF Typed
      <4>2. DateStep(mission) \in Nat /\ Len(Script(mission)) = DateStep(mission)
        BY <4>1, ScriptParts, MissionFacts DEF DateStep
      <4>3. step <= DateStep(mission) + 1
        BY <1>1, <2>2 DEF Paced
      <4> QED BY <2>2, <4>1, <4>2, <4>3 DEF Awake, Executing
    <3>2. /\ Beginning(mission) \in Nat /\ Duration(mission) \in Nat \ {0}
          /\ Ending(mission) = Beginning(mission) + Duration(mission) - 1
          /\ rtc >= Ending(mission)
      BY <3>1, MissionFacts
    <3>3. Sent = 4
      BY <2>2, <3>1, <3>2 DEF Sent, DateStep
    <3>4. ASSUME Len(orderMbx) # 0 PROVE FALSE
      <4> DEFINE n == Len(orderMbx)
      <4>1. n \in 1 .. Len(orderMbx) /\ Obeyed + Reading + n = 4
        BY <1>3, <3>3, <3>4
      <4>2. IsNth(orderMbx[n], 4)
        BY <1>4, <4>1
      <4>3. orderMbx[n] = DateOrder(mission)
        BY <4>2 DEF IsNth
      <4>4. PICK e \in Nat : Queued(orderMbx, e, Due, Backlog, Quiet)
        BY <1>1 DEF QueueInv
      <4>5. InTime(orderMbx[n], Due + n - 1 + Cost(e), Quiet)
        BY <4>1, <4>4 DEF Queued
      <4>6. Due + n - 1 + Cost(e) <= Beginning(mission) - 4
        BY <3>1, <4>3, <4>5 DEF InTime
      <4>7. n \in Nat /\ 1 <= n
        BY <1>3, <4>1
      <4>8. Cost(e) \in Nat
        BY Costs
      <4> HIDE DEF n
      <4> QED BY <1>2, <3>2, <4>6, <4>7, <4>8
    <3>5. ASSUME Reading # 0 PROVE FALSE
      <4>1. Obeyed + 1 = 4 /\ Reading = 1
        BY <1>3, <3>3, <3>4, <3>5
      <4>2. IsNth(input, 4)
        BY <1>4, <4>1
      <4>3. input = DateOrder(mission)
        BY <4>2 DEF IsNth
      <4>4. IsDate(input)
        BY <3>1, <4>3, DatedOrder
      <4>5. rtc <= Beginning(mission) - 4 + slips
        BY <1>1, <3>1, <4>3, <4>4 DEF DateInv
      <4> QED BY <1>2, <3>2, <4>5
    <3>6. ASSUME Armed PROVE FALSE
      <4>1. /\ Progress \in Nat /\ Progress < nb_point /\ Coming \in {0, 1}
            /\ nb_point = Duration(armed.mission) + 1
        BY <1>1, <3>6, PlayFacts
      <4>2. /\ init_date = Beginning(armed.mission)
            /\ rtc <= init_date - 5 + Progress + slips + Coming
        BY <1>1, <3>6 DEF PlayInv
      <4>3. armed.mission = mission
        BY <1>4, <3>6
      <4>4. /\ rtc <= Beginning(mission) - 5 + Progress + slips + Coming
            /\ Progress < Duration(mission) + 1
        BY <4>1, <4>2, <4>3
      <4> QED BY <1>2, <3>2, <4>1, <4>4
    <3> QED BY <1>4, <1>5, <3>4, <3>5, <3>6 DEF States, Armed
  <2> QED BY <2>1, <2>2
<1>7. orderMbx = <<>>
  BY <1>6 DEF TypeOK, OrdersTypeOK
<1> QED BY <1>6, <1>7

LEMMA StartDyn == ASSUME Timely, TypeOK, Dyn, StartMission PROVE Dyn'
<1>1. /\ Typed /\ Placed /\ Paced /\ QueueInv /\ DateInv
      /\ LoadInv /\ PlayInv /\ PrepInv /\ Written
  BY DEF Dyn
<1>2. /\ Awake /\ mission' \in DOMAIN Missions
      /\ Beginning(mission') - rtc \in Margin .. (PREPARATION_TIME - 1)
      /\ step' = 1 /\ wake' = rtc /\ ordered' = <<>>
      /\ UNCHANGED <<rtc, slips, faults, orderMbx, trajVars, arrived, armed, played>>
      /\ UNCHANGED threadVars
  BY StartEffects
<1>3. UNCHANGED <<txPc, input, state, pulse, slept>>
  BY <1>2 DEF threadVars
<1>4. /\ rtc \in Nat /\ Spent \in Nat /\ Due \in Int /\ Due + Spent = NextRead
      /\ Backlog \in Nat /\ Earliest \in Int /\ NextRead \in Nat
      /\ slips \in Nat /\ Gap \in Nat /\ Nap \in Nat /\ MaxSlips \in Nat
      /\ Margin \in Nat \ {0} /\ wake \in Nat /\ step \in Nat \ {0}
  BY <1>1, TimeFacts, ConstantTypes DEF Typed
<1>5. UNCHANGED <<NextRead, Coming, Reading>> /\ (Armed' <=> Armed)
  BY <1>2, ThreadStays
<1>6. mission' \in Nat \ {0} /\ Beginning(mission') \in Nat
      /\ rtc + Margin <= Beginning(mission') /\ PREPARATION_TIME \in Nat
  <2>1. mission' \in Nat \ {0} /\ Beginning(mission') \in Nat /\ PREPARATION_TIME \in Nat
    BY <1>2, MissionFacts, ClientAssumption
  <2> QED BY <1>2, <1>4, <2>1
<1>7. mission # 0 =>
        /\ mission \in DOMAIN Missions /\ step = DateStep(mission) + 1 /\ rtc >= Ending(mission)
        /\ Ending(mission) \in Int /\ wake + 8 <= Ending(mission) /\ DateStep(mission) \in Nat
        /\ DateStep(mission) >= 8
  <2> SUFFICES ASSUME mission # 0
               PROVE  /\ mission \in DOMAIN Missions /\ step = DateStep(mission) + 1
                      /\ rtc >= Ending(mission) /\ Ending(mission) \in Int
                      /\ wake + 8 <= Ending(mission)
                      /\ DateStep(mission) \in Nat /\ DateStep(mission) >= 8
    OBVIOUS
  <2>1. mission \in DOMAIN Missions /\ faults \subseteq Faults
    BY <1>1 DEF Typed
  <2>2. /\ Beginning(mission) \in Nat /\ Duration(mission) \in Nat \ {0}
        /\ Ending(mission) = Beginning(mission) + Duration(mission) - 1
        /\ DateStep(mission) = Duration(mission) + 7 /\ Len(Script(mission)) = DateStep(mission)
    BY <2>1, MissionFacts, ScriptParts DEF DateStep
  <2>3. rtc >= Ending(mission) /\ step > DateStep(mission)
    BY <1>2, <1>4, <2>2 DEF Awake, Executing
  <2>4. step <= DateStep(mission) + 1 /\ wake + Margin <= Beginning(mission) + Drift(step)
    BY <1>1 DEF Paced
  <2>5. step = DateStep(mission) + 1 /\ Drift(step) = 2 * Gap + 2
    BY <1>4, <2>2, <2>3, <2>4 DEF Drift
  <2>6. Margin + Duration(mission) >= 2 * Nap + 2 * Gap + MaxSlips + 11
    BY <2>1, PassLength
  <2>7. wake + 8 <= Ending(mission)
    BY <1>4, <2>2, <2>4, <2>5, <2>6, SMTT(30)
  <2> QED BY <2>1, <2>2, <2>3, <2>5, <2>7
<1>8. Quiet' <=> Quiet
  BY <1>2 DEF Quiet, Undisturbed, Late, Prompt
<1>9. Typed' /\ Placed'
  <2>1. mission' \in {0} \cup DOMAIN Missions /\ step' \in Nat \ {0} /\ wake' \in Nat
    BY <1>2, <1>4
  <2> QED BY <1>1, <1>2, <1>3, <2>1 DEF Typed, Placed
<1>10. Paced'
  <2>1. Margin' = Margin /\ DateStep(mission') \in Nat /\ DateStep(mission') >= 8
    BY <1>2, MissionFacts DEF Margin, DateStep
  <2>2. Drift(step') = 0
    BY <1>2 DEF Drift
  <2> QED BY <1>2, <1>4, <1>6, <2>1, <2>2 DEF Paced
<1>11. QueueInv'
  <2>1. Due' = Due
    BY <1>2, <1>5 DEF Due, Spent
  <2>2. Backlog' = rtc + 1
    BY <1>2, <1>6 DEF Backlog
  <2>3. Backlog <= rtc + 1
    BY <1>4, <1>7 DEF Backlog
  <2>4. Due' \in Int /\ Backlog' \in Int /\ Due' <= Due /\ Due' - Due + Backlog <= Backlog'
    BY <1>4, <2>1, <2>2, <2>3
  <2> QED BY <1>1, <1>2, <1>8, <2>4, QueueKeeps
<1>12. ~Loading' /\ \A m \in DOMAIN Missions : Kept(m) => Kept(m)'
  <2>1. ~Loading'
    BY <1>2 DEF Loading
  <2>2. Earliest' = rtc + 2 * Gap
    BY <1>2, <1>6 DEF Earliest
  <2>3. Earliest' \in Int /\ Earliest <= Earliest'
    BY <1>4, <1>7, <2>2 DEF Earliest
  <2>4. UNCHANGED nb_point
    BY <1>2 DEF trajVars
  <2> QED BY <1>4, <2>1, <2>3, <2>4, KeptLater
<1>13. DateInv'
  <2>1. UNCHANGED <<rtc, slips, orderMbx, input, table, arrived>>
    BY <1>2, <1>3 DEF trajVars
  <2> QED BY <1>1, <1>5, <1>8, <1>12, <2>1, DatesStay
<1>14. LoadInv'
  BY <1>12 DEF LoadInv
<1>15. PlayInv'
  <2>1. rtc' \in Nat /\ slips' \in Nat /\ rtc' - slips' - Coming' <= rtc - slips - Coming
    <3>1. Coming \in {0, 1}
      BY DEF Coming
    <3> QED BY <1>2, <1>4, <1>5, <3>1
  <2> QED BY <1>1, <1>2, <1>3, <1>8, <1>12, <2>1, PlayStays
<1>16. PrepInv'
  <2> SUFFICES ASSUME Quiet PROVE PrepInv'
    BY <1>8 DEF PrepInv
  <2>1. orderMbx = <<>> /\ Len(orderMbx) = 0 /\ Reading = 0 /\ state = NOMINAL
    BY <1>2, IdleWhenAwake
  <2>2. Sent' = 0
    BY <1>2 DEF Sent
  <2>3. Len(orderMbx') = 0 /\ Reading' = 0 /\ state' = NOMINAL /\ Obeyed' = 0
    <3>1. orderMbx' = orderMbx /\ Reading' = Reading /\ state' = state
      BY <1>2, <1>3, <1>5
    <3>2. Len(orderMbx') = 0 /\ Reading' = 0 /\ state' = NOMINAL
      BY <2>1, <3>1
    <3>3. Obeyed' = Sent' - Reading' - Len(orderMbx')
      BY DEF Obeyed
    <3> QED BY <2>2, <3>2, <3>3
  <2>4. Len(ordered') = 0 /\ ~Armed'
    BY <1>2, <2>3 DEF Armed, NOMINAL, WAITING_TIME, PROCESS_TRAJ
  <2> QED BY <2>3, <2>4, PrepNext DEF NOMINAL, EMERGENCY
<1>17. Written'
  BY <1>1, <1>2 DEF Written
<1> QED BY <1>9, <1>10, <1>11, <1>13, <1>14, <1>15, <1>16, <1>17 DEF Dyn

(* The client goes on to the next step of its script.                       *)
LEMMA ClientAdvances ==
  ASSUME Timely, TypeOK, Typed, Placed, Paced, mission \in DOMAIN Missions,
         step \in 1 .. DateStep(mission), rtc >= wake, step' = step + 1,
         wake' = (IF step \in {1, 2} /\ Gap > 0 THEN rtc + Gap ELSE wake),
         UNCHANGED <<mission, rtc, Margin>>
  PROVE  /\ step' \in Nat \ {0} /\ wake' \in Nat /\ Paced'
         /\ Backlog' \in Int /\ Earliest' \in Int
         /\ Backlog <= Backlog' /\ Earliest <= Earliest'
         /\ step \in {1, 2, 3, DateStep(mission)} => Backlog + 1 <= Backlog'
         /\ Loading <=> step \in 5 .. DateStep(mission)
         /\ Loading' <=> step \in 4 .. (DateStep(mission) - 1)
         /\ step = 4 => Earliest = wake
         /\ step = DateStep(mission) => /\ Backlog = wake + 2
                                        /\ Earliest' = Ending(mission) + 2 * Gap
<1>1. /\ rtc \in Nat /\ wake \in Nat /\ step \in Nat \ {0} /\ Margin \in Nat \ {0}
      /\ Gap \in Nat /\ Nap \in Nat /\ MaxSlips \in Nat /\ Gap > 0
      /\ faults \subseteq Faults
  BY TimeFacts, ConstantTypes DEF Typed, Timely
<1>2. /\ Beginning(mission) \in Nat /\ Duration(mission) \in Nat \ {0} /\ mission # 0
      /\ Ending(mission) = Beginning(mission) + Duration(mission) - 1
      /\ DateStep(mission) = Duration(mission) + 7
  BY MissionFacts DEF DateStep
<1>3. /\ wake <= rtc /\ rtc <= wake + 1
      /\ wake + Margin <= Beginning(mission) + Drift(step)
  BY <1>1, <1>2 DEF Paced
<1>4. Margin + Duration(mission) >= 2 * Nap + 2 * Gap + MaxSlips + 11
  BY <1>1, PassLength
<1>5. wake' = IF step \in {1, 2} THEN rtc + Gap ELSE wake
  BY <1>1
<1>6. step' \in Nat \ {0} /\ wake' \in Nat
  BY <1>1, <1>5
<1>7. Paced'
  <2>1. wake' + Margin <= Beginning(mission) + Drift(step')
    BY <1>1, <1>2, <1>3, <1>5 DEF Drift
  <2>2. step' <= DateStep(mission) + 1 /\ wake' <= rtc + Gap /\ rtc <= wake' + 1 /\ step' # 1
    BY <1>1, <1>2, <1>3, <1>5
  <2> QED BY <1>2, <2>1, <2>2 DEF Paced
<1>8. /\ Loading <=> step \in 5 .. DateStep(mission)
      /\ Loading' <=> step \in 4 .. (DateStep(mission) - 1)
  BY <1>1, <1>2 DEF Loading
<1>9. /\ step = 1 => Backlog = wake + 1 /\ Backlog' = rtc + Gap + 1
      /\ step = 2 => Backlog = wake + 1 /\ Backlog' = rtc + Gap + 1
      /\ step = 3 => Backlog = wake + 1 /\ Backlog' = wake + 2
      /\ step \in 4 .. (DateStep(mission) - 1) => Backlog = wake + 2 /\ Backlog' = wake + 2
      /\ step = DateStep(mission) => Backlog = wake + 2 /\ Backlog' = wake + 3
  BY <1>1, <1>2, <1>3, <1>5 DEF Backlog
<1>10. /\ step = 1 => Earliest = wake + 2 * Gap /\ Earliest' = rtc + Gap + Gap
       /\ step = 2 => Earliest = wake + Gap /\ Earliest' = rtc + Gap
       /\ step = 3 => Earliest = wake /\ Earliest' = wake
       /\ step = 4 => Earliest = wake /\ Earliest' = Ending(mission) + 2 * Gap
       /\ step \in 5 .. DateStep(mission) =>
            /\ Earliest = Ending(mission) + 2 * Gap /\ Earliest' = Ending(mission) + 2 * Gap
  BY <1>1, <1>2, <1>5 DEF Earliest
<1>11. step \in {1, 2, 3, 4} \/ step \in 5 .. DateStep(mission)
  BY <1>1, <1>2
<1>12. step \in {1, 2, 3} \/ step \in 4 .. (DateStep(mission) - 1) \/ step = DateStep(mission)
  BY <1>1, <1>2
<1>13. /\ Backlog' \in Int /\ Backlog <= Backlog'
       /\ step \in {1, 2, 3, DateStep(mission)} => Backlog + 1 <= Backlog'
  BY <1>1, <1>2, <1>3, <1>9, <1>12
<1>14. Earliest' \in Int /\ Earliest <= Earliest'
  <2>1. step = 4 => wake <= Ending(mission) + 2 * Gap
    BY <1>1, <1>2, <1>3, <1>4 DEF Drift
  <2> QED BY <1>1, <1>2, <1>3, <1>10, <1>11, <2>1
<1>15. step = DateStep(mission) => Earliest' = Ending(mission) + 2 * Gap
  BY <1>1, <1>2, <1>10
<1> QED BY <1>6, <1>7, <1>8, <1>9, <1>10, <1>13, <1>14, <1>15

(* When the client is about to send TRAJ_REINI, no trajectory waits or is   *)
(* played, and no date is on its way.                                       *)
LEMMA NoneLeft ==
  ASSUME Timely, TypeOK, Dyn, CpuFree, mission \in DOMAIN Missions, step = 4, rtc >= wake
  PROVE  /\ ~Armed /\ ~IsDate(input)
         /\ \A i \in 1 .. Len(orderMbx) : ~IsDate(orderMbx[i])
<1>1. /\ Typed /\ Placed /\ Paced /\ QueueInv /\ DateInv /\ PlayInv
  BY DEF Dyn
<1>2. /\ rtc \in Nat /\ NextRead \in Nat /\ rtc <= NextRead /\ Due \in Int
      /\ Due + Spent = NextRead /\ Spent \in Nat /\ Spent <= MaxSpent
      /\ slips \in Nat /\ slips <= MaxSlips /\ MaxSlips \in Nat /\ Gap \in Nat
      /\ wake \in Nat /\ MaxSpent \in Nat /\ MaxSlips + 1 < 2 * Gap
  BY <1>1, TimeFacts, ConstantTypes DEF Typed, MaxSpent, Timely
<1>3. ~IsDate(input) /\ txPc # "behave"
  BY <1>1, FreeFacts
<1>4. Earliest = wake
  BY MissionFacts DEF Earliest
<1>5. ASSUME NEW i \in 1 .. Len(orderMbx), IsDate(orderMbx[i]) PROVE FALSE
  <2>1. PICK m \in DOMAIN Missions : orderMbx[i] = DateOrder(m) /\ Kept(m)
    BY <1>1, <1>5 DEF DateInv, Given
  <2>2. PICK e \in Nat : Queued(orderMbx, e, Due, Backlog, Quiet)
    BY <1>1 DEF QueueInv
  <2>3. InTime(orderMbx[i], Due + i - 1 + Cost(e), Quiet)
    BY <2>2 DEF Queued
  <2>4. Due + i - 1 + Cost(e) + MaxSpent < Ending(m) + 2 * Gap
    BY <2>1, <2>3 DEF InTime
  <2>5. wake >= Ending(m) + 2 * Gap /\ Ending(m) \in Int
    BY <1>4, <2>1, MissionFacts DEF Kept
  <2>6. Cost(e) \in Nat
    BY Costs
  <2> QED BY <1>2, <2>4, <2>5, <2>6
<1>6. ASSUME Armed PROVE FALSE
  <2> DEFINE m == armed.mission
  <2>1. /\ Progress \in Nat /\ Progress < nb_point /\ Coming \in {0, 1}
        /\ nb_point = Duration(m) + 1 /\ Duration(m) \in Nat /\ Beginning(m) \in Nat
        /\ Ending(m) = Beginning(m) + Duration(m) - 1
    BY <1>1, <1>6, PlayFacts
  <2>2. /\ init_date = Beginning(m) /\ Kept(m)
        /\ rtc <= init_date - 1 + Progress + slips + Coming
    BY <1>1, <1>3, <1>6 DEF PlayInv
  <2>3. wake >= Ending(m) + 2 * Gap
    BY <1>4, <2>2 DEF Kept
  <2> HIDE DEF m
  <2> QED BY <1>2, <2>1, <2>2, <2>3
<1> QED BY <1>3, <1>5, <1>6

LEMMA FaultsFinite == IsFiniteSet(FaultKinds)
<1>1. IsFiniteSet({"button"})
  BY FS_EmptySet, FS_AddElement
<1>2. IsFiniteSet({"button", "command"})
  BY <1>1, FS_AddElement
<1>3. IsFiniteSet({"button", "command", "lost"})
  BY <1>2, FS_AddElement
<1>4. IsFiniteSet({"button", "command", "lost", "corrupted"})
  BY <1>3, FS_AddElement
<1>5. IsFiniteSet({"button", "command", "lost", "corrupted", "silent"})
  BY <1>4, FS_AddElement
<1> QED BY <1>5, FS_AddElement DEF FaultKinds

LEMMA FirstLoss ==
  ASSUME OneLoss, faults \subseteq Faults, Cardinality(faults) < MaxFaults,
         NEW kind \in {"lost", "corrupted"}, kind \in Faults \ faults
  PROVE  ~Losing
<1>1. CASE MaxFaults <= 1
  <2>1. IsFiniteSet(faults)
    BY FaultsFinite, FaultsAssumption, FS_Subset
  <2>2. Cardinality(faults) \in Nat
    BY <2>1, FS_CardinalityType
  <2>3. Cardinality(faults) = 0
    BY <1>1, <2>2, FaultsAssumption
  <2>4. faults = {}
    BY <2>1, <2>3, FS_EmptySet
  <2> QED BY <2>4 DEF Losing
<1>2. CASE ~({"lost", "corrupted"} \subseteq Faults)
  BY <1>2 DEF Losing
<1> QED BY <1>1, <1>2 DEF OneLoss

LEMMA LoseDyn == ASSUME Timely, OneLoss, TypeOK, Dyn, LoseNext, Running' PROVE Dyn'
<1>1. /\ Typed /\ Placed /\ Paced /\ QueueInv /\ DateInv
      /\ LoadInv /\ PlayInv /\ PrepInv /\ Written
  BY DEF Dyn
<1>2. /\ mission \in {0} \cup DOMAIN Missions /\ step \in Nat \ {0} /\ faults \subseteq Faults
  BY <1>1 DEF Typed
<1>3. /\ mission \in DOMAIN Missions /\ step \in 1 .. DateStep(mission)
      /\ rtc >= wake /\ step' = step + 1 /\ CpuFree
      /\ wake' = (IF step \in {1, 2} /\ Gap > 0 THEN rtc + Gap ELSE wake)
      /\ UNCHANGED <<mission, rtc, slips, orderMbx>> /\ UNCHANGED threadVars
      /\ UNCHANGED keptVars
      /\ Cardinality(faults) < MaxFaults
      /\ \E kind \in {"lost", "corrupted"} :
           kind \in Faults \ faults /\ faults' = faults \cup {kind}
  BY <1>2, LoseEffects
<1>4. /\ UNCHANGED <<txPc, input, state, pulse, slept>>
      /\ UNCHANGED <<trajVars, ordered, arrived, armed, played>>
  BY <1>3 DEF threadVars, keptVars
<1>5. ~Losing /\ Losing'
  BY <1>2, <1>3, FirstLoss DEF Losing
<1>6. /\ ~Quiet' /\ UNCHANGED Margin
      /\ \A k \in {"button", "command", "restart"} : k \in faults' <=> k \in faults
  BY <1>3 DEF Quiet, Undisturbed, Margin
<1>7. /\ step' \in Nat \ {0} /\ wake' \in Nat /\ Paced'
      /\ Backlog' \in Int /\ Earliest' \in Int
      /\ Backlog <= Backlog' /\ Earliest <= Earliest'
      /\ Loading <=> step \in 5 .. DateStep(mission)
      /\ Loading' <=> step \in 4 .. (DateStep(mission) - 1)
  BY <1>1, <1>3, <1>6, ClientAdvances
<1>8. /\ rtc \in Nat /\ Due \in Int /\ Backlog \in Nat /\ Earliest \in Int /\ slips \in Nat
      /\ Duration(mission) \in Nat /\ DateStep(mission) = Duration(mission) + 7
  BY <1>1, <1>3, TimeFacts, MissionFacts DEF DateStep
<1>9. UNCHANGED <<NextRead, Coming, Reading>> /\ (Armed' <=> Armed)
  BY <1>3, ThreadStays
<1>10. Typed' /\ Placed'
  <2>1. faults' \subseteq Faults
    BY <1>2, <1>3
  <2> QED BY <1>1, <1>3, <1>4, <1>7, <2>1 DEF Typed, Placed
<1>11. QueueInv'
  <2>1. Due' = Due
    BY <1>3, <1>6, <1>9 DEF Due, Spent
  <2>2. Due' \in Int /\ Due' <= Due /\ Due' - Due + Backlog <= Backlog'
    BY <1>7, <1>8, <2>1
  <2> QED BY <1>1, <1>3, <1>6, <1>7, <2>2, QueueKeeps
<1>12. ~IsDate(input) /\ txPc # "behave"
  BY <1>1, <1>3, FreeFacts
<1>13. ASSUME step \in {1, 2, 3} PROVE DateInv' /\ LoadInv' /\ PlayInv'
  <2>1. ~Loading'
    BY <1>7, <1>13
  <2>2. \A m \in DOMAIN Missions : Kept(m) => Kept(m)'
    BY <1>4, <1>7, <1>8, <2>1, KeptLater DEF trajVars
  <2>3. DateInv'
    <3>1. UNCHANGED <<rtc, slips, orderMbx, input, table, arrived>>
      BY <1>3, <1>4 DEF trajVars
    <3> QED BY <1>1, <1>6, <1>9, <2>2, <3>1, DatesStay
  <2>4. LoadInv'
    BY <2>1 DEF LoadInv
  <2>5. PlayInv'
    <3>1. rtc' \in Nat /\ slips' \in Nat /\ rtc' - slips' - Coming' <= rtc - slips - Coming
      <4>1. Coming \in {0, 1}
        BY DEF Coming
      <4> QED BY <1>3, <1>8, <1>9, <4>1
    <3> QED BY <1>1, <1>4, <1>6, <1>12, <2>2, <3>1, PlayStays
  <2> QED BY <2>3, <2>4, <2>5
<1>14. ASSUME step \in 4 .. DateStep(mission) PROVE DateInv' /\ LoadInv' /\ PlayInv'
  <2>1. ~Armed /\ \A i \in 1 .. Len(orderMbx) : ~IsDate(orderMbx[i])
    <3>1. CASE step = 4
      BY <1>3, <3>1, NoneLeft
    <3>2. CASE step # 4
      <4>1. Loading
        BY <1>7, <1>8, <1>14, <3>2
      <4> QED BY <1>1, <4>1, LoadsAlone
    <3> QED BY <3>1, <3>2
  <2>2. DateInv'
    BY <1>3, <1>4, <1>12, <2>1, QueuedNoDates
  <2>3. PlayInv'
    BY <1>9, <2>1 DEF PlayInv
  <2>4. LoadInv'
    <3> SUFFICES ASSUME Loading' PROVE LoadInv'
      BY DEF LoadInv
    <3>1. step \in 4 .. (DateStep(mission) - 1) /\ step' = step + 1
      BY <1>3, <1>7
    <3>2. CASE step = 4
      <4>1. step' = 5
        BY <3>1, <3>2
      <4> QED BY <1>5, <4>1 DEF LoadInv
    <3>3. CASE step = 5
      <4>1. Loading /\ current_point = -1
        BY <1>1, <1>5, <1>7, <1>8, <3>3 DEF LoadInv
      <4>2. step' = 6 /\ current_point' = -1
        BY <1>4, <3>1, <3>3, <4>1 DEF trajVars
      <4> QED BY <1>5, <4>2 DEF LoadInv
    <3>4. CASE step >= 6
      <4>1. Loading
        BY <1>7, <1>8, <3>1, <3>4
      <4>2. /\ nb_point = Duration(mission) + 1 /\ current_point = Len(arrived)
            /\ Tabled(arrived) /\ Len(arrived) = step - 6
        BY <1>1, <1>5, <3>4, <4>1 DEF LoadInv
      <4>3. /\ nb_point' = Duration(mission') + 1 /\ current_point' = Len(arrived')
            /\ Tabled(arrived)' /\ Len(arrived') = step' - 7
        <5>1. Tabled(arrived)'
          BY <1>4, <4>2 DEF Tabled, trajVars
        <5>2. arrived' = arrived /\ mission' = mission /\ nb_point' = nb_point
              /\ current_point' = current_point
          BY <1>3, <1>4 DEF trajVars
        <5>3. Len(arrived) = step' - 7
          BY <1>2, <3>1, <4>2
        <5> QED BY <4>2, <5>1, <5>2, <5>3
      <4>4. step' >= 6 /\ step' # 5
        BY <3>1, <3>4
      <4> QED BY <1>5, <4>3, <4>4 DEF LoadInv
    <3> QED BY <3>1, <3>2, <3>3, <3>4
  <2> QED BY <2>2, <2>3, <2>4
<1>15. PrepInv' /\ Written'
  BY <1>1, <1>4, <1>6 DEF PrepInv, Written
<1>16. step \in {1, 2, 3} \/ step \in 4 .. DateStep(mission)
  BY <1>3, <1>8
<1> QED BY <1>7, <1>10, <1>11, <1>13, <1>14, <1>15, <1>16 DEF Dyn

(* The client posts an order.                                               *)
LEMMA QueuePosts ==
  ASSUME Timely, TypeOK, Typed, Placed, Paced, QueueInv, NEW o \in SimpleMessage, ~IsEmergency(o),
         orderMbx' = Append(orderMbx, o), Due' = Due, Backlog' \in Int, Backlog + 1 <= Backlog',
         Quiet' => Quiet, InTime(o, Backlog + 1, Quiet)
  PROVE  QueueInv'
<1>1. Due \in Int /\ Backlog \in Int /\ Quiet \in BOOLEAN
  BY TimeFacts
<1>2. PICK e \in Nat : Queued(orderMbx, e, Due, Backlog, Quiet)
  BY DEF QueueInv
<1> DEFINE b == Backlog'
           quiet == Quiet'
           back == Due - Due + Backlog + 1
<1>3. /\ b \in Int /\ Backlog - Due + 1 <= b - Due /\ (quiet => Quiet) /\ Due <= Due
      /\ quiet \in BOOLEAN /\ orderMbx \in Seq(SimpleMessage)
  <2>1. orderMbx \in Seq(SimpleMessage)
    BY DEF TypeOK, OrdersTypeOK
  <2>2. quiet \in BOOLEAN
    BY DEF Quiet, Undisturbed, Prompt
  <2>3. b \in Int /\ Backlog + 1 <= b /\ (quiet => Quiet)
    OBVIOUS
  <2> HIDE DEF b, quiet
  <2>4. Backlog - Due + 1 <= b - Due /\ Due <= Due
    BY <1>1, <2>3
  <2> QED BY <2>1, <2>2, <2>3, <2>4
<1>4. back = Backlog + 1 /\ back \in Int /\ Backlog + 1 \in Int /\ back <= Backlog + 1
  BY <1>1
<1>5. QueueInv' <=> \E f \in Nat : Queued(Append(orderMbx, o), f, Due, b, quiet)
  BY DEF QueueInv
<1> HIDE DEF b, quiet, back
<1>6. InTime(o, back, quiet)
  BY <1>1, <1>3, <1>4, InTimeEarlier
<1>7. Queued(Append(orderMbx, o), e, Due, b, quiet)
  BY <1>1, <1>2, <1>3, <1>6, QueuedAppend DEF back
<1> QED BY <1>5, <1>7

LEMMA PrepPosts ==
  ASSUME TypeOK, Typed, PrepInv, Quiet' => Quiet, Reading' = Reading, Sent' = Sent + 1,
         NEW o \in SimpleMessage, orderMbx' = Append(orderMbx, o), IsNth(o, Sent + 1),
         UNCHANGED <<mission, input, ordered, armed, state>>
  PROVE  PrepInv'
<1>1. /\ Sent \in 0 .. 4 /\ Reading \in {0, 1} /\ Len(orderMbx) \in Nat /\ Obeyed \in Int
      /\ Obeyed + Reading + Len(orderMbx) = Sent /\ orderMbx \in Seq(SimpleMessage)
  BY SentType DEF TypeOK, OrdersTypeOK
<1>2. /\ Len(orderMbx') = Len(orderMbx) + 1 /\ orderMbx'[Len(orderMbx) + 1] = o
      /\ \A j \in 1 .. Len(orderMbx) : orderMbx'[j] = orderMbx[j]
  BY <1>1, QueueIndices
<1>3. Obeyed' = Obeyed
  BY <1>1, <1>2 DEF Obeyed
<1>4. \A x, k : IsNth(x, k) => IsNthNext(x, k)
  BY DEF IsNth, IsNthNext
<1> SUFFICES ASSUME Quiet PROVE PrepInv'
  BY DEF PrepInv
<1>5. /\ 0 <= Obeyed
      /\ Reading = 1 => IsNth(input, Obeyed + 1)
      /\ \A j \in 1 .. Len(orderMbx) : IsNth(orderMbx[j], Obeyed + Reading + j)
      /\ Len(ordered) = (IF Obeyed = 4 THEN 3 ELSE Obeyed)
      /\ \A i \in 1 .. Len(ordered) : ordered[i] = Preparation[i]
      /\ Obeyed # 4 => state = NOMINAL
      /\ state # EMERGENCY
      /\ Armed => armed.mission = mission
  BY DEF PrepInv
<1>6. ASSUME NEW j \in 1 .. Len(orderMbx')
      PROVE  IsNthNext(orderMbx'[j], Obeyed' + Reading' + j)
  <2>1. CASE j \in 1 .. Len(orderMbx)
    BY <1>2, <1>3, <1>4, <1>5, <2>1
  <2>2. CASE j = Len(orderMbx) + 1
    <3>1. Obeyed' + Reading' + j = Sent + 1
      BY <1>1, <1>3, <2>2
    <3> QED BY <1>2, <1>4, <2>2, <3>1
  <2> QED BY <1>1, <1>2, <2>1, <2>2
<1>7. Reading' = 1 => IsNthNext(input', Obeyed' + 1)
  BY <1>3, <1>4, <1>5
<1>8. Armed' => Armed
  BY DEF Armed
<1> QED BY <1>3, <1>5, <1>6, <1>7, <1>8, PrepNext

LEMMA SendDyn == ASSUME Timely, TypeOK, Dyn, SendNext, Running' PROVE Dyn'
<1>1. /\ Typed /\ Placed /\ Paced /\ QueueInv /\ DateInv
      /\ LoadInv /\ PlayInv /\ PrepInv /\ Written
  BY DEF Dyn
<1>2. /\ mission \in {0} \cup DOMAIN Missions /\ step \in Nat \ {0}
      /\ arrived \in Seq(Frames)
  BY <1>1 DEF Typed
<1>3. /\ mission \in DOMAIN Missions /\ step \in 1 .. DateStep(mission)
      /\ rtc >= wake /\ step' = step + 1 /\ CpuFree
      /\ wake' = (IF step \in {1, 2} /\ Gap > 0 THEN rtc + Gap ELSE wake)
      /\ UNCHANGED <<mission, rtc, pulse, slept, state, txPc, input, faults, slips,
                     ordered, armed, played>>
  BY <1>2, SendEffects
<1>4. /\ step = 1 => orderMbx' = Append(orderMbx, Order(ANTENNA_DESACTIVATE))
      /\ step = 2 => orderMbx' = Append(orderMbx, Order(ANTENNA_REINI))
      /\ step = 3 => orderMbx' = Append(orderMbx, Order(ANTENNA_CALLAGE))
      /\ step = DateStep(mission) => orderMbx' = Append(orderMbx, DateOrder(mission))
      /\ step \in {1, 2, 3, DateStep(mission)} => UNCHANGED <<trajVars, arrived>>
      /\ step \in 4 .. (DateStep(mission) - 1) => UNCHANGED orderMbx
      /\ step = 4 => trajInit(rtc) /\ arrived' = <<>>
      /\ step = 5 => trajSetLength(Duration(mission) + 1) /\ arrived' = <<>>
      /\ step \in 6 .. (DateStep(mission) - 1) =>
           /\ trajAddPoint(Plan(mission)[step - 5])
           /\ arrived' = Append(arrived, Plan(mission)[step - 5])
  BY <1>2, SendEffects
<1>5. Quiet' = Quiet /\ Losing' = Losing /\ Spent' = Spent /\ UNCHANGED Margin
  BY <1>3 DEF Quiet, Prompt, Undisturbed, Late, Losing, Spent, Margin
<1>6. /\ step' \in Nat \ {0} /\ wake' \in Nat /\ Paced'
      /\ Backlog' \in Int /\ Earliest' \in Int
      /\ Backlog <= Backlog' /\ Earliest <= Earliest'
      /\ step \in {1, 2, 3, DateStep(mission)} => Backlog + 1 <= Backlog'
      /\ Loading <=> step \in 5 .. DateStep(mission)
      /\ Loading' <=> step \in 4 .. (DateStep(mission) - 1)
      /\ step = DateStep(mission) => /\ Backlog = wake + 2
                                     /\ Earliest' = Ending(mission) + 2 * Gap
  BY <1>1, <1>3, <1>5, ClientAdvances
<1>7. /\ rtc \in Nat /\ Due \in Int /\ Backlog \in Nat /\ Earliest \in Int /\ slips \in Nat
      /\ Duration(mission) \in Nat \ {0} /\ DateStep(mission) = Duration(mission) + 7
      /\ Duration(mission) < MAX_TRAJ_LENGTH
      /\ mission # 0
  BY <1>1, <1>3, TimeFacts, MissionFacts DEF DateStep
<1>8. UNCHANGED <<NextRead, Coming, Reading>> /\ (Armed' <=> Armed)
  BY <1>3, ThreadStays DEF threadVars
<1>9. Due' = Due
  BY <1>5, <1>8 DEF Due
<1>10. /\ Plan(mission) \in Seq(Frames) /\ Len(Plan(mission)) = Duration(mission) + 1
       /\ \A i \in 1 .. (Duration(mission) + 1) : Plan(mission)[i] \in Frames
  <2>1. Plan(mission) \in Seq(Frames) /\ Len(Plan(mission)) = Duration(mission) + 1
    BY <1>3, PlanParts
  <2> QED BY <2>1
<1>11. \/ step \in {1, 2, 3} \/ step = 4 \/ step = 5
       \/ step \in 6 .. (DateStep(mission) - 1) \/ step = DateStep(mission)
  BY <1>3, <1>7
<1>12. Typed' /\ Placed'
  <2>1. arrived' \in Seq(Frames)
    <3>1. CASE step \in 6 .. (DateStep(mission) - 1)
      <4>1. step - 5 \in 1 .. (Duration(mission) + 1)
        BY <1>7, <3>1
      <4>2. Plan(mission)[step - 5] \in Frames
        BY <1>10, <4>1
      <4> QED BY <1>2, <1>4, <3>1, <4>2
    <3>2. CASE step \in {1, 2, 3, DateStep(mission)}
      BY <1>2, <1>4, <3>2
    <3>3. CASE step \in {4, 5}
      <4>1. arrived' = <<>>
        BY <1>4, <3>3
      <4> QED BY <4>1
    <3> QED BY <1>11, <3>1, <3>2, <3>3
  <2> QED BY <1>1, <1>3, <1>6, <2>1 DEF Typed, Placed
<1>13. ~IsDate(input) /\ txPc # "behave"
  BY <1>1, <1>3, FreeFacts
<1>14. Written'
  BY <1>1, <1>3 DEF Written
<1> SUFFICES QueueInv' /\ DateInv' /\ LoadInv' /\ PlayInv' /\ PrepInv'
  BY <1>6, <1>12, <1>14 DEF Dyn
<1>15. orderMbx' = orderMbx => QueueInv'
  <2> SUFFICES ASSUME orderMbx' = orderMbx PROVE QueueInv'
    OBVIOUS
  <2>1. Due' \in Int /\ Due' <= Due /\ Due' - Due + Backlog <= Backlog'
    BY <1>6, <1>7, <1>9
  <2> QED BY <1>1, <1>5, <1>6, <2>1, QueueKeeps
<1>16. ASSUME step \in {1, 2, 3}
       PROVE  QueueInv' /\ DateInv' /\ LoadInv' /\ PlayInv' /\ PrepInv'
  <2> DEFINE o == Order(Preparation[step])
  <2>1. orderMbx' = Append(orderMbx, o)
    BY <1>4, <1>16 DEF Preparation
  <2>2. IsNth(o, step) /\ Sent = step - 1 /\ Sent' = step
    <3>1. IsNth(o, step)
      BY <1>16 DEF IsNth
    <3>2. step' <= DateStep(mission')
      BY <1>3, <1>7, <1>16
    <3>3. Sent = step - 1
      BY <1>16 DEF Sent
    <3>4. Sent' = step
      BY <1>3, <1>16, <3>2 DEF Sent
    <3> QED BY <3>1, <3>3, <3>4
  <2>3. o \in SimpleMessage /\ ~IsEmergency(o) /\ ~IsDate(o)
    <3>1. ~IsEmergency(o) /\ ~IsDate(o)
      BY <1>2, <1>16, <2>2, NthOrder
    <3>2. \A f \in {ANTENNA_DESACTIVATE, ANTENNA_REINI, ANTENNA_CALLAGE} : Order(f) \in SimpleMessage
      BY FrameTypes DEF Order, Message, SimpleMessage, Byte, ID_MSG_ORDER_ANTENNA
    <3> QED BY <1>16, <3>1, <3>2 DEF Preparation
  <2> HIDE DEF o
  <2>4. InTime(o, Backlog + 1, Quiet)
    BY <2>3, DatedOrder DEF InTime
  <2>5. QueueInv'
    BY <1>1, <1>5, <1>6, <1>9, <1>16, <2>1, <2>3, <2>4, QueuePosts
  <2>6. UNCHANGED <<trajVars, arrived>> /\ ~Loading'
    BY <1>4, <1>6, <1>16
  <2>7. \A m \in DOMAIN Missions : Kept(m) => Kept(m)'
    BY <1>6, <1>7, <2>6, KeptLater DEF trajVars
  <2>8. DateInv'
    BY <1>1, <1>3, <1>8, <1>13, <2>1, <2>3, <2>6, <2>7, DatesPosted DEF Posted, trajVars
  <2>9. LoadInv'
    BY <2>6 DEF LoadInv
  <2>10. PlayInv'
    <3>1. rtc' \in Nat /\ slips' \in Nat /\ rtc' - slips' - Coming' <= rtc - slips - Coming
      <4>1. Coming \in {0, 1}
        BY DEF Coming
      <4> QED BY <1>3, <1>7, <1>8, <4>1
    <3> QED BY <1>1, <1>3, <1>5, <1>13, <2>6, <2>7, <3>1, PlayStays
  <2>11. PrepInv'
    <3>1. Sent + 1 = step /\ Sent' = Sent + 1
      BY <1>2, <2>2
    <3> QED BY <1>1, <1>3, <1>5, <1>8, <2>1, <2>2, <2>3, <3>1, PrepPosts
  <2> QED BY <2>5, <2>8, <2>9, <2>10, <2>11
<1>17. ASSUME step \in 4 .. DateStep(mission)
       PROVE  ~Armed /\ \A i \in 1 .. Len(orderMbx) : ~IsDate(orderMbx[i])
  <2>1. CASE step = 4
    BY <1>3, <2>1, NoneLeft
  <2>2. CASE step # 4
    <3>1. Loading
      BY <1>6, <1>7, <1>17, <2>2
    <3> QED BY <1>1, <3>1, LoadsAlone
  <2> QED BY <2>1, <2>2
<1>18. ASSUME step \in 4 .. (DateStep(mission) - 1)
       PROVE  QueueInv' /\ DateInv' /\ PlayInv' /\ PrepInv'
  <2>1. orderMbx' = orderMbx /\ step \in 4 .. DateStep(mission)
    BY <1>4, <1>7, <1>18
  <2>2. ~Armed' /\ ~IsDate(input') /\ \A i \in 1 .. Len(orderMbx') : ~IsDate(orderMbx'[i])
    BY <1>3, <1>8, <1>13, <1>17, <2>1
  <2>3. DateInv' /\ PlayInv'
    BY <2>2, QueuedNoDates DEF PlayInv
  <2>4. Sent' = Sent
    <3>1. step' <= DateStep(mission') /\ step <= DateStep(mission) /\ ~(step <= 3) /\ ~(step' <= 3)
      BY <1>3, <1>7, <1>18
    <3> QED BY <3>1 DEF Sent
  <2>5. PrepInv'
    BY <1>1, <1>3, <1>5, <1>8, <2>1, <2>4, PrepStays
  <2> QED BY <1>15, <2>1, <2>3, <2>5
<1>19. ASSUME step = 4 PROVE LoadInv'
  <2>1. step' = 5 /\ nb_point' = -2 /\ current_point' = -1
    BY <1>3, <1>4, <1>19 DEF trajInit
  <2> QED BY <2>1 DEF LoadInv
<1>20. ASSUME step = 5 PROVE LoadInv'
  <2>1. /\ step' = 6 /\ nb_point' = Duration(mission) + 1 /\ current_point' = 0
        /\ arrived' = <<>> /\ mission' = mission
    BY <1>3, <1>4, <1>20 DEF trajSetLength
  <2>2. Len(arrived') = 0
    BY <2>1
  <2>3. Tabled(arrived)' /\ \A i \in 1 .. Len(arrived') : arrived'[i] = Plan(mission')[i]
    BY <2>2 DEF Tabled
  <2>4. nb_point' = Duration(mission') + 1 /\ current_point' = Len(arrived') /\ step' # 5
        /\ Len(arrived') = step' - 6
    BY <2>1, <2>2
  <2> QED BY <2>3, <2>4 DEF LoadInv
<1>21. ASSUME step \in 6 .. (DateStep(mission) - 1) PROVE LoadInv'
  <2> DEFINE p == Plan(mission)[step - 5]
             n == Len(arrived)
  <2>1. /\ trajAddPoint(p) /\ arrived' = Append(arrived, p) /\ p \in Frames
        /\ n \in Nat /\ mission' = mission /\ step' = step + 1
    <3>1. step - 5 \in 1 .. (Duration(mission) + 1)
      BY <1>7, <1>21
    <3> QED BY <1>2, <1>3, <1>4, <1>10, <1>21, <3>1
  <2>2. /\ current_point \in TableIndex /\ current_point # -1
        /\ table' = [table EXCEPT ![current_point] = p]
        /\ current_point' = Advance(current_point) /\ nb_point' = nb_point
    BY <2>1, ConstantTypes DEF trajAddPoint, TableIndex
  <2>3. Loading
    BY <1>6, <1>7, <1>21
  <2>4. /\ nb_point = Duration(mission) + 1 /\ current_point = n /\ Tabled(arrived)
        /\ \/ /\ n = step - 6
              /\ \A i \in 1 .. n : arrived[i] = Plan(mission)[i]
           \/ Losing /\ n = step - 7
    BY <1>1, <1>21, <2>2, <2>3 DEF LoadInv
  <2>5. /\ Len(arrived') = n + 1 /\ arrived'[n + 1] = p
        /\ \A i \in 1 .. n : arrived'[i] = arrived[i]
    BY <1>2, <2>1, QueueIndices
  <2> HIDE DEF p
  <2>6. n < MAX_TRAJ_LENGTH /\ current_point' = n + 1 /\ MAX_TRAJ_LENGTH \in Nat
    BY <2>1, <2>2, <2>4, ConstantTypes DEF TableIndex, Advance
  <2>7. table \in [TableIndex -> Frames] /\ n \in TableIndex
    BY <2>2, <2>4 DEF TypeOK, TrajTypeOK
  <2> HIDE DEF n
  <2>8. Tabled(arrived)'
    <3>1. ASSUME NEW i \in 1 .. (n + 1)
          PROVE  i <= MAX_TRAJ_LENGTH /\ table'[i - 1] = arrived'[i]
      <4>1. CASE i \in 1 .. n
        <5>1. i - 1 # n /\ i - 1 \in TableIndex
          BY <2>1, <2>6, <4>1 DEF TableIndex
        <5>2. i <= MAX_TRAJ_LENGTH /\ table[i - 1] = arrived[i]
          BY <2>4, <4>1 DEF Tabled, n
        <5>3. table' = [table EXCEPT ![n] = p]
          BY <2>2, <2>4
        <5>4. table'[i - 1] = table[i - 1]
          BY <2>7, <5>1, <5>3
        <5>5. arrived'[i] = arrived[i]
          BY <2>5, <4>1
        <5> QED BY <5>2, <5>4, <5>5
      <4>2. CASE i = n + 1
        <5>1. i - 1 = n /\ i <= MAX_TRAJ_LENGTH
          BY <2>1, <2>6, <4>2
        <5>2. table'[n] = p
          BY <2>2, <2>4, <2>7
        <5>3. arrived'[i] = p
          BY <2>5, <4>2
        <5> QED BY <5>1, <5>2, <5>3
      <4>3. n \in Nat
        BY <2>1
      <4>4. i \in 1 .. n \/ i = n + 1
        BY <4>3
      <4> QED BY <4>1, <4>2, <4>4
    <3> QED BY <2>5, <3>1 DEF Tabled
  <2>9. \/ /\ Len(arrived') = step' - 6
           /\ \A i \in 1 .. Len(arrived') : arrived'[i] = Plan(mission')[i]
        \/ Losing' /\ Len(arrived') = step' - 7
    <3>1. ASSUME n = step - 6, \A i \in 1 .. n : arrived[i] = Plan(mission)[i]
          PROVE  /\ Len(arrived') = step' - 6
                 /\ \A i \in 1 .. Len(arrived') : arrived'[i] = Plan(mission')[i]
      <4>1. Len(arrived') = step' - 6 /\ n + 1 = step - 5
        BY <1>2, <2>1, <2>5, <3>1
      <4>2. \A i \in 1 .. Len(arrived') : i \in 1 .. n \/ i = step - 5
        BY <2>1, <2>5, <4>1
      <4> QED BY <2>1, <2>5, <3>1, <4>1, <4>2 DEF p
    <3>2. ASSUME Losing, n = step - 7 PROVE Losing' /\ Len(arrived') = step' - 7
      BY <1>2, <1>5, <2>1, <2>5, <3>2
    <3> QED BY <2>4, <3>1, <3>2
  <2>10. nb_point' = Duration(mission') + 1 /\ current_point' = Len(arrived')
    BY <2>1, <2>2, <2>4, <2>5, <2>6
  <2>11. step' # 5
    BY <1>21, <2>1
  <2> QED BY <2>8, <2>9, <2>10, <2>11 DEF LoadInv
<1>22. ASSUME step = DateStep(mission)
       PROVE  QueueInv' /\ DateInv' /\ LoadInv' /\ PlayInv' /\ PrepInv'
  <2> DEFINE o == DateOrder(mission)
  <2>1. /\ orderMbx' = Append(orderMbx, o) /\ UNCHANGED <<trajVars, arrived>>
        /\ Backlog = wake + 2 /\ Earliest' = Ending(mission) + 2 * Gap
        /\ Backlog + 1 <= Backlog' /\ ~Loading' /\ Loading
    <3>1. /\ step \in {1, 2, 3, DateStep(mission)} /\ step \in 5 .. DateStep(mission)
          /\ ~(step \in 4 .. (DateStep(mission) - 1))
      BY <1>7, <1>22
    <3>2. orderMbx' = Append(orderMbx, o) /\ UNCHANGED <<trajVars, arrived>>
      BY <1>4, <1>22, <3>1
    <3>3. /\ Backlog = wake + 2 /\ Earliest' = Ending(mission) + 2 * Gap
          /\ Backlog + 1 <= Backlog'
      BY <1>6, <1>22, <3>1
    <3>4. ~Loading' /\ Loading
      BY <1>6, <3>1
    <3> QED BY <3>2, <3>3, <3>4
  <2>2. ~Armed /\ \A i \in 1 .. Len(orderMbx) : ~IsDate(orderMbx[i])
    BY <1>1, <2>1, LoadsAlone
  <2>3. o \in SimpleMessage /\ ~IsEmergency(o) /\ IsDate(o)
    BY <1>3, ScriptOrders DEF IsDate
  <2>4. InTime(o, Backlog + 1, Quiet)
    <3> SUFFICES ASSUME NEW m \in DOMAIN Missions, o = DateOrder(m)
                 PROVE  /\ Backlog + 1 + MaxSpent < Ending(m) + 2 * Gap
                        /\ Quiet => Backlog + 1 <= Beginning(m) - 4
      BY DEF InTime
    <3>1. m = mission
      BY <1>3, DatedOrder
    <3>2. /\ wake + Margin <= Beginning(mission) + 2 * Gap + 2
          /\ wake \in Nat /\ Margin \in Nat /\ Gap \in Nat /\ Nap \in Nat /\ MaxSlips \in Nat
          /\ LoadingMargin \in Nat
      <4>1. Drift(step) = 2 * Gap + 2
        BY <1>7, <1>22 DEF Drift
      <4>2. wake + Margin <= Beginning(mission) + (2 * Gap + 2)
        BY <1>1, <1>7, <4>1 DEF Paced
      <4>3. /\ wake \in Nat /\ Margin \in Nat /\ Gap \in Nat /\ Nap \in Nat /\ MaxSlips \in Nat
            /\ LoadingMargin \in Nat
        BY <1>1, ConstantTypes DEF Typed
      <4>4. Beginning(mission) \in Nat
        BY <1>3, MissionFacts
      <4> HIDE DEF o
      <4> QED BY <4>2, <4>3, <4>4
    <3>3. Margin + Duration(mission) >= 2 * Nap + 2 * Gap + MaxSlips + 11
      BY <1>1, <1>3, PassLength DEF Typed
    <3>4. Beginning(mission) \in Nat /\ Ending(mission) = Beginning(mission) + Duration(mission) - 1
      BY <1>3, MissionFacts
    <3>5. Backlog + 1 + MaxSpent < Ending(mission) + 2 * Gap
      BY <1>7, <2>1, <3>2, <3>3, <3>4, SMTT(30) DEF MaxSpent
    <3>6. ASSUME Quiet PROVE Backlog + 1 <= Beginning(mission) - 4
      <4>1. Margin = LoadingMargin /\ LoadingMargin >= 2 * Gap + 9
        BY <3>6 DEF Quiet, Undisturbed, Prompt, Margin
      <4> QED BY <1>7, <2>1, <3>2, <3>4, <4>1, SMTT(30)
    <3> QED BY <3>1, <3>5, <3>6
  <2>5. QueueInv'
    BY <1>1, <1>5, <1>6, <1>9, <2>1, <2>3, <2>4, QueuePosts
  <2>6. DateInv'
    <3>1. GivenNext(o)
      <4>1. LoadInv /\ step >= 6 /\ step # 6
        BY <1>1, <1>7, <1>22
      <4>2. nb_point = Duration(mission) + 1 /\ Tabled(arrived)
        BY <2>1, <4>1 DEF LoadInv
      <4>3. Tabled(arrived)' /\ nb_point' = Duration(mission) + 1
        BY <2>1, <4>2 DEF Tabled, trajVars
      <4>4. Earliest' >= Ending(mission) + 2 * Gap
        BY <1>3, <2>1, MissionFacts, ConstantTypes
      <4>5. \A m : m = mission => Kept(m)'
        BY <2>1, <4>3, <4>4 DEF Kept
      <4> QED BY <1>3, <1>8, <2>2, <4>3, <4>5 DEF GivenNext
    <3>2. /\ Len(orderMbx') = Len(orderMbx) + 1 /\ orderMbx'[Len(orderMbx) + 1] = o
          /\ \A i \in 1 .. Len(orderMbx) : orderMbx'[i] = orderMbx[i]
          /\ Len(orderMbx) \in Nat
      <4>1. orderMbx \in Seq(SimpleMessage)
        BY DEF TypeOK, OrdersTypeOK
      <4> QED BY <2>1, <2>3, <4>1, QueueIndices
    <3>3. \A i \in 1 .. Len(orderMbx') : i \in 1 .. Len(orderMbx) \/ i = Len(orderMbx) + 1
      BY <3>2
    <3>4. \A i \in 1 .. Len(orderMbx') : IsDate(orderMbx'[i]) => i = Len(orderMbx) + 1
      BY <2>2, <3>2, <3>3
    <3>5. ~IsDate(input')
      BY <1>3, <1>13
    <3> HIDE DEF o
    <3> QED BY <3>1, <3>2, <3>4, <3>5, DatesNext
  <2>7. LoadInv' /\ PlayInv'
    BY <1>8, <2>1, <2>2 DEF LoadInv, PlayInv
  <2>8. PrepInv'
    <3>1. Sent = 3 /\ Sent' = 4
      <4>1. ~(step <= 3) /\ step <= DateStep(mission)
        BY <1>7, <1>22
      <4>2. ~(step' <= 3) /\ ~(step' <= DateStep(mission')) /\ mission' # 0
        BY <1>3, <1>7, <1>22
      <4> QED BY <4>1, <4>2 DEF Sent
    <3>2. IsNth(o, 4) /\ Sent + 1 = 4
      BY <1>7, <3>1 DEF IsNth
    <3> HIDE DEF o
    <3> QED BY <1>1, <1>3, <1>5, <1>8, <2>1, <2>3, <3>1, <3>2, PrepPosts
  <2> QED BY <2>5, <2>6, <2>7, <2>8
<1> QED BY <1>7, <1>11, <1>16, <1>18, <1>19, <1>20, <1>21, <1>22

-----------------------------------------------------------------------------
(* What is left of a system that has stopped, and the types.                *)

\* What a message that stops the system leaves as it was
LEMMA HandlerStops ==
  ASSUME NEW m, handleIncomingMessage(m)
  PROVE  Running /\ (Running' \/ UNCHANGED trajVars)
<1>1. \A entry : JustLog(entry) => UNCHANGED trajVars
  BY DEF JustLog, PcCrash, LogCrash, Stop
<1>2. CASE HandleWrongId(m) \/ HandleTrajCheckCorrect(m)
  BY <1>1, <1>2, Zenon DEF HandleWrongId, HandleTrajCheckCorrect
<1>3. CASE HandleTrajSetLength(m) \/ HandleTrajReini(m)
  BY <1>3 DEF HandleTrajSetLength, HandleTrajReini, Running
<1>4. CASE HandleTrajSetNewPoint(m)
  BY <1>4 DEF HandleTrajSetNewPoint, Running, Stop
<1>5. CASE HandleEmergency(m) \/ HandleOrder(m)
  BY <1>5, Zenon DEF HandleEmergency, HandleOrder, OrderCrash, Stop
<1> QED BY <1>2, <1>3, <1>4, <1>5 DEF handleIncomingMessage

LEMMA CycleStops ==
  ASSUME AntennaCycle
  PROVE  /\ Running /\ UNCHANGED <<mission, slips>> /\ faults \subseteq faults'
         /\ Running' \/ UNCHANGED <<state, trajVars, ordered, armed, played>>
<1>1. /\ TxNext \/ PpsEdge \/ PpsTimeout
      /\ RecordWritten /\ UNCHANGED mission
      /\ UNCHANGED slips /\ faults \subseteq faults'
  BY DEF AntennaCycle, clientVars, environmentVars, Happens
<1>2. Running
  BY <1>1 DEF TxNext, PpsEdge, PpsTimeout, NoOrder, ReadOrder, DispatchEmergency,
     DispatchDoTrajAtDate, DispatchAntenna, DispatchBadId, DispatchDropped, NominalBehaviour,
     WaitingBehaviour, TrackingMidway, TrackingLast, EmergencyBegins, EmergencyEnds
<1>3. ASSUME ~Running' PROVE UNCHANGED <<state, trajVars, ordered, armed, played>>
  <2>1. panic' # panic
    BY <1>2, <1>3 DEF Running
  <2>2. /\ UNCHANGED <<state, trajVars>>
        /\ ~(txPc = "dispatch" /\ state = NOMINAL /\ ~IsEmergency(input)
             /\ input.id \in {ID_MSG_ORDER_DO_TRAJ_AT_DATE, ID_MSG_ORDER_ANTENNA})
    <3> USE <2>1 DEF TxCrash, LogCrash, Stop, txVars
    <3>1. CASE PpsEdge \/ NoOrder \/ NominalBehaviour
      BY <3>1 DEF PpsEdge, NoOrder, NominalBehaviour, boardVars
    <3>2. CASE PpsTimeout \/ ReadOrder
      BY <3>2 DEF PpsTimeout, ReadOrder
    <3>3. CASE DispatchEmergency \/ DispatchBadId \/ DispatchDropped
      BY <3>3 DEF DispatchEmergency, DispatchBadId, DispatchDropped
    <3>4. CASE DispatchDoTrajAtDate \/ DispatchAntenna
      BY <3>4 DEF DispatchDoTrajAtDate, DispatchAntenna
    <3>5. CASE WaitingBehaviour \/ TrackingMidway \/ TrackingLast
      BY <3>5 DEF WaitingBehaviour, TrackingMidway, TrackingLast
    <3>6. CASE EmergencyBegins \/ EmergencyEnds
      BY <3>6 DEF EmergencyBegins, EmergencyEnds
    <3> QED BY <1>1, <3>1, <3>2, <3>3, <3>4, <3>5, <3>6 DEF TxNext
  <2>3. ~ArmsTrajectory /\ ~(Tracks /\ Running')
    BY <1>3, <2>2 DEF ArmsTrajectory, IsEmergency, ID_MSG_ORDER_DO_TRAJ_AT_DATE,
       ID_MSG_ORDER_SURVIE, ID_MSG_ORDER_ANTENNA
  <2>4. ~ObeysAntennaOrder
    BY <2>2 DEF ObeysAntennaOrder
  <2>5. UNCHANGED <<ordered, armed, played>>
    BY <1>1, <2>3, <2>4 DEF RecordWritten
  <2> QED BY <2>2, <2>5
<1> QED BY <1>1, <1>2, <1>3

LEMMA Stops ==
  ASSUME TargetingNext
  PROVE  /\ Running
         /\ ~Running' => /\ UNCHANGED <<mission, slips, state, trajVars, ordered, armed, played>>
                         /\ faults \subseteq faults'
<1> DEFINE Left == /\ UNCHANGED <<mission, slips, state, trajVars, ordered, armed, played>>
                   /\ faults \subseteq faults'
<1>1. CASE StartMission
  BY <1>1, StartEffects DEF Running
<1>2. CASE ClientRestarts
  BY <1>2, RestartEffects DEF Running
<1>3. CASE Second
  BY <1>3, SecondEffects DEF Second, ClockTick, Running
<1>4. CASE AntennaCycle
  BY <1>4, CycleStops
<1>5. CASE SendNext
  <2>1. UNCHANGED <<mission, slips, state, ordered, armed, played, faults>>
    BY <1>5 DEF SendNext, Advances, txVars, environmentVars
  <2>2. Running /\ (Running' \/ UNCHANGED trajVars)
    BY <1>5, HandlerStops DEF SendNext
  <2> QED BY <2>1, <2>2
<1>6. CASE LoseNext
  <2>1. UNCHANGED <<mission, slips, state, ordered, armed, played>> /\ faults \subseteq faults'
    BY <1>6 DEF LoseNext, Advances, txVars, historyVars, Happens
  <2>2. Running /\ UNCHANGED trajVars
    BY <1>6 DEF LoseNext, boardVars, ReceiveCrcError, JustLog, PcCrash, LogCrash, Stop
  <2> QED BY <2>1, <2>2
<1>7. CASE Interferes
  <2>1. UNCHANGED <<mission, slips, state, ordered, armed, played>> /\ faults \subseteq faults'
    BY <1>7 DEF Interferes, clientVars, txVars, historyVars, Happens
  <2>2. CASE UserButton
    BY <2>1, <2>2 DEF UserButton, OrderCrash, Stop
  <2>3. ASSUME NEW m \in PcMessages, handleIncomingMessage(m)
        PROVE  Running /\ (Running' \/ UNCHANGED trajVars)
    BY <2>3, HandlerStops
  <2> QED BY <1>7, <2>1, <2>2, <2>3 DEF Interferes
<1>8. CASE SendLogs
  BY <1>8 DEF SendLogs, PcTxThread, PcTxNext, PcTxReceive, PcTxReturn, PcTxReturnNull, Stop,
     clientVars, environmentVars, historyVars, txVars
<1> QED BY <1>1, <1>2, <1>3, <1>4, <1>5, <1>6, <1>7, <1>8 DEF TargetingNext

LEMMA TargetingType ==
  ASSUME TypeOK, Running => Typed, TargetingNext
  PROVE  TypeOK'
<1>1. Running
  BY Stops
<1>2. CASE StartMission \/ ClientRestarts
  BY <1>2, NextTypeOK DEF StartMission, ClientRestarts
<1>3. CASE SendNext
  <2>1. mission \in DOMAIN Missions /\ step \in 1 .. DateStep(mission)
    <3>1. mission # 0 /\ step <= Len(Script(mission))
      BY <1>3 DEF SendNext, Advances, Executing
    <3>2. mission \in DOMAIN Missions /\ step \in Nat \ {0}
      BY <1>1, <3>1 DEF Typed
    <3>3. DateStep(mission) \in Nat /\ step <= DateStep(mission)
      BY <3>1, <3>2, ScriptParts, MissionFacts DEF DateStep
    <3> QED BY <3>2, <3>3
  <2>2. Script(mission)[step] \in SimpleMessage
    BY <2>1, ScriptType
  <2> QED BY <1>3, <2>2, HandleType DEF SendNext, Advances
<1>4. CASE LoseNext
  <2>1. UNCHANGED txVars
    BY <1>4 DEF LoseNext, Advances
  <2>2. CASE UNCHANGED <<boardVars, pcVars>>
    BY <2>1, <2>2, NextTypeOK DEF vars
  <2>3. CASE ReceiveCrcError
    <3>1. Log(ID_MSG_ALERT_CRC_ERROR) \in LogEntry
      BY LogType DEF Byte, ID_MSG_ALERT_CRC_ERROR, FIRST_ERROR_ID
    <3> QED BY <2>1, <2>3, <3>1, JustLogType DEF ReceiveCrcError
  <2> QED BY <1>4, <2>2, <2>3 DEF LoseNext
<1>5. CASE AntennaCycle
  BY <1>5, TxThreadType DEF AntennaCycle, TxThread, TxNext
<1>6. CASE Interferes
  BY <1>6, OtherThreadType DEF Interferes, OtherThread, PcReceives
<1>7. CASE SendLogs
  BY <1>7, PcTxType DEF SendLogs, PcTxThread
<1>8. CASE Second
  BY <1>8, NextTypeOK DEF Second, Next
<1> QED BY <1>2, <1>3, <1>4, <1>5, <1>6, <1>7, <1>8 DEF TargetingNext

-----------------------------------------------------------------------------
(* The invariant of the whole, and what it shows.                           *)
OrderedInTurn ==
  Quiet =>
    /\ IsPrefixOf(ordered, Preparation)
    /\ Armed /\ armed.mission = mission => ordered = Preparation

\* A system that has stopped leaves what is told of its last state.
TargetingInv ==
  /\ TypeOK /\ (Running => Dyn)
  /\ ~Running => LoadedBeforePlayed /\ Written /\ OrderedInTurn

LEMMA DynLoaded == ASSUME Dyn PROVE LoadedBeforePlayed
<1> SUFFICES ASSUME state = PROCESS_TRAJ PROVE LoadedBeforePlayed
  BY DEF LoadedBeforePlayed
<1>1. /\ armed.mission # 0 /\ Kept(armed.mission) /\ Tabled(armed.points)
  BY DEF Dyn, PlayInv, Armed
<1>2. armed.mission \in DOMAIN Missions /\ armed.points \in Seq(Frames)
  BY <1>1 DEF Dyn, Typed
<1>3. nb_point = Len(Plan(armed.mission))
  BY <1>1, <1>2, PlanParts DEF Kept
<1>4. DOMAIN armed.points = 1 .. Len(armed.points)
  BY <1>2
<1>5. \A i \in DOMAIN armed.points : table[i - 1] = armed.points[i]
  BY <1>1, <1>4 DEF Tabled
<1> QED BY <1>1, <1>3, <1>5 DEF LoadedBeforePlayed

LEMMA DynOrdered == ASSUME TypeOK, Dyn PROVE OrderedInTurn
<1> SUFFICES ASSUME Quiet
             PROVE  /\ IsPrefixOf(ordered, Preparation)
                    /\ Armed => ordered = Preparation
  BY DEF OrderedInTurn
<1>1. Typed /\ PrepInv
  BY DEF Dyn
<1>2. /\ Sent \in 0 .. 4 /\ Reading \in {0, 1} /\ Len(orderMbx) \in Nat /\ Obeyed \in Int
      /\ Obeyed + Reading + Len(orderMbx) = Sent
  BY <1>1, SentType
<1>3. /\ 0 <= Obeyed
      /\ Len(ordered) = (IF Obeyed = 4 THEN 3 ELSE Obeyed)
      /\ \A i \in 1 .. Len(ordered) : ordered[i] = Preparation[i]
      /\ Obeyed # 4 => state = NOMINAL
  BY <1>1 DEF PrepInv
<1>4. ordered \in Seq(Frames) /\ DOMAIN ordered = 1 .. Len(ordered)
  BY <1>1 DEF Typed
<1>5. Len(ordered) <= 3
  BY <1>2, <1>3
<1>6. Len(Preparation) = 3 /\ DOMAIN Preparation = 1 .. 3
  BY DEF Preparation
<1>7. IsPrefixOf(ordered, Preparation)
  BY <1>3, <1>4, <1>5, <1>6 DEF IsPrefixOf
<1>8. ASSUME Armed PROVE ordered = Preparation
  <2>1. Obeyed = 4
    BY <1>3, <1>8 DEF Armed, NOMINAL, WAITING_TIME, PROCESS_TRAJ
  <2>2. DOMAIN ordered = 1 .. 3 /\ \A i \in 1 .. 3 : ordered[i] = Preparation[i]
    BY <1>3, <1>4, <2>1
  <2>3. Preparation \in Seq(Frames)
    BY FrameTypes DEF Preparation
  <2> QED BY <1>3, <1>4, <1>6, <2>1, <2>3, SeqEqual
<1> QED BY <1>7, <1>8

LEMMA DynTells == ASSUME Dyn PROVE CheckTells
<1> SUFFICES ASSUME Executing, step = Len(Script(mission))
             PROVE  trajCheckCorrectLength <=> arrived = Plan(mission)
  BY DEF CheckTells
<1>1. Typed /\ LoadInv
  BY DEF Dyn
<1>2. mission \in DOMAIN Missions /\ mission # 0 /\ arrived \in Seq(Frames)
  BY <1>1 DEF Typed, Executing
<1>3. /\ Duration(mission) \in Nat \ {0} /\ step = Duration(mission) + 7
      /\ DateStep(mission) = Duration(mission) + 7
  BY <1>2, MissionFacts, ScriptParts DEF DateStep
<1>4. Loading /\ step >= 6 /\ step # 6
  BY <1>2, <1>3 DEF Loading
<1>5. /\ nb_point = Duration(mission) + 1 /\ current_point = Len(arrived)
      /\ \/ /\ Len(arrived) = step - 6
            /\ \A i \in 1 .. Len(arrived) : arrived[i] = Plan(mission)[i]
         \/ Len(arrived) = step - 7
  BY <1>1, <1>4 DEF LoadInv
<1>6. Plan(mission) \in Seq(Frames) /\ Len(Plan(mission)) = Duration(mission) + 1
  BY <1>2, PlanParts
<1>7. CASE /\ Len(arrived) = step - 6
           /\ \A i \in 1 .. Len(arrived) : arrived[i] = Plan(mission)[i]
  <2>1. Len(arrived) = Duration(mission) + 1
    BY <1>3, <1>7
  <2>2. arrived = Plan(mission)
    <3> DEFINE p == Plan(mission)
    <3> HIDE DEF p
    <3>1. p \in Seq(Frames) /\ Len(p) = Len(arrived)
          /\ \A i \in 1 .. Len(arrived) : arrived[i] = p[i]
      BY <1>6, <1>7, <2>1 DEF p
    <3>2. arrived = p
      BY <1>2, <3>1, SeqEqual
    <3> QED BY <3>2 DEF p
  <2> QED BY <1>5, <2>1, <2>2 DEF trajCheckCorrectLength
<1>8. CASE Len(arrived) = step - 7
  <2>1. Len(arrived) = Duration(mission) /\ Len(arrived) # Len(Plan(mission))
    BY <1>3, <1>6, <1>8
  <2>2. current_point # nb_point
    BY <1>3, <1>5, <2>1
  <2> QED BY <2>1, <2>2 DEF trajCheckCorrectLength
<1> QED BY <1>5, <1>7, <1>8

LEMMA TargetingInvInit == TargetingInit => TargetingInv
<1> SUFFICES ASSUME TargetingInit PROVE TargetingInv
  OBVIOUS
<1>1. /\ Init /\ mission = 0 /\ step = 1 /\ wake = 0 /\ ~pulse /\ slept = 0
      /\ faults = {} /\ slips = 0 /\ ordered = <<>> /\ arrived = <<>> /\ played = <<>>
      /\ armed.mission = 0 /\ armed.points = <<>>
  BY DEF TargetingInit
<1>2. TypeOK
  BY <1>1, InitTypeOK
<1>3. /\ state = NOMINAL /\ txPc = "pps" /\ input = NoInput /\ rtc = 0 /\ orderMbx = <<>>
  BY <1>1 DEF Init, TxInit, BoardInit, OrderFifo!Init
<1>4. ~IsEmergency(input) /\ ~IsDate(input) /\ ~Armed /\ state # EMERGENCY /\ Reading = 0
  BY <1>3, NoInputNoEmergency DEF IsDate, NoInput, Message, ID_MSG_ORDER_DO_TRAJ_AT_DATE,
     Armed, Reading, NOMINAL, EMERGENCY, WAITING_TIME, PROCESS_TRAJ
<1>5. Typed /\ Placed /\ Paced
  BY <1>1, <1>3, <1>4, ConstantTypes DEF Typed, Placed, Paced
<1>6. QueueInv
  <2>1. NextRead = 1
    BY <1>1, <1>3, <1>4 DEF NextRead
  <2>2. Spent = 0
    BY <1>1 DEF Spent
  <2>3. Due = 1 /\ Backlog = 0 /\ Quiet \in BOOLEAN
    BY <1>1, <1>3, <2>1, <2>2 DEF Due, Backlog, Quiet, Prompt, Undisturbed
  <2>4. Queued(<<>>, 0, 1, 0, Quiet)
    <3> DEFINE q == Quiet
    <3>1. q \in BOOLEAN
      BY <2>3
    <3> HIDE DEF q
    <3>2. Queued(<<>>, 0, 1, 0, q)
      BY <3>1, QueuedEmpty
    <3> QED BY <3>2 DEF q
  <2> QED BY <1>3, <2>3, <2>4 DEF QueueInv
<1>7. Len(orderMbx) = 0 /\ Len(ordered) = 0 /\ ~Loading
  BY <1>1, <1>3 DEF Loading
<1>8. DateInv /\ LoadInv /\ PlayInv /\ Written
  BY <1>1, <1>4, <1>7 DEF DateInv, LoadInv, PlayInv, Written
<1>9. PrepInv
  <2>1. Sent = 0 /\ Obeyed = 0
    BY <1>1, <1>4, <1>7 DEF Sent, Obeyed
  <2> QED BY <1>3, <1>4, <1>7, <2>1 DEF PrepInv
<1>10. Dyn
  BY <1>5, <1>6, <1>8, <1>9 DEF Dyn
<1>11. Running
  BY <1>1 DEF Init, BoardInit, Running
<1> QED BY <1>2, <1>10, <1>11 DEF TargetingInv

LEMMA TargetingInvNext ==
  ASSUME Timely, OneLoss, TargetingInv, [TargetingNext]_targetingVars
  PROVE  TargetingInv'
<1> SUFFICES TypeOK' /\ (Running' => Dyn')
             /\ (~Running' => LoadedBeforePlayed' /\ Written' /\ OrderedInTurn')
  BY DEF TargetingInv
<1>1. TypeOK /\ (Running => Dyn)
      /\ (~Running => LoadedBeforePlayed /\ Written /\ OrderedInTurn)
  BY DEF TargetingInv
<1>2. LoadedBeforePlayed /\ Written /\ OrderedInTurn
  BY <1>1, DynLoaded, DynOrdered DEF Dyn
<1>3. ASSUME UNCHANGED <<mission, slips, state, trajVars, ordered, armed, played>>,
             faults \subseteq faults'
      PROVE  LoadedBeforePlayed' /\ Written' /\ OrderedInTurn'
  <2>1. LoadedBeforePlayed' /\ Written'
    BY <1>2, <1>3 DEF LoadedBeforePlayed, Written, trajVars
  <2>2. Quiet' => Quiet
    BY <1>3 DEF Quiet, Undisturbed, Late, Prompt
  <2>3. OrderedInTurn'
    BY <1>2, <1>3, <2>2 DEF OrderedInTurn, Armed, IsPrefixOf
  <2> QED BY <2>1, <2>3
<1>4. CASE TargetingNext
  <2>1. Running /\ Dyn
    BY <1>1, <1>4, Stops
  <2>2. TypeOK'
    BY <1>1, <1>4, <2>1, TargetingType DEF Dyn
  <2>3. ASSUME Running' PROVE Dyn'
    <3>1. AntennaCycle => Turn
      BY <2>3, CycleMoves DEF Turn
    <3> QED BY <1>1, <1>4, <2>1, <2>3, <3>1, TurnDyn, LogsDyn, SecondDyn, InterfereDyn,
               RestartDyn, StartDyn, LoseDyn, SendDyn DEF TargetingNext
  <2>4. ~Running' => LoadedBeforePlayed' /\ Written' /\ OrderedInTurn'
    BY <1>3, <1>4, Stops
  <2> QED BY <2>2, <2>3, <2>4
<1>5. CASE UNCHANGED targetingVars
  <2>1. UNCHANGED <<vars, mission, step, wake, pulse, slept, faults, slips, ordered, arrived,
                    armed, played>>
    BY <1>5 DEF targetingVars, clientVars, environmentVars, historyVars
  <2>2. UNCHANGED <<orderVars, trajVars, rtc, panic, txVars>>
    BY <2>1 DEF vars, boardVars
  <2>3. TypeOK'
    BY <1>1, <2>1, NextTypeOK
  <2>4. Running' => Dyn'
    <3>1. UNCHANGED <<mission, step, wake, rtc, slips, faults, threadVars, orderMbx, keptVars>>
      BY <2>1, <2>2 DEF threadVars, keptVars, txVars, orderVars
    <3> QED BY <1>1, <2>2, <3>1, DynStays DEF Running
  <2>5. ~Running' => LoadedBeforePlayed' /\ Written' /\ OrderedInTurn'
    BY <1>3, <2>1, <2>2 DEF txVars
  <2> QED BY <2>3, <2>4, <2>5
<1> QED BY <1>4, <1>5

LEMMA TargetingInvariant ==
  ASSUME Timely, OneLoss PROVE TargetingSpec => []TargetingInv
<1>1. TargetingInv /\ [TargetingNext]_targetingVars => TargetingInv'
  BY TargetingInvNext
<1> QED BY <1>1, TargetingInvInit, PTL DEF TargetingSpec

(* Whatever faults happen, the table that the antenna thread plays is the   *)
(* one it was armed with: pcRxThread writes it without a lock while the     *)
(* thread tracks (handleTrajectory, trackingBehaviour), and only the        *)
(* client's sleep until the end of the pass (Targeting.c) prevents it.      *)
THEOREM TableIsKept ==
  ASSUME Timely, OneLoss PROVE TargetingSpec => []LoadedBeforePlayed
<1>1. TargetingInv => LoadedBeforePlayed
  BY DynLoaded DEF TargetingInv
<1> QED BY <1>1, TargetingInvariant, PTL

(* The index that trajCheckCorrectLength compares with the length tells     *)
(* whether all the points of the mission have arrived, when at most one     *)
(* message of a script is lost or corrupted.                                *)
THEOREM LengthTellsLoss ==
  ASSUME Timely, OneLoss PROVE TargetingSpec => []CheckTells
<1>1. TargetingInv => CheckTells
  BY DynTells DEF TargetingInv, CheckTells
<1> QED BY <1>1, TargetingInvariant, PTL

(* The frames that trackingBehaviour writes are the points that arrived, in *)
(* order and each once; and the three orders that prepare the antenna are   *)
(* obeyed in order before waitingBehaviour begins (executeTargeting).       *)
THEOREM FramesAreInOrder ==
  ASSUME Timely, OneLoss, Prompt PROVE TargetingSpec => []FramesInOrder
<1>1. TargetingInv => FramesInOrder
  <2> SUFFICES ASSUME TargetingInv PROVE FramesInOrder
    OBVIOUS
  <2>1. Written /\ OrderedInTurn
    BY DynOrdered DEF TargetingInv, Dyn
  <2> QED BY <2>1 DEF FramesInOrder, Written, OrderedInTurn, Quiet, Armed
<1> QED BY <1>1, TargetingInvariant, PTL

(* When nothing disturbs it, the client starts a mission only when the      *)
(* antenna thread has left the states WAITING_TIME and PROCESS_TRAJ of the  *)
(* last one and no order of it is left in Fifo_order (Automate.c's loop).   *)
THEOREM MissionsStartIdle ==
  ASSUME Timely, OneLoss, Prompt PROVE TargetingSpec => StartsWhenIdle
<1>1. ASSUME TargetingInv, TargetingNext, mission' > mission, Undisturbed
      PROVE  state = NOMINAL /\ orderMbx = <<>>
  <2>1. TypeOK /\ Dyn /\ Quiet
    BY <1>1, Stops DEF TargetingInv, Quiet
  <2>2. mission \in Nat
    BY <2>1, MissionsAssumption DEF Dyn, Typed
  <2>3. ~ClientRestarts
    BY <1>1, <2>2, RestartEffects
  <2>4. UNCHANGED mission \/ StartMission
    BY <1>1, <2>3 DEF TargetingNext, SendNext, LoseNext, Advances, AntennaCycle, Interferes,
       SendLogs, Second, clientVars
  <2>5. Awake
    BY <1>1, <2>2, <2>4, StartEffects
  <2> QED BY <2>1, <2>5, IdleWhenAwake
<1>2. TargetingInv /\ [TargetingNext]_targetingVars =>
        [mission' > mission /\ Undisturbed =>
           /\ state \notin {WAITING_TIME, PROCESS_TRAJ}
           /\ \A i \in DOMAIN orderMbx : IsEmergency(orderMbx[i])]_targetingVars
  BY <1>1 DEF NOMINAL, WAITING_TIME, PROCESS_TRAJ
<1> QED BY <1>2, TargetingInvariant, PTL DEF TargetingSpec, StartsWhenIdle
=============================================================================
