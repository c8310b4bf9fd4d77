----------------------------- MODULE Targeting -----------------------------
(***************************************************************************)
(* The automatic tracking of satellites: the client of Automate.c and      *)
(* Targeting.c drives the firmware.  For each mission it loads a target    *)
(* file, sends the orders that prepare the antenna, the trajectory and its *)
(* date, and sleeps until the end of the pass.                             *)
(*                                                                         *)
(* Time is modelled here by the second.  The real-time clock and the clock *)
(* of the PC are synchronous, the antenna thread's work, the logs of one   *)
(* second and the messages that the client sends 50 ms apart take less     *)
(* than a second.  A log takes 2 ms on the line of the PC: those of a      *)
(* cycle are sent before the next message of the client.                   *)
(*                                                                         *)
(* What may go wrong meanwhile: the user presses the button, the operator  *)
(* runs a command, a message is lost or corrupted on the serial line, a    *)
(* pulse is missing, the client is killed in the middle of its script and  *)
(* started again.  At most MaxFaults of these happen, each at most once.   *)
(* And a cycle without pulse lasts 1005 ms: at most MaxSlips seconds have  *)
(* no cycle.                                                               *)
(***************************************************************************)
EXTENDS Firmware, FiniteSets

CONSTANTS
  Missions,                        \* sequence of [lines, beginning]
  Position(_), Ephemeris(_),       \* computeAntennaMessage, in its two modes
  PREPARATION_TIME,
  LoadingMargin,                   \* assumed: seconds left when a mission starts
  TIME_BEFORE_REINI_AND_CALAGE,
  EMERGENCY_SEC_TIMEOUT,
  Faults,                          \* the faults that may happen, of FaultKinds
  MaxFaults, MaxSlips              \* bounds: faults, seconds without a cycle

VARIABLES mission,   \* the mission being executed, 0 before the first
          step,      \* the next message of its script
          wake,      \* when the client's last sleep ends
          pulse,     \* the antenna thread has still to begin a cycle this second
          slept,     \* seconds of emergencyBehaviour's sleep that have passed
          faults,    \* what has gone wrong so far
          slips,     \* seconds that had no cycle
          ordered,   \* history: frames written for the orders since the mission
                     \* began, survival frames excepted
          arrived,   \* history: points that reached the table since it was
                     \* emptied or its length set
          armed,     \* history: the mission whose DO_TRAJ_AT_DATE was obeyed last,
                     \* and the points that had arrived by then
          played     \* history: frames of that trajectory written to the antenna

clientVars == <<mission, step, wake>>
environmentVars == <<faults, slips>>
historyVars == <<ordered, arrived, armed, played>>
targetingVars == <<vars, clientVars, pulse, slept, environmentVars, historyVars>>

FaultKinds == {"button", "command", "lost", "corrupted", "silent", "restart"}

ASSUME FaultsAssumption ==
  Faults \subseteq FaultKinds /\ MaxFaults \in Nat /\ MaxSlips \in Nat

\* The array of the client has MAX_TRAJ_LENGTH points, one more than a file
\* has lines; a mission is known by its beginning.
ASSUME MissionsAssumption ==
  \A m \in DOMAIN Missions :
    /\ m \in Nat \ {0} /\ Missions[m].beginning \in Nat
    /\ \A k \in DOMAIN Missions :
         Missions[k].beginning = Missions[m].beginning => k = m
    /\ Len(Missions[m].lines) \in 1 .. (MAX_TRAJ_LENGTH - 1)
    /\ DOMAIN Missions[m].lines = 1 .. Len(Missions[m].lines)
    /\ \A i \in DOMAIN Missions[m].lines :
         {Position(Missions[m].lines[i]), Ephemeris(Missions[m].lines[i])} \subseteq Frames

ASSUME ClientAssumption ==
  /\ PREPARATION_TIME \in Nat /\ LoadingMargin \in Nat \ {0}
  /\ TIME_BEFORE_REINI_AND_CALAGE \in Nat /\ EMERGENCY_SEC_TIMEOUT \in Nat

\* The operator's programs send no order of a trajectory.
ASSUME OperatorAssumption ==
  \A m \in PcMessages : m.id \in KnownCommunIds \ {ID_MSG_ORDER_DO_TRAJ_AT_DATE}

\* loadTargetFile: the first line gives two points
Plan(m) ==
  LET lines == Missions[m].lines
  IN  <<Position(lines[1])>> \o [i \in DOMAIN lines |-> Ephemeris(lines[i])]

\* extractTimeFromFile: one line per second, the last one ends the mission
Beginning(m) == Missions[m].beginning
Ending(m)    == Missions[m].beginning + Len(Missions[m].lines) - 1

OrderMessage(id) == Message(id, ZeroFrame, 0)

\* executeTargeting, message by message
Script(m) ==
  <<OrderMessage(ID_MSG_ORDER_DESACTIVATE),
    OrderMessage(ID_MSG_ORDER_REINI),
    OrderMessage(ID_MSG_ORDER_CALAGE),
    OrderMessage(ID_MSG_ORDER_TRAJ_REINI),
    Message(ID_MSG_ORDER_TRAJ_SET_LENGTH, ZeroFrame, Len(Plan(m)))>>
  \o [i \in DOMAIN Plan(m) |-> Message(ID_MSG_ORDER_TRAJ_SET_NEW_POINT, Plan(m)[i], 0)]
  \o <<Message(ID_MSG_ORDER_DO_TRAJ_AT_DATE, ZeroFrame, Beginning(m))>>

Pause(i) == IF i \in {1, 2} THEN TIME_BEFORE_REINI_AND_CALAGE ELSE 0

Executing == mission # 0 /\ step <= Len(Script(mission))

TargetingInit ==
  /\ Init
  /\ mission = 0 /\ step = 1 /\ wake = 0 /\ pulse = FALSE /\ slept = 0
  /\ faults = {} /\ slips = 0
  /\ ordered = <<>> /\ arrived = <<>> /\ played = <<>>
  /\ armed = [mission |-> 0, points |-> <<>>]

LogsSent == logMbx = <<>> /\ ~Holds

\* One more fault of this kind
Happens(kind) ==
  /\ LogsSent
  /\ kind \in Faults \ faults
  /\ Cardinality(faults) < MaxFaults
  /\ faults' = faults \cup {kind}
  /\ UNCHANGED slips

\* Faulty variant: the client does not sleep.
AwakeAtOnce == ~Executing

\* sleep(MAX(difftime(ending, now), 0)) is over.
Awake == ~Executing /\ (mission # 0 => rtc >= Ending(mission))

\* A client that was killed may have less time left: any target that has not
\* begun may be the next.
Margin == IF "restart" \in faults THEN 1 ELSE LoadingMargin

(* The client selects a target that begins soon and starts its script.      *)
(* Which one, when there are several, is left open here: it depends on      *)
(* their dates and on the priorities that checkForNextTargeting compares.   *)
StartMission ==
  /\ Running /\ Awake /\ LogsSent
  /\ \E m \in DOMAIN Missions :
       /\ Beginning(m) - rtc \in Margin .. (PREPARATION_TIME - 1)
       /\ mission' = m
  /\ step' = 1 /\ wake' = rtc /\ ordered' = <<>>
  /\ UNCHANGED <<vars, pulse, slept, environmentVars, arrived, armed, played>>

\* The client goes on to its next message.
Advances ==
  /\ LogsSent /\ Executing /\ rtc >= wake
  /\ step' = step + 1
  /\ wake' = IF Pause(step) > 0 THEN rtc + Pause(step) ELSE wake
  /\ UNCHANGED <<txVars, mission, pulse, slept>>

\* What has arrived once the firmware has handled message m
ArrivedWith(m) ==
  CASE m.id \in {ID_MSG_ORDER_TRAJ_REINI, ID_MSG_ORDER_TRAJ_SET_LENGTH} -> <<>>
    [] m.id = ID_MSG_ORDER_TRAJ_SET_NEW_POINT -> Append(arrived, m.frame)
    [] OTHER -> arrived

(* The next message of the script crosses the pipe, the server and the      *)
(* serial line, and pcRxThread handles it.                                  *)
SendNext ==
  /\ CpuFree /\ Advances
  /\ handleIncomingMessage(Script(mission)[step])
  /\ arrived' = IF Running' THEN ArrivedWith(Script(mission)[step]) ELSE arrived
  /\ UNCHANGED <<environmentVars, ordered, armed, played>>

(* It is lost, or a byte of it is changed: the client learns nothing of it. *)
LoseNext ==
  /\ CpuFree /\ Running /\ Advances
  /\ \/ Happens("lost") /\ UNCHANGED <<boardVars, pcVars>>
     \/ Happens("corrupted") /\ ReceiveCrcError
  /\ UNCHANGED historyVars

(* The client is killed while it sends its script, and started again.       *)
ClientRestarts ==
  /\ Running /\ Executing /\ Happens("restart")
  /\ mission' = 0 /\ step' = 1 /\ wake' = 0
  /\ UNCHANGED <<vars, pulse, slept, historyVars>>

\* The steps of the antenna thread that write to the antenna line, the
\* survival frame excepted
ObeysAntennaOrder ==
  txPc = "dispatch" /\ state = NOMINAL /\ input.id = ID_MSG_ORDER_ANTENNA
                    /\ ~IsEmergency(input)
ArmsTrajectory ==
  txPc = "dispatch" /\ state = NOMINAL /\ input.id = ID_MSG_ORDER_DO_TRAJ_AT_DATE
Tracks == txPc = "behave" /\ state = PROCESS_TRAJ

\* The mission that begins at a date
MissionAt(date) == CHOOSE m \in DOMAIN Missions : Beginning(m) = date

RecordWritten ==
  /\ ordered' = IF ObeysAntennaOrder THEN Append(ordered, antenna') ELSE ordered
  /\ armed' = IF ArmsTrajectory
                THEN [mission |-> MissionAt(input.value), points |-> arrived] ELSE armed
  /\ played' = CASE ArmsTrajectory      -> <<antenna'>>
                 [] Tracks /\ Running' -> Append(played, antenna')
                 [] OTHER              -> played
  /\ UNCHANGED arrived

(* The antenna thread: its cycle begins on a pulse, or without one.  An     *)
(* emergency ends when the sleep has.                                       *)
AntennaCycle ==
  /\ txPc = "survival" => slept = EMERGENCY_SEC_TIMEOUT
  /\ slept' = IF txPc = "survival" THEN 0 ELSE slept
  /\ CASE txPc # "pps" -> TxNext /\ UNCHANGED <<pulse, environmentVars>>
       [] txPc = "pps" -> /\ LogsSent /\ pulse /\ pulse' = FALSE
                          /\ \/ PpsEdge /\ UNCHANGED environmentVars
                             \/ PpsTimeout /\ Happens("silent")
  /\ RecordWritten
  /\ UNCHANGED <<pcVars, clientVars>>

(* What the user and the operator may do: the button, and a command.        *)
Interferes ==
  /\ CpuFree
  /\ \/ Happens("button") /\ UserButton
     \/ Happens("command") /\ \E m \in PcMessages : handleIncomingMessage(m)
  /\ UNCHANGED <<txVars, clientVars, pulse, slept, historyVars>>

SendLogs ==
  PcTxThread /\ UNCHANGED <<clientVars, pulse, slept, environmentVars, historyVars>>

(* A second passes: the cycle of the last one is over, its logs are sent    *)
(* and the client is not late by more than a second.  The edge is missed by *)
(* a thread that does not wait for it, and when the cycles are too long a   *)
(* second may begin and end in the middle of one.                           *)
Second ==
  /\ CpuFree /\ ~pulse /\ LogsSent
  /\ Executing => rtc <= wake
  /\ txPc = "survival" => slept < EMERGENCY_SEC_TIMEOUT
  /\ ClockTick
  /\ slept' = IF txPc = "survival" THEN slept + 1 ELSE slept
  /\ \/ pulse' = (txPc = "pps") /\ UNCHANGED slips
     \/ /\ txPc = "pps" /\ slips < MaxSlips
        /\ pulse' = FALSE /\ slips' = slips + 1
  /\ UNCHANGED <<clientVars, faults, historyVars>>

TargetingNext ==
  \/ StartMission \/ SendNext \/ LoseNext \/ ClientRestarts
  \/ AntennaCycle \/ Interferes \/ SendLogs \/ Second

TargetingSpec == TargetingInit /\ [][TargetingNext]_targetingVars

(* The client sends its messages, the threads run, and time passes.         *)
TargetingFairSpec ==
  /\ TargetingSpec
  /\ WF_targetingVars(SendNext) /\ WF_targetingVars(AntennaCycle)
  /\ WF_targetingVars(SendLogs) /\ WF_targetingVars(Second)

-----------------------------------------------------------------------------
\* The orders that prepare the antenna for a mission
Preparation == <<ANTENNA_DESACTIVATE, ANTENNA_REINI, ANTENNA_CALLAGE>>

Late == slips > 2

\* Nothing has happened that hides a message of the script from the firmware,
\* adds an order to it, or keeps the antenna thread beyond the client's sleep.
Undisturbed == faults \subseteq {"silent"} /\ ~Late

IsPrefixOf(s, t) == Len(s) <= Len(t) /\ \A i \in DOMAIN s : s[i] = t[i]

(* Whatever goes wrong, the frames of a trajectory that reach the antenna   *)
(* are the points that arrived for it, in order and each once, and as many  *)
(* as were announced: a stale entry is played only at the end, in the place *)
(* of a lost one.  The orders of an undisturbed mission are obeyed in order *)
(* and all of them before its trajectory.                                   *)
FramesInOrder ==
  /\ \A i \in DOMAIN played \cap DOMAIN armed.points : played[i] = armed.points[i]
  /\ armed.mission # 0 => Len(played) <= Len(Plan(armed.mission))
  /\ Undisturbed => IsPrefixOf(ordered, Preparation)
  /\ Undisturbed /\ state \in {WAITING_TIME, PROCESS_TRAJ} /\ armed.mission = mission =>
       ordered = Preparation

(* The trajectory that the antenna thread plays is the one it was armed     *)
(* with: pcRxThread does not touch the table before the tracking is over,   *)
(* although the client sleeps until a date and not until then.              *)
LoadedBeforePlayed ==
  state = PROCESS_TRAJ =>
    /\ armed.mission # 0
    /\ nb_point = Len(Plan(armed.mission))
    /\ \A i \in DOMAIN armed.points : table[i - 1] = armed.points[i]

(* What the firmware would answer to CHECK_CORRECT, which no client asks    *)
(* for, when the client is about to give the date: the points of the        *)
(* mission have all arrived, or have not.                                   *)
CheckTells ==
  Running /\ Executing /\ step = Len(Script(mission)) =>
    (trajCheckCorrectLength <=> arrived = Plan(mission))

(* The client wakes up after the end of the pass: when it starts a mission, *)
(* the antenna thread has finished the previous one, and no order of it     *)
(* waits.                                                                   *)
StartsWhenIdle ==
  [][mission' > mission /\ Undisturbed =>
       /\ state \notin {WAITING_TIME, PROCESS_TRAJ}
       /\ \A i \in DOMAIN orderMbx : IsEmergency(orderMbx[i])]_targetingVars

(* A mission started in time is accomplished, unless something happens.     *)
MissionsAccomplished ==
  \A m \in DOMAIN Missions :
    (mission = m) ~> \/ ordered = Preparation /\ armed.mission = m /\ played = Plan(m)
                     \/ ~Undisturbed
=============================================================================
