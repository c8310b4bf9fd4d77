---------------------------- MODULE AntennaModes ----------------------------
(***************************************************************************)
(* What the firmware promises to the operator of the antenna: it is idle,  *)
(* waits for the date of a trajectory, plays it, or holds the survival     *)
(* position; and an emergency that has been asked for comes before         *)
(* everything else.                                                        *)
(***************************************************************************)
VARIABLES mode,        \* what the antenna is doing
          emergency,   \* an emergency has been asked for and is not served yet
          down         \* the firmware has stopped

vars == <<mode, emergency, down>>

Init == mode = "NOMINAL" /\ emergency = FALSE /\ down = FALSE

AskEmergency == ~down /\ emergency' = TRUE /\ UNCHANGED <<mode, down>>

\* Only an emergency may change the mode while one is pending.
Step(from, to) ==
  /\ ~down /\ ~emergency
  /\ mode = from /\ mode' = to
  /\ UNCHANGED <<emergency, down>>

Arm    == Step("NOMINAL", "WAITING_TIME")
Begin  == Step("WAITING_TIME", "PROCESS_TRAJ")
Drop   == Step("WAITING_TIME", "NOMINAL")
Finish == Step("PROCESS_TRAJ", "NOMINAL")

\* Several emergencies may have been asked for: each is served in turn.
EnterSurvival ==
  /\ ~down /\ emergency /\ mode # "EMERGENCY"
  /\ mode' = "EMERGENCY" /\ emergency' \in BOOLEAN
  /\ UNCHANGED down

LeaveSurvival ==
  /\ ~down /\ mode = "EMERGENCY"
  /\ mode' = "NOMINAL"
  /\ UNCHANGED <<emergency, down>>

Fail == ~down /\ down' = TRUE /\ UNCHANGED <<mode, emergency>>

Next == \/ AskEmergency \/ Arm \/ Begin \/ Drop \/ Finish
        \/ EnterSurvival \/ LeaveSurvival \/ Fail

Safety == Init /\ [][Next]_vars

Spec == Safety /\ WF_vars(EnterSurvival) /\ WF_vars(LeaveSurvival)
=============================================================================
