---------------------------- MODULE MCTargeting ----------------------------
(***************************************************************************)
(* Missions for the runs of Targeting.                                     *)
(***************************************************************************)
EXTENDS Targeting, OperatorCommands

\* Frames are named after the line of the target file they come from.
McPosition(l)  == "position " \o l
McEphemeris(l) == "ephemeris " \o l

Lines == {"a1", "a2", "b1", "b2", "b3"}
McPoints == {McPosition(l) : l \in Lines} \cup {McEphemeris(l) : l \in Lines}
              \cup {"goto", "status"}

\* Two passes, the second one longer; and the first of them alone
TwoMissions == <<[lines |-> <<"a1", "a2">>, beginning |-> 13],
                 [lines |-> <<"b1", "b2", "b3">>, beginning |-> 28]>>
OneMission  == <<TwoMissions[1]>>
=============================================================================
