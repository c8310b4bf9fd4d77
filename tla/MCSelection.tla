---------------------------- MODULE MCSelection ----------------------------
(***************************************************************************)
(* Targets for the runs of Selection.                                      *)
(***************************************************************************)
EXTENDS Selection

CONSTANTS Beginnings, Durations, Priorities   \* bounds of the targets

Targets ==
  {[beginning |-> b, ending |-> b + d, priority_level |-> p] :
     b \in Beginnings, d \in Durations, p \in Priorities}

\* Missions are read by priority, and the passes of one mission are far from
\* each other.
Read(t) ==
  \A i, j \in DOMAIN t :
    i < j => /\ t[i].priority_level <= t[j].priority_level
             /\ t[i].priority_level = t[j].priority_level => ~checkTargetsCollision(t[i], t[j])

McTables == {t \in [1 .. 3 -> Targets] : Read(t)}
=============================================================================
