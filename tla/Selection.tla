----------------------------- MODULE Selection -----------------------------
(***************************************************************************)
(* How the automatic client chooses the satellite it follows (Automate.c). *)
(* The targets are read mission after mission, in the order of Prio.txt,   *)
(* which is their priority: 0 is the best.  A loop takes the next target   *)
(* to begin, gives it up for a better one that collides with it, follows   *)
(* the one it keeps until its end, and otherwise looks again a little      *)
(* later.  Time is in seconds, the files do not change, and one turn of    *)
(* the loop, the loading of a trajectory excepted, takes less than one.    *)
(***************************************************************************)
EXTENDS Integers, Sequences, FiniteSets

CONSTANTS PREPARATION_TIME, CHECKING_LOOP_TIME,
          LoadTimes,     \* what targetingFromFile may take
          Tables,        \* the targets, as the files give them
          LastDate       \* bound: time

VARIABLES targets,       \* possibles_targets[0 .. tot - 1]
          now,           \* the clock of the PC
          at,            \* what main does: "update", "check", "follow", "sleep"
          next,          \* index of the chosen target, 0 for none
          wake,          \* when the last sleep ends
          following,     \* the target whose trajectory is loaded, 0 for none
          since,         \* history: when the client started to follow it
          followed       \* history: targets it has started to follow

selectionVars == <<targets, now, at, next, wake, following, since, followed>>

Target == [beginning : Nat, ending : Nat, priority_level : Nat]

ASSUME SelectionAssumption ==
  /\ PREPARATION_TIME \in Nat /\ CHECKING_LOOP_TIME \in Nat /\ LastDate \in Nat
  /\ LoadTimes \subseteq Nat
  /\ \A d \in LoadTimes : d + 2 < PREPARATION_TIME
  /\ \A t \in Tables :
       /\ t \in Seq(Target)
       /\ \A i \in DOMAIN t : t[i].beginning <= t[i].ending

Init ==
  /\ targets \in Tables
  /\ now = 0 /\ at = "update" /\ next = 0 /\ wake = 0
  /\ following = 0 /\ since = 0 /\ followed = {}

checkTimeInTargetPeriod(t, target) ==
  /\ target.beginning - t < PREPARATION_TIME
  /\ t - target.ending < PREPARATION_TIME

checkTargetsCollision(tar1, tar2) ==
  \/ checkTimeInTargetPeriod(tar1.beginning, tar2)
  \/ checkTimeInTargetPeriod(tar1.ending, tar2)
  \/ checkTimeInTargetPeriod(tar2.beginning, tar1)
  \/ checkTimeInTargetPeriod(tar2.ending, tar1)

\* i has priority over j.
Better(i, j) == targets[i].priority_level < targets[j].priority_level
Collide(i, j) == checkTargetsCollision(targets[i], targets[j])

InPreparation(i) ==
  0 < targets[i].beginning - now /\ targets[i].beginning - now < PREPARATION_TIME

\* The earliest target in preparation; the first one read, when there are
\* several
IsNearest(i) ==
  /\ InPreparation(i)
  /\ \A j \in DOMAIN targets :
       InPreparation(j) =>
         \/ targets[i].beginning < targets[j].beginning
         \/ targets[i].beginning = targets[j].beginning /\ i <= j

(* updateTargetsTime: the files are read again.                             *)
updateTargetsTime ==
  /\ at \in {"update", "sleep"} /\ now >= wake
  /\ \/ \E i \in DOMAIN targets : IsNearest(i) /\ next' = i
     \/ (\A i \in DOMAIN targets : ~InPreparation(i)) /\ next' = 0
  /\ at' = "check" /\ following' = 0
  /\ UNCHANGED <<targets, now, wake, since, followed>>

\* Faulty variant: the wrong constant.
SleepPreparationTime == at' = "sleep" /\ wake' = now + PREPARATION_TIME

SleepCheckingTime == at' = "sleep" /\ wake' = now + CHECKING_LOOP_TIME

\* The targets that take precedence over the chosen one
Rivals ==
  {i \in DOMAIN targets : Better(i, next) /\ Collide(i, next) /\ targets[i].beginning > now}

(* checkForNextTargeting, one call: the chosen target stands, ...           *)
CheckKeeps ==
  /\ at = "check" /\ next # 0 /\ Rivals = {}
  /\ at' = "follow"
  /\ UNCHANGED <<targets, now, next, wake, following, since, followed>>

\* Faulty variant: the better target is not checked in its turn.
CheckReplacesAtOnce ==
  /\ at = "check" /\ next # 0
  /\ \E i \in Rivals :
       (\A j \in Rivals : i <= j) /\ InPreparation(i) /\ next' = i
  /\ at' = "follow"
  /\ UNCHANGED <<targets, now, wake, following, since, followed>>

(* ... or the first better target that collides with it replaces it and is  *)
(* checked in its turn, ...                                                 *)
CheckReplaces ==
  /\ at = "check" /\ next # 0
  /\ \E i \in Rivals :
       (\A j \in Rivals : i <= j) /\ InPreparation(i) /\ next' = i
  /\ UNCHANGED <<targets, now, at, wake, following, since, followed>>

(* ... or it is too early for that one, and nothing is followed.            *)
CheckWaits ==
  /\ at = "check" /\ next # 0
  /\ \E i \in Rivals : (\A j \in Rivals : i <= j) /\ ~InPreparation(i)
  /\ next' = 0 /\ SleepCheckingTime
  /\ UNCHANGED <<targets, now, following, since, followed>>

(* No next target                                                           *)
NoTarget ==
  /\ at = "check" /\ next = 0
  /\ SleepCheckingTime
  /\ UNCHANGED <<targets, now, next, following, since, followed>>

(* targetingFromFile loads the trajectory; the client sleeps until the end  *)
(* of the target.                                                           *)
Follow ==
  /\ at = "follow"
  /\ \E d \in LoadTimes :
       wake' = IF now + d < targets[next].ending THEN targets[next].ending ELSE now + d
  /\ at' = "sleep"
  /\ following' = next /\ since' = now /\ followed' = followed \union {next}
  /\ UNCHANGED <<targets, now, next>>

(* A second passes.                                                         *)
Second ==
  /\ now <= wake /\ now < LastDate
  /\ now' = now + 1
  /\ UNCHANGED <<targets, at, next, wake, following, since, followed>>

Next ==
  \/ updateTargetsTime
  \/ CheckKeeps \/ CheckReplaces \/ CheckWaits \/ NoTarget
  \/ Follow \/ Second

Spec == Init /\ [][Next]_selectionVars

-----------------------------------------------------------------------------
(* checkForNextTargeting: while the client follows a target, no target of   *)
(* a better mission begins.                                                 *)
BestIsFollowed ==
  following # 0 =>
    \A i \in DOMAIN targets :
      Better(i, following) =>
        targets[i].beginning <= since \/ now < targets[i].beginning

\* Nothing better collides with i.
Undisputed(i) == \A j \in DOMAIN targets : Better(j, i) => ~Collide(j, i)

\* Nobody gives i up by waiting for j, a better target than k for which it
\* is too early, when k collides with both.
Unconfused(i) ==
  \A j, k \in DOMAIN targets :
    Better(i, k) /\ Better(j, k) /\ Collide(i, k) /\ Collide(j, k) => Collide(i, j)

\* What is left of PREPARATION_TIME for the loading of a trajectory: a turn
\* of the loop and its sleep may each end a second late.
LoadingMargin == PREPARATION_TIME - CHECKING_LOOP_TIME - 2

(* A target that collides with no better one is not missed: the client      *)
(* has started to load its trajectory LoadingMargin before it begins,       *)
(* whatever it was following or giving up before.  Without Unconfused this  *)
(* is false of the code.                                                    *)
FollowedInTime ==
  \A i \in DOMAIN targets :
    Undisputed(i) /\ Unconfused(i) /\ now > targets[i].beginning - LoadingMargin
      => i \in followed
=============================================================================
