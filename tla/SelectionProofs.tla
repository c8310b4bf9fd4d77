-------------------------- MODULE SelectionProofs --------------------------
(***************************************************************************)
(* While the client follows a target no better one begins, whatever the    *)
(* files say.  The invariant follows the choice through the turn of the    *)
(* loop: the chosen target has not begun when the turn begins, the targets *)
(* that take precedence over it have begun when the check keeps it, and    *)
(* the better ones that have not are PREPARATION_TIME behind its end.      *)
(*   A target that collides with no better one is followed in time if the  *)
(* files are Planned and the client is not late for reasons of its own     *)
(* (Known): no sleep goes far beyond the moment the target comes into      *)
(* preparation, and a turn of the loop that begins after that moment ends  *)
(* with it, whatever the loop takes first.                                 *)
(***************************************************************************)
EXTENDS Selection, TLAPS

\* The turn of the loop that begins at wake is not over.
Busy == at \in {"check", "follow"}

TypeInv ==
  /\ targets \in Tables
  /\ now \in Nat /\ wake \in Nat /\ since \in Nat
  /\ at \in {"update", "check", "follow", "sleep"}
  /\ next \in {0} \union DOMAIN targets
  /\ following \in {0} \union DOMAIN targets

OnTime == now <= wake + 1 /\ (Busy => wake <= now)

Chosen ==
  Busy /\ next # 0 =>
    /\ wake < targets[next].beginning
    /\ targets[next].beginning - now < PREPARATION_TIME

Settled ==
  at = "follow" =>
    /\ next # 0
    /\ \A i \in DOMAIN targets :
         Better(i, next) /\ Collide(i, next) => targets[i].beginning <= now

Followed ==
  following # 0 =>
    /\ at = "sleep"
    /\ wake + 2 < targets[following].ending + PREPARATION_TIME
    /\ \A i \in DOMAIN targets :
         Better(i, following) =>
           \/ targets[i].beginning <= since
           \/ targets[following].ending + PREPARATION_TIME <= targets[i].beginning

IInv == TypeInv /\ OnTime /\ Chosen /\ Settled /\ Followed

\* The dates of a table are dates, in order, and its priorities numbers.
LEMMA TableDates ==
  ASSUME NEW t \in Tables, NEW i \in DOMAIN t
  PROVE  /\ t[i].beginning \in Nat /\ t[i].ending \in Nat
         /\ t[i].beginning <= t[i].ending
         /\ t[i].priority_level \in Nat
<1>1. t \in Seq(Target) /\ t[i].beginning <= t[i].ending
  BY SelectionAssumption DEF SelectionAssumption
<1>2. t[i] \in Target
  BY <1>1
<1>. QED  BY <1>1, <1>2 DEF Target

LEMMA Initially == Init => IInv
BY SelectionAssumption
DEF SelectionAssumption, Init, IInv, TypeInv, OnTime, Busy, Chosen, Settled, Followed

\* A target that does not collide with one in preparation ended long ago or
\* begins long after.
LEMMA NoCollision ==
  ASSUME TypeInv, NEW i \in DOMAIN targets, NEW j \in DOMAIN targets,
         ~Collide(i, j), targets[j].beginning - now < PREPARATION_TIME
  PROVE  \/ targets[i].beginning <= now
         \/ targets[j].ending + PREPARATION_TIME <= targets[i].beginning
<1>1. ~checkTimeInTargetPeriod(targets[i].beginning, targets[j])
  BY DEF Collide, checkTargetsCollision
<1>2. /\ targets[i].beginning \in Nat
      /\ targets[j].beginning \in Nat /\ targets[j].ending \in Nat
  BY TableDates DEF TypeInv
<1>. QED
  BY <1>1, <1>2, SelectionAssumption
  DEF checkTimeInTargetPeriod, SelectionAssumption, TypeInv

LEMMA Inductive == IInv /\ [Next]_selectionVars => IInv'
<1>. SUFFICES ASSUME IInv, [Next]_selectionVars  PROVE IInv'
  OBVIOUS
<1>. USE SelectionAssumption DEF SelectionAssumption
<1>0. \A i \in DOMAIN targets :
        /\ targets[i].beginning \in Nat /\ targets[i].ending \in Nat
        /\ targets[i].beginning <= targets[i].ending
  BY TableDates DEF IInv, TypeInv
<1>1. CASE updateTargetsTime
  <2>1. TypeInv'
    BY <1>1 DEF updateTargetsTime, IInv, TypeInv
  <2>2. OnTime'
    BY <1>1 DEF updateTargetsTime, IInv, TypeInv, OnTime, Busy
  <2>3. Chosen'
    BY <1>0, <1>1
    DEF updateTargetsTime, IsNearest, InPreparation, IInv, TypeInv, Chosen, Busy
  <2>4. Settled' /\ Followed'
    BY <1>1 DEF updateTargetsTime, Settled, Followed
  <2>. QED  BY <2>1, <2>2, <2>3, <2>4 DEF IInv
<1>2. CASE CheckKeeps
  <2>1. TypeInv' /\ OnTime' /\ Chosen' /\ Followed'
    BY <1>2 DEF CheckKeeps, IInv, TypeInv, OnTime, Chosen, Followed, Better, Busy
  <2>2. Settled'
    <3>. SUFFICES ASSUME NEW i \in DOMAIN targets, Better(i, next), Collide(i, next)
                  PROVE  targets[i].beginning <= now
      BY <1>2 DEF CheckKeeps, Settled, Better, Collide
    <3>1. ~(targets[i].beginning > now)
      BY <1>2 DEF CheckKeeps, Rivals
    <3>. QED  BY <1>0, <3>1 DEF IInv, TypeInv
  <2>. QED  BY <2>1, <2>2 DEF IInv
<1>3. CASE CheckReplaces
  <2>1. TypeInv'
    BY <1>3 DEF CheckReplaces, Rivals, IInv, TypeInv
  <2>2. OnTime' /\ Settled' /\ Followed'
    BY <1>3 DEF CheckReplaces, IInv, TypeInv, OnTime, Settled, Followed, Better, Busy
  <2>3. Chosen'
    BY <1>0, <1>3
    DEF CheckReplaces, Rivals, InPreparation, IInv, TypeInv, OnTime, Chosen, Busy
  <2>. QED  BY <2>1, <2>2, <2>3 DEF IInv
<1>4. CASE CheckWaits \/ NoTarget
  <2>1. TypeInv' /\ OnTime'
    BY <1>4
    DEF CheckWaits, NoTarget, SleepCheckingTime, IInv, TypeInv, OnTime, Busy
  <2>2. Chosen' /\ Settled' /\ Followed'
    BY <1>4
    DEF CheckWaits, NoTarget, SleepCheckingTime, IInv, Chosen, Settled, Followed, Busy
  <2>. QED  BY <2>1, <2>2 DEF IInv
<1>5. CASE Follow
  <2>1. PICK d \in LoadTimes :
          wake' = IF now + d < targets[next].ending THEN targets[next].ending ELSE now + d
    BY <1>5 DEF Follow
  <2>2. /\ next \in DOMAIN targets
        /\ wake < targets[next].beginning
        /\ targets[next].beginning - now < PREPARATION_TIME
    BY <1>5 DEF Follow, IInv, TypeInv, Chosen, Settled, Busy
  <2>3. now <= targets[next].ending
    BY <1>0, <2>2 DEF IInv, TypeInv, OnTime
  <2>4. TypeInv'
    BY <1>0, <1>5, <2>1, <2>2 DEF Follow, IInv, TypeInv
  <2>5. OnTime' /\ Chosen' /\ Settled'
    BY <1>0, <1>5, <2>1, <2>2
    DEF Follow, IInv, TypeInv, OnTime, Chosen, Settled, Busy
  <2>6. Followed'
    <3>1. wake' + 2 < targets[next].ending + PREPARATION_TIME
      <4>1. /\ d \in Nat /\ PREPARATION_TIME \in Nat /\ d + 2 < PREPARATION_TIME
            /\ now \in Nat /\ targets[next].ending \in Nat
        BY <1>0, <2>2 DEF IInv, TypeInv
      <4>. QED  BY <2>1, <2>3, <4>1
    <3>2. ASSUME NEW i \in DOMAIN targets, Better(i, next)
          PROVE  \/ targets[i].beginning <= now
                 \/ targets[next].ending + PREPARATION_TIME <= targets[i].beginning
      <4>1. CASE Collide(i, next)
        BY <1>5, <3>2, <4>1 DEF Follow, IInv, Settled
      <4>2. CASE ~Collide(i, next)
        BY <2>2, <4>2, NoCollision DEF IInv
      <4>. QED  BY <4>1, <4>2
    <3>. QED  BY <1>5, <3>1, <3>2 DEF Follow, Followed, Better
  <2>. QED  BY <2>4, <2>5, <2>6 DEF IInv
<1>6. CASE Second
  <2>1. TypeInv' /\ OnTime'
    BY <1>6 DEF Second, IInv, TypeInv, OnTime, Busy
  <2>2. Chosen'
    BY <1>0, <1>6 DEF Second, IInv, TypeInv, Chosen, Busy
  <2>3. Settled'
    BY <1>0, <1>6 DEF Second, IInv, TypeInv, Settled, Better, Collide
  <2>4. Followed'
    BY <1>6 DEF Second, IInv, Followed, Better
  <2>. QED  BY <2>1, <2>2, <2>3, <2>4 DEF IInv
<1>7. CASE UNCHANGED selectionVars
  BY <1>7
  DEF selectionVars, IInv, TypeInv, OnTime, Chosen, Settled, Followed, Better, Collide, Busy
<1>. QED
  BY <1>1, <1>2, <1>3, <1>4, <1>5, <1>6, <1>7 DEF Next

\* The better target that has not begun begins after the end of the sleep.
LEMMA Implied == IInv => BestIsFollowed
<1>. SUFFICES ASSUME IInv, following # 0, NEW i \in DOMAIN targets, Better(i, following)
              PROVE  targets[i].beginning <= since \/ now < targets[i].beginning
  BY DEF BestIsFollowed
<1>1. /\ targets[following].ending \in Nat
      /\ targets[i].beginning \in Nat
  BY TableDates DEF IInv, TypeInv
<1>. QED
  BY <1>1, SelectionAssumption
  DEF SelectionAssumption, IInv, TypeInv, OnTime, Followed

(* For all targets and times, as long as a trajectory loads two seconds     *)
(* faster than PREPARATION_TIME: while a target is followed, no target of a *)
(* better mission begins (checkForNextTargeting).                           *)
THEOREM BestFollowed == Spec => []BestIsFollowed
<1>1. Spec => []IInv
  BY Initially, Inductive, PTL DEF Spec
<1>. QED  BY <1>1, Implied, PTL

-----------------------------------------------------------------------------
\* What the files of the missions say: they are read in the order of Prio.txt,
\* and two passes of one satellite are an orbit apart.
Planned ==
  \A t \in Tables : \A i, j \in DOMAIN t :
    /\ i < j => t[i].priority_level <= t[j].priority_level
    /\ i # j /\ t[i].priority_level = t[j].priority_level =>
         ~checkTargetsCollision(t[i], t[j])

\* The client starts before it has to load the first target, and no loading
\* takes longer than the pass and a turn of the loop.
Known ==
  /\ 0 < LoadingMargin
  /\ \A t \in Tables : \A i \in DOMAIN t :
       /\ LoadingMargin < t[i].beginning
       /\ \A d \in LoadTimes :
            d <= t[i].ending - t[i].beginning + CHECKING_LOOP_TIME + 1

\* A target the client owes: it has not followed i yet.
Expected(i) == i \notin followed /\ Undisputed(i) /\ Unconfused(i)

\* No sleep ends much later than i comes into preparation.
Early(i) == wake <= targets[i].beginning - PREPARATION_TIME + CHECKING_LOOP_TIME + 1

\* The turn of the loop has begun before i came into preparation, ...
NotYet(i) ==
  \/ now <= targets[i].beginning - PREPARATION_TIME
  \/ wake < now /\ now <= targets[i].beginning - PREPARATION_TIME + 1

\* ... or it ends with i.
OnTheWay(i) ==
  /\ targets[i].beginning - now < PREPARATION_TIME
  /\ next # 0
  /\ next = i \/ (Better(i, next) /\ Collide(i, next))

InView ==
  \A i \in DOMAIN targets :
    Expected(i) => Early(i) /\ (at = "check" => NotYet(i) \/ OnTheWay(i))

\* Collisions are mutual.
LEMMA CollideBoth ==
  ASSUME NEW i, NEW j, Collide(i, j)
  PROVE  Collide(j, i)
BY DEF Collide, checkTargetsCollision

\* What collides with a target nothing better disputes is worse than it.
LEMMA OnlyWorse ==
  ASSUME TypeInv, Planned, NEW i \in DOMAIN targets, NEW k \in DOMAIN targets,
         Undisputed(i), Collide(i, k), i # k
  PROVE  Better(i, k)
<1>1. Collide(k, i)
  BY CollideBoth
<1>2. ~(targets[k].priority_level < targets[i].priority_level)
  BY <1>1 DEF Undisputed, Better
<1>3. targets[k].priority_level # targets[i].priority_level
  BY DEF Planned, TypeInv, Collide
<1>4. targets[k].priority_level \in Nat /\ targets[i].priority_level \in Nat
  BY TableDates DEF TypeInv
<1>. QED  BY <1>2, <1>3, <1>4 DEF Better

\* A target the client owes has not begun.
LEMMA StillAhead ==
  ASSUME IInv, Known, NEW i \in DOMAIN targets, Early(i)
  PROVE  now <= targets[i].beginning - LoadingMargin /\ now < targets[i].beginning
<1>1. targets[i].beginning \in Nat
  BY TableDates DEF IInv, TypeInv
<1>. QED
  BY <1>1, SelectionAssumption
  DEF SelectionAssumption, IInv, TypeInv, OnTime, Early, Known, LoadingMargin

\* The first of the targets that take precedence over the chosen one is i
\* itself, when the loop is on its way to it.
LEMMA FirstRival ==
  ASSUME TypeInv, Planned, NEW i \in DOMAIN targets, Undisputed(i), Unconfused(i),
         OnTheWay(i), now < targets[i].beginning,
         NEW j \in Rivals, \A k \in Rivals : j <= k
  PROVE  j = i /\ InPreparation(i)
<1>1. /\ next \in DOMAIN targets
      /\ j \in DOMAIN targets /\ Better(j, next) /\ Collide(j, next)
  BY DEF TypeInv, OnTheWay, Rivals
<1>2. next # i
  BY <1>1 DEF Undisputed
<1>3. Better(i, next) /\ Collide(i, next)
  BY <1>2 DEF OnTheWay
<1>4. targets[i].beginning \in Nat /\ now \in Nat
  BY TableDates DEF TypeInv
<1>5. i \in Rivals
  BY <1>3, <1>4 DEF Rivals
<1>6. Collide(i, j)
  BY <1>1, <1>3 DEF Unconfused
<1>7. i \in Nat /\ j \in Nat
  BY <1>1, SelectionAssumption DEF SelectionAssumption, TypeInv
<1>8. ASSUME j # i  PROVE FALSE
  <2>1. Better(i, j)
    BY <1>1, <1>6, <1>8, OnlyWorse
  <2>2. j < i
    BY <1>5, <1>7, <1>8
  <2>3. targets[j].priority_level <= targets[i].priority_level
    BY <1>1, <2>2 DEF Planned, TypeInv
  <2>4. targets[j].priority_level \in Nat /\ targets[i].priority_level \in Nat
    BY <1>1, TableDates DEF TypeInv
  <2>. QED  BY <2>1, <2>3, <2>4 DEF Better
<1>9. InPreparation(i)
  BY <1>4 DEF InPreparation, OnTheWay
<1>. QED  BY <1>8, <1>9

LEMMA InViewAtFirst == ASSUME Known, Init PROVE InView
<1>1. ASSUME NEW i \in DOMAIN targets  PROVE Early(i)
  <2>1. targets[i].beginning \in Nat
    BY TableDates DEF Init
  <2>2. LoadingMargin < targets[i].beginning
    BY DEF Known, Init
  <2>. QED
    BY <2>1, <2>2, SelectionAssumption
    DEF SelectionAssumption, Init, Early, LoadingMargin
<1>. QED  BY <1>1 DEF InView, Init

\* What a step leaves of the claim about i: only the clock, the sleep and the
\* choice move, and a target that has been followed stays so.
LEMMA InViewStep ==
  ASSUME Planned, Known, IInv, InView, [Next]_selectionVars,
         NEW i \in DOMAIN targets', Expected(i)'
  PROVE  Early(i)' /\ (at' = "check" => NotYet(i)' \/ OnTheWay(i)')
<1>. DEFINE b == targets[i].beginning
            P == PREPARATION_TIME
            C == CHECKING_LOOP_TIME
<1>1. targets' = targets
  BY DEF Next, updateTargetsTime, CheckKeeps, CheckReplaces, CheckWaits, NoTarget,
         Follow, Second, selectionVars
<1>2. followed \subseteq followed'
  BY DEF Next, updateTargetsTime, CheckKeeps, CheckReplaces, CheckWaits, NoTarget,
         Follow, Second, selectionVars
<1>3. i \in DOMAIN targets /\ Expected(i) /\ Undisputed(i) /\ Unconfused(i)
  BY <1>1, <1>2 DEF Expected, Undisputed, Unconfused, Better, Collide
<1>4. Early(i) /\ (at = "check" => NotYet(i) \/ OnTheWay(i))
  BY <1>3 DEF InView
<1>5. now < b /\ now <= b - LoadingMargin
  BY <1>3, <1>4, StillAhead
<1>6. /\ b \in Nat /\ now \in Nat /\ wake \in Nat /\ P \in Nat /\ C \in Nat
      /\ targets'[i].beginning = b
  BY <1>1, <1>3, TableDates, SelectionAssumption DEF SelectionAssumption, IInv, TypeInv
<1>7. TypeInv
  BY DEF IInv
<1>8. CASE updateTargetsTime
  <2>1. Early(i)'
    BY <1>1, <1>4, <1>8 DEF updateTargetsTime, Early
  <2>2. wake' = wake /\ now' = now
    BY <1>8 DEF updateTargetsTime
  <2>3. CASE b - now >= P
    BY <1>6, <2>1, <2>2, <2>3 DEF NotYet
  <2>4. CASE b - now < P
    <3>1. InPreparation(i)
      BY <1>5, <1>6, <2>4 DEF InPreparation
    <3>2. PICK k \in DOMAIN targets : IsNearest(k) /\ next' = k
      BY <1>3, <1>8, <3>1 DEF updateTargetsTime
    <3>3. /\ targets[k].beginning \in Nat
          /\ targets[k].beginning <= b /\ now < targets[k].beginning
      <4>1. targets[k].beginning \in Nat
        BY <1>7, TableDates DEF TypeInv
      <4>2. targets[k].beginning < b \/ targets[k].beginning = b
        BY <1>3, <3>1, <3>2 DEF IsNearest
      <4>3. 0 < targets[k].beginning - now
        BY <3>2 DEF IsNearest, InPreparation
      <4>. QED  BY <1>6, <4>1, <4>2, <4>3
    <3>4. Collide(i, k)
      <4>1. targets[i].ending \in Nat /\ b <= targets[i].ending
        BY <1>3, <1>7, TableDates DEF TypeInv
      <4>2. b - targets[k].beginning < P
        BY <1>6, <2>4, <3>3
      <4>3. targets[k].beginning - targets[i].ending < P
        BY <1>5, <1>6, <2>4, <3>3, <4>1
      <4>. QED
        BY <4>2, <4>3 DEF Collide, checkTargetsCollision, checkTimeInTargetPeriod
    <3>5. next' = i \/ (Better(i, next') /\ Collide(i, next'))
      BY <1>3, <1>7, <3>2, <3>4, OnlyWorse
    <3>6. next' # 0
      BY <1>7, <3>2, SelectionAssumption DEF SelectionAssumption, TypeInv
    <3>7. OnTheWay(i)'
      BY <1>1, <2>2, <2>4, <3>5, <3>6 DEF OnTheWay, Better, Collide
    <3>. QED  BY <2>1, <3>7
  <2>. QED  BY <1>6, <2>3, <2>4
<1>9. CASE CheckKeeps
  BY <1>1, <1>4, <1>9 DEF CheckKeeps, Early
<1>10. ASSUME at = "check", NotYet(i), SleepCheckingTime, now' = now
       PROVE  Early(i)'
  <2>1. now <= b - P + 1
    BY <1>6, <1>10 DEF NotYet
  <2>2. wake' = now + C
    BY <1>10 DEF SleepCheckingTime
  <2>3. wake' <= b - P + C + 1
    BY <1>6, <2>1, <2>2
  <2>. QED  BY <1>6, <2>3 DEF Early
<1>11. CASE CheckReplaces
  <2>1. PICK j \in Rivals : (\A k \in Rivals : j <= k) /\ next' = j
    BY <1>11 DEF CheckReplaces
  <2>2. Early(i)' /\ (NotYet(i) => NotYet(i)')
    BY <1>1, <1>4, <1>11 DEF CheckReplaces, Early, NotYet
  <2>3. ASSUME OnTheWay(i)  PROVE OnTheWay(i)'
    <3>1. next' = i
      BY <1>3, <1>5, <1>7, <2>1, <2>3, FirstRival
    <3>2. next' # 0
      BY <1>3, <1>7, <3>1, SelectionAssumption DEF SelectionAssumption, TypeInv
    <3>. QED  BY <1>1, <1>11, <2>3, <3>1, <3>2 DEF CheckReplaces, OnTheWay
  <2>. QED  BY <1>4, <1>11, <2>2, <2>3 DEF CheckReplaces
<1>12. CASE CheckWaits
  <2>1. PICK j \in Rivals : (\A k \in Rivals : j <= k) /\ ~InPreparation(j)
    BY <1>12 DEF CheckWaits
  <2>2. ~OnTheWay(i)
    BY <1>3, <1>5, <1>7, <2>1, FirstRival
  <2>3. Early(i)'
    BY <1>4, <1>10, <1>12, <2>2 DEF CheckWaits
  <2>. QED  BY <1>12, <2>3 DEF CheckWaits, SleepCheckingTime
<1>13. CASE NoTarget
  <2>1. ~OnTheWay(i)
    BY <1>13 DEF NoTarget, OnTheWay
  <2>2. Early(i)'
    BY <1>4, <1>10, <1>13, <2>1 DEF NoTarget
  <2>. QED  BY <1>13, <2>2 DEF NoTarget, SleepCheckingTime
<1>14. CASE Follow
  <2>. DEFINE e == targets[next].ending
              bn == targets[next].beginning
  <2>1. PICK d \in LoadTimes : wake' = IF now + d < e THEN e ELSE now + d
    BY <1>14 DEF Follow
  <2>2. /\ next \in DOMAIN targets /\ next # i
        /\ wake < bn /\ bn - now < P
    <3>1. next # i
      BY <1>14 DEF Follow, Expected
    <3>. QED  BY <1>14, <3>1 DEF Follow, IInv, TypeInv, Chosen, Settled, Busy
  <2>3. ~Collide(i, next)
    <3>1. SUFFICES ASSUME Collide(i, next)  PROVE FALSE
      OBVIOUS
    <3>2. Better(i, next)
      BY <1>3, <1>7, <2>2, <3>1, OnlyWorse
    <3>3. b <= now
      BY <1>3, <1>14, <3>1, <3>2 DEF Follow, IInv, Settled
    <3>. QED  BY <1>5, <1>6, <3>3
  <2>4. e + P <= b
    <3>1. b <= now \/ e + P <= b
      BY <1>3, <1>7, <2>2, <2>3, NoCollision
    <3>. QED  BY <1>5, <1>6, <3>1
  <2>5. /\ bn \in Nat /\ e \in Nat /\ bn <= e /\ d \in Nat
        /\ d <= e - bn + C + 1
    BY <1>7, <2>2, TableDates, SelectionAssumption DEF SelectionAssumption, TypeInv, Known
  <2>6. now <= bn
    BY <1>6, <2>2, <2>5 DEF IInv, OnTime
  <2>7. wake' <= b - P + C + 1
    <3>. HIDE DEF b, P, C, e, bn
    <3>. QED  BY <1>6, <2>1, <2>4, <2>5, <2>6
  <2>8. Early(i)'
    BY <1>6, <2>7 DEF Early
  <2>. QED  BY <1>14, <2>8 DEF Follow
<1>15. CASE Second
  <2>1. now' = now + 1 /\ wake' = wake /\ at' = at /\ next' = next /\ now <= wake
    BY <1>15 DEF Second
  <2>2. Early(i)'
    BY <1>1, <1>4, <2>1 DEF Early
  <2>3. ASSUME at = "check", NotYet(i)  PROVE NotYet(i)'
    <3>1. wake <= now
      BY <2>3 DEF IInv, OnTime, Busy
    <3>2. now <= b - P
      BY <1>6, <2>1, <2>3 DEF NotYet
    <3>3. wake' < now' /\ now' <= b - P + 1
      BY <1>6, <2>1, <3>1, <3>2
    <3>. QED  BY <1>6, <3>3 DEF NotYet
  <2>4. ASSUME OnTheWay(i)  PROVE OnTheWay(i)'
    <3>1. b - now' < P
      BY <1>6, <2>1, <2>4 DEF OnTheWay
    <3>. QED  BY <1>1, <1>6, <2>1, <2>4, <3>1 DEF OnTheWay, Better, Collide
  <2>. QED  BY <1>4, <2>1, <2>2, <2>3, <2>4
<1>16. CASE UNCHANGED selectionVars
  <2>1. /\ UNCHANGED <<now, wake, at, next>>
    BY <1>16 DEF selectionVars
  <2>. QED
    BY <1>1, <1>4, <2>1 DEF Early, NotYet, OnTheWay, Better, Collide
<1>. QED
  BY <1>8, <1>9, <1>11, <1>12, <1>13, <1>14, <1>15, <1>16 DEF Next

LEMMA InViewKept ==
  ASSUME Planned, Known
  PROVE  IInv /\ InView /\ [Next]_selectionVars => InView'
BY InViewStep DEF InView

\* Who has not followed i yet has LoadingMargin left.
LEMMA InViewEnough ==
  ASSUME Known
  PROVE  IInv /\ InView => FollowedInTime
<1>. SUFFICES ASSUME IInv, InView, NEW i \in DOMAIN targets,
                     Undisputed(i), Unconfused(i), i \notin followed
              PROVE  ~(now > targets[i].beginning - LoadingMargin)
  BY DEF FollowedInTime
<1>1. Early(i)
  BY DEF InView, Expected
<1>2. now <= targets[i].beginning - LoadingMargin
  BY <1>1, StillAhead
<1>3. /\ now \in Nat /\ targets[i].beginning \in Nat /\ LoadingMargin \in Int
  BY TableDates, SelectionAssumption
  DEF SelectionAssumption, IInv, TypeInv, LoadingMargin
<1>. QED  BY <1>2, <1>3

(* For all tables of an automatic plan, as long as no loading takes longer  *)
(* than the pass and a turn of the loop: a target that collides with no     *)
(* better one is followed LoadingMargin before it begins, whatever the      *)
(* client follows or gives up before (main and checkForNextTargeting).      *)
THEOREM UndisputedFollowed ==
  ASSUME Planned, Known
  PROVE  Spec => []FollowedInTime
<1>1. Init => IInv /\ InView
  BY Initially, InViewAtFirst
<1>2. IInv /\ InView /\ [Next]_selectionVars => (IInv /\ InView)'
  BY Inductive, InViewKept
<1>3. IInv /\ InView => FollowedInTime
  BY InViewEnough
<1>4. Spec => [](IInv /\ InView)
  BY <1>1, <1>2, PTL DEF Spec
<1>. QED  BY <1>3, <1>4, PTL
=============================================================================
