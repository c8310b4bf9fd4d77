----------------------------- MODULE Trajectory -----------------------------
(***************************************************************************)
(* The trajectory object shared by the PC receiver thread, which loads it, *)
(* and the antenna transmission thread, which plays it (Trajectory.h).     *)
(*                                                                         *)
(* The field _locked is written FALSE by trajInit and read nowhere, so it  *)
(* is not part of the state: nothing keeps the two threads apart.          *)
(***************************************************************************)
EXTENDS Messages

CONSTANTS MAX_TRAJ_LENGTH,         \* entries of the table (1200)
          ANTENNA_MESSAGE_LENGTH,  \* bytes of an entry (12)
          MaxPoint                 \* bound: current_point saturates here

VARIABLES nb_point, current_point, table, init_date

trajVars == <<nb_point, current_point, table, init_date>>

TableIndex == 0 .. (MAX_TRAJ_LENGTH - 1)

ASSUME TrajectoryAssumption ==
  /\ MAX_TRAJ_LENGTH \in Nat \ {0}
  /\ ANTENNA_MESSAGE_LENGTH \in Nat \ {0}
  /\ MaxPoint \in Nat /\ MaxPoint > MAX_TRAJ_LENGTH

\* current_point++; past MaxPoint, which exceeds every length a run uses, one
\* value of the counter is as good as another.
Advance(n) == IF n < MaxPoint THEN n + 1 ELSE MaxPoint

\* trajInit clears MAX_TRAJ_LENGTH bytes, not MAX_TRAJ_LENGTH entries.
ClearedEntries == MAX_TRAJ_LENGTH \div ANTENNA_MESSAGE_LENGTH

TrajectoryInit(now) ==
  /\ nb_point = -2
  /\ current_point = -1
  /\ table = [i \in TableIndex |-> ZeroFrame]
  /\ init_date = now

\* Faulty variant (the runs must reject it): a wrong initial length
trajInitWrongLength(now) ==
  /\ nb_point' = -1
  /\ current_point' = -1
  /\ init_date' = now
  /\ table' = [i \in TableIndex |-> ZeroFrame]

trajInit(now) ==
  /\ nb_point' = -2
  /\ current_point' = -1
  /\ init_date' = now
  /\ table' = [i \in TableIndex |->
                 IF i < ClearedEntries THEN ZeroFrame ELSE table[i]]

\* Faulty variant: the index of the last point for the number of points
trajSetLengthShort(length) ==
  /\ nb_point' = length - 1
  /\ current_point' = 0
  /\ UNCHANGED <<table, init_date>>

trajSetLength(length) ==
  /\ nb_point' = length
  /\ current_point' = 0
  /\ UNCHANGED <<table, init_date>>

\* The code has no test of the index; a store outside the table overwrites
\* whatever the build placed there (WildStore).
WildStore == current_point \notin TableIndex

\* Faulty variant: the index is incremented before the point is stored.
trajAddPointAfter(point) ==
  /\ current_point + 1 \in TableIndex
  /\ current_point' = Advance(current_point)
  /\ table' = [table EXCEPT ![current_point + 1] = point]
  /\ UNCHANGED <<nb_point, init_date>>

trajAddPoint(point) ==
  /\ current_point \in TableIndex
  /\ table' = [table EXCEPT ![current_point] = point]
  /\ current_point' = Advance(current_point)
  /\ UNCHANGED <<nb_point, init_date>>

trajCheckCorrectLength == current_point = nb_point

\* The bytes trajGetNextTarget copies from entry i.
Target(i) == IF i \in TableIndex THEN table[i] ELSE GarbageFrame

trajGetNextTarget ==
  /\ current_point' = Advance(current_point)
  /\ UNCHANGED <<nb_point, table, init_date>>

\* Faulty variant: the index is left on the first entry, already sent.
trajPrepareAgain(date) ==
  /\ init_date' = date
  /\ current_point' = 0
  /\ UNCHANGED <<nb_point, table>>

\* setTrajDate followed by trajPrepareTargeting: the index is reset to the
\* first entry, whose bytes are copied, and left on the second.
trajPrepareAtDate(date) ==
  /\ init_date' = date
  /\ current_point' = Advance(0)
  /\ UNCHANGED <<nb_point, table>>
=============================================================================
