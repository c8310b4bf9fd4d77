SPECIFICATION Spec
CONSTANTS
  PREPARATION_TIME = 6
  CHECKING_LOOP_TIME = 2
  LoadTimes = {1, 3}
  Tables <- McTables
  Beginnings = {6, 7, 9, 12, 13, 17}
  Durations = {0, 4}
  Priorities = {0, 1, 2}
  LastDate = 20
INVARIANTS BestIsFollowed FollowedInTime
CHECK_DEADLOCK FALSE
