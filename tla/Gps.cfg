SPECIFICATION Spec
CONSTANTS
  TypeLength = 3
  DateLength = 6
  TailLength = 3
  Dates = 3
  MaxBurst = 13
  MaxBursts = 2
INVARIANT ClockFollows
