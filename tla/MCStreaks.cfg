CONSTANTS
  MaxDays = 9
SPECIFICATION Spec
INVARIANTS
  TypeOK
  LongestIsLongest
  CurrentEndsToday
  CurrentIsNoLonger
CHECK_DEADLOCK FALSE
