\* A time is corrected or a dialog confirmed while others may change the flight.
SPECIFICATION PageSpec
CONSTANTS
  b1 = b1
  x = x
  y = y
  n = n
  o1 = o1
  o2 = o2
  Unset = Unset
  Browsers = {b1}
  Assignments = {x, y}
  Notes = {n}
  OutTimes = {o1, o2}
  LastVersion = 3
  MaxCalls = 1
INVARIANTS StaleIsRefused
CHECK_DEADLOCK FALSE
