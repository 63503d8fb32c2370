\* One destruction that is processed while a hold is placed or work begins.
SPECIFICATION Spec
CONSTANTS
  q1 = q1
  q2 = q2
  w1 = w1
  w2 = w2
  Requests = {q1}
  Handlers = {w1}
  KindsOf <- OnlyDestroys
PROPERTIES BlockedMeansUntouched
CHECK_DEADLOCK FALSE
