\* Two requests about one member, two handlers.
SPECIFICATION Spec
CONSTANTS
  q1 = q1
  q2 = q2
  w1 = w1
  w2 = w2
  Requests = {q1, q2}
  Handlers = {w1, w2}
  KindsOf <- OneDestroys
SYMMETRY Symmetry
INVARIANTS TypeOK CompletedMeansClosed
PROPERTIES DestructionByTheBook RequestsStaySettled
CHECK_DEADLOCK FALSE
