\* Two overlapping requests about a founder and a newcomer.
SPECIFICATION Spec
CONSTANTS
  u1 = u1
  u2 = u2
  w1 = w1
  w2 = w2
  Null = Null
  Users = {u1, u2}
  Handlers = {w1, w2}
  Founders = {u1}
  Known = {u1}
  Openings = {"pilot"}
  Patches <- Changes
SYMMETRY Symmetry
INVARIANTS TypeOK
PROPERTIES AdminRemains AdmittedByDecision AdminsMadeByAdmins
CHECK_DEADLOCK FALSE
