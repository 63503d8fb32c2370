\* Two concurrent handlers on one ad hoc flight.
SPECIFICATION Spec
CONSTANTS
  f1 = f1
  f2 = f2
  f3 = f3
  q1 = q1
  p1 = p1
  p2 = p2
  d = d
  s1 = s1
  s2 = s2
  t1 = t1
  t2 = t2
  r1 = r1
  r2 = r2
  Null = Null
  Flights = {f1}
  Members = {p1, p2, d}
  Dispatchers = {d}
  Requests = {}
  Sessions = {s1, s2}
  Times = {t1, t2}
  AvailableTimes = {t1, t2}
  Routes = {r1}
  MaxVersion = 5
  MemberPatches <- NoAdmin
SYMMETRY Symmetry
INVARIANTS TypeOK SnapshotFresh FlownAsAgreed FlownAsReleased
PROPERTIES ImplementsContract
CHECK_DEADLOCK FALSE
