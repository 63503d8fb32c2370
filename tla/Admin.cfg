\* One handler, an administrator and the statements of a schedule request, on
\* one flight and its replacement.
SPECIFICATION Spec
CONSTANTS
  f1 = f1
  f2 = f2
  f3 = f3
  q1 = q1
  p1 = p1
  p2 = p2
  d = d
  s1 = s1
  s2 = s2
  t1 = t1
  t2 = t2
  r1 = r1
  r2 = r2
  Null = Null
  Flights = {f1, f2}
  Members = {p1, p2, d}
  Dispatchers = {d}
  Requests = {q1}
  Sessions = {s1}
  Times = {t1}
  AvailableTimes = {t1}
  Routes = {r1}
  MaxVersion = 4
  MemberPatches <- AdminPatches
CONSTRAINTS OnlyReplaced ChangesOfHolders
SYMMETRY SymmetryOfPilots
INVARIANTS NoPendingConfirmation
CHECK_DEADLOCK FALSE
