\* Two handlers and one simulator write the times of one flight.
SPECIFICATION Spec
CONSTANTS
  f1 = f1
  f2 = f2
  d1 = d1
  d2 = d2
  p1 = p1
  s1 = s1
  s2 = s2
  Null = Null
  Pilots = {p1}
  Owner <- OneOwner
  Flights = {f1}
  Devices = {d1}
  Sessions = {s1, s2}
  Phases = {"preflight", "taxi_out", "airborne"}
  Reports <- SomeReports
  Corrections <- Edits
  Interval = 1
  Lease = 1
  MaxTime = 1
  MaxVersion = 3
  MaxSequence = 2
SYMMETRY Symmetry
INVARIANTS TypeOK ProvenanceAgrees AutomaticIsFirst
PROPERTIES RecordedTimeStays OrderKept
CHECK_DEADLOCK FALSE
