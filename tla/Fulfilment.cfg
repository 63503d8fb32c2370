\* Two desks and a flight handler around one schedule request; and one desk
\* while the request and its flights change hands.
SPECIFICATION ScheduleSpec
CONSTANTS
  f1 = f1
  f2 = f2
  f3 = f3
  q1 = q1
  p1 = p1
  p2 = p2
  d = d
  s1 = s1
  k1 = k1
  k2 = k2
  t1 = t1
  r1 = r1
  ka = ka
  kb = kb
  Null = Null
  Flights = {f1, f2, f3}
  Members = {p1, p2, d}
  Dispatchers = {d}
  Requests = {q1}
  Sessions = {s1}
  Times = {t1}
  AvailableTimes = {t1}
  Routes = {r1}
  MaxVersion = 4
  MemberPatches <- DisableOnly
  Desks = {k1, k2}
  Keys = {ka, kb}
  Batches <- OneOrTwo
  MaxDesired = 2
CONSTRAINT RaceOrHandover
ACTION_CONSTRAINT SecondPilotStays
SYMMETRY Symmetry
INVARIANTS BatchesFit EveryFlightClaimed AnswersAgree
  ReplacementsFaithful
PROPERTIES  ImplementsBudget
CHECK_DEADLOCK FALSE
