\* Two pollers, one message sent twice, one tenant whose logon is refused, a
\* telex; two administrators at the settings; two members, two transactions; a reader of pages.
SPECIFICATION Spec
CONSTANTS
  t1 = t1
  t2 = t2
  p1 = p1
  p2 = p2
  f1 = f1
  m1 = m1
  m2 = m2
  x = x
  None = None
  Tenants = {t1, t2}
  Pollers = {p1, p2}
  Flights = {f1}
  Telexes = {x}
  Inbound = {m1, m2}
  TenantOf <- Station
  TextOf <- Text
  FlightOf <- Reported
  Broken = {t2}
  MaxWindow = 1
  MaxFaults = 1
  e1 = e1
  e2 = e2
  n1 = n1
  n2 = n2
  s1 = s1
  l1 = l1
  g1 = g1
  g2 = g2
  g3 = g3
  NoValue = NoValue
  Editors = {e1, e2}
  Names = {n1, n2}
  Stations = {s1}
  Logons = {l1}
  Logos = {g1, g2, g3}
  MaxEdits = 3
  a = a
  b = b
  u = u
  w1 = w1
  w2 = w2
  c1 = c1
  c2 = c2
  NoAccount = NoAccount
  Members = {a, b}
  Accounts = {u}
  Flows = {w1, w2}
  Callbacks = {c1, c2}
  Ids <- RowIds
  Records <- RecordIds
  LastStore = 2
  MaxTime = 4
  Milli = 2
  MaxLimit = 2
INVARIANTS
  IntegrationsTypeOK AppliedOnce DeliveryHonest NoDanglingLogo NavigraphHonest
  PagesComplete
PROPERTIES EveryMessageTaken
CHECK_DEADLOCK FALSE
