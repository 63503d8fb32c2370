\* Two handlers and two preparations of one flight; or one browser with its
\* pages while others change the flight twice.
SPECIFICATION WorkspaceSpec
CONSTANTS
  a = a
  b = b
  i1 = i1
  i2 = i2
  x = x
  y = y
  d1 = d1
  d2 = d2
  j1 = j1
  j2 = j2
  b1 = b1
  n = n
  o = o
  Nil = Nil
  Unset = Unset
  Members = {a, b}
  Pids = {i1, i2}
  Terms = {x, y}
  Dispatches = {d1, d2}
  Jobs = {j1, j2}
  MaxVersion = 3
  Browsers = {b1}
  Assignments = {x, y}
  Notes = {n}
  OutTimes = {o}
  LastVersion = 3
  MaxCalls = 1
CONSTRAINTS FewAccounts FewTimes DialogsAlone
SYMMETRY Symmetry
INVARIANTS WorkspacesTypeOK VerifiedHonest NothingOverwritten
PROPERTIES LaunchIsCurrent
CHECK_DEADLOCK FALSE
