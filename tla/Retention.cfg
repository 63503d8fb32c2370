\* Two checkpoints of overlapping runs, one hold and a second policy.
SPECIFICATION Spec
CONSTANTS
  f1 = f1
  f2 = f2
  sb = sb
  s1 = s1
  pol = pol
  new = new
  h1 = h1
  w1 = w1
  w2 = w2
  k1 = k1
  k2 = k2
  Null = Null
  Rows = {f1, f2, sb}
  ClassOf <- Kept
  SubjectOf <- About
  FlightOf <- Hanging
  Subjects = {s1}
  Policies = {pol, new}
  InForce = pol
  Holds = {h1}
  Order <- InOrder
  Aged = {f1, sb}
  BatchSize = 1
  Workers = {w1, w2}
  DryKeys = {k1}
  ExecutionKeys = {k2}
  MaxCrashes = 1
SYMMETRY Symmetry
INVARIANTS TypeOK CompletedMeansGone ExecutionHasBasis HeldRecordsKept
CHECK_DEADLOCK FALSE
