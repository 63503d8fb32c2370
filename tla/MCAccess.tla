------------------------------- MODULE MCAccess -------------------------------
\* A founder and a newcomer: enough for two administrators who demote each
\* other and for every race about one person.
EXTENDS Access, TLC

CONSTANTS u1, u2, w1, w2

Changes ==
  {[role |-> "pilot", status |-> NoPatch],
   [role |-> "admin", status |-> "active"],
   [role |-> "admin", status |-> NoPatch],
   [role |-> NoPatch, status |-> "disabled"]}

Symmetry == Permutations(Handlers)
=============================================================================
