------------------------- MODULE MCFlightLifecycle -------------------------
EXTENDS FlightLifecycle, TLC
CONSTANTS f1, f2, f3, q1, p1, p2, d, s1, s2, t1, t2, r1, r2

Keep == [role |-> NoPatch, status |-> NoPatch]
Disable == [Keep EXCEPT !.status = "disabled"]
Promote == [Keep EXCEPT !.role = "dispatcher"]
AdminPatches == {Disable, Promote}

NoAdmin == {}

Symmetry == Permutations(Sessions) \cup Permutations({p1, p2})
            \cup Permutations(Times)
\* Bound: the second flight is the replacement of the first, both young.
OnlyReplaced ==
  (\A f \in Flights : Exists(f)) =>
    /\ \E f \in Flights : flights[f].replaces # Null
    /\ \A f \in Flights : flights[f].version <= 2

\* Bound: administrators change members who hold flights.
ChangesOfHolders == change # Idle => DOMAIN change.flights # {}

SymmetryOfPilots == Permutations({p1, p2}) \cup Permutations(Flights)
=============================================================================
