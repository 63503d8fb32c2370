---------------------------- MODULE MCOooiRecord ----------------------------
EXTENDS OooiRecord, TLC
CONSTANTS f1, f2, d1, d2, p1, s1, s2

OneOwner == [d \in Devices |-> p1]

NoReports == {}
SomeReports == {[kind |-> "flt_init", time |-> 0], [kind |-> "off", time |-> 0],
                [kind |-> "out", time |-> 1], [kind |-> "in", time |-> 1]}

NoCorrections == {}
Edits == {[m \in {"out"} |-> Null], [m \in {"out"} |-> 1],
          [m \in {"in"} |-> 0]}

Symmetry == Permutations(Sessions) \cup Permutations(Devices)
                                    \cup Permutations(Flights)
=============================================================================
