-------------------------- MODULE MCSubjectRequests --------------------------
EXTENDS SubjectRequests, TLC
CONSTANTS q1, q2, w1, w2

\* A destruction, and a request of any kind.
OneDestroys == q1 :> Destructive
               @@ q2 :> {"export", "correction", "restriction"}

OnlyDestroys == [q \in Requests |-> Destructive]

Symmetry == Permutations(Handlers)
=============================================================================
