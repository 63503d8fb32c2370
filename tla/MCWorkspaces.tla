---------------------------- MODULE MCWorkspaces ------------------------------
EXTENDS Workspaces, TLC
CONSTANTS a, b, i1, i2, x, y, d1, d2, j1, j2, b1, n, o

Symmetry == Permutations(Members) \cup Permutations(Pids)
            \cup Permutations(Terms) \cup Permutations(Dispatches)
            \cup Permutations(Jobs)

Accounts ==
  ({links[m].pid : m \in Members}
   \cup {jobs[j].pid : j \in {k \in Jobs : "pid" \in DOMAIN jobs[k]}}
   \cup {dispatches[d].pid : d \in {e \in Dispatches :
                                      dispatches[e] # NoDispatch}}) \ {Nil}

\* Bound: with a second account in play the flight changes once less.
FewAccounts == plan.version = MaxVersion => Cardinality(Accounts) <= 1

\* Bound: the form for recorded times meets one change less.
FewTimes == shown = "times" => flight.version < LastVersion

\* Bound: who has the editor open opens no dialog beside it.
DialogsAlone ==
  \A q \in Browsers :
    pages[q].forms.editor # Unset => pages[q].forms.dialog = Unset
=============================================================================
