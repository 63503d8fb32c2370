--------------------------- MODULE RequestBudget ---------------------------
(***************************************************************************)
(* What a schedule request promises its pilot and dispatch, without desks, *)
(* versions, retries or races: a budget of flights.  The pilot asks for a  *)
(* number of flights and may change it until somebody looks at the         *)
(* request; dispatch spends it in batches, one under each key, for good;   *)
(* flights may be lost, which leaves room for others; and open requests of *)
(* a pilot who leaves go to one other pilot, as they are.                  *)
(***************************************************************************)
EXTENDS Integers, Sequences, FiniteSets

CONSTANTS Requests, Members, Keys, Flights, MaxDesired, Null

VARIABLE budget   \* [Requests -> [pilot, status, desired, batches, live]]

\* batches: the flights made under each key, in the order they were asked for.
\* live: those of them that are not cancelled.
Blank == [pilot |-> Null, status |-> "absent", desired |-> 0,
          batches |-> [key \in Keys |-> <<>>], live |-> {}]

Open == {"pending", "in_review", "partially_fulfilled"}

Elements(batch) == {batch[i] : i \in DOMAIN batch}
Made(b) == UNION {Elements(b.batches[key]) : key \in Keys}
Unmade == Flights \ UNION {Made(budget[q]) : q \in Requests}

-----------------------------------------------------------------------------
(* How one budget may change; old and new are it before and after a step.  *)

Ask(old, new) ==
  /\ old = Blank
  /\ \E pilot \in Members, desired \in 1 .. MaxDesired :
       new = [old EXCEPT !.pilot = pilot, !.status = "pending",
                         !.desired = desired]

Change(old, new) ==
  /\ old.status = "pending"
  /\ \E desired \in 1 .. MaxDesired : new = [old EXCEPT !.desired = desired]

Review(old, new) ==
  old.status = "pending" /\ new = [old EXCEPT !.status = "in_review"]

\* Only a request for which nothing was ever made is turned down.
Reject(old, new) ==
  /\ old.status \in {"pending", "in_review"}
  /\ Made(old) = {}
  /\ new = [old EXCEPT !.status = "rejected"]

\* A batch takes flights nobody has had, under a key nobody has used, within
\* what is left; as long as it says so, the request has room for another.
Spend(old, new) ==
  /\ old.status \in {"in_review", "partially_fulfilled"}
  /\ \E key \in Keys :
       LET batch == new.batches[key] IN
         /\ old.batches[key] = <<>> /\ batch # <<>>
         /\ Elements(batch) \subseteq Unmade
         /\ \A i, j \in DOMAIN batch : batch[i] = batch[j] => i = j
         /\ new = [old EXCEPT !.batches = [@ EXCEPT ![key] = batch],
                              !.live = @ \cup Elements(batch),
                              !.status = new.status]
  /\ Cardinality(new.live) <= old.desired
  /\ \/ new.status = "fulfilled"
     \/ new.status = "partially_fulfilled" /\ Cardinality(new.live) < old.desired

Lose(old, new) ==
  /\ new.live \subseteq old.live
  /\ new = [old EXCEPT !.live = new.live]

\* The flights of a cancelled request may be cancelled with it.
Cancel(old, new) ==
  /\ old.status \in Open
  /\ new.live \subseteq old.live
  /\ new = [old EXCEPT !.status = "cancelled", !.live = new.live]

Step(old, new) ==
  \/ Ask(old, new) \/ Change(old, new) \/ Review(old, new) \/ Reject(old, new)
  \/ Spend(old, new) \/ Lose(old, new) \/ Cancel(old, new)

-----------------------------------------------------------------------------
One(old, new, q) ==
  /\ Step(old[q], new[q])
  /\ \A p \in Requests \ {q} : new[p] = old[p]

\* Open requests of one member, as they stand, go to one other.
HandOver(old, new) ==
  \E from, to \in Members, handed \in SUBSET Requests :
    /\ \A q \in handed : old[q].pilot = from /\ old[q].status \in Open
    /\ new = [q \in Requests |-> IF q \in handed
                                 THEN [old[q] EXCEPT !.pilot = to] ELSE old[q]]

Init == budget = [q \in Requests |-> Blank]

Next ==
  LET old == budget
      new == budget' IN
    /\ new # old /\ DOMAIN new = Requests
    /\ (\E q \in Requests : One(old, new, q)) \/ HandOver(old, new)

Spec == Init /\ [][Next]_budget
=============================================================================
