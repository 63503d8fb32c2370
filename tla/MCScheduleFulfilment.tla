------------------------ MODULE MCScheduleFulfilment ------------------------
EXTENDS ScheduleFulfilment, TLC
CONSTANTS f1, f2, f3, q1, p1, p2, d, s1, k1, k2, t1, r1, ka, kb

Slot == [time |-> t1, route |-> r1]
OneOrTwo == {<<Slot>>, <<Slot, Slot>>}
DisableOnly == {[role |-> NoPatch, status |-> "disabled"]}
Symmetry == Permutations(Desks) \cup Permutations(Flights) \cup Permutations(Keys)

KeysInUse ==
  {desks[k].call.key : k \in {e \in Desks : "call" \in DOMAIN desks[e]}}
  \cup {key \in Keys : \E q \in Requests : attempts[<<q, key>>] # NoAttempt}

BusyDesks == {k \in Desks : ~Free(k)}
BusySessions == {s \in Sessions : handlers[s] # Idle}
Made == {f \in Flights : Exists(f)}

\* Bound: work is handed over from the first pilot, once some flights are made,
\* to the second, at two flights at most, and beside one handler of a request or
\* of a flight.
FirstToSecond ==
  /\ Cardinality(BusyDesks) + Cardinality(BusySessions) <= 1
  /\ (\E q \in Requests : requests[q].pilot = p2) => members[p1].status = "disabled"
  /\ change # Idle => change.member = p1 /\ DOMAIN change.flights # {}
  /\ change # Idle \/ members[p1].status = "disabled" => Cardinality(Made) <= 2

\* Bounds: without a second pilot, two handlers race for a request and two
\* flights; with one, to whom work may be handed over, one desk works on three.
RaceOrHandover ==
  IF members[p2].status = "disabled"
  THEN /\ \A m \in Members : members[m].status = "active" <=> m # p2
       /\ change = Idle
       /\ Cardinality(Made) <= 2
       /\ Cardinality(BusyDesks) + Cardinality(BusySessions) <= 2
  ELSE /\ members[d].status = "active"
       /\ Cardinality(KeysInUse) <= 1
       /\ FirstToSecond

\* Bound: the second pilot stays or is not there from the start.
SecondPilotStays == members'[p2] = members[p2]
=============================================================================
