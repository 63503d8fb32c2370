--------------------------- MODULE FlightContract ---------------------------
(***************************************************************************)
(* What the flight component promises a pilot and a dispatcher, without    *)
(* handlers, versions or races: each flight is a contract that is offered, *)
(* agreed by the pilot, released by dispatch and then flown, and it can    *)
(* depart only on the terms both of them signed.                           *)
(***************************************************************************)
CONSTANTS Flights, Terms, Null

VARIABLE contract   \* [Flights -> [stage, terms, agreed, released]]

Blank == [stage |-> "none", terms |-> Null, agreed |-> Null, released |-> Null]

\* How the contract of one flight may change; old and new are its record
\* before and after the step.
Propose(old, new) ==
  /\ old = Blank
  /\ \E t \in Terms, stage \in {"draft", "offered"} :
       new = [old EXCEPT !.stage = stage, !.terms = t]

Offer(old, new) ==
  old.stage = "draft" /\ new = [old EXCEPT !.stage = "offered"]

Accept(old, new) ==
  /\ old.stage = "offered"
  /\ new = [old EXCEPT !.stage = "agreed", !.agreed = old.terms]

Release(old, new) ==
  /\ old.stage \in {"agreed", "released"}
  /\ new = [old EXCEPT !.stage = "released", !.released = old.terms]

Depart(old, new) ==
  /\ old.stage = "released"
  /\ old.agreed = old.terms
  /\ old.released = old.terms
  /\ new = [old EXCEPT !.stage = "flying"]

Arrive(old, new) ==
  old.stage = "flying" /\ new = [old EXCEPT !.stage = "flown"]

\* New terms take back whatever was agreed or released on the old ones.
Amend(old, new) ==
  /\ old.stage \in {"draft", "offered", "agreed", "released"}
  /\ \E t \in Terms :
       new = [old EXCEPT !.terms = t,
                         !.stage = IF @ = "draft" THEN @ ELSE "offered"]

Close(old, new) ==
  /\ old.stage \in {"draft", "offered", "agreed", "released", "flying"}
  /\ new = [old EXCEPT !.stage = "closed"]

Step(old, new) ==
  \/ Propose(old, new) \/ Offer(old, new) \/ Accept(old, new)
  \/ Release(old, new) \/ Depart(old, new) \/ Arrive(old, new)
  \/ Amend(old, new) \/ Close(old, new)

Init == contract = [f \in Flights |-> Blank]

\* One step of the system may move several contracts: an administrator hands
\* over all flights of a pilot, a cancelled request drops all of its flights.
Next ==
  /\ DOMAIN contract' = Flights
  /\ \A f \in Flights :
       contract'[f] = contract[f] \/ Step(contract[f], contract'[f])

Spec == Init /\ [][Next]_contract
=============================================================================
