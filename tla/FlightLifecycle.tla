--------------------------- MODULE FlightLifecycle ---------------------------
(***************************************************************************)
(* The flight rows of one tenant and the API handlers that change them:    *)
(* apps/api/src/domain/flights/service.ts over the repositories            *)
(* db/repositories/{flights,dispatch-releases,memberships,                 *)
(* schedule-requests,telemetry}.ts.                                        *)
(*                                                                         *)
(* Neon's HTTP driver gives the API no interactive transactions, so every  *)
(* repository call is ONE SQL statement and a handler is a sequence of     *)
(* them: it loads the flight, checks it and the rows it depends on, and    *)
(* commits with `WHERE version = expectedVersion`.  A handler is a session *)
(* here: Begin... loads, Resolve... and Check... read the other rows,      *)
(* Commit... is the final statement.  Sessions of any number of API        *)
(* instances interleave between statements.  The one statement that itself *)
(* waits for many rows, the membership change, is two steps: the snapshot  *)
(* it finds rows with, and what it writes once it has locked them.         *)
(*                                                                         *)
(* Left to other modules: the four OOOI columns and the event log (here    *)
(* only their version bump, TouchOooi), and the handlers of schedule       *)
(* requests (here the effect of their statements on flights).              *)
(***************************************************************************)
EXTENDS Naturals, FiniteSets

CONSTANTS
  Flights,        \* ids a flights row can get
  Members,        \* memberships of the tenant
  Dispatchers,    \* the members that start with the dispatcher or admin role
  Requests,       \* ids of the schedule requests that exist
  Sessions,       \* concurrently running handlers
  Times,          \* departure/arrival windows (etd, eta), all with eta > etd
  AvailableTimes, \* the windows inside the availability of every request
  Routes,         \* flight number, airports and aircraft type, taken together
  MemberPatches,  \* the role and status changes an administrator submits
  Null,           \* SQL NULL
  MaxVersion      \* bound on the version columns, for model checking

Predeparture == {"draft", "offered", "accepted", "briefed"}
Operational == {"accepted", "briefed", "active"}
Terminal == {"declined", "completed", "cancelled"}
FlightStatus == Predeparture \cup {"active"} \cup Terminal
OpenRequest == {"pending", "in_review", "partially_fulfilled"}
RequestStatus == OpenRequest \cup {"fulfilled", "rejected", "cancelled"}

\* What a pilot agrees to: the fields materialFlightFields names.
Terms == [pilot : Members \cup {Null}, time : Times, route : Routes]

Row == [status : FlightStatus,
        terms : Terms,
        version : Nat,
        rev : Nat,                       \* assignmentRevision
        conf : Nat,                      \* assignmentConfirmedRevision, 0: NULL
        request : Requests \cup {Null},  \* scheduleRequestId
        replaces : Flights \cup {Null}]  \* replacesFlightId

NoRow == [status |-> "absent"]           \* an id no row has yet

NoPatch == "keep"
Patches == [role : {NoPatch, "pilot", "dispatcher"},
            status : {NoPatch, "active", "disabled"}]

ASSUME NullAssumption == Null \notin Members \cup Flights \cup Requests
ASSUME BoundAssumption == MaxVersion \in Nat \ {0}
ASSUME SetsAssumption ==
  /\ Dispatchers \subseteq Members
  /\ AvailableTimes \subseteq Times
  /\ MemberPatches \subseteq Patches

VARIABLES
  flights,   \* the flights table
  released,  \* the terms the latest dispatch release of a flight was made for
  members,   \* the memberships table
  requests,  \* the schedule_requests table
  handlers,  \* the running handlers
  agreed,    \* history: the terms the assigned pilot last accepted
  change     \* the membership change that waits for its row locks

tables == <<flights, released, members, requests, handlers, agreed>>
vars == <<tables, change>>

Exists(f) == flights[f] # NoRow
ActivePilot(m) == members[m] = [role |-> "pilot", status |-> "active"]
IsDispatcher(m) == members[m].role = "dispatcher"

-----------------------------------------------------------------------------
(* domain/flights/transitions.ts *)

Successors ==
  [draft |-> {"offered", "cancelled"},
   offered |-> {"accepted", "declined", "cancelled"},
   accepted |-> {"briefed", "cancelled"},
   briefed |-> {"active", "cancelled"},
   active |-> {"completed", "cancelled"},
   declined |-> {}, completed |-> {}, cancelled |-> {}]

CanTransition(row, to) == row # NoRow /\ to \in Successors[row.status]

PilotMayCancel(status) == status \in {"offered", "accepted", "briefed"}

-----------------------------------------------------------------------------
(* Handlers.  `seen` is the row the handler loaded, `wish` the terms it    *)
(* will store, `asDispatcher` the role the request was authenticated with. *)

Checks == {"request", "pilot", "release"}
HoppieKinds == {"flt_init", "out", "off", "on", "in"}
Ops == {"offer", "accept", "decline", "cancel", "patch", "confirm", "publish",
        "start", "finish", "reoffer", "createDraft", "createOffered"}
       \cup HoppieKinds

Idle == [pc |-> "idle"]
Pending == [pc : Checks \cup {"commit"},
            op : Ops,
            actor : Members,
            asDispatcher : BOOLEAN,
            flight : Flights \cup {Null},
            seen : Row \cup {NoRow},
            wish : Terms]

Running(s) == handlers[s] # Idle
At(s, pc) == Running(s) /\ handlers[s].pc = pc
Committing(s, ops) == At(s, "commit") /\ handlers[s].op \in ops

Enter(s, pc, op, actor, f, seen, wish) ==
  /\ ~Running(s)
  /\ members[actor].status = "active"
  /\ handlers' = [handlers EXCEPT ![s] =
       [pc |-> pc, op |-> op, actor |-> actor,
        asDispatcher |-> IsDispatcher(actor),
        flight |-> f, seen |-> seen, wish |-> wish]]
  /\ UNCHANGED <<flights, released, members, requests, agreed>>

\* A handler that changes flight f as it stands enters with f's row.
Load(s, pc, op, actor, f) ==
  Exists(f) /\ Enter(s, pc, op, actor, f, flights[f], flights[f].terms)

FirstCheck(row) == IF row.request = Null THEN "pilot" ELSE "request"

-----------------------------------------------------------------------------
(* Loading handlers.                                                       *)

\* createFlight: a dispatcher describes an ad hoc flight, drafted or offered.
BeginCreate(s, actor, op, wish) ==
  /\ IsDispatcher(actor)
  /\ op = "createOffered" => wish.pilot # Null
  /\ Enter(s, "pilot", op, actor, Null, NoRow, wish)

\* transitionFlight(to = "offered").
BeginOffer(s, actor, f) ==
  /\ CanTransition(flights[f], "offered")
  /\ IsDispatcher(actor)
  /\ Load(s, FirstCheck(flights[f]), "offer", actor, f)

AssignmentNeedsConfirmation(row) ==
  row.terms.pilot # Null /\ row.conf # row.rev /\ row.status \in Operational

\* transitionFlight(to = "accepted" or "declined") and confirmAssignment:
\* the assigned pilot answers the assignment the handler loaded.
BeginAnswer(s, actor, f, op) ==
  /\ Exists(f)
  /\ op \in {"accept", "decline"} => flights[f].status = "offered"
  /\ op = "confirm" => AssignmentNeedsConfirmation(flights[f])
  /\ flights[f].terms.pilot = actor
  /\ Load(s, "commit", op, actor, f)

\* transitionFlight(to = "cancelled").
BeginCancel(s, actor, f) ==
  /\ CanTransition(flights[f], "cancelled")
  /\ \/ IsDispatcher(actor)
     \/ flights[f].terms.pilot = actor /\ PilotMayCancel(flights[f].status)
  /\ Load(s, "commit", "cancel", actor, f)

\* patchFlight: wish is the row's terms with the submitted fields replaced; a
\* patch of the dispatcher notes alone leaves them as they are.
BeginPatch(s, actor, f, wish) ==
  /\ Exists(f)
  /\ IsDispatcher(actor)
  /\ LET row == flights[f] IN
       /\ row.status \notin Terminal
       /\ wish.pilot = Null => row.status \notin Operational
       /\ row.status = "active" => wish = row.terms
       /\ Enter(s, FirstCheck(row), "patch", actor, f, row, wish)

\* publishDispatchRelease; the weather is fetched before the commit.
BeginPublish(s, actor, f) ==
  /\ Exists(f)
  /\ IsDispatcher(actor)
  /\ flights[f].status \in {"accepted", "briefed"}
  /\ Load(s, "commit", "publish", actor, f)

MayOperate(actor, row) == IsDispatcher(actor) \/ row.terms.pilot = actor

\* startFlight; a flight that is already active is answered as it is.
BeginStart(s, actor, f) ==
  /\ Exists(f)
  /\ MayOperate(actor, flights[f])
  /\ flights[f].status = "briefed"
  /\ Load(s, "release", "start", actor, f)

\* finishFlight.
BeginFinish(s, actor, f) ==
  /\ Exists(f)
  /\ MayOperate(actor, flights[f])
  /\ flights[f].status = "active"
  /\ Load(s, "commit", "finish", actor, f)

\* processOperationalInteraction and the first half of applyHoppieProgress:
\* the poller resolves the sender's callsign to a member, the report to one
\* of the member's trackable flights, and gives up on a status it cannot use.
BeginHoppie(s, pilot, f, kind) ==
  /\ Exists(f)
  /\ flights[f].terms.pilot = pilot
  /\ flights[f].status \in IF kind \in {"on", "in"}
                           THEN {"active"} ELSE {"briefed", "active"}
  /\ Load(s, IF kind \in {"on", "in"} THEN "commit" ELSE "release",
          kind, pilot, f)

\* reofferDeclinedFlight: the pilot may be replaced, nothing else.
BeginReoffer(s, actor, f, pilot) ==
  /\ Exists(f)
  /\ IsDispatcher(actor)
  /\ flights[f].status = "declined"
  /\ Enter(s, FirstCheck(flights[f]), "reoffer", actor, f, flights[f],
           [flights[f].terms EXCEPT !.pilot = pilot])

-----------------------------------------------------------------------------
(* Statements between the load and the commit.                             *)

Advance(s, h) ==
  /\ handlers' = [handlers EXCEPT ![s] = h]
  /\ UNCHANGED <<flights, released, members, requests, agreed>>

\* findScheduleRequest, resolveRequestAssignment, assertFlightInsideAvailability:
\* a linked flight belongs to the requesting pilot, inherited when omitted.
ResolveRequest(s) ==
  /\ At(s, "request")
  /\ LET h == handlers[s]
         owner == requests[h.seen.request].pilot IN
       /\ h.wish.pilot \in {Null, owner}
       /\ h.wish.time \in AvailableTimes
       /\ Advance(s, [h EXCEPT !.pc = "pilot", !.wish.pilot = owner])

PilotRequired(h) ==
  ~ \/ h.op = "createDraft"
    \/ h.op = "patch" /\ h.seen.status = "draft"

\* assertActivePilot.
CheckPilot(s) ==
  /\ At(s, "pilot")
  /\ LET h == handlers[s] IN
       /\ IF h.wish.pilot = Null THEN ~PilotRequired(h)
                                 ELSE ActivePilot(h.wish.pilot)
       /\ Advance(s, [h EXCEPT !.pc = "commit"])

\* requireRelease.
CheckRelease(s) ==
  /\ At(s, "release")
  /\ released[handlers[s].flight] # Null
  /\ Advance(s, [handlers[s] EXCEPT !.pc = "commit"])

\* A failed check, a lost version race or a lost instance: whatever the client
\* is told, the handler ends without having written anything.
Abort(s) == Running(s) /\ Advance(s, Idle)

-----------------------------------------------------------------------------
(* Committing statements.  Each ends its handler.                          *)

NewRow(status, terms, request, replaces) ==
  [status |-> status, terms |-> terms, version |-> 1, rev |-> 1, conf |-> 0,
   request |-> request, replaces |-> replaces]

\* Fault: the update forgets `AND version = expectedVersion`.
AtVersion_NotCompared(f, seen) == flights[f].version < MaxVersion

\* The WHERE clause of every versioned update.
AtVersion(f, seen) ==
  flights[f].version = seen.version /\ seen.version < MaxVersion

Bump(row) == [row EXCEPT !.version = @ + 1]

\* Fault: the update forgets `version = version + 1`.
UpdateFlight_SameVersion(s, row) ==
  LET h == handlers[s] IN
    /\ AtVersion(h.flight, h.seen)
    /\ flights' = [flights EXCEPT ![h.flight] = row]
    /\ handlers' = [handlers EXCEPT ![s] = Idle]

\* updateFlight and updateFlightWithOperationalEvent: row is the current row
\* with the columns of the patch set.
UpdateFlight(s, row) ==
  LET h == handlers[s] IN
    /\ AtVersion(h.flight, h.seen)
    /\ flights' = [flights EXCEPT ![h.flight] = Bump(row)]
    /\ handlers' = [handlers EXCEPT ![s] = Idle]

CommitCreate(s, f) ==
  /\ Committing(s, {"createDraft", "createOffered"})
  /\ ~Exists(f)
  /\ LET h == handlers[s] IN
       flights' = [flights EXCEPT ![f] =
         NewRow(IF h.op = "createDraft" THEN "draft" ELSE "offered",
                h.wish, Null, Null)]
  /\ handlers' = [handlers EXCEPT ![s] = Idle]
  /\ UNCHANGED <<released, members, requests, agreed>>

\* Fault: declining writes the status schedule requests use.
StatusWritten_Rejected == [offer |-> "offered", decline |-> "rejected",
                           cancel |-> "cancelled", finish |-> "completed"]

StatusWritten == [offer |-> "offered", decline |-> "declined",
                  cancel |-> "cancelled", finish |-> "completed"]

CommitStatus(s) ==
  /\ Committing(s, {"offer", "decline", "cancel", "finish"})
  /\ LET h == handlers[s] IN
       UpdateFlight(s, [flights[h.flight] EXCEPT
                          !.status = StatusWritten[h.op]])
  /\ UNCHANGED <<released, members, requests, agreed>>

\* Accepting and confirming both record the assignment revision as loaded.
CommitAgreement(s) ==
  /\ Committing(s, {"accept", "confirm"})
  /\ LET h == handlers[s] IN
       /\ UpdateFlight(s, [flights[h.flight] EXCEPT
                             !.status = IF h.op = "accept" THEN "accepted" ELSE @,
                             !.conf = h.seen.rev])
       /\ agreed' = [agreed EXCEPT ![h.flight] = h.seen.terms]
  /\ UNCHANGED <<released, members, requests>>

\* Faults: an edit keeps a scheduled flight scheduled; an edit withdraws an
\* acceptance only when it moves the flight in time.
PatchedStatus_KeepsScheduled(seen, wish) ==
  IF wish # seen.terms /\ seen.status = "accepted"
  THEN "offered" ELSE seen.status

PatchedStatus_TimeOnly(seen, wish) ==
  IF wish.time # seen.terms.time /\ seen.status \in {"accepted", "briefed"}
  THEN "offered" ELSE seen.status

\* A material change withdraws an acceptance; a change of pilot or time makes
\* an accepted assignment a new revision of it.
PatchedStatus(seen, wish) ==
  IF wish # seen.terms /\ seen.status \in {"accepted", "briefed"}
  THEN "offered" ELSE seen.status

PatchedRevision(seen, wish) ==
  IF /\ seen.status \in Operational
     /\ wish.pilot # seen.terms.pilot \/ wish.time # seen.terms.time
  THEN seen.rev + 1 ELSE seen.rev

CommitPatch(s) ==
  /\ Committing(s, {"patch"})
  /\ LET h == handlers[s] IN
       UpdateFlight(s, [flights[h.flight] EXCEPT
                          !.status = PatchedStatus(h.seen, h.wish),
                          !.terms = h.wish,
                          !.rev = PatchedRevision(h.seen, h.wish)])
  /\ UNCHANGED <<released, members, requests, agreed>>

\* publishDispatchReleaseAtomic: the statement also looks up the publisher
\* again.  The release was drawn up for the terms the handler loaded.
CommitPublish(s) ==
  /\ Committing(s, {"publish"})
  /\ LET h == handlers[s] IN
       /\ flights[h.flight].status \in {"accepted", "briefed"}
       /\ members[h.actor] = [role |-> "dispatcher", status |-> "active"]
       /\ UpdateFlight(s, [flights[h.flight] EXCEPT !.status = "briefed"])
       /\ released' = [released EXCEPT ![h.flight] = h.seen.terms]
  /\ UNCHANGED <<members, requests, agreed>>

CommitStart(s) ==
  /\ Committing(s, {"start"})
  /\ LET h == handlers[s] IN
       UpdateFlight(s, [flights[h.flight] EXCEPT
                          !.status = "active",
                          !.conf = IF h.asDispatcher THEN @ ELSE h.seen.rev])
  /\ UNCHANGED <<released, members, requests, agreed>>

HoppieStatus(seen, kind) ==
  CASE kind \in {"out", "off"} -> "active"
    [] kind = "in" -> "completed"
    [] OTHER -> seen.status

CommitHoppie(s) ==
  /\ Committing(s, HoppieKinds)
  /\ LET h == handlers[s] IN
       UpdateFlight(s, [flights[h.flight] EXCEPT
                          !.status = HoppieStatus(h.seen, h.op),
                          !.conf = IF h.op \in {"on", "in"} THEN @ ELSE h.seen.rev])
  /\ UNCHANGED <<released, members, requests, agreed>>

\* Fault: without the unique index every concurrent re-offer inserts a flight.
CommitReoffer_NoUniqueIndex(s, f) ==
  /\ Committing(s, {"reoffer"})
  /\ ~Exists(f)
  /\ LET h == handlers[s]
         source == flights[h.flight] IN
       /\ source.status = "declined"
       /\ source.version = h.seen.version
       /\ flights' = [flights EXCEPT ![f] =
            NewRow("offered", [source.terms EXCEPT !.pilot = h.wish.pilot],
                   source.request, h.flight)]
  /\ handlers' = [handlers EXCEPT ![s] = Idle]
  /\ UNCHANGED <<released, members, requests, agreed>>

\* createReplacementFlight: copies the declined row and does nothing when the
\* unique index on replaces_flight_id already holds a replacement of it.
CommitReoffer(s, f) ==
  /\ Committing(s, {"reoffer"})
  /\ ~Exists(f)
  /\ LET h == handlers[s]
         source == flights[h.flight] IN
       /\ source.status = "declined"
       /\ source.version = h.seen.version
       /\ \A g \in Flights : Exists(g) => flights[g].replaces # h.flight
       /\ flights' = [flights EXCEPT ![f] =
            NewRow("offered", [source.terms EXCEPT !.pilot = h.wish.pilot],
                   source.request, h.flight)]
  /\ handlers' = [handlers EXCEPT ![s] = Idle]
  /\ UNCHANGED <<released, members, requests, agreed>>

-----------------------------------------------------------------------------
(* The rest of the tenant, as far as flights see it.                       *)

\* ingestFlightTelemetryAtomic and correctOooiAtomic store OOOI times, which
\* this module leaves out, in a statement that moves the version.
TouchOooi(f) ==
  /\ Exists(f)
  /\ flights[f].version < MaxVersion
  /\ flights' = [flights EXCEPT ![f] = Bump(@)]
  /\ UNCHANGED <<released, members, requests, handlers, agreed>>

\* fulfillScheduleRequest for a batch of one flight: the statement locks the
\* request, looks its pilot up and offers the flight to that pilot.
OfferForRequest(q, f, time, route, to) ==
  /\ requests[q].status \in {"in_review", "partially_fulfilled"}
  /\ requests[q].version < MaxVersion
  /\ ActivePilot(requests[q].pilot)
  /\ ~Exists(f)
  /\ time \in AvailableTimes
  /\ flights' = [flights EXCEPT ![f] =
       NewRow("offered", [pilot |-> requests[q].pilot, time |-> time,
                          route |-> route], q, Null)]
  /\ requests' = [requests EXCEPT ![q].status = to, ![q].version = @ + 1]
  /\ UNCHANGED <<released, members, handlers, agreed>>

\* transitionScheduleRequest and cancelScheduleRequest: the latter may cancel
\* the linked flights that have not departed.
MoveRequest(q, to, cancelFlights) ==
  LET dropped == {f \in Flights : /\ cancelFlights
                                  /\ Exists(f)
                                  /\ flights[f].request = q
                                  /\ flights[f].status \in Predeparture} IN
  /\ requests[q].status \in OpenRequest
  /\ requests[q].version < MaxVersion
  /\ cancelFlights => to = "cancelled"
  /\ \A f \in dropped : flights[f].version < MaxVersion
  /\ requests' = [requests EXCEPT ![q].status = to, ![q].version = @ + 1]
  /\ flights' = [f \in Flights |->
       IF f \in dropped THEN Bump([flights[f] EXCEPT !.status = "cancelled"])
                        ELSE flights[f]]
  /\ UNCHANGED <<released, members, handlers, agreed>>

Ineligible(patch) ==
  patch.status = "disabled" \/ patch.role \notin {NoPatch, "pilot"}

RequiresWorkTransfer(m, patch) ==
  \/ patch.status = "disabled"
  \/ members[m].role = "pilot" /\ patch.role \notin {NoPatch, "pilot"}

HeldFlights(m) == {f \in Flights :
                     /\ Exists(f)
                     /\ flights[f].terms.pilot = m
                     /\ flights[f].status \in Predeparture \cup {"active"}}
OwnedRequests(m) == {q \in Requests : /\ requests[q].pilot = m
                                      /\ requests[q].status \in OpenRequest}

\* Fault: the handover keeps the acceptance.
Handover_StaysAccepted(row, r) ==
  Bump([row EXCEPT !.terms.pilot = r, !.rev = @ + 1, !.conf = 0])

Handover(row, r) ==
  Bump([row EXCEPT !.terms.pilot = r,
                   !.rev = @ + 1,
                   !.conf = 0,
                   !.status = IF @ \in {"accepted", "briefed"}
                              THEN "offered" ELSE @])

\* Fault: the request keeps its pilot.
HandedOver_SamePilot(row, r) == [row EXCEPT !.version = @ + 1]

HandedOver(row, r) == [row EXCEPT !.pilot = r, !.version = @ + 1]

\* administrativelyUpdateMembership, one statement under the tenant's advisory
\* lock.  Its snapshot decides whether r, if one is named, can be the
\* replacement, and which rows the statement is going to find.
BeginChange(m, patch, r) ==
  /\ change = Idle
  /\ r # Null => Ineligible(patch) /\ r # m /\ ActivePilot(r)
  /\ change' = [member |-> m, patch |-> patch, to |-> r,
                flights |-> [f \in HeldFlights(m) |-> flights[f].version],
                requests |-> [q \in OwnedRequests(m) |-> requests[q].version]]
  /\ UNCHANGED tables

\* FOR UPDATE OF: of the rows the snapshot shows, those that still match, as
\* they are now.  A row that came to match since is not among them.
LockedFlights == HeldFlights(change.member) \cap DOMAIN change.flights
LockedRequests == OwnedRequests(change.member) \cap DOMAIN change.requests

\* The updates find a row in the snapshot but compare its version with that of
\* the locked row: they skip a row that was written in between.
Unwritten(table, id, seen) == table[id].version = seen[id]

FlightsToHandOver ==
  {f \in LockedFlights : /\ RequiresWorkTransfer(change.member, change.patch)
                         /\ change.to # Null
                         /\ Unwritten(flights, f, change.flights)}
RequestsToHandOver ==
  {q \in LockedRequests : /\ change.to # Null
                          /\ Unwritten(requests, q, change.requests)}

\* The rest of the statement, once it holds its row locks: it changes the
\* member, and hands over the work it did not find changed.
CommitChange ==
  LET m == change.member
      patch == change.patch IN
  /\ change # Idle
  /\ RequiresWorkTransfer(m, patch) =>
       /\ \A f \in LockedFlights :
            /\ flights[f].status # "active"
            /\ flights[f].request # Null =>
                 requests[flights[f].request].status \in OpenRequest
       /\ LockedFlights \cup LockedRequests # {} => change.to # Null
  /\ \A f \in FlightsToHandOver : flights[f].version < MaxVersion
  /\ \A q \in RequestsToHandOver : requests[q].version < MaxVersion
  /\ members' = [members EXCEPT
       ![m] = [role |-> IF patch.role = NoPatch THEN @.role ELSE patch.role,
               status |-> IF patch.status = NoPatch THEN @.status
                                                    ELSE patch.status]]
  /\ flights' = [f \in Flights |->
       IF f \in FlightsToHandOver THEN Handover(flights[f], change.to)
                                  ELSE flights[f]]
  /\ requests' = [q \in Requests |->
       IF q \in RequestsToHandOver THEN HandedOver(requests[q], change.to)
                                   ELSE requests[q]]
  /\ change' = Idle
  /\ UNCHANGED <<released, handlers, agreed>>

\* The locked rows do not allow the change, or the transaction is lost.
AbortChange == change # Idle /\ change' = Idle /\ UNCHANGED tables

-----------------------------------------------------------------------------
Init ==
  /\ flights = [f \in Flights |-> NoRow]
  /\ released = [f \in Flights |-> Null]
  /\ agreed = [f \in Flights |-> Null]
  /\ members = [m \in Members |->
       [role |-> IF m \in Dispatchers THEN "dispatcher" ELSE "pilot",
        status |-> "active"]]
  /\ requests \in [Requests -> [pilot : Members \ Dispatchers,
                                status : {"in_review"}, version : {1},
                                desired : {1}]]
  /\ handlers = [s \in Sessions |-> Idle]
  /\ change = Idle

Begin(s, m) ==
  \/ \E op \in {"createDraft", "createOffered"}, wish \in Terms :
       BeginCreate(s, m, op, wish)
  \/ \E f \in Flights :
       \/ BeginOffer(s, m, f)
       \/ \E op \in {"accept", "decline", "confirm"} : BeginAnswer(s, m, f, op)
       \/ BeginCancel(s, m, f)
       \/ \E wish \in Terms : BeginPatch(s, m, f, wish)
       \/ BeginPublish(s, m, f)
       \/ BeginStart(s, m, f)
       \/ BeginFinish(s, m, f)
       \/ \E kind \in HoppieKinds : BeginHoppie(s, m, f, kind)
       \/ \E pilot \in Members : BeginReoffer(s, m, f, pilot)

Check(s) == ResolveRequest(s) \/ CheckPilot(s) \/ CheckRelease(s)

Commit(s) ==
  \/ CommitStatus(s) \/ CommitAgreement(s) \/ CommitPatch(s)
  \/ CommitPublish(s) \/ CommitStart(s) \/ CommitHoppie(s)
  \/ \E f \in Flights : CommitCreate(s, f) \/ CommitReoffer(s, f)

FlightNext ==
  \/ \E s \in Sessions :
       (\E m \in Members : Begin(s, m)) \/ Check(s) \/ Commit(s) \/ Abort(s)
  \/ \E f \in Flights : TouchOooi(f)

MemberNext ==
  \/ \E m \in Members, patch \in MemberPatches, r \in Members \cup {Null} :
       BeginChange(m, patch, r)
  \/ CommitChange \/ AbortChange

RequestNext ==
  \E q \in Requests :
    \/ \E f \in Flights, time \in Times, route \in Routes,
          to \in {"partially_fulfilled", "fulfilled"} :
         OfferForRequest(q, f, time, route, to)
    \/ \E to \in {"rejected", "cancelled"}, cancelFlights \in BOOLEAN :
         MoveRequest(q, to, cancelFlights)

Next ==
  \/ (FlightNext \/ RequestNext) /\ UNCHANGED change
  \/ MemberNext

Spec == Init /\ [][Next]_vars

-----------------------------------------------------------------------------
RequestRow == [pilot : Members, status : RequestStatus, version : Nat,
               desired : Nat]            \* desiredFlightCount

TablesOK ==
  /\ flights \in [Flights -> Row \cup {NoRow}]
  /\ released \in [Flights -> Terms \cup {Null}]
  /\ agreed \in [Flights -> Terms \cup {Null}]
  /\ members \in [Members -> [role : {"pilot", "dispatcher"},
                              status : {"active", "disabled"}]]
  /\ requests \in [Requests -> RequestRow]
  /\ handlers \in [Sessions -> Pending \cup {Idle}]

\* The versions of some rows, by id.
Versions(ids) == UNION {[some -> Nat] : some \in SUBSET ids}

ChangeOK ==
  change \in [member : Members, patch : MemberPatches, to : Members \cup {Null},
              flights : Versions(Flights), requests : Versions(Requests)]
            \cup {Idle}

\* Every table holds rows of its schema, every handler and the membership
\* change a well-formed state.
TypeOK == TablesOK /\ ChangeOK

\* The version of a row identifies its content: a handler whose expected
\* version is still the current one loaded exactly the row it is about to
\* update, however long it waited.  All of the service's checks rest on it.
SnapshotFresh ==
  \A s \in Sessions :
    Running(s) /\ handlers[s].flight # Null =>
      LET row == flights[handlers[s].flight]
          seen == handlers[s].seen IN
        /\ row # NoRow /\ seen # NoRow
        /\ seen.version <= row.version
        /\ seen.version = row.version => seen = row

\* A flight is only ever scheduled, flown or completed on exactly the terms
\* (pilot, times, route) its assigned pilot accepted: no edit, handover or
\* stale acceptance slips new terms under an old yes.
FlownAsAgreed ==
  \A f \in Flights :
    Exists(f) /\ flights[f].status \in Operational \cup {"completed"} =>
      agreed[f] = flights[f].terms /\ agreed[f].pilot # Null

\* What departs is what was released: the latest dispatch release of a
\* scheduled, active or completed flight was drawn up for its current terms,
\* although startFlight only asks that some release exists.
FlownAsReleased ==
  \A f \in Flights :
    Exists(f) /\ flights[f].status \in {"briefed", "active", "completed"} =>
      released[f] = flights[f].terms

\* No operational flight waits for a confirmation of its assignment: whatever
\* raises assignmentRevision also withdraws the acceptance.
NoPendingConfirmation ==
  \A f \in Flights : Exists(f) => ~AssignmentNeedsConfirmation(flights[f])

\* A declined flight is replaced at most once, by an offer for the same times,
\* route and request at the moment it is made.
ReplacementsFaithful ==
  \A f, g \in Flights :
    Exists(f) /\ Exists(g) /\ flights[f].replaces # Null =>
      /\ flights[g].replaces = flights[f].replaces => f = g
      /\ g = flights[f].replaces =>
           /\ flights[g].status = "declined"
           /\ flights[f].request = flights[g].request

\* The status moves along transitions.ts, or back to offered when a material
\* edit or a handover withdraws an acceptance; terminal rows keep their terms.
LegalSteps ==
  [][\A f \in Flights : Exists(f) =>
       LET old == flights[f]
           new == flights'[f] IN
         /\ \/ new.status = old.status
            \/ new.status \in Successors[old.status]
            \/ old.status \in {"accepted", "briefed"} /\ new.status = "offered"
         /\ old.status \in Terminal => new.terms = old.terms]_vars

-----------------------------------------------------------------------------
(* The contract each flight stands for.                                    *)

Stage == [absent |-> "none", draft |-> "draft", offered |-> "offered",
          accepted |-> "agreed", briefed |-> "released", active |-> "flying",
          completed |-> "flown", declined |-> "closed", cancelled |-> "closed"]

ContractOfRow(row, a, r) ==
  [stage |-> Stage[row.status],
   terms |-> IF row = NoRow THEN Null ELSE row.terms,
   agreed |-> a,
   released |-> r]

ContractOf ==
  [f \in Flights |-> ContractOfRow(flights[f], agreed[f], released[f])]

Contract == INSTANCE FlightContract WITH contract <- ContractOf

\* The handlers together behave as if every flight were changed by one actor
\* at a time: a departure is always on terms both signed.
ImplementsContract == Contract!Spec

=============================================================================
