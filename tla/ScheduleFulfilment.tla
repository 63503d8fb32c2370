------------------------- MODULE ScheduleFulfilment -------------------------
(***************************************************************************)
(* Schedule requests: a pilot asks for a number of flights, dispatch       *)
(* reviews the request and offers flights for it in batches until the      *)
(* number is reached.  domain/schedule-requests/service.ts,                *)
(* bulkCreateFlights in domain/flights/service.ts and the statements       *)
(* behind them, composed with the flight handlers of FlightLifecycle that  *)
(* change which flights of a request count: answers, cancellations and     *)
(* re-offers.                                                              *)
(*                                                                         *)
(* A desk is one running handler of a schedule request, as a session is    *)
(* one of a flight.  A client that got no answer to a batch may send it    *)
(* again under the same Idempotency-Key, to any desk, at any time.         *)
(***************************************************************************)
EXTENDS FlightLifecycle, Sequences

CONSTANTS
  Desks,       \* concurrently running handlers of requests
  Keys,        \* Idempotency-Key values clients send
  Batches,     \* the flight lists clients submit: sequences of [time, route]
  MaxDesired   \* bound on desiredFlightCount; the code allows up to 50

ASSUME BatchesAssumption ==
  Batches \subseteq Seq([time : Times, route : Routes]) \ {<<>>}
ASSUME DesiredAssumption == MaxDesired \in Nat \ {0}
ASSUME FlightsAssumption == IsFiniteSet(Flights)

VARIABLES
  attempts,  \* schedule_fulfillment_attempts, by request and key
  desks      \* the running handlers

scheduleVars == <<vars, attempts, desks>>

NoRequest == [pilot |-> Null, status |-> "absent", version |-> 0, desired |-> 0]
NoAttempt == [flights |-> <<>>]

RequestSuccessors ==
  [pending |-> {"in_review", "cancelled", "rejected"},
   in_review |-> {"fulfilled", "partially_fulfilled", "rejected", "cancelled"},
   partially_fulfilled |-> {"fulfilled", "cancelled"},
   fulfilled |-> {}, rejected |-> {}, cancelled |-> {}]

Linked(q) == {f \in Flights : Exists(f) /\ flights[f].request = q}

\* countNonCancelledScheduleRequestFlights, and the capacity of the statement.
NonCancelled(q) == {f \in Linked(q) : flights[f].status # "cancelled"}

Free(k) == desks[k] = Idle
AtDesk(k, pc) == ~Free(k) /\ desks[k].pc = pc
Committed(k, op) == AtDesk(k, "commit") /\ desks[k].op = op

-----------------------------------------------------------------------------
(* Requests before and after fulfilment.                                   *)

\* A handler of request q starts with its row; the client's expectedVersion
\* was the current one, or the handler would end here.
LoadRequest(k, m, q, op, wish) ==
  /\ Free(k)
  /\ members[m].status = "active"
  /\ desks' = [desks EXCEPT ![k] =
       [pc |-> "commit", op |-> op, actor |-> m, request |-> q,
        seen |-> IF q = Null THEN NoRequest ELSE requests[q], wish |-> wish]]
  /\ UNCHANGED <<vars, attempts>>

\* createRequest: only a pilot asks, and always for themselves.
BeginRequest(k, m, desired) ==
  members[m].role = "pilot" /\ LoadRequest(k, m, Null, "create", desired)

CommitRequest(k, q) ==
  /\ Committed(k, "create")
  /\ requests[q] = NoRequest
  /\ requests' = [requests EXCEPT ![q] =
       [pilot |-> desks[k].actor, status |-> "pending", version |-> 1,
        desired |-> desks[k].wish]]
  /\ desks' = [desks EXCEPT ![k] = Idle]
  /\ UNCHANGED <<flights, released, members, handlers, agreed, attempts>>

\* editRequest, up to its last statement: the owning pilot changes the number
\* of flights of a request nobody has started to review.
BeginEdit(k, m, q, desired) ==
  /\ requests[q].status = "pending"
  /\ requests[q].pilot = m /\ members[m].role = "pilot"
  /\ desired # requests[q].desired
  /\ NonCancelled(q) = {}
  /\ LoadRequest(k, m, q, "edit", desired)

\* transitionRequest to in_review or rejected.
BeginTransition(k, m, q, to) ==
  /\ IsDispatcher(m)
  /\ requests[q].status \in OpenRequest
  /\ to \in RequestSuccessors[requests[q].status]
  /\ LoadRequest(k, m, q, "transition", to)

\* cancelRequest; the client says what becomes of the linked flights.
BeginCancelRequest(k, m, q, cancelFlights) ==
  /\ IsDispatcher(m) \/ requests[q].pilot = m
  /\ requests[q].status \in OpenRequest
  /\ LoadRequest(k, m, q, "cancel", cancelFlights)

\* Fault: the statement goes by the id alone.
RequestAt_Unchecked(q, seen) == seen.version < MaxVersion

\* The WHERE clause of the statements on requests: version and status.
RequestAt(q, seen) ==
  /\ requests[q].version = seen.version /\ requests[q].status = seen.status
  /\ seen.version < MaxVersion

CommitEdit(k) ==
  /\ Committed(k, "edit")
  /\ LET h == desks[k] IN
       /\ RequestAt(h.request, h.seen)
       /\ NonCancelled(h.request) = {}
       /\ requests' = [requests EXCEPT ![h.request].desired = h.wish,
                                       ![h.request].version = @ + 1]
  /\ desks' = [desks EXCEPT ![k] = Idle]
  /\ UNCHANGED <<flights, released, members, handlers, agreed, attempts>>

CommitTransition(k) ==
  /\ Committed(k, "transition")
  /\ LET h == desks[k] IN
       /\ RequestAt(h.request, h.seen)
       /\ requests' = [requests EXCEPT ![h.request].status = h.wish,
                                       ![h.request].version = @ + 1]
  /\ desks' = [desks EXCEPT ![k] = Idle]
  /\ UNCHANGED <<flights, released, members, handlers, agreed, attempts>>

CommitCancel(k) ==
  /\ Committed(k, "cancel")
  /\ LET h == desks[k] IN
       /\ RequestAt(h.request, h.seen)
       /\ MoveRequest(h.request, "cancelled", h.wish)
  /\ desks' = [desks EXCEPT ![k] = Idle]
  /\ UNCHANGED attempts

-----------------------------------------------------------------------------
(* bulkCreateFlights.  A call is what the client sends: the key and, under  *)
(* the payload hash, the expected version and the flights.  `answer` is     *)
(* what it gets back, until Reply.                                          *)

Call(q, key, expected, batch) ==
  [request |-> q, key |-> key,
   payload |-> [expected |-> expected, batch |-> batch]]

AttemptOf(call) == attempts[<<call.request, call.key>>]

\* Fault: the replay forgets to compare the payload hash.
Replay_AnyPayload(call, attempt) ==
  [kind |-> "replayed", flights |-> attempt.flights]

\* replayMatchingFulfillment.
Replay(call, attempt) ==
  IF attempt.payload = call.payload
  THEN [kind |-> "replayed", flights |-> attempt.flights]
  ELSE [kind |-> "conflict"]

Answer(k, call, answer) ==
  desks' = [desks EXCEPT ![k] = [pc |-> "answered", call |-> call,
                                 answer |-> answer]]

Conflict(k, call) == Answer(k, call, [kind |-> "conflict"])

\* The handler begins with findScheduleFulfillmentAttempt.
BeginFulfil(k, m, call) ==
  /\ Free(k)
  /\ members[m].status = "active" /\ IsDispatcher(m)
  /\ requests[call.request] # NoRequest
  /\ IF AttemptOf(call) # NoAttempt
     THEN Answer(k, call, Replay(call, AttemptOf(call)))
     ELSE desks' = [desks EXCEPT ![k] = [pc |-> "request", call |-> call]]
  /\ UNCHANGED <<vars, attempts>>

\* findScheduleRequest, then the version and status checks.
LoadForFulfilment(k) ==
  /\ AtDesk(k, "request")
  /\ LET call == desks[k].call
         row == requests[call.request] IN
       IF /\ row.version = call.payload.expected
          /\ row.status \in {"in_review", "partially_fulfilled"}
       THEN desks' = [desks EXCEPT ![k] =
                        [pc |-> "pilot", call |-> call, seen |-> row]]
       ELSE Conflict(k, call)
  /\ UNCHANGED <<vars, attempts>>

\* assertActivePilot and assertFlightInsideAvailability; a batch that fails
\* them ends in Drop.
CheckBatch(k) ==
  /\ AtDesk(k, "pilot")
  /\ LET h == desks[k]
         batch == h.call.payload.batch IN
       /\ ActivePilot(h.seen.pilot)
       /\ \A i \in DOMAIN batch : batch[i].time \in AvailableTimes
       /\ desks' = [desks EXCEPT ![k].pc = "fulfil"]
  /\ UNCHANGED <<vars, attempts>>

\* Fault: the capacity test is off by one.
Fits_OffByOne(q, n) == Cardinality(NonCancelled(q)) + n <= requests[q].desired + 1

\* What the statement requires: request_locked and capacity, then the key.
Fits(q, n) == Cardinality(NonCancelled(q)) + n <= requests[q].desired

\* Fault: the key is not claimed before the flights are inserted.
Claimable_WithoutKey(h) ==
  LET q == h.call.request IN
    /\ RequestAt(q, h.seen)
    /\ ActivePilot(requests[q].pilot)
    /\ Fits(q, Len(h.call.payload.batch))

Claimable(h) ==
  LET q == h.call.request IN
    /\ RequestAt(q, h.seen)
    /\ ActivePilot(requests[q].pilot)
    /\ Fits(q, Len(h.call.payload.batch))
    /\ AttemptOf(h.call) = NoAttempt

OfferedRow(q, slot) ==
  NewRow("offered", [pilot |-> requests[q].pilot, time |-> slot.time,
                     route |-> slot.route], q, Null)

FulfilledStatus(q, n) ==
  IF Cardinality(NonCancelled(q)) + n >= requests[q].desired
  THEN "fulfilled" ELSE "partially_fulfilled"

\* fulfillScheduleRequest: key, flights and request in one statement; ids are
\* the fresh flight ids in the order of the batch.
CommitFulfil(k, ids) ==
  /\ AtDesk(k, "fulfil")
  /\ LET h == desks[k]
         q == h.call.request
         batch == h.call.payload.batch IN
       /\ Claimable(h)
       /\ DOMAIN ids = DOMAIN batch
       /\ \A i, j \in DOMAIN ids : ~Exists(ids[i]) /\ (ids[i] = ids[j] => i = j)
       /\ attempts' = [attempts EXCEPT ![<<q, h.call.key>>] =
            [payload |-> h.call.payload, flights |-> ids]]
       /\ flights' = [f \in Flights |->
            IF \E i \in DOMAIN ids : ids[i] = f
            THEN OfferedRow(q, batch[CHOOSE i \in DOMAIN ids : ids[i] = f])
            ELSE flights[f]]
       /\ requests' = [requests EXCEPT
            ![q].status = FulfilledStatus(q, Len(batch)),
            ![q].version = @ + 1]
       /\ Answer(k, h.call, [kind |-> "created", flights |-> ids])
  /\ UNCHANGED <<released, members, handlers, agreed>>

\* The statement returned nothing: look for the attempt of a concurrent call.
MissFulfil(k) ==
  /\ AtDesk(k, "fulfil")
  /\ ~Claimable(desks[k])
  /\ desks' = [desks EXCEPT ![k] = [pc |-> "recheck", call |-> @.call]]
  /\ UNCHANGED <<vars, attempts>>

RecheckAttempt(k) ==
  /\ AtDesk(k, "recheck")
  /\ LET call == desks[k].call IN
       IF AttemptOf(call) # NoAttempt
       THEN Answer(k, call, Replay(call, AttemptOf(call)))
       ELSE Conflict(k, call)
  /\ UNCHANGED <<vars, attempts>>

\* The answer reaches the client, or is lost on the way; a failed check, a
\* lost race or a lost instance ends any other handler.
Drop(k) ==
  /\ ~Free(k)
  /\ desks' = [desks EXCEPT ![k] = Idle]
  /\ UNCHANGED <<vars, attempts>>

-----------------------------------------------------------------------------
ScheduleInit ==
  /\ flights = [f \in Flights |-> NoRow]
  /\ released = [f \in Flights |-> Null]
  /\ agreed = [f \in Flights |-> Null]
  /\ members \in [Members -> [role : {"dispatcher", "pilot"},
                             status : {"active", "disabled"}]]
  /\ \A m \in Members : m \in Dispatchers <=> members[m].role = "dispatcher"
  /\ requests = [q \in Requests |-> NoRequest]
  /\ handlers = [s \in Sessions |-> Idle]
  /\ change = Idle
  /\ attempts = [qk \in Requests \X Keys |-> NoAttempt]
  /\ desks = [k \in Desks |-> Idle]

BeginDesk(k, m) ==
  \/ \E desired \in 1 .. MaxDesired : BeginRequest(k, m, desired)
  \/ \E q \in Requests :
       \/ \E desired \in 1 .. MaxDesired : BeginEdit(k, m, q, desired)
       \/ \E to \in {"in_review", "rejected"} : BeginTransition(k, m, q, to)
       \/ \E cancelFlights \in BOOLEAN :
            BeginCancelRequest(k, m, q, cancelFlights)
       \/ \E key \in Keys, expected \in 1 .. MaxVersion - 1, batch \in Batches :
            BeginFulfil(k, m, Call(q, key, expected, batch))

DeskNext(k) ==
  \/ \E m \in Members : BeginDesk(k, m)
  \/ \E q \in Requests : CommitRequest(k, q)
  \/ CommitEdit(k) \/ CommitTransition(k) \/ CommitCancel(k)
  \/ LoadForFulfilment(k) \/ CheckBatch(k)
  \/ \E n \in 1 .. Cardinality(Flights) : \E ids \in [1 .. n -> Flights] :
       CommitFulfil(k, ids)
  \/ MissFulfil(k) \/ RecheckAttempt(k) \/ Drop(k)

\* The flight handlers that matter to a request; the others change neither the
\* link of a flight nor whether it is cancelled or declined.
LinkedFlightNext(s) ==
  \/ \E m \in Members, f \in Flights :
       \/ \E op \in {"accept", "decline"} : BeginAnswer(s, m, f, op)
       \/ BeginCancel(s, m, f)
       \/ \E pilot \in Members : BeginReoffer(s, m, f, pilot)
  \/ ResolveRequest(s) \/ CheckPilot(s)
  \/ CommitStatus(s) \/ CommitAgreement(s)
  \/ \E f \in Flights : CommitReoffer(s, f)
  \/ Abort(s)

ScheduleNext ==
  \/ \E k \in Desks : DeskNext(k) /\ UNCHANGED change
  \/ MemberNext /\ UNCHANGED <<attempts, desks>>
  \/ \E s \in Sessions :
       LinkedFlightNext(s) /\ UNCHANGED <<change, attempts, desks>>

ScheduleSpec == ScheduleInit /\ [][ScheduleNext]_scheduleVars

-----------------------------------------------------------------------------
\* The flights a batch created, as opposed to replacements of declined ones.
Originals(q) == {f \in Linked(q) : flights[f].replaces = Null}

IdsOf(attempt) == {attempt.flights[i] : i \in DOMAIN attempt.flights}

\* Batches never outgrow the request: whatever edits, batches, answers and
\* cancellations race, the live flights created by batches fit the number of
\* flights the pilot finally asked for, and a request that is still collecting
\* has room among them.
BatchesFit ==
  \A q \in Requests :
    LET live == Cardinality(Originals(q) \cap NonCancelled(q)) IN
      /\ live <= requests[q].desired
      /\ requests[q].status = "partially_fulfilled" => live < requests[q].desired

\* Every flight of a batch is accounted for by exactly one recorded attempt,
\* and every attempt by flights of its request: nothing is created twice for
\* one Idempotency-Key and nothing outside of one.
EveryFlightClaimed ==
  \A q \in Requests :
    /\ Originals(q) = UNION {IdsOf(attempts[<<q, key>>]) : key \in Keys}
    /\ \A a, b \in Keys :
         a # b => IdsOf(attempts[<<q, a>>]) \cap IdsOf(attempts[<<q, b>>]) = {}

\* An undeparted flight of a batch that belongs to another pilot than its
\* request.
Parted(q, f) ==
  /\ f \in Originals(q) /\ flights[f].status \in Predeparture
  /\ flights[f].terms.pilot # requests[q].pilot

\* The request or the flight was written, or made, after the snapshot of the
\* membership change that waits.
Overtaken(q, f) ==
  ~ /\ q \in DOMAIN change.requests /\ Unwritten(requests, q, change.requests)
    /\ f \in DOMAIN change.flights /\ Unwritten(flights, f, change.flights)

\* A request and the flights of its batches stay with one pilot, whatever
\* batches, edits, answers, cancellations and re-offers race a handover of that
\* pilot's work ("request-linked work is reassigned consistently with the
\* flight assignment"), with one exception the code allows: a handover parts
\* those that were written while it waited for its locks.  (A member who is no
\* pilot hands over requests without flights.)
PartOnlyWhenOvertaken ==
  [][\A q \in Requests, f \in Flights :
       ~Parted(q, f) /\ Parted(q, f)'
       => /\ change # Idle /\ change' = Idle
          /\ RequiresWorkTransfer(change.member, change.patch)
               => Overtaken(q, f)]_scheduleVars

\* A client that is told its batch exists is told the flights recorded for its
\* key and its payload, whether its call created them or was a repetition.
AnswersAgree ==
  \A k \in Desks :
    AtDesk(k, "answered") /\ desks[k].answer.kind # "conflict" =>
      AttemptOf(desks[k].call) = [payload |-> desks[k].call.payload,
                                  flights |-> desks[k].answer.flights]

-----------------------------------------------------------------------------
(* The budget each request stands for.                                     *)

LiveFlights(q) == {f \in Originals(q) : flights[f].status # "cancelled"}

BudgetOfRequest(q) ==
  [pilot |-> requests[q].pilot,
   status |-> requests[q].status,
   desired |-> requests[q].desired,
   batches |-> [key \in Keys |-> attempts[<<q, key>>].flights],
   live |-> LiveFlights(q)]

BudgetOf == [q \in Requests |-> BudgetOfRequest(q)]

Budget == INSTANCE RequestBudget WITH budget <- BudgetOf

\* The desks, the flight handlers and the administrators together behave as if
\* every request were a budget that one actor at a time changes or spends: what
\* a pilot asked for is fixed once it is under review, a key is spent once and
\* for good, and a handover changes nothing of a request but its pilot, and of
\* a settled request nothing at all.
ImplementsBudget == Budget!Spec

=============================================================================
