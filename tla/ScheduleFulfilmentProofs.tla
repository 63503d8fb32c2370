---------------------- MODULE ScheduleFulfilmentProofs ----------------------
(***************************************************************************)
(* What is proved of ScheduleFulfilment for every number of flights,       *)
(* members, requests, keys, desks and handlers.                            *)
(*                                                                         *)
(* A batch fits when it is inserted; that it keeps fitting rests on what   *)
(* the other handlers may do to its flights afterwards.  They change a row *)
(* only as they loaded it (SnapshotFresh), so nothing revives a cancelled  *)
(* flight, and they never touch the link of a flight to its request.       *)
(* IInv is the conjunction.  A handover that waited for its locks writes   *)
(* rows as they are then; which rows its snapshot had matters only for     *)
(* what it leaves together (PartedOnlyInTheGap).                           *)
(*                                                                         *)
(* That the whole behaves as a budget per request needs two more facts:    *)
(* for a request nobody reviewed nothing was made (NothingEarly), and who  *)
(* edits or reviews one read a row that allows it (ReviewsLegal).          *)
(***************************************************************************)
EXTENDS ScheduleFulfilment, FiniteSetTheorems, TLAPS

Payloads == [expected : Nat, batch : Batches]
Calls == [request : Requests, key : Keys, payload : Payloads]
Attempt == [payload : Payloads, flights : Seq(Flights)]

\* The handlers of flights that run here, and what each has checked.
Handling == [pc : {"request", "pilot", "commit"},
             op : {"accept", "decline", "cancel", "reoffer"},
             actor : Members,
             asDispatcher : BOOLEAN,
             flight : Flights,
             seen : Row,
             wish : Terms]

HandlerOK(h) ==
  /\ h.op \in {"accept", "decline"} => h.seen.status = "offered"
  /\ h.op = "cancel" => h.seen.status \in Predeparture \cup {"active"}
  /\ h.pc = "request" => h.seen.request \in Requests

HandlersOK == \A s \in Sessions : Running(s) => HandlerOK(handlers[s])

\* The desks, and what each has checked of its request.
Collecting == {"in_review", "partially_fulfilled"}

Planning == [pc : {"pilot", "fulfil"}, call : Calls,
             seen : {row \in RequestRow : row.status \in Collecting}]

DeskOK(h) ==
  /\ h.pc \in {"request", "recheck", "answered"} => h.call \in Calls
  /\ h.pc \in {"pilot", "fulfil"} => h \in Planning
  /\ h.pc = "commit" /\ h.op = "create" =>
       h.actor \in Members /\ h.wish \in 1 .. MaxDesired
  /\ h.pc = "commit" /\ h.op \in {"edit", "transition", "cancel"} =>
       h.request \in Requests /\ h.seen.status \in OpenRequest
  /\ h.pc = "commit" /\ h.op = "edit" => h.wish \in 1 .. MaxDesired
  /\ h.pc = "commit" /\ h.op = "transition" => h.wish \in {"in_review", "rejected"}

DesksOK == \A k \in Desks : ~Free(k) => DeskOK(desks[k])

\* The flight a replacement was made for has a row.
ReplacedExist ==
  \A f \in Flights :
    Exists(f) /\ flights[f].replaces # Null => Exists(flights[f].replaces)

MemberRow == [role : {"pilot", "dispatcher"}, status : {"active", "disabled"}]

Typed ==
  /\ flights \in [Flights -> Row \cup {NoRow}]
  /\ members \in [Members -> MemberRow]
  /\ requests \in [Requests -> RequestRow \cup {NoRequest}]
  /\ attempts \in [Requests \X Keys -> Attempt \cup {NoAttempt}]
  /\ handlers \in [Sessions -> Handling \cup {Idle}]
  /\ DOMAIN desks = Desks

IInv ==
  /\ Typed /\ HandlersOK /\ SnapshotFresh /\ DesksOK
  /\ BatchesFit /\ EveryFlightClaimed /\ AnswersAgree
  /\ ReplacementsFaithful /\ ReplacedExist

-----------------------------------------------------------------------------
(* Facts about rows, handlers and desks.                                   *)

LEMMA NoRowNotRow == NoRow \notin Row
BY DEF NoRow, Row, FlightStatus, Predeparture, Terminal

LEMMA NoAttemptIsNone ==
  /\ NoAttempt \notin Attempt
  /\ IdsOf(NoAttempt) = {}
<1>1. NoAttempt \notin Attempt
  BY DEF NoAttempt, Attempt
<1>2. IdsOf(NoAttempt) = {}
  <2>1. NoAttempt.flights = << >> /\ DOMAIN << >> = {}
    BY DEF NoAttempt
  <2> QED
    BY <2>1 DEF IdsOf
<1> QED
  BY <1>1, <1>2

LEMMA NoRequestIsNone ==
  /\ NoRequest \notin RequestRow
  /\ NoRequest.status = "absent" /\ NoRequest.pilot = Null
  /\ NoRequest.version = 0 /\ NoRequest.desired = 0
  /\ NoRequest.status \notin RequestStatus
BY DEF NoRequest, RequestRow, RequestStatus, OpenRequest

\* A request that is open, or whose pilot is a member, has a row.
LEMMA RequestRowKnown ==
  ASSUME IInv, NEW q \in Requests,
         requests[q].status \in OpenRequest \/ requests[q].pilot \in Members
  PROVE  requests[q] \in RequestRow
<1>1. requests[q] \in RequestRow \cup {NoRequest}
  BY DEF IInv, Typed
<1>2. NoRequest.status \notin OpenRequest /\ NoRequest.pilot \notin Members
  BY NullAssumption, NoRequestIsNone DEF RequestStatus
<1> QED
  BY <1>1, <1>2

LEMMA RunningFacts ==
  ASSUME IInv, NEW s \in Sessions, Running(s)
  PROVE  /\ handlers[s] \in Handling
         /\ HandlerOK(handlers[s])
         /\ handlers[s].flight \in Flights
         /\ handlers[s].flight # Null
         /\ handlers[s].seen \in Row
         /\ flights[handlers[s].flight] \in Row
         /\ Exists(handlers[s].flight)
<1>1. handlers[s] \in Handling /\ HandlerOK(handlers[s])
  BY DEF IInv, Typed, Running, HandlersOK
<1>2. handlers[s].flight \in Flights /\ handlers[s].seen \in Row
  BY <1>1 DEF Handling
<1>3. handlers[s].flight # Null
  BY <1>2, NullAssumption
<1>4. flights[handlers[s].flight] # NoRow
  BY <1>3 DEF IInv, SnapshotFresh
<1> QED
  BY <1>1, <1>2, <1>3, <1>4 DEF IInv, Typed, Exists

\* A handler that passes the version comparison writes the row it loaded.
LEMMA CommitsWhatItLoaded ==
  ASSUME IInv, NEW s \in Sessions, Running(s),
         AtVersion(handlers[s].flight, handlers[s].seen)
  PROVE  flights[handlers[s].flight] = handlers[s].seen
BY RunningFacts DEF IInv, SnapshotFresh, AtVersion

LEMMA BumpRow ==
  ASSUME NEW row \in Row
  PROVE  /\ Bump(row) \in Row
         /\ Bump(row).version > row.version
         /\ Bump(row).status = row.status
         /\ Bump(row).terms = row.terms
         /\ Bump(row).request = row.request
         /\ Bump(row).replaces = row.replaces
BY DEF Bump, Row

-----------------------------------------------------------------------------
(* What a change of existing rows leaves in order.                         *)

\* What any statement may do to a row: the version grows, the links stay, a
\* cancelled or declined row is out of reach and nothing becomes undeparted.
RowStep(old, new) ==
  /\ new \in Row /\ new.version > old.version
  /\ new.request = old.request /\ new.replaces = old.replaces
  /\ old.status \notin {"cancelled", "declined"}
  /\ new.status \in Predeparture => old.status \in Predeparture

RowsStep ==
  \A f \in Flights : \/ flights'[f] = flights[f]
                     \/ Exists(f) /\ RowStep(flights[f], flights'[f])

\* The same of the rows that exist, in a statement that may insert others.
RowsGoOn ==
  \A f \in Flights : Exists(f) =>
    flights'[f] = flights[f] \/ RowStep(flights[f], flights'[f])

FlightsTyped == flights \in [Flights -> Row \cup {NoRow}]

LEMMA ExistingStay ==
  ASSUME IInv, RowsStep, NEW f \in Flights
  PROVE  /\ Exists(f)' <=> Exists(f)
         /\ Exists(f) =>
              /\ flights'[f].request = flights[f].request
              /\ flights'[f].replaces = flights[f].replaces
              /\ flights[f].status \in {"cancelled", "declined"} =>
                   flights'[f] = flights[f]
              /\ flights'[f].status \in Predeparture =>
                   flights[f].status \in Predeparture
<1>1. CASE flights'[f] = flights[f]
  BY <1>1 DEF Exists
<1>2. CASE Exists(f) /\ RowStep(flights[f], flights'[f])
  <2>1. flights'[f] # NoRow
    BY <1>2, NoRowNotRow DEF RowStep
  <2> QED
    BY <1>2, <2>1 DEF Exists, RowStep
<1> QED
  BY <1>1, <1>2 DEF RowsStep

LEMMA LinksStay ==
  ASSUME IInv, RowsStep, NEW q \in Requests
  PROVE  /\ Linked(q)' = Linked(q)
         /\ Originals(q)' = Originals(q)
         /\ NonCancelled(q)' \subseteq NonCancelled(q)
<1>1. \A f \in Flights : /\ Exists(f)' <=> Exists(f)
                         /\ Exists(f) =>
                              /\ flights'[f].request = flights[f].request
                              /\ flights'[f].replaces = flights[f].replaces
                              /\ flights[f].status = "cancelled" =>
                                   flights'[f] = flights[f]
  BY ExistingStay
<1>2. \A f \in Flights : f \in Linked(q)' <=> f \in Linked(q)
  BY <1>1 DEF Linked
<1>3. Linked(q)' = Linked(q)
  BY <1>2 DEF Linked
<1>4. Originals(q)' = Originals(q)
  BY <1>1, <1>3 DEF Originals, Linked
<1>5. NonCancelled(q)' \subseteq NonCancelled(q)
  BY <1>1, <1>3 DEF NonCancelled, Linked
<1> QED
  BY <1>3, <1>4, <1>5

LEMMA ReplacedStay ==
  ASSUME IInv, RowsStep
  PROVE  ReplacedExist'
<1> SUFFICES ASSUME NEW f \in Flights, Exists(f)', flights'[f].replaces # Null
             PROVE  Exists(flights[f].replaces)'
  BY ExistingStay DEF ReplacedExist
<1>1. Exists(f) /\ flights[f].replaces = flights'[f].replaces
  BY ExistingStay
<1>2. flights[f].replaces \in Flights \cup {Null}
  BY <1>1 DEF IInv, Typed, Exists, Row
<1>3. flights[f].replaces \in Flights /\ Exists(flights[f].replaces)
  BY <1>1, <1>2 DEF IInv, ReplacedExist
<1> QED
  BY <1>3, ExistingStay

LEMMA ReplacementsStay ==
  ASSUME IInv, RowsStep
  PROVE  ReplacementsFaithful' /\ ReplacedExist'
<1> SUFFICES ASSUME NEW f \in Flights, NEW g \in Flights,
                    Exists(f)', Exists(g)', flights'[f].replaces # Null
             PROVE  /\ flights'[g].replaces = flights'[f].replaces => f = g
                    /\ g = flights'[f].replaces =>
                         /\ flights'[g].status = "declined"
                         /\ flights'[f].request = flights'[g].request
  BY ReplacedStay DEF ReplacementsFaithful
<1>1. /\ Exists(f) /\ Exists(g)
      /\ flights'[f].replaces = flights[f].replaces
      /\ flights'[g].replaces = flights[g].replaces
      /\ flights'[f].request = flights[f].request
      /\ flights[g].status = "declined" => flights'[g] = flights[g]
  BY ExistingStay
<1>2. /\ flights[g].replaces = flights[f].replaces => f = g
      /\ g = flights[f].replaces =>
           /\ flights[g].status = "declined"
           /\ flights[f].request = flights[g].request
  BY <1>1 DEF IInv, ReplacementsFaithful
<1> QED
  BY <1>1, <1>2

LEMMA StepsGoOn == RowsStep => RowsGoOn
BY DEF RowsStep, RowsGoOn

\* No row changes without its version growing: no snapshot goes stale
\* unnoticed while its handler waits.
LEMMA FreshStays ==
  ASSUME IInv, RowsGoOn,
         NEW s \in Sessions, Running(s), NEW seen,
         seen = handlers[s].seen
  PROVE  LET row == flights'[handlers[s].flight] IN
           /\ row # NoRow /\ seen # NoRow
           /\ seen.version <= row.version
           /\ seen.version = row.version => seen = row
<1> DEFINE f == handlers[s].flight
<1>1. /\ f \in Flights /\ f # Null /\ Exists(f)
      /\ seen \in Row /\ flights[f] \in Row
  BY RunningFacts
<1>2. /\ seen.version <= flights[f].version
      /\ seen.version = flights[f].version => seen = flights[f]
  BY <1>1 DEF IInv, SnapshotFresh
<1>3. seen # NoRow
  BY <1>1, NoRowNotRow
<1>4. CASE flights'[f] = flights[f]
  BY <1>1, <1>2, <1>3, <1>4 DEF Exists
<1>5. CASE RowStep(flights[f], flights'[f])
  <2>1. flights'[f] \in Row /\ flights'[f].version > flights[f].version
    BY <1>5 DEF RowStep
  <2>2. /\ seen.version \in Nat /\ flights[f].version \in Nat
        /\ flights'[f].version \in Nat
    BY <1>1, <2>1 DEF Row
  <2>3. seen.version < flights'[f].version
    BY <1>2, <2>1, <2>2
  <2>4. flights'[f] # NoRow
    BY <2>1, NoRowNotRow
  <2> QED
    BY <1>3, <2>2, <2>3, <2>4
<1> QED
  BY <1>1, <1>4, <1>5 DEF RowsGoOn

\* The handlers after a step that moves rows: each one goes on as it was, or
\* has ended.
LEMMA HandlersStay ==
  ASSUME IInv, RowsGoOn,
         handlers' \in [Sessions -> Handling \cup {Idle}],
         \A s \in Sessions : handlers'[s] \in {Idle, handlers[s]}
  PROVE  HandlersOK' /\ SnapshotFresh'
<1>1. ASSUME NEW s \in Sessions, Running(s)'
      PROVE  Running(s) /\ handlers'[s] = handlers[s]
  BY <1>1 DEF Running
<1>2. HandlersOK'
  <2> SUFFICES ASSUME NEW s \in Sessions, Running(s)'
               PROVE  HandlerOK(handlers'[s])
    BY DEF HandlersOK, HandlerOK
  <2> QED
    BY <1>1 DEF IInv, HandlersOK
<1>3. SnapshotFresh'
  <2> SUFFICES ASSUME NEW s \in Sessions, Running(s)', handlers'[s].flight # Null
               PROVE  LET row == flights'[handlers'[s].flight]
                          seen == handlers'[s].seen IN
                        /\ row # NoRow /\ seen # NoRow
                        /\ seen.version <= row.version
                        /\ seen.version = row.version => seen = row
    BY DEF SnapshotFresh
  <2>1. Running(s) /\ handlers'[s] = handlers[s]
    BY <1>1
  <2> QED
    BY <2>1, FreshStays
<1> QED
  BY <1>2, <1>3

Live(q) == Cardinality(Originals(q) \cap NonCancelled(q))

LEMMA CountsAreFinite ==
  ASSUME NEW q
  PROVE  /\ IsFiniteSet(NonCancelled(q))
         /\ Cardinality(NonCancelled(q)) \in Nat
         /\ Live(q) \in Nat
         /\ Live(q) <= Cardinality(NonCancelled(q))
<1>1. NonCancelled(q) \in SUBSET Flights
  BY DEF NonCancelled, Linked
<1>2. IsFiniteSet(NonCancelled(q))
  BY <1>1, FlightsAssumption, FS_Subset
<1>3. Originals(q) \cap NonCancelled(q) \in SUBSET NonCancelled(q)
  OBVIOUS
<1>4. /\ IsFiniteSet(Originals(q) \cap NonCancelled(q))
      /\ Live(q) <= Cardinality(NonCancelled(q))
  BY <1>2, <1>3, FS_Subset DEF Live
<1> QED
  BY <1>2, <1>4, FS_CardinalityType DEF Live

LEMMA FewerFit ==
  ASSUME NEW small, NEW large, IsFiniteSet(large), small \subseteq large
  PROVE  /\ Cardinality(small) \in Nat /\ Cardinality(large) \in Nat
         /\ Cardinality(small) <= Cardinality(large)
<1>1. small \in SUBSET large
  OBVIOUS
<1> QED
  BY <1>1, FS_Subset, FS_CardinalityType

\* Batches keep fitting when rows move, the number asked for does not shrink
\* and no request starts to collect.
LEMMA FitStays ==
  ASSUME IInv, RowsStep,
         \A q \in Requests :
           /\ requests'[q].desired \in Nat
           /\ requests'[q].desired >= requests[q].desired
           /\ requests'[q].status = "partially_fulfilled" =>
                /\ requests[q].status = "partially_fulfilled"
                /\ requests'[q].desired = requests[q].desired
  PROVE  BatchesFit'
<1> SUFFICES ASSUME NEW q \in Requests
             PROVE  /\ Live(q)' <= requests'[q].desired
                    /\ requests'[q].status = "partially_fulfilled" =>
                         Live(q)' < requests'[q].desired
  BY DEF BatchesFit, Live
<1>1. (Originals(q) \cap NonCancelled(q))' \subseteq Originals(q) \cap NonCancelled(q)
  BY LinksStay
<1>2. IsFiniteSet(Originals(q) \cap NonCancelled(q))
  BY CountsAreFinite, FS_Subset
<1>3. Live(q)' \in Nat /\ Live(q) \in Nat /\ Live(q)' <= Live(q)
  BY <1>1, <1>2, FewerFit DEF Live
<1>4. /\ Live(q) <= requests[q].desired
      /\ requests[q].status = "partially_fulfilled" => Live(q) < requests[q].desired
  BY DEF IInv, BatchesFit, Live
<1>5. requests[q].desired \in Nat
  BY NoRequestIsNone DEF IInv, Typed, RequestRow
<1> QED
  BY <1>3, <1>4, <1>5

LEMMA ClaimsStay ==
  ASSUME IInv, RowsStep, UNCHANGED attempts
  PROVE  EveryFlightClaimed'
<1>1. \A q \in Requests : Originals(q)' = Originals(q)
  BY LinksStay
<1> QED
  BY <1>1 DEF IInv, EveryFlightClaimed

LEMMA AnswersStay ==
  ASSUME IInv, UNCHANGED attempts,
         \A k \in Desks : Free(k)' \/ desks'[k] = desks[k]
  PROVE  AnswersAgree'
BY DEF IInv, AnswersAgree, AtDesk, Free, AttemptOf

LEMMA DesksStay ==
  ASSUME IInv, \A k \in Desks : Free(k)' \/ desks'[k] = desks[k]
  PROVE  DesksOK'
<1> SUFFICES ASSUME NEW k \in Desks, ~Free(k)'
             PROVE  DeskOK(desks'[k])
  BY DEF DesksOK, DeskOK
<1>1. desks'[k] = desks[k] /\ ~Free(k)
  BY DEF Free
<1> QED
  BY <1>1 DEF IInv, DesksOK

-----------------------------------------------------------------------------
(* The steps of a desk that write no table.                                *)

LEMMA TablesFixed ==
  ASSUME IInv, UNCHANGED <<tables, attempts>>,
         DOMAIN desks' = Desks, DesksOK', AnswersAgree'
  PROVE  IInv'
<1>1. RowsStep
  BY DEF RowsStep, tables
<1>2. Typed'
  BY DEF IInv, Typed, tables
<1>3. HandlersOK' /\ SnapshotFresh'
  <2>1. handlers' \in [Sessions -> Handling \cup {Idle}]
    BY DEF IInv, Typed, tables
  <2>2. \A s \in Sessions : handlers'[s] \in {Idle, handlers[s]}
    BY DEF tables
  <2> QED
    BY <1>1, <2>1, <2>2, StepsGoOn, HandlersStay
<1>4. BatchesFit'
  <2>1. \A q \in Requests : requests[q].desired \in Nat
    BY NoRequestIsNone DEF IInv, Typed, RequestRow
  <2> QED
    BY <1>1, <2>1, FitStays DEF tables
<1>5. EveryFlightClaimed' /\ ReplacementsFaithful' /\ ReplacedExist'
  BY <1>1, ClaimsStay, ReplacementsStay
<1> QED
  BY <1>2, <1>3, <1>4, <1>5 DEF IInv

LEMMA DeskEnds ==
  ASSUME IInv, NEW k \in Desks, UNCHANGED <<vars, attempts>>,
         desks' = [desks EXCEPT ![k] = Idle]
  PROVE  IInv'
<1>1. DOMAIN desks' = Desks
  BY DEF IInv, Typed
<1>2. \A j \in Desks : Free(j)' \/ desks'[j] = desks[j]
  BY DEF IInv, Typed, Free
<1> QED
  BY <1>1, <1>2, DesksStay, AnswersStay, TablesFixed DEF vars

\* What a client may be told: a conflict, or what its key has on record.
Truthful(h) ==
  h.pc = "answered" /\ h.answer.kind # "conflict" =>
    AttemptOf(h.call) = [payload |-> h.call.payload, flights |-> h.answer.flights]

LEMMA DeskGoesOn ==
  ASSUME IInv, NEW k \in Desks, NEW h, DeskOK(h), Truthful(h),
         UNCHANGED <<vars, attempts>>,
         desks' = [desks EXCEPT ![k] = h]
  PROVE  IInv'
<1>1. DOMAIN desks' = Desks /\ desks'[k] = h
      /\ \A j \in Desks \ {k} : desks'[j] = desks[j]
  BY DEF IInv, Typed
<1>2. DesksOK'
  <2> SUFFICES ASSUME NEW j \in Desks, ~Free(j)'
               PROVE  DeskOK(desks'[j])
    BY DEF DesksOK, DeskOK
  <2>1. CASE j = k
    BY <1>1, <2>1
  <2>2. CASE j # k
    BY <1>1, <2>2 DEF IInv, DesksOK, Free
  <2> QED
    BY <2>1, <2>2
<1>3. AnswersAgree'
  <2> SUFFICES ASSUME NEW j \in Desks, AtDesk(j, "answered")',
                      desks'[j].answer.kind # "conflict"
               PROVE  attempts[<<desks'[j].call.request, desks'[j].call.key>>] =
                        [payload |-> desks'[j].call.payload,
                         flights |-> desks'[j].answer.flights]
    BY DEF AnswersAgree, AttemptOf
  <2>1. desks'[j].pc = "answered" /\ ~Free(j)'
    BY DEF AtDesk
  <2>2. CASE j = k
    BY <1>1, <2>1, <2>2 DEF Truthful, AttemptOf
  <2>3. CASE j # k
    <3>1. desks'[j] = desks[j]
      BY <1>1, <2>3
    <3>2. AtDesk(j, "answered") /\ desks[j].answer.kind # "conflict"
      BY <2>1, <3>1 DEF AtDesk, Free
    <3> QED
      BY <3>1, <3>2 DEF IInv, AnswersAgree, AttemptOf
  <2> QED
    BY <2>2, <2>3
<1> QED
  BY <1>1, <1>2, <1>3, TablesFixed DEF vars

\* A desk that takes up a decision about a request.
LEMMA LoadRequestKept ==
  ASSUME IInv, NEW k \in Desks, NEW m \in Members, NEW q, NEW op, NEW wish,
         LoadRequest(k, m, q, op, wish),
         op \in {"create", "edit", "transition", "cancel"},
         op \in {"create", "edit"} => wish \in 1 .. MaxDesired,
         op # "create" => /\ q \in Requests
                          /\ requests[q].status \in OpenRequest,
         op = "transition" => wish \in {"in_review", "rejected"}
  PROVE  IInv'
<1> DEFINE seen == IF q = Null THEN NoRequest ELSE requests[q]
           h == [pc |-> "commit", op |-> op, actor |-> m, request |-> q,
                 seen |-> seen, wish |-> wish]
<1>1. /\ desks' = [desks EXCEPT ![k] = h]
      /\ UNCHANGED <<vars, attempts>>
  BY DEF LoadRequest
<1>2. op # "create" => seen.status \in OpenRequest
  BY NullAssumption
<1> HIDE DEF seen
<1>3. DeskOK(h)
  BY <1>2 DEF DeskOK
<1>4. Truthful(h)
  BY DEF Truthful
<1> QED
  BY <1>1, <1>3, <1>4, DeskGoesOn

LEMMA BeginRequestKept ==
  ASSUME IInv, NEW k \in Desks, NEW m \in Members,
         NEW desired \in 1 .. MaxDesired, BeginRequest(k, m, desired)
  PROVE  IInv'
BY LoadRequestKept DEF BeginRequest

LEMMA BeginEditKept ==
  ASSUME IInv, NEW k \in Desks, NEW m \in Members, NEW q \in Requests,
         NEW desired \in 1 .. MaxDesired, BeginEdit(k, m, q, desired)
  PROVE  IInv'
<1>1. requests[q].status \in OpenRequest
  BY DEF BeginEdit, OpenRequest
<1> QED
  BY <1>1, LoadRequestKept DEF BeginEdit

LEMMA BeginTransitionKept ==
  ASSUME IInv, NEW k \in Desks, NEW m \in Members, NEW q \in Requests,
         NEW to \in {"in_review", "rejected"}, BeginTransition(k, m, q, to)
  PROVE  IInv'
BY LoadRequestKept DEF BeginTransition

LEMMA BeginCancelRequestKept ==
  ASSUME IInv, NEW k \in Desks, NEW m \in Members, NEW q \in Requests,
         NEW cancelFlights \in BOOLEAN, BeginCancelRequest(k, m, q, cancelFlights)
  PROVE  IInv'
BY LoadRequestKept DEF BeginCancelRequest

-----------------------------------------------------------------------------
(* The statements of bulkCreateFlights that write no table.                *)

LEMMA AttemptKnown ==
  ASSUME IInv, NEW call \in Calls
  PROVE  /\ call.request \in Requests /\ call.key \in Keys
         /\ call.payload \in Payloads
         /\ AttemptOf(call) \in Attempt \cup {NoAttempt}
<1>1. call.request \in Requests /\ call.key \in Keys /\ call.payload \in Payloads
  BY DEF Calls
<1>2. <<call.request, call.key>> \in Requests \X Keys
  BY <1>1
<1> QED
  BY <1>1, <1>2 DEF IInv, Typed, AttemptOf

\* replayMatchingFulfillment answers truthfully.
LEMMA ReplayTruthful ==
  ASSUME IInv, NEW call \in Calls, AttemptOf(call) # NoAttempt
  PROVE  LET h == [pc |-> "answered", call |-> call,
                   answer |-> Replay(call, AttemptOf(call))] IN
           DeskOK(h) /\ Truthful(h)
<1> DEFINE attempt == AttemptOf(call)
           h == [pc |-> "answered", call |-> call,
                 answer |-> Replay(call, attempt)]
<1>1. attempt \in Attempt
  BY AttemptKnown
<1>2. attempt = [payload |-> attempt.payload, flights |-> attempt.flights]
  BY <1>1 DEF Attempt
<1> HIDE DEF attempt
<1>3. DeskOK(h)
  BY DEF DeskOK
<1>4. CASE attempt.payload = call.payload
  <2>1. Replay(call, attempt) = [kind |-> "replayed", flights |-> attempt.flights]
    BY <1>4 DEF Replay
  <2>2. h.answer.flights = attempt.flights /\ h.call = call
    BY <2>1
  <2> QED
    BY <1>2, <1>3, <1>4, <2>2 DEF Truthful, attempt
<1>5. CASE attempt.payload # call.payload
  <2>1. Replay(call, attempt) = [kind |-> "conflict"]
    BY <1>5 DEF Replay
  <2>2. h.answer.kind = "conflict"
    BY <2>1
  <2> QED
    BY <1>3, <2>2 DEF Truthful, attempt
<1> QED
  BY <1>4, <1>5

LEMMA ConflictTruthful ==
  ASSUME NEW call \in Calls
  PROVE  LET h == [pc |-> "answered", call |-> call,
                   answer |-> [kind |-> "conflict"]] IN
           DeskOK(h) /\ Truthful(h)
BY DEF DeskOK, Truthful

LEMMA BeginFulfilKept ==
  ASSUME IInv, NEW k \in Desks, NEW m \in Members, NEW call \in Calls,
         BeginFulfil(k, m, call)
  PROVE  IInv'
<1>1. CASE AttemptOf(call) # NoAttempt
  BY <1>1, ReplayTruthful, DeskGoesOn DEF BeginFulfil, Answer
<1>2. CASE AttemptOf(call) = NoAttempt
  <2> DEFINE h == [pc |-> "request", call |-> call]
  <2>1. DeskOK(h) /\ Truthful(h)
    BY DEF DeskOK, Truthful
  <2> QED
    BY <1>2, <2>1, DeskGoesOn DEF BeginFulfil
<1> QED
  BY <1>1, <1>2

LEMMA DeskFacts ==
  ASSUME IInv, NEW k \in Desks, NEW pc, AtDesk(k, pc)
  PROVE  DeskOK(desks[k]) /\ desks[k].pc = pc
BY DEF IInv, DesksOK, AtDesk

LEMMA LoadForFulfilmentKept ==
  ASSUME IInv, NEW k \in Desks, LoadForFulfilment(k)
  PROVE  IInv'
<1> DEFINE call == desks[k].call
           row == requests[call.request]
<1>1. call \in Calls
  BY DeskFacts DEF LoadForFulfilment, DeskOK
<1>2. UNCHANGED <<vars, attempts>>
  BY DEF LoadForFulfilment
<1>3. CASE /\ row.version = call.payload.expected
           /\ row.status \in {"in_review", "partially_fulfilled"}
  <2> DEFINE h == [pc |-> "pilot", call |-> call, seen |-> row]
  <2>1. row.status \in OpenRequest
    BY <1>3 DEF OpenRequest
  <2>2. row \in RequestRow /\ row.status \in Collecting
    BY <1>1, <1>3, <2>1, AttemptKnown, RequestRowKnown DEF Collecting
  <2>3. h \in Planning
    BY <1>1, <2>2 DEF Planning
  <2>4. DeskOK(h) /\ Truthful(h)
    BY <2>3 DEF DeskOK, Truthful
  <2>5. desks' = [desks EXCEPT ![k] = h]
    BY <1>3 DEF LoadForFulfilment
  <2> QED
    BY <1>2, <2>4, <2>5, DeskGoesOn
<1>4. CASE ~ /\ row.version = call.payload.expected
             /\ row.status \in {"in_review", "partially_fulfilled"}
  <2>1. Conflict(k, call)
    BY <1>4 DEF LoadForFulfilment
  <2> QED
    BY <1>1, <1>2, <2>1, ConflictTruthful, DeskGoesOn DEF Conflict, Answer
<1> QED
  BY <1>3, <1>4

LEMMA CheckBatchKept ==
  ASSUME IInv, NEW k \in Desks, CheckBatch(k)
  PROVE  IInv'
<1>1. PICK h \in Planning : h = desks[k]
  BY DeskFacts DEF CheckBatch, DeskOK
<1>2. PICK g : g = [h EXCEPT !.pc = "fulfil"]
  OBVIOUS
<1>3. g \in Planning /\ g.pc = "fulfil"
  BY <1>2 DEF Planning
<1>4. /\ desks' = [desks EXCEPT ![k] = g]
      /\ UNCHANGED <<vars, attempts>>
  BY <1>1, <1>2 DEF CheckBatch, IInv, Typed
<1>5. DeskOK(g) /\ Truthful(g)
  BY <1>3 DEF DeskOK, Truthful
<1> QED
  BY <1>4, <1>5, DeskGoesOn

LEMMA MissFulfilKept ==
  ASSUME IInv, NEW k \in Desks, MissFulfil(k)
  PROVE  IInv'
<1> DEFINE h == [pc |-> "recheck", call |-> desks[k].call]
<1>1. desks[k].call \in Calls
  BY DeskFacts DEF MissFulfil, DeskOK, Planning
<1>2. DeskOK(h) /\ Truthful(h)
  BY <1>1 DEF DeskOK, Truthful
<1>3. /\ desks' = [desks EXCEPT ![k] = h]
      /\ UNCHANGED <<vars, attempts>>
  BY DEF MissFulfil, IInv, Typed
<1> QED
  BY <1>2, <1>3, DeskGoesOn

LEMMA RecheckAttemptKept ==
  ASSUME IInv, NEW k \in Desks, RecheckAttempt(k)
  PROVE  IInv'
<1> DEFINE call == desks[k].call
<1>1. call \in Calls
  BY DeskFacts DEF RecheckAttempt, DeskOK
<1>2. UNCHANGED <<vars, attempts>>
  BY DEF RecheckAttempt
<1>3. CASE AttemptOf(call) # NoAttempt
  <2>1. Answer(k, call, Replay(call, AttemptOf(call)))
    BY <1>3 DEF RecheckAttempt
  <2> QED
    BY <1>1, <1>2, <1>3, <2>1, ReplayTruthful, DeskGoesOn DEF Answer
<1>4. CASE AttemptOf(call) = NoAttempt
  <2>1. Conflict(k, call)
    BY <1>4 DEF RecheckAttempt
  <2> QED
    BY <1>1, <1>2, <2>1, ConflictTruthful, DeskGoesOn DEF Conflict, Answer
<1> QED
  BY <1>3, <1>4

LEMMA DropKept ==
  ASSUME IInv, NEW k \in Desks, Drop(k)
  PROVE  IInv'
BY DeskEnds DEF Drop

-----------------------------------------------------------------------------
(* The statements that move requests and existing flights.                 *)

\* Whatever moves rows and requests this way keeps the invariant, if only the
\* batches still fit.
LEMMA MoveKept ==
  ASSUME IInv, RowsStep, FlightsTyped',
         UNCHANGED <<members, attempts>>,
         requests' \in [Requests -> RequestRow \cup {NoRequest}],
         handlers' \in [Sessions -> Handling \cup {Idle}],
         \A s \in Sessions : handlers'[s] \in {Idle, handlers[s]},
         DOMAIN desks' = Desks,
         \A k \in Desks : Free(k)' \/ desks'[k] = desks[k],
         BatchesFit'
  PROVE  IInv'
<1>1. Typed'
  BY DEF IInv, Typed, FlightsTyped
<1>2. HandlersOK' /\ SnapshotFresh'
  BY StepsGoOn, HandlersStay
<1>3. DesksOK' /\ AnswersAgree'
  BY DesksStay, AnswersStay
<1>4. EveryFlightClaimed' /\ ReplacementsFaithful' /\ ReplacedExist'
  BY ClaimsStay, ReplacementsStay
<1> QED
  BY <1>1, <1>2, <1>3, <1>4 DEF IInv

\* A statement on one request that leaves the flights alone.
LEMMA RequestMoves ==
  ASSUME IInv, NEW k \in Desks, NEW q \in Requests, NEW row \in RequestRow,
         requests' = [requests EXCEPT ![q] = row],
         Live(q) <= row.desired,
         row.status = "partially_fulfilled" => Live(q) < row.desired,
         desks' = [desks EXCEPT ![k] = Idle],
         UNCHANGED <<flights, members, handlers, attempts>>
  PROVE  IInv'
<1>1. /\ requests' \in [Requests -> RequestRow \cup {NoRequest}]
      /\ requests'[q] = row
      /\ \A p \in Requests \ {q} : requests'[p] = requests[p]
  BY DEF IInv, Typed
<1>2. RowsStep /\ FlightsTyped'
  BY DEF IInv, Typed, RowsStep, FlightsTyped
<1>3. /\ DOMAIN desks' = Desks
      /\ \A j \in Desks : Free(j)' \/ desks'[j] = desks[j]
  BY DEF IInv, Typed, Free
<1>4. BatchesFit'
  <2> SUFFICES ASSUME NEW p \in Requests
               PROVE  /\ Live(p)' <= requests'[p].desired
                      /\ requests'[p].status = "partially_fulfilled" =>
                           Live(p)' < requests'[p].desired
    BY DEF BatchesFit, Live
  <2>1. Live(p)' = Live(p)
    BY DEF Live, Originals, NonCancelled, Linked, Exists
  <2>2. CASE p = q
    BY <1>1, <2>1, <2>2
  <2>3. CASE p # q
    BY <1>1, <2>1, <2>3 DEF IInv, BatchesFit, Live
  <2> QED
    BY <2>2, <2>3
<1>5. /\ handlers' \in [Sessions -> Handling \cup {Idle}]
      /\ \A s \in Sessions : handlers'[s] \in {Idle, handlers[s]}
  BY DEF IInv, Typed
<1> QED
  BY <1>1, <1>2, <1>3, <1>4, <1>5, MoveKept

LEMMA LiveFits ==
  ASSUME IInv, NEW q \in Requests
  PROVE  /\ Live(q) \in Nat
         /\ requests[q].desired \in Nat
         /\ Live(q) <= requests[q].desired
<1>1. requests[q].desired \in Nat
  BY NoRequestIsNone DEF IInv, Typed, RequestRow
<1> QED
  BY <1>1, CountsAreFinite DEF IInv, BatchesFit, Live

LEMMA CommitRequestKept ==
  ASSUME IInv, NEW k \in Desks, NEW q \in Requests, CommitRequest(k, q)
  PROVE  IInv'
<1> DEFINE row == [pilot |-> desks[k].actor, status |-> "pending", version |-> 1,
                   desired |-> desks[k].wish]
<1>1. desks[k].actor \in Members /\ desks[k].wish \in 1 .. MaxDesired
  BY DeskFacts DEF CommitRequest, Committed, DeskOK
<1>2. desks[k].wish \in Nat
  BY <1>1
<1>3. row \in RequestRow
  <2>1. "pending" \in RequestStatus /\ 1 \in Nat
    BY DEF RequestStatus, OpenRequest
  <2> QED
    BY <1>1, <1>2, <2>1 DEF RequestRow
<1>4. Live(q) <= row.desired
  <2>1. Live(q) \in Nat /\ Live(q) <= 0
    BY LiveFits, NoRequestIsNone DEF CommitRequest
  <2> QED
    BY <1>2, <2>1
<1>5. /\ requests' = [requests EXCEPT ![q] = row]
      /\ requests[q] = NoRequest
      /\ desks' = [desks EXCEPT ![k] = Idle]
      /\ UNCHANGED <<flights, members, handlers, attempts>>
  BY DEF CommitRequest
<1>6. row.status # "partially_fulfilled"
  OBVIOUS
<1> QED
  BY <1>3, <1>4, <1>5, <1>6, RequestMoves

\* The request a review of it still finds as it was.
LEMMA ReviewFacts ==
  ASSUME IInv, NEW k \in Desks, NEW op \in {"edit", "transition", "cancel"},
         Committed(k, op), RequestAt(desks[k].request, desks[k].seen)
  PROVE  /\ desks[k].request \in Requests
         /\ requests[desks[k].request] \in RequestRow
         /\ requests[desks[k].request].status \in OpenRequest
<1>1. DeskOK(desks[k]) /\ desks[k].pc = "commit" /\ desks[k].op = op
  BY DeskFacts DEF Committed
<1>2. desks[k].request \in Requests /\ desks[k].seen.status \in OpenRequest
  BY <1>1 DEF DeskOK
<1> QED
  BY <1>2, RequestRowKnown DEF RequestAt

\* The rows the statements on requests leave behind.
Edited(row, desired) == [row EXCEPT !.desired = desired, !.version = @ + 1]
Moved(row, to) == [row EXCEPT !.status = to, !.version = @ + 1]

LEMMA EditedRow ==
  ASSUME NEW row \in RequestRow, NEW desired \in Nat
  PROVE  /\ Edited(row, desired) \in RequestRow
         /\ Edited(row, desired).pilot = row.pilot
         /\ Edited(row, desired).status = row.status
         /\ Edited(row, desired).desired = desired
<1>1. PICK next : next = [row EXCEPT !.version = @ + 1]
  OBVIOUS
<1>2. /\ next \in RequestRow
      /\ next.pilot = row.pilot /\ next.status = row.status
  BY <1>1 DEF RequestRow
<1>3. Edited(row, desired) = [next EXCEPT !.desired = desired]
  BY <1>1 DEF Edited, RequestRow
<1> QED
  BY <1>2, <1>3 DEF RequestRow

LEMMA MovedRow ==
  ASSUME NEW row \in RequestRow, NEW to \in RequestStatus
  PROVE  /\ Moved(row, to) \in RequestRow
         /\ Moved(row, to).pilot = row.pilot
         /\ Moved(row, to).status = to
         /\ Moved(row, to).desired = row.desired
<1>1. PICK next : next = [row EXCEPT !.version = @ + 1]
  OBVIOUS
<1>2. /\ next \in RequestRow
      /\ next.pilot = row.pilot /\ next.desired = row.desired
  BY <1>1 DEF RequestRow
<1>3. Moved(row, to) = [next EXCEPT !.status = to]
  BY <1>1 DEF Moved, RequestRow
<1> QED
  BY <1>2, <1>3 DEF RequestRow

LEMMA CommitEditKept ==
  ASSUME IInv, NEW k \in Desks, CommitEdit(k)
  PROVE  IInv'
<1> DEFINE h == desks[k]
           q == h.request
<1>1. /\ q \in Requests /\ requests[q] \in RequestRow
  BY ReviewFacts DEF CommitEdit
<1>2. h.wish \in 1 .. MaxDesired
  BY DeskFacts DEF CommitEdit, Committed, DeskOK
<1>3. h.wish \in Nat
  BY <1>2
<1>4. PICK row : row = Edited(requests[q], h.wish)
  OBVIOUS
<1>5. row \in RequestRow /\ row.pilot = requests[q].pilot /\ row.desired = h.wish
  BY <1>1, <1>3, <1>4, EditedRow
<1>6. requests' = [requests EXCEPT ![q] = row]
  BY <1>1, <1>4 DEF CommitEdit, IInv, Typed, Edited
<1>7. Live(q) = 0
  <2>1. NonCancelled(q) = {}
    BY DEF CommitEdit
  <2> QED
    BY <2>1, FS_EmptySet DEF Live
<1>8. Live(q) < row.desired /\ Live(q) <= row.desired
  BY <1>2, <1>5, <1>7, DesiredAssumption
<1>9. /\ desks' = [desks EXCEPT ![k] = Idle]
      /\ UNCHANGED <<flights, members, handlers, attempts>>
  BY DEF CommitEdit
<1> QED
  BY <1>1, <1>5, <1>6, <1>8, <1>9, RequestMoves

LEMMA CommitTransitionKept ==
  ASSUME IInv, NEW k \in Desks, CommitTransition(k)
  PROVE  IInv'
<1> DEFINE h == desks[k]
           q == h.request
<1>1. /\ q \in Requests /\ requests[q] \in RequestRow
  BY ReviewFacts DEF CommitTransition
<1>2. h.wish \in {"in_review", "rejected"}
  BY DeskFacts DEF CommitTransition, Committed, DeskOK
<1>3. h.wish \in RequestStatus
  BY <1>2 DEF RequestStatus, OpenRequest
<1>4. PICK row : row = Moved(requests[q], h.wish)
  OBVIOUS
<1>5. /\ row \in RequestRow /\ row.pilot = requests[q].pilot
      /\ row.desired = requests[q].desired /\ row.status = h.wish
  BY <1>1, <1>3, <1>4, MovedRow
<1>6. requests' = [requests EXCEPT ![q] = row]
  BY <1>1, <1>4 DEF CommitTransition, IInv, Typed, Moved
<1>7. Live(q) <= row.desired
  BY <1>1, <1>5, LiveFits
<1>8. row.status # "partially_fulfilled"
  BY <1>2, <1>5
<1>9. /\ desks' = [desks EXCEPT ![k] = Idle]
      /\ UNCHANGED <<flights, members, handlers, attempts>>
  BY DEF CommitTransition
<1> QED
  BY <1>1, <1>5, <1>6, <1>7, <1>8, <1>9, RequestMoves

\* cancelScheduleRequest: the request and its undeparted flights go together.
LEMMA CancelledRows ==
  ASSUME IInv, NEW k \in Desks, CommitCancel(k)
  PROVE  LET q == desks[k].request IN
           /\ q \in Requests /\ requests[q] \in RequestRow
           /\ requests' = [requests EXCEPT ![q] = Moved(requests[q], "cancelled")]
           /\ UNCHANGED <<members, handlers, attempts>>
           /\ desks' = [desks EXCEPT ![k] = Idle]
           /\ RowsStep /\ FlightsTyped'
           /\ \A f \in Flights : /\ flights'[f].terms = flights[f].terms
                                 /\ flights'[f] # flights[f] => flights[f].request = q
<1> DEFINE h == desks[k]
           q == h.request
           dropped == {f \in Flights : /\ h.wish
                                       /\ Exists(f)
                                       /\ flights[f].request = q
                                       /\ flights[f].status \in Predeparture}
           gone(f) == Bump([flights[f] EXCEPT !.status = "cancelled"])
<1>1. /\ q \in Requests /\ requests[q] \in RequestRow
  BY ReviewFacts DEF CommitCancel
<1>2. /\ requests' = [requests EXCEPT ![q] = Moved(requests[q], "cancelled")]
      /\ flights' = [f \in Flights |-> IF f \in dropped THEN gone(f) ELSE flights[f]]
      /\ UNCHANGED <<members, handlers, attempts>>
      /\ desks' = [desks EXCEPT ![k] = Idle]
  BY <1>1 DEF CommitCancel, MoveRequest, Moved, IInv, Typed
<1>3. ASSUME NEW f \in dropped
      PROVE  RowStep(flights[f], gone(f)) /\ gone(f).terms = flights[f].terms
  <2>1. PICK old \in Row : old = flights[f]
    BY DEF IInv, Typed, Exists
  <2>2. PICK new : new = [old EXCEPT !.status = "cancelled"]
    OBVIOUS
  <2>3. "cancelled" \in FlightStatus /\ "cancelled" \notin Predeparture
    BY DEF FlightStatus, Terminal, Predeparture
  <2>4. /\ new \in Row /\ new.status = "cancelled" /\ new.version = old.version
        /\ new.request = old.request /\ new.replaces = old.replaces
        /\ new.terms = old.terms
    BY <2>2, <2>3 DEF Row
  <2>5. old.status \notin {"cancelled", "declined"}
    BY <2>1 DEF Predeparture
  <2>6. /\ Bump(new) \in Row /\ Bump(new).version > old.version
        /\ Bump(new).status = "cancelled" /\ Bump(new).terms = old.terms
        /\ Bump(new).request = old.request /\ Bump(new).replaces = old.replaces
    BY <2>4, BumpRow
  <2> QED
    BY <2>1, <2>2, <2>3, <2>5, <2>6 DEF RowStep
<1>4. ASSUME NEW f \in Flights
      PROVE  /\ flights'[f] \in Row \cup {NoRow}
             /\ flights'[f] = flights[f] \/ (Exists(f) /\ RowStep(flights[f], flights'[f]))
             /\ flights'[f].terms = flights[f].terms
             /\ flights'[f] # flights[f] => flights[f].request = q
  <2>1. CASE f \in dropped
    <3>1. flights'[f] = gone(f) /\ Exists(f)
      BY <1>2, <2>1
    <3> QED
      BY <1>3, <2>1, <3>1 DEF RowStep
  <2>2. CASE f \notin dropped
    <3>1. flights'[f] = flights[f]
      BY <1>2, <2>2
    <3> QED
      BY <3>1 DEF IInv, Typed
  <2> QED
    BY <2>1, <2>2
<1>5. RowsStep /\ FlightsTyped'
  BY <1>2, <1>4 DEF RowsStep, FlightsTyped
<1> QED
  BY <1>1, <1>2, <1>4, <1>5

LEMMA CommitCancelKept ==
  ASSUME IInv, NEW k \in Desks, CommitCancel(k)
  PROVE  IInv'
<1> DEFINE q == desks[k].request
<1>1. /\ q \in Requests /\ requests[q] \in RequestRow
      /\ requests' = [requests EXCEPT ![q] = Moved(requests[q], "cancelled")]
      /\ UNCHANGED <<members, handlers, attempts>>
      /\ desks' = [desks EXCEPT ![k] = Idle]
      /\ RowsStep /\ FlightsTyped'
      /\ \A f \in Flights : flights'[f].terms = flights[f].terms
  BY CancelledRows
<1>2. "cancelled" \in RequestStatus
  BY DEF RequestStatus
<1>3. /\ Moved(requests[q], "cancelled") \in RequestRow
      /\ Moved(requests[q], "cancelled").pilot = requests[q].pilot
      /\ Moved(requests[q], "cancelled").status = "cancelled"
      /\ Moved(requests[q], "cancelled").desired = requests[q].desired
  BY <1>1, <1>2, MovedRow
<1>4. /\ requests' \in [Requests -> RequestRow \cup {NoRequest}]
      /\ \A p \in Requests : /\ requests'[p].pilot = requests[p].pilot
                             /\ requests'[p].desired = requests[p].desired
                             /\ requests'[p].status = "partially_fulfilled" =>
                                  requests[p].status = "partially_fulfilled"
  BY <1>1, <1>3 DEF IInv, Typed
<1>5. BatchesFit'
  BY <1>1, <1>4, FitStays, LiveFits
<1>6. /\ DOMAIN desks' = Desks
      /\ \A j \in Desks : Free(j)' \/ desks'[j] = desks[j]
  BY <1>1 DEF IInv, Typed, Free
<1>7. /\ handlers' \in [Sessions -> Handling \cup {Idle}]
      /\ \A s \in Sessions : handlers'[s] \in {Idle, handlers[s]}
  BY <1>1 DEF IInv, Typed
<1> QED
  BY <1>1, <1>4, <1>5, <1>6, <1>7, MoveKept

-----------------------------------------------------------------------------
(* The statements that insert flights.                                     *)

\* The rows of new are inserted, every other row stays.
Inserts(new) ==
  /\ new \subseteq Flights
  /\ \A f \in new : ~Exists(f) /\ flights'[f] \in Row
  /\ \A f \in Flights \ new : flights'[f] = flights[f]

LEMMA InsertedLinks ==
  ASSUME IInv, NEW new, Inserts(new), NEW q \in Requests
  PROVE  LET added == {f \in new : /\ flights'[f].request = q
                                   /\ flights'[f].replaces = Null} IN
           /\ Originals(q)' = Originals(q) \cup added
           /\ added \cap Originals(q) = {}
           /\ (Originals(q) \cap NonCancelled(q))' =
                (Originals(q) \cap NonCancelled(q))
                  \cup {f \in added : flights'[f].status # "cancelled"}
<1>1. \A f \in new : f \in Flights /\ Exists(f)' /\ ~Exists(f)
  BY NoRowNotRow DEF Inserts, Exists
<1>2. \A f \in Flights \ new : flights'[f] = flights[f] /\ (Exists(f)' <=> Exists(f))
  BY DEF Inserts, Exists
<1>3. \A f : f \in Linked(q) => f \in Flights \ new
  BY <1>1 DEF Linked
<1>4. \A f : f \in Linked(q)' <=>
               f \in Linked(q) \/ (f \in new /\ flights'[f].request = q)
  BY <1>1, <1>2, <1>3 DEF Linked
<1>5. \A f : f \in Originals(q)' <=>
               \/ f \in Originals(q)
               \/ f \in new /\ flights'[f].request = q /\ flights'[f].replaces = Null
  BY <1>2, <1>3, <1>4 DEF Originals
<1>6. \A f : f \in NonCancelled(q)' <=>
               \/ f \in NonCancelled(q)
               \/ /\ f \in new /\ flights'[f].request = q
                  /\ flights'[f].status # "cancelled"
  BY <1>2, <1>3, <1>4 DEF NonCancelled
<1>7. \A f : f \in Originals(q) \/ f \in NonCancelled(q) => f \notin new
  BY <1>3 DEF Originals, NonCancelled
<1> QED
  BY <1>5, <1>6, <1>7

LEMMA InsertedElsewhere ==
  ASSUME IInv, NEW new, Inserts(new), NEW q \in Requests,
         \A f \in new : flights'[f].request # q \/ flights'[f].replaces # Null
  PROVE  /\ Originals(q)' = Originals(q)
         /\ (Originals(q) \cap NonCancelled(q))' = Originals(q) \cap NonCancelled(q)
<1> DEFINE added == {f \in new : /\ flights'[f].request = q
                                /\ flights'[f].replaces = Null}
<1>1. added = {} /\ {f \in added : flights'[f].status # "cancelled"} = {}
  OBVIOUS
<1>2. /\ Originals(q)' = Originals(q) \cup added
      /\ (Originals(q) \cap NonCancelled(q))' =
           (Originals(q) \cap NonCancelled(q))
             \cup {f \in added : flights'[f].status # "cancelled"}
  BY InsertedLinks
<1> QED
  BY <1>1, <1>2

LEMMA InsertTyped ==
  ASSUME IInv, NEW new, Inserts(new), DOMAIN flights' = Flights,
         flights' = [f \in DOMAIN flights' |-> flights'[f]]
  PROVE  FlightsTyped' /\ RowsGoOn
<1>1. \A f \in Flights : flights'[f] \in Row \cup {NoRow}
  BY DEF Inserts, IInv, Typed
<1> QED
  BY <1>1 DEF FlightsTyped, RowsGoOn, Inserts

LEMMA SeqElement ==
  ASSUME NEW S, NEW b \in Seq(S), NEW i \in 1 .. Len(b)
  PROVE  b[i] \in S
OBVIOUS

\* What a client may count on once its batch is inserted.
LEMMA FulfilFacts ==
  ASSUME IInv, NEW k \in Desks, NEW n \in Nat, NEW ids \in [1 .. n -> Flights],
         CommitFulfil(k, ids)
  PROVE  LET h == desks[k]
             q == h.call.request
             batch == h.call.payload.batch IN
           /\ h.call \in Calls /\ q \in Requests /\ h.call.key \in Keys
           /\ requests[q] \in RequestRow
           /\ ActivePilot(requests[q].pilot)
           /\ batch \in Batches /\ Len(batch) = n
           /\ ids \in Seq(Flights) /\ DOMAIN ids = 1 .. n
           /\ \A i \in 1 .. n : batch[i] \in [time : Times, route : Routes]
<1> DEFINE h == desks[k]
           q == h.call.request
           batch == h.call.payload.batch
<1>1. h \in Planning
  BY DeskFacts DEF CommitFulfil, DeskOK
<1>2. /\ h.call \in Calls /\ h.seen \in RequestRow /\ h.seen.status \in Collecting
  BY <1>1 DEF Planning
<1>3. q \in Requests /\ h.call.key \in Keys /\ batch \in Batches
  BY <1>2, AttemptKnown DEF Payloads
<1>4. requests[q].status \in OpenRequest
  BY <1>2 DEF CommitFulfil, Claimable, RequestAt, Collecting, OpenRequest
<1>5. requests[q] \in RequestRow
  BY <1>3, <1>4, RequestRowKnown
<1>6. ActivePilot(requests[q].pilot)
  BY DEF CommitFulfil, Claimable
<1>7. batch \in Seq([time : Times, route : Routes])
  BY <1>3, BatchesAssumption
<1>8. DOMAIN ids = 1 .. n /\ DOMAIN ids = DOMAIN batch
  BY DEF CommitFulfil
<1>9. Len(batch) \in Nat /\ DOMAIN batch = 1 .. Len(batch)
  BY <1>7
<1>10. Len(batch) = n
  BY <1>8, <1>9
<1>11. ids \in Seq(Flights)
  OBVIOUS
<1>12. \A i \in 1 .. n : batch[i] \in [time : Times, route : Routes]
  BY <1>7, <1>10, SeqElement
<1> QED
  BY <1>2, <1>3, <1>5, <1>6, <1>8, <1>10, <1>11, <1>12

\* An inserted flight is an offer to the pilot of the request.
LEMMA OfferedRowType ==
  ASSUME IInv, NEW q \in Requests, requests[q] \in RequestRow,
         NEW slot \in [time : Times, route : Routes]
  PROVE  LET row == OfferedRow(q, slot) IN
           /\ row \in Row
           /\ row.status = "offered" /\ row.request = q /\ row.replaces = Null
           /\ row.terms.pilot = requests[q].pilot
<1>1. requests[q].pilot \in Members
  BY DEF RequestRow
<1>2. PICK terms \in Terms : /\ terms = [pilot |-> requests[q].pilot,
                                         time |-> slot.time, route |-> slot.route]
  BY <1>1 DEF Terms
<1>3. terms.pilot = requests[q].pilot
  BY <1>2
<1>4. "offered" \in FlightStatus
  BY DEF FlightStatus, Predeparture
<1> QED
  BY <1>2, <1>3, <1>4 DEF OfferedRow, NewRow, Row

LEMMA FulfilInserts ==
  ASSUME IInv, NEW k \in Desks, NEW n \in Nat, NEW ids \in [1 .. n -> Flights],
         CommitFulfil(k, ids)
  PROVE  LET q == desks[k].call.request
             new == IdsOf([flights |-> ids]) IN
           /\ Inserts(new)
           /\ DOMAIN flights' = Flights
           /\ flights' = [f \in DOMAIN flights' |-> flights'[f]]
           /\ \A f \in new : /\ flights'[f].status = "offered"
                             /\ flights'[f].request = q
                             /\ flights'[f].replaces = Null
                             /\ flights'[f].terms.pilot = requests[q].pilot
           /\ IsFiniteSet(new) /\ Cardinality(new) <= n
<1> DEFINE h == desks[k]
           q == h.call.request
           batch == h.call.payload.batch
           new == IdsOf([flights |-> ids])
<1>1. /\ q \in Requests /\ requests[q] \in RequestRow
      /\ DOMAIN ids = 1 .. n
      /\ \A i \in 1 .. n : batch[i] \in [time : Times, route : Routes]
  BY FulfilFacts
<1>2. new = {ids[i] : i \in 1 .. n}
  BY <1>1 DEF IdsOf
<1>3. new \subseteq Flights
  BY <1>2
<1>4. /\ \A i \in 1 .. n : ~Exists(ids[i])
      /\ flights' = [f \in Flights |->
           IF \E i \in DOMAIN ids : ids[i] = f
           THEN OfferedRow(q, batch[CHOOSE i \in DOMAIN ids : ids[i] = f])
           ELSE flights[f]]
  BY <1>1 DEF CommitFulfil
<1>5. ASSUME NEW f \in new
      PROVE  \E slot \in [time : Times, route : Routes] :
               flights'[f] = OfferedRow(q, slot)
  <2>1. \E i \in DOMAIN ids : ids[i] = f
    BY <1>1, <1>2
  <2>2. PICK j : j = CHOOSE i \in DOMAIN ids : ids[i] = f
    OBVIOUS
  <2>3. j \in DOMAIN ids
    BY <2>1, <2>2
  <2>4. batch[j] \in [time : Times, route : Routes]
    BY <1>1, <2>3
  <2>5. flights'[f] = OfferedRow(q, batch[j])
    BY <1>3, <1>4, <2>1, <2>2
  <2> QED
    BY <2>4, <2>5
<1>6. \A f \in new : /\ flights'[f] \in Row
                     /\ flights'[f].status = "offered"
                     /\ flights'[f].request = q
                     /\ flights'[f].replaces = Null
                     /\ flights'[f].terms.pilot = requests[q].pilot
  BY <1>1, <1>5, OfferedRowType
<1>7. \A f \in Flights \ new : flights'[f] = flights[f]
  BY <1>1, <1>2, <1>4
<1>8. Inserts(new)
  <2>1. \A f \in new : ~Exists(f)
    BY <1>2, <1>4
  <2> HIDE DEF new
  <2> QED
    BY <2>1, <1>3, <1>6, <1>7 DEF Inserts
<1>9. IsFiniteSet(new) /\ Cardinality(new) <= n
  <2>1. IsFiniteSet(new)
    BY <1>3, FlightsAssumption, FS_Subset
  <2>2. ids \in Surjection(1 .. n, new)
    BY <1>2 DEF Surjection
  <2>3. ExistsSurjection(1 .. n, new)
    BY <2>2 DEF ExistsSurjection
  <2> QED
    BY <2>1, <2>3, FS_SurjCardinalityBound
<1>10. /\ DOMAIN flights' = Flights
       /\ flights' = [f \in DOMAIN flights' |-> flights'[f]]
  BY <1>4
<1> QED
  BY <1>6, <1>8, <1>9, <1>10

LEMMA FulfilFits ==
  ASSUME IInv, NEW k \in Desks, NEW n \in Nat, NEW ids \in [1 .. n -> Flights],
         CommitFulfil(k, ids)
  PROVE  BatchesFit'
<1> DEFINE q == desks[k].call.request
           batch == desks[k].call.payload.batch
           new == IdsOf([flights |-> ids])
<1>1. /\ q \in Requests /\ requests[q] \in RequestRow /\ Len(batch) = n
  BY FulfilFacts
<1>2. /\ Inserts(new)
      /\ \A f \in new : /\ flights'[f].status = "offered"
                        /\ flights'[f].request = q
                        /\ flights'[f].replaces = Null
      /\ IsFiniteSet(new) /\ Cardinality(new) <= n
  BY FulfilInserts
<1> HIDE DEF new
<1>3. /\ Cardinality(NonCancelled(q)) + n <= requests[q].desired
      /\ requests' = [requests EXCEPT ![q].status = FulfilledStatus(q, n),
                                      ![q].version = @ + 1]
  BY <1>1 DEF CommitFulfil, Claimable, Fits
<1>4. /\ requests'[q].desired = requests[q].desired
      /\ requests'[q].status = FulfilledStatus(q, n)
      /\ \A p \in Requests \ {q} : requests'[p] = requests[p]
  BY <1>1, <1>3 DEF IInv, Typed, RequestRow
<1> SUFFICES ASSUME NEW p \in Requests
             PROVE  /\ Live(p)' <= requests'[p].desired
                    /\ requests'[p].status = "partially_fulfilled" =>
                         Live(p)' < requests'[p].desired
  BY DEF BatchesFit, Live
<1> DEFINE live == Originals(p) \cap NonCancelled(p)
<1>5. IsFiniteSet(live)
  BY CountsAreFinite, FS_Subset
<1>6. CASE p = q
  <2>1. (Originals(p) \cap NonCancelled(p))' \subseteq live \cup new
    BY <1>2, InsertedLinks
  <2>2. /\ IsFiniteSet(live \cup new)
        /\ Cardinality(live \cup new) =
             Cardinality(live) + Cardinality(new) - Cardinality(live \cap new)
    BY <1>2, <1>5, FS_Union
  <2>3. /\ Cardinality(live) \in Nat /\ Cardinality(new) \in Nat
        /\ Cardinality(live \cap new) \in Nat
    BY <1>2, <1>5, FS_CardinalityType, FS_Subset
  <2>4. Live(p)' \in Nat /\ Live(p)' <= Cardinality(live \cup new)
    BY <2>1, <2>2, FewerFit DEF Live
  <2>5. /\ Cardinality(NonCancelled(p)) \in Nat
        /\ Cardinality(live) <= Cardinality(NonCancelled(p))
    BY CountsAreFinite DEF Live
  <2>6. Live(p)' <= Cardinality(NonCancelled(p)) + n
    BY <1>2, <2>2, <2>3, <2>4, <2>5
  <2>7. /\ requests[q].desired \in Nat
        /\ requests'[p].desired = requests[q].desired
        /\ Cardinality(NonCancelled(p)) + n <= requests[q].desired
    BY <1>1, <1>3, <1>4, <1>6 DEF RequestRow
  <2>8. Live(p)' <= requests'[p].desired
    BY <2>4, <2>5, <2>6, <2>7
  <2>9. ASSUME requests'[p].status = "partially_fulfilled"
        PROVE  Live(p)' < requests'[p].desired
    <3>1. ~ (Cardinality(NonCancelled(p)) + n >= requests[q].desired)
      BY <1>4, <1>6, <2>9 DEF FulfilledStatus
    <3> QED
      BY <2>4, <2>5, <2>6, <2>7, <3>1
  <2> QED
    BY <2>8, <2>9
<1>7. CASE p # q
  <2>1. (Originals(p) \cap NonCancelled(p))' = live
    BY <1>2, <1>7, InsertedElsewhere
  <2> QED
    BY <1>4, <1>7, <2>1 DEF IInv, BatchesFit, Live
<1> QED
  BY <1>6, <1>7

LEMMA FulfilClaims ==
  ASSUME IInv, NEW k \in Desks, NEW n \in Nat, NEW ids \in [1 .. n -> Flights],
         CommitFulfil(k, ids)
  PROVE  EveryFlightClaimed'
<1> DEFINE q == desks[k].call.request
           own == desks[k].call.key
           new == IdsOf([flights |-> ids])
           entry == [payload |-> desks[k].call.payload, flights |-> ids]
<1>1. q \in Requests /\ own \in Keys
  BY FulfilFacts
<1>2. /\ Inserts(new)
      /\ \A f \in new : flights'[f].request = q /\ flights'[f].replaces = Null
  BY FulfilInserts
<1>3. IdsOf(entry) = new
  BY DEF IdsOf
<1>4. IdsOf(attempts[<<q, own>>]) = {}
  BY NoAttemptIsNone DEF CommitFulfil, Claimable, AttemptOf
<1>5. attempts' = [attempts EXCEPT ![<<q, own>>] = entry]
  BY DEF CommitFulfil
<1>6. \A p \in Requests, key \in Keys :
        attempts'[<<p, key>>] =
          IF p = q /\ key = own THEN entry ELSE attempts[<<p, key>>]
  BY <1>1, <1>5 DEF IInv, Typed
<1>7. \A p \in Requests, key \in Keys :
        /\ p = q /\ key = own => IdsOf(attempts'[<<p, key>>]) = new
        /\ ~(p = q /\ key = own) =>
             IdsOf(attempts'[<<p, key>>]) = IdsOf(attempts[<<p, key>>])
  BY <1>3, <1>6
<1> HIDE DEF new, entry
<1> SUFFICES ASSUME NEW p \in Requests
             PROVE  /\ Originals(p)' = UNION {IdsOf(attempts'[<<p, key>>]) : key \in Keys}
                    /\ \A a, b \in Keys : a # b =>
                         IdsOf(attempts'[<<p, a>>]) \cap IdsOf(attempts'[<<p, b>>]) = {}
  BY DEF EveryFlightClaimed, IdsOf
<1>8. /\ Originals(p) = UNION {IdsOf(attempts[<<p, key>>]) : key \in Keys}
      /\ \A a, b \in Keys : a # b =>
           IdsOf(attempts[<<p, a>>]) \cap IdsOf(attempts[<<p, b>>]) = {}
  BY DEF IInv, EveryFlightClaimed
<1>9. CASE p = q
  <2>1. Originals(p)' = Originals(p) \cup new /\ new \cap Originals(p) = {}
    BY <1>2, <1>9, InsertedLinks
  <2>2. \A key \in Keys : IdsOf(attempts[<<p, key>>]) \subseteq Originals(p)
    BY <1>8
  <2>3. UNION {IdsOf(attempts'[<<p, key>>]) : key \in Keys} = Originals(p) \cup new
    <3>1. ASSUME NEW f \in Originals(p)
          PROVE  \E key \in Keys : f \in IdsOf(attempts'[<<p, key>>])
      <4>1. PICK key \in Keys : f \in IdsOf(attempts[<<p, key>>])
        BY <1>8, <3>1
      <4>2. key # own
        BY <1>4, <1>9, <4>1
      <4> QED
        BY <1>7, <4>1, <4>2
    <3>2. IdsOf(attempts'[<<p, own>>]) = new
      BY <1>1, <1>7, <1>9
    <3>3. \A key \in Keys : IdsOf(attempts'[<<p, key>>]) \subseteq Originals(p) \cup new
      BY <1>7, <2>2
    <3> QED
      BY <1>1, <3>1, <3>2, <3>3
  <2>4. ASSUME NEW a \in Keys, NEW b \in Keys, a # b
        PROVE  IdsOf(attempts'[<<p, a>>]) \cap IdsOf(attempts'[<<p, b>>]) = {}
    <3>1. CASE a = own
      BY <1>7, <1>9, <2>1, <2>2, <2>4, <3>1
    <3>2. CASE b = own
      BY <1>7, <1>9, <2>1, <2>2, <2>4, <3>2
    <3>3. CASE a # own /\ b # own
      BY <1>7, <1>8, <2>4, <3>3
    <3> QED
      BY <3>1, <3>2, <3>3
  <2> QED
    BY <2>1, <2>3, <2>4
<1>10. CASE p # q
  <2>1. Originals(p)' = Originals(p)
    BY <1>2, <1>10, InsertedElsewhere
  <2>2. \A key \in Keys :
          IdsOf(attempts'[<<p, key>>]) = IdsOf(attempts[<<p, key>>])
    BY <1>7, <1>10
  <2>3. {IdsOf(attempts'[<<p, key>>]) : key \in Keys}
          = {IdsOf(attempts[<<p, key>>]) : key \in Keys}
    BY <2>2
  <2>4. Originals(p)' = UNION {IdsOf(attempts'[<<p, key>>]) : key \in Keys}
    BY <1>8, <2>1, <2>3
  <2>5. ASSUME NEW a \in Keys, NEW b \in Keys, a # b
        PROVE  IdsOf(attempts'[<<p, a>>]) \cap IdsOf(attempts'[<<p, b>>]) = {}
    BY <1>8, <2>2, <2>5
  <2> QED
    BY <2>4, <2>5
<1> QED
  BY <1>9, <1>10

LEMMA FulfilAnswers ==
  ASSUME IInv, NEW k \in Desks, NEW n \in Nat, NEW ids \in [1 .. n -> Flights],
         CommitFulfil(k, ids)
  PROVE  DOMAIN desks' = Desks /\ DesksOK' /\ AnswersAgree'
<1> DEFINE call == desks[k].call
           entry == [payload |-> call.payload, flights |-> ids]
           h == [pc |-> "answered", call |-> call,
                 answer |-> [kind |-> "created", flights |-> ids]]
<1>1. call \in Calls /\ call.request \in Requests /\ call.key \in Keys
  BY FulfilFacts
<1>2. /\ desks' = [desks EXCEPT ![k] = h]
      /\ attempts' = [attempts EXCEPT ![<<call.request, call.key>>] = entry]
  BY DEF CommitFulfil, Answer
<1>3. /\ DOMAIN desks' = Desks /\ desks'[k] = h
      /\ \A j \in Desks \ {k} : desks'[j] = desks[j]
  BY <1>2 DEF IInv, Typed
<1>4. DesksOK'
  <2> SUFFICES ASSUME NEW j \in Desks, ~Free(j)'
               PROVE  DeskOK(desks'[j])
    BY DEF DesksOK, DeskOK
  <2>1. CASE j = k
    <3>1. DeskOK(h)
      BY <1>1 DEF DeskOK
    <3> QED
      BY <1>3, <2>1, <3>1
  <2>2. CASE j # k
    BY <1>3, <2>2 DEF IInv, DesksOK, Free
  <2> QED
    BY <2>1, <2>2
<1>5. AnswersAgree'
  <2> SUFFICES ASSUME NEW j \in Desks, AtDesk(j, "answered")',
                      desks'[j].answer.kind # "conflict"
               PROVE  attempts'[<<desks'[j].call.request, desks'[j].call.key>>] =
                        [payload |-> desks'[j].call.payload,
                         flights |-> desks'[j].answer.flights]
    BY DEF AnswersAgree, AttemptOf
  <2>1. CASE j = k
    <3>1. attempts'[<<call.request, call.key>>] = entry
      BY <1>1, <1>2 DEF IInv, Typed
    <3>2. desks'[j].call = call /\ desks'[j].answer.flights = ids
      BY <1>3, <2>1
    <3> QED
      BY <3>1, <3>2
  <2>2. CASE j # k
    <3> DEFINE c == desks[j].call
               told == [payload |-> c.payload, flights |-> desks[j].answer.flights]
    <3>1. desks'[j] = desks[j]
      BY <1>3, <2>2
    <3>2. AtDesk(j, "answered") /\ desks[j].answer.kind # "conflict"
      BY <3>1 DEF AtDesk, Free
    <3>3. attempts[<<c.request, c.key>>] = told
      BY <3>2 DEF IInv, AnswersAgree, AttemptOf
    <3>4. told # NoAttempt
      <4>1. "payload" \in DOMAIN told /\ "payload" \notin DOMAIN NoAttempt
        BY DEF NoAttempt
      <4> QED
        BY <4>1
    <3>5. attempts[<<call.request, call.key>>] = NoAttempt
      BY DEF CommitFulfil, Claimable, AttemptOf
    <3>6. <<c.request, c.key>> # <<call.request, call.key>>
      BY <3>3, <3>4, <3>5
    <3>7. c \in Calls
      BY <3>2, DeskFacts DEF DeskOK
    <3>8. <<c.request, c.key>> \in Requests \X Keys
      BY <3>7, AttemptKnown
    <3>9. attempts'[<<c.request, c.key>>] = attempts[<<c.request, c.key>>]
      BY <1>2, <3>6, <3>8 DEF IInv, Typed
    <3> QED
      BY <3>1, <3>3, <3>9
  <2> QED
    BY <2>1, <2>2
<1> QED
  BY <1>3, <1>4, <1>5

\* What an insertion leaves in order: the waiting handlers and the
\* replacements, if the inserted rows replace nothing.
LEMMA InsertHandlers ==
  ASSUME IInv, NEW new, Inserts(new),
         handlers' \in [Sessions -> Handling \cup {Idle}],
         \A s \in Sessions : handlers'[s] \in {Idle, handlers[s]}
  PROVE  HandlersOK' /\ SnapshotFresh'
<1>1. RowsGoOn
  BY DEF Inserts, RowsGoOn
<1> QED
  BY <1>1, HandlersStay

LEMMA FulfilReplacements ==
  ASSUME IInv, NEW new, Inserts(new),
         \A f \in new : flights'[f].replaces = Null
  PROVE  ReplacementsFaithful' /\ ReplacedExist'
<1>1. \A f \in Flights : Exists(f)' /\ flights'[f].replaces # Null =>
        Exists(f) /\ flights'[f] = flights[f]
  BY DEF Inserts, Exists
<1>2. \A f \in Flights : Exists(f) => Exists(f)' /\ flights'[f] = flights[f]
  BY DEF Inserts, Exists
<1>3. \A f \in Flights : Exists(f) /\ flights[f].replaces # Null =>
        flights[f].replaces \in Flights /\ Exists(flights[f].replaces)
  BY DEF IInv, ReplacedExist, Typed, Exists, Row
<1>4. ReplacedExist'
  <2> SUFFICES ASSUME NEW f \in Flights, Exists(f)', flights'[f].replaces # Null
               PROVE  Exists(flights[f].replaces)'
    BY <1>1 DEF ReplacedExist
  <2> QED
    BY <1>1, <1>2, <1>3
<1>5. ReplacementsFaithful'
  <2> SUFFICES ASSUME NEW f \in Flights, NEW g \in Flights,
                      Exists(f)', Exists(g)', flights'[f].replaces # Null
               PROVE  /\ flights'[g].replaces = flights'[f].replaces => f = g
                      /\ g = flights'[f].replaces =>
                           /\ flights'[g].status = "declined"
                           /\ flights'[f].request = flights'[g].request
    BY DEF ReplacementsFaithful
  <2>1. Exists(f) /\ flights'[f] = flights[f]
    BY <1>1
  <2>2. flights'[g].replaces = flights'[f].replaces =>
          Exists(g) /\ flights'[g] = flights[g]
    BY <1>1
  <2>3. g = flights'[f].replaces => Exists(g) /\ flights'[g] = flights[g]
    BY <1>2, <1>3, <2>1
  <2>4. Exists(g) => /\ flights[g].replaces = flights[f].replaces => f = g
                     /\ g = flights[f].replaces =>
                          /\ flights[g].status = "declined"
                          /\ flights[f].request = flights[g].request
    BY <2>1 DEF IInv, ReplacementsFaithful
  <2> QED
    BY <2>1, <2>2, <2>3, <2>4
<1> QED
  BY <1>4, <1>5

\* fulfillScheduleRequest.
LEMMA CommitFulfilKept ==
  ASSUME IInv, NEW k \in Desks, NEW n \in Nat, NEW ids \in [1 .. n -> Flights],
         CommitFulfil(k, ids)
  PROVE  IInv'
<1> DEFINE q == desks[k].call.request
           own == desks[k].call.key
           batch == desks[k].call.payload.batch
           new == IdsOf([flights |-> ids])
           to == FulfilledStatus(q, n)
           entry == [payload |-> desks[k].call.payload, flights |-> ids]
<1>1. /\ desks[k].call \in Calls /\ q \in Requests /\ own \in Keys
      /\ requests[q] \in RequestRow
      /\ ActivePilot(requests[q].pilot)
      /\ Len(batch) = n /\ ids \in Seq(Flights)
  BY FulfilFacts
<1>2. /\ Inserts(new)
      /\ DOMAIN flights' = Flights
      /\ flights' = [f \in DOMAIN flights' |-> flights'[f]]
      /\ \A f \in new : /\ flights'[f].request = q
                        /\ flights'[f].replaces = Null
                        /\ flights'[f].terms.pilot = requests[q].pilot
  BY FulfilInserts
<1>3. FlightsTyped'
  BY <1>2, InsertTyped
<1>4. /\ requests' = [requests EXCEPT ![q] = Moved(requests[q], to)]
      /\ attempts' = [attempts EXCEPT ![<<q, own>>] = entry]
      /\ UNCHANGED <<members, handlers>>
  BY <1>1 DEF CommitFulfil, Moved, IInv, Typed
<1>5. to \in RequestStatus
  BY DEF FulfilledStatus, RequestStatus, OpenRequest
<1>6. /\ Moved(requests[q], to) \in RequestRow
      /\ Moved(requests[q], to).pilot = requests[q].pilot
  BY <1>1, <1>5, MovedRow
<1>7. /\ requests' \in [Requests -> RequestRow \cup {NoRequest}]
      /\ \A p \in Requests : requests'[p].pilot = requests[p].pilot
  BY <1>1, <1>4, <1>6 DEF IInv, Typed
<1>8. entry \in Attempt
  BY <1>1, AttemptKnown DEF Attempt
<1>9. attempts' \in [Requests \X Keys -> Attempt \cup {NoAttempt}]
  BY <1>4, <1>8 DEF IInv, Typed
<1>10. /\ handlers' \in [Sessions -> Handling \cup {Idle}]
       /\ \A s \in Sessions : handlers'[s] \in {Idle, handlers[s]}
  BY <1>4 DEF IInv, Typed
<1>11. HandlersOK' /\ SnapshotFresh'
  BY <1>2, <1>10, InsertHandlers
<1>12. DOMAIN desks' = Desks /\ DesksOK' /\ AnswersAgree'
  BY FulfilAnswers
<1>13. Typed'
  BY <1>3, <1>4, <1>7, <1>9, <1>10, <1>12 DEF IInv, Typed, FlightsTyped
<1>14. ReplacementsFaithful' /\ ReplacedExist'
  BY <1>2, FulfilReplacements
<1>15. BatchesFit' /\ EveryFlightClaimed'
  BY FulfilFits, FulfilClaims
<1> QED
  BY <1>11, <1>12, <1>13, <1>14, <1>15 DEF IInv

-----------------------------------------------------------------------------
(* The handlers of the flights of a request.                               *)

\* What SnapshotFresh says of one handler.
SeenOK(h) ==
  /\ flights[h.flight] # NoRow /\ h.seen # NoRow
  /\ h.seen.version <= flights[h.flight].version
  /\ h.seen.version = flights[h.flight].version => h.seen = flights[h.flight]

LEMMA HandlerTurns ==
  ASSUME IInv, NEW s \in Sessions, NEW h \in Handling \cup {Idle},
         h # Idle => HandlerOK(h) /\ SeenOK(h),
         handlers' = [handlers EXCEPT ![s] = h],
         UNCHANGED <<flights, members, requests, attempts, desks>>
  PROVE  IInv'
<1>1. RowsStep
  BY DEF RowsStep
<1>2. /\ handlers'[s] = h
      /\ \A t \in Sessions \ {s} : handlers'[t] = handlers[t]
  BY DEF IInv, Typed
<1>3. Typed'
  BY DEF IInv, Typed
<1>4. HandlersOK'
  <2> SUFFICES ASSUME NEW t \in Sessions, Running(t)'
               PROVE  HandlerOK(handlers'[t])
    BY DEF HandlersOK, HandlerOK
  <2>1. CASE t = s
    BY <1>2, <2>1 DEF Running
  <2>2. CASE t # s
    BY <1>2, <2>2 DEF IInv, HandlersOK, Running
  <2> QED
    BY <2>1, <2>2
<1>5. SnapshotFresh'
  <2> SUFFICES ASSUME NEW t \in Sessions, Running(t)', handlers'[t].flight # Null
               PROVE  SeenOK(handlers'[t])
    BY DEF SnapshotFresh, SeenOK
  <2>1. CASE t = s
    BY <1>2, <2>1 DEF Running
  <2>2. CASE t # s
    BY <1>2, <2>2 DEF IInv, SnapshotFresh, Running, SeenOK
  <2> QED
    BY <2>1, <2>2
<1>6. BatchesFit'
  BY <1>1, FitStays, LiveFits
<1>7. EveryFlightClaimed' /\ ReplacementsFaithful' /\ ReplacedExist'
  BY <1>1, ClaimsStay, ReplacementsStay
<1>8. DesksOK' /\ AnswersAgree'
  BY DesksStay, AnswersStay
<1> QED
  BY <1>3, <1>4, <1>5, <1>6, <1>7, <1>8 DEF IInv

\* A handler that enters with the row as it stands.
LEMMA EnterKept ==
  ASSUME IInv, NEW s \in Sessions, NEW actor \in Members, NEW f \in Flights,
         NEW pc \in {"request", "pilot", "commit"},
         NEW op \in {"accept", "decline", "cancel", "reoffer"},
         NEW wish \in Terms, Exists(f),
         Enter(s, pc, op, actor, f, flights[f], wish),
         UNCHANGED <<attempts, desks>>,
         op \in {"accept", "decline"} => flights[f].status = "offered",
         op = "cancel" => flights[f].status \in Predeparture \cup {"active"},
         pc = "request" => flights[f].request \in Requests
  PROVE  IInv'
<1>1. PICK disp \in BOOLEAN : disp = IsDispatcher(actor)
  BY DEF IsDispatcher
<1>2. PICK seen \in Row : seen = flights[f]
  BY DEF IInv, Typed, Exists
<1>3. PICK h : h = [pc |-> pc, op |-> op, actor |-> actor, asDispatcher |-> disp,
                    flight |-> f, seen |-> seen, wish |-> wish]
  OBVIOUS
<1>4. /\ h \in Handling
      /\ h.pc = pc /\ h.op = op /\ h.flight = f /\ h.seen = seen
  BY <1>3 DEF Handling
<1>5. handlers' = [handlers EXCEPT ![s] = h]
      /\ UNCHANGED <<flights, members, requests>>
  BY <1>1, <1>2, <1>3 DEF Enter
<1>6. HandlerOK(h)
  BY <1>2, <1>4 DEF HandlerOK
<1>7. SeenOK(h)
  <2>1. seen.version \in Nat
    BY DEF Row
  <2> QED
    BY <1>2, <1>4, <2>1 DEF SeenOK, Exists
<1> QED
  BY <1>4, <1>5, <1>6, <1>7, HandlerTurns

LEMMA ExistingRow ==
  ASSUME IInv, NEW f \in Flights, Exists(f)
  PROVE  /\ flights[f] \in Row /\ flights[f].terms \in Terms
         /\ flights[f].status \in FlightStatus
         /\ flights[f].request \in Requests \cup {Null}
         /\ flights[f].replaces \in Flights \cup {Null}
BY DEF IInv, Typed, Exists, Row

LEMMA BeginAnswerKept ==
  ASSUME IInv, NEW s \in Sessions, NEW m \in Members, NEW f \in Flights,
         NEW op \in {"accept", "decline"}, BeginAnswer(s, m, f, op),
         UNCHANGED <<attempts, desks>>
  PROVE  IInv'
<1>1. /\ Exists(f) /\ flights[f].status = "offered"
      /\ Enter(s, "commit", op, m, f, flights[f], flights[f].terms)
  BY DEF BeginAnswer, Load
<1> QED
  BY <1>1, ExistingRow, EnterKept

LEMMA BeginCancelKept ==
  ASSUME IInv, NEW s \in Sessions, NEW m \in Members, NEW f \in Flights,
         BeginCancel(s, m, f), UNCHANGED <<attempts, desks>>
  PROVE  IInv'
<1>1. /\ Exists(f) /\ CanTransition(flights[f], "cancelled")
      /\ Enter(s, "commit", "cancel", m, f, flights[f], flights[f].terms)
  BY DEF BeginCancel, Load
<1>2. flights[f].status \in Predeparture \cup {"active"}
  BY <1>1, ExistingRow
     DEF CanTransition, Successors, FlightStatus, Terminal
<1> QED
  BY <1>1, <1>2, ExistingRow, EnterKept

LEMMA BeginReofferKept ==
  ASSUME IInv, NEW s \in Sessions, NEW m \in Members, NEW f \in Flights,
         NEW pilot \in Members, BeginReoffer(s, m, f, pilot),
         UNCHANGED <<attempts, desks>>
  PROVE  IInv'
<1> DEFINE wish == [flights[f].terms EXCEPT !.pilot = pilot]
           pc == FirstCheck(flights[f])
<1>1. /\ Exists(f)
      /\ Enter(s, pc, "reoffer", m, f, flights[f], wish)
  BY DEF BeginReoffer
<1>2. wish \in Terms
  BY <1>1, ExistingRow DEF Terms
<1>3. /\ pc \in {"request", "pilot", "commit"}
      /\ pc = "request" => flights[f].request \in Requests
  BY <1>1, ExistingRow DEF FirstCheck
<1> HIDE DEF wish, pc
<1> QED
  BY <1>1, <1>2, <1>3, EnterKept

\* A check that passes, and may have settled the pilot.
LEMMA AdvanceKept ==
  ASSUME IInv, NEW s \in Sessions, Running(s),
         NEW pc \in {"pilot", "commit"}, NEW wish \in Terms,
         Advance(s, [handlers[s] EXCEPT !.pc = pc, !.wish = wish]),
         UNCHANGED <<attempts, desks>>
  PROVE  IInv'
<1>1. PICK h \in Handling : h = handlers[s]
  BY RunningFacts
<1>2. PICK g : g = [h EXCEPT !.pc = pc, !.wish = wish]
  OBVIOUS
<1>3. /\ g \in Handling
      /\ g.pc = pc /\ g.op = h.op /\ g.flight = h.flight /\ g.seen = h.seen
  BY <1>2 DEF Handling
<1>4. /\ handlers' = [handlers EXCEPT ![s] = g]
      /\ UNCHANGED <<flights, members, requests>>
  BY <1>1, <1>2 DEF Advance
<1>5. HandlerOK(g)
  <2>1. HandlerOK(h)
    BY <1>1, RunningFacts
  <2> QED
    BY <1>3, <2>1 DEF HandlerOK
<1>6. SeenOK(g)
  BY <1>1, <1>3, RunningFacts DEF IInv, SnapshotFresh, SeenOK
<1> QED
  BY <1>3, <1>4, <1>5, <1>6, HandlerTurns

LEMMA ResolveRequestKept ==
  ASSUME IInv, NEW s \in Sessions, ResolveRequest(s),
         UNCHANGED <<attempts, desks>>
  PROVE  IInv'
<1> DEFINE owner == requests[handlers[s].seen.request].pilot
<1>1. Running(s) /\ handlers[s].pc = "request"
      /\ Advance(s, [handlers[s] EXCEPT !.pc = "pilot", !.wish.pilot = owner])
  BY DEF ResolveRequest, At
<1>2. PICK h \in Handling : h = handlers[s] /\ HandlerOK(h)
  BY <1>1, RunningFacts
<1>3. h.seen.request \in Requests
  BY <1>1, <1>2 DEF HandlerOK
<1>4. owner \in Members \cup {Null}
  BY <1>2, <1>3, NoRequestIsNone DEF IInv, Typed, RequestRow
<1>5. PICK wish : wish = [h.wish EXCEPT !.pilot = owner]
  OBVIOUS
<1>6. wish \in Terms
  BY <1>4, <1>5 DEF Handling, Terms
<1> HIDE DEF owner
<1>7. [h EXCEPT !.pc = "pilot", !.wish.pilot = owner]
        = [h EXCEPT !.pc = "pilot", !.wish = wish]
  BY <1>5 DEF Handling
<1> QED
  BY <1>1, <1>2, <1>6, <1>7, AdvanceKept

LEMMA CheckPilotKept ==
  ASSUME IInv, NEW s \in Sessions, CheckPilot(s), UNCHANGED <<attempts, desks>>
  PROVE  IInv'
<1>1. Running(s) /\ Advance(s, [handlers[s] EXCEPT !.pc = "commit"])
  BY DEF CheckPilot, At
<1>2. PICK h \in Handling : h = handlers[s]
  BY <1>1, RunningFacts
<1>3. /\ h.wish \in Terms
      /\ [h EXCEPT !.pc = "commit"] = [h EXCEPT !.pc = "commit", !.wish = h.wish]
  BY DEF Handling
<1> QED
  BY <1>1, <1>2, <1>3, AdvanceKept

LEMMA AbortKept ==
  ASSUME IInv, NEW s \in Sessions, Abort(s), UNCHANGED <<attempts, desks>>
  PROVE  IInv'
BY HandlerTurns DEF Abort, Advance

\* The step of every versioned update of one flight.
LEMMA UpdateKept ==
  ASSUME IInv, NEW s \in Sessions, NEW row \in Row,
         handlers[s].flight \in Flights, Exists(handlers[s].flight),
         UpdateFlight(s, row),
         RowStep(flights[handlers[s].flight], Bump(row)),
         Bump(row).terms = flights[handlers[s].flight].terms,
         UNCHANGED <<members, requests, attempts, desks>>
  PROVE  IInv'
<1> DEFINE f == handlers[s].flight
<1>1. /\ flights' = [flights EXCEPT ![f] = Bump(row)]
      /\ handlers' = [handlers EXCEPT ![s] = Idle]
  BY DEF UpdateFlight
<1>2. Bump(row) \in Row
  BY BumpRow
<1>3. FlightsTyped'
  BY <1>1, <1>2 DEF FlightsTyped, IInv, Typed
<1>4. \A g \in Flights : flights'[g] = IF g = f THEN Bump(row) ELSE flights[g]
  BY <1>1 DEF IInv, Typed
<1>5. RowsStep
  BY <1>4 DEF RowsStep
<1>6. \A g \in Flights : Exists(g) => flights'[g].terms = flights[g].terms
  BY <1>4
<1>7. /\ handlers' \in [Sessions -> Handling \cup {Idle}]
      /\ \A t \in Sessions : handlers'[t] \in {Idle, handlers[t]}
  BY <1>1 DEF IInv, Typed
<1>8. BatchesFit'
  BY <1>5, FitStays, LiveFits
<1>9. /\ DOMAIN desks' = Desks
      /\ requests' \in [Requests -> RequestRow \cup {NoRequest}]
  BY DEF IInv, Typed
<1> QED
  BY <1>3, <1>5, <1>6, <1>7, <1>8, <1>9, MoveKept

\* The row an update of one flight goes by.
OneRowStep(s, row) ==
  /\ handlers[s].flight \in Flights /\ Exists(handlers[s].flight)
  /\ UpdateFlight(s, row)
  /\ RowStep(flights[handlers[s].flight], Bump(row))
  /\ Bump(row).terms = flights[handlers[s].flight].terms
  /\ UNCHANGED <<members, requests>>

LEMMA StatusRow ==
  ASSUME IInv, NEW s \in Sessions, CommitStatus(s)
  PROVE  \E row \in Row : OneRowStep(s, row)
<1> DEFINE h == handlers[s]
           to == StatusWritten[h.op]
           row == [flights[h.flight] EXCEPT !.status = to]
<1>1. /\ Running(s) /\ h.op \in {"offer", "decline", "cancel", "finish"}
      /\ UpdateFlight(s, row)
      /\ UNCHANGED <<members, requests>>
  BY DEF CommitStatus, Committing, At
<1>2. /\ h \in Handling /\ HandlerOK(h)
      /\ h.flight \in Flights /\ Exists(h.flight) /\ flights[h.flight] \in Row
  BY <1>1, RunningFacts
<1>3. flights[h.flight] = h.seen
  BY <1>1, CommitsWhatItLoaded DEF UpdateFlight
<1>4. h.op \in {"decline", "cancel"}
  BY <1>1, <1>2 DEF Handling
<1>5. flights[h.flight].status \in Predeparture \cup {"active"}
  BY <1>2, <1>3, <1>4 DEF HandlerOK, Predeparture
<1>6. to \in {"declined", "cancelled"}
  BY <1>4 DEF StatusWritten
<1>7. PICK old \in Row : old = flights[h.flight]
  BY <1>2
<1>8. PICK new : new = [old EXCEPT !.status = to]
  OBVIOUS
<1>9. to \in FlightStatus /\ to \notin Predeparture
  BY <1>6 DEF FlightStatus, Terminal, Predeparture
<1> HIDE DEF to
<1>10. /\ new \in Row /\ new.status = to /\ new.version = old.version
       /\ new.request = old.request /\ new.replaces = old.replaces
       /\ new.terms = old.terms
  BY <1>8, <1>9 DEF Row
<1>11. /\ Bump(new) \in Row /\ Bump(new).version > old.version
       /\ Bump(new).status = to /\ Bump(new).terms = old.terms
       /\ Bump(new).request = old.request /\ Bump(new).replaces = old.replaces
  BY <1>10, BumpRow
<1>12. RowStep(old, Bump(new))
  BY <1>5, <1>7, <1>9, <1>11 DEF RowStep, Predeparture
<1> QED
  BY <1>1, <1>2, <1>7, <1>8, <1>10, <1>11, <1>12 DEF OneRowStep

LEMMA CommitStatusKept ==
  ASSUME IInv, NEW s \in Sessions, CommitStatus(s), UNCHANGED <<attempts, desks>>
  PROVE  IInv'
BY StatusRow, UpdateKept DEF OneRowStep

LEMMA AgreementRow ==
  ASSUME IInv, NEW s \in Sessions, CommitAgreement(s)
  PROVE  \E row \in Row : OneRowStep(s, row)
<1> DEFINE h == handlers[s]
           row == [flights[h.flight] EXCEPT
                     !.status = IF h.op = "accept" THEN "accepted" ELSE @,
                     !.conf = h.seen.rev]
<1>1. /\ Running(s) /\ h.op \in {"accept", "confirm"}
      /\ UpdateFlight(s, row)
      /\ UNCHANGED <<members, requests>>
  BY DEF CommitAgreement, Committing, At
<1>2. /\ h \in Handling /\ HandlerOK(h) /\ h.seen \in Row
      /\ h.flight \in Flights /\ Exists(h.flight) /\ flights[h.flight] \in Row
  BY <1>1, RunningFacts
<1>3. flights[h.flight] = h.seen
  BY <1>1, CommitsWhatItLoaded DEF UpdateFlight
<1>4. h.op = "accept"
  BY <1>1, <1>2 DEF Handling
<1>5. flights[h.flight].status = "offered"
  BY <1>2, <1>3, <1>4 DEF HandlerOK
<1>6. PICK old \in Row : old = flights[h.flight] /\ old = h.seen
  BY <1>2, <1>3
<1>7. PICK mid : mid = [old EXCEPT !.status = "accepted"]
  OBVIOUS
<1>8. PICK new : new = [mid EXCEPT !.conf = old.rev]
  OBVIOUS
<1>9. "accepted" \in FlightStatus /\ old.rev \in Nat
  BY DEF FlightStatus, Predeparture, Row
<1>10. /\ mid \in Row /\ mid.status = "accepted" /\ mid.version = old.version
       /\ mid.request = old.request /\ mid.replaces = old.replaces
       /\ mid.terms = old.terms
  BY <1>7, <1>9 DEF Row
<1>11. /\ new \in Row /\ new.status = "accepted" /\ new.version = old.version
       /\ new.request = old.request /\ new.replaces = old.replaces
       /\ new.terms = old.terms
  BY <1>8, <1>9, <1>10 DEF Row
<1>12. row = new
  BY <1>4, <1>6, <1>7, <1>8
<1>13. /\ Bump(new) \in Row /\ Bump(new).version > old.version
       /\ Bump(new).status = "accepted" /\ Bump(new).terms = old.terms
       /\ Bump(new).request = old.request /\ Bump(new).replaces = old.replaces
  BY <1>11, BumpRow
<1>14. RowStep(old, Bump(new))
  BY <1>5, <1>6, <1>13 DEF RowStep, Predeparture
<1> HIDE DEF row
<1> QED
  BY <1>1, <1>2, <1>6, <1>11, <1>12, <1>13, <1>14 DEF OneRowStep

LEMMA CommitAgreementKept ==
  ASSUME IInv, NEW s \in Sessions, CommitAgreement(s), UNCHANGED <<attempts, desks>>
  PROVE  IInv'
BY AgreementRow, UpdateKept DEF OneRowStep

\* createReplacementFlight: the new row replaces a declined one, so that it is
\* no flight of a batch.
LEMMA ReofferRow ==
  ASSUME IInv, NEW s \in Sessions, NEW f \in Flights, CommitReoffer(s, f)
  PROVE  \E row \in Row :
           /\ flights' = [flights EXCEPT ![f] = row]
           /\ row.request = flights[handlers[s].flight].request
           /\ row.replaces = handlers[s].flight
<1> DEFINE h == handlers[s]
<1>1. Running(s)
  BY DEF CommitReoffer, Committing, At
<1>2. /\ h \in Handling /\ h.wish \in Terms
      /\ h.flight \in Flights /\ Exists(h.flight)
  BY <1>1, RunningFacts DEF Handling
<1>3. PICK source \in Row : source = flights[h.flight]
  BY <1>2, ExistingRow
<1>4. PICK terms : terms = [source.terms EXCEPT !.pilot = h.wish.pilot]
  OBVIOUS
<1>5. terms \in Terms
  BY <1>2, <1>4 DEF Row, Terms
<1>6. PICK row : row = NewRow("offered", terms, source.request, h.flight)
  OBVIOUS
<1>7. /\ row \in Row /\ row.request = source.request /\ row.replaces = h.flight
  <2>1. "offered" \in FlightStatus /\ 0 \in Nat /\ 1 \in Nat
    BY DEF FlightStatus, Predeparture
  <2>2. source.request \in Requests \cup {Null} /\ h.flight \in Flights \cup {Null}
    BY <1>2 DEF Row
  <2> QED
    BY <1>5, <1>6, <2>1, <2>2 DEF NewRow, Row
<1>8. flights' = [flights EXCEPT ![f] = row]
  BY <1>3, <1>4, <1>6 DEF CommitReoffer
<1> QED
  BY <1>3, <1>7, <1>8

LEMMA ReofferInserts ==
  ASSUME IInv, NEW s \in Sessions, NEW f \in Flights, CommitReoffer(s, f)
  PROVE  /\ Inserts({f}) /\ FlightsTyped'
         /\ flights'[f].request = flights[handlers[s].flight].request
         /\ flights'[f].replaces = handlers[s].flight
         /\ \A q \in Requests :
              /\ Originals(q)' = Originals(q)
              /\ (Originals(q) \cap NonCancelled(q))' =
                   Originals(q) \cap NonCancelled(q)
<1>1. /\ Running(s) /\ ~Exists(f)
  BY DEF CommitReoffer, Committing, At
<1>2. handlers[s].flight # Null
  BY <1>1, RunningFacts
<1>3. PICK row \in Row : /\ flights' = [flights EXCEPT ![f] = row]
                         /\ row.request = flights[handlers[s].flight].request
                         /\ row.replaces = handlers[s].flight
  BY ReofferRow
<1>4. /\ flights'[f] = row
      /\ \A g \in Flights \ {f} : flights'[g] = flights[g]
      /\ FlightsTyped'
  BY <1>3 DEF FlightsTyped, IInv, Typed
<1>5. Inserts({f})
  BY <1>1, <1>4 DEF Inserts
<1>6. \A q \in Requests :
        /\ Originals(q)' = Originals(q)
        /\ (Originals(q) \cap NonCancelled(q))' = Originals(q) \cap NonCancelled(q)
  BY <1>2, <1>3, <1>4, <1>5, InsertedElsewhere
<1> QED
  BY <1>3, <1>4, <1>5, <1>6

LEMMA CommitReofferKept ==
  ASSUME IInv, NEW s \in Sessions, NEW f \in Flights, CommitReoffer(s, f),
         UNCHANGED <<attempts, desks>>
  PROVE  IInv'
<1> DEFINE h == handlers[s]
           row == flights'[f]
<1>1. /\ Running(s) /\ ~Exists(f)
      /\ flights[h.flight].status = "declined"
      /\ \A g \in Flights : Exists(g) => flights[g].replaces # h.flight
      /\ handlers' = [handlers EXCEPT ![s] = Idle]
      /\ UNCHANGED <<members, requests>>
  BY DEF CommitReoffer, Committing, At
<1>2. /\ h.flight \in Flights /\ h.flight # Null /\ Exists(h.flight)
  BY <1>1, RunningFacts
<1>3. /\ Inserts({f}) /\ FlightsTyped'
      /\ row \in Row
      /\ row.request = flights[h.flight].request /\ row.replaces = h.flight
      /\ \A g \in Flights \ {f} : flights'[g] = flights[g]
  BY ReofferInserts DEF Inserts
<1>4. /\ handlers' \in [Sessions -> Handling \cup {Idle}]
      /\ \A t \in Sessions : handlers'[t] \in {Idle, handlers[t]}
  BY <1>1 DEF IInv, Typed
<1>5. HandlersOK' /\ SnapshotFresh'
  BY <1>3, <1>4, InsertHandlers
<1>6. \A q \in Requests :
        /\ Originals(q)' = Originals(q)
        /\ (Originals(q) \cap NonCancelled(q))' = Originals(q) \cap NonCancelled(q)
  BY ReofferInserts
<1>7. BatchesFit'
  BY <1>1, <1>6 DEF IInv, BatchesFit
<1>8. EveryFlightClaimed'
  <2>1. attempts' = attempts /\ \A q \in Requests : Originals(q)' = Originals(q)
    BY <1>6
  <2> QED
    BY <2>1 DEF IInv, EveryFlightClaimed
<1>9. \A g \in Flights : g # f =>
         /\ Exists(g)' <=> Exists(g)
         /\ flights'[g] = flights[g]
  BY <1>3 DEF Exists
<1>10. Exists(f)'
  BY <1>3, NoRowNotRow DEF Exists
<1>11. \A g \in Flights : Exists(g) /\ flights[g].replaces # Null =>
         flights[g].replaces \in Flights /\ Exists(flights[g].replaces)
  BY ExistingRow DEF IInv, ReplacedExist
<1>12. ReplacedExist'
  <2> SUFFICES ASSUME NEW g \in Flights, Exists(g)', flights'[g].replaces # Null
               PROVE  flights'[flights'[g].replaces] # NoRow
    BY DEF ReplacedExist, Exists
  <2>1. CASE g = f
    <3>1. flights'[g].replaces = h.flight /\ h.flight # f
      BY <1>1, <1>2, <1>3, <2>1
    <3> QED
      BY <1>2, <1>9, <3>1 DEF Exists
  <2>2. CASE g # f
    <3>1. flights'[g] = flights[g] /\ Exists(g)
      BY <1>9, <2>2
    <3>2. /\ flights[g].replaces \in Flights /\ Exists(flights[g].replaces)
          /\ flights[g].replaces # f
      BY <1>1, <1>11, <3>1
    <3> QED
      BY <1>9, <3>1, <3>2 DEF Exists
  <2> QED
    BY <2>1, <2>2
<1>13. ReplacementsFaithful'
  <2> SUFFICES ASSUME NEW a \in Flights, NEW b \in Flights,
                      Exists(a)', Exists(b)', flights'[a].replaces # Null
               PROVE  /\ flights'[b].replaces = flights'[a].replaces => a = b
                      /\ b = flights'[a].replaces =>
                           /\ flights'[b].status = "declined"
                           /\ flights'[a].request = flights'[b].request
    BY DEF ReplacementsFaithful
  <2>1. CASE a = f
    <3>1. /\ flights'[a].replaces = h.flight
          /\ flights'[a].request = flights[h.flight].request
      BY <1>3, <2>1
    <3>2. b # f => flights'[b].replaces # h.flight
      BY <1>1, <1>9
    <3>3. b = h.flight => b # f
      BY <1>1, <1>2
    <3> QED
      BY <1>1, <1>9, <2>1, <3>1, <3>2, <3>3
  <2>2. CASE a # f
    <3>1. flights'[a] = flights[a] /\ Exists(a)
      BY <1>9, <2>2
    <3>2. flights[a].replaces # h.flight /\ flights[a].replaces # f
      BY <1>1, <1>11, <3>1
    <3>3. CASE b = f
      BY <1>3, <3>1, <3>2, <3>3
    <3>4. CASE b # f
      <4>1. flights'[b] = flights[b] /\ Exists(b)
        BY <1>9, <3>4
      <4> QED
        BY <3>1, <4>1 DEF IInv, ReplacementsFaithful
    <3> QED
      BY <3>3, <3>4
  <2> QED
    BY <2>1, <2>2
<1>14. DesksOK' /\ AnswersAgree'
  BY DesksStay, AnswersStay
<1>15. Typed'
  BY <1>1, <1>3, <1>4 DEF IInv, Typed, FlightsTyped
<1> QED
  BY <1>5, <1>7, <1>8, <1>12, <1>13, <1>14, <1>15 DEF IInv

-----------------------------------------------------------------------------
(* administrativelyUpdateMembership.                                       *)

LEMMA HandoverRow ==
  ASSUME NEW row \in Row, row.status \in Predeparture, NEW r \in Members
  PROVE  /\ RowStep(row, Handover(row, r))
         /\ Handover(row, r).terms.pilot = r
         /\ Handover(row, r).status \in Predeparture
<1> DEFINE status == IF row.status \in {"accepted", "briefed"} THEN "offered"
                                                              ELSE row.status
           terms == [row.terms EXCEPT !.pilot = r]
           moved == [row EXCEPT !.terms = terms, !.rev = row.rev + 1,
                                !.conf = 0, !.status = status]
<1>1. /\ status \in FlightStatus /\ status \in Predeparture
      /\ terms \in Terms /\ terms.pilot = r
      /\ row.rev + 1 \in Nat
  BY DEF Predeparture, FlightStatus, Row, Terms
<1>2. Handover(row, r) = Bump(moved)
  BY DEF Handover, Row, Terms
<1> HIDE DEF status, terms
<1>3. /\ moved \in Row /\ moved.version = row.version
      /\ moved.terms = terms /\ moved.status = status
      /\ moved.request = row.request /\ moved.replaces = row.replaces
  BY <1>1 DEF Row
<1> HIDE DEF moved
<1>4. /\ Bump(moved) \in Row /\ Bump(moved).version > row.version
      /\ Bump(moved).terms = terms /\ Bump(moved).status = status
      /\ Bump(moved).request = row.request /\ Bump(moved).replaces = row.replaces
  BY <1>3, BumpRow
<1>5. row.status \notin {"cancelled", "declined"}
  BY DEF Predeparture
<1> QED
  BY <1>1, <1>2, <1>4, <1>5 DEF RowStep

LEMMA HandedOverRow ==
  ASSUME NEW row \in RequestRow, NEW r \in Members
  PROVE  /\ HandedOver(row, r) \in RequestRow
         /\ HandedOver(row, r).pilot = r
         /\ HandedOver(row, r).status = row.status
         /\ HandedOver(row, r).desired = row.desired
<1>1. PICK next : next = [row EXCEPT !.version = @ + 1]
  OBVIOUS
<1>2. /\ next \in RequestRow
      /\ next.status = row.status /\ next.desired = row.desired
  BY <1>1 DEF RequestRow
<1>3. HandedOver(row, r) = [next EXCEPT !.pilot = r]
  BY <1>1 DEF HandedOver, RequestRow
<1> QED
  BY <1>2, <1>3 DEF RequestRow

LEMMA ChangeTyped ==
  ASSUME ChangeOK, change # Idle
  PROVE  /\ change.member \in Members /\ change.patch \in MemberPatches
         /\ change.to \in Members \cup {Null}
BY DEF ChangeOK

\* What a handover that has its locks does to the rows it still may write.
LEMMA HandoverFacts ==
  ASSUME IInv, ChangeOK, CommitChange
  PROVE  /\ \A f \in FlightsToHandOver :
              /\ Exists(f)
              /\ RowStep(flights[f], Handover(flights[f], change.to))
              /\ Handover(flights[f], change.to).status \in Predeparture
         /\ \A q \in RequestsToHandOver :
              /\ change.to \in Members
              /\ requests[q].pilot = change.member
              /\ requests[q].status \in OpenRequest
              /\ HandedOver(requests[q], change.to) \in RequestRow
              /\ HandedOver(requests[q], change.to).pilot = change.to
              /\ HandedOver(requests[q], change.to).status = requests[q].status
              /\ HandedOver(requests[q], change.to).desired = requests[q].desired
<1>1. change.to \in Members \cup {Null}
  BY ChangeTyped DEF CommitChange
<1>2. ASSUME NEW f \in FlightsToHandOver
      PROVE  /\ Exists(f)
             /\ RowStep(flights[f], Handover(flights[f], change.to))
             /\ Handover(flights[f], change.to).status \in Predeparture
  <2>1. /\ change.to \in Members /\ f \in LockedFlights
        /\ flights[f].status # "active"
    BY <1>1 DEF FlightsToHandOver, CommitChange
  <2>2. Exists(f) /\ flights[f] \in Row /\ flights[f].status \in Predeparture
    BY <2>1, ExistingRow DEF LockedFlights, HeldFlights
  <2> QED
    BY <2>1, <2>2, HandoverRow
<1>3. ASSUME NEW q \in RequestsToHandOver
      PROVE  /\ change.to \in Members
             /\ requests[q].pilot = change.member
             /\ requests[q].status \in OpenRequest
             /\ HandedOver(requests[q], change.to) \in RequestRow
             /\ HandedOver(requests[q], change.to).pilot = change.to
             /\ HandedOver(requests[q], change.to).status = requests[q].status
             /\ HandedOver(requests[q], change.to).desired = requests[q].desired
  <2>1. /\ change.to \in Members /\ q \in Requests
        /\ requests[q].pilot = change.member
        /\ requests[q].status \in OpenRequest
    BY <1>1 DEF RequestsToHandOver, LockedRequests, OwnedRequests
  <2>2. requests[q] \in RequestRow
    BY <2>1, RequestRowKnown
  <2> QED
    BY <2>1, <2>2, HandedOverRow
<1> QED
  BY <1>2, <1>3

LEMMA CommitChangeKept ==
  ASSUME IInv, ChangeOK, CommitChange, UNCHANGED <<attempts, desks>>
  PROVE  IInv'
<1> DEFINE m == change.member
           patch == change.patch
           role == IF patch.role = NoPatch THEN members[m].role ELSE patch.role
           status == IF patch.status = NoPatch THEN members[m].status
                                               ELSE patch.status
<1>1. /\ flights' = [f \in Flights |-> IF f \in FlightsToHandOver
                                       THEN Handover(flights[f], change.to)
                                       ELSE flights[f]]
      /\ requests' = [q \in Requests |-> IF q \in RequestsToHandOver
                                         THEN HandedOver(requests[q], change.to)
                                         ELSE requests[q]]
      /\ UNCHANGED handlers
  BY DEF CommitChange
<1>2. m \in Members /\ patch \in Patches /\ members[m] \in MemberRow
  BY ChangeTyped, SetsAssumption DEF CommitChange, IInv, Typed
<1>3. members' = [members EXCEPT ![m] = [role |-> role, status |-> status]]
  BY <1>2 DEF CommitChange, IInv, Typed
<1>4. [role |-> role, status |-> status] \in MemberRow
  BY <1>2 DEF Patches, NoPatch, MemberRow
<1> HIDE DEF m, patch, role, status
<1>5. RowsStep
  BY <1>1, HandoverFacts DEF RowsStep
<1>6. FlightsTyped'
  <2>1. \A f \in Flights : flights'[f] \in Row \cup {NoRow}
    BY <1>1, HandoverFacts DEF RowStep, IInv, Typed
  <2> QED
    BY <1>1, <2>1 DEF FlightsTyped
<1>7. /\ requests' \in [Requests -> RequestRow \cup {NoRequest}]
      /\ \A q \in Requests : /\ requests'[q].status = requests[q].status
                             /\ requests'[q].desired = requests[q].desired
  BY <1>1, HandoverFacts DEF IInv, Typed
<1>8. members' \in [Members -> MemberRow]
  BY <1>3, <1>4 DEF IInv, Typed
<1>9. /\ handlers' \in [Sessions -> Handling \cup {Idle}]
      /\ \A s \in Sessions : handlers'[s] \in {Idle, handlers[s]}
  BY <1>1 DEF IInv, Typed
<1>10. HandlersOK' /\ SnapshotFresh'
  BY <1>5, <1>9, StepsGoOn, HandlersStay
<1>11. BatchesFit'
  BY <1>5, <1>7, FitStays, LiveFits
<1>12. EveryFlightClaimed' /\ ReplacementsFaithful' /\ ReplacedExist'
  BY <1>5, ClaimsStay, ReplacementsStay
<1>13. DesksOK' /\ AnswersAgree'
  BY DesksStay, AnswersStay
<1>14. Typed'
  BY <1>6, <1>7, <1>8, <1>9 DEF IInv, Typed, FlightsTyped
<1> QED
  BY <1>10, <1>11, <1>12, <1>13, <1>14 DEF IInv

\* Taking a snapshot and giving up leave the tables alone.
LEMMA TablesKept ==
  ASSUME IInv, UNCHANGED <<tables, attempts, desks>>
  PROVE  IInv'
<1>1. DOMAIN desks' = Desks /\ DesksOK' /\ AnswersAgree'
  BY DesksStay, AnswersStay DEF IInv, Typed
<1> QED
  BY <1>1, TablesFixed

LEMMA MemberStepKept ==
  ASSUME IInv, ChangeOK, MemberNext, UNCHANGED <<attempts, desks>>
  PROVE  IInv'
BY TablesKept, CommitChangeKept DEF MemberNext, BeginChange, AbortChange

\* The snapshot is of versions, which are numbers.
LEMMA BeginChangeTyped ==
  ASSUME IInv, NEW m \in Members, NEW patch \in MemberPatches,
         NEW r \in Members \cup {Null}, BeginChange(m, patch, r)
  PROVE  ChangeOK'
<1> DEFINE seenFlights == [f \in HeldFlights(m) |-> flights[f].version]
           seenRequests == [q \in OwnedRequests(m) |-> requests[q].version]
<1>1. change' = [member |-> m, patch |-> patch, to |-> r,
                 flights |-> seenFlights, requests |-> seenRequests]
  BY DEF BeginChange
<1>2. seenFlights \in Versions(Flights)
  <2>1. HeldFlights(m) \in SUBSET Flights
    BY DEF HeldFlights
  <2>2. \A f \in HeldFlights(m) : flights[f].version \in Nat
    BY <2>1, ExistingRow DEF HeldFlights, Row
  <2> QED
    BY <2>1, <2>2 DEF Versions
<1>3. seenRequests \in Versions(Requests)
  <2>1. OwnedRequests(m) \in SUBSET Requests
    BY DEF OwnedRequests
  <2>2. \A q \in OwnedRequests(m) : requests[q].version \in Nat
    BY <2>1, RequestRowKnown DEF OwnedRequests, RequestRow
  <2> QED
    BY <2>1, <2>2 DEF Versions
<1> HIDE DEF seenFlights, seenRequests
<1> QED
  BY <1>1, <1>2, <1>3 DEF ChangeOK

LEMMA ChangeKept ==
  ASSUME IInv, ChangeOK, [ScheduleNext]_scheduleVars
  PROVE  ChangeOK'
<1>1. CASE \E m \in Members, patch \in MemberPatches, r \in Members \cup {Null} :
             BeginChange(m, patch, r)
  BY <1>1, BeginChangeTyped
<1>2. CASE change' = Idle
  BY <1>2 DEF ChangeOK
<1>3. CASE UNCHANGED change
  BY <1>3 DEF ChangeOK
<1> QED
  BY <1>1, <1>2, <1>3 DEF ScheduleNext, MemberNext, CommitChange, AbortChange,
     scheduleVars, vars

-----------------------------------------------------------------------------
(* The invariant and the theorems.                                         *)

LEMMA InitKept == ScheduleInit => IInv
<1> SUFFICES ASSUME ScheduleInit
             PROVE  IInv
  OBVIOUS
<1>1. /\ \A f \in Flights : ~Exists(f)
      /\ \A s \in Sessions : ~Running(s)
      /\ \A k \in Desks : Free(k)
      /\ \A q \in Requests : requests[q] = NoRequest
      /\ \A q \in Requests, key \in Keys : attempts[<<q, key>>] = NoAttempt
  BY DEF ScheduleInit, Exists, Running, Free
<1>2. Typed
  <2>1. MemberRow = [role : {"dispatcher", "pilot"}, status : {"active", "disabled"}]
    BY DEF MemberRow
  <2> QED
    BY <2>1 DEF ScheduleInit, Typed
<1>3. HandlersOK /\ SnapshotFresh
  BY <1>1 DEF HandlersOK, SnapshotFresh
<1>4. DesksOK /\ AnswersAgree
  BY <1>1 DEF DesksOK, AnswersAgree, AtDesk
<1>5. ReplacementsFaithful /\ ReplacedExist
  BY <1>1 DEF ReplacementsFaithful, ReplacedExist
<1>6. \A q : Originals(q) = {} /\ NonCancelled(q) = {}
  BY <1>1 DEF Originals, NonCancelled, Linked
<1>7. BatchesFit
  BY <1>1, <1>6, NoRequestIsNone, FS_EmptySet DEF BatchesFit
<1>8. EveryFlightClaimed
  <2>1. \A q \in Requests, key \in Keys : IdsOf(attempts[<<q, key>>]) = {}
    BY <1>1, NoAttemptIsNone
  <2> QED
    BY <1>6, <2>1 DEF EveryFlightClaimed
<1> QED
  BY <1>2, <1>3, <1>4, <1>5, <1>7, <1>8 DEF IInv

LEMMA DeskKept ==
  ASSUME IInv, NEW k \in Desks, DeskNext(k)
  PROVE  IInv'
<1>1. ASSUME NEW m \in Members, BeginDesk(k, m)
      PROVE  IInv'
  <2>1. ASSUME NEW q \in Requests, NEW key \in Keys,
               NEW expected \in 1 .. MaxVersion - 1, NEW batch \in Batches,
               BeginFulfil(k, m, Call(q, key, expected, batch))
        PROVE  IInv'
    <3>1. expected \in Nat
      BY BoundAssumption
    <3>2. Call(q, key, expected, batch) \in Calls
      BY <3>1 DEF Call, Calls, Payloads
    <3> QED
      BY <2>1, <3>2, BeginFulfilKept
  <2> QED
    BY <1>1, <2>1, BeginRequestKept, BeginEditKept, BeginTransitionKept,
       BeginCancelRequestKept DEF BeginDesk
<1>2. ASSUME NEW n \in 1 .. Cardinality(Flights), NEW ids \in [1 .. n -> Flights],
             CommitFulfil(k, ids)
      PROVE  IInv'
  <2>1. n \in Nat
    BY FlightsAssumption, FS_CardinalityType
  <2> QED
    BY <1>2, <2>1, CommitFulfilKept
<1> QED
  BY <1>1, <1>2, CommitRequestKept, CommitEditKept, CommitTransitionKept,
     CommitCancelKept, LoadForFulfilmentKept, CheckBatchKept, MissFulfilKept,
     RecheckAttemptKept, DropKept DEF DeskNext

LEMMA LinkedFlightKept ==
  ASSUME IInv, NEW s \in Sessions, LinkedFlightNext(s),
         UNCHANGED <<attempts, desks>>
  PROVE  IInv'
BY BeginAnswerKept, BeginCancelKept, BeginReofferKept, ResolveRequestKept,
   CheckPilotKept, CommitStatusKept, CommitAgreementKept, CommitReofferKept,
   AbortKept DEF LinkedFlightNext

LEMMA StepKept ==
  IInv /\ ChangeOK /\ [ScheduleNext]_scheduleVars => (IInv /\ ChangeOK)'
<1> SUFFICES ASSUME IInv, ChangeOK, [ScheduleNext]_scheduleVars
             PROVE  IInv' /\ ChangeOK'
  OBVIOUS
<1>1. CASE UNCHANGED scheduleVars
  BY <1>1, TablesKept, ChangeKept DEF scheduleVars, vars
<1>2. CASE \E k \in Desks : DeskNext(k) /\ UNCHANGED change
  BY <1>2, DeskKept, ChangeKept
<1>3. CASE MemberNext /\ UNCHANGED <<attempts, desks>>
  BY <1>3, MemberStepKept, ChangeKept
<1>4. CASE \E s \in Sessions :
             LinkedFlightNext(s) /\ UNCHANGED <<change, attempts, desks>>
  BY <1>4, LinkedFlightKept, ChangeKept
<1> QED
  BY <1>1, <1>2, <1>3, <1>4 DEF ScheduleNext

\* The inductive invariant, and the form of a waiting handover, hold in every
\* state of every behaviour.
THEOREM Invariance == ScheduleSpec => [](IInv /\ ChangeOK)
<1>1. ScheduleInit => IInv /\ ChangeOK
  BY InitKept DEF ScheduleInit, ChangeOK
<1> QED
  BY <1>1, StepKept, PTL DEF ScheduleSpec

\* The live flights of a request's batches never outnumber what its pilot last
\* asked for, and a request that still collects has room: the capacity of
\* fulfillScheduleRequest holds however edits, batches, answers, cancellations
\* and handovers overlap.
THEOREM CapacityHolds == ScheduleSpec => []BatchesFit
<1>1. IInv => BatchesFit
  BY DEF IInv
<1> QED
  BY <1>1, Invariance, PTL

\* Every flight of a batch is on record under exactly one Idempotency-Key of
\* its request, and every recorded flight exists: bulkCreateFlights creates
\* nothing twice and nothing unrecorded.
THEOREM KeysAccountForFlights == ScheduleSpec => []EveryFlightClaimed
<1>1. IInv => EveryFlightClaimed
  BY DEF IInv
<1> QED
  BY <1>1, Invariance, PTL

\* Whoever is told that a batch exists is told what its key has on record for
\* its payload, a creator and a repetition alike.
THEOREM RepetitionsAgree == ScheduleSpec => []AnswersAgree
<1>1. IInv => AnswersAgree
  BY DEF IInv
<1> QED
  BY <1>1, Invariance, PTL

\* Also among the flights of a request, a declined flight is replaced at most
\* once, by a flight of the same request, and stays declined.
THEOREM ReplacedOnce == ScheduleSpec => []ReplacementsFaithful
<1>1. IInv => ReplacementsFaithful
  BY DEF IInv
<1> QED
  BY <1>1, Invariance, PTL

-----------------------------------------------------------------------------
(* A request is a budget.                                                  *)

\* Until it is reviewed nothing was made for a request, and whoever edits or
\* reviews one read a row that allows it.
Early == {"absent", "pending", "in_review"}

NothingEarly ==
  \A q \in Requests : requests[q].status \in Early =>
    \A key \in Keys : attempts[<<q, key>>] = NoAttempt

ReviewsLegal ==
  \A k \in Desks :
    /\ Committed(k, "transition") =>
         desks[k].wish \in RequestSuccessors[desks[k].seen.status]
    /\ Committed(k, "edit") => desks[k].seen.status = "pending"

Reviewed == NothingEarly /\ ReviewsLegal

LEMMA BudgetIs ==
  /\ BudgetOf = [q \in Requests |-> BudgetOfRequest(q)]
  /\ BudgetOf' = [q \in Requests |-> BudgetOfRequest(q)']
BY DEF BudgetOf

LEMMA LiveIs ==
  ASSUME NEW q
  PROVE  /\ LiveFlights(q) = Originals(q) \cap NonCancelled(q)
         /\ LiveFlights(q)' = (Originals(q) \cap NonCancelled(q))'
         /\ Live(q) = Cardinality(LiveFlights(q))
         /\ Live(q)' = Cardinality(LiveFlights(q)')
<1>1. LiveFlights(q) = Originals(q) \cap NonCancelled(q)
  BY DEF LiveFlights, Originals, NonCancelled
<1>2. LiveFlights(q)' = (Originals(q) \cap NonCancelled(q))'
  BY DEF LiveFlights, Originals, NonCancelled
<1> QED
  BY <1>1, <1>2 DEF Live

\* A step that writes none of the three tables is none of the budget.
LEMMA BudgetFixed ==
  ASSUME UNCHANGED <<flights, requests, attempts>>
  PROVE  BudgetOf' = BudgetOf
<1>1. ASSUME NEW q \in Requests
      PROVE  BudgetOfRequest(q)' = BudgetOfRequest(q)
  BY DEF BudgetOfRequest, LiveFlights, Originals, Linked, Exists
<1> QED
  BY <1>1, BudgetIs

LEMMA OneBudget ==
  ASSUME NEW q \in Requests,
         Budget!Step(BudgetOfRequest(q), BudgetOfRequest(q)'),
         \A p \in Requests \ {q} : BudgetOfRequest(p)' = BudgetOfRequest(p)
  PROVE  [Budget!Next]_BudgetOf
<1>1. /\ BudgetOf[q] = BudgetOfRequest(q) /\ BudgetOf'[q] = BudgetOfRequest(q)'
      /\ \A p \in Requests \ {q} : BudgetOf'[p] = BudgetOf[p]
      /\ DOMAIN BudgetOf' = Requests
  BY BudgetIs
<1>2. Budget!One(BudgetOf, BudgetOf', q)
  BY <1>1 DEF Budget!One
<1> QED
  BY <1>1, <1>2 DEF Budget!Next

LEMMA ReviewsStay ==
  ASSUME Reviewed,
         \A j \in Desks : \/ desks'[j] = desks[j]
                          \/ desks'[j].pc # "commit"
                          \/ desks'[j].op \notin {"transition", "edit"}
  PROVE  ReviewsLegal'
<1> SUFFICES ASSUME NEW j \in Desks, NEW op \in {"transition", "edit"},
                    Committed(j, op)'
             PROVE  /\ op = "transition" =>
                         desks'[j].wish \in RequestSuccessors[desks'[j].seen.status]
                    /\ op = "edit" => desks'[j].seen.status = "pending"
  BY DEF ReviewsLegal
<1>1. desks'[j] = desks[j]
  BY DEF Committed, AtDesk
<1>2. Committed(j, op)
  BY <1>1 DEF Committed, AtDesk, Free
<1> QED
  BY <1>1, <1>2 DEF Reviewed, ReviewsLegal

LEMMA DeskSet ==
  ASSUME IInv, Reviewed, NEW k \in Desks, NEW h,
         desks' = [desks EXCEPT ![k] = h],
         h.pc # "commit" \/ h.op \notin {"transition", "edit"}
  PROVE  ReviewsLegal'
<1>1. \A j \in Desks : desks'[j] = IF j = k THEN h ELSE desks[j]
  BY DEF IInv, Typed
<1> QED
  BY <1>1, ReviewsStay

\* What a step leaves behind: the reviews are legal and the budgets have made a
\* step of theirs.
Spent == Reviewed' /\ [Budget!Next]_BudgetOf

LEMMA QuietStep ==
  ASSUME Reviewed, UNCHANGED <<flights, requests, attempts>>, ReviewsLegal'
  PROVE  Spent
<1>1. NothingEarly'
  BY DEF Reviewed, NothingEarly
<1> QED
  BY <1>1, BudgetFixed DEF Spent, Reviewed

LEMMA QuietDesk ==
  ASSUME IInv, Reviewed, NEW k \in Desks, NEW h, UNCHANGED <<vars, attempts>>,
         desks' = [desks EXCEPT ![k] = h],
         h.pc # "commit" \/ h.op \notin {"transition", "edit"}
  PROVE  Spent
<1>1. ReviewsLegal'
  BY DeskSet
<1> QED
  BY <1>1, QuietStep DEF vars, tables

LEMMA LoadRequestSpent ==
  ASSUME IInv, Reviewed, NEW k \in Desks, NEW m \in Members,
         NEW q \in Requests \cup {Null},
         NEW op, NEW wish, LoadRequest(k, m, q, op, wish),
         op = "transition" =>
           q \in Requests /\ wish \in RequestSuccessors[requests[q].status],
         op = "edit" => q \in Requests /\ requests[q].status = "pending"
  PROVE  Spent
<1> DEFINE seen == IF q = Null THEN NoRequest ELSE requests[q]
           h == [pc |-> "commit", op |-> op, actor |-> m, request |-> q,
                 seen |-> seen, wish |-> wish]
<1>1. /\ desks' = [desks EXCEPT ![k] = h]
      /\ UNCHANGED <<vars, attempts>>
  BY DEF LoadRequest
<1>2. ReviewsLegal'
  <2>1. CASE op \notin {"transition", "edit"}
    <3>1. h.op \notin {"transition", "edit"}
      BY <2>1
    <3> QED
      BY <1>1, <3>1, DeskSet
  <2>2. CASE op \in {"transition", "edit"}
    <3>1. seen = requests[q]
      BY <2>2, NullAssumption
    <3> HIDE DEF seen
    <3>2. /\ h.op = op
          /\ op = "transition" => h.wish \in RequestSuccessors[h.seen.status]
          /\ op = "edit" => h.seen.status = "pending"
      BY <2>2, <3>1
    <3>3. \A j \in Desks : desks'[j] = IF j = k THEN h ELSE desks[j]
      BY <1>1 DEF IInv, Typed
    <3> HIDE DEF h
    <3> SUFFICES ASSUME NEW j \in Desks, NEW to \in {"transition", "edit"},
                        Committed(j, to)'
                 PROVE  /\ to = "transition" =>
                             desks'[j].wish \in RequestSuccessors[desks'[j].seen.status]
                        /\ to = "edit" => desks'[j].seen.status = "pending"
      BY DEF ReviewsLegal
    <3>4. CASE j = k
      BY <3>2, <3>3, <3>4 DEF Committed
    <3>5. CASE j # k
      <4>1. desks'[j] = desks[j]
        BY <3>3, <3>5
      <4>2. Committed(j, to)
        BY <4>1 DEF Committed, AtDesk, Free
      <4> QED
        BY <4>1, <4>2 DEF Reviewed, ReviewsLegal
    <3> QED
      BY <3>4, <3>5
  <2> QED
    BY <2>1, <2>2
<1> QED
  BY <1>1, <1>2, QuietStep DEF vars, tables

LEMMA BeginDeskSpent ==
  ASSUME IInv, Reviewed, NEW k \in Desks, NEW m \in Members, BeginDesk(k, m)
  PROVE  Spent
<1>1. ASSUME NEW desired \in 1 .. MaxDesired, BeginRequest(k, m, desired)
      PROVE  Spent
  BY <1>1, LoadRequestSpent DEF BeginRequest
<1>2. ASSUME NEW q \in Requests, NEW desired \in 1 .. MaxDesired,
             BeginEdit(k, m, q, desired)
      PROVE  Spent
  BY <1>2, LoadRequestSpent DEF BeginEdit
<1>3. ASSUME NEW q \in Requests, NEW to \in {"in_review", "rejected"},
             BeginTransition(k, m, q, to)
      PROVE  Spent
  BY <1>3, LoadRequestSpent DEF BeginTransition
<1>4. ASSUME NEW q \in Requests, NEW cancelFlights \in BOOLEAN,
             BeginCancelRequest(k, m, q, cancelFlights)
      PROVE  Spent
  BY <1>4, LoadRequestSpent DEF BeginCancelRequest
<1>5. ASSUME NEW call, BeginFulfil(k, m, call)
      PROVE  Spent
  <2>1. UNCHANGED <<vars, attempts>>
    BY <1>5 DEF BeginFulfil
  <2>2. \/ desks' = [desks EXCEPT ![k] =
             [pc |-> "answered", call |-> call,
              answer |-> Replay(call, AttemptOf(call))]]
        \/ desks' = [desks EXCEPT ![k] = [pc |-> "request", call |-> call]]
    BY <1>5 DEF BeginFulfil, Answer
  <2> QED
    BY <2>1, <2>2, QuietDesk
<1> QED
  BY <1>1, <1>2, <1>3, <1>4, <1>5 DEF BeginDesk

LEMMA QuietDesks ==
  ASSUME IInv, Reviewed, NEW k \in Desks,
         \/ LoadForFulfilment(k) \/ CheckBatch(k)
         \/ MissFulfil(k) \/ RecheckAttempt(k) \/ Drop(k)
  PROVE  Spent
<1>1. UNCHANGED <<vars, attempts>>
  BY DEF LoadForFulfilment, CheckBatch, MissFulfil, RecheckAttempt, Drop
<1>2. PICK h : desks' = [desks EXCEPT ![k] = h]
                 /\ h.pc \in {"answered", "pilot", "fulfil", "recheck", "idle"}
  <2> DEFINE Reached(h) == /\ desks' = [desks EXCEPT ![k] = h]
                           /\ h.pc \in {"answered", "pilot", "fulfil", "recheck", "idle"}
  <2>1. CASE LoadForFulfilment(k)
    <3>1. \/ Reached([pc |-> "pilot", call |-> desks[k].call,
                      seen |-> requests[desks[k].call.request]])
          \/ Reached([pc |-> "answered", call |-> desks[k].call,
                      answer |-> [kind |-> "conflict"]])
      BY <2>1 DEF LoadForFulfilment, Conflict, Answer
    <3> QED
      BY <3>1
  <2>2. CASE CheckBatch(k)
    <3>1. desks[k] \in Planning
      BY <2>2, DeskFacts DEF CheckBatch, DeskOK
    <3>2. PICK old : old = desks[k]
      OBVIOUS
    <3>3. desks' = [desks EXCEPT ![k] = [old EXCEPT !.pc = "fulfil"]]
      BY <2>2, <3>2 DEF CheckBatch, IInv, Typed
    <3>4. [old EXCEPT !.pc = "fulfil"].pc = "fulfil"
      BY <3>1, <3>2 DEF Planning
    <3> QED
      BY <3>3, <3>4
  <2>3. CASE MissFulfil(k)
    <3>1. Reached([pc |-> "recheck", call |-> desks[k].call])
      BY <2>3 DEF MissFulfil, IInv, Typed
    <3> QED
      BY <3>1
  <2>4. CASE RecheckAttempt(k)
    <3>1. \/ Reached([pc |-> "answered", call |-> desks[k].call,
                      answer |-> Replay(desks[k].call, AttemptOf(desks[k].call))])
          \/ Reached([pc |-> "answered", call |-> desks[k].call,
                      answer |-> [kind |-> "conflict"]])
      BY <2>4 DEF RecheckAttempt, Conflict, Answer
    <3> QED
      BY <3>1
  <2>5. CASE Drop(k)
    <3>1. Reached(Idle)
      BY <2>5 DEF Drop, Idle
    <3> QED
      BY <3>1
  <2> QED
    BY <2>1, <2>2, <2>3, <2>4, <2>5
<1> QED
  BY <1>1, <1>2, QuietDesk

\* A step of a flight handler that reads.
LEMMA QuietHandlers ==
  ASSUME Reviewed, NEW s \in Sessions, UNCHANGED <<attempts, desks>>,
         \/ \E m \in Members, f \in Flights :
              \/ \E op \in {"accept", "decline"} : BeginAnswer(s, m, f, op)
              \/ BeginCancel(s, m, f)
              \/ \E pilot \in Members : BeginReoffer(s, m, f, pilot)
         \/ ResolveRequest(s) \/ CheckPilot(s) \/ Abort(s)
  PROVE  Spent
<1>1. UNCHANGED <<flights, requests>>
  BY DEF BeginAnswer, BeginCancel, BeginReoffer, Load, Enter, ResolveRequest,
         CheckPilot, Abort, Advance
<1>2. ReviewsLegal'
  BY ReviewsStay
<1> QED
  BY <1>1, <1>2, QuietStep

-----------------------------------------------------------------------------
(* The statements on one request.                                          *)

\* For a request that was not reviewed nothing was made.
LEMMA EarlyUnmade ==
  ASSUME IInv, Reviewed, NEW q \in Requests, requests[q].status \in Early
  PROVE  Originals(q) = {}
<1>1. Originals(q) = UNION {IdsOf(attempts[<<q, key>>]) : key \in Keys}
  BY DEF IInv, EveryFlightClaimed
<1>2. \A key \in Keys : IdsOf(attempts[<<q, key>>]) = {}
  BY NoAttemptIsNone DEF Reviewed, NothingEarly
<1>3. ASSUME NEW f \in Originals(q)
      PROVE  FALSE
  <2>1. PICK key \in Keys : f \in IdsOf(attempts[<<q, key>>])
    BY <1>1, <1>3
  <2> QED
    BY <1>2, <2>1
<1> QED
  BY <1>3

LEMMA EarlyBudget ==
  ASSUME IInv, Reviewed, NEW q \in Requests, requests[q].status \in Early
  PROVE  /\ BudgetOfRequest(q) =
              [pilot |-> requests[q].pilot, status |-> requests[q].status,
               desired |-> requests[q].desired,
               batches |-> [key \in Keys |-> << >>], live |-> {}]
         /\ Budget!Made(BudgetOfRequest(q)) = {}
<1>1. \A key \in Keys : attempts[<<q, key>>] = NoAttempt
  BY DEF Reviewed, NothingEarly
<1>2. \A key \in Keys : attempts[<<q, key>>].flights = << >>
  BY <1>1 DEF NoAttempt
<1>3. [key \in Keys |-> attempts[<<q, key>>].flights] = [key \in Keys |-> << >>]
  BY <1>2
<1>4. Originals(q) = {}
  BY EarlyUnmade
<1>5. LiveFlights(q) = {}
  BY <1>4 DEF LiveFlights
<1>6. BudgetOfRequest(q) =
        [pilot |-> requests[q].pilot, status |-> requests[q].status,
         desired |-> requests[q].desired,
         batches |-> [key \in Keys |-> << >>], live |-> {}]
  BY <1>3, <1>5 DEF BudgetOfRequest
<1>7. Budget!Made(BudgetOfRequest(q)) = {}
  <2>1. \A key \in Keys : BudgetOfRequest(q).batches[key] = << >>
    BY <1>6
  <2>2. Budget!Elements(<< >>) = {}
    BY DEF Budget!Elements
  <2> QED
    BY <2>1, <2>2 DEF Budget!Made
<1> QED
  BY <1>6, <1>7

\* A new row for one request and nothing else.
LEMMA RequestSet ==
  ASSUME IInv, NEW q \in Requests, NEW row,
         requests' = [requests EXCEPT ![q] = row],
         UNCHANGED <<flights, attempts>>
  PROVE  /\ BudgetOfRequest(q)' =
              [pilot |-> row.pilot, status |-> row.status,
               desired |-> row.desired,
               batches |-> BudgetOfRequest(q).batches,
               live |-> BudgetOfRequest(q).live]
         /\ \A p \in Requests \ {q} : BudgetOfRequest(p)' = BudgetOfRequest(p)
<1>1. /\ requests'[q] = row
      /\ \A p \in Requests \ {q} : requests'[p] = requests[p]
  BY DEF IInv, Typed
<1>2. \A p \in Requests : LiveFlights(p)' = LiveFlights(p)
  BY DEF LiveFlights, Originals, Linked, Exists
<1> QED
  BY <1>1, <1>2 DEF BudgetOfRequest

\* The columns of a row that the budget shows.
PartsOf(b, row) ==
  b = [pilot |-> row.pilot, status |-> row.status, desired |-> row.desired,
       batches |-> b.batches, live |-> b.live]

\* Of the rows of requests only the status matters to what was made early.
LEMMA RequestSpent ==
  ASSUME IInv, Reviewed, NEW k \in Desks, NEW q \in Requests, NEW row,
         requests' = [requests EXCEPT ![q] = row],
         row.status \in Early => requests[q].status \in Early,
         UNCHANGED <<flights, attempts>>,
         desks' = [desks EXCEPT ![k] = Idle],
         Budget!Step(BudgetOfRequest(q), BudgetOfRequest(q)')
  PROVE  Spent
<1>1. \A p \in Requests \ {q} : BudgetOfRequest(p)' = BudgetOfRequest(p)
  BY RequestSet
<1>2. [Budget!Next]_BudgetOf
  BY <1>1, OneBudget
<1>3. NothingEarly'
  <2>1. \A p \in Requests : requests'[p].status \in Early => requests[p].status \in Early
    BY DEF IInv, Typed
  <2> QED
    BY <2>1 DEF Reviewed, NothingEarly
<1>4. ReviewsLegal'
  BY DeskSet DEF Idle
<1> QED
  BY <1>2, <1>3, <1>4 DEF Spent, Reviewed

LEMMA CommitRequestSpent ==
  ASSUME IInv, Reviewed, NEW k \in Desks, NEW q \in Requests, CommitRequest(k, q)
  PROVE  Spent
<1> DEFINE row == [pilot |-> desks[k].actor, status |-> "pending", version |-> 1,
                   desired |-> desks[k].wish]
           old == BudgetOfRequest(q)
           new == BudgetOfRequest(q)'
<1>1. desks[k].actor \in Members /\ desks[k].wish \in 1 .. MaxDesired
  BY DeskFacts DEF CommitRequest, Committed, DeskOK
<1>2. /\ requests' = [requests EXCEPT ![q] = row]
      /\ requests[q] = NoRequest
      /\ desks' = [desks EXCEPT ![k] = Idle]
      /\ UNCHANGED <<flights, attempts>>
  BY DEF CommitRequest
<1>3. requests[q].status \in Early
  BY <1>2, NoRequestIsNone DEF Early
<1>4. old = Budget!Blank
  BY <1>2, <1>3, EarlyBudget, NoRequestIsNone DEF Budget!Blank
<1>5. new = [pilot |-> desks[k].actor, status |-> "pending",
             desired |-> desks[k].wish, batches |-> old.batches, live |-> old.live]
  BY <1>2, RequestSet
<1> HIDE DEF new, old
<1>6. new = [old EXCEPT !.pilot = desks[k].actor, !.status = "pending",
                        !.desired = desks[k].wish]
  <2>1. PICK batches, live :
          /\ old = [pilot |-> Null, status |-> "absent", desired |-> 0,
                    batches |-> batches, live |-> live]
          /\ new = [pilot |-> desks[k].actor, status |-> "pending",
                    desired |-> desks[k].wish, batches |-> batches, live |-> live]
    BY <1>4, <1>5 DEF Budget!Blank
  <2>2. PICK mid : mid = [old EXCEPT !.pilot = desks[k].actor]
    OBVIOUS
  <2>3. mid = [pilot |-> desks[k].actor, status |-> "absent", desired |-> 0,
               batches |-> batches, live |-> live]
    BY <2>1, <2>2
  <2>4. PICK next : next = [mid EXCEPT !.status = "pending"]
    OBVIOUS
  <2>5. next = [pilot |-> desks[k].actor, status |-> "pending", desired |-> 0,
                batches |-> batches, live |-> live]
    BY <2>3, <2>4
  <2>6. new = [next EXCEPT !.desired = desks[k].wish]
    BY <2>1, <2>5
  <2> QED
    BY <2>2, <2>4, <2>6
<1>7. Budget!Ask(old, new)
  BY <1>1, <1>4, <1>6 DEF Budget!Ask
<1>8. Budget!Step(old, new)
  BY <1>7 DEF Budget!Step
<1> QED
  BY <1>2, <1>3, <1>8, RequestSpent DEF old, new

LEMMA CommitEditSpent ==
  ASSUME IInv, Reviewed, NEW k \in Desks, CommitEdit(k)
  PROVE  Spent
<1> DEFINE h == desks[k]
<1>1. PICK q \in Requests : q = h.request /\ requests[q] \in RequestRow
  BY ReviewFacts DEF CommitEdit
<1> DEFINE old == BudgetOfRequest(q)
           new == BudgetOfRequest(q)'
<1>2. h.wish \in 1 .. MaxDesired /\ h.wish \in Nat
  BY DeskFacts DEF CommitEdit, Committed, DeskOK
<1>3. PICK row : row = Edited(requests[q], h.wish)
  OBVIOUS
<1>4. requests' = [requests EXCEPT ![q] = row]
  BY <1>1, <1>3 DEF CommitEdit, IInv, Typed, Edited
<1>5. /\ row.pilot = requests[q].pilot /\ row.status = requests[q].status
      /\ row.desired = h.wish
  BY <1>1, <1>2, <1>3, EditedRow
<1>6. /\ desks' = [desks EXCEPT ![k] = Idle]
      /\ UNCHANGED <<flights, attempts>>
  BY DEF CommitEdit
<1>7. requests[q].status = "pending"
  BY <1>1 DEF CommitEdit, RequestAt, Reviewed, ReviewsLegal
<1>8. new = [pilot |-> row.pilot, status |-> row.status, desired |-> row.desired,
             batches |-> old.batches, live |-> old.live]
  BY <1>4, <1>6, RequestSet
<1>9. new = [old EXCEPT !.desired = h.wish] /\ old.status = "pending"
  <2>1. old.status = "pending" /\ PartsOf(old, requests[q])
    BY <1>7 DEF BudgetOfRequest, PartsOf
  <2> HIDE DEF new, old
  <2> QED
    BY <1>5, <1>8, <2>1 DEF PartsOf
<1> HIDE DEF new, old
<1>10. Budget!Step(old, new)
  BY <1>2, <1>9 DEF Budget!Change, Budget!Step
<1>11. row.status \in Early => requests[q].status \in Early
  BY <1>5
<1> QED
  BY <1>4, <1>6, <1>10, <1>11, RequestSpent DEF old, new

\* A review starts from a request nobody reviewed, and a refusal from one for
\* which nothing was made.
LEMMA CommitTransitionSpent ==
  ASSUME IInv, Reviewed, NEW k \in Desks, CommitTransition(k)
  PROVE  Spent
<1> DEFINE h == desks[k]
<1>1. PICK q \in Requests : /\ q = h.request /\ requests[q] \in RequestRow
                            /\ requests[q].status \in OpenRequest
  BY ReviewFacts DEF CommitTransition
<1> DEFINE old == BudgetOfRequest(q)
           new == BudgetOfRequest(q)'
<1>2. /\ h.wish \in {"in_review", "rejected"}
      /\ h.wish \in RequestSuccessors[requests[q].status]
  <2>1. Committed(k, "transition") /\ h.seen.status = requests[q].status
    BY <1>1 DEF CommitTransition, RequestAt
  <2> QED
    BY <2>1, DeskFacts DEF Committed, DeskOK, Reviewed, ReviewsLegal
<1>3. \/ requests[q].status = "pending"
      \/ requests[q].status = "in_review" /\ h.wish = "rejected"
  BY <1>1, <1>2 DEF RequestSuccessors, OpenRequest
<1>4. PICK row : row = Moved(requests[q], h.wish)
  OBVIOUS
<1>5. /\ row.pilot = requests[q].pilot /\ row.desired = requests[q].desired
      /\ row.status = h.wish
  <2>1. h.wish \in RequestStatus
    BY <1>2 DEF RequestStatus, OpenRequest
  <2> QED
    BY <1>1, <1>4, <2>1, MovedRow
<1>6. requests' = [requests EXCEPT ![q] = row]
  BY <1>1, <1>4 DEF CommitTransition, IInv, Typed, Moved
<1>7. /\ desks' = [desks EXCEPT ![k] = Idle]
      /\ UNCHANGED <<flights, attempts>>
  BY DEF CommitTransition
<1>8. new = [pilot |-> row.pilot, status |-> row.status, desired |-> row.desired,
             batches |-> old.batches, live |-> old.live]
  BY <1>6, <1>7, RequestSet
<1>9. new = [old EXCEPT !.status = h.wish] /\ old.status = requests[q].status
  <2>1. old.status = requests[q].status /\ PartsOf(old, requests[q])
    BY DEF BudgetOfRequest, PartsOf
  <2> HIDE DEF new, old
  <2> QED
    BY <1>5, <1>8, <2>1 DEF PartsOf
<1>10. requests[q].status \in Early
  BY <1>3 DEF Early
<1>11. Budget!Made(old) = {}
  BY <1>10, EarlyBudget
<1> HIDE DEF new, old
<1>12. Budget!Step(old, new)
  BY <1>2, <1>3, <1>9, <1>11 DEF Budget!Review, Budget!Reject, Budget!Step
<1> QED
  BY <1>6, <1>7, <1>10, <1>12, RequestSpent DEF old, new

-----------------------------------------------------------------------------
(* The steps that lose flights or hand them over.                          *)

\* What a batch made only shrinks, for the request whose rows move.
LEMMA LiveShrinks ==
  ASSUME IInv, RowsStep, NEW q \in Requests
  PROVE  /\ LiveFlights(q)' \subseteq LiveFlights(q)
         /\ (\A f \in Flights : flights'[f] # flights[f] => flights[f].request # q) =>
              LiveFlights(q)' = LiveFlights(q)
<1>1. Originals(q)' = Originals(q) /\ NonCancelled(q)' \subseteq NonCancelled(q)
  BY LinksStay
<1>2. LiveFlights(q)' \subseteq LiveFlights(q)
  BY <1>1, LiveIs
<1>3. ASSUME \A f \in Flights : flights'[f] # flights[f] => flights[f].request # q
      PROVE  LiveFlights(q)' = LiveFlights(q)
  <2>1. \A f \in Originals(q) : flights'[f] = flights[f]
    BY <1>3 DEF Originals, Linked
  <2> QED
    BY <1>1, <2>1 DEF LiveFlights
<1> QED
  BY <1>2, <1>3

LEMMA CommitCancelSpent ==
  ASSUME IInv, Reviewed, NEW k \in Desks, CommitCancel(k)
  PROVE  Spent
<1>1. PICK q \in Requests :
        /\ q = desks[k].request /\ requests[q] \in RequestRow
        /\ requests' = [requests EXCEPT ![q] = Moved(requests[q], "cancelled")]
        /\ \A f \in Flights : flights'[f] # flights[f] => flights[f].request = q
  BY CancelledRows
<1> DEFINE old == BudgetOfRequest(q)
           new == BudgetOfRequest(q)'
<1>2. /\ RowsStep /\ UNCHANGED attempts
      /\ desks' = [desks EXCEPT ![k] = Idle]
  BY CancelledRows
<1>3. requests[q].status \in OpenRequest
  BY <1>1, ReviewFacts DEF CommitCancel
<1>4. PICK row : row = Moved(requests[q], "cancelled")
  OBVIOUS
<1>5. /\ row.pilot = requests[q].pilot /\ row.desired = requests[q].desired
      /\ row.status = "cancelled"
  <2>1. "cancelled" \in RequestStatus
    BY DEF RequestStatus
  <2> QED
    BY <1>1, <1>4, <2>1, MovedRow
<1>6. requests'[q] = row /\ \A p \in Requests \ {q} : requests'[p] = requests[p]
  BY <1>1, <1>4 DEF IInv, Typed
<1>7. /\ LiveFlights(q)' \subseteq LiveFlights(q)
      /\ \A p \in Requests \ {q} : LiveFlights(p)' = LiveFlights(p)
  BY <1>1, <1>2, LiveShrinks
<1>8. \A p \in Requests \ {q} : BudgetOfRequest(p)' = BudgetOfRequest(p)
  BY <1>2, <1>6, <1>7 DEF BudgetOfRequest
<1>9. /\ PartsOf(old, requests[q])
      /\ new = [pilot |-> row.pilot, status |-> row.status,
                desired |-> row.desired, batches |-> old.batches,
                live |-> new.live]
      /\ new.live \subseteq old.live
  BY <1>2, <1>6, <1>7 DEF BudgetOfRequest, PartsOf
<1> HIDE DEF new, old
<1>10. new = [old EXCEPT !.status = "cancelled", !.live = new.live]
  <2>1. PICK mid : mid = [old EXCEPT !.status = "cancelled"]
    OBVIOUS
  <2>2. mid = [pilot |-> row.pilot, status |-> "cancelled",
               desired |-> row.desired, batches |-> old.batches,
               live |-> old.live]
    BY <1>5, <1>9, <2>1 DEF PartsOf
  <2>3. new = [mid EXCEPT !.live = new.live]
    BY <1>5, <1>9, <2>2
  <2> QED
    BY <2>1, <2>3
<1>11. old.status \in Budget!Open
  BY <1>3, <1>9 DEF PartsOf, OpenRequest, Budget!Open
<1>12. Budget!Step(old, new)
  BY <1>9, <1>10, <1>11 DEF Budget!Cancel, Budget!Step
<1>13. [Budget!Next]_BudgetOf
  BY <1>8, <1>12, OneBudget DEF old, new
<1>14. NothingEarly'
  <2>1. \A p \in Requests : requests'[p].status \in Early => requests[p].status \in Early
    BY <1>5, <1>6 DEF Early
  <2> QED
    BY <1>2, <2>1 DEF Reviewed, NothingEarly
<1>15. ReviewsLegal'
  BY <1>2, DeskSet DEF Idle
<1> QED
  BY <1>13, <1>14, <1>15 DEF Spent, Reviewed

\* An update of one flight loses at most this one.
LEMMA OneRowSpent ==
  ASSUME IInv, Reviewed, NEW s \in Sessions, NEW row \in Row, OneRowStep(s, row),
         UNCHANGED <<attempts, desks>>
  PROVE  Spent
<1>1. PICK f \in Flights : f = handlers[s].flight
  BY DEF OneRowStep
<1>2. /\ Exists(f) /\ RowStep(flights[f], Bump(row))
      /\ flights' = [flights EXCEPT ![f] = Bump(row)]
      /\ UNCHANGED requests
  BY <1>1 DEF OneRowStep, UpdateFlight
<1>3. \A g \in Flights : flights'[g] = IF g = f THEN Bump(row) ELSE flights[g]
  BY <1>2 DEF IInv, Typed
<1>4. RowsStep
  BY <1>2, <1>3 DEF RowsStep
<1>5. \A p \in Requests : p # flights[f].request =>
        LiveFlights(p)' = LiveFlights(p)
  BY <1>3, <1>4, LiveShrinks
<1>6. \A p \in Requests : p # flights[f].request =>
        BudgetOfRequest(p)' = BudgetOfRequest(p)
  BY <1>2, <1>5 DEF BudgetOfRequest
<1>7. CASE flights[f].request \notin Requests
  <2>1. BudgetOf' = BudgetOf
    BY <1>6, <1>7, BudgetIs
  <2> QED
    BY <1>2, <2>1, ReviewsStay DEF Spent, Reviewed, NothingEarly
<1>8. CASE flights[f].request \in Requests
  <2>1. PICK q \in Requests : q = flights[f].request
    BY <1>8
  <2> DEFINE old == BudgetOfRequest(q)
             new == BudgetOfRequest(q)'
  <2>2. /\ PartsOf(old, requests[q])
        /\ new = [pilot |-> requests[q].pilot, status |-> requests[q].status,
                  desired |-> requests[q].desired, batches |-> old.batches,
                  live |-> new.live]
        /\ new.live \subseteq old.live
    BY <1>2, <1>4, LiveShrinks DEF BudgetOfRequest, PartsOf
  <2> HIDE DEF new, old
  <2>3. new = [old EXCEPT !.live = new.live]
    BY <2>2 DEF PartsOf
  <2>4. Budget!Step(old, new)
    BY <2>2, <2>3 DEF Budget!Lose, Budget!Step
  <2>5. [Budget!Next]_BudgetOf
    BY <1>6, <2>1, <2>4, OneBudget DEF old, new
  <2> QED
    BY <1>2, <2>5, ReviewsStay DEF Spent, Reviewed, NothingEarly
<1> QED
  BY <1>7, <1>8

LEMMA CommitReofferSpent ==
  ASSUME IInv, Reviewed, NEW s \in Sessions, NEW f \in Flights, CommitReoffer(s, f),
         UNCHANGED <<attempts, desks>>
  PROVE  Spent
<1>1. UNCHANGED requests
  BY DEF CommitReoffer
<1>2. \A q \in Requests : LiveFlights(q)' = LiveFlights(q)
  BY ReofferInserts, LiveIs
<1>3. \A q \in Requests : BudgetOfRequest(q)' = BudgetOfRequest(q)
  BY <1>1, <1>2 DEF BudgetOfRequest
<1>4. BudgetOf' = BudgetOf
  BY <1>3, BudgetIs
<1> QED
  BY <1>1, <1>4, ReviewsStay DEF Spent, Reviewed, NothingEarly

-----------------------------------------------------------------------------
(* The step that spends.                                                   *)

\* A flight without a row was made for no request.
LEMMA NewIsUnmade ==
  ASSUME IInv, NEW f \in Flights, ~Exists(f)
  PROVE  f \in Budget!Unmade
<1>1. SUFFICES ASSUME NEW q \in Requests, f \in Budget!Made(BudgetOf[q])
               PROVE  FALSE
  BY DEF Budget!Unmade
<1>2. PICK key \in Keys : f \in Budget!Elements(BudgetOf[q].batches[key])
  BY <1>1 DEF Budget!Made
<1>3. BudgetOf[q].batches[key] = attempts[<<q, key>>].flights
  BY DEF BudgetOf, BudgetOfRequest
<1>4. f \in IdsOf(attempts[<<q, key>>])
  BY <1>2, <1>3 DEF Budget!Elements, IdsOf
<1>5. f \in Originals(q)
  BY <1>4 DEF IInv, EveryFlightClaimed
<1> QED
  BY <1>5 DEF Originals, Linked

\* The instance counts as its user does.
LEMMA SameCardinality == \A S : Budget!Cardinality(S) = Cardinality(S)
BY DEF Budget!Cardinality, Cardinality

LEMMA CommitFulfilSpent ==
  ASSUME IInv, Reviewed, NEW k \in Desks, NEW n \in Nat,
         NEW ids \in [1 .. n -> Flights], CommitFulfil(k, ids)
  PROVE  Spent
<1>1. /\ desks[k].call.request \in Requests /\ desks[k].call.key \in Keys
      /\ requests[desks[k].call.request] \in RequestRow
      /\ desks[k].call.payload.batch \in Batches
      /\ Len(desks[k].call.payload.batch) = n /\ DOMAIN ids = 1 .. n
  BY FulfilFacts
<1>2. PICK q \in Requests : q = desks[k].call.request
  BY <1>1
<1>3. PICK own \in Keys : own = desks[k].call.key
  BY <1>1
<1> DEFINE old == BudgetOfRequest(q)
           new == BudgetOfRequest(q)'
           added == IdsOf([flights |-> ids])
           to == FulfilledStatus(q, n)
<1> HIDE DEF old, new, added, to
<1>4. /\ \A key \in Keys : attempts'[<<q, key>>].flights =
           IF key = own THEN ids ELSE attempts[<<q, key>>].flights
      /\ attempts[<<q, own>>].flights = << >>
      /\ LiveFlights(q)' = LiveFlights(q) \cup added
      /\ \A p \in Requests \ {q} :
           /\ requests'[p] = requests[p]
           /\ LiveFlights(p)' = LiveFlights(p)
           /\ \A key \in Keys : attempts'[<<p, key>>] = attempts[<<p, key>>]
  <2> DEFINE entry == [payload |-> desks[k].call.payload, flights |-> ids]
  <2>1. attempts' = [attempts EXCEPT ![<<q, own>>] = entry]
    BY <1>2, <1>3 DEF CommitFulfil
  <2>2. \A p \in Requests, key \in Keys :
          attempts'[<<p, key>>] =
            IF p = q /\ key = own THEN entry ELSE attempts[<<p, key>>]
    BY <2>1 DEF IInv, Typed
  <2>3. \A key \in Keys : attempts'[<<q, key>>].flights =
          IF key = own THEN ids ELSE attempts[<<q, key>>].flights
    BY <2>2
  <2>4. attempts[<<q, own>>].flights = << >>
    <3>1. AttemptOf(desks[k].call) = NoAttempt
      BY DEF CommitFulfil, Claimable
    <3>2. attempts[<<q, own>>] = NoAttempt
      BY <1>2, <1>3, <3>1 DEF AttemptOf
    <3> QED
      BY <3>2 DEF NoAttempt
  <2>5. /\ Inserts(added)
        /\ \A f \in added : /\ flights'[f].status = "offered"
                          /\ flights'[f].request = q
                          /\ flights'[f].replaces = Null
    BY <1>2, FulfilInserts DEF added
  <2>6. \A p \in Requests \ {q} : requests'[p] = requests[p]
    BY <1>2 DEF CommitFulfil, IInv, Typed
  <2>7. LiveFlights(q)' = LiveFlights(q) \cup added
    <3>1. /\ {f \in added : /\ flights'[f].request = q
                          /\ flights'[f].replaces = Null} = added
          /\ {f \in added : flights'[f].status # "cancelled"} = added
      BY <2>5
    <3>2. (Originals(q) \cap NonCancelled(q))' =
            (Originals(q) \cap NonCancelled(q)) \cup added
      BY <2>5, <3>1, InsertedLinks
    <3> QED
      BY <3>2, LiveIs
  <2>8. \A p \in Requests \ {q} : LiveFlights(p)' = LiveFlights(p)
    <3> SUFFICES ASSUME NEW p \in Requests \ {q}
                 PROVE  LiveFlights(p)' = LiveFlights(p)
      OBVIOUS
    <3>1. (Originals(p) \cap NonCancelled(p))' = Originals(p) \cap NonCancelled(p)
      BY <2>5, InsertedElsewhere
    <3> QED
      BY <3>1, LiveIs
  <2> QED
    BY <2>2, <2>3, <2>4, <2>6, <2>7, <2>8
<1>5. /\ requests'[q].pilot = requests[q].pilot
      /\ requests'[q].desired = requests[q].desired
      /\ requests'[q].status = to
  <2>1. requests' = [requests EXCEPT ![q].status = to, ![q].version = @ + 1]
    BY <1>1, <1>2 DEF CommitFulfil, to
  <2> QED
    BY <1>1, <1>2, <2>1 DEF IInv, Typed, RequestRow, to
<1>6. requests[q].status \in Collecting
  <2>1. desks[k] \in Planning
    BY DeskFacts DEF CommitFulfil, DeskOK
  <2> QED
    BY <1>2, <2>1 DEF Planning, CommitFulfil, Claimable, RequestAt
<1>7. ids # << >>
  <2>1. desks[k].call.payload.batch # << >>
    BY <1>1, BatchesAssumption
  <2>2. desks[k].call.payload.batch \in Seq([time : Times, route : Routes])
    BY <1>1, BatchesAssumption
  <2>3. n # 0
    BY <1>1, <2>1, <2>2
  <2> QED
    BY <1>1, <2>3
<1>8. \A i, j \in DOMAIN ids : ~Exists(ids[i]) /\ (ids[i] = ids[j] => i = j)
  BY DEF CommitFulfil
<1>9. Budget!Elements(ids) \subseteq Budget!Unmade
  <2> SUFFICES ASSUME NEW i \in DOMAIN ids
               PROVE  ids[i] \in Budget!Unmade
    BY DEF Budget!Elements
  <2> QED
    BY <1>1, <1>8, NewIsUnmade
<1>10. Budget!Elements(ids) = added
  BY DEF Budget!Elements, IdsOf, added
<1>11. /\ Cardinality(LiveFlights(q)') <= requests[q].desired
       /\ to = "partially_fulfilled" =>
            Cardinality(LiveFlights(q)') < requests[q].desired
  <2>1. BatchesFit'
    BY FulfilFits
  <2> QED
    BY <1>5, <2>1, LiveIs DEF BatchesFit, Live
<1>12. to \in {"fulfilled", "partially_fulfilled"}
  BY DEF FulfilledStatus, to
<1>13. PartsOf(old, requests[q]) /\ PartsOf(new, requests'[q])
  BY DEF BudgetOfRequest, PartsOf, old, new
<1>14. /\ old.live = LiveFlights(q) /\ new.live = LiveFlights(q)'
       /\ old.batches = [key \in Keys |-> attempts[<<q, key>>].flights]
       /\ new.batches = [key \in Keys |-> attempts'[<<q, key>>].flights]
  BY DEF BudgetOfRequest, old, new
<1>15. /\ new.batches = [old.batches EXCEPT ![own] = ids]
       /\ new.batches[own] = ids /\ old.batches[own] = << >>
  <2>1. old.batches[own] = << >>
    BY <1>4, <1>14
  <2>2. new.batches = [key \in Keys |-> IF key = own THEN ids ELSE old.batches[key]]
    BY <1>4, <1>14
  <2>3. DOMAIN old.batches = Keys /\ old.batches = [key \in Keys |-> old.batches[key]]
    BY <1>14
  <2>4. [old.batches EXCEPT ![own] = ids] =
          [key \in Keys |-> IF key = own THEN ids ELSE old.batches[key]]
    BY <2>3
  <2> QED
    BY <2>1, <2>2, <2>4
<1>16. new.live = old.live \cup added
  BY <1>4, <1>14
<1>17. new = [old EXCEPT !.batches = [@ EXCEPT ![own] = ids],
                         !.live = @ \cup Budget!Elements(ids),
                         !.status = new.status]
  <2>1. PICK mid : mid = [old EXCEPT !.batches = new.batches]
    OBVIOUS
  <2>2. mid = [pilot |-> requests[q].pilot, status |-> requests[q].status,
               desired |-> requests[q].desired, batches |-> new.batches,
               live |-> old.live]
    BY <1>13, <2>1 DEF PartsOf
  <2>3. PICK next : next = [mid EXCEPT !.live = new.live]
    OBVIOUS
  <2>4. next = [pilot |-> requests[q].pilot, status |-> requests[q].status,
                desired |-> requests[q].desired, batches |-> new.batches,
                live |-> new.live]
    BY <2>2, <2>3
  <2>5. new = [next EXCEPT !.status = new.status]
    BY <1>5, <1>13, <2>4 DEF PartsOf
  <2>6. new = [old EXCEPT !.batches = new.batches, !.live = new.live,
                          !.status = new.status]
    BY <2>1, <2>3, <2>5
  <2> QED
    BY <1>10, <1>15, <1>16, <2>6
<1>18. old.status \in {"in_review", "partially_fulfilled"}
  BY <1>6, <1>13 DEF PartsOf, Collecting
<1>19. /\ old.desired = requests[q].desired /\ new.status = to
  BY <1>5, <1>13 DEF PartsOf
<1>20. Budget!Spend(old, new)
  <2>1. /\ Cardinality(new.live) <= old.desired
        /\ \/ new.status = "fulfilled"
           \/ /\ new.status = "partially_fulfilled"
              /\ Cardinality(new.live) < old.desired
    BY <1>11, <1>12, <1>14, <1>19
  <2>2. LET batch == new.batches[own] IN
          /\ old.batches[own] = <<>> /\ batch # <<>>
          /\ Budget!Elements(batch) \subseteq Budget!Unmade
          /\ \A i, j \in DOMAIN batch : batch[i] = batch[j] => i = j
          /\ new = [old EXCEPT !.batches = [@ EXCEPT ![own] = batch],
                               !.live = @ \cup Budget!Elements(batch),
                               !.status = new.status]
    BY <1>7, <1>8, <1>9, <1>15, <1>17
  <2> QED
    BY <1>18, <2>1, <2>2, SameCardinality DEF Budget!Spend
<1>21. Budget!Step(old, new)
  BY <1>20 DEF Budget!Step
<1>22. [Budget!Next]_BudgetOf
  <2>1. \A p \in Requests \ {q} : BudgetOfRequest(p)' = BudgetOfRequest(p)
    BY <1>4 DEF BudgetOfRequest
  <2> QED
    BY <1>21, <2>1, OneBudget DEF old, new
<1>23. NothingEarly'
  <2> SUFFICES ASSUME NEW p \in Requests, requests'[p].status \in Early,
                      NEW key \in Keys
               PROVE  attempts'[<<p, key>>] = NoAttempt
    BY DEF NothingEarly
  <2>1. p # q
    BY <1>5, <1>12 DEF Early
  <2> QED
    BY <1>4, <2>1 DEF Reviewed, NothingEarly
<1>24. ReviewsLegal'
  BY DeskSet DEF CommitFulfil, Answer
<1> QED
  BY <1>22, <1>23, <1>24 DEF Spent, Reviewed

\* A handover moves some open requests of a member and no flight of a batch is
\* lost by it.
LEMMA CommitChangeSpent ==
  ASSUME IInv, ChangeOK, Reviewed, CommitChange, UNCHANGED <<attempts, desks>>
  PROVE  Spent
<1> DEFINE r == change.to
           handed == RequestsToHandOver
<1>1. /\ \A f \in Flights : flights'[f] = IF f \in FlightsToHandOver
                                          THEN Handover(flights[f], r)
                                          ELSE flights[f]
      /\ \A q \in Requests : requests'[q] = IF q \in handed
                                            THEN HandedOver(requests[q], r)
                                            ELSE requests[q]
  BY DEF CommitChange
<1>2. \A f \in FlightsToHandOver :
        /\ Exists(f)
        /\ RowStep(flights[f], Handover(flights[f], r))
        /\ Handover(flights[f], r).status \in Predeparture
  BY HandoverFacts
<1>3. \A q \in handed :
        /\ r \in Members
        /\ requests[q].pilot = change.member /\ requests[q].status \in OpenRequest
        /\ HandedOver(requests[q], r).pilot = r
        /\ HandedOver(requests[q], r).status = requests[q].status
        /\ HandedOver(requests[q], r).desired = requests[q].desired
  BY HandoverFacts
<1>4. handed \in SUBSET Requests /\ change.member \in Members
  BY ChangeTyped DEF RequestsToHandOver, LockedRequests, OwnedRequests, CommitChange
<1> HIDE DEF r, handed
<1>5. RowsStep
  BY <1>1, <1>2 DEF RowsStep
<1>6. \A q \in Requests : LiveFlights(q)' = LiveFlights(q)
  <2> SUFFICES ASSUME NEW q \in Requests
               PROVE  LiveFlights(q)' = LiveFlights(q)
    OBVIOUS
  <2>1. Originals(q)' = Originals(q)
    BY <1>5, LinksStay
  <2>2. \A f \in Originals(q) :
          flights'[f].status # "cancelled" <=> flights[f].status # "cancelled"
    <3> SUFFICES ASSUME NEW f \in Originals(q)
                 PROVE  flights'[f].status # "cancelled"
                          <=> flights[f].status # "cancelled"
      OBVIOUS
    <3>1. f \in Flights
      BY DEF Originals, Linked
    <3>2. CASE f \in FlightsToHandOver
      <4>1. flights'[f].status \in Predeparture /\ flights[f].status # "cancelled"
        BY <1>1, <1>2, <3>1, <3>2 DEF RowStep
      <4> QED
        BY <4>1 DEF Predeparture
    <3>3. CASE f \notin FlightsToHandOver
      BY <1>1, <3>1, <3>3
    <3> QED
      BY <3>2, <3>3
  <2> QED
    BY <2>1, <2>2 DEF LiveFlights
<1>7. \A q \in Requests :
        /\ requests'[q].status = requests[q].status
        /\ requests'[q].desired = requests[q].desired
        /\ requests'[q].pilot = IF q \in handed THEN r ELSE requests[q].pilot
  BY <1>1, <1>3
<1>8. \A q \in Requests :
        BudgetOfRequest(q)' =
          [pilot |-> IF q \in handed THEN r ELSE requests[q].pilot,
           status |-> requests[q].status, desired |-> requests[q].desired,
           batches |-> BudgetOfRequest(q).batches,
           live |-> BudgetOfRequest(q).live]
  BY <1>6, <1>7 DEF BudgetOfRequest
<1>9. \A q \in Requests : PartsOf(BudgetOfRequest(q), requests[q])
  BY DEF BudgetOfRequest, PartsOf
<1>10. ASSUME NEW q \in Requests
       PROVE  BudgetOf'[q] = IF q \in handed THEN [BudgetOf[q] EXCEPT !.pilot = r]
                                             ELSE BudgetOf[q]
  <2> DEFINE old == BudgetOfRequest(q)
             new == BudgetOfRequest(q)'
  <2>1. /\ PartsOf(old, requests[q])
        /\ new = [pilot |-> IF q \in handed THEN r ELSE requests[q].pilot,
                  status |-> requests[q].status,
                  desired |-> requests[q].desired,
                  batches |-> old.batches, live |-> old.live]
    BY <1>8, <1>9
  <2>2. BudgetOf[q] = old /\ BudgetOf'[q] = new
    BY BudgetIs
  <2> HIDE DEF old, new
  <2>3. CASE q \in handed
    <3>1. new = [old EXCEPT !.pilot = r]
      BY <2>1, <2>3 DEF PartsOf
    <3> QED
      BY <2>2, <2>3, <3>1
  <2>4. CASE q \notin handed
    <3>1. new = old
      BY <2>1, <2>4 DEF PartsOf
    <3> QED
      BY <2>2, <2>4, <3>1
  <2> QED
    BY <2>3, <2>4
<1>11. [Budget!Next]_BudgetOf
  <2>1. /\ DOMAIN BudgetOf' = Requests
        /\ BudgetOf' = [q \in Requests |-> BudgetOf'[q]]
        /\ BudgetOf = [q \in Requests |-> BudgetOf[q]]
    BY BudgetIs
  <2>2. CASE handed = {}
    BY <1>10, <2>1, <2>2
  <2>3. CASE handed # {}
    <3>1. r \in Members
      BY <1>3, <2>3
    <3>2. \A q \in handed : /\ BudgetOf[q].pilot = change.member
                            /\ BudgetOf[q].status \in Budget!Open
      BY <1>3, <1>4, BudgetIs DEF BudgetOfRequest, OpenRequest, Budget!Open
    <3>3. BudgetOf' = [q \in Requests |->
             IF q \in handed THEN [BudgetOf[q] EXCEPT !.pilot = r] ELSE BudgetOf[q]]
      BY <1>10, <2>1
    <3>4. Budget!HandOver(BudgetOf, BudgetOf')
      BY <1>4, <3>1, <3>2, <3>3 DEF Budget!HandOver
    <3> QED
      BY <2>1, <3>4 DEF Budget!Next
  <2> QED
    BY <2>2, <2>3
<1>12. NothingEarly'
  BY <1>7 DEF Reviewed, NothingEarly
<1>13. ReviewsLegal'
  BY ReviewsStay
<1> QED
  BY <1>12, <1>13, <1>11 DEF Spent, Reviewed

LEMMA MemberStepSpent ==
  ASSUME IInv, ChangeOK, Reviewed, MemberNext, UNCHANGED <<attempts, desks>>
  PROVE  Spent
<1>1. CASE UNCHANGED tables
  BY <1>1, ReviewsStay, QuietStep DEF tables
<1> QED
  BY <1>1, CommitChangeSpent DEF MemberNext, BeginChange, AbortChange

-----------------------------------------------------------------------------
(* The refinement.                                                         *)

LEMMA InitBudget == ScheduleInit => Reviewed /\ Budget!Init
<1> SUFFICES ASSUME ScheduleInit
             PROVE  Reviewed /\ Budget!Init
  OBVIOUS
<1>1. IInv
  BY InitKept
<1>2. Reviewed
  BY DEF ScheduleInit, Reviewed, NothingEarly, ReviewsLegal, Committed, AtDesk, Free
<1>3. ASSUME NEW q \in Requests
      PROVE  BudgetOfRequest(q) = Budget!Blank
  <2>1. requests[q] = NoRequest /\ requests[q].status \in Early
    BY NoRequestIsNone DEF ScheduleInit, Early
  <2> QED
    BY <1>1, <1>2, <2>1, EarlyBudget, NoRequestIsNone DEF Budget!Blank
<1>4. Budget!Init
  BY <1>3, BudgetIs DEF Budget!Init
<1> QED
  BY <1>2, <1>4

LEMMA DeskSpent ==
  ASSUME IInv, Reviewed, NEW k \in Desks, DeskNext(k)
  PROVE  Spent
<1>1. ASSUME NEW n \in 1 .. Cardinality(Flights), NEW ids \in [1 .. n -> Flights],
             CommitFulfil(k, ids)
      PROVE  Spent
  <2>1. n \in Nat
    BY FlightsAssumption, FS_CardinalityType
  <2> QED
    BY <1>1, <2>1, CommitFulfilSpent
<1>2. ASSUME NEW m \in Members, BeginDesk(k, m)
      PROVE  Spent
  BY <1>2, BeginDeskSpent
<1>3. ASSUME NEW q \in Requests, CommitRequest(k, q)
      PROVE  Spent
  BY <1>3, CommitRequestSpent
<1> QED
  BY <1>1, <1>2, <1>3, CommitEditSpent, CommitTransitionSpent, CommitCancelSpent,
     QuietDesks DEF DeskNext

LEMMA LinkedFlightSpent ==
  ASSUME IInv, Reviewed, NEW s \in Sessions, LinkedFlightNext(s),
         UNCHANGED <<attempts, desks>>
  PROVE  Spent
<1>1. CASE CommitStatus(s)
  BY <1>1, StatusRow, OneRowSpent
<1>2. CASE CommitAgreement(s)
  BY <1>2, AgreementRow, OneRowSpent
<1>3. ASSUME NEW f \in Flights, CommitReoffer(s, f)
      PROVE  Spent
  BY <1>3, CommitReofferSpent
<1> QED
  BY <1>1, <1>2, <1>3, QuietHandlers DEF LinkedFlightNext

LEMMA StepSpent ==
  IInv /\ ChangeOK /\ Reviewed /\ [ScheduleNext]_scheduleVars => Spent
<1> SUFFICES ASSUME IInv, ChangeOK, Reviewed, [ScheduleNext]_scheduleVars
             PROVE  Spent
  OBVIOUS
<1>1. CASE UNCHANGED scheduleVars
  <2>1. UNCHANGED <<flights, requests, attempts, desks>>
    BY <1>1 DEF scheduleVars, vars, tables
  <2> QED
    BY <2>1, ReviewsStay, QuietStep
<1>2. CASE \E k \in Desks : DeskNext(k) /\ UNCHANGED change
  BY <1>2, DeskSpent
<1>3. CASE MemberNext /\ UNCHANGED <<attempts, desks>>
  BY <1>3, MemberStepSpent
<1>4. CASE \E s \in Sessions :
             LinkedFlightNext(s) /\ UNCHANGED <<change, attempts, desks>>
  BY <1>4, LinkedFlightSpent
<1> QED
  BY <1>1, <1>2, <1>3, <1>4 DEF ScheduleNext

\* Whatever desks, flight handlers and administrators do at once, and however
\* many requests, keys and flights there are, each request behaves as a budget
\* that changes in one place at a time: fixed once it is under review, spent
\* once per Idempotency-Key on flights nobody had, never beyond its size, and,
\* while it is open, handed over as it is to whom the other requests handed over
\* with it go.
THEOREM BudgetImplemented == ScheduleSpec => ImplementsBudget
<1>1. IInv /\ ChangeOK /\ Reviewed /\ [ScheduleNext]_scheduleVars =>
        Reviewed' /\ [Budget!Next]_BudgetOf
  BY StepSpent DEF Spent
<1> QED
  BY <1>1, InitBudget, Invariance, PTL DEF ScheduleSpec, ImplementsBudget, Budget!Spec

-----------------------------------------------------------------------------
(* A request and the flights of its batches.                               *)

\* The step parts no flight from its request.
NoneParts == \A q \in Requests, f \in Flights : Parted(q, f)' => Parted(q, f)

LEMMA QuietPartsNone ==
  ASSUME UNCHANGED <<flights, requests>>
  PROVE  NoneParts
BY DEF NoneParts, Parted, Originals, Linked, Exists

\* Rows that keep their pilot, or come out of reach, part with no request that
\* keeps its own.
LEMMA KeptPartsNone ==
  ASSUME IInv, RowsStep,
         \A f \in Flights :
           Exists(f) => \/ flights'[f].terms.pilot = flights[f].terms.pilot
                        \/ flights'[f].status \notin Predeparture,
         \A q \in Requests :
           Originals(q) = {} \/ requests'[q].pilot = requests[q].pilot
  PROVE  NoneParts
<1> SUFFICES ASSUME NEW q \in Requests, NEW f \in Flights, Parted(q, f)'
             PROVE  Parted(q, f)
  BY DEF NoneParts
<1>1. /\ f \in Originals(q)' /\ flights'[f].status \in Predeparture
      /\ flights'[f].terms.pilot # requests'[q].pilot
  BY DEF Parted
<1>2. f \in Originals(q) /\ Exists(f)
  BY <1>1, LinksStay DEF Originals, Linked
<1>3. flights[f].status \in Predeparture
  BY <1>1, <1>2, ExistingStay
<1>4. /\ flights'[f].terms.pilot = flights[f].terms.pilot
      /\ requests'[q].pilot = requests[q].pilot
  BY <1>1, <1>2
<1> QED
  BY <1>1, <1>2, <1>3, <1>4 DEF Parted

\* A statement on one request leaves its pilot.
LEMMA RequestPartsNone ==
  ASSUME IInv, UNCHANGED flights, NEW q \in Requests, NEW row,
         requests' = [requests EXCEPT ![q] = row],
         Originals(q) = {} \/ row.pilot = requests[q].pilot
  PROVE  NoneParts
<1>1. RowsStep
  BY DEF RowsStep
<1>2. \A p \in Requests :
        Originals(p) = {} \/ requests'[p].pilot = requests[p].pilot
  BY DEF IInv, Typed
<1> QED
  BY <1>1, <1>2, KeptPartsNone

LEMMA CommitRequestPartsNone ==
  ASSUME IInv, Reviewed, NEW k \in Desks, NEW q \in Requests, CommitRequest(k, q)
  PROVE  NoneParts
<1>1. PICK row : requests' = [requests EXCEPT ![q] = row]
  BY DEF CommitRequest
<1>2. UNCHANGED flights /\ requests[q].status \in Early
  BY NoRequestIsNone DEF CommitRequest, Early
<1>3. Originals(q) = {}
  BY <1>2, EarlyUnmade
<1> QED
  BY <1>1, <1>2, <1>3, RequestPartsNone

LEMMA CommitEditPartsNone ==
  ASSUME IInv, NEW k \in Desks, CommitEdit(k)
  PROVE  NoneParts
<1> DEFINE q == desks[k].request
<1>1. q \in Requests /\ requests[q] \in RequestRow
  BY ReviewFacts DEF CommitEdit
<1>2. desks[k].wish \in Nat
  <2>1. desks[k].wish \in 1 .. MaxDesired
    BY DeskFacts DEF CommitEdit, Committed, DeskOK
  <2> QED
    BY <2>1
<1>3. PICK row : row = Edited(requests[q], desks[k].wish)
  OBVIOUS
<1>4. row.pilot = requests[q].pilot
  BY <1>1, <1>2, <1>3, EditedRow
<1>5. requests' = [requests EXCEPT ![q] = row] /\ UNCHANGED flights
  BY <1>1, <1>3 DEF CommitEdit, IInv, Typed, Edited
<1> QED
  BY <1>1, <1>4, <1>5, RequestPartsNone

LEMMA CommitTransitionPartsNone ==
  ASSUME IInv, NEW k \in Desks, CommitTransition(k)
  PROVE  NoneParts
<1> DEFINE q == desks[k].request
<1>1. q \in Requests /\ requests[q] \in RequestRow
  BY ReviewFacts DEF CommitTransition
<1>2. desks[k].wish \in RequestStatus
  BY DeskFacts DEF CommitTransition, Committed, DeskOK, RequestStatus, OpenRequest
<1>3. PICK row : row = Moved(requests[q], desks[k].wish)
  OBVIOUS
<1>4. row.pilot = requests[q].pilot
  BY <1>1, <1>2, <1>3, MovedRow
<1>5. requests' = [requests EXCEPT ![q] = row] /\ UNCHANGED flights
  BY <1>1, <1>3 DEF CommitTransition, IInv, Typed, Moved
<1> QED
  BY <1>1, <1>4, <1>5, RequestPartsNone

LEMMA CommitCancelPartsNone ==
  ASSUME IInv, NEW k \in Desks, CommitCancel(k)
  PROVE  NoneParts
<1> DEFINE q == desks[k].request
<1>1. /\ q \in Requests /\ requests[q] \in RequestRow
      /\ requests' = [requests EXCEPT ![q] = Moved(requests[q], "cancelled")]
      /\ RowsStep
      /\ \A f \in Flights : flights'[f].terms = flights[f].terms
  BY CancelledRows
<1>2. "cancelled" \in RequestStatus
  BY DEF RequestStatus
<1>3. Moved(requests[q], "cancelled").pilot = requests[q].pilot
  BY <1>1, <1>2, MovedRow
<1>4. \A p \in Requests : requests'[p].pilot = requests[p].pilot
  BY <1>1, <1>3 DEF IInv, Typed
<1> QED
  BY <1>1, <1>4, KeptPartsNone

\* The rows an insertion leaves alone are parted as before.
LEMMA InsertPartsNone ==
  ASSUME IInv, NEW new, Inserts(new),
         \A f \in new, q \in Requests :
           flights'[f].replaces = Null /\ flights'[f].request = q =>
             flights'[f].terms.pilot = requests'[q].pilot,
         \A q \in Requests : requests'[q].pilot = requests[q].pilot
  PROVE  NoneParts
<1> SUFFICES ASSUME NEW q \in Requests, NEW f \in Flights, Parted(q, f)'
             PROVE  Parted(q, f)
  BY DEF NoneParts
<1>1. /\ f \in Originals(q)' /\ flights'[f].status \in Predeparture
      /\ flights'[f].terms.pilot # requests'[q].pilot
  BY DEF Parted
<1>2. /\ flights'[f].request = q /\ flights'[f].replaces = Null /\ Exists(f)'
  BY <1>1 DEF Originals, Linked
<1>3. f \notin new
  BY <1>1, <1>2
<1>4. flights'[f] = flights[f]
  BY <1>3 DEF Inserts
<1>5. f \in Originals(q)
  BY <1>2, <1>4 DEF Originals, Linked, Exists
<1> QED
  BY <1>1, <1>4, <1>5 DEF Parted

LEMMA CommitFulfilPartsNone ==
  ASSUME IInv, NEW k \in Desks, NEW n \in Nat, NEW ids \in [1 .. n -> Flights],
         CommitFulfil(k, ids)
  PROVE  NoneParts
<1> DEFINE q == desks[k].call.request
           new == IdsOf([flights |-> ids])
<1>1. q \in Requests /\ requests[q] \in RequestRow
  BY FulfilFacts
<1>2. /\ Inserts(new)
      /\ \A f \in new : /\ flights'[f].request = q
                        /\ flights'[f].terms.pilot = requests[q].pilot
  BY FulfilInserts
<1>3. PICK to : requests' = [requests EXCEPT ![q].status = to, ![q].version = @ + 1]
  BY DEF CommitFulfil
<1>4. \A p \in Requests : requests'[p].pilot = requests[p].pilot
  BY <1>1, <1>3 DEF IInv, Typed, RequestRow
<1> HIDE DEF new
<1> QED
  BY <1>1, <1>2, <1>4, InsertPartsNone

LEMMA DeskPartsNone ==
  ASSUME IInv, Reviewed, NEW k \in Desks, DeskNext(k)
  PROVE  NoneParts
<1>1. ASSUME NEW n \in 1 .. Cardinality(Flights), NEW ids \in [1 .. n -> Flights],
             CommitFulfil(k, ids)
      PROVE  NoneParts
  <2>1. n \in Nat
    BY FlightsAssumption, FS_CardinalityType
  <2> QED
    BY <1>1, <2>1, CommitFulfilPartsNone
<1>2. ASSUME NEW m \in Members, BeginDesk(k, m)
      PROVE  NoneParts
  <2>1. UNCHANGED vars
    BY <1>2 DEF BeginDesk, BeginRequest, BeginEdit, BeginTransition,
                BeginCancelRequest, LoadRequest, BeginFulfil
  <2> QED
    BY <2>1, QuietPartsNone DEF vars, tables
<1>3. ASSUME NEW q \in Requests, CommitRequest(k, q)
      PROVE  NoneParts
  BY <1>3, CommitRequestPartsNone
<1>4. CASE \/ LoadForFulfilment(k) \/ CheckBatch(k)
           \/ MissFulfil(k) \/ RecheckAttempt(k) \/ Drop(k)
  <2>1. UNCHANGED vars
    BY <1>4 DEF LoadForFulfilment, CheckBatch, MissFulfil, RecheckAttempt, Drop
  <2> QED
    BY <2>1, QuietPartsNone DEF vars, tables
<1> QED
  BY <1>1, <1>2, <1>3, <1>4, CommitEditPartsNone, CommitTransitionPartsNone,
     CommitCancelPartsNone DEF DeskNext

LEMMA OneRowPartsNone ==
  ASSUME IInv, NEW s \in Sessions, NEW row \in Row, OneRowStep(s, row)
  PROVE  NoneParts
<1> DEFINE f == handlers[s].flight
<1>1. /\ flights' = [flights EXCEPT ![f] = Bump(row)]
      /\ f \in Flights /\ Exists(f)
      /\ RowStep(flights[f], Bump(row)) /\ Bump(row).terms = flights[f].terms
      /\ UNCHANGED requests
  BY DEF OneRowStep, UpdateFlight
<1>2. \A g \in Flights : flights'[g] = IF g = f THEN Bump(row) ELSE flights[g]
  BY <1>1 DEF IInv, Typed
<1>3. RowsStep
  BY <1>1, <1>2 DEF RowsStep
<1>4. \A g \in Flights : flights'[g].terms.pilot = flights[g].terms.pilot
  BY <1>1, <1>2
<1> QED
  BY <1>1, <1>3, <1>4, KeptPartsNone

\* A replacement is no flight of a batch.
LEMMA CommitReofferPartsNone ==
  ASSUME IInv, NEW s \in Sessions, NEW f \in Flights, CommitReoffer(s, f)
  PROVE  NoneParts
<1>1. Running(s) /\ UNCHANGED requests
  BY DEF CommitReoffer, Committing, At
<1>2. handlers[s].flight # Null
  BY <1>1, RunningFacts
<1>3. Inserts({f}) /\ flights'[f].replaces # Null
  BY <1>2, ReofferInserts
<1> QED
  BY <1>1, <1>3, InsertPartsNone

LEMMA LinkedFlightPartsNone ==
  ASSUME IInv, NEW s \in Sessions, LinkedFlightNext(s)
  PROVE  NoneParts
<1>1. CASE CommitStatus(s)
  BY <1>1, StatusRow, OneRowPartsNone
<1>2. CASE CommitAgreement(s)
  BY <1>2, AgreementRow, OneRowPartsNone
<1>3. ASSUME NEW f \in Flights, CommitReoffer(s, f)
      PROVE  NoneParts
  BY <1>3, CommitReofferPartsNone
<1>4. CASE \/ \E m \in Members, f \in Flights :
                \/ \E op \in {"accept", "decline"} : BeginAnswer(s, m, f, op)
                \/ BeginCancel(s, m, f)
                \/ \E pilot \in Members : BeginReoffer(s, m, f, pilot)
           \/ ResolveRequest(s) \/ CheckPilot(s) \/ Abort(s)
  <2>1. UNCHANGED <<flights, requests>>
    BY <1>4 DEF BeginAnswer, BeginCancel, BeginReoffer, Load, Enter,
                ResolveRequest, CheckPilot, Abort, Advance
  <2> QED
    BY <2>1, QuietPartsNone
<1> QED
  BY <1>1, <1>2, <1>3, <1>4 DEF LinkedFlightNext

\* A handover takes a request with the flights of it that it takes, unless one
\* of them was written after its snapshot.
LEMMA HandoverTakesBoth ==
  ASSUME IInv, ChangeOK, CommitChange, NEW q \in Requests, NEW f \in Flights,
         ~Parted(q, f), Parted(q, f)',
         RequiresWorkTransfer(change.member, change.patch)
  PROVE  Overtaken(q, f)
<1> SUFFICES ASSUME ~Overtaken(q, f)
             PROVE  FALSE
  OBVIOUS
<1> DEFINE m == change.member
           r == change.to
<1>1. /\ q \in DOMAIN change.requests /\ Unwritten(requests, q, change.requests)
      /\ f \in DOMAIN change.flights /\ Unwritten(flights, f, change.flights)
  BY DEF Overtaken
<1>2. /\ flights'[f] = IF f \in FlightsToHandOver THEN Handover(flights[f], r)
                                                  ELSE flights[f]
      /\ requests'[q] = IF q \in RequestsToHandOver THEN HandedOver(requests[q], r)
                                                    ELSE requests[q]
  BY DEF CommitChange
<1>3. RowsStep
  BY HandoverFacts DEF CommitChange, RowsStep
<1>4. /\ f \in Originals(q)' /\ flights'[f].status \in Predeparture
      /\ flights'[f].terms.pilot # requests'[q].pilot
  BY DEF Parted
<1>5. /\ f \in Originals(q) /\ Exists(f) /\ flights[f].request = q
  BY <1>3, <1>4, LinksStay DEF Originals, Linked
<1>6. flights[f].status \in Predeparture
  BY <1>3, <1>4, <1>5, ExistingStay
<1>7. flights[f].terms.pilot = requests[q].pilot
  BY <1>5, <1>6 DEF Parted
<1>8. CASE requests[q].pilot = m
  <2>1. f \in LockedFlights
    BY <1>1, <1>5, <1>6, <1>7, <1>8 DEF LockedFlights, HeldFlights
  <2>2. q # Null
    BY NullAssumption
  <2>3. requests[q].status \in OpenRequest /\ r # Null
    BY <1>5, <2>1, <2>2 DEF CommitChange
  <2>4. f \in FlightsToHandOver /\ q \in RequestsToHandOver
    BY <1>1, <1>8, <2>1, <2>3 DEF FlightsToHandOver, RequestsToHandOver,
       LockedRequests, OwnedRequests
  <2>5. r \in Members
    BY <2>3, ChangeTyped DEF CommitChange
  <2>6. flights'[f].terms.pilot = r
    BY <1>2, <1>5, <1>6, <2>4, <2>5, ExistingRow, HandoverRow
  <2>7. requests'[q].pilot = r
    BY <1>2, <2>4, HandoverFacts
  <2> QED
    BY <1>4, <2>6, <2>7
<1>9. CASE requests[q].pilot # m
  <2>1. f \notin FlightsToHandOver /\ q \notin RequestsToHandOver
    BY <1>7, <1>9 DEF FlightsToHandOver, RequestsToHandOver, LockedFlights,
       LockedRequests, HeldFlights, OwnedRequests
  <2> QED
    BY <1>2, <1>4, <1>7, <2>1
<1> QED
  BY <1>8, <1>9

\* No desk and no flight handler parts a flight of a batch from its request, and
\* a handover only where one of the two was written, or made, while it waited for
\* its locks: bulk fulfilment that overtakes administrativelyUpdateMembership is
\* the one way to leave them with different pilots.
THEOREM PartedOnlyInTheGap == ScheduleSpec => PartOnlyWhenOvertaken
<1> DEFINE Step == \A q \in Requests, f \in Flights :
                     ~Parted(q, f) /\ Parted(q, f)'
                     => /\ change # Idle /\ change' = Idle
                        /\ RequiresWorkTransfer(change.member, change.patch)
                             => Overtaken(q, f)
<1>1. ASSUME IInv, ChangeOK, Reviewed, ScheduleNext
      PROVE  Step
  <2>1. NoneParts => Step
    BY DEF NoneParts
  <2>2. CASE \E k \in Desks : DeskNext(k) /\ UNCHANGED change
    BY <1>1, <2>1, <2>2, DeskPartsNone
  <2>3. CASE \E s \in Sessions :
               LinkedFlightNext(s) /\ UNCHANGED <<change, attempts, desks>>
    BY <1>1, <2>1, <2>3, LinkedFlightPartsNone
  <2>4. CASE CommitChange
    BY <1>1, <2>4, HandoverTakesBoth DEF CommitChange
  <2>5. CASE UNCHANGED tables
    BY <2>1, <2>5, QuietPartsNone DEF tables
  <2> QED
    BY <1>1, <2>2, <2>3, <2>4, <2>5 DEF ScheduleNext, MemberNext, BeginChange,
       AbortChange
<1>2. IInv /\ ChangeOK /\ Reviewed /\ [ScheduleNext]_scheduleVars => [Step]_scheduleVars
  BY <1>1
<1>3. IInv /\ ChangeOK /\ Reviewed /\ [ScheduleNext]_scheduleVars => Reviewed'
  BY StepSpent DEF Spent
<1> QED
  BY <1>2, <1>3, InitBudget, Invariance, PTL DEF ScheduleSpec, PartOnlyWhenOvertaken

=============================================================================
