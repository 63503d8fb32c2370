----------------------- MODULE FlightLifecycleProofs -----------------------
(***************************************************************************)
(* What is proved of FlightLifecycle for every number of flights, members, *)
(* requests and concurrent handlers.                                       *)
(*                                                                         *)
(* None of the properties is inductive alone: a commit is safe because the *)
(* row it writes is the row its handler checked (SnapshotFresh), the       *)
(* handler holds what its Begin action checked of that row (HandlerOK),    *)
(* and the row was in order (RowOK).  IInv is their conjunction.           *)
(*                                                                         *)
(* That FlightLifecycle implements FlightContract, that statuses move      *)
(* along transitions.ts and that a flight is replaced once follow from one *)
(* description of what a step may do to one flight, FlightStep, which is   *)
(* shown of every action from IInv.                                        *)
(***************************************************************************)
EXTENDS FlightLifecycle, TLAPS

Signed == Operational \cup {"completed"}
Scheduled == {"briefed", "active", "completed"}

\* The row of a flight against what its pilot last accepted (a) and what was
\* last released for it (r).
RowOK(row, a, r) ==
  /\ row = NoRow => a = Null /\ r = Null
  /\ row # NoRow =>
       /\ row.status \in Signed => a = row.terms /\ row.terms.pilot # Null
       /\ row.status \in Operational => row.conf = row.rev
       /\ row.status \in Scheduled => r = row.terms

RowsOK == \A f \in Flights : RowOK(flights[f], agreed[f], released[f])

Creating == {"createDraft", "createOffered"}

\* The statuses of the loaded row each operation goes on with.
LoadedStatus(op) ==
  CASE op = "offer" -> {"draft"}
    [] op \in {"accept", "decline"} -> {"offered"}
    [] op = "cancel" -> Predeparture \cup {"active"}
    [] op = "patch" -> Predeparture \cup {"active"}
    [] op = "publish" -> {"accepted", "briefed"}
    [] op = "start" -> {"briefed"}
    [] op \in {"finish", "on", "in"} -> {"active"}
    [] op \in {"flt_init", "out", "off"} -> {"briefed", "active"}
    [] op = "reoffer" -> {"declined"}
    [] OTHER -> {}

HandlerOK(h) ==
  /\ h.op \in Creating => h.flight = Null
  /\ h.op \notin Creating =>
       /\ h.flight \in Flights
       /\ h.seen \in Row
       /\ h.seen.status \in LoadedStatus(h.op)
  /\ h.op = "accept" => h.seen.terms.pilot # Null
  /\ h.op = "patch" =>
       /\ h.seen.status \in Operational => h.wish.pilot # Null
       /\ h.seen.status = "active" => h.wish = h.seen.terms
  /\ h.pc = "request" => h.op \notin Creating /\ h.seen.request # Null

HandlersOK == \A s \in Sessions : Running(s) => HandlerOK(handlers[s])

IInv == TablesOK /\ RowsOK /\ HandlersOK /\ SnapshotFresh

-----------------------------------------------------------------------------
(* Facts about rows and handlers.                                          *)

LEMMA NoRowNotRow == NoRow \notin Row
BY DEF NoRow, Row, FlightStatus, Predeparture, Terminal

LEMMA IdleNotPending == Idle \notin Pending
BY DEF Idle, Pending, Checks

LEMMA BumpRow ==
  ASSUME NEW row \in Row
  PROVE  /\ Bump(row) \in Row
         /\ Bump(row).version > row.version
         /\ Bump(row).status = row.status
         /\ Bump(row).terms = row.terms
         /\ Bump(row).rev = row.rev
         /\ Bump(row).conf = row.conf
BY DEF Bump, Row

\* What a running handler of an existing flight knows.
LEMMA RunningFacts ==
  ASSUME IInv, NEW s \in Sessions, Running(s), handlers[s].op \notin Creating
  PROVE  /\ handlers[s] \in Pending
         /\ handlers[s].flight \in Flights
         /\ handlers[s].seen \in Row
         /\ handlers[s].seen.status \in LoadedStatus(handlers[s].op)
         /\ flights[handlers[s].flight] \in Row
<1>1. handlers[s] \in Pending
  BY DEF IInv, TablesOK, Running
<1>2. HandlerOK(handlers[s])
  BY DEF IInv, HandlersOK
<1>3. handlers[s].flight \in Flights /\ handlers[s].seen \in Row
      /\ handlers[s].seen.status \in LoadedStatus(handlers[s].op)
  BY <1>2 DEF HandlerOK
<1>4. handlers[s].flight # Null
  BY <1>3, NullAssumption
<1>5. flights[handlers[s].flight] # NoRow
  BY <1>4 DEF IInv, SnapshotFresh
<1> QED
  BY <1>1, <1>3, <1>5 DEF IInv, TablesOK

\* A handler that passes the version comparison writes the row it loaded.
LEMMA CommitsWhatItLoaded ==
  ASSUME IInv, NEW s \in Sessions, Running(s), handlers[s].op \notin Creating,
         AtVersion(handlers[s].flight, handlers[s].seen)
  PROVE  flights[handlers[s].flight] = handlers[s].seen
<1>1. handlers[s].flight # Null
  BY RunningFacts, NullAssumption
<1> QED
  BY <1>1 DEF IInv, SnapshotFresh, AtVersion

-----------------------------------------------------------------------------
(* What every step must respect for the invariant to survive.              *)

\* No row changes without its version growing, and a running handler keeps
\* what it loaded: then no snapshot goes stale unnoticed.
LEMMA FreshKept ==
  ASSUME IInv,
         \A f \in Flights : Exists(f) =>
           \/ flights'[f] = flights[f]
           \/ flights'[f] \in Row /\ flights'[f].version > flights[f].version,
         \A s \in Sessions :
           \/ handlers'[s] = Idle
           \/ /\ Running(s)
              /\ handlers'[s].flight = handlers[s].flight
              /\ handlers'[s].seen = handlers[s].seen
  PROVE  SnapshotFresh'
<1> SUFFICES ASSUME NEW s \in Sessions, Running(s)', handlers'[s].flight # Null
             PROVE  LET row == flights'[handlers'[s].flight]
                        seen == handlers'[s].seen IN
                      /\ row # NoRow /\ seen # NoRow
                      /\ seen.version <= row.version
                      /\ seen.version = row.version => seen = row
  BY DEF SnapshotFresh
<1> DEFINE f == handlers[s].flight
           seen == handlers[s].seen
<1>1. /\ Running(s)
      /\ handlers'[s].flight = f
      /\ handlers'[s].seen = seen
  BY DEF Running
<1>2. /\ handlers[s] \in Pending
      /\ f \in Flights
  BY <1>1 DEF IInv, TablesOK, Running, Pending
<1>3. /\ flights[f] # NoRow /\ seen # NoRow
      /\ seen.version <= flights[f].version
      /\ seen.version = flights[f].version => seen = flights[f]
  BY <1>1 DEF IInv, SnapshotFresh
<1>4. flights[f] \in Row /\ seen \in Row
  BY <1>2, <1>3 DEF IInv, TablesOK, Pending
<1>5. flights[f].version \in Nat /\ seen.version \in Nat
  BY <1>4 DEF Row
<1>6. CASE flights'[f] = flights[f]
  BY <1>1, <1>3, <1>6
<1>7. CASE flights'[f] \in Row /\ flights'[f].version > flights[f].version
  <2>1. flights'[f].version \in Nat
    BY <1>7 DEF Row
  <2>2. seen.version < flights'[f].version
    BY <2>1, <1>3, <1>5, <1>7
  <2>3. flights'[f] # NoRow
    BY <1>7, NoRowNotRow
  <2> QED
    BY <1>1, <1>3, <1>5, <2>1, <2>2, <2>3
<1> QED
  BY <1>2, <1>3, <1>6, <1>7 DEF Exists

LEMMA HandlersKept ==
  ASSUME IInv,
         \A s \in Sessions : handlers'[s] \in {Idle, handlers[s]}
  PROVE  HandlersOK'
<1> SUFFICES ASSUME NEW s \in Sessions, Running(s)'
             PROVE  HandlerOK(handlers'[s])
  BY DEF HandlersOK, HandlerOK
<1>1. handlers'[s] = handlers[s] /\ Running(s)
  BY DEF Running
<1> QED
  BY <1>1 DEF IInv, HandlersOK

\* The step of every versioned update of one flight.
LEMMA UpdateKept ==
  ASSUME IInv, NEW s \in Sessions, Running(s), handlers[s].op \notin Creating,
         NEW row \in Row,
         row.version = flights[handlers[s].flight].version,
         UpdateFlight(s, row),
         agreed' \in [Flights -> Terms \cup {Null}],
         released' \in [Flights -> Terms \cup {Null}],
         UNCHANGED <<members, requests>>,
         RowOK(row, agreed'[handlers[s].flight], released'[handlers[s].flight]),
         \A g \in Flights \ {handlers[s].flight} :
           agreed'[g] = agreed[g] /\ released'[g] = released[g]
  PROVE  IInv'
<1> DEFINE f == handlers[s].flight
<1>1. f \in Flights
  BY RunningFacts
<1>2. /\ flights' = [flights EXCEPT ![f] = Bump(row)]
      /\ handlers' = [handlers EXCEPT ![s] = Idle]
  BY DEF UpdateFlight
<1>3. /\ Bump(row) \in Row
      /\ Bump(row).version > row.version
  BY BumpRow
<1>4. TablesOK'
  BY <1>1, <1>2, <1>3 DEF IInv, TablesOK
<1>5. RowsOK'
  <2> SUFFICES ASSUME NEW g \in Flights
               PROVE  RowOK(flights'[g], agreed'[g], released'[g])
    BY DEF RowsOK, RowOK
  <2>1. CASE g = f
    <3>1. flights'[g] = Bump(row)
      BY <1>1, <1>2, <2>1 DEF IInv, TablesOK
    <3>2. row # NoRow
      BY NoRowNotRow
    <3>3. /\ Bump(row).status = row.status
          /\ Bump(row).terms = row.terms
          /\ Bump(row).rev = row.rev
          /\ Bump(row).conf = row.conf
      BY BumpRow
    <3> QED
      BY <1>3, <2>1, <3>1, <3>2, <3>3, NoRowNotRow DEF RowOK
  <2>2. CASE g # f
    <3>1. flights'[g] = flights[g]
      BY <1>1, <1>2, <2>2 DEF IInv, TablesOK
    <3>2. RowOK(flights[g], agreed[g], released[g])
      BY DEF IInv, RowsOK
    <3> QED
      BY <2>2, <3>1, <3>2
  <2> QED
    BY <2>1, <2>2
<1>6. HandlersOK'
  BY <1>2, HandlersKept DEF IInv, TablesOK
<1>7. SnapshotFresh'
  <2>1. \A g \in Flights : Exists(g) =>
          \/ flights'[g] = flights[g]
          \/ flights'[g] \in Row /\ flights'[g].version > flights[g].version
    BY <1>1, <1>2, <1>3 DEF IInv, TablesOK
  <2>2. \A t \in Sessions :
          \/ handlers'[t] = Idle
          \/ /\ Running(t)
             /\ handlers'[t].flight = handlers[t].flight
             /\ handlers'[t].seen = handlers[t].seen
    BY <1>2 DEF IInv, TablesOK, Running
  <2> QED
    BY <2>1, <2>2, FreshKept
<1> QED
  BY <1>4, <1>5, <1>6, <1>7 DEF IInv


-----------------------------------------------------------------------------
(* One lemma per committing statement.                                     *)

\* What a commit may rely on: the current row is the one the handler checked.
LEMMA CommitFacts ==
  ASSUME IInv, NEW s \in Sessions, NEW ops, Committing(s, ops),
         ops \cap Creating = {},
         AtVersion(handlers[s].flight, handlers[s].seen)
  PROVE  /\ Running(s)
         /\ handlers[s].op \in ops
         /\ handlers[s].op \notin Creating
         /\ handlers[s] \in Pending
         /\ handlers[s].flight \in Flights
         /\ handlers[s].seen \in Row
         /\ handlers[s].seen.status \in LoadedStatus(handlers[s].op)
         /\ flights[handlers[s].flight] = handlers[s].seen
         /\ HandlerOK(handlers[s])
         /\ RowOK(handlers[s].seen, agreed[handlers[s].flight],
                  released[handlers[s].flight])
<1>1. Running(s) /\ handlers[s].op \in ops /\ handlers[s].op \notin Creating
  BY DEF Committing, At
<1>2. /\ handlers[s] \in Pending
      /\ handlers[s].flight \in Flights
      /\ handlers[s].seen \in Row
      /\ handlers[s].seen.status \in LoadedStatus(handlers[s].op)
  BY <1>1, RunningFacts
<1>3. flights[handlers[s].flight] = handlers[s].seen
  BY <1>1, CommitsWhatItLoaded
<1>4. HandlerOK(handlers[s])
  BY <1>1 DEF IInv, HandlersOK
<1>5. RowOK(flights[handlers[s].flight], agreed[handlers[s].flight],
            released[handlers[s].flight])
  BY <1>2 DEF IInv, RowsOK
<1> QED
  BY <1>1, <1>2, <1>3, <1>4, <1>5

LEMMA CommitStatusKept ==
  ASSUME IInv, NEW s \in Sessions, CommitStatus(s)
  PROVE  IInv'
<1> DEFINE h == handlers[s]
           ops == {"offer", "decline", "cancel", "finish"}
           row == [flights[h.flight] EXCEPT !.status = StatusWritten[h.op]]
<1>1. /\ UpdateFlight(s, row)
      /\ Committing(s, ops)
      /\ UNCHANGED <<released, members, requests, agreed>>
  BY DEF CommitStatus
<1>2. ops \cap Creating = {}
  BY DEF Creating
<1>3. /\ Running(s) /\ h.op \in ops /\ h.op \notin Creating
      /\ h.flight \in Flights
      /\ flights[h.flight] \in Row
      /\ flights[h.flight].status \in LoadedStatus(h.op)
      /\ RowOK(flights[h.flight], agreed[h.flight], released[h.flight])
  <2>1. AtVersion(h.flight, h.seen)
    BY <1>1 DEF UpdateFlight
  <2> QED
    BY <1>1, <1>2, <2>1, CommitFacts
<1>4. StatusWritten[h.op] \in FlightStatus
  BY <1>3 DEF StatusWritten, FlightStatus, Predeparture, Terminal
<1>5. /\ row \in Row
      /\ row.version = flights[h.flight].version
      /\ row.status = StatusWritten[h.op]
      /\ row.terms = flights[h.flight].terms
  BY <1>3, <1>4 DEF Row
<1>6. RowOK(row, agreed[h.flight], released[h.flight])
  <2>1. CASE h.op = "finish"
    <3>1. flights[h.flight].status = "active" /\ row.status = "completed"
      BY <1>3, <1>5, <2>1 DEF LoadedStatus, StatusWritten
    <3>2. flights[h.flight] # NoRow
      BY <1>3, NoRowNotRow
    <3> QED
      BY <1>3, <1>5, <3>1, <3>2, NoRowNotRow DEF RowOK, Signed, Scheduled, Operational
  <2>2. CASE h.op # "finish"
    <3>1. row.status \in {"offered", "declined", "cancelled"}
      BY <1>3, <1>5, <2>2 DEF StatusWritten
    <3> QED
      BY <1>5, <3>1, NoRowNotRow DEF RowOK, Signed, Scheduled, Operational
  <2> QED
    BY <2>1, <2>2
<1>7. /\ agreed' \in [Flights -> Terms \cup {Null}]
      /\ released' \in [Flights -> Terms \cup {Null}]
  BY <1>1 DEF IInv, TablesOK
<1> QED
  BY <1>1, <1>3, <1>5, <1>6, <1>7, UpdateKept

LEMMA CommitAgreementKept ==
  ASSUME IInv, NEW s \in Sessions, CommitAgreement(s)
  PROVE  IInv'
<1> DEFINE h == handlers[s]
           row == [flights[h.flight] EXCEPT
                     !.status = IF h.op = "accept" THEN "accepted" ELSE @,
                     !.conf = h.seen.rev]
<1>1. /\ UpdateFlight(s, row)
      /\ Committing(s, {"accept", "confirm"})
      /\ agreed' = [agreed EXCEPT ![h.flight] = h.seen.terms]
      /\ UNCHANGED <<released, members, requests>>
  BY DEF CommitAgreement
<1>2. {"accept", "confirm"} \cap Creating = {}
  BY DEF Creating
<1>3. /\ Running(s) /\ h.op \notin Creating
      /\ h.op \in {"accept", "confirm"}
      /\ h.flight \in Flights
      /\ h.seen \in Row
      /\ flights[h.flight] = h.seen
      /\ h.seen.status \in LoadedStatus(h.op)
      /\ HandlerOK(h)
  <2>1. AtVersion(h.flight, h.seen)
    BY <1>1 DEF UpdateFlight
  <2> QED
    BY <1>1, <1>2, <2>1, CommitFacts
<1>4. h.op = "accept"
  BY <1>3 DEF LoadedStatus
<1>5. /\ row \in Row
      /\ row.version = h.seen.version
      /\ row.status = "accepted"
      /\ row.terms = h.seen.terms
      /\ row.conf = h.seen.rev /\ row.rev = h.seen.rev
      /\ h.seen.terms \in Terms
  BY <1>3, <1>4 DEF Row, FlightStatus, Predeparture
<1>6. agreed'[h.flight] = h.seen.terms
  BY <1>1, <1>3 DEF IInv, TablesOK
<1>7. h.seen.terms.pilot # Null
  BY <1>3, <1>4 DEF HandlerOK
<1>8. RowOK(row, agreed'[h.flight], released'[h.flight])
  BY <1>5, <1>6, <1>7, NoRowNotRow DEF RowOK, Scheduled
<1>9. /\ agreed' \in [Flights -> Terms \cup {Null}]
      /\ released' \in [Flights -> Terms \cup {Null}]
      /\ \A g \in Flights \ {h.flight} :
           agreed'[g] = agreed[g] /\ released'[g] = released[g]
  BY <1>1, <1>3, <1>5 DEF IInv, TablesOK
<1>10. UNCHANGED <<members, requests>>
  BY <1>1
<1>11. row.version = flights[h.flight].version
  BY <1>3, <1>5
<1> HIDE DEF row
<1> QED
  BY <1>1, <1>3, <1>5, <1>8, <1>9, <1>10, <1>11, UpdateKept

LEMMA CommitPatchKept ==
  ASSUME IInv, NEW s \in Sessions, CommitPatch(s)
  PROVE  IInv'
<1> DEFINE h == handlers[s]
           row == [flights[h.flight] EXCEPT
                     !.status = PatchedStatus(h.seen, h.wish),
                     !.terms = h.wish,
                     !.rev = PatchedRevision(h.seen, h.wish)]
<1>1. /\ UpdateFlight(s, row)
      /\ Committing(s, {"patch"})
      /\ UNCHANGED <<released, members, requests, agreed>>
  BY DEF CommitPatch
<1>2. /\ Running(s) /\ h.op = "patch" /\ h.op \notin Creating
      /\ h \in Pending
      /\ h.flight \in Flights
      /\ h.seen \in Row
      /\ flights[h.flight] = h.seen
      /\ h.seen.status \in LoadedStatus("patch")
      /\ HandlerOK(h)
      /\ RowOK(h.seen, agreed[h.flight], released[h.flight])
  <2>1. AtVersion(h.flight, h.seen)
    BY <1>1 DEF UpdateFlight
  <2>2. {"patch"} \cap Creating = {}
    BY DEF Creating
  <2> QED
    BY <1>1, <2>1, <2>2, CommitFacts
<1>3. /\ PatchedStatus(h.seen, h.wish) \in FlightStatus
      /\ PatchedRevision(h.seen, h.wish) \in Nat
      /\ h.wish \in Terms
      /\ h.seen.status \in FlightStatus
      /\ h.seen.version \in Nat
  BY <1>2 DEF PatchedStatus, PatchedRevision, Row, Pending, FlightStatus,
              Predeparture
<1>4. /\ row \in Row
      /\ row.version = h.seen.version
      /\ row.status = PatchedStatus(h.seen, h.wish)
      /\ row.terms = h.wish
      /\ row.rev = PatchedRevision(h.seen, h.wish)
      /\ row.conf = h.seen.conf
  BY <1>2, <1>3 DEF Row
<1>5. RowOK(row, agreed[h.flight], released[h.flight])
  <2>1. CASE h.wish = h.seen.terms
    <3>1. /\ row.status = h.seen.status
          /\ row.rev = h.seen.rev
      BY <1>4, <2>1 DEF PatchedStatus, PatchedRevision
    <3>2. h.seen # NoRow
      BY <1>2, NoRowNotRow
    <3> QED
      BY <1>2, <1>4, <2>1, <3>1, <3>2, NoRowNotRow DEF RowOK
  <2>2. CASE h.wish # h.seen.terms
    <3>1. h.seen.status \in Predeparture
      BY <1>2, <2>2 DEF HandlerOK, LoadedStatus
    <3>2. row.status \in {"draft", "offered"}
      BY <1>4, <2>2, <3>1 DEF PatchedStatus, Predeparture
    <3> QED
      BY <1>4, <3>2, NoRowNotRow DEF RowOK, Signed, Scheduled, Operational
  <2> QED
    BY <2>1, <2>2
<1>6. /\ agreed' \in [Flights -> Terms \cup {Null}]
      /\ released' \in [Flights -> Terms \cup {Null}]
  BY <1>1 DEF IInv, TablesOK
<1> QED
  BY <1>1, <1>2, <1>4, <1>5, <1>6, UpdateKept

LEMMA CommitPublishKept ==
  ASSUME IInv, NEW s \in Sessions, CommitPublish(s)
  PROVE  IInv'
<1> DEFINE h == handlers[s]
           row == [flights[h.flight] EXCEPT !.status = "briefed"]
<1>1. /\ UpdateFlight(s, row)
      /\ Committing(s, {"publish"})
      /\ released' = [released EXCEPT ![h.flight] = h.seen.terms]
      /\ UNCHANGED <<members, requests, agreed>>
  BY DEF CommitPublish
<1>2. /\ Running(s) /\ h.op = "publish" /\ h.op \notin Creating
      /\ h.flight \in Flights
      /\ h.seen \in Row
      /\ flights[h.flight] = h.seen
      /\ h.seen.status \in LoadedStatus("publish")
      /\ RowOK(h.seen, agreed[h.flight], released[h.flight])
  <2>1. AtVersion(h.flight, h.seen)
    BY <1>1 DEF UpdateFlight
  <2>2. {"publish"} \cap Creating = {}
    BY DEF Creating
  <2> QED
    BY <1>1, <2>1, <2>2, CommitFacts
<1>3. /\ row \in Row
      /\ row.version = h.seen.version
      /\ row.status = "briefed"
      /\ row.terms = h.seen.terms
      /\ row.rev = h.seen.rev /\ row.conf = h.seen.conf
      /\ h.seen.terms \in Terms
  BY <1>2 DEF Row, FlightStatus, Predeparture
<1>4. h.seen.status \in Operational /\ h.seen # NoRow
  BY <1>2, NoRowNotRow DEF LoadedStatus, Operational
<1>5. released'[h.flight] = h.seen.terms
  BY <1>1, <1>2 DEF IInv, TablesOK
<1>6. RowOK(row, agreed'[h.flight], released'[h.flight])
  BY <1>1, <1>2, <1>3, <1>4, <1>5, NoRowNotRow DEF RowOK, Signed
<1>7. /\ agreed' \in [Flights -> Terms \cup {Null}]
      /\ released' \in [Flights -> Terms \cup {Null}]
      /\ \A g \in Flights \ {h.flight} :
           agreed'[g] = agreed[g] /\ released'[g] = released[g]
  BY <1>1, <1>2, <1>3 DEF IInv, TablesOK
<1>8. row.version = flights[h.flight].version /\ UNCHANGED <<members, requests>>
  BY <1>1, <1>2, <1>3
<1> HIDE DEF row
<1> QED
  BY <1>1, <1>2, <1>3, <1>6, <1>7, <1>8, UpdateKept

\* A departure or a progress report keeps the terms of a scheduled flight.
LEMMA DepartureKept ==
  ASSUME IInv, NEW s \in Sessions, NEW ops, Committing(s, ops),
         ops \subseteq {"start"} \cup HoppieKinds,
         NEW status \in Scheduled, NEW conf,
         conf \in {handlers[s].seen.conf, handlers[s].seen.rev},
         UpdateFlight(s, [flights[handlers[s].flight] EXCEPT
                            !.status = status, !.conf = conf]),
         UNCHANGED <<released, members, requests, agreed>>
  PROVE  IInv'
<1> DEFINE h == handlers[s]
           row == [flights[h.flight] EXCEPT !.status = status, !.conf = conf]
<1>1. /\ Running(s) /\ h.op \in ops /\ h.op \notin Creating
      /\ h.flight \in Flights
      /\ h.seen \in Row
      /\ flights[h.flight] = h.seen
      /\ h.seen.status \in LoadedStatus(h.op)
      /\ RowOK(h.seen, agreed[h.flight], released[h.flight])
  <2>1. AtVersion(h.flight, h.seen)
    BY DEF UpdateFlight
  <2>2. ops \cap Creating = {}
    BY DEF Creating, HoppieKinds
  <2> QED
    BY <2>1, <2>2, CommitFacts
<1>2. h.seen.status \in {"briefed", "active"} /\ h.seen # NoRow
  BY <1>1, NoRowNotRow DEF LoadedStatus, HoppieKinds
<1>3. status \in FlightStatus /\ conf \in Nat
  BY <1>1 DEF Scheduled, FlightStatus, Predeparture, Terminal, Row
<1>4. /\ row \in Row
      /\ row.version = h.seen.version
      /\ row.status = status
      /\ row.conf = conf
      /\ row.terms = h.seen.terms
      /\ row.rev = h.seen.rev
  BY <1>1, <1>3 DEF Row
<1>5. conf = h.seen.rev
  BY <1>1, <1>2 DEF RowOK, Operational
<1>6. RowOK(row, agreed[h.flight], released[h.flight])
  BY <1>1, <1>2, <1>4, <1>5, NoRowNotRow DEF RowOK, Signed, Scheduled, Operational
<1>7. /\ agreed' \in [Flights -> Terms \cup {Null}]
      /\ released' \in [Flights -> Terms \cup {Null}]
  BY DEF IInv, TablesOK
<1> QED
  BY <1>1, <1>4, <1>6, <1>7, UpdateKept

LEMMA CommitStartKept ==
  ASSUME IInv, NEW s \in Sessions, CommitStart(s)
  PROVE  IInv'
<1> DEFINE h == handlers[s]
           conf == IF h.asDispatcher THEN flights[h.flight].conf ELSE h.seen.rev
<1>1. /\ UpdateFlight(s, [flights[h.flight] EXCEPT
                            !.status = "active", !.conf = conf])
      /\ Committing(s, {"start"})
      /\ UNCHANGED <<released, members, requests, agreed>>
  BY DEF CommitStart
<1>2. flights[h.flight] = h.seen
  <2>1. AtVersion(h.flight, h.seen)
    BY <1>1 DEF UpdateFlight
  <2>2. {"start"} \cap Creating = {}
    BY DEF Creating
  <2> QED
    BY <1>1, <2>1, <2>2, CommitFacts
<1>3. conf \in {h.seen.conf, h.seen.rev}
  BY <1>2
<1>4. "active" \in Scheduled
  BY DEF Scheduled
<1> HIDE DEF conf
<1> QED
  BY <1>1, <1>3, <1>4, DepartureKept

LEMMA CommitHoppieKept ==
  ASSUME IInv, NEW s \in Sessions, CommitHoppie(s)
  PROVE  IInv'
<1> DEFINE h == handlers[s]
           status == HoppieStatus(h.seen, h.op)
           conf == IF h.op \in {"on", "in"} THEN flights[h.flight].conf
                                            ELSE h.seen.rev
<1>1. /\ UpdateFlight(s, [flights[h.flight] EXCEPT
                            !.status = status, !.conf = conf])
      /\ Committing(s, HoppieKinds)
      /\ UNCHANGED <<released, members, requests, agreed>>
  BY DEF CommitHoppie
<1>2. /\ flights[h.flight] = h.seen
      /\ h.op \in HoppieKinds
      /\ h.seen.status \in LoadedStatus(h.op)
  <2>1. AtVersion(h.flight, h.seen)
    BY <1>1 DEF UpdateFlight
  <2>2. HoppieKinds \cap Creating = {}
    BY DEF Creating, HoppieKinds
  <2> QED
    BY <1>1, <2>1, <2>2, CommitFacts
<1>3. conf \in {h.seen.conf, h.seen.rev}
  BY <1>2
<1>4. status \in Scheduled
  BY <1>2 DEF Scheduled, HoppieStatus, HoppieKinds, LoadedStatus
<1> HIDE DEF conf, status
<1> QED
  BY <1>1, <1>3, <1>4, DepartureKept

-----------------------------------------------------------------------------
(* Statements that touch other rows than the loaded one.                   *)

\* The tables change, no row without a new version, and handlers only end.
LEMMA TablesKept ==
  ASSUME IInv,
         flights' \in [Flights -> Row \cup {NoRow}],
         \A f \in Flights : Exists(f) =>
           \/ flights'[f] = flights[f]
           \/ flights'[f] \in Row /\ flights'[f].version > flights[f].version,
         \A f \in Flights : RowOK(flights'[f], agreed[f], released[f]),
         members' \in [Members -> [role : {"pilot", "dispatcher"},
                                   status : {"active", "disabled"}]],
         requests' \in [Requests -> RequestRow],
         handlers' \in [Sessions -> Pending \cup {Idle}],
         \A s \in Sessions : handlers'[s] \in {Idle, handlers[s]},
         UNCHANGED <<released, agreed>>
  PROVE  IInv'
<1>1. TablesOK'
  BY DEF IInv, TablesOK
<1>2. RowsOK'
  BY DEF RowsOK, RowOK
<1>3. HandlersOK'
  BY HandlersKept
<1>4. SnapshotFresh'
  <2>1. \A s \in Sessions :
          \/ handlers'[s] = Idle
          \/ /\ Running(s)
             /\ handlers'[s].flight = handlers[s].flight
             /\ handlers'[s].seen = handlers[s].seen
    BY DEF Running
  <2> QED
    BY <2>1, FreshKept
<1> QED
  BY <1>1, <1>2, <1>3, <1>4 DEF IInv

\* A new flight is a draft or an offer, under an id no handler holds.
LEMMA InsertKept ==
  ASSUME IInv, NEW f \in Flights, ~Exists(f),
         NEW row \in Row, row.status \in {"draft", "offered"},
         flights' = [flights EXCEPT ![f] = row],
         requests' \in [Requests -> RequestRow],
         handlers' \in [Sessions -> Pending \cup {Idle}],
         \A s \in Sessions : handlers'[s] \in {Idle, handlers[s]},
         UNCHANGED <<released, members, agreed>>
  PROVE  IInv'
<1>1. /\ flights' \in [Flights -> Row \cup {NoRow}]
      /\ \A g \in Flights \ {f} : flights'[g] = flights[g]
      /\ flights'[f] = row
  BY DEF IInv, TablesOK
<1>2. \A g \in Flights : Exists(g) => flights'[g] = flights[g]
  BY <1>1 DEF Exists
<1>3. \A g \in Flights : RowOK(flights'[g], agreed[g], released[g])
  <2>1. RowOK(row, agreed[f], released[f])
    BY NoRowNotRow DEF RowOK, Signed, Scheduled, Operational
  <2>2. \A g \in Flights \ {f} : RowOK(flights'[g], agreed[g], released[g])
    BY <1>1 DEF IInv, RowsOK
  <2> QED
    BY <1>1, <2>1, <2>2
<1>4. members' \in [Members -> [role : {"pilot", "dispatcher"},
                                status : {"active", "disabled"}]]
  BY DEF IInv, TablesOK
<1> QED
  BY <1>1, <1>2, <1>3, <1>4, TablesKept

LEMMA NewRowType ==
  ASSUME NEW status \in FlightStatus, NEW terms \in Terms,
         NEW request \in Requests \cup {Null}, NEW replaces \in Flights \cup {Null}
  PROVE  /\ NewRow(status, terms, request, replaces) \in Row
         /\ NewRow(status, terms, request, replaces).status = status
BY DEF NewRow, Row

\* A session that ends.
LEMMA SessionEnds ==
  ASSUME IInv, NEW s \in Sessions, handlers' = [handlers EXCEPT ![s] = Idle]
  PROVE  /\ handlers' \in [Sessions -> Pending \cup {Idle}]
         /\ \A t \in Sessions : handlers'[t] \in {Idle, handlers[t]}
BY DEF IInv, TablesOK

LEMMA CommitCreateKept ==
  ASSUME IInv, NEW s \in Sessions, NEW f \in Flights, CommitCreate(s, f)
  PROVE  IInv'
<1> DEFINE h == handlers[s]
           status == IF h.op = "createDraft" THEN "draft" ELSE "offered"
           row == NewRow(status, h.wish, Null, Null)
<1>1. /\ ~Exists(f)
      /\ flights' = [flights EXCEPT ![f] = row]
      /\ handlers' = [handlers EXCEPT ![s] = Idle]
      /\ UNCHANGED <<released, members, requests, agreed>>
  BY DEF CommitCreate
<1>2. h.wish \in Terms
  BY DEF CommitCreate, Committing, At, Running, IInv, TablesOK, Pending
<1>3. status \in FlightStatus /\ status \in {"draft", "offered"}
  BY DEF FlightStatus, Predeparture
<1>4. row \in Row /\ row.status \in {"draft", "offered"}
  <2>1. Null \in Requests \cup {Null} /\ Null \in Flights \cup {Null}
    OBVIOUS
  <2> HIDE DEF status, h
  <2>2. row \in Row /\ row.status = status
    BY <1>2, <1>3, <2>1, NewRowType
  <2> QED
    BY <1>3, <2>2
<1>5. requests' \in [Requests -> RequestRow]
  BY <1>1 DEF IInv, TablesOK
<1>6. /\ handlers' \in [Sessions -> Pending \cup {Idle}]
      /\ \A t \in Sessions : handlers'[t] \in {Idle, handlers[t]}
  BY <1>1, SessionEnds
<1> HIDE DEF row
<1> QED
  BY <1>1, <1>4, <1>5, <1>6, InsertKept

LEMMA CommitReofferKept ==
  ASSUME IInv, NEW s \in Sessions, NEW f \in Flights, CommitReoffer(s, f)
  PROVE  IInv'
<1> DEFINE h == handlers[s]
           source == flights[h.flight]
           row == NewRow("offered", [source.terms EXCEPT !.pilot = h.wish.pilot],
                         source.request, h.flight)
<1>1. /\ ~Exists(f)
      /\ flights' = [flights EXCEPT ![f] = row]
      /\ handlers' = [handlers EXCEPT ![s] = Idle]
      /\ UNCHANGED <<released, members, requests, agreed>>
      /\ Running(s) /\ h.op = "reoffer"
  BY DEF CommitReoffer, Committing, At
<1>2. /\ h \in Pending
      /\ h.flight \in Flights
      /\ source \in Row
  <2>1. h.op \notin Creating
    BY <1>1 DEF Creating
  <2> QED
    BY <1>1, <2>1, RunningFacts
<1>3. /\ [source.terms EXCEPT !.pilot = h.wish.pilot] \in Terms
      /\ source.request \in Requests \cup {Null}
  BY <1>2 DEF Row, Pending, Terms
<1>4. "offered" \in FlightStatus
  BY DEF FlightStatus, Predeparture
<1>5. row \in Row /\ row.status = "offered"
  BY <1>2, <1>3, <1>4, NewRowType
<1>6. requests' \in [Requests -> RequestRow]
  BY <1>1 DEF IInv, TablesOK
<1>7. /\ handlers' \in [Sessions -> Pending \cup {Idle}]
      /\ \A t \in Sessions : handlers'[t] \in {Idle, handlers[t]}
  BY <1>1, SessionEnds
<1> HIDE DEF row
<1> QED
  BY <1>1, <1>5, <1>6, <1>7, InsertKept

LEMMA OfferForRequestKept ==
  ASSUME IInv, NEW q \in Requests, NEW f \in Flights, NEW time \in Times,
         NEW route \in Routes, NEW to \in {"partially_fulfilled", "fulfilled"},
         OfferForRequest(q, f, time, route, to)
  PROVE  IInv'
<1> DEFINE terms == [pilot |-> requests[q].pilot, time |-> time, route |-> route]
           row == NewRow("offered", terms, q, Null)
<1>1. /\ ~Exists(f)
      /\ flights' = [flights EXCEPT ![f] = row]
      /\ requests' = [requests EXCEPT ![q].status = to, ![q].version = @ + 1]
      /\ UNCHANGED <<released, members, handlers, agreed>>
  BY DEF OfferForRequest
<1>2. requests[q] \in RequestRow
  BY DEF IInv, TablesOK
<1>3. terms \in Terms
  BY <1>2 DEF RequestRow, Terms
<1>4. "offered" \in FlightStatus
  BY DEF FlightStatus, Predeparture
<1>5. row \in Row /\ row.status = "offered"
  <2> HIDE DEF terms
  <2> QED
    BY <1>3, <1>4, NewRowType
<1>6. requests' \in [Requests -> RequestRow]
  <2>1. [requests[q] EXCEPT !.status = to, !.version = @ + 1] \in RequestRow
    <3>1. to \in RequestStatus
      BY DEF RequestStatus, OpenRequest
    <3>2. requests[q].version + 1 \in Nat
      BY <1>2 DEF RequestRow
    <3> QED
      BY <1>2, <3>1, <3>2 DEF RequestRow
  <2>2. requests' = [requests EXCEPT
          ![q] = [requests[q] EXCEPT !.status = to, !.version = @ + 1]]
    BY <1>1, <1>2 DEF IInv, TablesOK, RequestRow
  <2> QED
    BY <2>1, <2>2 DEF IInv, TablesOK
<1>7. /\ handlers' \in [Sessions -> Pending \cup {Idle}]
      /\ \A t \in Sessions : handlers'[t] \in {Idle, handlers[t]}
  BY <1>1 DEF IInv, TablesOK
<1> HIDE DEF row
<1> QED
  BY <1>1, <1>5, <1>6, <1>7, InsertKept

LEMMA TouchOooiKept ==
  ASSUME IInv, NEW f \in Flights, TouchOooi(f)
  PROVE  IInv'
<1>1. /\ Exists(f)
      /\ flights' = [flights EXCEPT ![f] = Bump(flights[f])]
      /\ UNCHANGED <<released, members, requests, handlers, agreed>>
  BY DEF TouchOooi
<1>2. flights[f] \in Row /\ flights[f] # NoRow
  BY <1>1 DEF Exists, IInv, TablesOK
<1>3. /\ Bump(flights[f]) \in Row
      /\ Bump(flights[f]).version > flights[f].version
      /\ Bump(flights[f]).status = flights[f].status
      /\ Bump(flights[f]).terms = flights[f].terms
      /\ Bump(flights[f]).rev = flights[f].rev
      /\ Bump(flights[f]).conf = flights[f].conf
  BY <1>2, BumpRow
<1>4. /\ flights' \in [Flights -> Row \cup {NoRow}]
      /\ flights'[f] = Bump(flights[f])
      /\ \A g \in Flights \ {f} : flights'[g] = flights[g]
  BY <1>1, <1>3 DEF IInv, TablesOK
<1>5. \A g \in Flights : RowOK(flights'[g], agreed[g], released[g])
  <2>1. RowOK(flights[f], agreed[f], released[f])
    BY DEF IInv, RowsOK
  <2>2. RowOK(flights'[f], agreed[f], released[f])
    BY <1>2, <1>3, <1>4, <2>1, NoRowNotRow DEF RowOK
  <2>3. \A g \in Flights \ {f} : RowOK(flights'[g], agreed[g], released[g])
    BY <1>4 DEF IInv, RowsOK
  <2> QED
    BY <2>2, <2>3
<1>6. \A g \in Flights : Exists(g) =>
        \/ flights'[g] = flights[g]
        \/ flights'[g] \in Row /\ flights'[g].version > flights[g].version
  BY <1>3, <1>4
<1>7. /\ members' \in [Members -> [role : {"pilot", "dispatcher"},
                                   status : {"active", "disabled"}]]
      /\ requests' \in [Requests -> RequestRow]
      /\ handlers' \in [Sessions -> Pending \cup {Idle}]
      /\ \A s \in Sessions : handlers'[s] \in {Idle, handlers[s]}
  BY <1>1 DEF IInv, TablesOK
<1> QED
  BY <1>1, <1>4, <1>5, <1>6, <1>7, TablesKept

LEMMA MoveRequestKept ==
  ASSUME IInv, NEW q \in Requests, NEW to \in {"rejected", "cancelled"},
         NEW cancelFlights \in BOOLEAN, MoveRequest(q, to, cancelFlights)
  PROVE  IInv'
<1> DEFINE dropped == {f \in Flights : /\ cancelFlights
                                       /\ Exists(f)
                                       /\ flights[f].request = q
                                       /\ flights[f].status \in Predeparture}
           gone(f) == Bump([flights[f] EXCEPT !.status = "cancelled"])
<1>1. /\ flights' = [f \in Flights |-> IF f \in dropped THEN gone(f)
                                                      ELSE flights[f]]
      /\ requests' = [requests EXCEPT ![q].status = to, ![q].version = @ + 1]
      /\ UNCHANGED <<released, members, handlers, agreed>>
  BY DEF MoveRequest
<1>2. \A f \in dropped : /\ gone(f) \in Row
                         /\ gone(f).version > flights[f].version
                         /\ gone(f).status = "cancelled"
  <2> SUFFICES ASSUME NEW f \in dropped
               PROVE  /\ gone(f) \in Row
                      /\ gone(f).version > flights[f].version
                      /\ gone(f).status = "cancelled"
    OBVIOUS
  <2>1. flights[f] \in Row
    BY DEF Exists, IInv, TablesOK
  <2>2. "cancelled" \in FlightStatus
    BY DEF FlightStatus, Terminal
  <2>3. /\ [flights[f] EXCEPT !.status = "cancelled"] \in Row
        /\ [flights[f] EXCEPT !.status = "cancelled"].version = flights[f].version
        /\ [flights[f] EXCEPT !.status = "cancelled"].status = "cancelled"
    BY <2>1, <2>2 DEF Row
  <2> QED
    BY <2>3, BumpRow
<1> HIDE DEF gone
<1>3. flights' \in [Flights -> Row \cup {NoRow}]
  BY <1>1, <1>2 DEF IInv, TablesOK
<1>4. \A f \in Flights : Exists(f) =>
        \/ flights'[f] = flights[f]
        \/ flights'[f] \in Row /\ flights'[f].version > flights[f].version
  BY <1>1, <1>2
<1>5. \A f \in Flights : RowOK(flights'[f], agreed[f], released[f])
  <2> SUFFICES ASSUME NEW f \in Flights
               PROVE  RowOK(flights'[f], agreed[f], released[f])
    OBVIOUS
  <2>1. CASE f \in dropped
    BY <1>1, <1>2, <2>1, NoRowNotRow DEF RowOK, Signed, Scheduled, Operational
  <2>2. CASE f \notin dropped
    <3>1. flights'[f] = flights[f]
      BY <1>1, <2>2
    <3> QED
      BY <3>1 DEF IInv, RowsOK
  <2> QED
    BY <2>1, <2>2
<1>6. requests' \in [Requests -> RequestRow]
  <2>1. requests[q] \in RequestRow
    BY DEF IInv, TablesOK
  <2>2. to \in RequestStatus /\ requests[q].version + 1 \in Nat
    BY <2>1 DEF RequestStatus, RequestRow
  <2>3. [requests[q] EXCEPT !.status = to, !.version = @ + 1] \in RequestRow
    BY <2>1, <2>2 DEF RequestRow
  <2>4. requests' = [requests EXCEPT
          ![q] = [requests[q] EXCEPT !.status = to, !.version = @ + 1]]
    BY <1>1, <2>1 DEF IInv, TablesOK, RequestRow
  <2> QED
    BY <2>3, <2>4 DEF IInv, TablesOK
<1>7. /\ members' \in [Members -> [role : {"pilot", "dispatcher"},
                                   status : {"active", "disabled"}]]
      /\ handlers' \in [Sessions -> Pending \cup {Idle}]
      /\ \A s \in Sessions : handlers'[s] \in {Idle, handlers[s]}
  BY <1>1 DEF IInv, TablesOK
<1> QED
  BY <1>1, <1>3, <1>4, <1>5, <1>6, <1>7, TablesKept

\* A handover withdraws an acceptance, so the new pilot has to give one.
LEMMA HandoverRow ==
  ASSUME NEW row \in Row, row.status \in Predeparture, NEW r \in Members
  PROVE  /\ Handover(row, r) \in Row
         /\ Handover(row, r).version > row.version
         /\ Handover(row, r).status \in {"draft", "offered"}
<1> DEFINE status == IF row.status \in {"accepted", "briefed"} THEN "offered"
                                                              ELSE row.status
           terms == [row.terms EXCEPT !.pilot = r]
           moved == [row EXCEPT !.terms = terms, !.rev = row.rev + 1,
                                !.conf = 0, !.status = status]
<1>1. /\ status \in {"draft", "offered"}
      /\ status \in FlightStatus
      /\ terms \in Terms
      /\ row.rev + 1 \in Nat
  BY DEF Predeparture, FlightStatus, Row, Terms
<1>2. Handover(row, r) = Bump(moved)
  BY DEF Handover, Row, Terms
<1> HIDE DEF status, terms
<1>3. moved \in Row /\ moved.status = status /\ moved.version = row.version
  BY <1>1 DEF Row
<1> QED
  BY <1>1, <1>2, <1>3, BumpRow

LEMMA ChangeTyped ==
  ASSUME ChangeOK, change # Idle
  PROVE  /\ change.member \in Members /\ change.patch \in MemberPatches
         /\ change.to \in Members \cup {Null}
BY DEF ChangeOK

LEMMA CommitChangeKept ==
  ASSUME IInv, ChangeOK, CommitChange
  PROVE  IInv'
<1> DEFINE m == change.member
           patch == change.patch
           r == change.to
           moved == FlightsToHandOver
           handed == RequestsToHandOver
           role == IF patch.role = NoPatch THEN members[m].role ELSE patch.role
           status == IF patch.status = NoPatch THEN members[m].status
                                               ELSE patch.status
<1>0. /\ m \in Members /\ patch \in MemberPatches
      /\ r \in Members \cup {Null}
  BY ChangeTyped DEF CommitChange
<1>1. /\ flights' = [f \in Flights |-> IF f \in moved
                                       THEN Handover(flights[f], r)
                                       ELSE flights[f]]
      /\ requests' = [q \in Requests |-> IF q \in handed
                                         THEN HandedOver(requests[q], r)
                                         ELSE requests[q]]
      /\ members' = [members EXCEPT ![m] = [role |-> role, status |-> status]]
      /\ UNCHANGED <<released, handlers, agreed>>
  BY <1>0 DEF CommitChange, IInv, TablesOK
<1>9. /\ \A f \in moved : f \in LockedFlights /\ r \in Members
      /\ \A q \in handed : q \in OwnedRequests(m) /\ r \in Members
      /\ moved # {} => \A f \in LockedFlights : flights[f].status # "active"
  BY <1>0 DEF CommitChange, FlightsToHandOver, RequestsToHandOver, LockedRequests
<1> HIDE DEF m, patch, r
<1>2. \A f \in moved : /\ Handover(flights[f], r) \in Row
                       /\ Handover(flights[f], r).version > flights[f].version
                       /\ Handover(flights[f], r).status \in {"draft", "offered"}
  <2> SUFFICES ASSUME NEW f \in moved
               PROVE  /\ Handover(flights[f], r) \in Row
                      /\ Handover(flights[f], r).version > flights[f].version
                      /\ Handover(flights[f], r).status \in {"draft", "offered"}
    OBVIOUS
  <2>1. r \in Members /\ f \in LockedFlights /\ flights[f].status # "active"
    BY <1>9
  <2>2. flights[f] \in Row /\ flights[f].status \in Predeparture
    BY <2>1 DEF LockedFlights, HeldFlights, Exists, IInv, TablesOK
  <2> QED
    BY <2>1, <2>2, HandoverRow
<1>3. \A q \in handed : HandedOver(requests[q], r) \in RequestRow
  <2> SUFFICES ASSUME NEW q \in handed
               PROVE  HandedOver(requests[q], r) \in RequestRow
    OBVIOUS
  <2>1. r \in Members /\ q \in Requests
    BY <1>9 DEF OwnedRequests
  <2>2. requests[q] \in RequestRow
    BY <2>1 DEF IInv, TablesOK
  <2>3. requests[q].version + 1 \in Nat
    BY <2>2 DEF RequestRow
  <2> QED
    BY <2>1, <2>2, <2>3 DEF HandedOver, RequestRow
<1>4. [role |-> role, status |-> status] \in
        [role : {"pilot", "dispatcher"}, status : {"active", "disabled"}]
  <2>1. patch \in Patches
    BY <1>0, SetsAssumption
  <2>2. members[m] \in [role : {"pilot", "dispatcher"},
                        status : {"active", "disabled"}]
    BY <1>0 DEF IInv, TablesOK
  <2> QED
    BY <2>1, <2>2 DEF Patches, NoPatch
<1> HIDE DEF moved, handed, role, status
<1>5. flights' \in [Flights -> Row \cup {NoRow}]
  BY <1>1, <1>2 DEF IInv, TablesOK
<1>6. \A f \in Flights : Exists(f) =>
        \/ flights'[f] = flights[f]
        \/ flights'[f] \in Row /\ flights'[f].version > flights[f].version
  BY <1>1, <1>2
<1>7. \A f \in Flights : RowOK(flights'[f], agreed[f], released[f])
  <2> SUFFICES ASSUME NEW f \in Flights
               PROVE  RowOK(flights'[f], agreed[f], released[f])
    OBVIOUS
  <2>1. CASE f \in moved
    BY <1>1, <1>2, <2>1, NoRowNotRow DEF RowOK, Signed, Scheduled, Operational
  <2>2. CASE f \notin moved
    <3>1. flights'[f] = flights[f]
      BY <1>1, <2>2
    <3> QED
      BY <3>1 DEF IInv, RowsOK
  <2> QED
    BY <2>1, <2>2
<1>8. /\ requests' \in [Requests -> RequestRow]
      /\ members' \in [Members -> [role : {"pilot", "dispatcher"},
                                   status : {"active", "disabled"}]]
      /\ handlers' \in [Sessions -> Pending \cup {Idle}]
      /\ \A s \in Sessions : handlers'[s] \in {Idle, handlers[s]}
  BY <1>1, <1>3, <1>4 DEF IInv, TablesOK
<1> QED
  BY <1>1, <1>5, <1>6, <1>7, <1>8, TablesKept

\* Taking a snapshot and giving up leave the tables alone.
LEMMA TablesUnchanged ==
  ASSUME IInv, UNCHANGED tables
  PROVE  IInv'
BY DEF tables, IInv, TablesOK, RowsOK, RowOK, HandlersOK, HandlerOK,
       SnapshotFresh, Running

LEMMA MemberStepKept ==
  ASSUME IInv, ChangeOK, MemberNext
  PROVE  IInv'
BY TablesUnchanged, CommitChangeKept DEF MemberNext, BeginChange, AbortChange

\* The snapshot is of versions, which are numbers.
LEMMA BeginChangeTyped ==
  ASSUME TablesOK, NEW m \in Members, NEW patch \in MemberPatches,
         NEW r \in Members \cup {Null}, BeginChange(m, patch, r)
  PROVE  ChangeOK'
<1> DEFINE seenFlights == [f \in HeldFlights(m) |-> flights[f].version]
           seenRequests == [q \in OwnedRequests(m) |-> requests[q].version]
<1>1. change' = [member |-> m, patch |-> patch, to |-> r,
                 flights |-> seenFlights, requests |-> seenRequests]
  BY DEF BeginChange
<1>2. seenFlights \in Versions(Flights)
  <2>1. HeldFlights(m) \in SUBSET Flights
    BY DEF HeldFlights
  <2>2. seenFlights \in [HeldFlights(m) -> Nat]
    BY <2>1 DEF HeldFlights, Exists, TablesOK, Row
  <2> QED
    BY <2>1, <2>2 DEF Versions
<1>3. seenRequests \in Versions(Requests)
  <2>1. OwnedRequests(m) \in SUBSET Requests
    BY DEF OwnedRequests
  <2>2. seenRequests \in [OwnedRequests(m) -> Nat]
    BY <2>1 DEF TablesOK, RequestRow
  <2> QED
    BY <2>1, <2>2 DEF Versions
<1> HIDE DEF seenFlights, seenRequests
<1> QED
  BY <1>1, <1>2, <1>3 DEF ChangeOK

LEMMA ChangeKept ==
  ASSUME IInv, ChangeOK, [Next]_vars
  PROVE  ChangeOK'
<1>1. CASE \E m \in Members, patch \in MemberPatches, r \in Members \cup {Null} :
             BeginChange(m, patch, r)
  BY <1>1, BeginChangeTyped DEF IInv
<1>2. CASE change' = Idle
  BY <1>2 DEF ChangeOK
<1>3. CASE UNCHANGED change
  BY <1>3 DEF ChangeOK
<1> QED
  BY <1>1, <1>2, <1>3 DEF Next, MemberNext, CommitChange, AbortChange, vars

-----------------------------------------------------------------------------
(* Statements that only move a handler on.                                 *)

\* What SnapshotFresh says of one handler.
SeenOK(h) ==
  h.flight # Null =>
    /\ flights[h.flight] # NoRow /\ h.seen # NoRow
    /\ h.seen.version <= flights[h.flight].version
    /\ h.seen.version = flights[h.flight].version => h.seen = flights[h.flight]

LEMMA HandlerStepKept ==
  ASSUME IInv, NEW s \in Sessions, NEW h \in Pending \cup {Idle},
         h # Idle => HandlerOK(h) /\ SeenOK(h),
         handlers' = [handlers EXCEPT ![s] = h],
         UNCHANGED <<flights, released, members, requests, agreed>>
  PROVE  IInv'
<1>1. /\ handlers' \in [Sessions -> Pending \cup {Idle}]
      /\ handlers'[s] = h
      /\ \A t \in Sessions \ {s} : handlers'[t] = handlers[t]
  BY DEF IInv, TablesOK
<1>2. TablesOK'
  BY <1>1 DEF IInv, TablesOK
<1>3. RowsOK'
  BY DEF IInv, RowsOK, RowOK
<1>4. HandlersOK'
  <2> SUFFICES ASSUME NEW t \in Sessions, handlers'[t] # Idle
               PROVE  HandlerOK(handlers'[t])
    BY DEF HandlersOK, Running, HandlerOK
  <2>1. CASE t = s
    BY <1>1, <2>1
  <2>2. CASE t # s
    BY <1>1, <2>2 DEF IInv, HandlersOK, Running
  <2> QED
    BY <2>1, <2>2
<1>5. SnapshotFresh'
  <2> SUFFICES ASSUME NEW t \in Sessions, handlers'[t] # Idle
               PROVE  SeenOK(handlers'[t])
    BY DEF SnapshotFresh, Running, SeenOK
  <2>1. CASE t = s
    BY <1>1, <2>1
  <2>2. CASE t # s
    BY <1>1, <2>2 DEF IInv, SnapshotFresh, Running, SeenOK
  <2> QED
    BY <2>1, <2>2
<1> QED
  BY <1>2, <1>3, <1>4, <1>5 DEF IInv

\* A handler that has just loaded a flight.
LEMMA LoadKept ==
  ASSUME IInv, NEW s \in Sessions, NEW pc \in Checks \cup {"commit"},
         NEW op \in Ops \ Creating, NEW actor \in Members, NEW f \in Flights,
         NEW wish \in Terms, Exists(f),
         Enter(s, pc, op, actor, f, flights[f], wish),
         flights[f].status \in LoadedStatus(op),
         op = "accept" => flights[f].terms.pilot # Null,
         op = "patch" =>
           /\ flights[f].status \in Operational => wish.pilot # Null
           /\ flights[f].status = "active" => wish = flights[f].terms,
         pc = "request" => flights[f].request # Null
  PROVE  IInv'
<1> DEFINE h == [pc |-> pc, op |-> op, actor |-> actor,
                 asDispatcher |-> IsDispatcher(actor),
                 flight |-> f, seen |-> flights[f], wish |-> wish]
<1>1. flights[f] \in Row /\ flights[f] # NoRow
  BY DEF Exists, IInv, TablesOK
<1>2. h \in Pending
  BY <1>1 DEF Pending, IsDispatcher
<1>3. HandlerOK(h)
  BY <1>1 DEF HandlerOK
<1>4. SeenOK(h)
  <2>1. flights[f].version \in Nat
    BY <1>1 DEF Row
  <2> QED
    BY <1>1, <2>1 DEF SeenOK
<1>5. /\ handlers' = [handlers EXCEPT ![s] = h]
      /\ UNCHANGED <<flights, released, members, requests, agreed>>
  BY DEF Enter
<1> HIDE DEF h
<1> QED
  BY <1>2, <1>3, <1>4, <1>5, HandlerStepKept

LEMMA BeginCreateKept ==
  ASSUME IInv, NEW s \in Sessions, NEW m \in Members, NEW op \in Creating,
         NEW wish \in Terms, BeginCreate(s, m, op, wish)
  PROVE  IInv'
<1> DEFINE h == [pc |-> "pilot", op |-> op, actor |-> m,
                 asDispatcher |-> IsDispatcher(m),
                 flight |-> Null, seen |-> NoRow, wish |-> wish]
<1>1. h \in Pending
  BY DEF Pending, IsDispatcher, Checks, Ops, Creating
<1>2. HandlerOK(h) /\ SeenOK(h)
  BY DEF HandlerOK, SeenOK, Creating
<1>3. /\ handlers' = [handlers EXCEPT ![s] = h]
      /\ UNCHANGED <<flights, released, members, requests, agreed>>
  BY DEF BeginCreate, Enter
<1> HIDE DEF h
<1> QED
  BY <1>1, <1>2, <1>3, HandlerStepKept

\* The row of an existing flight and the terms a Load takes over from it.
LEMMA LoadedRow ==
  ASSUME IInv, NEW f \in Flights, Exists(f)
  PROVE  /\ flights[f] \in Row
         /\ flights[f].terms \in Terms
         /\ flights[f].status \in FlightStatus
         /\ FirstCheck(flights[f]) \in Checks \cup {"commit"}
         /\ FirstCheck(flights[f]) = "request" => flights[f].request # Null
BY DEF IInv, TablesOK, Exists, Row, FirstCheck, Checks

LEMMA BeginOfferKept ==
  ASSUME IInv, NEW s \in Sessions, NEW m \in Members, NEW f \in Flights,
         BeginOffer(s, m, f)
  PROVE  IInv'
<1>1. /\ Exists(f)
      /\ Enter(s, FirstCheck(flights[f]), "offer", m, f, flights[f],
               flights[f].terms)
      /\ "offered" \in Successors[flights[f].status]
  BY DEF BeginOffer, Load, CanTransition
<1>2. "offer" \in Ops \ Creating
  BY DEF Ops, Creating
<1>3. flights[f].status \in LoadedStatus("offer")
  BY <1>1, LoadedRow DEF Successors, LoadedStatus, FlightStatus, Predeparture,
                         Terminal
<1> QED
  BY <1>1, <1>2, <1>3, LoadedRow, LoadKept

LEMMA BeginAnswerKept ==
  ASSUME IInv, NEW s \in Sessions, NEW m \in Members, NEW f \in Flights,
         NEW op \in {"accept", "decline", "confirm"}, BeginAnswer(s, m, f, op)
  PROVE  IInv'
<1>1. /\ Exists(f)
      /\ Enter(s, "commit", op, m, f, flights[f], flights[f].terms)
      /\ op \in {"accept", "decline"} => flights[f].status = "offered"
      /\ op = "confirm" => AssignmentNeedsConfirmation(flights[f])
      /\ flights[f].terms.pilot = m
  BY DEF BeginAnswer, Load
<1>2. op # "confirm"
  <2>1. RowOK(flights[f], agreed[f], released[f])
    BY DEF IInv, RowsOK
  <2> QED
    BY <1>1, <2>1 DEF RowOK, Exists, AssignmentNeedsConfirmation
<1>3. op \in Ops \ Creating
  BY DEF Ops, Creating
<1>4. flights[f].status \in LoadedStatus(op)
  BY <1>1, <1>2 DEF LoadedStatus
<1>5. flights[f].terms.pilot # Null
  BY <1>1, NullAssumption
<1>6. op # "patch"
  OBVIOUS
<1> QED
  BY <1>1, <1>3, <1>4, <1>5, <1>6, LoadedRow, LoadKept

LEMMA BeginCancelKept ==
  ASSUME IInv, NEW s \in Sessions, NEW m \in Members, NEW f \in Flights,
         BeginCancel(s, m, f)
  PROVE  IInv'
<1>1. /\ Exists(f)
      /\ Enter(s, "commit", "cancel", m, f, flights[f], flights[f].terms)
      /\ "cancelled" \in Successors[flights[f].status]
  BY DEF BeginCancel, Load, CanTransition
<1>2. "cancel" \in Ops \ Creating
  BY DEF Ops, Creating
<1>3. flights[f].status \in LoadedStatus("cancel")
  BY <1>1, LoadedRow DEF Successors, LoadedStatus, FlightStatus, Predeparture,
                         Terminal
<1> QED
  BY <1>1, <1>2, <1>3, LoadedRow, LoadKept

LEMMA BeginPatchKept ==
  ASSUME IInv, NEW s \in Sessions, NEW m \in Members, NEW f \in Flights,
         NEW wish \in Terms, BeginPatch(s, m, f, wish)
  PROVE  IInv'
<1>1. /\ Exists(f)
      /\ Enter(s, FirstCheck(flights[f]), "patch", m, f, flights[f], wish)
      /\ flights[f].status \notin Terminal
      /\ flights[f].status \in Operational => wish.pilot # Null
      /\ flights[f].status = "active" => wish = flights[f].terms
  BY DEF BeginPatch
<1>2. "patch" \in Ops \ Creating
  BY DEF Ops, Creating
<1>3. flights[f].status \in LoadedStatus("patch")
  BY <1>1, LoadedRow DEF LoadedStatus, FlightStatus
<1> QED
  BY <1>1, <1>2, <1>3, LoadedRow, LoadKept

LEMMA BeginPublishKept ==
  ASSUME IInv, NEW s \in Sessions, NEW m \in Members, NEW f \in Flights,
         BeginPublish(s, m, f)
  PROVE  IInv'
<1>1. /\ Exists(f)
      /\ Enter(s, "commit", "publish", m, f, flights[f], flights[f].terms)
      /\ flights[f].status \in LoadedStatus("publish")
  BY DEF BeginPublish, Load, LoadedStatus
<1>2. "publish" \in Ops \ Creating
  BY DEF Ops, Creating
<1> QED
  BY <1>1, <1>2, LoadedRow, LoadKept

LEMMA BeginStartKept ==
  ASSUME IInv, NEW s \in Sessions, NEW m \in Members, NEW f \in Flights,
         BeginStart(s, m, f)
  PROVE  IInv'
<1>1. /\ Exists(f)
      /\ Enter(s, "release", "start", m, f, flights[f], flights[f].terms)
      /\ flights[f].status \in LoadedStatus("start")
  BY DEF BeginStart, Load, LoadedStatus
<1>2. "start" \in Ops \ Creating /\ "release" \in Checks
  BY DEF Ops, Creating, Checks
<1> QED
  BY <1>1, <1>2, LoadedRow, LoadKept

LEMMA BeginFinishKept ==
  ASSUME IInv, NEW s \in Sessions, NEW m \in Members, NEW f \in Flights,
         BeginFinish(s, m, f)
  PROVE  IInv'
<1>1. /\ Exists(f)
      /\ Enter(s, "commit", "finish", m, f, flights[f], flights[f].terms)
      /\ flights[f].status \in LoadedStatus("finish")
  BY DEF BeginFinish, Load, LoadedStatus
<1>2. "finish" \in Ops \ Creating
  BY DEF Ops, Creating
<1> QED
  BY <1>1, <1>2, LoadedRow, LoadKept

LEMMA BeginHoppieKept ==
  ASSUME IInv, NEW s \in Sessions, NEW m \in Members, NEW f \in Flights,
         NEW kind \in HoppieKinds, BeginHoppie(s, m, f, kind)
  PROVE  IInv'
<1> DEFINE pc == IF kind \in {"on", "in"} THEN "commit" ELSE "release"
<1>1. /\ Exists(f)
      /\ Enter(s, pc, kind, m, f, flights[f], flights[f].terms)
      /\ flights[f].status \in IF kind \in {"on", "in"}
                               THEN {"active"} ELSE {"briefed", "active"}
  BY DEF BeginHoppie, Load
<1>2. kind \in Ops \ Creating /\ pc \in Checks \cup {"commit"}
  BY DEF Ops, Creating, HoppieKinds, Checks
<1>3. flights[f].status \in LoadedStatus(kind)
  BY <1>1 DEF LoadedStatus, HoppieKinds
<1>4. kind \notin {"accept", "patch"} /\ pc # "request"
  BY DEF HoppieKinds
<1> HIDE DEF pc
<1> QED
  BY <1>1, <1>2, <1>3, <1>4, LoadedRow, LoadKept

LEMMA BeginReofferKept ==
  ASSUME IInv, NEW s \in Sessions, NEW m \in Members, NEW f \in Flights,
         NEW pilot \in Members, BeginReoffer(s, m, f, pilot)
  PROVE  IInv'
<1> DEFINE wish == [flights[f].terms EXCEPT !.pilot = pilot]
<1>1. /\ Exists(f)
      /\ Enter(s, FirstCheck(flights[f]), "reoffer", m, f, flights[f], wish)
      /\ flights[f].status \in LoadedStatus("reoffer")
  BY DEF BeginReoffer, LoadedStatus
<1>2. "reoffer" \in Ops \ Creating
  BY DEF Ops, Creating
<1>3. wish \in Terms
  BY <1>1, LoadedRow DEF Terms
<1> HIDE DEF wish
<1> QED
  BY <1>1, <1>2, <1>3, LoadedRow, LoadKept

\* A check that passes leaves the handler with what it loaded.
LEMMA AdvanceKept ==
  ASSUME IInv, NEW s \in Sessions, Running(s),
         NEW pc \in Checks \cup {"commit"}, pc # "request",
         NEW wish \in Terms,
         handlers[s].op = "patch" =>
           /\ handlers[s].seen.status \in Operational => wish.pilot # Null
           /\ handlers[s].seen.status = "active" =>
                wish = handlers[s].seen.terms,
         Advance(s, [handlers[s] EXCEPT !.pc = pc, !.wish = wish])
  PROVE  IInv'
<1> DEFINE h == [handlers[s] EXCEPT !.pc = pc, !.wish = wish]
<1>1. handlers[s] \in Pending /\ HandlerOK(handlers[s])
  BY DEF IInv, TablesOK, HandlersOK, Running
<1>2. /\ h \in Pending
      /\ h.pc = pc /\ h.wish = wish
      /\ h.op = handlers[s].op
      /\ h.flight = handlers[s].flight
      /\ h.seen = handlers[s].seen
  BY <1>1 DEF Pending
<1>3. /\ handlers' = [handlers EXCEPT ![s] = h]
      /\ UNCHANGED <<flights, released, members, requests, agreed>>
  BY DEF Advance
<1> HIDE DEF h
<1>4. HandlerOK(h)
  BY <1>1, <1>2 DEF HandlerOK
<1>5. SeenOK(h)
  BY <1>2 DEF SeenOK, IInv, SnapshotFresh
<1> QED
  BY <1>2, <1>3, <1>4, <1>5, HandlerStepKept

LEMMA ResolveRequestKept ==
  ASSUME IInv, NEW s \in Sessions, ResolveRequest(s)
  PROVE  IInv'
<1> DEFINE h == handlers[s]
           owner == requests[h.seen.request].pilot
           wish == [h.wish EXCEPT !.pilot = owner]
<1>1. /\ Running(s) /\ h.pc = "request"
      /\ h.wish.pilot \in {Null, owner}
      /\ Advance(s, [h EXCEPT !.pc = "pilot", !.wish.pilot = owner])
  BY DEF ResolveRequest, At
<1>2. h \in Pending /\ HandlerOK(h)
  BY <1>1 DEF IInv, TablesOK, HandlersOK, Running
<1>3. h.seen \in Row /\ h.seen.request \in Requests
  BY <1>1, <1>2 DEF HandlerOK, Row
<1>4. owner \in Members
  BY <1>3 DEF IInv, TablesOK, RequestRow
<1>5. h.wish \in Terms
  BY <1>2 DEF Pending
<1>6. /\ wish \in Terms
      /\ wish.pilot = owner
      /\ h.wish.pilot = owner => wish = h.wish
  BY <1>4, <1>5 DEF Terms
<1>7. h.op = "patch" =>
        /\ h.seen.status \in Operational => wish.pilot # Null
        /\ h.seen.status = "active" => wish = h.seen.terms
  BY <1>1, <1>2, <1>4, <1>6, NullAssumption DEF HandlerOK, Operational
<1>8. [h EXCEPT !.pc = "pilot", !.wish.pilot = owner]
        = [h EXCEPT !.pc = "pilot", !.wish = wish]
  BY <1>2 DEF Pending
<1>9. Advance(s, [h EXCEPT !.pc = "pilot", !.wish = wish])
  BY <1>1, <1>8
<1>10. "pilot" \in Checks
  BY DEF Checks
<1> HIDE DEF wish
<1> QED
  BY <1>1, <1>6, <1>7, <1>9, <1>10, AdvanceKept

\* The other checks read and change nothing but the handler's place.
LEMMA CheckPassedKept ==
  ASSUME IInv, NEW s \in Sessions, Running(s),
         Advance(s, [handlers[s] EXCEPT !.pc = "commit"])
  PROVE  IInv'
<1> DEFINE h == handlers[s]
<1>1. h \in Pending /\ HandlerOK(h)
  BY DEF IInv, TablesOK, HandlersOK, Running
<1>2. /\ h.wish \in Terms
      /\ [h EXCEPT !.pc = "commit"] = [h EXCEPT !.pc = "commit", !.wish = h.wish]
  BY <1>1 DEF Pending
<1>3. h.op = "patch" =>
        /\ h.seen.status \in Operational => h.wish.pilot # Null
        /\ h.seen.status = "active" => h.wish = h.seen.terms
  BY <1>1 DEF HandlerOK
<1>4. Advance(s, [h EXCEPT !.pc = "commit", !.wish = h.wish])
  BY <1>2
<1> QED
  BY <1>2, <1>3, <1>4, AdvanceKept

LEMMA AbortKept ==
  ASSUME IInv, NEW s \in Sessions, Abort(s)
  PROVE  IInv'
<1>1. /\ handlers' = [handlers EXCEPT ![s] = Idle]
      /\ UNCHANGED <<flights, released, members, requests, agreed>>
  BY DEF Abort, Advance
<1> QED
  BY <1>1, HandlerStepKept

-----------------------------------------------------------------------------
(* The invariant and the theorems.                                         *)

LEMMA InitKept == Init => IInv
<1> SUFFICES ASSUME Init PROVE IInv
  OBVIOUS
<1>1. TablesOK
  <2>1. requests \in [Requests -> RequestRow]
    BY DEF Init, RequestRow, RequestStatus, OpenRequest
  <2>2. members \in [Members -> [role : {"pilot", "dispatcher"},
                                 status : {"active", "disabled"}]]
    BY DEF Init
  <2> QED
    BY <2>1, <2>2 DEF Init, TablesOK
<1>2. RowsOK
  BY DEF Init, RowsOK, RowOK
<1>3. HandlersOK /\ SnapshotFresh
  BY DEF Init, HandlersOK, SnapshotFresh, Running
<1> QED
  BY <1>1, <1>2, <1>3 DEF IInv

LEMMA BeginKept ==
  ASSUME IInv, NEW s \in Sessions, NEW m \in Members, Begin(s, m)
  PROVE  IInv'
<1>1. CASE \E op \in Creating, wish \in Terms : BeginCreate(s, m, op, wish)
  BY <1>1, BeginCreateKept
<1>2. ASSUME NEW f \in Flights,
             \/ BeginOffer(s, m, f)
             \/ \E op \in {"accept", "decline", "confirm"} :
                  BeginAnswer(s, m, f, op)
             \/ BeginCancel(s, m, f)
             \/ \E wish \in Terms : BeginPatch(s, m, f, wish)
             \/ BeginPublish(s, m, f)
             \/ BeginStart(s, m, f)
             \/ BeginFinish(s, m, f)
             \/ \E kind \in HoppieKinds : BeginHoppie(s, m, f, kind)
             \/ \E pilot \in Members : BeginReoffer(s, m, f, pilot)
      PROVE  IInv'
  BY <1>2, BeginOfferKept, BeginAnswerKept, BeginCancelKept, BeginPatchKept,
     BeginPublishKept, BeginStartKept, BeginFinishKept, BeginHoppieKept,
     BeginReofferKept
<1> QED
  BY <1>1, <1>2 DEF Begin, Creating

LEMMA CheckKept ==
  ASSUME IInv, NEW s \in Sessions, Check(s)
  PROVE  IInv'
<1>1. CASE ResolveRequest(s)
  BY <1>1, ResolveRequestKept
<1>2. CASE CheckPilot(s)
  BY <1>2, CheckPassedKept DEF CheckPilot, At
<1>3. CASE CheckRelease(s)
  BY <1>3, CheckPassedKept DEF CheckRelease, At
<1> QED
  BY <1>1, <1>2, <1>3 DEF Check

LEMMA CommitKept ==
  ASSUME IInv, NEW s \in Sessions, Commit(s)
  PROVE  IInv'
BY CommitStatusKept, CommitAgreementKept, CommitPatchKept, CommitPublishKept,
   CommitStartKept, CommitHoppieKept, CommitCreateKept, CommitReofferKept
   DEF Commit

LEMMA StepKept == IInv /\ ChangeOK /\ [Next]_vars => (IInv /\ ChangeOK)'
<1> SUFFICES ASSUME IInv, ChangeOK, [Next]_vars PROVE IInv' /\ ChangeOK'
  OBVIOUS
<1>1. CASE FlightNext
  BY <1>1, BeginKept, CheckKept, CommitKept, AbortKept, TouchOooiKept, ChangeKept
     DEF FlightNext
<1>2. CASE MemberNext
  BY <1>2, MemberStepKept, ChangeKept
<1>3. CASE RequestNext
  BY <1>3, OfferForRequestKept, MoveRequestKept, ChangeKept DEF RequestNext
<1>4. CASE UNCHANGED vars
  BY <1>4, TablesUnchanged, ChangeKept DEF vars
<1> QED
  BY <1>1, <1>2, <1>3, <1>4 DEF Next

\* The invariant everything else follows from.
THEOREM Invariant == Spec => [](IInv /\ ChangeOK)
<1>1. Init => IInv /\ ChangeOK
  BY InitKept DEF Init, ChangeOK
<1> QED
  BY <1>1, StepKept, PTL DEF Spec

\* Whatever the number of handlers, every table keeps to its schema.
THEOREM TypeCorrect == Spec => []TypeOK
<1>1. IInv /\ ChangeOK => TypeOK
  BY DEF IInv, TypeOK
<1> QED
  BY <1>1, Invariant, PTL

\* Optimistic locking works: `WHERE version = expectedVersion` matches only
\* the row the handler checked.
THEOREM VersionsIdentifyRows == Spec => []SnapshotFresh
<1>1. IInv => SnapshotFresh
  BY DEF IInv
<1> QED
  BY <1>1, Invariant, PTL

\* No flight is scheduled, flown or completed on terms its pilot did not accept.
THEOREM AgreementHonoured == Spec => []FlownAsAgreed
<1>1. IInv => FlownAsAgreed
  BY NullAssumption
     DEF IInv, TablesOK, RowsOK, RowOK, FlownAsAgreed, Signed, Exists
<1> QED
  BY <1>1, Invariant, PTL

\* No flight departs or is completed on terms that were not released.
THEOREM ReleaseHonoured == Spec => []FlownAsReleased
<1>1. IInv => FlownAsReleased
  BY DEF IInv, RowsOK, RowOK, FlownAsReleased, Scheduled, Exists
<1> QED
  BY <1>1, Invariant, PTL

\* The confirmation route of the API is never needed.
THEOREM ConfirmationNeverPending == Spec => []NoPendingConfirmation
<1>1. IInv => NoPendingConfirmation
  BY DEF IInv, RowsOK, RowOK, NoPendingConfirmation,
         AssignmentNeedsConfirmation, Exists
<1> QED
  BY <1>1, Invariant, PTL

-----------------------------------------------------------------------------
(* What a step may do to one flight.                                       *)

\* What a step may make of a row with its history a (agreed), r (released).
RowStep(row, a, r, row2, a2, r2) ==
  LET same == row2.terms = row.terms /\ a2 = a /\ r2 = r IN
    \/ \* stutter, up to versions and confirmations
       row2.status = row.status /\ same
    \/ \* offer
       row.status = "draft" /\ row2.status = "offered" /\ same
    \/ \* accept
       /\ row.status = "offered" /\ row2.status = "accepted"
       /\ row2.terms = row.terms /\ a2 = row.terms /\ r2 = r
    \/ \* publish
       /\ row.status \in {"accepted", "briefed"} /\ row2.status = "briefed"
       /\ row2.terms = row.terms /\ a2 = a /\ r2 = row.terms
    \/ \* depart
       row.status = "briefed" /\ row2.status = "active" /\ same
    \/ \* arrive
       row.status = "active" /\ row2.status = "completed" /\ same
    \/ \* edit or hand over
       /\ row.status \in Predeparture
       /\ row2.status = IF row.status = "draft" THEN "draft" ELSE "offered"
       /\ a2 = a /\ r2 = r
    \/ \* decline
       row.status = "offered" /\ row2.status = "declined" /\ same
    \/ \* cancel
       /\ row.status \in Predeparture \cup {"active"}
       /\ row2.status = "cancelled" /\ same

\* A re-offer replaces a declined flight nothing replaces yet, for the same
\* request.
MayReplace(row) ==
  row.replaces # Null =>
    /\ row.replaces \in Flights /\ Exists(row.replaces)
    /\ flights[row.replaces].status = "declined"
    /\ flights[row.replaces].request = row.request
    /\ \A g \in Flights : Exists(g) => flights[g].replaces # row.replaces

\* A step leaves flight f alone, creates it as a draft or an offer (and then
\* does nothing else), or takes its row a RowStep further.
FlightStep(f) ==
  \/ /\ flights'[f] = flights[f]
     /\ agreed'[f] = agreed[f] /\ released'[f] = released[f]
  \/ /\ ~Exists(f)
     /\ flights'[f] \in Row
     /\ flights'[f].status \in {"draft", "offered"}
     /\ agreed'[f] = agreed[f] /\ released'[f] = released[f]
     /\ MayReplace(flights'[f])
     /\ \A g \in Flights \ {f} : flights'[g] = flights[g]
  \/ /\ Exists(f)
     /\ flights'[f] \in Row
     /\ flights'[f].request = flights[f].request
     /\ flights'[f].replaces = flights[f].replaces
     /\ RowStep(flights[f], agreed[f], released[f],
                flights'[f], agreed'[f], released'[f])

-----------------------------------------------------------------------------
(* What FlightStep is good for.                                            *)

LEMMA StageIs ==
  /\ Stage["absent"] = "none" /\ Stage["draft"] = "draft"
  /\ Stage["offered"] = "offered" /\ Stage["accepted"] = "agreed"
  /\ Stage["briefed"] = "released" /\ Stage["active"] = "flying"
  /\ Stage["completed"] = "flown" /\ Stage["declined"] = "closed"
  /\ Stage["cancelled"] = "closed"
BY DEF Stage

\* The abstract actions that set two fields, with their records written out.
LEMMA AcceptRecords ==
  ASSUME NEW t, NEW a, NEW r
  PROVE  Contract!Accept(
           [stage |-> "offered", terms |-> t, agreed |-> a, released |-> r],
           [stage |-> "agreed", terms |-> t, agreed |-> t, released |-> r])
<1> DEFINE old == [stage |-> "offered", terms |-> t, agreed |-> a, released |-> r]
           mid == [old EXCEPT !.stage = "agreed"]
<1>1. mid = [stage |-> "agreed", terms |-> t, agreed |-> a, released |-> r]
  OBVIOUS
<1> HIDE DEF mid
<1>2. [mid EXCEPT !.agreed = t]
        = [stage |-> "agreed", terms |-> t, agreed |-> t, released |-> r]
  BY <1>1
<1> QED
  BY <1>2 DEF Contract!Accept, mid

LEMMA ReleaseRecords ==
  ASSUME NEW st \in {"agreed", "released"}, NEW t, NEW a, NEW r
  PROVE  Contract!Release(
           [stage |-> st, terms |-> t, agreed |-> a, released |-> r],
           [stage |-> "released", terms |-> t, agreed |-> a, released |-> t])
<1> DEFINE old == [stage |-> st, terms |-> t, agreed |-> a, released |-> r]
           mid == [old EXCEPT !.stage = "released"]
<1>1. mid = [stage |-> "released", terms |-> t, agreed |-> a, released |-> r]
  OBVIOUS
<1> HIDE DEF mid
<1>2. [mid EXCEPT !.released = t]
        = [stage |-> "released", terms |-> t, agreed |-> a, released |-> t]
  BY <1>1
<1> QED
  BY <1>2 DEF Contract!Release, mid

LEMMA AmendRecords ==
  ASSUME NEW st \in {"draft", "offered", "agreed", "released"},
         NEW t, NEW a, NEW r, NEW u \in Terms
  PROVE  Contract!Amend(
           [stage |-> st, terms |-> t, agreed |-> a, released |-> r],
           [stage |-> IF st = "draft" THEN "draft" ELSE "offered",
            terms |-> u, agreed |-> a, released |-> r])
<1> DEFINE old == [stage |-> st, terms |-> t, agreed |-> a, released |-> r]
           mid == [old EXCEPT !.terms = u]
           to == IF st = "draft" THEN st ELSE "offered"
<1>1. mid = [stage |-> st, terms |-> u, agreed |-> a, released |-> r]
  OBVIOUS
<1> HIDE DEF mid
<1>2. [mid EXCEPT !.stage = to]
        = [stage |-> to, terms |-> u, agreed |-> a, released |-> r]
  BY <1>1
<1> QED
  BY <1>2 DEF Contract!Amend, mid

LEMMA ProposeRecords ==
  ASSUME NEW st \in {"draft", "offered"}, NEW t \in Terms
  PROVE  Contract!Propose(
           Contract!Blank,
           [stage |-> st, terms |-> t, agreed |-> Null, released |-> Null])
<1> DEFINE mid == [Contract!Blank EXCEPT !.stage = st]
<1>1. mid = [stage |-> st, terms |-> Null, agreed |-> Null, released |-> Null]
  BY DEF Contract!Blank
<1> HIDE DEF mid
<1>2. [mid EXCEPT !.terms = t]
        = [stage |-> st, terms |-> t, agreed |-> Null, released |-> Null]
  BY <1>1
<1> QED
  BY <1>2 DEF Contract!Propose, mid

LEMMA RowStepContract ==
  ASSUME NEW row \in Row, NEW row2 \in Row, NEW a, NEW r, NEW a2, NEW r2,
         RowOK(row, a, r), RowStep(row, a, r, row2, a2, r2)
  PROVE  \/ ContractOfRow(row2, a2, r2) = ContractOfRow(row, a, r)
         \/ Contract!Step(ContractOfRow(row, a, r), ContractOfRow(row2, a2, r2))
<1> DEFINE old == ContractOfRow(row, a, r)
           new == ContractOfRow(row2, a2, r2)
<1>1. /\ row # NoRow /\ row2 # NoRow
      /\ row.terms \in Terms /\ row2.terms \in Terms
  BY NoRowNotRow DEF Row
<1>2. /\ old = [stage |-> Stage[row.status], terms |-> row.terms,
                agreed |-> a, released |-> r]
      /\ new = [stage |-> Stage[row2.status], terms |-> row2.terms,
                agreed |-> a2, released |-> r2]
  BY <1>1 DEF ContractOfRow
<1> DEFINE same == row2.terms = row.terms /\ a2 = a /\ r2 = r
<1>3. CASE row2.status = row.status /\ same
  BY <1>2, <1>3
<1>4. CASE row.status = "draft" /\ row2.status = "offered" /\ same
  BY <1>2, <1>4, StageIs DEF Contract!Step, Contract!Offer
<1>5. CASE /\ row.status = "offered" /\ row2.status = "accepted"
           /\ row2.terms = row.terms /\ a2 = row.terms /\ r2 = r
  <2>1. Contract!Accept(old, new)
    BY <1>2, <1>5, StageIs, AcceptRecords
  <2> QED
    BY <2>1 DEF Contract!Step
<1>6. CASE /\ row.status \in {"accepted", "briefed"} /\ row2.status = "briefed"
           /\ row2.terms = row.terms /\ a2 = a /\ r2 = row.terms
  <2>1. Stage[row.status] \in {"agreed", "released"}
    BY <1>6, StageIs
  <2>2. Contract!Release(old, new)
    BY <1>2, <1>6, <2>1, StageIs, ReleaseRecords
  <2> QED
    BY <2>2 DEF Contract!Step
<1>7. CASE row.status = "briefed" /\ row2.status = "active" /\ same
  <2>1. a = row.terms /\ r = row.terms
    BY <1>1, <1>7 DEF RowOK, Signed, Scheduled, Operational
  <2> QED
    BY <1>2, <1>7, <2>1, StageIs DEF Contract!Step, Contract!Depart
<1>8. CASE row.status = "active" /\ row2.status = "completed" /\ same
  BY <1>2, <1>8, StageIs DEF Contract!Step, Contract!Arrive
<1>9. CASE /\ row.status \in Predeparture
           /\ row2.status = IF row.status = "draft" THEN "draft" ELSE "offered"
           /\ a2 = a /\ r2 = r
  <2> DEFINE st == Stage[row.status]
  <2>1. /\ st \in {"draft", "offered", "agreed", "released"}
        /\ Stage[row2.status] = IF st = "draft" THEN "draft" ELSE "offered"
    BY <1>9, StageIs DEF Predeparture
  <2>2. new = [stage |-> IF st = "draft" THEN "draft" ELSE "offered",
               terms |-> row2.terms, agreed |-> a, released |-> r]
    BY <1>2, <1>9, <2>1
  <2>3. old = [stage |-> st, terms |-> row.terms, agreed |-> a, released |-> r]
    BY <1>2
  <2> HIDE DEF st, old, new
  <2>4. Contract!Amend(old, new)
    BY <1>1, <2>1, <2>2, <2>3, AmendRecords
  <2>5. Contract!Step(old, new)
    BY <2>4 DEF Contract!Step
  <2> QED
    BY <2>5 DEF old, new
<1>10. CASE row.status = "offered" /\ row2.status = "declined" /\ same
  BY <1>2, <1>10, StageIs DEF Contract!Step, Contract!Close
<1>11. CASE /\ row.status \in Predeparture \cup {"active"}
            /\ row2.status = "cancelled" /\ same
  BY <1>2, <1>11, StageIs DEF Contract!Step, Contract!Close, Predeparture
<1> QED
  BY <1>3, <1>4, <1>5, <1>6, <1>7, <1>8, <1>9, <1>10, <1>11
     DEF RowStep

LEMMA FlightStepContract ==
  ASSUME IInv, NEW f \in Flights, FlightStep(f)
  PROVE  \/ ContractOf'[f] = ContractOf[f]
         \/ Contract!Step(ContractOf[f], ContractOf'[f])
<1>1. /\ ContractOf[f] = ContractOfRow(flights[f], agreed[f], released[f])
      /\ ContractOf'[f] = ContractOfRow(flights'[f], agreed'[f], released'[f])
  BY DEF ContractOf, ContractOfRow
<1>2. RowOK(flights[f], agreed[f], released[f])
  BY DEF IInv, RowsOK
<1>3. CASE /\ flights'[f] = flights[f]
           /\ agreed'[f] = agreed[f] /\ released'[f] = released[f]
  BY <1>1, <1>3
<1>4. CASE /\ ~Exists(f)
           /\ flights'[f] \in Row
           /\ flights'[f].status \in {"draft", "offered"}
           /\ agreed'[f] = agreed[f] /\ released'[f] = released[f]
           /\ MayReplace(flights'[f])
           /\ \A g \in Flights \ {f} : flights'[g] = flights[g]
  <2>1. flights[f] = NoRow /\ agreed[f] = Null /\ released[f] = Null
    BY <1>2, <1>4 DEF Exists, RowOK
  <2>2. ContractOf[f] = Contract!Blank
    BY <1>1, <2>1, StageIs DEF ContractOfRow, NoRow, Contract!Blank
  <2>3. /\ flights'[f] # NoRow
        /\ flights'[f].terms \in Terms
        /\ Stage[flights'[f].status] = flights'[f].status
    BY <1>4, NoRowNotRow, StageIs DEF Row
  <2>4. ContractOf'[f] = [stage |-> flights'[f].status,
                          terms |-> flights'[f].terms,
                          agreed |-> Null, released |-> Null]
    BY <1>1, <1>4, <2>1, <2>3 DEF ContractOfRow
  <2>5. Contract!Propose(ContractOf[f], ContractOf'[f])
    BY <1>4, <2>2, <2>3, <2>4, ProposeRecords
  <2> QED
    BY <2>5 DEF Contract!Step
<1>5. CASE /\ Exists(f)
           /\ flights'[f] \in Row
           /\ flights'[f].request = flights[f].request
           /\ flights'[f].replaces = flights[f].replaces
           /\ RowStep(flights[f], agreed[f], released[f],
                      flights'[f], agreed'[f], released'[f])
  <2>1. flights[f] \in Row
    BY <1>5, LoadedRow
  <2> QED
    BY <1>1, <1>2, <1>5, <2>1, RowStepContract
<1> QED
  BY <1>3, <1>4, <1>5 DEF FlightStep

-----------------------------------------------------------------------------
(* Every action consists of FlightSteps.                                   *)

LEMMA BumpKeeps ==
  ASSUME NEW row \in Row
  PROVE  /\ Bump(row).request = row.request
         /\ Bump(row).replaces = row.replaces
BY DEF Bump, Row

\* Versioned updates of the loaded flight.
LEMMA UpdateSteps ==
  ASSUME IInv, NEW s \in Sessions, Running(s), handlers[s].op \notin Creating,
         NEW row \in Row, UpdateFlight(s, row),
         row.request = flights[handlers[s].flight].request,
         row.replaces = flights[handlers[s].flight].replaces,
         RowStep(flights[handlers[s].flight], agreed[handlers[s].flight],
                 released[handlers[s].flight], row,
                 agreed'[handlers[s].flight], released'[handlers[s].flight]),
         \A g \in Flights \ {handlers[s].flight} :
           agreed'[g] = agreed[g] /\ released'[g] = released[g]
  PROVE  \A g \in Flights : FlightStep(g)
<1> DEFINE f == handlers[s].flight
<1>1. f \in Flights /\ flights[f] \in Row /\ Exists(f)
  BY RunningFacts, NoRowNotRow DEF Exists
<1>2. /\ flights'[f] = Bump(row)
      /\ \A g \in Flights \ {f} : flights'[g] = flights[g]
  BY <1>1 DEF UpdateFlight, IInv, TablesOK
<1>3. /\ flights'[f] \in Row
      /\ flights'[f].request = flights[f].request
      /\ flights'[f].replaces = flights[f].replaces
      /\ flights'[f].status = row.status
      /\ flights'[f].terms = row.terms
  BY <1>2, BumpRow, BumpKeeps
<1>4. RowStep(flights[f], agreed[f], released[f],
              flights'[f], agreed'[f], released'[f])
  BY <1>3 DEF RowStep
<1>5. FlightStep(f)
  BY <1>1, <1>3, <1>4 DEF FlightStep
<1> HIDE DEF f
<1>6. \A g \in Flights \ {f} : FlightStep(g)
  BY <1>2 DEF FlightStep, f
<1> QED
  BY <1>5, <1>6

LEMMA CommitStatusSteps ==
  ASSUME IInv, NEW s \in Sessions, CommitStatus(s)
  PROVE  \A f \in Flights : FlightStep(f)
<1> DEFINE h == handlers[s]
           ops == {"offer", "decline", "cancel", "finish"}
           row == [flights[h.flight] EXCEPT !.status = StatusWritten[h.op]]
<1>1. /\ UpdateFlight(s, row)
      /\ Committing(s, ops)
      /\ UNCHANGED <<released, members, requests, agreed>>
  BY DEF CommitStatus
<1>2. /\ Running(s) /\ h.op \in ops /\ h.op \notin Creating
      /\ h.flight \in Flights
      /\ flights[h.flight] \in Row
      /\ flights[h.flight].status \in LoadedStatus(h.op)
  <2>1. AtVersion(h.flight, h.seen)
    BY <1>1 DEF UpdateFlight
  <2>2. ops \cap Creating = {}
    BY DEF Creating
  <2> QED
    BY <1>1, <2>1, <2>2, CommitFacts
<1>3. StatusWritten[h.op] \in FlightStatus
  BY <1>2 DEF StatusWritten, FlightStatus, Predeparture, Terminal
<1>4. /\ row \in Row
      /\ row.status = StatusWritten[h.op]
      /\ row.terms = flights[h.flight].terms
      /\ row.request = flights[h.flight].request
      /\ row.replaces = flights[h.flight].replaces
  BY <1>2, <1>3 DEF Row
<1>5. RowStep(flights[h.flight], agreed[h.flight], released[h.flight],
              row, agreed'[h.flight], released'[h.flight])
  <2> HIDE DEF row
  <2> QED
    BY <1>1, <1>2, <1>4 DEF RowStep, LoadedStatus, StatusWritten
<1> HIDE DEF row
<1> QED
  BY <1>1, <1>2, <1>4, <1>5, UpdateSteps

LEMMA CommitAgreementSteps ==
  ASSUME IInv, NEW s \in Sessions, CommitAgreement(s)
  PROVE  \A f \in Flights : FlightStep(f)
<1> DEFINE h == handlers[s]
           row == [flights[h.flight] EXCEPT
                     !.status = IF h.op = "accept" THEN "accepted" ELSE @,
                     !.conf = h.seen.rev]
<1>1. /\ UpdateFlight(s, row)
      /\ Committing(s, {"accept", "confirm"})
      /\ agreed' = [agreed EXCEPT ![h.flight] = h.seen.terms]
      /\ UNCHANGED <<released, members, requests>>
  BY DEF CommitAgreement
<1>2. /\ Running(s) /\ h.op \in {"accept", "confirm"} /\ h.op \notin Creating
      /\ h.flight \in Flights
      /\ h.seen \in Row
      /\ flights[h.flight] = h.seen
      /\ h.seen.status \in LoadedStatus(h.op)
  <2>1. AtVersion(h.flight, h.seen)
    BY <1>1 DEF UpdateFlight
  <2>2. {"accept", "confirm"} \cap Creating = {}
    BY DEF Creating
  <2> QED
    BY <1>1, <2>1, <2>2, CommitFacts
<1>3. h.op = "accept" /\ h.seen.status = "offered"
  BY <1>2 DEF LoadedStatus
<1>4. /\ row \in Row
      /\ row.status = "accepted"
      /\ row.terms = h.seen.terms
      /\ row.request = h.seen.request
      /\ row.replaces = h.seen.replaces
  BY <1>2, <1>3 DEF Row, FlightStatus, Predeparture
<1>5. /\ agreed'[h.flight] = h.seen.terms
      /\ \A g \in Flights \ {h.flight} :
           agreed'[g] = agreed[g] /\ released'[g] = released[g]
  BY <1>1, <1>2 DEF IInv, TablesOK
<1> HIDE DEF row
<1>6. RowStep(flights[h.flight], agreed[h.flight], released[h.flight],
              row, agreed'[h.flight], released'[h.flight])
  BY <1>1, <1>2, <1>3, <1>4, <1>5 DEF RowStep
<1> QED
  BY <1>1, <1>2, <1>4, <1>5, <1>6, UpdateSteps

LEMMA CommitPatchSteps ==
  ASSUME IInv, NEW s \in Sessions, CommitPatch(s)
  PROVE  \A f \in Flights : FlightStep(f)
<1> DEFINE h == handlers[s]
           status == PatchedStatus(h.seen, h.wish)
           rev == PatchedRevision(h.seen, h.wish)
           row == [flights[h.flight] EXCEPT
                     !.status = status, !.terms = h.wish, !.rev = rev]
<1>1. /\ UpdateFlight(s, row)
      /\ Committing(s, {"patch"})
      /\ UNCHANGED <<released, members, requests, agreed>>
  BY DEF CommitPatch
<1>2. /\ Running(s) /\ h.op = "patch" /\ h.op \notin Creating
      /\ h \in Pending
      /\ h.flight \in Flights
      /\ h.seen \in Row
      /\ flights[h.flight] = h.seen
      /\ h.seen.status \in LoadedStatus("patch")
      /\ HandlerOK(h)
  <2>1. AtVersion(h.flight, h.seen)
    BY <1>1 DEF UpdateFlight
  <2>2. {"patch"} \cap Creating = {}
    BY DEF Creating
  <2> QED
    BY <1>1, <2>1, <2>2, CommitFacts
<1>3. status \in FlightStatus /\ rev \in Nat /\ h.wish \in Terms
  BY <1>2 DEF PatchedStatus, PatchedRevision, Row, Pending, FlightStatus,
              Predeparture
<1>4. \/ status = h.seen.status /\ h.wish = h.seen.terms
      \/ /\ h.seen.status \in Predeparture
         /\ status = IF h.seen.status = "draft" THEN "draft" ELSE "offered"
  BY <1>2 DEF PatchedStatus, HandlerOK, LoadedStatus, Predeparture
<1> HIDE DEF status, rev
<1>5. /\ row \in Row
      /\ row.status = status
      /\ row.terms = h.wish
      /\ row.request = h.seen.request
      /\ row.replaces = h.seen.replaces
  BY <1>2, <1>3 DEF Row
<1> HIDE DEF row
<1>6. RowStep(flights[h.flight], agreed[h.flight], released[h.flight],
              row, agreed'[h.flight], released'[h.flight])
  BY <1>1, <1>2, <1>4, <1>5 DEF RowStep
<1> QED
  BY <1>1, <1>2, <1>5, <1>6, UpdateSteps

LEMMA CommitPublishSteps ==
  ASSUME IInv, NEW s \in Sessions, CommitPublish(s)
  PROVE  \A f \in Flights : FlightStep(f)
<1> DEFINE h == handlers[s]
           row == [flights[h.flight] EXCEPT !.status = "briefed"]
<1>1. /\ UpdateFlight(s, row)
      /\ Committing(s, {"publish"})
      /\ released' = [released EXCEPT ![h.flight] = h.seen.terms]
      /\ UNCHANGED <<members, requests, agreed>>
  BY DEF CommitPublish
<1>2. /\ Running(s) /\ h.op = "publish" /\ h.op \notin Creating
      /\ h.flight \in Flights
      /\ h.seen \in Row
      /\ flights[h.flight] = h.seen
      /\ h.seen.status \in LoadedStatus("publish")
  <2>1. AtVersion(h.flight, h.seen)
    BY <1>1 DEF UpdateFlight
  <2>2. {"publish"} \cap Creating = {}
    BY DEF Creating
  <2> QED
    BY <1>1, <2>1, <2>2, CommitFacts
<1>3. h.seen.status \in {"accepted", "briefed"}
  BY <1>2 DEF LoadedStatus
<1>4. /\ row \in Row
      /\ row.status = "briefed"
      /\ row.terms = h.seen.terms
      /\ row.request = h.seen.request
      /\ row.replaces = h.seen.replaces
  BY <1>2 DEF Row, FlightStatus, Predeparture
<1>5. /\ released'[h.flight] = h.seen.terms
      /\ \A g \in Flights \ {h.flight} :
           agreed'[g] = agreed[g] /\ released'[g] = released[g]
  BY <1>1, <1>2 DEF IInv, TablesOK
<1> HIDE DEF row
<1>6. RowStep(flights[h.flight], agreed[h.flight], released[h.flight],
              row, agreed'[h.flight], released'[h.flight])
  BY <1>1, <1>2, <1>3, <1>4, <1>5 DEF RowStep
<1> QED
  BY <1>1, <1>2, <1>4, <1>5, <1>6, UpdateSteps

LEMMA CommitStartSteps ==
  ASSUME IInv, NEW s \in Sessions, CommitStart(s)
  PROVE  \A f \in Flights : FlightStep(f)
<1> DEFINE h == handlers[s]
           conf == IF h.asDispatcher THEN flights[h.flight].conf ELSE h.seen.rev
           row == [flights[h.flight] EXCEPT !.status = "active", !.conf = conf]
<1>1. /\ UpdateFlight(s, row)
      /\ Committing(s, {"start"})
      /\ UNCHANGED <<released, members, requests, agreed>>
  BY DEF CommitStart
<1>2. /\ Running(s) /\ h.op = "start" /\ h.op \notin Creating
      /\ h.seen \in Row
      /\ flights[h.flight] = h.seen
      /\ h.seen.status \in LoadedStatus("start")
  <2>1. AtVersion(h.flight, h.seen)
    BY <1>1 DEF UpdateFlight
  <2>2. {"start"} \cap Creating = {}
    BY DEF Creating
  <2> QED
    BY <1>1, <2>1, <2>2, CommitFacts
<1>3. h.seen.status = "briefed" /\ conf \in Nat
  BY <1>2 DEF LoadedStatus, Row
<1> HIDE DEF conf
<1>4. /\ row \in Row
      /\ row.status = "active"
      /\ row.terms = h.seen.terms
      /\ row.request = h.seen.request
      /\ row.replaces = h.seen.replaces
  BY <1>2, <1>3 DEF Row, FlightStatus
<1> HIDE DEF row
<1>5. RowStep(flights[h.flight], agreed[h.flight], released[h.flight],
              row, agreed'[h.flight], released'[h.flight])
  BY <1>1, <1>2, <1>3, <1>4 DEF RowStep
<1> QED
  BY <1>1, <1>2, <1>4, <1>5, UpdateSteps

LEMMA CommitHoppieSteps ==
  ASSUME IInv, NEW s \in Sessions, CommitHoppie(s)
  PROVE  \A f \in Flights : FlightStep(f)
<1> DEFINE h == handlers[s]
           status == HoppieStatus(h.seen, h.op)
           conf == IF h.op \in {"on", "in"} THEN flights[h.flight].conf
                                            ELSE h.seen.rev
           row == [flights[h.flight] EXCEPT !.status = status, !.conf = conf]
<1>1. /\ UpdateFlight(s, row)
      /\ Committing(s, HoppieKinds)
      /\ UNCHANGED <<released, members, requests, agreed>>
  BY DEF CommitHoppie
<1>2. /\ Running(s) /\ h.op \in HoppieKinds /\ h.op \notin Creating
      /\ h.seen \in Row
      /\ flights[h.flight] = h.seen
      /\ h.seen.status \in LoadedStatus(h.op)
  <2>1. AtVersion(h.flight, h.seen)
    BY <1>1 DEF UpdateFlight
  <2>2. HoppieKinds \cap Creating = {}
    BY DEF Creating, HoppieKinds
  <2> QED
    BY <1>1, <2>1, <2>2, CommitFacts
<1>3. \/ status = h.seen.status
      \/ h.seen.status = "briefed" /\ status = "active"
      \/ h.seen.status = "active" /\ status = "completed"
  BY <1>2 DEF HoppieStatus, HoppieKinds, LoadedStatus
<1>4. status \in FlightStatus /\ conf \in Nat
  BY <1>2, <1>3 DEF Row, FlightStatus, Terminal
<1> HIDE DEF status, conf
<1>5. /\ row \in Row
      /\ row.status = status
      /\ row.terms = h.seen.terms
      /\ row.request = h.seen.request
      /\ row.replaces = h.seen.replaces
  BY <1>2, <1>4 DEF Row
<1> HIDE DEF row
<1>6. RowStep(flights[h.flight], agreed[h.flight], released[h.flight],
              row, agreed'[h.flight], released'[h.flight])
  BY <1>1, <1>2, <1>3, <1>5 DEF RowStep
<1> QED
  BY <1>1, <1>2, <1>5, <1>6, UpdateSteps

\* Inserts.
LEMMA InsertSteps ==
  ASSUME IInv, NEW f \in Flights, ~Exists(f),
         NEW row \in Row, row.status \in {"draft", "offered"}, MayReplace(row),
         flights' = [flights EXCEPT ![f] = row],
         UNCHANGED <<released, agreed>>
  PROVE  \A g \in Flights : FlightStep(g)
<1>1. flights'[f] = row /\ \A g \in Flights \ {f} : flights'[g] = flights[g]
  BY DEF IInv, TablesOK
<1>2. FlightStep(f)
  BY <1>1 DEF FlightStep, MayReplace
<1>3. \A g \in Flights \ {f} : FlightStep(g)
  BY <1>1 DEF FlightStep
<1> QED
  BY <1>2, <1>3

LEMMA NewRowFields ==
  ASSUME NEW status, NEW terms, NEW request, NEW replaces
  PROVE  /\ NewRow(status, terms, request, replaces).replaces = replaces
         /\ NewRow(status, terms, request, replaces).request = request
BY DEF NewRow

LEMMA CommitCreateSteps ==
  ASSUME IInv, NEW s \in Sessions, NEW f \in Flights, CommitCreate(s, f)
  PROVE  \A g \in Flights : FlightStep(g)
<1> DEFINE h == handlers[s]
           status == IF h.op = "createDraft" THEN "draft" ELSE "offered"
           row == NewRow(status, h.wish, Null, Null)
<1>1. /\ ~Exists(f)
      /\ flights' = [flights EXCEPT ![f] = row]
      /\ UNCHANGED <<released, agreed>>
  BY DEF CommitCreate
<1>2. h.wish \in Terms
  BY DEF CommitCreate, Committing, At, Running, IInv, TablesOK, Pending
<1>3. status \in FlightStatus /\ status \in {"draft", "offered"}
  BY DEF FlightStatus, Predeparture
<1> HIDE DEF status
<1>4. row \in Row /\ row.status = status /\ row.replaces = Null
  BY <1>2, <1>3, NewRowType, NewRowFields
<1> HIDE DEF row
<1>5. MayReplace(row)
  BY <1>4 DEF MayReplace
<1> QED
  BY <1>1, <1>3, <1>4, <1>5, InsertSteps

LEMMA CommitReofferSteps ==
  ASSUME IInv, NEW s \in Sessions, NEW f \in Flights, CommitReoffer(s, f)
  PROVE  \A g \in Flights : FlightStep(g)
<1> DEFINE h == handlers[s]
           source == flights[h.flight]
           terms == [source.terms EXCEPT !.pilot = h.wish.pilot]
           row == NewRow("offered", terms, source.request, h.flight)
<1>1. /\ ~Exists(f)
      /\ flights' = [flights EXCEPT ![f] = row]
      /\ UNCHANGED <<released, agreed>>
      /\ Running(s) /\ h.op = "reoffer"
      /\ source.status = "declined"
      /\ \A g \in Flights : Exists(g) => flights[g].replaces # h.flight
  BY DEF CommitReoffer, Committing, At
<1>2. h \in Pending /\ h.flight \in Flights /\ source \in Row
  <2>1. h.op \notin Creating
    BY <1>1 DEF Creating
  <2> QED
    BY <1>1, <2>1, RunningFacts
<1>3. terms \in Terms /\ source.request \in Requests \cup {Null}
  BY <1>2 DEF Row, Pending, Terms
<1>4. "offered" \in FlightStatus
  BY DEF FlightStatus, Predeparture
<1> HIDE DEF terms
<1>5. /\ row \in Row /\ row.status = "offered"
      /\ row.replaces = h.flight /\ row.request = source.request
  BY <1>2, <1>3, <1>4, NewRowType, NewRowFields
<1> HIDE DEF row
<1>6. MayReplace(row)
  BY <1>1, <1>2, <1>5, NoRowNotRow DEF MayReplace, Exists
<1> QED
  BY <1>1, <1>5, <1>6, InsertSteps

LEMMA OfferForRequestSteps ==
  ASSUME IInv, NEW q \in Requests, NEW f \in Flights, NEW time \in Times,
         NEW route \in Routes, NEW to \in {"partially_fulfilled", "fulfilled"},
         OfferForRequest(q, f, time, route, to)
  PROVE  \A g \in Flights : FlightStep(g)
<1> DEFINE terms == [pilot |-> requests[q].pilot, time |-> time, route |-> route]
           row == NewRow("offered", terms, q, Null)
<1>1. /\ ~Exists(f)
      /\ flights' = [flights EXCEPT ![f] = row]
      /\ UNCHANGED <<released, agreed>>
  BY DEF OfferForRequest
<1>2. terms \in Terms
  BY DEF IInv, TablesOK, RequestRow, Terms
<1>3. "offered" \in FlightStatus
  BY DEF FlightStatus, Predeparture
<1> HIDE DEF terms
<1>4. row \in Row /\ row.status = "offered" /\ row.replaces = Null
  BY <1>2, <1>3, NewRowType, NewRowFields
<1> HIDE DEF row
<1>5. MayReplace(row)
  BY <1>4 DEF MayReplace
<1> QED
  BY <1>1, <1>4, <1>5, InsertSteps

LEMMA TouchOooiSteps ==
  ASSUME IInv, NEW f \in Flights, TouchOooi(f)
  PROVE  \A g \in Flights : FlightStep(g)
<1>1. /\ Exists(f)
      /\ flights' = [flights EXCEPT ![f] = Bump(flights[f])]
      /\ UNCHANGED <<released, agreed>>
  BY DEF TouchOooi
<1>2. flights[f] \in Row
  BY <1>1, LoadedRow
<1>3. /\ flights'[f] = Bump(flights[f])
      /\ \A g \in Flights \ {f} : flights'[g] = flights[g]
  BY <1>1 DEF IInv, TablesOK
<1>4. FlightStep(f)
  BY <1>1, <1>2, <1>3, BumpRow, BumpKeeps DEF FlightStep, RowStep
<1>5. \A g \in Flights \ {f} : FlightStep(g)
  BY <1>1, <1>3 DEF FlightStep
<1> QED
  BY <1>4, <1>5

LEMMA MoveRequestSteps ==
  ASSUME IInv, NEW q \in Requests, NEW to \in {"rejected", "cancelled"},
         NEW cancelFlights \in BOOLEAN, MoveRequest(q, to, cancelFlights),
         NEW f \in Flights
  PROVE  FlightStep(f)
<1> DEFINE dropped == {g \in Flights : /\ cancelFlights
                                       /\ Exists(g)
                                       /\ flights[g].request = q
                                       /\ flights[g].status \in Predeparture}
           mid == [flights[f] EXCEPT !.status = "cancelled"]
<1>1. /\ flights'[f] = IF f \in dropped THEN Bump(mid) ELSE flights[f]
      /\ UNCHANGED <<released, agreed>>
  BY DEF MoveRequest
<1>2. CASE f \in dropped
  <2>1. Exists(f) /\ flights[f].status \in Predeparture /\ flights[f] \in Row
    BY <1>2, LoadedRow
  <2>2. "cancelled" \in FlightStatus
    BY DEF FlightStatus, Terminal
  <2>3. /\ mid \in Row
        /\ mid.status = "cancelled"
        /\ mid.terms = flights[f].terms
        /\ mid.request = flights[f].request
        /\ mid.replaces = flights[f].replaces
    BY <2>1, <2>2 DEF Row
  <2>4. flights'[f] = Bump(mid)
    BY <1>1, <1>2
  <2> HIDE DEF mid
  <2>5. /\ flights'[f] \in Row
        /\ flights'[f].status = "cancelled"
        /\ flights'[f].terms = flights[f].terms
        /\ flights'[f].request = flights[f].request
        /\ flights'[f].replaces = flights[f].replaces
    BY <2>3, <2>4, BumpRow, BumpKeeps
  <2> QED
    BY <1>1, <2>1, <2>5 DEF FlightStep, RowStep
<1>3. CASE f \notin dropped
  BY <1>1, <1>3 DEF FlightStep
<1> QED
  BY <1>2, <1>3

LEMMA HandoverFields ==
  ASSUME NEW row \in Row, row.status \in Predeparture, NEW r \in Members
  PROVE  /\ Handover(row, r).status =
              IF row.status = "draft" THEN "draft" ELSE "offered"
         /\ Handover(row, r).request = row.request
         /\ Handover(row, r).replaces = row.replaces
<1> DEFINE status == IF row.status \in {"accepted", "briefed"} THEN "offered"
                                                              ELSE row.status
           terms == [row.terms EXCEPT !.pilot = r]
           moved == [row EXCEPT !.terms = terms, !.rev = row.rev + 1,
                                !.conf = 0, !.status = status]
<1>1. /\ status = IF row.status = "draft" THEN "draft" ELSE "offered"
      /\ status \in FlightStatus
      /\ terms \in Terms
      /\ row.rev + 1 \in Nat
  BY DEF Predeparture, FlightStatus, Row, Terms
<1>2. Handover(row, r) = Bump(moved)
  BY DEF Handover, Row, Terms
<1> HIDE DEF status, terms
<1>3. /\ moved \in Row /\ moved.status = status
      /\ moved.request = row.request /\ moved.replaces = row.replaces
  BY <1>1 DEF Row
<1> QED
  BY <1>1, <1>2, <1>3, BumpRow, BumpKeeps

LEMMA CommitChangeSteps ==
  ASSUME IInv, ChangeOK, CommitChange, NEW f \in Flights
  PROVE  FlightStep(f)
<1> DEFINE r == change.to
           moved == FlightsToHandOver
<1>1. /\ flights'[f] = IF f \in moved THEN Handover(flights[f], r) ELSE flights[f]
      /\ UNCHANGED <<released, agreed>>
  BY DEF CommitChange
<1>2. CASE f \in moved
  <2>1. /\ r \in Members /\ f \in LockedFlights
        /\ flights[f].status # "active"
    BY <1>2, ChangeTyped DEF CommitChange, FlightsToHandOver
  <2>2. Exists(f) /\ flights[f].status \in Predeparture /\ flights[f] \in Row
    BY <2>1, LoadedRow DEF LockedFlights, HeldFlights
  <2>3. flights'[f] = Handover(flights[f], r)
    BY <1>1, <1>2
  <2> HIDE DEF r
  <2>4. /\ flights'[f] \in Row
        /\ flights'[f].status = IF flights[f].status = "draft" THEN "draft"
                                                               ELSE "offered"
        /\ flights'[f].request = flights[f].request
        /\ flights'[f].replaces = flights[f].replaces
    BY <2>1, <2>2, <2>3, HandoverRow, HandoverFields
  <2> QED
    BY <1>1, <2>2, <2>4 DEF FlightStep, RowStep
<1>3. CASE f \notin moved
  BY <1>1, <1>3 DEF FlightStep
<1> QED
  BY <1>2, <1>3

\* Loading, checking and giving up leave the flights alone.
LEMMA OtherSteps ==
  ASSUME UNCHANGED <<flights, released, agreed>>
  PROVE  \A f \in Flights : FlightStep(f)
BY DEF FlightStep

LEMMA BeginUnchanged ==
  ASSUME NEW s \in Sessions, NEW m \in Members, Begin(s, m)
  PROVE  UNCHANGED <<flights, released, agreed>>
BY DEF Begin, BeginCreate, BeginOffer, BeginAnswer, BeginCancel, BeginPatch,
       BeginPublish, BeginStart, BeginFinish, BeginHoppie, BeginReoffer,
       Load, Enter

LEMMA CheckUnchanged ==
  ASSUME NEW s \in Sessions, Check(s) \/ Abort(s)
  PROVE  UNCHANGED <<flights, released, agreed>>
BY DEF Check, Abort, ResolveRequest, CheckPilot, CheckRelease, Advance

LEMMA NextSteps ==
  ASSUME IInv, ChangeOK, [Next]_vars, NEW f \in Flights
  PROVE  FlightStep(f)
<1>1. ASSUME NEW s \in Sessions, NEW m \in Members, Begin(s, m)
      PROVE  FlightStep(f)
  BY <1>1, BeginUnchanged, OtherSteps
<1>2. ASSUME NEW s \in Sessions, Check(s) \/ Abort(s)
      PROVE  FlightStep(f)
  BY <1>2, CheckUnchanged, OtherSteps
<1>3. ASSUME NEW s \in Sessions, Commit(s)
      PROVE  FlightStep(f)
  BY <1>3, CommitStatusSteps, CommitAgreementSteps, CommitPatchSteps,
     CommitPublishSteps, CommitStartSteps, CommitHoppieSteps,
     CommitCreateSteps, CommitReofferSteps DEF Commit
<1>4. CASE FlightNext
  BY <1>1, <1>2, <1>3, <1>4, TouchOooiSteps DEF FlightNext
<1>5. CASE MemberNext
  BY <1>5, CommitChangeSteps, OtherSteps
     DEF MemberNext, BeginChange, AbortChange, tables
<1>6. CASE RequestNext
  BY <1>6, OfferForRequestSteps, MoveRequestSteps DEF RequestNext
<1>7. CASE UNCHANGED vars
  BY <1>7, OtherSteps DEF vars, tables
<1> QED
  BY <1>4, <1>5, <1>6, <1>7 DEF Next

-----------------------------------------------------------------------------
(* The theorems.                                                           *)

\* transitions.ts, with the return to offered that edits and handovers take,
\* covers every status change of any handler.
THEOREM StatusMovesLegal == Spec => LegalSteps
<1>1. ASSUME IInv, ChangeOK, [Next]_vars, NEW f \in Flights, Exists(f)
      PROVE  LET old == flights[f]
                 new == flights'[f] IN
               /\ \/ new.status = old.status
                  \/ new.status \in Successors[old.status]
                  \/ old.status \in {"accepted", "briefed"} /\ new.status = "offered"
               /\ old.status \in Terminal => new.terms = old.terms
  <2>1. FlightStep(f)
    BY <1>1, NextSteps
  <2>2. CASE flights'[f] = flights[f]
    BY <2>2
  <2>3. CASE RowStep(flights[f], agreed[f], released[f],
                     flights'[f], agreed'[f], released'[f])
    BY <2>3 DEF RowStep, Successors, Terminal, Predeparture
  <2> QED
    BY <1>1, <2>1, <2>2, <2>3 DEF FlightStep
<1>2. IInv /\ ChangeOK /\ [Next]_vars =>
        [\A f \in Flights : Exists(f) =>
           LET old == flights[f]
               new == flights'[f] IN
             /\ \/ new.status = old.status
                \/ new.status \in Successors[old.status]
                \/ old.status \in {"accepted", "briefed"} /\ new.status = "offered"
             /\ old.status \in Terminal => new.terms = old.terms]_vars
  BY <1>1
<1> QED
  BY <1>2, Invariant, PTL DEF Spec, LegalSteps

\* However many handlers race, each flight behaves like a contract only one
\* party changes at a time.
THEOREM ContractImplemented == Spec => ImplementsContract
<1>1. Init => Contract!Init
  BY StageIs DEF Init, Contract!Init, Contract!Blank, ContractOf, ContractOfRow,
                 NoRow
<1>2. ASSUME IInv, ChangeOK, [Next]_vars
      PROVE  [Contract!Next]_ContractOf
  <2>1. \A f \in Flights :
          \/ ContractOf'[f] = ContractOf[f]
          \/ Contract!Step(ContractOf[f], ContractOf'[f])
    BY <1>2, NextSteps, FlightStepContract
  <2>2. DOMAIN ContractOf' = Flights
    BY DEF ContractOf
  <2> QED
    BY <2>1, <2>2 DEF Contract!Next
<1> QED
  BY <1>1, <1>2, Invariant, PTL DEF Spec, ImplementsContract, Contract!Spec

\* Every replaced flight exists.
Replaced ==
  \A f \in Flights : Exists(f) /\ flights[f].replaces # Null =>
    flights[f].replaces \in Flights /\ Exists(flights[f].replaces)

\* The unique index on replaces_flight_id and the guard of createReplacementFlight
\* let one flight follow a declined one, whatever retries race.
THEOREM ReplacedOnce == Spec => []ReplacementsFaithful
<1> DEFINE RInv == Replaced /\ ReplacementsFaithful
<1>1. Init => RInv
  BY DEF Init, Replaced, ReplacementsFaithful, Exists
<1>2. ASSUME IInv, ChangeOK, RInv, [Next]_vars
      PROVE  RInv'
  <2>1. \A f \in Flights : FlightStep(f)
    BY <1>2, NextSteps
  <2>2. \A f \in Flights : Exists(f) =>
          /\ Exists(f)'
          /\ flights'[f].request = flights[f].request
          /\ flights'[f].replaces = flights[f].replaces
          /\ flights[f].status = "declined" => flights'[f].status = "declined"
    <3> SUFFICES ASSUME NEW f \in Flights, Exists(f)
                 PROVE  /\ Exists(f)'
                        /\ flights'[f].request = flights[f].request
                        /\ flights'[f].replaces = flights[f].replaces
                        /\ flights[f].status = "declined" =>
                             flights'[f].status = "declined"
      OBVIOUS
    <3>1. FlightStep(f)
      BY <2>1
    <3> QED
      BY <3>1, NoRowNotRow DEF FlightStep, RowStep, Exists, Predeparture
  <2>3. \A f \in Flights : ~Exists(f) /\ Exists(f)' =>
          /\ MayReplace(flights'[f])
          /\ \A g \in Flights \ {f} : flights'[g] = flights[g]
    BY <2>1 DEF FlightStep, Exists
  <2>4. Replaced'
    <3> SUFFICES ASSUME NEW f \in Flights, Exists(f)', flights'[f].replaces # Null
                 PROVE  /\ flights'[f].replaces \in Flights
                        /\ flights'[flights'[f].replaces] # NoRow
      BY DEF Replaced, Exists
    <3>1. CASE Exists(f)
      BY <1>2, <2>2, <3>1 DEF Replaced, Exists
    <3>2. CASE ~Exists(f)
      BY <2>2, <2>3, <3>2 DEF MayReplace, Exists
    <3> QED
      BY <3>1, <3>2
  <2>5. ReplacementsFaithful'
    <3> SUFFICES ASSUME NEW f \in Flights, NEW g \in Flights,
                        Exists(f)', Exists(g)', flights'[f].replaces # Null
                 PROVE  /\ flights'[g].replaces = flights'[f].replaces => f = g
                        /\ g = flights'[f].replaces =>
                             /\ flights'[g].status = "declined"
                             /\ flights'[f].request = flights'[g].request
      BY DEF ReplacementsFaithful, Exists
    <3>1. CASE Exists(f) /\ Exists(g)
      BY <1>2, <2>2, <3>1 DEF ReplacementsFaithful
    <3>2. CASE Exists(f) /\ ~Exists(g)
      BY <1>2, <2>2, <2>3, <3>2 DEF MayReplace, Replaced
    <3>3. CASE ~Exists(f)
      BY <2>2, <2>3, <3>3 DEF MayReplace, Exists
    <3> QED
      BY <3>1, <3>2, <3>3
  <2> QED
    BY <2>4, <2>5
<1>3. RInv => ReplacementsFaithful
  OBVIOUS
<1> QED
  BY <1>1, <1>2, <1>3, Invariant, PTL DEF Spec

=============================================================================
