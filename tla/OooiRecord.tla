----------------------------- MODULE OooiRecord -----------------------------
(***************************************************************************)
(* Who may write the out/off/on/in times of a flight, and when: simulator  *)
(* telemetry (domain/telemetry, db/repositories/telemetry.ts), the web and *)
(* Hoppie handlers of domain/flights/service.ts, and manual correction.    *)
(*                                                                         *)
(* The web, Hoppie and correction handlers load the flight and commit with *)
(* WHERE version = expectedVersion, as in FlightLifecycle.  Telemetry does *)
(* everything in one statement that locks device, flight and member.  Such *)
(* a statement runs at READ COMMITTED: rows it LOCKS or UPDATES are read   *)
(* as they are when it gets them, but rows it only reads are read from the *)
(* snapshot taken when it started.  So a statement that other statements   *)
(* can overtake is two steps: Start... takes the snapshot, Land... locks,  *)
(* checks and writes.  Revocation is of the same kind.                     *)
(*                                                                         *)
(* A lease row deleted and inserted again while a statement runs is taken  *)
(* for the old row.  Tracks, audit rows and the responses are left out.    *)
(***************************************************************************)
EXTENDS Naturals, FiniteSets

CONSTANTS
  Flights,
  Devices,        \* ids a simulator_devices row can get
  Pilots,         \* memberships that start as active pilots
  Owner,          \* the pilot who registers each device
  Sessions,       \* concurrently running handlers
  Phases,         \* the phases simulators report
  Reports,        \* the Hoppie reports pilots send: a kind and a time
  Corrections,    \* the changes dispatchers submit: marks -> time or Null
  Interval,       \* INGEST_MINIMUM_INTERVAL_MS
  Lease,          \* FLIGHT_WRITER_LEASE_MS
  Null,           \* SQL NULL
  MaxTime, MaxVersion, MaxSequence      \* bounds for model checking

Marks == {"out", "off", "on", "in"}
AllPhases == {"preflight", "taxi_out", "airborne", "taxi_in", "parked"}
HoppieKinds == Marks \cup {"flt_init"}
Times == 0 .. MaxTime
Values == Times \cup {Null}

ASSUME DataAssumption ==
  /\ Owner \in [Devices -> Pilots]
  /\ Phases \subseteq AllPhases
  /\ Reports \subseteq [kind : HoppieKinds, time : Times]
  /\ Corrections \subseteq UNION {[S -> Values] : S \in SUBSET Marks}
ASSUME TimeAssumption ==
  /\ MaxTime \in Nat /\ MaxVersion \in Nat /\ MaxSequence \in Nat
  /\ Interval \in Nat \ {0} /\ Lease \in Nat \ {0}
ASSUME NullAssumption ==
  Null \notin Nat /\ Null \notin Flights \cup Devices \cup Pilots

Trackable == {"accepted", "briefed", "active"}
FlightStatus == Trackable \cup {"offered", "completed", "cancelled"}

Row == [status : FlightStatus,
        version : Nat,
        pilot : Pilots,
        at : [Marks -> Values],          \* outAt, offAt, onAt, inAt
        manual : SUBSET Marks]           \* the ...ManualOverride flags

Event == [mark : Marks, at : Values, source : {"telemetry", "manual"},
          version : Nat]                 \* toVersion of its audit row

Device == [status : {"absent", "active", "revoked"},
           sequence : Nat,               \* lastSequence, 0: NULL
           ingested : Values]            \* lastIngestAt

NoLease == [device |-> Null, until |-> 0]
LeaseRow == [device : Devices, until : Nat] \cup {NoLease}

NoSample == [device |-> Null, phase |-> Null, at |-> 0]
Sample == [device : Devices, phase : AllPhases, at : Times] \cup {NoSample}

VARIABLES
  now,      \* the servers' clock
  able,     \* the pilots whose membership is an active pilot
  flights,  \* the flights table
  events,   \* flight_oooi_events of each flight
  devices,  \* simulator_devices
  leases,   \* flight_telemetry_leases, by flight
  current,  \* flight_telemetry_current, by flight
  sessions  \* the running handlers

vars == <<now, able, flights, events, devices, leases, current, sessions>>

-----------------------------------------------------------------------------
(* Handlers.                                                               *)

WebOps == {"start", "finish"}
NoChange == [m \in {} |-> Null]

Idle == [pc |-> "idle"]
Received == [pc : {"received"}, device : Devices, flight : Flights,
             phase : Phases, sequence : Nat, at : Times]
Ingesting == [pc : {"ingesting"}, device : Devices, flight : Flights,
              phase : Phases, sequence : Nat, at : Times,
              seenLeases : [Flights -> LeaseRow],
              seenPhase : AllPhases \cup {Null}]
Revoking == [pc : {"revoking"}, device : Devices,
             seenLeases : [Flights -> LeaseRow]]
Updating == [pc : {"commit"},
             op : WebOps \cup HoppieKinds \cup {"correct"},
             flight : Flights,
             seen : Row,                 \* the row the handler loaded
             time : Times,               \* occurredAt
             change : Corrections \cup {NoChange}]
Handler == Received \cup Ingesting \cup Revoking \cup Updating

Running(s) == sessions[s] # Idle
At(s, pc) == Running(s) /\ sessions[s].pc = pc

Enter(s, handler) ==
  /\ ~Running(s)
  /\ sessions' = [sessions EXCEPT ![s] = handler]
  /\ UNCHANGED <<now, able, flights, events, devices, leases, current>>

\* A rejected request, a lost race, a failed statement, a lost instance:
\* nothing is written.
Drop(s) ==
  /\ Running(s)
  /\ sessions' = [sessions EXCEPT ![s] = Idle]
  /\ UNCHANGED <<now, able, flights, events, devices, leases, current>>

-----------------------------------------------------------------------------
(* Telemetry ingest.                                                       *)

\* ingestTelemetry: authenticate the device, find the flight, stamp the
\* sample with the time of its receipt.
ReceiveSample(s, d, f, phase, sequence) ==
  /\ devices[d].status = "active"
  /\ flights[f].pilot = Owner[d]
  /\ flights[f].status \in Trackable
  /\ Enter(s, [pc |-> "received", device |-> d, flight |-> f, phase |-> phase,
               sequence |-> sequence, at |-> now])

\* The statement starts: the lease rows and the previous phase are those of
\* its snapshot.
StartIngest(s) ==
  /\ At(s, "received")
  /\ sessions' = [sessions EXCEPT ![s] =
       [pc |-> "ingesting", device |-> @.device, flight |-> @.flight,
        phase |-> @.phase, sequence |-> @.sequence, at |-> @.at,
        seenLeases |-> leases, seenPhase |-> current[@.flight].phase]]
  /\ UNCHANGED <<now, able, flights, events, devices, leases, current>>

\* assigned_device and eligible_device: rows locked by the statement.
Eligible(h) ==
  /\ devices[h.device].status = "active"
  /\ flights[h.flight].pilot = Owner[h.device]
  /\ flights[h.flight].status \in Trackable
  /\ Owner[h.device] \in able
  /\ devices[h.device].sequence < h.sequence
  /\ devices[h.device].ingested # Null =>
       devices[h.device].ingested + Interval <= h.at

Expired(lease, h) == lease.until <= h.at

\* released_expired_pairing: the device's expired leases on other flights.  A
\* row is found in the snapshot and checked again as it is now.
ReleasedBy(h) ==
  {g \in Flights \ {h.flight} :
     \A lease \in {h.seenLeases[g], leases[g]} :
       lease.device = h.device /\ Expired(lease, h)}

Kept(h) == [g \in Flights |-> IF g \in ReleasedBy(h) THEN NoLease ELSE leases[g]]

\* pairable_device only reads, so it looks at the snapshot.
Pairable(h) ==
  \A g \in Flights \ {h.flight} :
    h.seenLeases[g].device = h.device => Expired(h.seenLeases[g], h)

\* renewed_lease: the flight's lease, when it is the device's or has expired.
Renewable(h) ==
  \A lease \in {h.seenLeases[h.flight], leases[h.flight]} :
    /\ lease # NoLease
    /\ lease.device = h.device \/ Expired(lease, h)

\* inserted_lease, ON CONFLICT DO NOTHING on the flight's primary key.
Insertable(h) == leases[h.flight] = NoLease

\* flight_telemetry_leases_device_uidx: an insert does nothing and an update
\* fails when another row has the device.
UniqueDevice(h) == \A g \in Flights \ {h.flight} : Kept(h)[g].device # h.device

Acquires(h) ==
  Pairable(h) /\ UniqueDevice(h) /\ (Renewable(h) \/ Insertable(h))

EventOf(from, to) ==
  CASE from = "preflight" /\ to = "taxi_out" -> "out"
    [] from \in {"preflight", "taxi_out"} /\ to = "airborne" -> "off"
    [] from = "airborne" /\ to = "taxi_in" -> "on"
    [] from = "taxi_in" /\ to = "parked" -> "in"
    [] OTHER -> Null

Before(m, n) == <<m, n>> \in {<<"out", "off">>, <<"out", "on">>, <<"out", "in">>,
                              <<"off", "on">>, <<"off", "in">>, <<"on", "in">>}

Chronological(at) ==
  \A m, n \in Marks :
    Before(m, n) /\ at[m] # Null /\ at[n] # Null => at[m] <= at[n]

\* The time t may stand at mark m beside the other times.
FitsAt(at, m, t) ==
  \A n \in Marks : at[n] # Null =>
    (Before(m, n) => t <= at[n]) /\ (Before(n, m) => at[n] <= t)

\* Fault: the override flag is not asked.
Detected_Overridden(h, row) ==
  LET m == EventOf(h.seenPhase, h.phase) IN
    IF m = Null THEN Null
    ELSE IF row.at[m] = Null /\ FitsAt(row.at, m, h.at) THEN m ELSE Null

\* detected_transition, on the locked flight row and the phase of the snapshot.
Detected(h, row) ==
  LET m == EventOf(h.seenPhase, h.phase) IN
    IF m = Null THEN Null
    ELSE IF /\ row.at[m] = Null
            /\ m \notin row.manual
            /\ FitsAt(row.at, m, h.at) THEN m ELSE Null

\* The sample is accepted: lease, device, current sample and, when a
\* transition is detected, the flight with its provenance.
LandIngest(s) ==
  /\ At(s, "ingesting")
  /\ LET h == sessions[s]
         f == h.flight
         m == Detected(h, flights[f]) IN
       /\ Eligible(h)
       /\ Acquires(h)
       /\ m # Null => flights[f].version < MaxVersion
       /\ leases' = [Kept(h) EXCEPT ![f] =
            [device |-> h.device, until |-> h.at + Lease]]
       /\ devices' = [devices EXCEPT ![h.device].sequence = h.sequence,
                                     ![h.device].ingested = h.at]
       /\ current' = [current EXCEPT ![f] =
            [device |-> h.device, phase |-> h.phase, at |-> h.at]]
       /\ IF m = Null
          THEN UNCHANGED <<flights, events>>
          ELSE /\ flights' = [flights EXCEPT ![f].at[m] = h.at,
                                             ![f].version = @ + 1]
               /\ events' = [events EXCEPT ![f] = @ \cup
                    {[mark |-> m, at |-> h.at, source |-> "telemetry",
                      version |-> flights[f].version + 1]}]
  /\ sessions' = [sessions EXCEPT ![s] = Idle]
  /\ UNCHANGED <<now, able>>

\* lease_conflict: nothing is stored, but the expired leases stay released.
RefuseIngest(s) ==
  /\ At(s, "ingesting")
  /\ LET h == sessions[s] IN
       /\ Eligible(h)
       /\ ~(Pairable(h) /\ Renewable(h))
       /\ ~Acquires(h)
       /\ leases' = Kept(h)
  /\ sessions' = [sessions EXCEPT ![s] = Idle]
  /\ UNCHANGED <<now, able, flights, events, devices, current>>

-----------------------------------------------------------------------------
(* Devices.                                                                *)

\* createDevice, createSimulatorDeviceAtomic.
CreateDevice(d) ==
  /\ devices[d].status = "absent"
  /\ Owner[d] \in able
  /\ devices' = [devices EXCEPT ![d].status = "active"]
  /\ UNCHANGED <<now, able, flights, events, leases, current, sessions>>

\* revokeSimulatorDeviceAtomic: the DELETE of the pairings finds its rows in
\* the snapshot, the UPDATE of the device waits for a running ingest.
StartRevoke(s, d) ==
  /\ devices[d].status = "active"
  /\ Enter(s, [pc |-> "revoking", device |-> d, seenLeases |-> leases])

Revoked(row) == [row EXCEPT !.status = "revoked"]

LandRevoke(s) ==
  /\ At(s, "revoking")
  /\ LET h == sessions[s] IN
       /\ devices[h.device].status = "active"
       /\ devices' = [devices EXCEPT ![h.device] = Revoked(@)]
       /\ leases' = [g \in Flights |->
            IF h.seenLeases[g].device = h.device /\ leases[g].device = h.device
            THEN NoLease ELSE leases[g]]
  /\ sessions' = [sessions EXCEPT ![s] = Idle]
  /\ UNCHANGED <<now, able, flights, events, current>>

-----------------------------------------------------------------------------
(* Web, Hoppie and correction: load, then commit at the loaded version.    *)

Load(s, op, f, time, change) ==
  /\ flights[f].version < MaxVersion
  /\ Enter(s, [pc |-> "commit", op |-> op, flight |-> f, seen |-> flights[f],
               time |-> time, change |-> change])

\* startFlight and finishFlight stamp the time of the request.
BeginWeb(s, f, op) ==
  /\ \/ op = "start" /\ flights[f].status = "briefed"
     \/ op = "finish" /\ flights[f].status = "active"
  /\ Load(s, op, f, now, NoChange)

\* applyHoppieProgress: the report carries its own time, before or after the
\* receipt.  Only trackable flights are matched.
BeginHoppie(s, f, report) ==
  /\ \/ report.kind \in {"flt_init", "out", "off"}
        /\ flights[f].status \in {"briefed", "active"}
     \/ report.kind \in {"on", "in"} /\ flights[f].status = "active"
  /\ Load(s, report.kind, f, report.time, NoChange)

\* correctOooi.
BeginCorrect(s, f, change) ==
  /\ change # NoChange
  /\ Load(s, "correct", f, now, change)

\* Fault: the statement finds the row by its id alone.
AtVersion_NotCompared(f, seen) == flights[f].version < MaxVersion

AtVersion(f, seen) ==
  flights[f].version = seen.version /\ flights[f].version < MaxVersion

\* The column a handler writes and the status it moves to.
MarkOf(op) == CASE op = "start" -> "out"
                [] op = "finish" -> "in"
                [] op \in Marks -> op
                [] OTHER -> Null

\* Fault: an arrival moves to a status the enum does not have.
StatusAfter_Arrived(op, status) ==
  CASE op \in {"start", "out", "off"} -> "active"
    [] op \in {"finish", "in"} -> "arrived"
    [] OTHER -> status

StatusAfter(op, status) ==
  CASE op \in {"start", "out", "off"} -> "active"
    [] op \in {"finish", "in"} -> "completed"
    [] OTHER -> status

\* Fault: a report replaces the time that is there.
Reported_Latest(h) == h.time

\* `flight.outAt ?? occurredAt`: the column keeps the loaded value if any.
Reported(h) ==
  LET old == h.seen.at[MarkOf(h.op)] IN IF old = Null THEN h.time ELSE old

CommitProgress(s) ==
  /\ At(s, "commit") /\ sessions[s].op \in WebOps \cup HoppieKinds
  /\ LET h == sessions[s]
         f == h.flight IN
       /\ AtVersion(f, h.seen)
       /\ flights' = [flights EXCEPT
            ![f].status = StatusAfter(h.op, @),
            ![f].version = @ + 1,
            ![f].at = [m \in Marks |->
                         IF m = MarkOf(h.op) THEN Reported(h) ELSE @[m]]]
  /\ sessions' = [sessions EXCEPT ![s] = Idle]
  /\ UNCHANGED <<now, able, events, devices, leases, current>>

Proposed(row, change) ==
  [m \in Marks |-> IF m \in DOMAIN change THEN change[m] ELSE row.at[m]]

\* Fault: only adjacent marks are compared, so that a missing time hides the
\* order of its neighbours.
Valid_Adjacent(at) ==
  \A p \in {<<"out", "off">>, <<"off", "on">>, <<"on", "in">>} :
    at[p[1]] # Null /\ at[p[2]] # Null => at[p[1]] <= at[p[2]]

Valid(at) == Chronological(at)

Provenance(row, change) ==
  {[mark |-> m, at |-> change[m], source |-> "manual",
    version |-> row.version + 1] : m \in DOMAIN change}

\* correctOooiAtomic.
CommitCorrect(s) ==
  /\ At(s, "commit") /\ sessions[s].op = "correct"
  /\ LET h == sessions[s]
         f == h.flight
         at == Proposed(flights[f], h.change) IN
       /\ AtVersion(f, h.seen)
       /\ Valid(at)
       /\ flights' = [flights EXCEPT ![f].at = at,
                                     ![f].manual = @ \cup DOMAIN h.change,
                                     ![f].version = @ + 1]
       /\ events' = [events EXCEPT ![f] = @ \cup Provenance(flights[f], h.change)]
  /\ sessions' = [sessions EXCEPT ![s] = Idle]
  /\ UNCHANGED <<now, able, devices, leases, current>>

-----------------------------------------------------------------------------
(* The rest of the tenant.                                                 *)

\* Answers, releases, cancellations, edits and handovers: see FlightLifecycle.
ChangeFlight(f, status, pilot) ==
  /\ flights[f].version < MaxVersion
  /\ \/ /\ <<flights[f].status, status>> \in
             {<<"offered", "accepted">>, <<"accepted", "briefed">>,
              <<"offered", "cancelled">>, <<"accepted", "cancelled">>,
              <<"briefed", "cancelled">>, <<"active", "cancelled">>}
        /\ pilot = flights[f].pilot
     \/ /\ flights[f].status \in {"offered", "accepted", "briefed"}
        /\ status = "offered"
  /\ flights' = [flights EXCEPT ![f].status = status, ![f].pilot = pilot,
                                ![f].version = @ + 1]
  /\ UNCHANGED <<now, able, events, devices, leases, current, sessions>>

\* A pilot is disabled or gets another role.
LosePilot(p) ==
  /\ p \in able
  /\ able' = able \ {p}
  /\ UNCHANGED <<now, flights, events, devices, leases, current, sessions>>

Tick ==
  /\ now < MaxTime
  /\ now' = now + 1
  /\ UNCHANGED <<able, flights, events, devices, leases, current, sessions>>

-----------------------------------------------------------------------------
Init ==
  /\ now = 0
  /\ able = Pilots
  /\ flights \in [Flights -> [status : {"briefed"}, version : {1}, pilot : Pilots,
                              at : {[m \in Marks |-> Null]}, manual : {{}}]]
  /\ events = [f \in Flights |-> {}]
  /\ devices = [d \in Devices |->
       [status |-> "absent", sequence |-> 0, ingested |-> Null]]
  /\ leases = [f \in Flights |-> NoLease]
  /\ current = [f \in Flights |-> NoSample]
  /\ sessions = [s \in Sessions |-> Idle]

TelemetryNext(s) ==
  \/ \E d \in Devices, f \in Flights, phase \in Phases,
        sequence \in 1 .. MaxSequence : ReceiveSample(s, d, f, phase, sequence)
  \/ \E d \in Devices : StartRevoke(s, d)
  \/ StartIngest(s) \/ LandIngest(s) \/ RefuseIngest(s) \/ LandRevoke(s)

RecordNext(s) ==
  \/ \E f \in Flights :
       \/ \E op \in WebOps : BeginWeb(s, f, op)
       \/ \E report \in Reports : BeginHoppie(s, f, report)
       \/ \E change \in Corrections : BeginCorrect(s, f, change)
  \/ CommitProgress(s) \/ CommitCorrect(s)

TenantNext ==
  \/ \E f \in Flights, status \in FlightStatus, pilot \in Pilots :
       ChangeFlight(f, status, pilot)
  \/ \E p \in Pilots : LosePilot(p)
  \/ \E d \in Devices : CreateDevice(d)
  \/ Tick

Next == \/ \E s \in Sessions : TelemetryNext(s) \/ RecordNext(s) \/ Drop(s)
        \/ TenantNext

Spec == Init /\ [][Next]_vars

-----------------------------------------------------------------------------
\* Every table holds rows of its schema and every handler a well-formed state.
TypeOK ==
  /\ now \in Times
  /\ able \subseteq Pilots
  /\ flights \in [Flights -> Row]
  /\ events \in [Flights -> SUBSET Event]
  /\ devices \in [Devices -> Device]
  /\ leases \in [Flights -> LeaseRow]
  /\ current \in [Flights -> Sample]
  /\ sessions \in [Sessions -> Handler \cup {Idle}]

\* A recorded time is only ever replaced by a dispatcher: whichever of the
\* reports, starts, finishes and samples comes first wins, however long the
\* others have been under way.
RecordedTimeStays ==
  [][\A f \in Flights, m \in Marks :
       flights[f].at[m] # Null /\ flights'[f].at[m] # flights[f].at[m] =>
         \E e \in events'[f] \ events[f] :
           e.mark = m /\ e.source = "manual"]_vars

\* The provenance rows account for the columns: where the newest row of a mark
\* (by flight version) holds a time, the flight still shows that time.
ProvenanceAgrees ==
  \A f \in Flights : \A e \in events[f] :
    /\ e.version <= flights[f].version
    /\ e.at # Null /\ (\A x \in events[f] : x.mark = e.mark => x.version <= e.version)
         => flights[f].at[e.mark] = e.at

\* Telemetry speaks first or not at all: an automatic event is the first of its
\* mark, so that it neither repeats another nor follows a manual correction,
\* clears included.
AutomaticIsFirst ==
  \A f \in Flights : \A x, y \in events[f] :
    x.source = "telemetry" /\ y.mark = x.mark /\ y # x => x.version < y.version

\* A correction leaves the times of a flight in order, and an automatic event
\* does not disturb them, whatever the reports did in between.
OrderKept ==
  [][\A f \in Flights : events'[f] # events[f] =>
       \/ Chronological(flights'[f].at)
       \/ /\ ~Chronological(flights[f].at)
          /\ \A e \in events'[f] \ events[f] : e.source = "telemetry"]_vars

\* docs/telemetry-and-oooi.md: a concurrent reassignment, completion or
\* suspension cannot admit one final sample, and neither can a revocation.
NoLateSample ==
  [][\A f \in Flights : current'[f] # current[f] =>
       LET d == current'[f].device IN
         /\ devices[d].status = "active"
         /\ flights[f].status \in Trackable
         /\ flights[f].pilot = Owner[d]
         /\ Owner[d] \in able]_vars

\* Two devices never write one flight at the same time: one follows another
\* only after the lease of the last sample has run out, or by revocation.
SingleWriter ==
  [][\A f \in Flights :
       current[f] # NoSample /\ current'[f].device # current[f].device =>
         \/ devices[current[f].device].status = "revoked"
         \/ now >= current[f].at + Lease]_vars

\* A device writes for one flight at a time, although pairable_device only
\* looks at a snapshot.
OnePairing ==
  \A f, g \in Flights :
    leases[f] # NoLease /\ leases[f].device = leases[g].device => f = g

=============================================================================
