-------------------------- MODULE OooiRecordProofs --------------------------
(***************************************************************************)
(* What is proved of OooiRecord for every number of flights, devices,      *)
(* pilots and concurrent handlers, and for every interval and lease.       *)
(*                                                                         *)
(* The columns are safe because a handler that commits loaded the row it   *)
(* writes (SnapshotsOK) and because a mark with provenance is set or       *)
(* overridden (EventsOK).  A flight has one writer because the lease of    *)
(* its last sample is in place until it runs out (LeasesOK) and no sample  *)
(* carries a time that is yet to come (SamplesOK).                         *)
(***************************************************************************)
EXTENDS OooiRecord, TLAPS

SnapshotsOK ==
  \A s \in Sessions : At(s, "commit") =>
    LET row == flights[sessions[s].flight]
        seen == sessions[s].seen IN
      /\ seen.version <= row.version
      /\ seen.version = row.version => seen = row

EventsOK ==
  \A f \in Flights : \A e \in events[f] :
    /\ e.version <= flights[f].version
    /\ e.mark \in flights[f].manual \/ flights[f].at[e.mark] # Null

SamplesOK ==
  \A s \in Sessions :
    At(s, "received") \/ At(s, "ingesting") => sessions[s].at <= now

LeasesOK ==
  \A f \in Flights : current[f] # NoSample =>
    \/ devices[current[f].device].status = "revoked"
    \/ now >= current[f].at + Lease
    \/ leases[f] = [device |-> current[f].device, until |-> current[f].at + Lease]

IInv == /\ TypeOK /\ SnapshotsOK /\ EventsOK /\ SamplesOK /\ LeasesOK
        /\ ProvenanceAgrees /\ AutomaticIsFirst /\ OnePairing

-----------------------------------------------------------------------------
(* Handlers by their program counter.                                      *)

LEMMA ReceivedFacts ==
  ASSUME TypeOK, NEW s \in Sessions, At(s, "received")
  PROVE  sessions[s] \in Received
BY DEF TypeOK, At, Running, Handler, Received, Ingesting, Revoking, Updating

LEMMA IngestingFacts ==
  ASSUME TypeOK, NEW s \in Sessions, At(s, "ingesting")
  PROVE  sessions[s] \in Ingesting
BY DEF TypeOK, At, Running, Handler, Received, Ingesting, Revoking, Updating

LEMMA RevokingFacts ==
  ASSUME TypeOK, NEW s \in Sessions, At(s, "revoking")
  PROVE  sessions[s] \in Revoking
BY DEF TypeOK, At, Running, Handler, Received, Ingesting, Revoking, Updating

LEMMA UpdatingFacts ==
  ASSUME TypeOK, NEW s \in Sessions, At(s, "commit")
  PROVE  sessions[s] \in Updating
BY DEF TypeOK, At, Running, Handler, Received, Ingesting, Revoking, Updating

\* A handler that passes the version comparison writes the row it loaded.
LEMMA CommitsWhatItLoaded ==
  ASSUME IInv, NEW s \in Sessions, At(s, "commit"),
         AtVersion(sessions[s].flight, sessions[s].seen)
  PROVE  flights[sessions[s].flight] = sessions[s].seen
BY DEF IInv, SnapshotsOK, AtVersion

-----------------------------------------------------------------------------
(* The operators of the statements.                                        *)

LEMMA EventOfType ==
  ASSUME NEW from, NEW to
  PROVE  EventOf(from, to) \in Marks \cup {Null}
BY DEF EventOf, Marks

\* A detected transition is one of an empty column without override, in order.
LEMMA DetectedFacts ==
  ASSUME NEW h, NEW row, Detected(h, row) # Null
  PROVE  LET m == Detected(h, row) IN
           /\ m \in Marks
           /\ row.at[m] = Null
           /\ m \notin row.manual
           /\ FitsAt(row.at, m, h.at)
BY EventOfType DEF Detected

LEMMA MarkOfType ==
  ASSUME NEW op
  PROVE  MarkOf(op) \in Marks \cup {Null}
BY DEF MarkOf, Marks

LEMMA KeptType ==
  ASSUME TypeOK, NEW h
  PROVE  Kept(h) \in [Flights -> LeaseRow]
BY DEF TypeOK, Kept, LeaseRow

LEMMA ProgressedRow ==
  ASSUME NEW row \in Row, NEW status \in FlightStatus, NEW at \in [Marks -> Values]
  PROVE  [row EXCEPT !.status = status, !.version = row.version + 1,
                     !.at = at] \in Row
<1>1. row.version + 1 \in Nat
  BY DEF Row
<1> QED
  BY <1>1 DEF Row

LEMMA StatusAfterType ==
  ASSUME NEW op, NEW status \in FlightStatus
  PROVE  StatusAfter(op, status) \in FlightStatus
BY DEF StatusAfter, FlightStatus, Trackable

-----------------------------------------------------------------------------
(* The invariant, by the tables its parts look at.                         *)

Record == EventsOK /\ ProvenanceAgrees /\ AutomaticIsFirst
Pairings == LeasesOK /\ OnePairing

\* A handler goes on or ends, and never with a time that is yet to come.
LEMMA SamplesKept ==
  ASSUME IInv, now' \in Nat, now <= now',
         \A s \in Sessions : sessions'[s] \in {sessions[s], Idle}
  PROVE  SamplesOK'
<1> SUFFICES ASSUME NEW s \in Sessions, At(s, "received")' \/ At(s, "ingesting")'
             PROVE  sessions'[s].at <= now'
  BY DEF SamplesOK
<1>1. sessions'[s] = sessions[s] /\ (At(s, "received") \/ At(s, "ingesting"))
  BY DEF At, Running
<1>2. sessions[s].at \in Nat
  BY <1>1, ReceivedFacts, IngestingFacts, TimeAssumption
  DEF IInv, Received, Ingesting, Times
<1> QED
  BY <1>1, <1>2, TimeAssumption DEF IInv, SamplesOK, TypeOK, Times

\* Every change of a row moves its version, so no snapshot goes stale unnoticed.
LEMMA SnapshotsKept ==
  ASSUME IInv,
         \A f \in Flights :
           \/ flights'[f] = flights[f]
           \/ flights'[f].version = flights[f].version + 1,
         \A s \in Sessions : sessions'[s] \in {sessions[s], Idle}
  PROVE  SnapshotsOK'
<1> SUFFICES ASSUME NEW s \in Sessions, At(s, "commit")'
             PROVE  LET row == flights'[sessions'[s].flight]
                        seen == sessions'[s].seen IN
                      /\ seen.version <= row.version
                      /\ seen.version = row.version => seen = row
  BY DEF SnapshotsOK
<1> DEFINE f == sessions[s].flight
<1>1. sessions'[s] = sessions[s] /\ At(s, "commit")
  BY DEF At, Running
<1>2. f \in Flights /\ sessions[s].seen \in Row
  BY <1>1, UpdatingFacts DEF IInv, Updating
<1>3. flights[f].version \in Nat /\ sessions[s].seen.version \in Nat
  BY <1>2 DEF IInv, TypeOK, Row
<1>4. /\ sessions[s].seen.version <= flights[f].version
      /\ sessions[s].seen.version = flights[f].version => sessions[s].seen = flights[f]
  BY <1>1 DEF IInv, SnapshotsOK
<1>5. flights'[f] = flights[f] \/ flights'[f].version = flights[f].version + 1
  BY <1>2
<1> QED
  BY <1>1, <1>3, <1>4, <1>5

\* Steps that only move handlers: what a handler newly holds is current.
LEMMA HandlersOnly ==
  ASSUME IInv, UNCHANGED <<now, able, flights, events, devices, leases, current>>,
         sessions' \in [Sessions -> Handler \cup {Idle}],
         \A s \in Sessions :
           \/ sessions'[s] \in {sessions[s], Idle}
           \/ sessions'[s].pc \in {"received", "ingesting"} /\ sessions'[s].at <= now
           \/ sessions'[s].pc = "revoking"
           \/ /\ sessions'[s].pc = "commit"
              /\ sessions'[s].seen = flights[sessions'[s].flight]
              /\ sessions'[s].flight \in Flights
  PROVE  IInv'
<1>1. TypeOK'
  BY DEF IInv, TypeOK
<1>2. SnapshotsOK'
  <2> SUFFICES ASSUME NEW s \in Sessions, At(s, "commit")'
               PROVE  LET row == flights[sessions'[s].flight]
                          seen == sessions'[s].seen IN
                        /\ seen.version <= row.version
                        /\ seen.version = row.version => seen = row
    BY DEF SnapshotsOK
  <2>1. CASE sessions'[s] = sessions[s]
    BY <2>1 DEF IInv, SnapshotsOK, At, Running
  <2>2. CASE sessions'[s] # sessions[s]
    <3>1. /\ sessions'[s].seen = flights[sessions'[s].flight]
          /\ sessions'[s].flight \in Flights
      BY <2>2 DEF At, Running
    <3>2. flights[sessions'[s].flight].version \in Nat
      BY <3>1 DEF IInv, TypeOK, Row
    <3> QED
      BY <3>1, <3>2
  <2> QED
    BY <2>1, <2>2
<1>3. SamplesOK'
  <2> SUFFICES ASSUME NEW s \in Sessions, At(s, "received")' \/ At(s, "ingesting")'
               PROVE  sessions'[s].at <= now
    BY DEF SamplesOK
  <2> QED
    BY DEF IInv, SamplesOK, At, Running
<1>4. EventsOK' /\ LeasesOK' /\ ProvenanceAgrees' /\ AutomaticIsFirst' /\ OnePairing'
  BY DEF IInv, EventsOK, LeasesOK, ProvenanceAgrees, AutomaticIsFirst, OnePairing
<1> QED
  BY <1>1, <1>2, <1>3, <1>4 DEF IInv

\* Every Begin action, and the start of a statement.
LEMMA EnterKeeps ==
  ASSUME IInv, NEW s \in Sessions, NEW handler \in Handler,
         \/ handler.pc \in {"received", "ingesting"} /\ handler.at <= now
         \/ handler.pc = "revoking"
         \/ /\ handler.pc = "commit"
            /\ handler.seen = flights[handler.flight]
            /\ handler.flight \in Flights,
         sessions' = [sessions EXCEPT ![s] = handler],
         UNCHANGED <<now, able, flights, events, devices, leases, current>>
  PROVE  IInv'
<1>1. sessions \in [Sessions -> Handler \cup {Idle}]
  BY DEF IInv, TypeOK
<1>2. sessions' \in [Sessions -> Handler \cup {Idle}]
  BY <1>1
<1>3. sessions'[s] = handler
      /\ \A t \in Sessions : t # s => sessions'[t] = sessions[t]
  BY <1>1
<1> QED
  BY <1>2, <1>3, HandlersOnly

LEMMA DropKeeps ==
  ASSUME IInv, NEW s \in Sessions, Drop(s)
  PROVE  IInv'
<1>1. sessions \in [Sessions -> Handler \cup {Idle}]
  BY DEF IInv, TypeOK
<1> QED
  BY <1>1, HandlersOnly DEF Drop

LEMMA ReceiveKeeps ==
  ASSUME IInv, NEW s \in Sessions, NEW d \in Devices, NEW f \in Flights,
         NEW phase \in Phases, NEW sequence \in 1 .. MaxSequence,
         ReceiveSample(s, d, f, phase, sequence)
  PROVE  IInv'
<1> DEFINE h == [pc |-> "received", device |-> d, flight |-> f, phase |-> phase,
                 sequence |-> sequence, at |-> now]
<1>1. now \in Times /\ now \in Nat
  BY TimeAssumption DEF IInv, TypeOK, Times
<1>2. h \in Handler
  BY <1>1, TimeAssumption DEF Handler, Received
<1>3. h.pc = "received" /\ h.at <= now
  BY <1>1
<1> HIDE DEF h
<1> QED
  BY <1>2, <1>3, EnterKeeps DEF ReceiveSample, Enter, h

LEMMA StartIngestKeeps ==
  ASSUME IInv, NEW s \in Sessions, StartIngest(s)
  PROVE  IInv'
<1> DEFINE g == sessions[s]
           h == [pc |-> "ingesting", device |-> g.device, flight |-> g.flight,
                 phase |-> g.phase, sequence |-> g.sequence, at |-> g.at,
                 seenLeases |-> leases, seenPhase |-> current[g.flight].phase]
<1>1. g \in Received /\ g.at <= now
  BY ReceivedFacts DEF StartIngest, IInv, SamplesOK
<1>2. current[g.flight].phase \in AllPhases \cup {Null}
  BY <1>1 DEF IInv, TypeOK, Received, Sample, NoSample
<1>3. h \in Handler
  BY <1>1, <1>2 DEF Handler, Ingesting, Received, IInv, TypeOK
<1>4. sessions' = [sessions EXCEPT ![s] = h]
  BY DEF StartIngest
<1> HIDE DEF g
<1>5. h.pc = "ingesting" /\ h.at <= now
  BY <1>1
<1> HIDE DEF h
<1> QED
  BY <1>3, <1>4, <1>5, EnterKeeps DEF StartIngest

LEMMA StartRevokeKeeps ==
  ASSUME IInv, NEW s \in Sessions, NEW d \in Devices, StartRevoke(s, d)
  PROVE  IInv'
<1> DEFINE h == [pc |-> "revoking", device |-> d, seenLeases |-> leases]
<1>1. h \in Handler
  BY DEF Handler, Revoking, IInv, TypeOK
<1> QED
  BY <1>1, EnterKeeps DEF StartRevoke, Enter

LEMMA LoadKeeps ==
  ASSUME IInv, NEW s \in Sessions, NEW f \in Flights,
         NEW op \in WebOps \cup HoppieKinds \cup {"correct"},
         NEW time \in Times, NEW change \in Corrections \cup {NoChange},
         Load(s, op, f, time, change)
  PROVE  IInv'
<1> DEFINE h == [pc |-> "commit", op |-> op, flight |-> f, seen |-> flights[f],
                 time |-> time, change |-> change]
<1>1. h \in Handler
  BY DEF Handler, Updating, IInv, TypeOK
<1> QED
  BY <1>1, EnterKeeps DEF Load, Enter

LEMMA BeginUpdateKeeps ==
  ASSUME IInv, NEW s \in Sessions, NEW f \in Flights,
         \/ \E op \in WebOps : BeginWeb(s, f, op)
         \/ \E report \in Reports : BeginHoppie(s, f, report)
         \/ \E change \in Corrections : BeginCorrect(s, f, change)
  PROVE  IInv'
<1>1. now \in Times
  BY DEF IInv, TypeOK
<1>2. ASSUME NEW op \in WebOps, BeginWeb(s, f, op) PROVE IInv'
  BY <1>1, <1>2, LoadKeeps DEF BeginWeb
<1>3. ASSUME NEW report \in Reports, BeginHoppie(s, f, report) PROVE IInv'
  <2>1. report.kind \in HoppieKinds /\ report.time \in Times
    BY DataAssumption
  <2> QED
    BY <1>3, <2>1, LoadKeeps DEF BeginHoppie
<1>4. ASSUME NEW change \in Corrections, BeginCorrect(s, f, change) PROVE IInv'
  BY <1>1, <1>4, LoadKeeps DEF BeginCorrect
<1> QED
  BY <1>2, <1>3, <1>4

-----------------------------------------------------------------------------
(* Statements that end a handler, and the rest of the tenant.              *)

LEMMA EndsHandler ==
  ASSUME TypeOK, NEW s \in Sessions, sessions' = [sessions EXCEPT ![s] = Idle]
  PROVE  /\ sessions' \in [Sessions -> Handler \cup {Idle}]
         /\ \A t \in Sessions : sessions'[t] \in {sessions[t], Idle}
BY DEF TypeOK

\* The provenance of a mark survives an update that leaves set columns, flags
\* and log alone.
LEMMA RecordKept ==
  ASSUME IInv, UNCHANGED events,
         \A f \in Flights :
           /\ flights'[f].version \in {flights[f].version, flights[f].version + 1}
           /\ flights'[f].manual = flights[f].manual
           /\ \A m \in Marks :
                flights[f].at[m] # Null => flights'[f].at[m] = flights[f].at[m]
  PROVE  Record'
<1> SUFFICES ASSUME NEW f \in Flights, NEW e \in events[f]
             PROVE  /\ e.version <= flights'[f].version
                    /\ e.mark \in flights'[f].manual \/ flights'[f].at[e.mark] # Null
                    /\ (\A x \in events[f] : x.mark = e.mark => x.version <= e.version)
                       /\ e.at # Null => flights'[f].at[e.mark] = e.at
  BY DEF IInv, Record, EventsOK, ProvenanceAgrees, AutomaticIsFirst
<1>1. e \in Event /\ flights[f] \in Row
  BY DEF IInv, TypeOK
<1>2. /\ e.mark \in Marks
      /\ e.version \in Nat
      /\ flights[f].version \in Nat
  BY <1>1 DEF Event, Row
<1>3. /\ e.version <= flights[f].version
      /\ e.mark \in flights[f].manual \/ flights[f].at[e.mark] # Null
  BY DEF IInv, EventsOK
<1>4. (\A x \in events[f] : x.mark = e.mark => x.version <= e.version)
      /\ e.at # Null => flights[f].at[e.mark] = e.at
  BY DEF IInv, ProvenanceAgrees
<1> QED
  BY <1>2, <1>3, <1>4

\* CommitProgress writes one column, and only if the row it loaded had none.
LEMMA ProgressRow ==
  ASSUME IInv, NEW s \in Sessions, CommitProgress(s)
  PROVE  LET f == sessions[s].flight IN
           /\ f \in Flights
           /\ flights' \in [Flights -> Row]
           /\ \A g \in Flights : g # f => flights'[g] = flights[g]
           /\ flights'[f].version = flights[f].version + 1
           /\ flights'[f].manual = flights[f].manual
           /\ \A m \in Marks :
                flights[f].at[m] # Null => flights'[f].at[m] = flights[f].at[m]
<1> DEFINE h == sessions[s]
           f == h.flight
           at == [m \in Marks |->
                    IF m = MarkOf(h.op) THEN Reported(h) ELSE flights[f].at[m]]
<1>1. At(s, "commit") /\ AtVersion(f, h.seen)
  BY DEF CommitProgress
<1>2. h \in Updating /\ flights[f] = h.seen
  BY <1>1, UpdatingFacts, CommitsWhatItLoaded DEF IInv
<1>3. f \in Flights /\ h.time \in Times /\ flights[f] \in Row
  BY <1>2 DEF Updating, IInv, TypeOK
<1>4. flights[f].at \in [Marks -> Values] /\ flights[f].status \in FlightStatus
      /\ flights[f].version \in Nat
  BY <1>3 DEF Row
<1>5. MarkOf(h.op) \in Marks => Reported(h) \in Values
  BY <1>2, <1>3, <1>4 DEF Reported, Values
<1>6. at \in [Marks -> Values]
  BY <1>4, <1>5
<1>7. \A m \in Marks : flights[f].at[m] # Null => at[m] = flights[f].at[m]
  BY <1>2 DEF Reported
<1>8. StatusAfter(h.op, flights[f].status) \in FlightStatus
  BY <1>4, StatusAfterType
<1>9. flights' = [flights EXCEPT ![f].status = StatusAfter(h.op, @),
                                 ![f].version = @ + 1, ![f].at = at]
  BY DEF CommitProgress
<1> HIDE DEF at, h
<1>10. flights \in [Flights -> Row]
  BY DEF IInv, TypeOK
<1>11. flights'[f] = [flights[f] EXCEPT
         !.status = StatusAfter(h.op, flights[f].status),
         !.version = flights[f].version + 1, !.at = at]
  BY <1>3, <1>9, <1>10
<1>12. flights'[f] \in Row
  <2> DEFINE status == StatusAfter(h.op, flights[f].status)
  <2>1. flights[f] \in Row /\ status \in FlightStatus /\ at \in [Marks -> Values]
    BY <1>3, <1>6, <1>8
  <2> HIDE DEF status
  <2>2. [flights[f] EXCEPT !.status = status, !.version = flights[f].version + 1,
                           !.at = at] \in Row
    BY <2>1, ProgressedRow
  <2> QED
    BY <1>11, <2>2 DEF status
<1>13. \A g \in Flights : g # f => flights'[g] = flights[g]
  BY <1>9, <1>10
<1>14. flights' \in [Flights -> Row]
  BY <1>3, <1>9, <1>10, <1>12, <1>13
<1>15. /\ flights'[f].version = flights[f].version + 1
       /\ flights'[f].manual = flights[f].manual
       /\ flights'[f].at = at
  BY <1>3, <1>11 DEF Row
<1> QED
  BY <1>3, <1>7, <1>13, <1>14, <1>15 DEF h

LEMMA ProgressKeeps ==
  ASSUME IInv, NEW s \in Sessions, CommitProgress(s)
  PROVE  IInv'
<1> USE DEF CommitProgress
<1>1. /\ sessions' \in [Sessions -> Handler \cup {Idle}]
      /\ \A t \in Sessions : sessions'[t] \in {sessions[t], Idle}
  BY EndsHandler DEF IInv
<1>2. TypeOK'
  BY <1>1, ProgressRow DEF IInv, TypeOK
<1>3. SnapshotsOK'
  BY <1>1, ProgressRow, SnapshotsKept
<1>4. now \in Nat
  BY TimeAssumption DEF IInv, TypeOK, Times
<1>5. SamplesOK'
  BY <1>1, <1>4, SamplesKept
<1>6. Record'
  <2>1. UNCHANGED events
    OBVIOUS
  <2> HIDE DEF CommitProgress
  <2>2. ASSUME NEW f \in Flights
        PROVE  /\ flights'[f].version \in {flights[f].version, flights[f].version + 1}
               /\ flights'[f].manual = flights[f].manual
               /\ \A m \in Marks :
                    flights[f].at[m] # Null => flights'[f].at[m] = flights[f].at[m]
    BY ProgressRow
  <2> QED
    BY <2>1, <2>2, RecordKept
<1>7. Pairings'
  BY DEF IInv, Pairings, LeasesOK, OnePairing
<1> QED
  BY <1>2, <1>3, <1>5, <1>6, <1>7 DEF IInv, Record, Pairings

\* The row with one change, by the columns that change.
LEMMA CorrectedRow ==
  ASSUME NEW row \in Row, NEW at \in [Marks -> Values], NEW manual \in SUBSET Marks
  PROVE  [row EXCEPT !.at = at, !.manual = manual, !.version = row.version + 1] \in Row
<1>1. row.version + 1 \in Nat
  BY DEF Row
<1> QED
  BY <1>1 DEF Row

LEMMA ChangedRow ==
  ASSUME NEW row \in Row, NEW status \in FlightStatus, NEW pilot \in Pilots
  PROVE  [row EXCEPT !.status = status, !.pilot = pilot,
                     !.version = row.version + 1] \in Row
<1>1. row.version + 1 \in Nat
  BY DEF Row
<1> QED
  BY <1>1 DEF Row

\* A lease goes away only when it has run out or its device is revoked.
LEMMA LeaseKept ==
  ASSUME IInv, now' \in Nat, now <= now',
         NEW f \in Flights, current'[f] = current[f],
         \A d \in Devices : devices[d].status = "revoked" => devices'[d].status = "revoked",
         \/ leases'[f] = leases[f]
         \/ devices'[leases[f].device].status = "revoked"
         \/ leases[f].until <= now'
  PROVE  current'[f] # NoSample =>
           \/ devices'[current'[f].device].status = "revoked"
           \/ now' >= current'[f].at + Lease
           \/ leases'[f] = [device |-> current'[f].device,
                            until |-> current'[f].at + Lease]
<1> SUFFICES ASSUME current[f] # NoSample
             PROVE  \/ devices'[current[f].device].status = "revoked"
                    \/ now' >= current[f].at + Lease
                    \/ leases'[f] = [device |-> current[f].device,
                                     until |-> current[f].at + Lease]
  OBVIOUS
<1>1. current[f].device \in Devices /\ current[f].at \in Nat /\ now \in Nat
  BY TimeAssumption DEF IInv, TypeOK, Sample, Times
<1>2. \/ devices[current[f].device].status = "revoked"
      \/ now >= current[f].at + Lease
      \/ leases[f] = [device |-> current[f].device, until |-> current[f].at + Lease]
  BY DEF IInv, LeasesOK
<1>3. CASE now >= current[f].at + Lease
  <2>1. current[f].at + Lease \in Nat
    BY <1>1, TimeAssumption
  <2> QED
    BY <1>1, <1>3, <2>1
<1>4. CASE leases[f] = [device |-> current[f].device, until |-> current[f].at + Lease]
  <2>1. leases[f].device = current[f].device /\ leases[f].until = current[f].at + Lease
    BY <1>4
  <2>2. current[f].at + Lease \in Nat
    BY <1>1, TimeAssumption
  <2> QED
    BY <1>4, <2>1, <2>2
<1> QED
  BY <1>1, <1>2, <1>3, <1>4

\* The lease of a device that pairs with a flight is its only one.
LEMMA PairingsKept ==
  ASSUME IInv, now' \in Nat, now <= now', UNCHANGED current,
         \A d \in Devices : devices[d].status = "revoked" => devices'[d].status = "revoked",
         \A f \in Flights :
           \/ leases'[f] = leases[f]
           \/ /\ leases'[f] = NoLease
              /\ \/ devices'[leases[f].device].status = "revoked"
                 \/ leases[f].until <= now'
  PROVE  Pairings'
<1>1. LeasesOK'
  BY LeaseKept DEF LeasesOK
<1>2. OnePairing'
  <2> SUFFICES ASSUME NEW f \in Flights, NEW g \in Flights, leases'[f] # NoLease,
                      leases'[f].device = leases'[g].device
               PROVE  f = g
    BY DEF OnePairing
  <2>1. leases'[f] = leases[f] /\ leases[f].device \in Devices
    BY DEF IInv, TypeOK, LeaseRow
  <2>2. leases'[g] = leases[g]
    BY <2>1, NullAssumption DEF NoLease
  <2> QED
    BY <2>1, <2>2 DEF IInv, OnePairing
<1> QED
  BY <1>1, <1>2 DEF Pairings

LEMMA NowFacts ==
  ASSUME IInv
  PROVE  now \in Nat /\ now + 1 \in Nat /\ now <= now /\ now <= now + 1
BY TimeAssumption DEF IInv, TypeOK, Times

LEMMA RefuseKeeps ==
  ASSUME IInv, NEW s \in Sessions, RefuseIngest(s)
  PROVE  IInv'
<1> USE DEF RefuseIngest
<1> DEFINE h == sessions[s]
<1>1. /\ sessions' \in [Sessions -> Handler \cup {Idle}]
      /\ \A t \in Sessions : sessions'[t] \in {sessions[t], Idle}
  BY EndsHandler DEF IInv
<1>2. h \in Ingesting /\ h.at <= now
  BY IngestingFacts DEF IInv, SamplesOK
<1>3. TypeOK'
  BY <1>1, KeptType DEF IInv, TypeOK
<1>4. SnapshotsOK' /\ SamplesOK' /\ Record'
  BY <1>1, NowFacts, SnapshotsKept, SamplesKept DEF IInv, Record, EventsOK, ProvenanceAgrees, AutomaticIsFirst
<1>5. Pairings'
  <2>1. leases' = Kept(h)
    OBVIOUS
  <2>2. ASSUME NEW f \in Flights, leases'[f] # leases[f]
        PROVE  leases'[f] = NoLease /\ leases[f].until <= now
    <3>1. f \in ReleasedBy(h)
      BY <2>1, <2>2 DEF Kept
    <3>2. leases[f].until <= h.at
      BY <3>1 DEF ReleasedBy, Expired
    <3>3. leases[f].until \in Nat /\ h.at \in Nat
      BY <1>2, TimeAssumption DEF IInv, TypeOK, LeaseRow, NoLease, Ingesting, Times
    <3> QED
      BY <1>2, <2>1, <3>1, <3>2, <3>3, NowFacts DEF Kept
  <2> QED
    BY <2>2, NowFacts, PairingsKept
<1> QED
  BY <1>3, <1>4, <1>5 DEF IInv, Record, Pairings

LEMMA CreateKeeps ==
  ASSUME IInv, NEW d \in Devices, CreateDevice(d)
  PROVE  IInv'
<1> USE DEF CreateDevice
<1>1. TypeOK'
  BY DEF IInv, TypeOK, Device
<1>2. \A t \in Devices : devices[t].status = "revoked" => devices'[t].status = "revoked"
  BY DEF IInv, TypeOK
<1>3. Pairings'
  BY <1>2, NowFacts, PairingsKept
<1>4. SnapshotsOK' /\ SamplesOK' /\ Record'
  BY NowFacts, SnapshotsKept, SamplesKept DEF IInv, Record, EventsOK, ProvenanceAgrees, AutomaticIsFirst
<1> QED
  BY <1>1, <1>3, <1>4 DEF IInv, Record, Pairings

LEMMA RevokeKeeps ==
  ASSUME IInv, NEW s \in Sessions, LandRevoke(s)
  PROVE  IInv'
<1> USE DEF LandRevoke
<1> DEFINE h == sessions[s]
<1>1. /\ sessions' \in [Sessions -> Handler \cup {Idle}]
      /\ \A t \in Sessions : sessions'[t] \in {sessions[t], Idle}
  BY EndsHandler DEF IInv
<1>2. h.device \in Devices
  BY RevokingFacts DEF IInv, Revoking
<1>3. devices' = [devices EXCEPT ![h.device] = Revoked(@)] /\ devices \in [Devices -> Device]
  BY DEF IInv, TypeOK
<1>4. devices' \in [Devices -> Device] /\ devices'[h.device].status = "revoked"
      /\ \A d \in Devices : devices[d].status = "revoked" => devices'[d].status = "revoked"
  BY <1>2, <1>3 DEF Revoked, Device
<1>5. leases' \in [Flights -> LeaseRow]
  BY DEF IInv, TypeOK, LeaseRow
<1>6. TypeOK'
  BY <1>1, <1>4, <1>5 DEF IInv, TypeOK
<1>7. \A f \in Flights :
        \/ leases'[f] = leases[f]
        \/ leases'[f] = NoLease /\ devices'[leases[f].device].status = "revoked"
  BY <1>4
<1>8. Pairings'
  BY <1>4, <1>7, NowFacts, PairingsKept
<1>9. SnapshotsOK' /\ SamplesOK' /\ Record'
  BY <1>1, NowFacts, SnapshotsKept, SamplesKept DEF IInv, Record, EventsOK, ProvenanceAgrees, AutomaticIsFirst
<1> QED
  BY <1>6, <1>8, <1>9 DEF IInv, Record, Pairings

LEMMA ChangeKeeps ==
  ASSUME IInv, NEW f \in Flights, NEW status \in FlightStatus, NEW pilot \in Pilots,
         ChangeFlight(f, status, pilot)
  PROVE  IInv'
<1> USE DEF ChangeFlight
<1>1. flights \in [Flights -> Row] /\ flights[f] \in Row
  BY DEF IInv, TypeOK
<1>2. flights'[f] = [flights[f] EXCEPT !.status = status, !.pilot = pilot,
                                       !.version = flights[f].version + 1]
  BY <1>1
<1>3. flights'[f] \in Row
  BY <1>1, <1>2, ChangedRow
<1>4. \A g \in Flights : g # f => flights'[g] = flights[g]
  BY <1>1
<1>5. flights' \in [Flights -> Row]
  BY <1>1, <1>3, <1>4
<1>6. /\ flights'[f].version = flights[f].version + 1
      /\ flights'[f].at = flights[f].at
      /\ flights'[f].manual = flights[f].manual
  BY <1>1, <1>2 DEF Row
<1>7. TypeOK'
  BY <1>5 DEF IInv, TypeOK
<1>8. SnapshotsOK' /\ SamplesOK'
  BY <1>4, <1>6, NowFacts, SnapshotsKept, SamplesKept
<1>9. Record'
  BY <1>4, <1>6, RecordKept
<1>10. Pairings'
  BY DEF IInv, Pairings, LeasesOK, OnePairing
<1> QED
  BY <1>7, <1>8, <1>9, <1>10 DEF IInv, Record, Pairings

LEMMA LosePilotKeeps ==
  ASSUME IInv, NEW p \in Pilots, LosePilot(p)
  PROVE  IInv'
<1> USE DEF LosePilot
<1>1. TypeOK'
  BY DEF IInv, TypeOK
<1>2. SnapshotsOK' /\ SamplesOK' /\ Record' /\ Pairings'
  BY NowFacts, SnapshotsKept, SamplesKept
  DEF IInv, Record, Pairings, EventsOK, ProvenanceAgrees, AutomaticIsFirst, LeasesOK, OnePairing
<1> QED
  BY <1>1, <1>2 DEF IInv, Record, Pairings

LEMMA TickKeeps ==
  ASSUME IInv, Tick
  PROVE  IInv'
<1> USE DEF Tick
<1>1. TypeOK'
  BY TimeAssumption DEF IInv, TypeOK, Times
<1>2. SnapshotsOK' /\ SamplesOK' /\ Pairings'
  BY NowFacts, SnapshotsKept, SamplesKept, PairingsKept
<1>3. Record'
  BY DEF IInv, Record, EventsOK, ProvenanceAgrees, AutomaticIsFirst
<1> QED
  BY <1>1, <1>2, <1>3 DEF IInv, Record, Pairings

-----------------------------------------------------------------------------
(* Statements that write times and provenance.                             *)

\* New provenance at the new version, one row a mark, beside the columns it
\* speaks of: a correction, or the first event of its mark.
LEMMA RecordExtended ==
  ASSUME IInv, NEW f \in Flights, NEW new \in SUBSET Event,
         events' = [events EXCEPT ![f] = events[f] \cup new],
         flights' \in [Flights -> Row],
         \A g \in Flights : g # f => flights'[g] = flights[g],
         flights'[f].version = flights[f].version + 1,
         flights[f].manual \subseteq flights'[f].manual,
         \A e \in new :
           /\ e.version = flights[f].version + 1
           /\ flights'[f].at[e.mark] = e.at
           /\ e.mark \in flights'[f].manual \/ e.at # Null,
         \A x, y \in new : x.mark = y.mark => x = y,
         \A m \in Marks :
           (\A e \in new : e.mark # m) => flights'[f].at[m] = flights[f].at[m],
         \A e \in new : e.source = "telemetry" =>
           \A x \in events[f] : x.mark # e.mark
  PROVE  Record'
<1>1. events \in [Flights -> SUBSET Event] /\ flights \in [Flights -> Row]
  BY DEF IInv, TypeOK
<1>2. events'[f] = events[f] \cup new /\ \A g \in Flights : g # f => events'[g] = events[g]
  BY <1>1
<1>3. \A e \in events[f] \cup new : e \in Event /\ e.mark \in Marks /\ e.version \in Nat
  BY <1>1 DEF Event
<1>4. flights[f].version \in Nat
  BY <1>1 DEF Row
<1>5. \A e \in events[f] :
        /\ e.version <= flights[f].version
        /\ e.mark \in flights[f].manual \/ flights[f].at[e.mark] # Null
  BY DEF IInv, EventsOK
<1>6. EventsOK'
  <2> SUFFICES ASSUME NEW g \in Flights, NEW e \in events'[g]
               PROVE  /\ e.version <= flights'[g].version
                      /\ e.mark \in flights'[g].manual \/ flights'[g].at[e.mark] # Null
    BY DEF EventsOK
  <2>1. CASE g # f
    BY <1>2, <2>1 DEF IInv, EventsOK
  <2>2. CASE g = f /\ e \in new
    BY <1>4, <2>2
  <2>3. CASE g = f /\ e \in events[f]
    <3>1. e.version <= flights'[f].version
      BY <1>3, <1>4, <1>5, <2>3
    <3>2. CASE \E x \in new : x.mark = e.mark
      BY <2>3, <3>1, <3>2
    <3>3. CASE \A x \in new : x.mark # e.mark
      BY <1>3, <1>5, <2>3, <3>1, <3>3
    <3> QED
      BY <3>2, <3>3
  <2> QED
    BY <1>2, <2>1, <2>2, <2>3
<1>7. ProvenanceAgrees'
  <2> SUFFICES ASSUME NEW g \in Flights, NEW e \in events'[g], e.at # Null,
                      \A x \in events'[g] : x.mark = e.mark => x.version <= e.version
               PROVE  flights'[g].at[e.mark] = e.at
    BY <1>6 DEF ProvenanceAgrees, EventsOK
  <2>1. CASE g # f
    BY <1>2, <2>1 DEF IInv, ProvenanceAgrees
  <2>2. CASE g = f /\ e \in new
    BY <2>2
  <2>3. CASE g = f /\ e \in events[f]
    <3>1. \A x \in new : x.mark # e.mark
      BY <1>2, <1>3, <1>4, <1>5, <2>3
    <3>2. flights'[f].at[e.mark] = flights[f].at[e.mark]
      BY <1>3, <2>3, <3>1
    <3> QED
      BY <1>2, <2>3, <3>2 DEF IInv, ProvenanceAgrees
  <2> QED
    BY <1>2, <2>1, <2>2, <2>3
<1>8. AutomaticIsFirst'
  <2> SUFFICES ASSUME NEW g \in Flights, NEW x \in events'[g], NEW y \in events'[g],
                      x.source = "telemetry", y.mark = x.mark, y # x
               PROVE  x.version < y.version
    BY DEF AutomaticIsFirst
  <2>1. CASE g # f
    BY <1>2, <2>1 DEF IInv, AutomaticIsFirst
  <2>2. CASE g = f /\ x \in new
    BY <1>2, <2>2
  <2>3. CASE g = f /\ x \in events[f] /\ y \in new
    BY <1>3, <1>4, <1>5, <2>3
  <2>4. CASE g = f /\ x \in events[f] /\ y \in events[f]
    BY <2>4 DEF IInv, AutomaticIsFirst
  <2> QED
    BY <1>2, <2>1, <2>2, <2>3, <2>4
<1> QED
  BY <1>6, <1>7, <1>8 DEF Record

LEMMA ChangeFacts ==
  ASSUME NEW change \in Corrections \cup {NoChange}
  PROVE  DOMAIN change \subseteq Marks /\ \A m \in DOMAIN change : change[m] \in Values
<1>1. CASE change = NoChange
  BY <1>1 DEF NoChange
<1>2. CASE change \in Corrections
  <2>1. PICK S \in SUBSET Marks : change \in [S -> Values]
    BY <1>2, DataAssumption
  <2> QED
    BY <2>1
<1> QED
  BY <1>1, <1>2

LEMMA CorrectRow ==
  ASSUME IInv, NEW s \in Sessions, CommitCorrect(s)
  PROVE  LET h == sessions[s]
             f == h.flight IN
           /\ h \in Updating
           /\ flights' \in [Flights -> Row]
           /\ \A g \in Flights : g # f => flights'[g] = flights[g]
           /\ flights'[f].version = flights[f].version + 1
           /\ flights'[f].manual = flights[f].manual \cup DOMAIN h.change
           /\ flights'[f].at = Proposed(flights[f], h.change)
<1> DEFINE h == sessions[s]
           f == h.flight
           at == Proposed(flights[f], h.change)
           manual == flights[f].manual \cup DOMAIN h.change
<1>1. h \in Updating
  BY UpdatingFacts DEF CommitCorrect, IInv
<1>2. f \in Flights /\ flights[f] \in Row /\ flights \in [Flights -> Row]
  BY <1>1 DEF Updating, IInv, TypeOK
<1>3. flights[f].at \in [Marks -> Values] /\ flights[f].manual \in SUBSET Marks
  BY <1>2 DEF Row
<1>4. h.change \in Corrections \cup {NoChange}
  BY <1>1 DEF Updating
<1>5. at \in [Marks -> Values] /\ manual \in SUBSET Marks
  BY <1>3, <1>4, ChangeFacts DEF Proposed
<1>6. flights' = [flights EXCEPT ![f].at = at, ![f].manual = @ \cup DOMAIN h.change,
                                 ![f].version = @ + 1]
  BY DEF CommitCorrect
<1> HIDE DEF at
<1>7. flights'[f] = [flights[f] EXCEPT !.at = at, !.manual = manual,
                                       !.version = flights[f].version + 1]
  BY <1>2, <1>6
<1> HIDE DEF manual
<1>8. flights'[f] \in Row
  <2>1. [flights[f] EXCEPT !.at = at, !.manual = manual,
                           !.version = flights[f].version + 1] \in Row
    BY <1>2, <1>5, CorrectedRow
  <2> QED
    BY <1>7, <2>1
<1>9. \A g \in Flights : g # f => flights'[g] = flights[g]
  BY <1>2, <1>6
<1>10. flights' \in [Flights -> Row]
  BY <1>2, <1>6, <1>8, <1>9
<1>11. /\ flights'[f].version = flights[f].version + 1
       /\ flights'[f].manual = manual
       /\ flights'[f].at = at
  BY <1>2, <1>7 DEF Row
<1> QED
  BY <1>1, <1>9, <1>10, <1>11 DEF at, manual

LEMMA CorrectKeeps ==
  ASSUME IInv, NEW s \in Sessions, CommitCorrect(s)
  PROVE  IInv'
<1> DEFINE h == sessions[s]
           f == h.flight
           new == Provenance(flights[f], h.change)
<1>1. /\ sessions' \in [Sessions -> Handler \cup {Idle}]
      /\ \A t \in Sessions : sessions'[t] \in {sessions[t], Idle}
  BY EndsHandler DEF IInv, CommitCorrect
<1>2. /\ h \in Updating
      /\ f \in Flights
      /\ h.change \in Corrections \cup {NoChange}
  BY CorrectRow DEF Updating
<1>3. DOMAIN h.change \subseteq Marks /\ \A m \in DOMAIN h.change : h.change[m] \in Values
  BY <1>2, ChangeFacts
<1>4. flights[f].version \in Nat /\ flights[f].version + 1 \in Nat
  BY <1>2 DEF IInv, TypeOK, Row
<1>5. new \in SUBSET Event
  BY <1>3, <1>4 DEF Provenance, Event
<1>6. events' = [events EXCEPT ![f] = events[f] \cup new]
  BY DEF CommitCorrect
<1>7. UNCHANGED <<now, able, devices, leases, current>>
  BY DEF CommitCorrect
<1>8. events' \in [Flights -> SUBSET Event]
  BY <1>2, <1>5, <1>6 DEF IInv, TypeOK
<1>9. TypeOK'
  BY <1>1, <1>7, <1>8, CorrectRow DEF IInv, TypeOK
<1>10. SnapshotsOK' /\ SamplesOK'
  BY <1>1, <1>7, CorrectRow, NowFacts, SnapshotsKept, SamplesKept
<1>11. Pairings'
  BY <1>7 DEF IInv, Pairings, LeasesOK, OnePairing
<1>12. Record'
  <2>1. \A e \in new :
          /\ e.mark \in DOMAIN h.change
          /\ e.version = flights[f].version + 1
          /\ e.at = h.change[e.mark]
          /\ e.source = "manual"
    BY DEF Provenance
  <2>2. \A x, y \in new : x.mark = y.mark => x = y
    BY DEF Provenance
  <2>3. ASSUME NEW m \in DOMAIN h.change PROVE \E e \in new : e.mark = m
    <3> DEFINE e == [mark |-> m, at |-> h.change[m], source |-> "manual",
                     version |-> flights[f].version + 1]
    <3>1. e \in new /\ e.mark = m
      BY DEF Provenance
    <3> QED
      BY <3>1
  <2>4. /\ flights'[f].at = Proposed(flights[f], h.change)
        /\ flights'[f].manual = flights[f].manual \cup DOMAIN h.change
        /\ flights'[f].version = flights[f].version + 1
        /\ flights' \in [Flights -> Row]
        /\ \A g \in Flights : g # f => flights'[g] = flights[g]
    BY CorrectRow
  <2>5. \A m \in Marks : flights'[f].at[m] =
          IF m \in DOMAIN h.change THEN h.change[m] ELSE flights[f].at[m]
    BY <2>4 DEF Proposed
  <2>6. \A e \in new : flights'[f].at[e.mark] = e.at /\ e.mark \in flights'[f].manual
    BY <1>3, <2>1, <2>4, <2>5
  <2>7. \A m \in Marks : (\A e \in new : e.mark # m) => flights'[f].at[m] = flights[f].at[m]
    BY <2>3, <2>5
  <2> HIDE DEF new
  <2> QED
    BY <1>2, <1>5, <1>6, <2>1, <2>2, <2>4, <2>6, <2>7, RecordExtended
<1> QED
  BY <1>9, <1>10, <1>11, <1>12 DEF IInv, Record, Pairings

LEMMA DetectedRow ==
  ASSUME NEW row \in Row, NEW at \in [Marks -> Values]
  PROVE  LET new == [row EXCEPT !.at = at, !.version = row.version + 1] IN
           new \in Row /\ new.version = row.version + 1
           /\ new.manual = row.manual /\ new.at = at
<1>1. row.version + 1 \in Nat
  BY DEF Row
<1> QED
  BY <1>1 DEF Row

\* The accepted sample writes the detected column, or none.
LEMMA IngestRow ==
  ASSUME IInv, NEW s \in Sessions, LandIngest(s)
  PROVE  LET h == sessions[s]
             f == h.flight
             m == Detected(h, flights[f]) IN
           /\ h \in Ingesting /\ h.at <= now
           /\ m = Null => UNCHANGED <<flights, events>>
           /\ m # Null =>
                /\ m \in Marks
                /\ flights[f].at[m] = Null
                /\ m \notin flights[f].manual
                /\ FitsAt(flights[f].at, m, h.at)
                /\ flights' \in [Flights -> Row]
                /\ \A g \in Flights : g # f => flights'[g] = flights[g]
                /\ flights'[f].version = flights[f].version + 1
                /\ flights'[f].manual = flights[f].manual
                /\ flights'[f].at[m] = h.at
                /\ \A n \in Marks : n # m => flights'[f].at[n] = flights[f].at[n]
                /\ events' = [events EXCEPT ![f] = events[f] \cup
                     {[mark |-> m, at |-> h.at, source |-> "telemetry",
                       version |-> flights[f].version + 1]}]
<1> DEFINE h == sessions[s]
           f == h.flight
           m == Detected(h, flights[f])
<1>1. At(s, "ingesting")
  BY DEF LandIngest
<1>2. h \in Ingesting /\ h.at <= now
  BY <1>1, IngestingFacts DEF IInv, SamplesOK
<1>3. m = Null => UNCHANGED <<flights, events>>
  BY DEF LandIngest
<1>4. ASSUME m # Null
      PROVE  /\ flights' = [flights EXCEPT ![f].at[m] = h.at, ![f].version = @ + 1]
             /\ events' = [events EXCEPT ![f] = events[f] \cup
                  {[mark |-> m, at |-> h.at, source |-> "telemetry",
                    version |-> flights[f].version + 1]}]
  BY <1>4 DEF LandIngest
<1>5. f \in Flights /\ h.at \in Times /\ flights \in [Flights -> Row]
  BY <1>2 DEF Ingesting, IInv, TypeOK
<1>6. m # Null => /\ m \in Marks
                  /\ flights[f].at[m] = Null
                  /\ m \notin flights[f].manual
                  /\ FitsAt(flights[f].at, m, h.at)
  BY DetectedFacts
<1>7. ASSUME m # Null
      PROVE  /\ flights' \in [Flights -> Row]
             /\ \A g \in Flights : g # f => flights'[g] = flights[g]
             /\ flights'[f].version = flights[f].version + 1
             /\ flights'[f].manual = flights[f].manual
             /\ flights'[f].at[m] = h.at
             /\ \A n \in Marks : n # m => flights'[f].at[n] = flights[f].at[n]
  <2>1. flights' = [flights EXCEPT ![f].at[m] = h.at, ![f].version = @ + 1]
    BY <1>4, <1>7
  <2>2. m \in Marks /\ flights[f] \in Row
    BY <1>5, <1>6, <1>7
  <2> DEFINE at == [flights[f].at EXCEPT ![m] = h.at]
  <2> HIDE DEF m, h, f
  <2>3. flights'[f] = [flights[f] EXCEPT !.at = at, !.version = flights[f].version + 1]
    BY <1>5, <2>1
  <2>4. flights[f].at \in [Marks -> Values] /\ h.at \in Values
    BY <1>5, <2>2 DEF Row, Values
  <2>5. /\ at \in [Marks -> Values]
         /\ at[m] = h.at
         /\ \A n \in Marks : n # m => at[n] = flights[f].at[n]
    BY <2>2, <2>4
  <2> HIDE DEF at
  <2>6. LET new == [flights[f] EXCEPT !.at = at, !.version = flights[f].version + 1] IN
           new \in Row /\ new.version = flights[f].version + 1
           /\ new.manual = flights[f].manual /\ new.at = at
    BY <2>2, <2>5, DetectedRow
  <2>7. /\ flights'[f] \in Row
        /\ flights'[f].version = flights[f].version + 1
        /\ flights'[f].manual = flights[f].manual
        /\ flights'[f].at[m] = h.at
        /\ \A n \in Marks : n # m => flights'[f].at[n] = flights[f].at[n]
    BY <2>3, <2>5, <2>6
  <2>8. \A g \in Flights : g # f => flights'[g] = flights[g]
    BY <1>5, <2>1
  <2>9. flights' \in [Flights -> Row]
    <3>1. DOMAIN flights' = Flights
      BY <1>5, <2>1
    <3>2. flights' = [g \in Flights |-> flights'[g]]
      BY <1>5, <2>1, <3>1
    <3> QED
      BY <1>5, <2>7, <2>8, <3>2
  <2> QED
    BY <2>7, <2>8, <2>9
<1> QED
  BY <1>2, <1>3, <1>4, <1>6, <1>7

\* A mark without time and without override has no provenance yet.
LEMMA FirstOfMark ==
  ASSUME IInv, NEW f \in Flights, NEW m, flights[f].at[m] = Null,
         m \notin flights[f].manual
  PROVE  \A e \in events[f] : e.mark # m
BY DEF IInv, EventsOK

\* The device of an accepted sample gives up or renews what it held.
LEMMA IngestPairings ==
  ASSUME IInv, NEW s \in Sessions, LandIngest(s)
  PROVE  Pairings'
<1> DEFINE h == sessions[s]
           f == h.flight
<1>1. h \in Ingesting /\ h.at <= now
  BY IngestRow
<1>2. /\ f \in Flights /\ h.device \in Devices /\ h.at \in Nat
      /\ current \in [Flights -> Sample] /\ leases \in [Flights -> LeaseRow]
      /\ Kept(h) \in [Flights -> LeaseRow]
      /\ devices \in [Devices -> Device]
  BY <1>1, TimeAssumption, KeptType DEF Ingesting, IInv, TypeOK, Times
<1>3. /\ leases' = [Kept(h) EXCEPT ![f] = [device |-> h.device, until |-> h.at + Lease]]
      /\ current' = [current EXCEPT ![f] =
            [device |-> h.device, phase |-> h.phase, at |-> h.at]]
      /\ devices' = [devices EXCEPT ![h.device].sequence = h.sequence,
                                    ![h.device].ingested = h.at]
      /\ now' = now
      /\ UniqueDevice(h)
  BY DEF LandIngest, Acquires
<1> HIDE DEF h
<1>4. \A d \in Devices : devices[d].status = "revoked" => devices'[d].status = "revoked"
  BY <1>2, <1>3 DEF Device
<1>5. leases'[f] = [device |-> h.device, until |-> h.at + Lease]
      /\ \A g \in Flights : g # f => leases'[g] = Kept(h)[g]
  BY <1>2, <1>3
<1>6. current'[f] = [device |-> h.device, phase |-> h.phase, at |-> h.at]
      /\ \A g \in Flights : g # f => current'[g] = current[g]
  BY <1>2, <1>3
<1>7. ASSUME NEW g \in Flights, g # f
      PROVE  \/ leases'[g] = leases[g]
             \/ leases'[g] = NoLease /\ leases[g].until <= now'
  <2>1. CASE g \notin ReleasedBy(h)
    BY <1>5, <1>7, <2>1 DEF Kept
  <2>2. CASE g \in ReleasedBy(h)
    <3>1. leases[g].until <= h.at
      BY <2>2 DEF ReleasedBy, Expired
    <3>2. leases[g].until \in Nat
      BY <1>2 DEF LeaseRow, NoLease
    <3> QED
      BY <1>1, <1>2, <1>3, <1>5, <1>7, <2>2, <3>1, <3>2, NowFacts DEF Kept
  <2> QED
    BY <2>1, <2>2
<1>8. LeasesOK'
  <2> SUFFICES ASSUME NEW g \in Flights, current'[g] # NoSample
               PROVE  \/ devices'[current'[g].device].status = "revoked"
                      \/ now' >= current'[g].at + Lease
                      \/ leases'[g] = [device |-> current'[g].device,
                                       until |-> current'[g].at + Lease]
    BY DEF LeasesOK
  <2>1. CASE g = f
    BY <1>5, <1>6, <2>1
  <2>2. CASE g # f
    BY <1>3, <1>4, <1>6, <1>7, <2>2, NowFacts, LeaseKept
  <2> QED
    BY <2>1, <2>2
<1>9. OnePairing'
  <2>1. ASSUME NEW g \in Flights, g # f PROVE leases'[g].device # h.device
    BY <1>3, <1>5, <2>1 DEF UniqueDevice
  <2>2. ASSUME NEW g \in Flights, NEW k \in Flights, g # f, k # f,
               leases'[g] # NoLease, leases'[g].device = leases'[k].device
        PROVE  g = k
    <3>1. leases'[g] = leases[g]
      BY <1>7, <2>2
    <3>2. leases[g].device \in Devices
      BY <1>2, <2>2, <3>1 DEF LeaseRow
    <3>3. leases'[k] = leases[k]
      BY <1>7, <2>2, <3>1, <3>2, NullAssumption DEF NoLease
    <3> QED
      BY <2>2, <3>1, <3>3 DEF IInv, OnePairing
  <2> QED
    BY <1>5, <2>1, <2>2 DEF OnePairing
<1> QED
  BY <1>8, <1>9 DEF Pairings

LEMMA IngestKeeps ==
  ASSUME IInv, NEW s \in Sessions, LandIngest(s)
  PROVE  IInv'
<1> DEFINE h == sessions[s]
           f == h.flight
           m == Detected(h, flights[f])
           new == {[mark |-> m, at |-> h.at, source |-> "telemetry",
                    version |-> flights[f].version + 1]}
<1>1. /\ sessions' \in [Sessions -> Handler \cup {Idle}]
      /\ \A t \in Sessions : sessions'[t] \in {sessions[t], Idle}
  BY EndsHandler DEF IInv, LandIngest
<1>2. h \in Ingesting /\ h.at <= now
  BY IngestRow
<1>3. /\ f \in Flights /\ h.device \in Devices /\ h.at \in Nat /\ h.at \in Times
      /\ h.phase \in AllPhases /\ h.sequence \in Nat
      /\ current \in [Flights -> Sample] /\ leases \in [Flights -> LeaseRow]
      /\ devices \in [Devices -> Device]
      /\ flights \in [Flights -> Row] /\ flights[f].version \in Nat
  BY <1>2, TimeAssumption, DataAssumption DEF Ingesting, IInv, TypeOK, Times, Row
<1>4. now' = now /\ able' = able
  BY DEF LandIngest
<1>5. leases' \in [Flights -> LeaseRow]
  <2>1. [device |-> h.device, until |-> h.at + Lease] \in LeaseRow
    BY <1>3, TimeAssumption DEF LeaseRow
  <2>2. Kept(h) \in [Flights -> LeaseRow]
    BY KeptType DEF IInv
  <2>3. leases' = [Kept(h) EXCEPT ![f] = [device |-> h.device, until |-> h.at + Lease]]
    BY DEF LandIngest
  <2> QED
    BY <2>1, <2>2, <2>3
<1>6. current' \in [Flights -> Sample]
  <2>1. [device |-> h.device, phase |-> h.phase, at |-> h.at] \in Sample
    BY <1>3 DEF Sample
  <2>2. current' = [current EXCEPT ![f] =
          [device |-> h.device, phase |-> h.phase, at |-> h.at]]
    BY DEF LandIngest
  <2> QED
    BY <1>3, <2>1, <2>2
<1>7. devices' \in [Devices -> Device]
  <2>1. devices' = [devices EXCEPT ![h.device].sequence = h.sequence,
                                   ![h.device].ingested = h.at]
    BY DEF LandIngest
  <2>2. h.at \in Values
    BY <1>3 DEF Values
  <2> HIDE DEF h
  <2> QED
    BY <1>3, <2>1, <2>2 DEF Device
<1>8. CASE m = Null
  <2>1. UNCHANGED <<flights, events>>
    BY <1>8, IngestRow
  <2>2. TypeOK'
    BY <1>1, <1>4, <1>5, <1>6, <1>7, <2>1 DEF IInv, TypeOK
  <2>3. SnapshotsOK' /\ SamplesOK'
    BY <1>1, <1>4, <2>1, NowFacts, SnapshotsKept, SamplesKept
  <2>4. Record'
    BY <2>1 DEF IInv, Record, EventsOK, ProvenanceAgrees, AutomaticIsFirst
  <2> QED
    BY <2>2, <2>3, <2>4, IngestPairings DEF IInv, Record, Pairings
<1>9. CASE m # Null
  <2>1. /\ m \in Marks
        /\ flights[f].at[m] = Null
        /\ m \notin flights[f].manual
        /\ flights' \in [Flights -> Row]
        /\ \A g \in Flights : g # f => flights'[g] = flights[g]
        /\ flights'[f].version = flights[f].version + 1
        /\ flights'[f].manual = flights[f].manual
        /\ flights'[f].at[m] = h.at
        /\ \A n \in Marks : n # m => flights'[f].at[n] = flights[f].at[n]
        /\ events' = [events EXCEPT ![f] = events[f] \cup new]
    BY <1>9, IngestRow
  <2>2. new \in SUBSET Event
    BY <1>3, <2>1 DEF Event, Values
  <2>3. events' \in [Flights -> SUBSET Event]
    BY <1>3, <2>1, <2>2 DEF IInv, TypeOK
  <2>4. TypeOK'
    BY <1>1, <1>4, <1>5, <1>6, <1>7, <2>1, <2>3 DEF IInv, TypeOK
  <2>5. SnapshotsOK' /\ SamplesOK'
    BY <1>1, <1>4, <2>1, NowFacts, SnapshotsKept, SamplesKept
  <2>6. \A e \in events[f] : e.mark # m
    BY <1>3, <2>1, FirstOfMark
  <2>7. \A e \in new : /\ e.mark = m /\ e.at = h.at /\ e.at # Null
                       /\ e.version = flights[f].version + 1
    BY <1>3, NullAssumption
  <2>8. \E e \in new : e.mark = m
    OBVIOUS
  <2>9. \A n \in Marks : (\A e \in new : e.mark # n) => flights'[f].at[n] = flights[f].at[n]
    BY <2>1, <2>8
  <2>10. \A e \in new : /\ e.version = flights[f].version + 1
                        /\ flights'[f].at[e.mark] = e.at
                        /\ e.mark \in flights'[f].manual \/ e.at # Null
    BY <2>1, <2>7
  <2>11. \A e \in new : e.source = "telemetry" => \A x \in events[f] : x.mark # e.mark
    BY <2>6, <2>7
  <2>12. \A x, y \in new : x.mark = y.mark => x = y
    OBVIOUS
  <2>13. flights[f].manual \subseteq flights'[f].manual
    BY <2>1
  <2> HIDE DEF new, m, f
  <2>14. Record'
    BY <1>3, <2>1, <2>2, <2>12, <2>13, <2>9, <2>10, <2>11, RecordExtended
  <2> QED
    BY <2>4, <2>5, <2>14, IngestPairings DEF IInv, Record, Pairings
<1> QED
  BY <1>8, <1>9

-----------------------------------------------------------------------------
(* The invariant.                                                          *)

LEMMA Initially ==
  ASSUME Init
  PROVE  IInv
<1> USE DEF Init
<1>1. flights \in [Flights -> Row]
  <2>1. [m \in Marks |-> Null] \in [Marks -> Values]
    BY DEF Values
  <2> QED
    BY <2>1 DEF Row, FlightStatus, Trackable
<1>2. devices \in [Devices -> Device]
  BY DEF Device, Values
<1>3. TypeOK
  BY <1>1, <1>2, TimeAssumption DEF TypeOK, Times, LeaseRow, Sample
<1>4. \A s \in Sessions : ~Running(s)
  BY DEF Running
<1>5. SnapshotsOK /\ SamplesOK
  BY <1>4 DEF SnapshotsOK, SamplesOK, At
<1>6. EventsOK /\ ProvenanceAgrees /\ AutomaticIsFirst
  BY DEF EventsOK, ProvenanceAgrees, AutomaticIsFirst
<1>7. LeasesOK /\ OnePairing
  BY DEF LeasesOK, OnePairing
<1> QED
  BY <1>3, <1>5, <1>6, <1>7 DEF IInv

LEMMA Inductive ==
  ASSUME IInv, [Next]_vars
  PROVE  IInv'
<1>1. ASSUME NEW s \in Sessions, TelemetryNext(s) PROVE IInv'
  BY <1>1, ReceiveKeeps, StartRevokeKeeps, StartIngestKeeps, IngestKeeps,
     RefuseKeeps, RevokeKeeps DEF TelemetryNext
<1>2. ASSUME NEW s \in Sessions, RecordNext(s) PROVE IInv'
  BY <1>2, BeginUpdateKeeps, ProgressKeeps, CorrectKeeps DEF RecordNext
<1>3. ASSUME NEW s \in Sessions, Drop(s) PROVE IInv'
  BY <1>3, DropKeeps
<1>4. ASSUME TenantNext PROVE IInv'
  BY <1>4, ChangeKeeps, LosePilotKeeps, CreateKeeps, TickKeeps DEF TenantNext
<1>5. ASSUME UNCHANGED vars PROVE IInv'
  <2>1. UNCHANGED <<now, able, flights, events, devices, leases, current, sessions>>
    BY <1>5 DEF vars
  <2> QED
    BY <2>1, HandlersOnly DEF IInv, TypeOK
<1> QED
  BY <1>1, <1>2, <1>3, <1>4, <1>5 DEF Next

\* The parts of the invariant hold together in every reachable state.
THEOREM Invariant == Spec => []IInv
<1>1. Init => IInv
  BY Initially
<1>2. IInv /\ [Next]_vars => IInv'
  BY Inductive
<1> QED
  BY <1>1, <1>2, PTL DEF Spec

\* Every table keeps its schema and every handler its shape, for any number of
\* flights, devices and handlers.
THEOREM TypeCorrect == Spec => []TypeOK
<1>1. IInv => TypeOK
  BY DEF IInv
<1> QED
  BY <1>1, Invariant, PTL

\* The newest provenance row of a mark tells the time the flight shows.
THEOREM ProvenanceHonest == Spec => []ProvenanceAgrees
<1>1. IInv => ProvenanceAgrees
  BY DEF IInv
<1> QED
  BY <1>1, Invariant, PTL

\* Automatic detection writes at most once a mark, and never after a dispatcher.
THEOREM AutomaticFirst == Spec => []AutomaticIsFirst
<1>1. IInv => AutomaticIsFirst
  BY DEF IInv
<1> QED
  BY <1>1, Invariant, PTL

\* No interleaving of ingests, revocations and expiries gives a device two
\* flights to write.
THEOREM OneLeasePerDevice == Spec => []OnePairing
<1>1. IInv => OnePairing
  BY DEF IInv
<1> QED
  BY <1>1, Invariant, PTL

-----------------------------------------------------------------------------
(* What a step may never do.                                               *)

\* Only these actions write times, provenance or current samples.
LEMMA OtherSteps ==
  ASSUME [Next]_vars
  PROVE  \/ \E s \in Sessions : LandIngest(s) \/ CommitProgress(s) \/ CommitCorrect(s)
         \/ /\ UNCHANGED <<events, current>>
            /\ \/ UNCHANGED flights
               \/ \E f \in Flights, status \in FlightStatus, pilot \in Pilots :
                    ChangeFlight(f, status, pilot)
<1> DEFINE Quiet == UNCHANGED <<events, current, flights>>
<1>1. ASSUME NEW s \in Sessions, TelemetryNext(s) PROVE Quiet \/ LandIngest(s)
  BY <1>1 DEF TelemetryNext, ReceiveSample, Enter, StartIngest, RefuseIngest,
              StartRevoke, LandRevoke
<1>2. ASSUME NEW s \in Sessions, RecordNext(s)
      PROVE  Quiet \/ CommitProgress(s) \/ CommitCorrect(s)
  BY <1>2 DEF RecordNext, BeginWeb, BeginHoppie, BeginCorrect, Load, Enter
<1>3. ASSUME NEW s \in Sessions, Drop(s) PROVE Quiet
  BY <1>3 DEF Drop
<1>4. ASSUME TenantNext
      PROVE  \/ Quiet
             \/ \E f \in Flights, status \in FlightStatus, pilot \in Pilots :
                  ChangeFlight(f, status, pilot) /\ UNCHANGED <<events, current>>
  BY <1>4 DEF TenantNext, ChangeFlight, LosePilot, CreateDevice, Tick
<1>5. ASSUME UNCHANGED vars PROVE Quiet
  BY <1>5 DEF vars
<1> QED
  BY <1>1, <1>2, <1>3, <1>4, <1>5 DEF Next

LEMMA ChangeLeavesTimes ==
  ASSUME IInv, NEW f \in Flights, NEW status \in FlightStatus, NEW pilot \in Pilots,
         ChangeFlight(f, status, pilot)
  PROVE  \A g \in Flights : flights'[g].at = flights[g].at
<1>1. flights \in [Flights -> Row]
  BY DEF IInv, TypeOK
<1>2. flights' = [flights EXCEPT ![f].status = status, ![f].pilot = pilot,
                                 ![f].version = @ + 1]
  BY DEF ChangeFlight
<1> QED
  BY <1>1, <1>2 DEF Row

\* What a correction changes it signs, at a version the log has not seen.
LEMMA CorrectSigns ==
  ASSUME IInv, NEW s \in Sessions, CommitCorrect(s),
         NEW m \in DOMAIN sessions[s].change
  PROVE  LET f == sessions[s].flight IN
           \E e \in events'[f] \ events[f] : e.mark = m /\ e.source = "manual"
<1> DEFINE h == sessions[s]
           f == h.flight
           e == [mark |-> m, at |-> h.change[m], source |-> "manual",
                 version |-> flights[f].version + 1]
<1>1. f \in Flights
  BY CorrectRow DEF Updating
<1>2. events' = [events EXCEPT ![f] = @ \cup Provenance(flights[f], h.change)]
  BY DEF CommitCorrect
<1>3. e \in Provenance(flights[f], h.change)
  BY DEF Provenance
<1>4. e \in events'[f]
  BY <1>1, <1>2, <1>3 DEF IInv, TypeOK
<1>5. flights[f].version \in Nat /\ e.version = flights[f].version + 1
  BY <1>1 DEF IInv, TypeOK, Row
<1>6. \A x \in events[f] : x.version <= flights[f].version /\ x.version \in Nat
  BY <1>1 DEF IInv, EventsOK, TypeOK, Event
<1>7. e \notin events[f]
  BY <1>5, <1>6
<1>8. e.mark = m /\ e.source = "manual"
  OBVIOUS
<1> QED
  BY <1>4, <1>7, <1>8

\* Reports, web handlers and samples never replace a time: only a correction
\* with its provenance row does.
THEOREM FirstTimeStays == Spec => RecordedTimeStays
<1> DEFINE Step == \A f \in Flights, m \in Marks :
             flights[f].at[m] # Null /\ flights'[f].at[m] # flights[f].at[m] =>
               \E e \in events'[f] \ events[f] : e.mark = m /\ e.source = "manual"
<1>1. ASSUME IInv, [Next]_vars PROVE Step
  <2> SUFFICES ASSUME NEW f \in Flights, NEW m \in Marks, flights[f].at[m] # Null,
                      flights'[f].at[m] # flights[f].at[m]
               PROVE  \E e \in events'[f] \ events[f] : e.mark = m /\ e.source = "manual"
    OBVIOUS
  <2>1. ASSUME NEW s \in Sessions, LandIngest(s) PROVE FALSE
    BY <1>1, <2>1, IngestRow
  <2>2. ASSUME NEW s \in Sessions, CommitProgress(s) PROVE FALSE
    BY <1>1, <2>2, ProgressRow
  <2>3. ASSUME NEW s \in Sessions, CommitCorrect(s)
        PROVE  \E e \in events'[f] \ events[f] : e.mark = m /\ e.source = "manual"
    <3>1. f = sessions[s].flight
      BY <1>1, <2>3, CorrectRow
    <3>2. flights'[f].at = Proposed(flights[f], sessions[s].change)
      BY <1>1, <2>3, <3>1, CorrectRow
    <3>3. m \in DOMAIN sessions[s].change
      BY <3>2 DEF Proposed
    <3> QED
      BY <1>1, <2>3, <3>1, <3>3, CorrectSigns
  <2>4. ASSUME NEW g \in Flights, NEW status \in FlightStatus, NEW pilot \in Pilots,
               ChangeFlight(g, status, pilot)
        PROVE  FALSE
    BY <1>1, <2>4, ChangeLeavesTimes
  <2> QED
    BY <1>1, <2>1, <2>2, <2>3, <2>4, OtherSteps
<1>2. IInv /\ [Next]_vars => [Step]_vars
  BY <1>1
<1> QED
  BY <1>2, Invariant, PTL DEF Spec, RecordedTimeStays

\* A detected time fits between its neighbours.
LEMMA FittingKeepsOrder ==
  ASSUME NEW at \in [Marks -> Values], NEW new \in [Marks -> Values],
         NEW m \in Marks, NEW t \in Times, FitsAt(at, m, t), Chronological(at),
         new[m] = t, \A n \in Marks : n # m => new[n] = at[n]
  PROVE  Chronological(new)
<1> SUFFICES ASSUME NEW x \in Marks, NEW y \in Marks, Before(x, y),
                    new[x] # Null, new[y] # Null
             PROVE  new[x] <= new[y]
  BY DEF Chronological
<1>1. x # y
  BY DEF Before
<1>2. CASE x = m
  BY <1>1, <1>2 DEF FitsAt
<1>3. CASE y = m
  BY <1>1, <1>3 DEF FitsAt
<1>4. CASE x # m /\ y # m
  BY <1>4 DEF Chronological
<1> QED
  BY <1>2, <1>3, <1>4

\* Corrections put the times in order, and detection keeps them so.
THEOREM ChronologyKept == Spec => OrderKept
<1> DEFINE Step == \A f \in Flights : events'[f] # events[f] =>
             \/ Chronological(flights'[f].at)
             \/ /\ ~Chronological(flights[f].at)
                /\ \A e \in events'[f] \ events[f] : e.source = "telemetry"
<1>1. ASSUME IInv, [Next]_vars PROVE Step
  <2> SUFFICES ASSUME NEW f \in Flights, events'[f] # events[f]
               PROVE  \/ Chronological(flights'[f].at)
                      \/ /\ ~Chronological(flights[f].at)
                         /\ \A e \in events'[f] \ events[f] : e.source = "telemetry"
    OBVIOUS
  <2>1. events \in [Flights -> SUBSET Event] /\ flights \in [Flights -> Row]
    BY <1>1 DEF IInv, TypeOK
  <2>2. ASSUME NEW s \in Sessions, LandIngest(s)
        PROVE  \/ Chronological(flights'[f].at)
               \/ /\ ~Chronological(flights[f].at)
                  /\ \A e \in events'[f] \ events[f] : e.source = "telemetry"
    <3> DEFINE h == sessions[s]
               m == Detected(h, flights[h.flight])
    <3>1. /\ m # Null
          /\ f = h.flight
          /\ m \in Marks
          /\ FitsAt(flights[f].at, m, h.at)
          /\ flights' \in [Flights -> Row]
          /\ flights'[f].at[m] = h.at
          /\ \A n \in Marks : n # m => flights'[f].at[n] = flights[f].at[n]
          /\ events'[f] = events[f] \cup
               {[mark |-> m, at |-> h.at, source |-> "telemetry",
                 version |-> flights[f].version + 1]}
      BY <1>1, <2>1, <2>2, IngestRow
    <3>2. h.at \in Times
      BY <1>1, <2>2, IngestRow DEF Ingesting
    <3>3. flights[f].at \in [Marks -> Values] /\ flights'[f].at \in [Marks -> Values]
      BY <2>1, <3>1 DEF Row
    <3> HIDE DEF m, h
    <3>4. \A e \in events'[f] \ events[f] : e.source = "telemetry"
      BY <3>1
    <3>5. CASE Chronological(flights[f].at)
      BY <3>1, <3>2, <3>3, <3>5, FittingKeepsOrder
    <3>6. CASE ~Chronological(flights[f].at)
      BY <3>4, <3>6
    <3> QED
      BY <3>5, <3>6
  <2>3. ASSUME NEW s \in Sessions, CommitProgress(s) PROVE FALSE
    BY <2>3 DEF CommitProgress
  <2>4. ASSUME NEW s \in Sessions, CommitCorrect(s)
        PROVE  Chronological(flights'[f].at)
    <3>1. /\ f = sessions[s].flight
          /\ Valid(Proposed(flights[f], sessions[s].change))
      BY <2>1, <2>4 DEF CommitCorrect
    <3>2. flights'[f].at = Proposed(flights[f], sessions[s].change)
      BY <1>1, <2>4, <3>1, CorrectRow
    <3> QED
      BY <3>1, <3>2 DEF Valid
  <2> QED
    BY <1>1, <2>2, <2>3, <2>4, OtherSteps
<1>2. IInv /\ [Next]_vars => [Step]_vars
  BY <1>1
<1> QED
  BY <1>2, Invariant, PTL DEF Spec, OrderKept

\* Only an accepted sample becomes the current one.
LEMMA SampleSteps ==
  ASSUME IInv, [Next]_vars, NEW f \in Flights, current'[f] # current[f]
  PROVE  \E s \in Sessions :
           /\ LandIngest(s)
           /\ f = sessions[s].flight
           /\ current'[f].device = sessions[s].device
<1>1. current \in [Flights -> Sample]
  BY DEF IInv, TypeOK
<1>2. PICK s \in Sessions : LandIngest(s)
  BY OtherSteps DEF CommitProgress, CommitCorrect
<1>3. current' = [current EXCEPT ![sessions[s].flight] =
        [device |-> sessions[s].device, phase |-> sessions[s].phase,
         at |-> sessions[s].at]]
  BY <1>2 DEF LandIngest
<1>4. f = sessions[s].flight /\ current'[f].device = sessions[s].device
  BY <1>1, <1>3
<1> QED
  BY <1>2, <1>4

\* At the instant a sample is accepted its device is active, its flight under
\* way for its pilot and the pilot a member, however long ago the service asked.
THEOREM SamplesInTime == Spec => NoLateSample
<1> DEFINE Step == \A f \in Flights : current'[f] # current[f] =>
             LET d == current'[f].device IN
               /\ devices[d].status = "active"
               /\ flights[f].status \in Trackable
               /\ flights[f].pilot = Owner[d]
               /\ Owner[d] \in able
<1>1. ASSUME IInv, [Next]_vars PROVE Step
  BY <1>1, SampleSteps DEF LandIngest, Eligible
<1>2. IInv /\ [Next]_vars => [Step]_vars
  BY <1>1
<1> QED
  BY <1>2, Invariant, PTL DEF Spec, NoLateSample

\* The lease protects its writer for its whole length, for any length.
THEOREM OneWriter == Spec => SingleWriter
<1> DEFINE Step == \A f \in Flights :
             current[f] # NoSample /\ current'[f].device # current[f].device =>
               \/ devices[current[f].device].status = "revoked"
               \/ now >= current[f].at + Lease
<1>1. ASSUME IInv, [Next]_vars PROVE Step
  <2> SUFFICES ASSUME NEW f \in Flights, current[f] # NoSample,
                      current'[f].device # current[f].device
               PROVE  \/ devices[current[f].device].status = "revoked"
                      \/ now >= current[f].at + Lease
    OBVIOUS
  <2>1. PICK s \in Sessions : /\ LandIngest(s)
                              /\ f = sessions[s].flight
                              /\ current'[f].device = sessions[s].device
    BY <1>1, SampleSteps
  <2> DEFINE h == sessions[s]
  <2>2. h.at <= now /\ h.at \in Nat /\ now \in Nat
    BY <1>1, <2>1, IngestRow, NowFacts, TimeAssumption DEF Ingesting, Times
  <2>3. current[f].device \in Devices /\ current[f].at \in Nat
    BY <1>1, TimeAssumption DEF IInv, TypeOK, Sample, Times
  <2>4. Renewable(h) \/ Insertable(h)
    BY <2>1 DEF LandIngest, Acquires
  <2>5. CASE leases[f] = [device |-> current[f].device, until |-> current[f].at + Lease]
    <3>1. leases[f].device = current[f].device /\ leases[f].until = current[f].at + Lease
      BY <2>5
    <3>2. leases[f] # NoLease
      BY <2>3, <3>1, NullAssumption DEF NoLease
    <3>3. leases[f].until <= h.at
      BY <2>1, <2>4, <3>1, <3>2 DEF Renewable, Insertable, Expired
    <3>4. current[f].at + Lease \in Nat
      BY <2>3, TimeAssumption
    <3> QED
      BY <2>2, <3>1, <3>3, <3>4
  <2> QED
    BY <1>1, <2>5 DEF IInv, LeasesOK
<1>2. IInv /\ [Next]_vars => [Step]_vars
  BY <1>1
<1> QED
  BY <1>2, Invariant, PTL DEF Spec, SingleWriter

=============================================================================
