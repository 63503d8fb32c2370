# A formal model of va-dispatcher

va-dispatcher is a multi-tenant dispatch system for virtual airlines: pilots ask
for flights, dispatchers plan and release them, pilots accept and fly them, and
administrators manage who is who. The API (`apps/api`) keeps everything in
PostgreSQL behind Neon's HTTP driver; the web application is a client of it.
This directory holds TLA+ modules of the API and of the web application's flight
pages, TLC configurations that check them on small instances, and proofs TLAPS
checks for instances of any size.

## 1. The system

### Why it is hard

The HTTP driver offers no interactive transaction. **Every repository call is one
SQL statement** (usually a chain of CTEs that also writes the audit row), and a
handler is a sequence of such calls: load the flight, check it, read the rows it
depends on, commit with `WHERE version = expectedVersion`. Handlers of several
API instances interleave between any two statements. Nothing but the version
column, the guards repeated inside a statement, unique indexes and a few row or
advisory locks keeps them apart. A handler may also end between two statements
(a lost instance), and a client that got no answer may send a request again.

### Inventory

| Component | State | Operations | Interacts with | What makes it correct |
|---|---|---|---|---|
| Flights (`domain/flights`, `repositories/flights`) | `flights` rows: status, pilot, times, route, `version`, assignment revision and confirmed revision, links to a request and to a replaced flight | create, offer, accept, decline, cancel, patch, confirm, publish, start, finish, re-offer | all others | a flight departs only on the terms its pilot accepted and dispatch released |
| Dispatch releases | `dispatch_releases`, revision per flight | publish | flights, weather service | the latest release matches the flight |
| Schedule requests (`domain/schedule-requests`) | `schedule_requests`: status, pilot, `version`, desired count | create, edit, review, reject, cancel | flights | a reviewed request holds still; cancellation reaches the flights that have not departed |
| Fulfilment (`bulkCreateFlights`) | `schedule_fulfillment_attempts` by Idempotency-Key | fulfil, replay | requests, flights | a batch exists once, fits, and is answered alike each time |
| Memberships (`domain/members`, `repositories/memberships`) | role, status; the identity provider's organization beside it | sign in, apply, review, update with work transfer, remove, synchronise, recover | flights, requests, Clerk | open work is handed over with the membership that held it; an active administrator remains; only a decision admits |
| Telemetry and OOOI | current sample, leases, tracks, OOOI columns and events, devices | ingest, correct, register, revoke | flights | phases advance in order; a manual correction stays |
| ACARS and Hoppie | `acars_messages` | poll, store, apply, send | flights, Hoppie | a report is stored and applied once; a status claims no more than is known |
| SimBrief | dispatches, heads, accounts of members | connect, prepare, launch, fetch, verify | flights, releases, SimBrief | a pilot is sent off with the plan of the flight as it is; verified means proved |
| Navigraph OAuth | transactions, accounts of members | start, callback, disconnect | Navigraph | a transaction connects once, the account that was granted, to its member |
| Retention | policies, runs with cursor and report, holds | create, approve, queue, claim, process, retry, hold | all tables | what is due goes, what a hold covers stays, an execution rests on its dry run |
| Subject requests | requests, external tasks, controls | create, verify, approve, process, export, retry, close tasks | memberships, holds, providers | destroyed by the book or not at all; completed means all parts are |
| Audit and paged lists | append-only rows, cursors | append, list, export | all | every row is on a page, once |
| Tenants, branding | one row per tenant, a blob for its logo | rename, access, Hoppie logon, logo | Clerk, Hoppie, blob store | no address without a blob |
| Flight pages of the web application | cached answers, forms filled from them, open dialogs, calls under way | fetch, poll, fill in, ask and confirm, submit, retry | the API | what one person saw is what his change is based on |
| Authentication, routes, OpenAPI, other pages | no state of their own | — | all | — |

`PROJECT.json` lists every component with its status, and under `hazards`, each
at its line, what a test would hardly reach.

## 2. The modules

| Module | Stands for |
|---|---|
| `FlightLifecycle` | the `flights` table and the handlers that change it, concurrently with administrators, schedule requests and telemetry |
| `FlightContract` | the abstract promise: each flight is a contract that is offered, agreed, released and flown |
| `ScheduleFulfilment` | extends `FlightLifecycle` with the handlers of schedule requests and bulk fulfilment |
| `RequestBudget` | the abstract promise: each request is a budget of flights, asked for, reviewed and spent in batches |
| `OooiRecord` | devices, writer leases, samples, and everything that writes the out/off/on/in times of a flight |
| `Access` | who is a member, by the database and by the identity provider: sign-in, applications, administration, synchronisation, recovery |
| `Retention` | retention policies, dry runs, executions in batches by workers that stall and die, holds |
| `SubjectRequests` | requests to export, correct, restrict or destroy what is stored about a member |
| `Acars` | Hoppie messages in, by overlapping pollers under a cron, and out |
| `TenantConfig` | the settings row of a tenant and the services it is kept in step with |
| `NavigraphOauth` | OAuth transactions and the callbacks that consume them |
| `Paging` | readers of keyset pages and of the privacy export while rows change |
| `Integrations` | composes the four above, with the fairness of the cron |
| `Simbrief` | SimBrief accounts, and plans from preparation to verification |
| `FlightPage` | the flight pages of the web application: cache, forms, dialogs, versions, late and lost answers |
| `Workspaces` | composes the two above around one flight |
| `MC...` | model values, symmetry sets, inputs and bounds for TLC |
| `FlightLifecycleProofs` | the invariant of `FlightLifecycle`, the refinement of `FlightContract` and the theorems about steps |
| `ScheduleFulfilmentProofs` | the invariant of `ScheduleFulfilment`; capacity, keys, repetitions; the refinement of `RequestBudget`; when a request and its flights part |
| `OooiRecordProofs` | the invariant of `OooiRecord` and what its steps may never do |
| `AccessProofs` | the invariant of `Access`; who stays administrator, gets in or becomes administrator |
| `SubjectRequestsProofs` | the invariant of `SubjectRequests`; completion, destruction and settled requests |
| `RetentionProofs` | the invariant of `Retention`; what completion, an execution and a hold mean |
| `IntegrationsProofs` | the invariants of `Acars`, `TenantConfig`, `NavigraphOauth` and `Paging`, composed |
| `WorkspacesProofs` | the invariants of `Simbrief` and `FlightPage`, composed |

### FlightLifecycle

State: `flights`, `members`, `requests` are the tables, `released` the terms the
latest release of a flight was drawn up for, `handlers` the handlers under way,
`change` the membership change that waits for its row locks.
`agreed` is a history variable: the terms the assigned pilot last accepted.
*Terms* are the material fields of `patchFlight`: pilot, time window, and
everything else (number, airports, type) as one `route`.

A handler is a *session*. `Begin...` is its first statement and every check on
the loaded row; `ResolveRequest`, `CheckPilot` and `CheckRelease` are the reads
of other tables in the order the code makes them; `Commit...` is the final
statement. `AtVersion` is the WHERE clause of every versioned update,
`UpdateFlight` the update itself. `Abort` ends a handler that failed a check,
lost a version race, or whose instance died: in each case nothing was written.

| Code | Actions |
|---|---|
| `createFlight` | `BeginCreate`, `CheckPilot`, `CommitCreate` |
| `transitionFlight` | `BeginOffer`/`BeginAnswer`/`BeginCancel`, checks, `CommitStatus`/`CommitAgreement` |
| `confirmAssignment` | `BeginAnswer`, `CommitAgreement` |
| `patchFlight` | `BeginPatch`, `ResolveRequest`, `CheckPilot`, `CommitPatch` |
| `publishDispatchRelease` | `BeginPublish`, `CommitPublish` |
| `startFlight`, `finishFlight` | `BeginStart`, `CheckRelease`, `CommitStart`; `BeginFinish`, `CommitStatus` |
| `processOperationalInteraction`, `applyHoppieProgress` | `BeginHoppie`, `CheckRelease`, `CommitHoppie` |
| `reofferDeclinedFlight` | `BeginReoffer`, `ResolveRequest`, `CheckPilot`, `CommitReoffer` |
| telemetry and OOOI correction | `TouchOooi` |
| `fulfillScheduleRequest` with one flight | `OfferForRequest` |
| `transitionScheduleRequest`, `cancelScheduleRequest` | `MoveRequest` |
| `administrativelyUpdateMembership` | `BeginChange` (snapshot), then `CommitChange` or `AbortChange` |

Abstractions worth knowing:

- Statements are atomic. PostgreSQL's READ COMMITTED can let parts of one
  statement see different moments; the statements concerned take row locks
  first. Where it matters a statement is split in two (`OooiRecord`, `Simbrief`).
- The membership change is such a statement. It finds the member's open requests
  and flights in its snapshot (`BeginChange`), waits for their locks, and hands
  over what still belongs to the member under the version of the snapshot
  (`FlightsToHandOver`, `RequestsToHandOver`). A row changed meanwhile is skipped,
  a row inserted meanwhile is not seen, and the member changes all the same. The
  tenant's advisory lock admits one such change at a time. Fulfilment, review,
  cancellation and every handler of a flight may fall into the gap.
- The administrator role is folded into `dispatcher` (it may do all a dispatcher
  may), `invited` into `disabled` (neither may act); both are in `Access`.
- Drafts are never linked to a request: only bulk fulfilment links flights and it
  offers them at once. The request check of an offer is kept and never reached.
- The operational event that `recordAssignmentConfirmation` and
  `applyHoppieProgress` insert in a second statement is left out, and the
  out/off/on/in columns are left to `OooiRecord`.

### ScheduleFulfilment

A *desk* is a handler of a schedule request. `Call` is what a client sends:
request, Idempotency-Key, and as *payload* what `fulfillmentPayloadHash` hashes:
expected version and flights. The desk looks for an attempt (`BeginFulfil`),
loads and checks the request (`LoadForFulfilment`), checks pilot and availability
(`CheckBatch`), and runs the statement (`CommitFulfil`), which claims the key,
inserts the flights and moves the request. A miss (`MissFulfil`) looks for the
attempt of a concurrent call (`RecheckAttempt`). `Drop` is a failed check, a lost
instance or an answer that never arrived, after which any client may call again.
Flights of the request are answered, cancelled and re-offered meanwhile by the
actions of `FlightLifecycle` (`LinkedFlightNext`), and members change
(`MemberNext`). An item of a batch may name a pilot, which must be the requesting
one; it is taken as omitted.

### OooiRecord

A flight as telemetry sees it: status, pilot, version, four times (`at`) and the
override flags (`manual`). `events` are the rows of `flight_oooi_events`,
ordered by the `toVersion` their audit row records; `devices`, `leases` and
`current` are the telemetry tables, `able` the active pilots, `now` the clock.

Web, Hoppie and correction handlers load and commit as in `FlightLifecycle`.
Telemetry and revocation are single statements, but not single steps. At READ
COMMITTED, PostgreSQL's default and what the driver uses, a statement reads the
rows it locks or updates as they are when it gets them, and all other rows from
the snapshot it took when it started. A statement that waits for a lock is
therefore modelled as `Start...` (snapshot) and `Land...` (everything else).
Unique indexes hold whatever the snapshot says.

| Code | Actions |
|---|---|
| `ingestTelemetry`, `authenticateDevice` | `ReceiveSample` (the time of receipt is fixed here) |
| `ingestFlightTelemetryAtomic` | `StartIngest`, then `LandIngest` (accepted) or `RefuseIngest` (lease conflict); one operator for each CTE: `Eligible`, `ReleasedBy`, `Pairable`, `Renewable`, `Insertable`, `UniqueDevice`, `Acquires`, `Detected` |
| `createDevice`, `revokeDevice` | `CreateDevice`; `StartRevoke`, `LandRevoke` |
| `startFlight`, `finishFlight`, `applyHoppieProgress` | `BeginWeb`, `BeginHoppie`, `CommitProgress` |
| `correctOooi`, `correctOooiAtomic` | `BeginCorrect`, `CommitCorrect` |
| every other change of a flight or member | `ChangeFlight`, `LosePilot` |

The two reads of `ReceiveSample` are one step: the statement repeats both checks
on locked rows. `LosePilot` may happen at any time, which is more than the
handover rules allow. A Hoppie report carries any time, a sample the time of
its receipt.

### Access

`members` are the rows of `memberships`, on which access depends, `clerk` the
roles in the Clerk organization, which only network calls read and write. A
handler is a chain of such calls and statements, each a step:

| Code | Actions |
|---|---|
| `requireAuth` | `SignIn`, then `Provision` or `Recover` |
| `POST`, `DELETE /membership-application` | `BeginApply`, `Submit`; `Cancel` |
| review of an application | `BeginApprove`, `BeginReject`, then as a change |
| `PATCH`, `DELETE /members/:id` | `BeginPatch`, `BeginKick`; `LookUp`, `ClerkWrite`, `ClerkRemove` in the order of the route; `Commit` or `Refuse` (with the calls that restore Clerk) |
| `syncMembersFromDirectory` | `LoadEntry`, `FindEntry`, `CreateEntry`, `UpdateEntry` |

`administrativelyUpdateMembership` (`Update`, `LastAdmin`) and the recovery run
under the tenant's advisory lock and are atomic. `Fail` is a provider that does
not answer. The transfer of work is in `FlightLifecycle`; here an update may be
refused for it.

### Retention and SubjectRequests

`Retention`: a run carries the records its policy no longer keeps at its *asOf*
(`due`), its cursor over the classes and the classes it reported. A worker
processes one checkpoint: `Claim`, `CheckPolicy`, then `Inspect`, `AskProvider`
or `Batch` and `InspectRemaining`, then `Report` or `RecordFailure`. A run
nobody updated for ten minutes (`GoStale`) may be claimed again while the first
worker still runs. `Crash` ends a worker between any two statements. Statements
about holds and batches take the tenant's privacy lock and are atomic. What a
hold `found` is a history variable.

`SubjectRequests`: handlers verify, approve, process, export and retry requests;
each read and write is a step. `Anonymize` and `Erase` are the two destructive
statements: their data-modifying CTEs act on the snapshot (`Subject`) while the
update of the member looks at the row as it is (`Destroyable`), which is how
parts can go without the rest. `ChangeMember`, `ChangeWork` and `ChangeHold`
are the rest of the system, `UpdateTask` an operator, `Crash` a lost instance.

### Acars, TenantConfig, NavigraphOauth, Paging

`Acars`: `PilotSends` puts a message into Hoppie's queue (external), `StartPoll`
is the cron, `Working` everything a poller does next (`Fetch`, `Store`,
`Ignore`, `Match`, `Apply`, `NextTenant`, ...), `PollFails` and `PollerDies` its
faults. Hoppie hands a message out once. A telex is composed, sent with any
answer of the network (`Answers`, whether or not it was `relayed`), and recorded.

`TenantConfig`: a request reads the row, calls Clerk, Hoppie or the blob store,
and writes; `RestoreName`, `CleanUp` are the compensations of the routes,
`Abandon` a lost instance. A database write either happens or fails: that the
write of the logo's address happens and its answer is lost, upon which the route
deletes the blob, is left out.

`NavigraphOauth`: `StartFlow`, then `Consume`, `CheckCallback`, `Exchange`,
`LinkAccount` of a callback, which may come twice, late, or after the member
disconnected, was disabled or objected. The callback's route is public
(`routes/simbrief.ts:52-71`): that the one who authorizes at Navigraph is the
member who started is an assumption of the model, not a check of the code.

`Paging`: a reader asks for page after page (`ReadPage`) of a list by time and
id, or of the export (`AskExport`, `FillPage`, `ExhaustStore`, `EndPage`), gets
or loses the answer, and asks again with the last cursor, while rows are added,
moved, handed over and deleted. A time is a number of ticks, `Milli` of which
the cursor keeps as one.

These four share no row, so `Integrations` lets one of them move per behaviour
(`focus`): their product would only multiply states.

### Simbrief, FlightPage and Workspaces

`Simbrief`: `plan` is the flight with its latest release; a dispatch is prepared
(`BeginPrepare`, `ReadFlight`, `ReadRelease`, `CommitPrepare`), launched
(`BeginLaunch`, `StartLaunch` takes the snapshot, `LandLaunch` has the locked
flight), generated by SimBrief (`Generate`, external) and fetched (`BeginFetch`,
`Complete`), which may verify the pilot's account. `links` are the accounts.

`FlightPage`: a browser has a cached detail, a fetch under way (two reads in the
API: the flight, then its releases), the polled telemetry, forms with what each
was filled from, and perhaps an open dialog. `Send` puts a call with a version on its way; `Serve` is
the API's handler, `Deliver` the answer with the page's reaction, `Lose` a lost
one. Others change the flight by `...Elsewhere` and `Simulator`. The API is one
step here because `SnapshotFresh` of `FlightLifecycle` shows that a versioned
handler changes the row it read. A history field `based` of a call is the record
its form was filled from. `updated_at` stands for the version (no two changes
fall into one millisecond). The buttons that confirm an assignment are left out:
`NoPendingConfirmation` shows they never appear.

Declining, cancelling and completing a flight ask for a reason or a confirmation in a
dialog (`ReasonAction`, `ConfirmAction`). `OpenDialog` keeps what the page showed,
`Confirm` sends the version cached by then. In between the dialog outlives fetches
and refused calls, and vanishes when its button does (`Mounted`). It is modal:
`NoDialog` keeps its user from the other forms and buttons. Two things are coarser
than the code: a dialog may be closed while its call is under way and the next one
then waits for the answer, and a refused dialog may be confirmed again before the
reload has come, which the API refuses again. `Press` is left for the buttons that
ask nothing, which send what they show.

`Workspaces` lets the plan or one of the two groups of forms move per behaviour
(`shown`); both see the same flight.

### FlightContract

`Step` is how one contract may change; `Depart` demands that the current terms
are both the agreed and the released ones. `ContractOf` in `FlightLifecycle` is
the refinement mapping; `ImplementsContract` says that the handlers, for all
their races, act as if each flight were changed by one actor at a time.

### RequestBudget

A budget has the pilot, status and desired number of a request, the `batches` made
under each key and the flights of them that are `live`. `Ask`, `Change`, `Review`
and `Reject` are what may happen to it before anything is made, `Spend` makes one
batch under an unused key, of flights nobody had, within what is left, `Lose` and
`Cancel` take flights out, and `HandOver` gives open requests of one member to
another, but perhaps not all: the membership change skips those it finds changed. It has no desks, versions, lost answers or repetitions. `BudgetOf` in
`ScheduleFulfilment` is the refinement mapping: replacements of declined flights
are no part of a batch and do not count.

## 3. What is checked

Every property is an invariant, action or temporal property of the run named; a
mutant in `PROJECT.json`, a plausible bug of the code, breaks it there.

| Property | Says | Run |
|---|---|---|
| `SnapshotFresh` | an unchanged version means an unchanged row | OneFlight |
| `FlownAsAgreed` | operational and completed flights have the terms their pilot accepted | OneFlight |
| `FlownAsReleased` | briefed, active and completed flights have the terms of their latest release | OneFlight |
| `ImplementsContract` | refinement of `FlightContract` | OneFlight |
| `NoPendingConfirmation` | no operational flight waits for a confirmation, across handovers | Admin |
| `BatchesFit` | live flights of batches fit the desired number, and a collecting request has room among them | Fulfilment |
| `EveryFlightClaimed` | flights of batches and recorded attempts match one to one | Fulfilment |
| `AnswersAgree` | a client is told the flights recorded for its key and payload | Fulfilment |
| `ReplacementsFaithful` | at most one replacement of a declined flight, in the same request | Fulfilment |
| `PartOnlyWhenOvertaken` | a request and the flights of its batches stay with one pilot; only a handover parts them, and only what was written or made after its snapshot | Fulfilment |
| `ImplementsBudget` | refinement of `RequestBudget` | Fulfilment |
| `RecordedTimeStays` | only a correction replaces a recorded time, however handlers overlap | Record |
| `ProvenanceAgrees` | the newest provenance row of a mark tells the time the flight shows | Record |
| `AutomaticIsFirst` | detection writes at most once a mark and never after a correction or clear | Record |
| `OrderKept` | a correction puts the times in order, detection keeps them so | Record |
| `CompletedMeansGone` | a completed execution removed all that was due and that nothing ever protected | Retention |
| `ExecutionHasBasis` | an execution rests on a completed dry run of all classes at the same *asOf* | Retention |
| `HeldRecordsKept` | what a hold found stays until it is released or expires | Retention |
| `DestructionByTheBook` | identity goes only by an approved request, with Clerk done, no hold, no work at that moment | Requests |
| `CompletedMeansClosed` | a completed export or destruction has every external task closed | Requests |
| `RequestsStaySettled` | completed and cancelled requests stay so; a waiting one only completes | Requests |
| `AdminRemains` | a tenant with an active administrator keeps one | Access |
| `AdmittedByDecision` | the pending, rejected and removed get in only by an administrator's decision or by recovery | Access |
| `AdminsMadeByAdmins` | while there is an administrator, a token alone makes no other | Access |
| `AppliedOnce` | a stored report is applied at most once, to the flight it is linked to | Integrations |
| `DeliveryHonest` | accepted only if Hoppie took the telex, rejected only if it did not | Integrations |
| `EveryMessageTaken` | liveness: a queued message is stored, unless a failure strikes while it is in hand | Integrations |
| `NoDanglingLogo` | the tenant's logo address has a blob | Integrations |
| `NavigraphHonest` | a transaction connects at most once, and what its member granted | Integrations |
| `PagesComplete` | a reader has every row that stayed exactly once | Integrations |
| `LaunchIsCurrent` | a pilot is sent off with the newest plan of the flight as it is | Workspaces |
| `VerifiedHonest` | a verified account was proved by a plan its member launched | Workspaces |
| `NothingOverwritten` | an edit or a release the API would take was based on what the flight holds | Workspaces |

The state machines have a type invariant each: `TypeOK` (of `FlightLifecycle`,
`OooiRecord`, `Access`, `Retention` and `SubjectRequests`), `IntegrationsTypeOK`,
`WorkspacesTypeOK`.

`NoPendingConfirmation` has a consequence for the code: the guard of
`confirmAssignment` is never true, so that route never writes anything.

### Bounds

| Run | Instance | Why it is enough |
|---|---|---|
| OneFlight | 1 flight, 2 sessions, 2 pilots, 1 dispatcher, 2 time windows, versions to 5 | one handler can act between the load and the commit of another; a flight needs four updates to become active (versions 1 to 5), and both windows and both pilots allow edits that return to earlier terms |
| Admin | 1 flight, which may be replaced while young, 1 session, 1 request, disable and promote of members who hold flights, versions to 4 | an administrator or request statement can fall between any two statements of a handler, a handler's statement between the two steps of an administrator's, and flights become briefed |
| Fulfilment, *race* | 2 flights, 2 desks, 2 keys, 1 session, no second pilot, two at work at a time, batches of 1 and 2, desired 1 or 2, versions to 4 | two calls race under one key or two, before or after edits, with room for one or both |
| Fulfilment, *handover* | 3 flights, 2 once work changes hands, 1 desk and 1 key in use, 2 pilots, from the first to the second, 1 session | a handover falls between the statements of a desk or of a re-offer, and their statements between its two steps |
| Record | 1 flight, 1 device, 2 sessions, 3 phases, 4 reports, 3 corrections, times 0 and 1, versions to 3 | two of any handlers overlap; a time is reported, corrected, cleared and detected in any order, early or late |
| Access | a founder and a newcomer, 2 handlers, 4 changes | two administrators demote each other; every race about one person |
| Retention | 2 flights and a dispatch that hangs on one, 2 policies, 1 hold, 1 dry run, 1 execution, 2 workers, batches of 1, 1 crash | checkpoints of one run overlap; a class takes two batches; a cascade crosses a hold |
| Requests | a destruction and another request, 2 handlers, 2 providers | two handlers of one request, or of two that compete, with every external event between their statements |
| Integrations | 2 messages of the same text, 2 pollers, 1 refused tenant, 1 fault, 1 passing of the window; 1 telex; 3 requests of 2 editors; 2 members, 2 transactions, 2 callbacks, 1 account; 3 rows, pages of 1 or 2 | a message comes twice to pollers that overlap; a logo is replaced while replaced; two callbacks of one transaction; a boundary between and within milliseconds |
| Workspaces | 2 members, 2 Pilot IDs, 2 preparations, 2 handlers, flight versions to 3; 1 browser, 1 call under way, 2 changes by others | a plan is stale in each step of its way; a form or a dialog outlives a conflict and a reload |

Some bounds are CONSTRAINTs, named in the MC modules: in Admin a second flight
exists only as a young replacement (`OnlyReplaced`) and only members who hold
flights are changed (`ChangesOfHolders`); in Fulfilment the second pilot, to whom
work may be handed over, is there or not from the start, with him only one desk
works (`RaceOrHandover`) and one handler at most is under way, and a membership
change has flights in hand, two of them at most (`FirstToSecond`); in Workspaces the flight changes once less while a second
SimBrief account is in play (`FewAccounts`) or the form for times is used
(`FewTimes`), and who has the editor open opens no dialog beside it
(`DialogsAlone`). They cut states and no property depends on them.

`MaxTime`, `MaxSequence`, `Interval` and `Lease` scale the clock: a lease of two
intervals stands for two minutes against two seconds.

`MaxVersion` bounds the version columns, `MaxDesired` the number of flights of a
request (the code allows 50), `MaxCrashes`, `MaxFaults`, `MaxWindow`, `MaxEdits`,
`MaxCalls` and `LastVersion` what their names say. When ids and versions are used
up nothing more happens, so the runs do not check deadlock: handlers wait for
nobody, and a handler that was lost is simply never heard of again.

### Fairness

Most modules state safety only: no code here owes anyone progress before a
client asks again. The exception is the poller of `Integrations`. `vercel.ts`
runs it every minute, so `StartPoll` is weakly fair; an instance that has not
died goes on, so each poller's `Working` is weakly fair. Nothing is assumed of
pilots, of Hoppie or of faults, of which there are finitely many in the model.
`EveryMessageTaken` says that under this fairness a message is taken, though
another tenant's logon is refused every time.

### Disagreements between code and documents

Three runs show, by a counterexample, where a document says otherwise; `findings`
in `PROJECT.json` quotes the lines.

- **PartialDestruction**: an erasure or anonymisation that a concurrent hold or
  new work blocks has by then deleted the member's messages and plans: the CTEs
  of the statement write whether or not its last update finds the member.
- **PageBoundary**: cursors of lists by `created_at` carry milliseconds, the
  column microseconds, so that rows of the same millisecond as the last row of a
  page are on no page. One statement writes several audit rows at one `now()`.
- **SilentCorrection**: a correction is sent with the version of the last poll,
  which may be newer than the time the dispatcher saw, and overwrites a time
  recorded meanwhile without a conflict. `StaleIsRefused` also speaks of the dialogs
  that decline, cancel or complete a flight, and is as false of them: a fetch on
  focus, or the reload after a first conflict, renews the version behind the open
  dialog, and the edited flight is declined or cancelled by somebody who started from
  the old one. TLC stops at the shorter trace, the correction's; with that conjunct
  dropped it finds the dialog's, one step longer.

Without a run, further points a reader of the documents should know:

- A member is disabled while dispatch fulfils one of his requests. The statement
  of the administrator finds the flights of an earlier batch and waits; the new
  batch commits. The earlier flights go to the replacement; the request, whose
  version moved, and the new flights stay with the disabled member, although
  `docs/admin-control-plane.md` promises that "request-linked work is reassigned
  consistently with the flight assignment". The model reaches this state
  (`BeginChange`, `CommitFulfil`, `CommitChange`); `PartOnlyWhenOvertaken` shows
  that it is the only way request and flights part, and is stated with that exception.
- A member who is no pilot and whose role changes hands over his requests and none
  of his flights (`RequestsToHandOver` asks for no `RequiresWorkTransfer`, like the
  statement).
- The pilot of an offer is checked before the commit only: a member disabled in
  between is left with an offered flight
  (`wiki/Flights-and-State-Machines.md`: "an offer requires a same-tenant active
  pilot").
- A declined flight and its replacement both count, so that after a re-offer a
  request can be partially fulfilled without capacity
  (`wiki/Scheduling-and-Dispatch.md`).
- `bulkCreateFlights` looks for an attempt before it loads the request: an exact
  retry that falls between may be told of a conflict instead of the result.
- A telemetry statement that waited for the previous sample compares its phase
  with the one before that, and a transition goes unrecorded.
- A revocation overtaken by a device's first sample leaves the lease behind.
- A re-offer prepared before a handover of its request keeps the previous pilot
  (`createReplacementFlight` does not look at the request).
- A route edit returns a scheduled flight to offered, contrary to
  `docs/ui-elevation-implementation-brief.md`.
- Only telemetry asks for the override flags: a Hoppie report fills in a time a
  dispatcher cleared.
- A launch that waited for the flight's lock sees the releases as they were when
  it began, and misses one published meanwhile, although a release should make
  older plans stale.
- Two last external tasks of a request closed at the same moment each see the
  other open, and the request waits on.
- Concurrent changes of a tenant's settings are written whole; one is lost. A
  Hoppie station put with the stored logon while another logon is put stores a
  pair nobody tested.
- A member kicked while another administrator re-admits him may end up with a
  row and no place in Clerk's organization, or the reverse.
- Notes saved in an edit form rewrite its times without their seconds
  (`isoToUtcInput`).

## 4. What is proved

`FlightLifecycleProofs` proves for `Spec`, for any number of flights, members,
requests, handlers, windows and routes and any `MaxVersion`:

| Theorem | Property |
|---|---|
| `TypeCorrect` | `TypeOK` |
| `VersionsIdentifyRows` | `SnapshotFresh` |
| `AgreementHonoured` | `FlownAsAgreed` |
| `ReleaseHonoured` | `FlownAsReleased` |
| `ConfirmationNeverPending` | `NoPendingConfirmation` |
| `StatusMovesLegal` | `LegalSteps`: statuses move along `transitions.ts` or back to offered, terminal flights keep their terms (no run checks it, the contract says nearly the same) |
| `ContractImplemented` | `ImplementsContract` |
| `ReplacedOnce` | `ReplacementsFaithful` |

Assumptions: NULL is no id (`NullAssumption`), `MaxVersion` is a positive number
(`BoundAssumption`), dispatchers are members, available windows are windows and
patches are patches (`SetsAssumption`).

The argument. None of the properties is inductive alone. The invariant `IInv` is

- `TypeOK`,
- `RowsOK`: a row against its history: signed terms, matching confirmation
  revision, matching release, by status,
- `HandlersOK`: a handler holds what its `Begin` action checked of the row it
  loaded (status, pilot, wish),
- `SnapshotFresh`.

`SnapshotFresh` turns a successful version comparison into "the current row is
the one this handler checked" (`CommitsWhatItLoaded`), `HandlersOK` says what was
checked, and `RowsOK` says the row was in order, so the written row is too: one
lemma per committing statement, all through `UpdateKept`. Statements that touch
rows no handler of theirs loaded (handover, cancellation, telemetry, inserts) go
through `TablesKept`, whose premise is that no row changes without a new version.
Of a membership change that waits nothing but its type is needed (`ChangeOK`): what
its snapshot says of a row is asked of the row again before it is written.
Statements that only move a handler on go through `HandlerStepKept`.

The other three theorems follow from one description of a step, `FlightStep`: a
flight stays as it is, is created as a draft or an offer (a re-offer only for a
declined flight nothing replaces yet), or its row makes a `RowStep`. One lemma
per action shows that it consists of `FlightStep`s, using `IInv` for the row a
handler writes; `RowOK` then supplies what `Depart` of the abstract contract
demands. `ReplacedOnce` needs one more invariant, that a replaced flight exists.

`ScheduleFulfilmentProofs` proves for `ScheduleSpec`, for any number of members,
requests, keys, desks and handlers and any finite number of flights:

| Theorem | Property |
|---|---|
| `CapacityHolds` | `BatchesFit` |
| `KeysAccountForFlights` | `EveryFlightClaimed` |
| `RepetitionsAgree` | `AnswersAgree` |
| `ReplacedOnce` | `ReplacementsFaithful` |
| `BudgetImplemented` | `ImplementsBudget` |
| `PartedOnlyInTheGap` | `PartOnlyWhenOvertaken` |

Assumptions, beside those of `FlightLifecycle`: batches are non-empty sequences
of times and routes, `MaxDesired` is positive, the flights are finitely many (a
table is finite; without it the live flights of a request have no number).

The argument. `Fits` is asked when a batch is inserted; the work is to show that
it stays true. `SnapshotFresh` holds here as in `FlightLifecycle`, and gives one
description of what any other statement may do to the rows (`RowsStep`): each row
it changes gets a version, keeps its links, does not leave `cancelled` or
`declined` and does not become undeparted. So `Originals` stays and
`NonCancelled` only shrinks (`LinksStay`), which carries `BatchesFit`,
`EveryFlightClaimed` and `ReplacementsFaithful` through every handler. The
insertion itself is the one step that adds to a request, and it adds exactly the
flights it records under the key. A handover, whatever it skips or does not
see, gives the rows it writes another pilot and a version and is one more `RowsStep`.

That it leaves a request and its flights with one pilot is not true, and
`PartOnlyWhenOvertaken` says when it is. Every other statement keeps the pilots of
requests and of undeparted flights (`NoneParts`), and a batch takes the pilot of the
request it finds. Of a request and a flight of it that both are in the snapshot and
unwritten, the handover takes both or neither (`HandoverTakesBoth`): they have one
pilot; if that is the member, the locked flight demands an open request and a
replacement, and both rows are among those it writes.

The refinement needs two more invariants. `NothingEarly`: for a request that is
absent, pending or in review no key is spent, so a request is only changed or
turned down while nothing was made for it. `ReviewsLegal`: a desk about to write a
review or an edit read a row that allows it, and `RequestAt` makes that row the
current one. Then each statement is a step of one budget (`OneBudget`): an answer
or cancellation of a flight is a `Lose`, since `RowsStep` revives nothing; a batch
is a `Spend`, since its flights had no row and every flight of a batch has one
(`NewIsUnmade`, from `EveryFlightClaimed`), and it fits because `BatchesFit` holds
after the step. Reads, repetitions, misses and lost answers are stutters. The run
has one request; that a handover of several takes them from one pilot to one other
and changes nothing else of them, and that no flight is made for two requests, the
theorem says alone.

`OooiRecordProofs` proves for `Spec` of `OooiRecord`, for any number of flights,
devices, pilots and handlers, any reports and corrections, any interval and
lease:

| Theorem | Property |
|---|---|
| `TypeCorrect` | `TypeOK` |
| `ProvenanceHonest` | `ProvenanceAgrees` |
| `AutomaticFirst` | `AutomaticIsFirst` |
| `OneLeasePerDevice` | `OnePairing` |
| `FirstTimeStays` | `RecordedTimeStays` |
| `ChronologyKept` | `OrderKept` |
| `SamplesInTime` | `NoLateSample` |
| `OneWriter` | `SingleWriter` |

Assumptions: `DataAssumption` (devices have owners; phases, reports and
corrections are of their kinds), `TimeAssumption` (interval and lease are
positive), `NullAssumption`.

Four parts make the properties inductive. `SnapshotsOK`: a handler that passes
the version comparison holds the current row, so "keep the loaded value" keeps
the current one. `EventsOK`: a mark with provenance has a time or the override
flag, which is why `Detected` never repeats or follows an event. `SamplesOK`: no
handler carries a time later than `now`. `LeasesOK`: the lease of the last
sample stands until it runs out or its device is revoked; a takeover judged by
the receipt time of its sample, which is not in the future, is therefore never
early. `RecordExtended` and `PairingsKept` carry these through the statements
that write the record and the leases.

`AccessProofs` proves for `Spec` of `Access`, for any number of users and
handlers, any roles one may apply for and any changes:

| Theorem | Property |
|---|---|
| `TypeCorrect` | `TypeOK` |
| `AdminsRemain` | `AdminRemains` |
| `DecisionAdmits` | `AdmittedByDecision` |
| `AdminsOnlyByAdmins` | `AdminsMadeByAdmins` |

`SubjectRequestsProofs` proves for `Spec` of `SubjectRequests`, for any number of
requests, of any kinds, and of handlers:

| Theorem | Property |
|---|---|
| `TypeCorrect` | `TypeOK` |
| `CompletionHonest` | `CompletedMeansClosed` |
| `IdentityDestroyedByTheBook` | `DestructionByTheBook` |
| `SettledStays` | `RequestsStaySettled` |

Assumptions: `AccessAssumption` (nobody applies to be administrator, changes and
founders are of their kinds), `RequestAssumption` (requests are of known kinds).

Both arguments describe what a handler may still rely on when its turn comes
(`HandlerOK`). In `Access` that is little: a row is never deleted, and the change
a handler carries is that of its operation (a review never makes an
administrator, a removal only disables). Everything else is asked again by the
statement, and `Decided` shows that what it asks is enough. In `SubjectRequests`
it is what cannot be undone: kinds stay (`RequestsMove`), tasks that exist or are
closed stay so (`TasksMove`), so a list of tasks with none open is still right
when the request is completed. `RowOK` adds that Clerk's task of a destruction
never exists without the others, which is why "closed at Clerk, none open"
means that all are closed.

`RetentionProofs` proves for `Spec` of `Retention`, for any number of records,
policies, holds, runs and workers, any non-empty order of the classes and any size
of a batch:

| Theorem | Property |
|---|---|
| `TypeCorrect` | `TypeOK` |
| `CompletionMeansGone` | `CompletedMeansGone` |
| `ExecutionRestsOnDryRun` | `ExecutionHasBasis` |
| `HoldsKeep` | `HeldRecordsKept` |

Assumptions: `RetentionAssumption` (`Order` is a non-empty sequence of classes;
each row has a class, a subject or none, a flight or none).

The difficulty is the late checkpoint: a worker reports what it found before
others went on, restarted or completed the run. `CheckpointOK` says of every
checkpoint under way, however old, that the classes before its own cursor are
gone and reported; it is inductive because nothing it speaks of is undone
(`Moves`): records do not come back, tasks are not withdrawn, a hold or
restriction that ever covered a record is remembered. So a cursor that is set
back, or jumps ahead to that of another checkpoint, is right in either case.
`RunOK` says the same of the run, and `HoldOK` adds to `HeldRecordsKept` that a
hold covers what it found.

`IntegrationsProofs` proves for `Spec` of `Integrations`, for any number of
tenants, pollers, messages, telexes, administrators, members, callbacks, records
and pages:

| Theorem | Property |
|---|---|
| `TypeCorrect` | `IntegrationsTypeOK` |
| `ReportsAppliedOnce` | `AppliedOnce` |
| `DeliveriesHonest` | `DeliveryHonest` |
| `LogoIsStored` | `NoDanglingLogo` |
| `ConnectionsHonest` | `NavigraphHonest` |
| `ReadersServed` | `PagesComplete` |

Assumptions: `AcarsAssumption` (messages belong to tenants and name flights or
none; "none" is no status or answer), `TenantAssumption` and
`NavigraphAssumption` (no value is no logo, no account), `PagingAssumption` (ids
are positive numbers, finitely many; limits are positive).

The parts share no variable, so the invariant is one of each. `InboxOK`: the
unique key of the inbox gives each stored message to one poller, which alone may
apply it. `LogosOK`: an upload carries a blob nobody else has seen, and a blob
about to be deleted was replaced before. `FlowsOK`: consuming a transaction gives
it to one callback. `ReaderOK`: what lies before the cursor and was there all the
time was given, once, and nothing behind the cursor was; the page after it begins
with the least of the rest, which exists because ids are well ordered.

`WorkspacesProofs` proves for `WorkspaceSpec`, for any number of members, Pilot
IDs, preparations and handlers, and of browsers and calls:

| Theorem | Property |
|---|---|
| `TypeCorrect` | `WorkspacesTypeOK` |
| `VerificationHonest` | `VerifiedHonest` |
| `NobodyOverwritten` | `NothingOverwritten` |
| `LaunchesAreCurrent` | `LaunchIsCurrent` |

Assumptions: `SimbriefAssumption` (NULL is no member, versions are bounded by a
positive number), `PageAssumption` (what is missing is no answer of the API, there
is a time to record, the bounds are numbers).

In `Simbrief`, `JobsOK` says that a flight read under the current version is the
current one, so that a request built from two reads is about the snapshot the row
keeps (`DispatchesOK`), and that a stamp a connection carries was proved by a plan,
which stays. In `FlightPage` the same idea is `CacheFresh`, `FormsFresh` and
`CallFresh`: what was cached, typed or sent under the version the row has is what
the row holds, and everything else is older and refused. Every change of the row
makes all copies older at once (`CopiesOutdated`); what needs care is the arrival
of an answer (`RenewedIs`): forms that are not renewed are those whose key is the
same. Of corrections and of answers through dialogs nothing is promised, see the
run `SilentCorrection`.

Model-checked only: `EveryMessageTaken`, because liveness under fairness and
ENABLED are out of the prover's reach, and the three disagreements of section 3.
Induction over data would be needed for what a recursive definition computes; the
proved modules have none. All other properties of the passing runs are proved.

## 5. Plan

Done: the flight and its contract; requests, fulfilment and their budget; recorded
times; access; retention and subject requests; the integrations; SimBrief and the flight
pages. Left, in order of importance:

1. The pruning of tracks and the operational event log in `OooiRecord`.
2. Statements of fulfilment and of a request's cancellation split at their snapshots
   and row locks, as the membership change is.
3. Pure algorithms against reference definitions: availability normalisation,
   flight matching, the nearest Zulu time of a report.

## 6. Not modelled

Parsing and serialisation of HTTP, the OpenAPI document, rendering and the pages
of the web application that only list or submit, cryptography, logging and audit
text, e-mail, the mock Hoppie provider of the demo, seeding, SQL migrations, the
build. Names, callsigns, weather, fuel and the contents of flight plans are data
no property tells apart. Telemetry tracks, presence and the boards feed displays
only. Time is abstract: a window of departure and arrival is a model value.
