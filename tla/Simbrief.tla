------------------------------- MODULE Simbrief -------------------------------
(***************************************************************************)
(* SimBrief plans for flights and the SimBrief accounts of pilots          *)
(* (domain/simbrief/service.ts, repositories/simbrief.ts, simbrief/,       *)
(* routes/simbrief.ts).                                                    *)
(*                                                                         *)
(* A dispatcher prepares a plan from the flight and its latest release,    *)
(* the assigned pilot launches the latest preparation in the browser, and  *)
(* a callback of SimBrief or a request of the web application fetches the  *)
(* generated plan, which proves the pilot's SimBrief account.              *)
(*                                                                         *)
(* One flight is modelled: terms stands for number, airports, times and    *)
(* aircraft; a release is its revision.  Preparation and completion are    *)
(* one statement each and atomic here, because what they compare is in     *)
(* rows they lock.  The launch locks the flight too, but sees the releases *)
(* as they were when the statement began, and so is two steps.             *)
(*                                                                         *)
(* Tokens, signatures, URLs and contents of plans are left out, and so are *)
(* audit rows, the messages of failed fetches, and the roles, objections   *)
(* and settings that end a handler early.                                  *)
(***************************************************************************)
EXTENDS Naturals

CONSTANTS Members, Pids,      \* memberships, SimBrief Pilot IDs
          Terms,              \* material details of the flight
          Dispatches, Jobs,   \* rows of simbrief_dispatches, handlers
          Nil,
          MaxVersion          \* bound: versions of the flight

\* NULL is no membership.
ASSUME SimbriefAssumption == Nil \notin Members /\ MaxVersion \in Nat \ {0}

VARIABLES
  plan,        \* the flight and its latest release
  dispatches,
  head,        \* simbrief_flight_heads.revision
  generated,   \* dispatches whose plan SimBrief has
  links,       \* the SimBrief accounts in memberships
  jobs

vars == <<plan, dispatches, head, generated, links, jobs>>

Versions == 1..MaxVersion
Plan == [version : Versions,
         revision : Versions,   \* of the assignment
         terms : Terms,
         pilot : Members,
         ready : BOOLEAN,       \* accepted or briefed
         release : Versions]

NoDispatch == [status |-> "none"]
Snapshot == [revision : Versions, terms : Terms, pilot : Members,
             release : Versions]
Dispatch ==
  [status : {"prepared"}, revision : Nat, snapshot : Snapshot,
   request : [terms : Terms, release : Versions],
   pilot : {Nil}, pid : {Nil}]
  \cup
  [status : {"pending", "ready"}, revision : Nat, snapshot : Snapshot,
   request : [terms : Terms, release : Versions],
   pilot : Members, pid : Pids]

Unlinked == [pid |-> Nil, verified |-> FALSE]
Link == [pid : Pids \cup {Nil}, verified : BOOLEAN]
NoJob == [pc |-> "none"]
Job ==
  {NoJob}
  \cup [pc : {"prepare"}, flight : Plan \cup {Nil},
        release : Versions \cup {Nil}]
  \cup [pc : {"launch", "landing"}, dispatch : Dispatches, member : Members,
        pid : Pids, release : Versions \cup {Nil}]
  \cup [pc : {"fetch"}, dispatch : Dispatches]
  \cup [pc : {"connect"}, member : Members, pid : Pids, verified : BOOLEAN]

Begin(j, job) == jobs[j] = NoJob /\ jobs' = [jobs EXCEPT ![j] = job]
At(j, pc) == jobs[j].pc = pc
End(j) == jobs' = [jobs EXCEPT ![j] = NoJob]

-----------------------------------------------------------------------------
(* The flight changes (see FlightLifecycle).                               *)

Replan(next) ==
  /\ plan.version < MaxVersion
  /\ plan' = [next EXCEPT !.version = plan.version + 1]
  /\ UNCHANGED <<dispatches, head, generated, links, jobs>>

\* A material change, which the pilot has to accept.
Reassign(terms, pilot) ==
  /\ <<terms, pilot>> # <<plan.terms, plan.pilot>>
  /\ Replan([plan EXCEPT !.terms = terms, !.pilot = pilot, !.ready = FALSE,
                         !.revision = @ + 1])
Accept == ~plan.ready /\ Replan([plan EXCEPT !.ready = TRUE])
EditNotes == Replan(plan)
PublishRelease == plan.ready /\ Replan([plan EXCEPT !.release = @ + 1])

-----------------------------------------------------------------------------
(* prepareDispatch: flight and release are read side by side, and the      *)
(* request is built from them before the statement.                        *)

BeginPrepare(j) ==
  /\ Begin(j, [pc |-> "prepare", flight |-> Nil, release |-> Nil])
  /\ UNCHANGED <<plan, dispatches, head, generated, links>>

ReadFlight(j) ==
  /\ At(j, "prepare") /\ jobs[j].flight = Nil
  /\ jobs' = [jobs EXCEPT ![j].flight = plan]
  /\ UNCHANGED <<plan, dispatches, head, generated, links>>

ReadRelease(j) ==
  /\ At(j, "prepare") /\ jobs[j].release = Nil
  /\ jobs' = [jobs EXCEPT ![j].release = plan.release]
  /\ UNCHANGED <<plan, dispatches, head, generated, links>>

\* Fault: the statement takes the flight as it is by then.
SameFlight_NotCompared(flight) == TRUE

\* linearized_flight
SameFlight(flight) ==
  plan.version = flight.version /\ plan.revision = flight.revision

\* createSimbriefDispatchAtomic: the snapshot is taken from the row, the
\* request is the one built before.
CommitPrepare(j, d) ==
  LET flight == jobs[j].flight
      release == jobs[j].release
  IN /\ At(j, "prepare") /\ flight # Nil /\ release # Nil
     /\ dispatches[d] = NoDispatch
     /\ IF SameFlight(flight) /\ plan.ready /\ plan.release = release
        THEN /\ head' = head + 1
             /\ dispatches' = [dispatches EXCEPT ![d] =
                  [status |-> "prepared", revision |-> head + 1,
                   snapshot |-> [revision |-> plan.revision,
                                 terms |-> plan.terms, pilot |-> plan.pilot,
                                 release |-> release],
                   request |-> [terms |-> flight.terms, release |-> release],
                   pilot |-> Nil, pid |-> Nil]]
        ELSE UNCHANGED <<head, dispatches>>
     /\ End(j)
     /\ UNCHANGED <<plan, generated, links>>

-----------------------------------------------------------------------------
(* generateDispatch                                                        *)

BeginLaunch(j, m, d) ==
  /\ plan.pilot = m
  /\ dispatches[d].status = "prepared"
  /\ links[m].pid # Nil
  /\ Begin(j, [pc |-> "launch", dispatch |-> d, member |-> m,
               pid |-> links[m].pid, release |-> Nil])
  /\ UNCHANGED <<plan, dispatches, head, generated, links>>

\* startSimbriefDispatchAtomic begins: current_release sees this release as
\* the latest, however long linearized_flight waits for the flight.
StartLaunch(j) ==
  /\ At(j, "launch")
  /\ jobs' = [jobs EXCEPT ![j].pc = "landing", ![j].release = plan.release]
  /\ UNCHANGED <<plan, dispatches, head, generated, links>>

\* material_target
Material(j, dispatch) ==
  LET snapshot == dispatch.snapshot IN
  /\ plan.ready
  /\ snapshot.revision = plan.revision
  /\ snapshot.release = jobs[j].release
  /\ snapshot.pilot = plan.pilot /\ plan.pilot = jobs[j].member
  /\ snapshot.terms = plan.terms
  /\ links[jobs[j].member].pid = jobs[j].pid

\* Fault: the row does not keep the account it was launched with.
Launched_NoPid(j) == [pilot |-> jobs[j].member, pid |-> Nil]

Launched(j) == [pilot |-> jobs[j].member, pid |-> jobs[j].pid]

\* The flight, the dispatch and the head are locked by now: superseded,
\* stale and unavailable dispatches stay as they are.
LandLaunch(j) ==
  LET d == jobs[j].dispatch IN
  /\ At(j, "landing")
  /\ dispatches' = IF /\ dispatches[d].status = "prepared"
                      /\ Material(j, dispatches[d])
                      /\ dispatches[d].revision = head
                   THEN [dispatches EXCEPT ![d].status = "pending",
                           ![d].pilot = Launched(j).pilot,
                           ![d].pid = Launched(j).pid]
                   ELSE dispatches
  /\ End(j)
  /\ UNCHANGED <<plan, head, generated, links>>

\* The pilot generates the plan in SimBrief's window.
Generate(d) ==
  /\ dispatches[d].status = "pending"
  /\ generated' = generated \cup {d}
  /\ UNCHANGED <<plan, dispatches, head, links, jobs>>

-----------------------------------------------------------------------------
(* syncDispatch and completeDispatchCallback, which differ in whom they    *)
(* admit: an actor of the flight, or the bearer of a token that lives for  *)
(* two hours or until the plan is stored.                                  *)

BeginFetch(j, d) ==
  /\ dispatches[d].status = "pending"
  /\ Begin(j, [pc |-> "fetch", dispatch |-> d])
  /\ UNCHANGED <<plan, dispatches, head, generated, links>>

\* Fault: the launching pilot is verified whatever account is linked now.
Proves_Anyone(dispatch) == dispatch.pilot

\* verified_pilot: who has the account that the stored plan proves.
Proves(dispatch) ==
  IF links[dispatch.pilot].pid = dispatch.pid THEN dispatch.pilot ELSE Nil

\* fetchFlightPlan found the plan: completeSimbriefDispatchAtomic.
Complete(j) ==
  LET d == jobs[j].dispatch IN
  /\ At(j, "fetch") /\ d \in generated
  /\ IF dispatches[d].status = "pending"
     THEN /\ dispatches' = [dispatches EXCEPT ![d].status = "ready"]
          /\ links' = [m \in Members |->
               IF m = Proves(dispatches[d])
               THEN [links[m] EXCEPT !.verified = TRUE] ELSE links[m]]
     ELSE UNCHANGED <<dispatches, links>>
  /\ End(j)
  /\ UNCHANGED <<plan, head, generated>>

-----------------------------------------------------------------------------
(* Accounts.                                                               *)

\* connectAccount keeps the stamp it has read for the same Pilot ID.
BeginConnect(j, m, pid) ==
  /\ Begin(j, [pc |-> "connect", member |-> m, pid |-> pid,
               verified |-> links[m].pid = pid /\ links[m].verified])
  /\ UNCHANGED <<plan, dispatches, head, generated, links>>

\* updateMembership, under the unique index on the tenant's Pilot IDs.
CommitConnect(j) ==
  LET job == jobs[j] IN
  /\ At(j, "connect")
  /\ links' = IF \E m \in Members \ {job.member} : links[m].pid = job.pid
              THEN links
              ELSE [links EXCEPT ![job.member].pid = job.pid,
                                 ![job.member].verified = job.verified]
  /\ End(j)
  /\ UNCHANGED <<plan, dispatches, head, generated>>

Disconnect(m) ==
  /\ links[m] # Unlinked
  /\ links' = [links EXCEPT ![m] = Unlinked]
  /\ UNCHANGED <<plan, dispatches, head, generated, jobs>>

\* A call fails, the plan is not ready or does not match, the account is
\* another member's, or the instance dies.
GiveUp(j) ==
  /\ jobs[j] # NoJob
  /\ End(j)
  /\ UNCHANGED <<plan, dispatches, head, generated, links>>

-----------------------------------------------------------------------------
Init ==
  /\ plan \in [version : {1}, revision : {1}, terms : Terms,
               pilot : Members, ready : {TRUE}, release : {1}]
  /\ dispatches = [d \in Dispatches |-> NoDispatch]
  /\ head = 0 /\ generated = {}
  /\ links = [m \in Members |-> Unlinked]
  /\ jobs = [j \in Jobs |-> NoJob]

PlanNext ==
  \/ \E terms \in Terms, pilot \in Members : Reassign(terms, pilot)
  \/ Accept \/ EditNotes \/ PublishRelease

AccountNext ==
  \/ \E m \in Members : Disconnect(m)
  \/ \E j \in Jobs :
       \/ \E m \in Members, pid \in Pids : BeginConnect(j, m, pid)
       \/ CommitConnect(j)

DispatchNext ==
  \/ \E d \in Dispatches : Generate(d)
  \/ \E j \in Jobs :
       \/ BeginPrepare(j) \/ ReadFlight(j) \/ ReadRelease(j)
       \/ \E d \in Dispatches : CommitPrepare(j, d) \/ BeginFetch(j, d)
       \/ \E m \in Members, d \in Dispatches : BeginLaunch(j, m, d)
       \/ StartLaunch(j) \/ LandLaunch(j) \/ Complete(j) \/ GiveUp(j)

Next == PlanNext \/ AccountNext \/ DispatchNext

Spec == Init /\ [][Next]_vars

-----------------------------------------------------------------------------
\* Rows and handlers are well formed; who launched a dispatch and with which
\* account is known of all that are pending or ready, and of no others.
TypeOK ==
  /\ plan \in Plan
  /\ dispatches \in [Dispatches -> {NoDispatch} \cup Dispatch]
  /\ head \in Nat /\ generated \subseteq Dispatches
  /\ links \in [Members -> Link]
  /\ jobs \in [Jobs -> Job]

Launching(d) ==
  dispatches[d].status = "prepared" /\ dispatches'[d].status = "pending"

\* What a pilot is sent to SimBrief with is the flight as it is then: its
\* terms, its pilot and the newest preparation, although the request was
\* built long before and from separate reads ("material snapshot checks
\* protect planning correctness").
LaunchIsCurrent ==
  [][\A d \in Dispatches : Launching(d) =>
       /\ dispatches[d].request.terms = plan.terms
       /\ dispatches'[d].pilot = plan.pilot /\ plan.ready
       /\ \A e \in Dispatches : dispatches[e] # NoDispatch =>
            dispatches[e].revision <= dispatches[d].revision]_vars

\* An account shown as verified was proved by a plan this member launched
\* and generated with that Pilot ID, through all reconnections.
VerifiedHonest ==
  \A m \in Members : links[m].verified =>
    \E d \in Dispatches :
      /\ dispatches[d].status = "ready"
      /\ dispatches[d].pilot = m /\ dispatches[d].pid = links[m].pid
=============================================================================
