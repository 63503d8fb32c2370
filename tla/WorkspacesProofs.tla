---------------------------- MODULE WorkspacesProofs ----------------------------
(***************************************************************************)
(* What is proved of Workspaces for every number of members, accounts,     *)
(* preparations and handlers, and of browsers and calls under way.         *)
(*                                                                         *)
(* The two parts share no state, so the invariant has one part for each.   *)
(* SimbriefInv says what a handler may rely on: a flight it read with the  *)
(* version the flight still has is the flight, and a stamp it carries was  *)
(* proved by a plan that stays.  PageInv says the same of a person: what   *)
(* was cached, read and typed under the current version is what the flight *)
(* holds; what is older is refused by the version.  It says this of forms, *)
(* not of dialogs, which are sent with the version shown last.             *)
(***************************************************************************)
EXTENDS Workspaces, FiniteSetTheorems, TLAPS

-----------------------------------------------------------------------------
(* SimBrief.                                                               *)

\* A plan that m launched and generated with this Pilot ID.
Proved(m, pid) ==
  \E d \in Dispatches :
    /\ dispatches[d].status = "ready"
    /\ dispatches[d].pilot = m /\ dispatches[d].pid = pid

StillProved(m, pid) ==
  \E d \in Dispatches :
    /\ dispatches'[d].status = "ready"
    /\ dispatches'[d].pilot = m /\ dispatches'[d].pid = pid

\* Revisions and releases come with versions of their own.
PlanOK == plan.revision <= plan.version /\ plan.release <= plan.version

JobsOK ==
  \A j \in Jobs :
    /\ jobs[j].pc = "prepare" /\ jobs[j].flight # Nil =>
         /\ jobs[j].flight.version <= plan.version
         /\ jobs[j].flight.version = plan.version => jobs[j].flight = plan
    /\ jobs[j].pc = "connect" /\ jobs[j].verified =>
         Proved(jobs[j].member, jobs[j].pid)

\* The request of a preparation is about the terms of its snapshot, and the
\* head is the newest revision.
DispatchesOK ==
  \A d \in Dispatches : dispatches[d] # NoDispatch =>
    /\ dispatches[d].revision <= head
    /\ dispatches[d].request.terms = dispatches[d].snapshot.terms

SimbriefInv == TypeOK /\ PlanOK /\ JobsOK /\ DispatchesOK /\ VerifiedHonest

LEMMA DispatchAt ==
  ASSUME TypeOK, NEW d \in Dispatches
  PROVE  /\ dispatches[d] \in {NoDispatch} \cup Dispatch
         /\ dispatches[d].status \in {"none", "prepared", "pending", "ready"}
         /\ dispatches[d].status = "none" <=> dispatches[d] = NoDispatch
BY DEF TypeOK, NoDispatch, Dispatch

LEMMA JobAt ==
  ASSUME TypeOK, NEW j \in Jobs
  PROVE  /\ jobs[j] \in Job
         /\ jobs[j].pc = "none" <=> jobs[j] = NoJob
         /\ jobs[j].pc = "prepare" =>
              jobs[j] \in [pc : {"prepare"}, flight : Plan \cup {Nil},
                           release : Versions \cup {Nil}]
         /\ jobs[j].pc \in {"launch", "landing"} =>
              jobs[j] \in [pc : {"launch", "landing"}, dispatch : Dispatches,
                           member : Members, pid : Pids,
                           release : Versions \cup {Nil}]
         /\ jobs[j].pc = "fetch" =>
              jobs[j] \in [pc : {"fetch"}, dispatch : Dispatches]
         /\ jobs[j].pc = "connect" =>
              jobs[j] \in [pc : {"connect"}, member : Members, pid : Pids,
                           verified : BOOLEAN]
<1>1. jobs[j] \in Job
  BY DEF TypeOK
<1> QED
  BY <1>1 DEF Job, NoJob

\* A plan that is ready stays so.
LEMMA ProvedStays ==
  ASSUME NEW m, NEW pid, Proved(m, pid),
         \A d \in Dispatches :
           dispatches[d].status = "ready" => dispatches'[d] = dispatches[d]
  PROVE  StillProved(m, pid)
BY DEF Proved, StillProved

LEMMA SimbriefInit ==
  Init => SimbriefInv
<1> SUFFICES ASSUME Init
             PROVE  SimbriefInv
  OBVIOUS
<1>1. TypeOK
  <2>1. 1 \in Versions
    BY SimbriefAssumption DEF Versions
  <2>2. plan \in Plan
    BY <2>1 DEF Init, Plan
  <2>3. Unlinked \in Link
    BY DEF Unlinked, Link
  <2>4. NoJob \in Job
    BY DEF Job
  <2> QED
    BY <2>2, <2>3, <2>4 DEF Init, TypeOK
<1>2. PlanOK
  BY DEF Init, PlanOK
<1>3. JobsOK
  BY DEF Init, JobsOK, NoJob
<1>4. DispatchesOK
  BY DEF Init, DispatchesOK
<1>5. VerifiedHonest
  BY DEF Init, VerifiedHonest, Unlinked
<1> QED
  BY <1>1, <1>2, <1>3, <1>4, <1>5 DEF SimbriefInv

\* A step that takes handler j to a job in order and touches nothing else.
LEMMA JobKept ==
  ASSUME SimbriefInv, NEW j \in Jobs, NEW job \in Job,
         jobs' = [jobs EXCEPT ![j] = job],
         UNCHANGED <<plan, dispatches, head, generated, links>>,
         job.pc = "prepare" /\ job.flight # Nil =>
           /\ job.flight.version <= plan.version
           /\ job.flight.version = plan.version => job.flight = plan,
         job.pc = "connect" /\ job.verified => Proved(job.member, job.pid)
  PROVE  SimbriefInv'
<1>1. TypeOK'
  BY DEF SimbriefInv, TypeOK
<1>2. \A m, pid : Proved(m, pid)' <=> Proved(m, pid)
  BY DEF Proved
<1>3. JobsOK'
  <2> SUFFICES ASSUME NEW k \in Jobs
               PROVE  /\ jobs'[k].pc = "prepare" /\ jobs'[k].flight # Nil =>
                           /\ jobs'[k].flight.version <= plan.version
                           /\ jobs'[k].flight.version = plan.version =>
                                jobs'[k].flight = plan
                      /\ jobs'[k].pc = "connect" /\ jobs'[k].verified =>
                           Proved(jobs'[k].member, jobs'[k].pid)
    BY <1>2 DEF JobsOK
  <2>1. jobs'[k] = IF k = j THEN job ELSE jobs[k]
    BY DEF SimbriefInv, TypeOK
  <2> QED
    BY <2>1 DEF SimbriefInv, JobsOK
<1>4. PlanOK' /\ DispatchesOK' /\ VerifiedHonest'
  BY DEF SimbriefInv, PlanOK, DispatchesOK, VerifiedHonest
<1> QED
  BY <1>1, <1>3, <1>4 DEF SimbriefInv

LEMMA NoJobFits ==
  NoJob \in Job /\ NoJob.pc = "none"
BY DEF NoJob, Job

-----------------------------------------------------------------------------
(* The flight and its plan.                                                *)

\* Whatever changes the flight takes its version away from all who read it.
LEMMA ReplanKept ==
  ASSUME SimbriefInv, NEW next \in [version : Versions, revision : Nat,
           terms : Terms, pilot : Members, ready : BOOLEAN, release : Nat],
         next.version = plan.version,
         next.revision <= plan.version + 1, next.revision >= 1,
         next.release <= plan.version + 1, next.release >= 1,
         Replan(next)
  PROVE  SimbriefInv'
<1>1. plan.version \in Versions /\ plan.version < MaxVersion
  BY DEF SimbriefInv, TypeOK, Plan, Replan
<1>2. plan.version + 1 \in Versions
  BY <1>1, SimbriefAssumption DEF Versions
<1>3. plan' = [next EXCEPT !.version = plan.version + 1]
  BY DEF Replan
<1>4. /\ plan'.version = plan.version + 1
      /\ plan'.revision = next.revision /\ plan'.release = next.release
  BY <1>3
<1>5. next.revision \in Versions /\ next.release \in Versions
  BY <1>1, <1>2, SimbriefAssumption DEF Versions
<1>6. plan' \in Plan
  BY <1>2, <1>3, <1>5 DEF Plan
<1>7. TypeOK'
  BY <1>6 DEF SimbriefInv, TypeOK, Replan
<1>8. PlanOK'
  BY <1>4 DEF PlanOK
<1>9. JobsOK'
  <2> SUFFICES ASSUME NEW j \in Jobs
               PROVE  /\ jobs[j].pc = "prepare" /\ jobs[j].flight # Nil =>
                           jobs[j].flight.version < plan'.version
                      /\ jobs[j].pc = "connect" /\ jobs[j].verified =>
                           StillProved(jobs[j].member, jobs[j].pid)
    <3>1. ASSUME NEW j \in Jobs, jobs[j].pc = "prepare", jobs[j].flight # Nil
          PROVE  jobs[j].flight.version \in Nat /\ plan'.version \in Nat
      <4>1. jobs[j].flight \in Plan
        BY <3>1, JobAt DEF SimbriefInv
      <4> QED
        BY <4>1, <1>6 DEF Plan, Versions
    <3> QED
      BY <3>1 DEF JobsOK, Replan, Proved, StillProved
  <2>1. jobs[j].pc = "prepare" /\ jobs[j].flight # Nil =>
          jobs[j].flight \in Plan
    BY JobAt DEF SimbriefInv
  <2>2. jobs[j].pc = "prepare" /\ jobs[j].flight # Nil =>
          jobs[j].flight.version < plan'.version
    BY <1>1, <1>4, <2>1 DEF SimbriefInv, JobsOK, Plan, Versions
  <2>3. jobs[j].pc = "connect" /\ jobs[j].verified =>
          StillProved(jobs[j].member, jobs[j].pid)
    BY ProvedStays DEF SimbriefInv, JobsOK, Replan
  <2> QED
    BY <2>2, <2>3
<1>10. DispatchesOK' /\ VerifiedHonest'
  BY DEF SimbriefInv, DispatchesOK, VerifiedHonest, Replan
<1> QED
  BY <1>7, <1>8, <1>9, <1>10 DEF SimbriefInv

LEMMA PlanKept ==
  ASSUME SimbriefInv, PlanNext
  PROVE  SimbriefInv'
<1> DEFINE Wide == [version : Versions, revision : Nat, terms : Terms,
                    pilot : Members, ready : BOOLEAN, release : Nat]
<1>1. /\ plan \in Plan /\ plan \in Wide
      /\ plan.version \in Nat /\ plan.revision \in Nat /\ plan.release \in Nat
      /\ plan.revision >= 1 /\ plan.release >= 1
      /\ plan.revision <= plan.version /\ plan.release <= plan.version
  BY DEF SimbriefInv, TypeOK, PlanOK, Plan, Versions
<1>2. CASE \E terms \in Terms, pilot \in Members : Reassign(terms, pilot)
  <2>1. PICK terms \in Terms, pilot \in Members : Reassign(terms, pilot)
    BY <1>2
  <2>2. PICK p1 : p1 = [plan EXCEPT !.terms = terms]
    OBVIOUS
  <2>3. PICK p2 : p2 = [p1 EXCEPT !.pilot = pilot]
    OBVIOUS
  <2>4. PICK p3 : p3 = [p2 EXCEPT !.ready = FALSE]
    OBVIOUS
  <2>5. PICK p4 : p4 = [p3 EXCEPT !.revision = @ + 1]
    OBVIOUS
  <2>6. Replan(p4)
    BY <2>1, <2>2, <2>3, <2>4, <2>5 DEF Reassign
  <2>7. p3 \in Wide /\ p3.version = plan.version
        /\ p3.revision = plan.revision /\ p3.release = plan.release
    BY <1>1, <2>2, <2>3, <2>4
  <2>8. /\ p4 \in Wide /\ p4.version = plan.version
        /\ p4.revision = plan.revision + 1 /\ p4.release = plan.release
    BY <1>1, <2>5, <2>7
  <2> QED
    BY <1>1, <2>6, <2>8, ReplanKept
<1>3. CASE Accept
  <2>1. PICK p1 : p1 = [plan EXCEPT !.ready = TRUE]
    OBVIOUS
  <2>2. /\ p1 \in Wide /\ p1.version = plan.version
        /\ p1.revision = plan.revision /\ p1.release = plan.release
    BY <1>1, <2>1
  <2> QED
    BY <1>1, <1>3, <2>1, <2>2, ReplanKept DEF Accept
<1>4. CASE EditNotes
  BY <1>1, <1>4, ReplanKept DEF EditNotes
<1>5. CASE PublishRelease
  <2>1. PICK p1 : p1 = [plan EXCEPT !.release = @ + 1]
    OBVIOUS
  <2>2. /\ p1 \in Wide /\ p1.version = plan.version
        /\ p1.revision = plan.revision /\ p1.release = plan.release + 1
    BY <1>1, <2>1
  <2> QED
    BY <1>1, <1>5, <2>1, <2>2, ReplanKept DEF PublishRelease
<1> QED
  BY <1>2, <1>3, <1>4, <1>5 DEF PlanNext

-----------------------------------------------------------------------------
(* Preparation.                                                            *)

LEMMA BeginPrepareKept ==
  ASSUME SimbriefInv, NEW j \in Jobs, BeginPrepare(j)
  PROVE  SimbriefInv'
<1>1. PICK job : job = [pc |-> "prepare", flight |-> Nil, release |-> Nil]
  OBVIOUS
<1>2. job \in Job /\ job.pc = "prepare" /\ job.flight = Nil
  BY <1>1 DEF Job
<1>3. jobs' = [jobs EXCEPT ![j] = job]
  BY <1>1 DEF BeginPrepare, Begin
<1> QED
  BY <1>2, <1>3, JobKept DEF BeginPrepare

LEMMA ReadFlightKept ==
  ASSUME SimbriefInv, NEW j \in Jobs, ReadFlight(j)
  PROVE  SimbriefInv'
<1>1. PICK job : job = [jobs[j] EXCEPT !.flight = plan]
  OBVIOUS
<1>2. jobs[j] \in [pc : {"prepare"}, flight : Plan \cup {Nil},
                   release : Versions \cup {Nil}]
  BY JobAt DEF SimbriefInv, ReadFlight, At
<1>3. /\ job \in [pc : {"prepare"}, flight : Plan \cup {Nil},
                  release : Versions \cup {Nil}]
      /\ job.pc = "prepare" /\ job.flight = plan
  BY <1>1, <1>2 DEF SimbriefInv, TypeOK
<1>4. job \in Job
  BY <1>3 DEF Job
<1>5. plan.version <= plan.version
  BY DEF SimbriefInv, TypeOK, Plan, Versions
<1>6. jobs' = [jobs EXCEPT ![j] = job]
  BY <1>1 DEF ReadFlight
<1> QED
  BY <1>3, <1>4, <1>5, <1>6, JobKept DEF ReadFlight

LEMMA ReadReleaseKept ==
  ASSUME SimbriefInv, NEW j \in Jobs, ReadRelease(j)
  PROVE  SimbriefInv'
<1>1. PICK job : job = [jobs[j] EXCEPT !.release = plan.release]
  OBVIOUS
<1>2. jobs[j] \in [pc : {"prepare"}, flight : Plan \cup {Nil},
                   release : Versions \cup {Nil}]
  BY JobAt DEF SimbriefInv, ReadRelease, At
<1>3. plan.release \in Versions
  BY DEF SimbriefInv, TypeOK, Plan
<1>4. /\ job \in [pc : {"prepare"}, flight : Plan \cup {Nil},
                  release : Versions \cup {Nil}]
      /\ job.pc = "prepare" /\ job.flight = jobs[j].flight
  BY <1>1, <1>2, <1>3
<1>5. job \in Job
  BY <1>4 DEF Job
<1>6. jobs' = [jobs EXCEPT ![j] = job]
  BY <1>1 DEF ReadRelease
<1>7. jobs[j].flight # Nil =>
        /\ jobs[j].flight.version <= plan.version
        /\ jobs[j].flight.version = plan.version => jobs[j].flight = plan
  BY DEF SimbriefInv, JobsOK, ReadRelease, At
<1>8. job.flight # Nil =>
        /\ job.flight.version <= plan.version
        /\ job.flight.version = plan.version => job.flight = plan
  BY <1>4, <1>7
<1>9. UNCHANGED <<plan, dispatches, head, generated, links>>
  BY DEF ReadRelease
<1> QED
  BY <1>4, <1>5, <1>6, <1>8, <1>9, JobKept

\* A handler that ends and leaves the plan alone; what it does to dispatches
\* and links keeps proofs and is in order.
LEMMA EndKept ==
  ASSUME SimbriefInv, NEW j \in Jobs, End(j), UNCHANGED plan, TypeOK',
         \A m, pid : Proved(m, pid) => StillProved(m, pid),
         DispatchesOK', VerifiedHonest'
  PROVE  SimbriefInv'
<1>1. JobsOK'
  <2> SUFFICES ASSUME NEW k \in Jobs
               PROVE  /\ jobs'[k].pc = "prepare" /\ jobs'[k].flight # Nil =>
                           /\ jobs'[k].flight.version <= plan.version
                           /\ jobs'[k].flight.version = plan.version =>
                                jobs'[k].flight = plan
                      /\ jobs'[k].pc = "connect" /\ jobs'[k].verified =>
                           StillProved(jobs'[k].member, jobs'[k].pid)
    BY DEF JobsOK, Proved, StillProved
  <2>1. jobs'[k] = IF k = j THEN NoJob ELSE jobs[k]
    BY DEF SimbriefInv, TypeOK, End
  <2>2. CASE k = j
    BY <2>1, <2>2, NoJobFits
  <2>3. CASE k # j
    BY <2>1, <2>3 DEF SimbriefInv, JobsOK
  <2> QED
    BY <2>2, <2>3
<1>2. PlanOK'
  BY DEF SimbriefInv, PlanOK
<1> QED
  BY <1>1, <1>2 DEF SimbriefInv

LEMMA EndTyped ==
  ASSUME TypeOK, NEW j \in Jobs, End(j)
  PROVE  jobs' \in [Jobs -> Job]
BY NoJobFits DEF TypeOK, End

LEMMA CommitPrepareKept ==
  ASSUME SimbriefInv, NEW j \in Jobs, NEW d \in Dispatches,
         CommitPrepare(j, d)
  PROVE  SimbriefInv'
<1> DEFINE read == jobs[j].flight
           release == jobs[j].release
           lands == SameFlight(read) /\ plan.ready /\ plan.release = release
<1>1. /\ jobs[j].pc = "prepare" /\ read # Nil /\ release # Nil
      /\ dispatches[d] = NoDispatch /\ End(j)
      /\ UNCHANGED <<plan, generated, links>>
  BY DEF CommitPrepare, At
<1>2. /\ read \in Plan /\ release \in Versions
  BY <1>1, JobAt DEF SimbriefInv
<1>3. CASE ~lands
  <2>1. UNCHANGED <<head, dispatches>>
    BY <1>3 DEF CommitPrepare
  <2>2. TypeOK'
    BY <1>1, <2>1, EndTyped DEF SimbriefInv, TypeOK
  <2>3. DispatchesOK' /\ VerifiedHonest'
    BY <1>1, <2>1 DEF SimbriefInv, DispatchesOK, VerifiedHonest
  <2>4. \A m, pid : Proved(m, pid) => StillProved(m, pid)
    BY <2>1, ProvedStays
  <2> QED
    BY <1>1, <2>2, <2>3, <2>4, EndKept
<1>4. CASE lands
  <2>1. read = plan
    BY <1>1, <1>4 DEF SimbriefInv, JobsOK, SameFlight
  <2>2. PICK s : s = [revision |-> plan.revision, terms |-> plan.terms,
                      pilot |-> plan.pilot, release |-> release]
    OBVIOUS
  <2>3. PICK r : r = [terms |-> read.terms, release |-> release]
    OBVIOUS
  <2>4. PICK new : new = [status |-> "prepared", revision |-> head + 1,
                          snapshot |-> s, request |-> r,
                          pilot |-> Nil, pid |-> Nil]
    OBVIOUS
  <2>5. head' = head + 1 /\ dispatches' = [dispatches EXCEPT ![d] = new]
    BY <1>4, <2>2, <2>3, <2>4 DEF CommitPrepare
  <2>6. s \in Snapshot /\ s.terms = plan.terms
    BY <1>2, <2>2 DEF SimbriefInv, TypeOK, Plan, Snapshot
  <2>7. r \in [terms : Terms, release : Versions] /\ r.terms = plan.terms
    BY <1>2, <2>1, <2>3 DEF Plan
  <2>8. head \in Nat /\ head + 1 \in Nat
    BY DEF SimbriefInv, TypeOK
  <2>9. /\ new \in Dispatch /\ new.status = "prepared"
        /\ new.revision = head + 1 /\ new.request.terms = new.snapshot.terms
    BY <2>4, <2>6, <2>7, <2>8 DEF Dispatch
  <2>10. \A e \in Dispatches :
           dispatches'[e] = IF e = d THEN new ELSE dispatches[e]
    BY <2>5 DEF SimbriefInv, TypeOK
  <2>11. TypeOK'
    BY <1>1, <2>5, <2>8, <2>9, EndTyped DEF SimbriefInv, TypeOK
  <2>12. \A e \in Dispatches :
           dispatches[e].status = "ready" => dispatches'[e] = dispatches[e]
    BY <1>1, <2>10 DEF NoDispatch
  <2>13. \A m, pid : Proved(m, pid) => StillProved(m, pid)
    BY <2>12, ProvedStays
  <2>14. DispatchesOK'
    <3> SUFFICES ASSUME NEW e \in Dispatches, dispatches'[e] # NoDispatch
                 PROVE  /\ dispatches'[e].revision <= head'
                        /\ dispatches'[e].request.terms
                             = dispatches'[e].snapshot.terms
      BY DEF DispatchesOK
    <3>1. CASE e = d
      BY <2>5, <2>8, <2>9, <2>10, <3>1
    <3>2. CASE e # d
      <4>1. dispatches[e] \in Dispatch /\ dispatches'[e] = dispatches[e]
        BY <2>10, <3>2, DispatchAt DEF SimbriefInv
      <4>2. dispatches[e].revision \in Nat
        BY <4>1 DEF Dispatch
      <4> QED
        BY <2>5, <2>8, <4>1, <4>2 DEF SimbriefInv, DispatchesOK
    <3> QED
      BY <3>1, <3>2
  <2>15. VerifiedHonest'
    <3> SUFFICES ASSUME NEW m \in Members, links[m].verified
                 PROVE  StillProved(m, links[m].pid)
      BY <1>1 DEF VerifiedHonest, StillProved
    <3> QED
      BY <2>13 DEF SimbriefInv, VerifiedHonest, Proved
  <2> QED
    BY <1>1, <2>11, <2>13, <2>14, <2>15, EndKept
<1> QED
  BY <1>3, <1>4

-----------------------------------------------------------------------------
(* Launch and completion.                                                  *)

LEMMA BeginLaunchKept ==
  ASSUME SimbriefInv, NEW j \in Jobs, NEW m \in Members,
         NEW d \in Dispatches, BeginLaunch(j, m, d)
  PROVE  SimbriefInv'
<1>1. links[m].pid \in Pids
  BY DEF SimbriefInv, TypeOK, Link, BeginLaunch
<1>2. PICK job : job = [pc |-> "launch", dispatch |-> d, member |-> m,
                        pid |-> links[m].pid, release |-> Nil]
  OBVIOUS
<1>3. job \in Job /\ job.pc = "launch"
  BY <1>1, <1>2 DEF Job
<1>4. jobs' = [jobs EXCEPT ![j] = job]
  BY <1>2 DEF BeginLaunch, Begin
<1> QED
  BY <1>3, <1>4, JobKept DEF BeginLaunch

LEMMA StartLaunchKept ==
  ASSUME SimbriefInv, NEW j \in Jobs, StartLaunch(j)
  PROVE  SimbriefInv'
<1> DEFINE Launches == [pc : {"launch", "landing"}, dispatch : Dispatches,
                        member : Members, pid : Pids,
                        release : Versions \cup {Nil}]
<1>1. jobs[j] \in Launches
  BY JobAt DEF SimbriefInv, StartLaunch, At
<1>2. plan.release \in Versions
  BY DEF SimbriefInv, TypeOK, Plan
<1>3. PICK mid : mid = [jobs[j] EXCEPT !.pc = "landing"]
  OBVIOUS
<1>4. mid \in Launches /\ mid.pc = "landing"
  BY <1>1, <1>3
<1>5. PICK job : job = [mid EXCEPT !.release = plan.release]
  OBVIOUS
<1>6. job \in Launches /\ job.pc = "landing"
  BY <1>2, <1>4, <1>5
<1>7. job \in Job
  BY <1>6 DEF Job
<1>8. jobs' = [jobs EXCEPT ![j] = job]
  BY <1>3, <1>5 DEF StartLaunch, SimbriefInv, TypeOK
<1> QED
  BY <1>6, <1>7, <1>8, JobKept DEF StartLaunch

\* What a launch makes of its dispatch, when it lands.
LEMMA LaunchedIs ==
  ASSUME SimbriefInv, NEW j \in Jobs, LandLaunch(j)
  PROVE  \/ UNCHANGED dispatches
         \/ \E d \in Dispatches :
              /\ dispatches[d].status = "prepared"
              /\ Material(j, dispatches[d]) /\ dispatches[d].revision = head
              /\ dispatches'[d] \in Dispatch
              /\ dispatches'[d].status = "pending"
              /\ dispatches'[d].pilot = jobs[j].member
              /\ dispatches'[d].revision = dispatches[d].revision
              /\ dispatches'[d].request = dispatches[d].request
              /\ dispatches'[d].snapshot = dispatches[d].snapshot
              /\ dispatches' = [dispatches EXCEPT ![d] = dispatches'[d]]
<1> DEFINE d == jobs[j].dispatch
<1>1. CASE ~(/\ dispatches[d].status = "prepared"
             /\ Material(j, dispatches[d])
             /\ dispatches[d].revision = head)
  BY <1>1 DEF LandLaunch
<1>2. CASE /\ dispatches[d].status = "prepared"
           /\ Material(j, dispatches[d])
           /\ dispatches[d].revision = head
  <2>1. d \in Dispatches /\ jobs[j].member \in Members /\ jobs[j].pid \in Pids
    BY JobAt DEF SimbriefInv, LandLaunch, At
  <2>2. dispatches[d] \in [status : {"prepared"}, revision : Nat,
          snapshot : Snapshot, request : [terms : Terms, release : Versions],
          pilot : {Nil}, pid : {Nil}]
    BY <1>2, <2>1, DispatchAt DEF SimbriefInv, Dispatch, NoDispatch
  <2>3. PICK n1 : n1 = [dispatches[d] EXCEPT !.status = "pending"]
    OBVIOUS
  <2>4. PICK n2 : n2 = [n1 EXCEPT !.pilot = jobs[j].member]
    OBVIOUS
  <2>5. PICK new : new = [n2 EXCEPT !.pid = jobs[j].pid]
    OBVIOUS
  <2>6. n1 \in [status : {"pending"}, revision : Nat,
          snapshot : Snapshot, request : [terms : Terms, release : Versions],
          pilot : {Nil}, pid : {Nil}]
        /\ n1.revision = dispatches[d].revision
        /\ n1.request = dispatches[d].request
        /\ n1.snapshot = dispatches[d].snapshot
    BY <2>2, <2>3
  <2>7. n2 \in [status : {"pending"}, revision : Nat,
          snapshot : Snapshot, request : [terms : Terms, release : Versions],
          pilot : {jobs[j].member}, pid : {Nil}]
        /\ n2.revision = dispatches[d].revision
        /\ n2.request = dispatches[d].request
        /\ n2.snapshot = dispatches[d].snapshot
    BY <2>4, <2>6
  <2>8. new \in [status : {"pending"}, revision : Nat,
          snapshot : Snapshot, request : [terms : Terms, release : Versions],
          pilot : {jobs[j].member}, pid : {jobs[j].pid}]
        /\ new.revision = dispatches[d].revision
        /\ new.request = dispatches[d].request
        /\ new.snapshot = dispatches[d].snapshot
    BY <2>5, <2>7
  <2>9. dispatches' = [dispatches EXCEPT ![d] = new]
    <3>1. dispatches' = [dispatches EXCEPT ![d].status = "pending",
                           ![d].pilot = Launched(j).pilot,
                           ![d].pid = Launched(j).pid]
      BY <1>2 DEF LandLaunch
    <3>2. Launched(j).pilot = jobs[j].member /\ Launched(j).pid = jobs[j].pid
      BY DEF Launched
    <3>3. dispatches' = [dispatches EXCEPT ![d].status = "pending",
                           ![d].pilot = jobs[j].member,
                           ![d].pid = jobs[j].pid]
      BY <3>1, <3>2
    <3> QED
      BY <2>1, <2>3, <2>4, <2>5, <3>3 DEF SimbriefInv, TypeOK
  <2>10. dispatches'[d] = new
    BY <2>1, <2>9 DEF SimbriefInv, TypeOK
  <2>11. new \in Dispatch /\ new.status = "pending"
         /\ new.pilot = jobs[j].member
    BY <2>1, <2>8 DEF Dispatch
  <2> QED
    BY <1>2, <2>1, <2>8, <2>9, <2>10, <2>11
<1> QED
  BY <1>1, <1>2

LEMMA LandLaunchKept ==
  ASSUME SimbriefInv, NEW j \in Jobs, LandLaunch(j)
  PROVE  SimbriefInv'
<1>1. End(j) /\ UNCHANGED <<plan, head, generated, links>>
  BY DEF LandLaunch
<1>2. CASE UNCHANGED dispatches
  <2>1. TypeOK'
    BY <1>1, <1>2, EndTyped DEF SimbriefInv, TypeOK
  <2>2. DispatchesOK' /\ VerifiedHonest'
    BY <1>1, <1>2 DEF SimbriefInv, DispatchesOK, VerifiedHonest
  <2>3. \A m, pid : Proved(m, pid) => StillProved(m, pid)
    BY <1>2, ProvedStays
  <2> QED
    BY <1>1, <2>1, <2>2, <2>3, EndKept
<1>3. CASE ~UNCHANGED dispatches
  <2>1. PICK d \in Dispatches :
              /\ dispatches[d].status = "prepared"
              /\ dispatches'[d] \in Dispatch
              /\ dispatches'[d].revision = dispatches[d].revision
              /\ dispatches'[d].request = dispatches[d].request
              /\ dispatches'[d].snapshot = dispatches[d].snapshot
              /\ dispatches' = [dispatches EXCEPT ![d] = dispatches'[d]]
    BY <1>3, LaunchedIs
  <2>2. TypeOK'
    BY <1>1, <2>1, EndTyped DEF SimbriefInv, TypeOK
  <2>3. \A e \in Dispatches : e # d => dispatches'[e] = dispatches[e]
    BY <2>1 DEF SimbriefInv, TypeOK
  <2>4. \A m, pid : Proved(m, pid) => StillProved(m, pid)
    BY <2>1, <2>3, ProvedStays
  <2>5. dispatches[d] # NoDispatch
    BY <2>1 DEF NoDispatch
  <2>6. DispatchesOK'
    BY <1>1, <2>1, <2>3, <2>5 DEF SimbriefInv, DispatchesOK
  <2>7. VerifiedHonest'
    <3> SUFFICES ASSUME NEW m \in Members, links[m].verified
                 PROVE  StillProved(m, links[m].pid)
      BY <1>1 DEF VerifiedHonest, StillProved
    <3> QED
      BY <2>4 DEF SimbriefInv, VerifiedHonest, Proved
  <2> QED
    BY <1>1, <2>2, <2>4, <2>6, <2>7, EndKept
<1> QED
  BY <1>2, <1>3

LEMMA GenerateKept ==
  ASSUME SimbriefInv, NEW d \in Dispatches, Generate(d)
  PROVE  SimbriefInv'
<1>1. TypeOK'
  BY DEF SimbriefInv, TypeOK, Generate
<1> QED
  BY <1>1 DEF SimbriefInv, PlanOK, JobsOK, DispatchesOK, VerifiedHonest,
              Proved, Generate

LEMMA BeginFetchKept ==
  ASSUME SimbriefInv, NEW j \in Jobs, NEW d \in Dispatches, BeginFetch(j, d)
  PROVE  SimbriefInv'
<1>1. PICK job : job = [pc |-> "fetch", dispatch |-> d]
  OBVIOUS
<1>2. job \in Job /\ job.pc = "fetch"
  BY <1>1 DEF Job
<1>3. jobs' = [jobs EXCEPT ![j] = job]
  BY <1>1 DEF BeginFetch, Begin
<1> QED
  BY <1>2, <1>3, JobKept DEF BeginFetch

LEMMA CompleteKept ==
  ASSUME SimbriefInv, NEW j \in Jobs, Complete(j)
  PROVE  SimbriefInv'
<1> DEFINE d == jobs[j].dispatch
<1>1. End(j) /\ UNCHANGED <<plan, head, generated>> /\ d \in Dispatches
  BY JobAt DEF SimbriefInv, Complete, At
<1>2. CASE dispatches[d].status # "pending"
  <2>1. UNCHANGED <<dispatches, links>>
    BY <1>2 DEF Complete
  <2>2. TypeOK'
    BY <1>1, <2>1, EndTyped DEF SimbriefInv, TypeOK
  <2>3. DispatchesOK' /\ VerifiedHonest'
    BY <1>1, <2>1 DEF SimbriefInv, DispatchesOK, VerifiedHonest
  <2>4. \A m, pid : Proved(m, pid) => StillProved(m, pid)
    BY <2>1, ProvedStays
  <2> QED
    BY <1>1, <2>2, <2>3, <2>4, EndKept
<1>3. CASE dispatches[d].status = "pending"
  <2>1. PICK new : new = [dispatches[d] EXCEPT !.status = "ready"]
    OBVIOUS
  <2>2. dispatches[d] \in [status : {"pending", "ready"}, revision : Nat,
          snapshot : Snapshot, request : [terms : Terms, release : Versions],
          pilot : Members, pid : Pids]
    BY <1>1, <1>3, DispatchAt DEF SimbriefInv, Dispatch, NoDispatch
  <2>3. new \in [status : {"pending", "ready"}, revision : Nat,
          snapshot : Snapshot, request : [terms : Terms, release : Versions],
          pilot : Members, pid : Pids]
        /\ new.status = "ready"
        /\ new.pilot = dispatches[d].pilot /\ new.pid = dispatches[d].pid
        /\ new.revision = dispatches[d].revision
        /\ new.request = dispatches[d].request
        /\ new.snapshot = dispatches[d].snapshot
    BY <2>1, <2>2
  <2>4. new \in Dispatch
    BY <2>3 DEF Dispatch
  <2>5. dispatches' = [dispatches EXCEPT ![d] = new]
    BY <1>3, <2>1 DEF Complete, SimbriefInv, TypeOK
  <2>6. dispatches'[d] = new
        /\ \A e \in Dispatches : e # d => dispatches'[e] = dispatches[e]
    BY <1>1, <2>5 DEF SimbriefInv, TypeOK
  <2>7. links' = [m \in Members |->
           IF m = Proves(dispatches[d])
           THEN [links[m] EXCEPT !.verified = TRUE] ELSE links[m]]
    BY <1>3 DEF Complete
  <2>8. ASSUME NEW m \in Members
        PROVE  /\ links'[m] \in Link /\ links'[m].pid = links[m].pid
               /\ links'[m].verified =>
                    links[m].verified \/ m = Proves(dispatches[d])
    BY <2>7, <2>8 DEF SimbriefInv, TypeOK, Link
  <2>9. links' \in [Members -> Link]
    BY <2>7, <2>8
  <2>10. TypeOK'
    BY <1>1, <2>4, <2>5, <2>9, EndTyped DEF SimbriefInv, TypeOK
  <2>11. \A e \in Dispatches :
           dispatches[e].status = "ready" => dispatches'[e] = dispatches[e]
    BY <1>3, <2>6
  <2>12. \A m, pid : Proved(m, pid) => StillProved(m, pid)
    BY <2>11, ProvedStays
  <2>13. dispatches[d] # NoDispatch
    BY <1>3 DEF NoDispatch
  <2>14. DispatchesOK'
    BY <1>1, <2>3, <2>6, <2>13 DEF SimbriefInv, DispatchesOK
  <2>15. VerifiedHonest'
    <3> SUFFICES ASSUME NEW m \in Members, links'[m].verified
                 PROVE  StillProved(m, links[m].pid)
      BY <2>8 DEF VerifiedHonest, StillProved
    <3>1. CASE links[m].verified
      BY <2>12, <3>1 DEF SimbriefInv, VerifiedHonest, Proved
    <3>2. CASE m = Proves(dispatches[d])
      <4>1. m = dispatches[d].pilot /\ links[m].pid = dispatches[d].pid
        BY <3>2, SimbriefAssumption DEF Proves
      <4> QED
        BY <1>1, <2>3, <2>6, <4>1 DEF StillProved
    <3> QED
      BY <2>8, <3>1, <3>2
  <2> QED
    BY <1>1, <2>10, <2>12, <2>14, <2>15, EndKept
<1> QED
  BY <1>2, <1>3

-----------------------------------------------------------------------------
(* Accounts.                                                               *)

LEMMA BeginConnectKept ==
  ASSUME SimbriefInv, NEW j \in Jobs, NEW m \in Members, NEW pid \in Pids,
         BeginConnect(j, m, pid)
  PROVE  SimbriefInv'
<1>1. PICK v : v = (links[m].pid = pid /\ links[m].verified)
  OBVIOUS
<1>2. links[m].verified \in BOOLEAN
  BY DEF SimbriefInv, TypeOK, Link
<1>3. v \in BOOLEAN
  BY <1>1, <1>2
<1>4. PICK job : job = [pc |-> "connect", member |-> m, pid |-> pid,
                        verified |-> v]
  OBVIOUS
<1>5. job \in Job /\ job.pc = "connect" /\ job.member = m /\ job.pid = pid
      /\ job.verified = v
  BY <1>3, <1>4 DEF Job
<1>6. jobs' = [jobs EXCEPT ![j] = job]
  BY <1>1, <1>4 DEF BeginConnect, Begin
<1>7. links[m].pid = pid /\ links[m].verified => Proved(m, pid)
  BY DEF SimbriefInv, VerifiedHonest, Proved
<1>8. v => Proved(m, pid)
  BY <1>1, <1>7, Zenon
<1> QED
  BY <1>5, <1>6, <1>8, JobKept DEF BeginConnect

LEMMA CommitConnectKept ==
  ASSUME SimbriefInv, NEW j \in Jobs, CommitConnect(j)
  PROVE  SimbriefInv'
<1> DEFINE job == jobs[j]
           taken == \E m \in Members \ {job.member} : links[m].pid = job.pid
<1>1. /\ End(j) /\ UNCHANGED <<plan, dispatches, head, generated>>
      /\ job.pc = "connect" /\ job.member \in Members /\ job.pid \in Pids
      /\ job.verified \in BOOLEAN
  BY JobAt DEF SimbriefInv, CommitConnect, At
<1>2. \A m, pid : Proved(m, pid) => StillProved(m, pid)
  BY <1>1, ProvedStays
<1>3. PICK l1 : l1 = [links[job.member] EXCEPT !.pid = job.pid]
  OBVIOUS
<1>4. PICK l2 : l2 = [l1 EXCEPT !.verified = job.verified]
  OBVIOUS
<1>5. links[job.member] \in Link
  BY <1>1 DEF SimbriefInv, TypeOK
<1>6. l1 \in Link /\ l1.pid = job.pid
  BY <1>1, <1>3, <1>5 DEF Link
<1>7. l2 \in Link /\ l2.pid = job.pid /\ l2.verified = job.verified
  BY <1>1, <1>4, <1>6 DEF Link
<1>8. links' = links \/ links' = [links EXCEPT ![job.member] = l2]
  <2>1. CASE taken
    BY <2>1 DEF CommitConnect
  <2>2. CASE ~taken
    <3>1. links' = [links EXCEPT ![job.member].pid = job.pid,
                                 ![job.member].verified = job.verified]
      BY <2>2 DEF CommitConnect
    <3> QED
      BY <1>1, <1>3, <1>4, <3>1 DEF SimbriefInv, TypeOK
  <2> QED
    BY <2>1, <2>2
<1>9. links' \in [Members -> Link]
  BY <1>7, <1>8 DEF SimbriefInv, TypeOK
<1>10. TypeOK'
  BY <1>1, <1>9, EndTyped DEF SimbriefInv, TypeOK
<1>11. DispatchesOK'
  BY <1>1 DEF SimbriefInv, DispatchesOK
<1>12. VerifiedHonest'
  <2> SUFFICES ASSUME NEW m \in Members, links'[m].verified
               PROVE  StillProved(m, links'[m].pid)
    BY DEF VerifiedHonest, StillProved
  <2>1. links'[m] = links[m] \/ (m = job.member /\ links'[m] = l2)
    BY <1>8 DEF SimbriefInv, TypeOK
  <2>2. CASE links'[m] = links[m]
    BY <1>2, <2>2 DEF SimbriefInv, VerifiedHonest, Proved
  <2>3. CASE m = job.member /\ links'[m] = l2
    BY <1>1, <1>2, <1>7, <2>3 DEF SimbriefInv, JobsOK
  <2> QED
    BY <2>1, <2>2, <2>3
<1> QED
  BY <1>1, <1>2, <1>10, <1>11, <1>12, EndKept

LEMMA DisconnectKept ==
  ASSUME SimbriefInv, NEW m \in Members, Disconnect(m)
  PROVE  SimbriefInv'
<1>1. UNCHANGED <<plan, dispatches, head, generated, jobs>>
      /\ links' = [links EXCEPT ![m] = Unlinked]
  BY DEF Disconnect
<1>2. Unlinked \in Link /\ Unlinked.verified = FALSE
  BY DEF Unlinked, Link
<1>3. TypeOK'
  BY <1>1, <1>2 DEF SimbriefInv, TypeOK
<1>4. \A n, pid : Proved(n, pid) => StillProved(n, pid)
  BY <1>1, ProvedStays
<1>5. PlanOK' /\ JobsOK' /\ DispatchesOK'
  BY <1>1 DEF SimbriefInv, PlanOK, JobsOK, DispatchesOK, Proved
<1>6. VerifiedHonest'
  <2> SUFFICES ASSUME NEW n \in Members, links'[n].verified
               PROVE  StillProved(n, links'[n].pid)
    BY DEF VerifiedHonest, StillProved
  <2>1. links'[n] = links[n]
    BY <1>1, <1>2 DEF SimbriefInv, TypeOK
  <2> QED
    BY <1>4, <2>1 DEF SimbriefInv, VerifiedHonest, Proved
<1> QED
  BY <1>3, <1>5, <1>6 DEF SimbriefInv

LEMMA GiveUpKept ==
  ASSUME SimbriefInv, NEW j \in Jobs, GiveUp(j)
  PROVE  SimbriefInv'
<1>1. PICK job : job = NoJob
  OBVIOUS
<1>2. jobs' = [jobs EXCEPT ![j] = job] /\ job \in Job /\ job.pc = "none"
  BY <1>1, NoJobFits DEF GiveUp, End
<1> QED
  BY <1>2, JobKept DEF GiveUp

LEMMA SimbriefKept ==
  ASSUME SimbriefInv, Next
  PROVE  SimbriefInv'
<1>1. CASE PlanNext
  BY <1>1, PlanKept
<1>2. CASE AccountNext
  BY <1>2, DisconnectKept, BeginConnectKept, CommitConnectKept
     DEF AccountNext
<1>3. CASE \E d \in Dispatches : Generate(d)
  BY <1>3, GenerateKept
<1>4. CASE \E j \in Jobs :
             \/ BeginPrepare(j) \/ ReadFlight(j) \/ ReadRelease(j)
             \/ \E d \in Dispatches : CommitPrepare(j, d)
  BY <1>4, BeginPrepareKept, ReadFlightKept, ReadReleaseKept,
     CommitPrepareKept
<1>5. CASE \E j \in Jobs :
             \/ \E m \in Members, d \in Dispatches : BeginLaunch(j, m, d)
             \/ StartLaunch(j) \/ LandLaunch(j)
  BY <1>5, BeginLaunchKept, StartLaunchKept, LandLaunchKept
<1>6. CASE \E j \in Jobs :
             \/ \E d \in Dispatches : BeginFetch(j, d)
             \/ Complete(j) \/ GiveUp(j)
  BY <1>6, BeginFetchKept, CompleteKept, GiveUpKept
<1> QED
  BY <1>1, <1>2, <1>3, <1>4, <1>5, <1>6 DEF Next, DispatchNext

\* What LaunchIsCurrent demands of a step.
CurrentLaunch ==
  \A d \in Dispatches : Launching(d) =>
    /\ dispatches[d].request.terms = plan.terms
    /\ dispatches'[d].pilot = plan.pilot /\ plan.ready
    /\ \A e \in Dispatches : dispatches[e] # NoDispatch =>
         dispatches[e].revision <= dispatches[d].revision

LEMMA LaunchCurrent ==
  ASSUME SimbriefInv, NEW j \in Jobs, LandLaunch(j)
  PROVE  CurrentLaunch
<1> SUFFICES ASSUME NEW d \in Dispatches, Launching(d)
             PROVE  /\ dispatches[d].request.terms = plan.terms
                    /\ dispatches'[d].pilot = plan.pilot /\ plan.ready
                    /\ \A e \in Dispatches : dispatches[e] # NoDispatch =>
                         dispatches[e].revision <= dispatches[d].revision
  BY DEF CurrentLaunch
<1>1. PICK c \in Dispatches :
        /\ Material(j, dispatches[c]) /\ dispatches[c].revision = head
        /\ dispatches'[c].pilot = jobs[j].member
        /\ dispatches' = [dispatches EXCEPT ![c] = dispatches'[c]]
  BY LaunchedIs DEF Launching
<1>2. d = c
  BY <1>1 DEF Launching, SimbriefInv, TypeOK
<1>3. dispatches[d] # NoDispatch
  BY DEF Launching, NoDispatch
<1> QED
  BY <1>1, <1>2, <1>3 DEF SimbriefInv, DispatchesOK, Material

LEMMA LaunchesCurrent ==
  ASSUME SimbriefInv, Next
  PROVE  CurrentLaunch
<1>1. CASE UNCHANGED dispatches
  BY <1>1 DEF CurrentLaunch, Launching
<1>2. CASE \E j \in Jobs, d \in Dispatches : CommitPrepare(j, d)
  <2>1. PICK j \in Jobs, d \in Dispatches : CommitPrepare(j, d)
    BY <1>2
  <2>2. \A e \in Dispatches \ {d} : dispatches'[e] = dispatches[e]
    BY <2>1 DEF CommitPrepare, SimbriefInv, TypeOK
  <2>3. dispatches[d].status = "none"
    BY <2>1 DEF CommitPrepare, NoDispatch
  <2> QED
    BY <2>2, <2>3 DEF CurrentLaunch, Launching
<1>3. CASE \E j \in Jobs : LandLaunch(j)
  BY <1>3, LaunchCurrent
<1>4. CASE \E j \in Jobs : Complete(j)
  <2>1. PICK j \in Jobs : Complete(j)
    BY <1>4
  <2>2. \A e \in Dispatches :
          dispatches'[e] = dispatches[e] \/ dispatches[e].status = "pending"
    BY <2>1 DEF Complete, SimbriefInv, TypeOK
  <2> QED
    BY <2>2 DEF CurrentLaunch, Launching
<1>5. UNCHANGED dispatches \/ \E j \in Jobs :
        \/ \E d \in Dispatches : CommitPrepare(j, d)
        \/ LandLaunch(j) \/ Complete(j)
  <2>1. CASE PlanNext
    BY <2>1 DEF PlanNext, Reassign, Accept, EditNotes, PublishRelease, Replan
  <2>2. CASE AccountNext
    BY <2>2 DEF AccountNext, Disconnect, BeginConnect, CommitConnect
  <2>3. CASE DispatchNext
    BY <2>3 DEF DispatchNext, Generate, BeginPrepare, ReadFlight,
                ReadRelease, BeginFetch, BeginLaunch, StartLaunch, GiveUp
  <2> QED
    BY <2>1, <2>2, <2>3 DEF Next
<1> QED
  BY <1>1, <1>2, <1>3, <1>4, <1>5

-----------------------------------------------------------------------------
(* The pages.                                                              *)

Answers == {"none", "conflict", "done"}
Moves == {"offer", "accept", "decline", "start", "finish", "cancel",
          "withdraw"}
TimeValues == OutTimes \cup {Unset}
Kinds == {"edit", "publish", "correct", "reoffer"} \cup Moves
Mutations == {"editor", "save", "publish", "correction", "transition",
              "decision", "progress", "dialog", "reoffer"}
Dialogs == [move : Asked, seen : Details]

Row == [version : 1..LastVersion, status : FlightStatuses, details : Details,
        release : Revisions, out : TimeValues, manual : BOOLEAN]
Fetching ==
  {Still, Sent}
  \cup [pc : {"read"}, version : 1..LastVersion, status : FlightStatuses,
        details : Details]
Filled == [editor : Details \cup {Unset}, planning : Details \cup {Unset},
           warned : BOOLEAN, release : Revisions \cup {Unset},
           out : [seen : TimeValues] \cup {Unset},
           dialog : Dialogs \cup {Unset}]
Page == [detail : Detail \cup {Unset}, fetch : Fetching,
         poll : Polled \cup {Unset}, forms : Filled]
Call == [browser : Browsers,
         mutation : Mutations, kind : Kinds,
         version : 1..LastVersion,
         based : Details \cup Revisions \cup TimeValues,
         wish : Details \cup TimeValues, answer : Answers]

\* What is cached or read under the version the row has is what it holds.
\* getFlightDetail reads the releases after the flight, but a release made in
\* between has taken the version away.
CacheFresh(page, row) ==
  /\ page.detail # Unset =>
       /\ page.detail.version <= row.version
       /\ page.detail.version = row.version =>
            /\ page.detail.details = row.details
            /\ page.detail.release = row.release
  /\ page.fetch.pc = "read" =>
       /\ page.fetch.version <= row.version
       /\ page.fetch.version = row.version =>
            page.fetch.details = row.details

\* The editor always starts from what is cached, the planning workspace from
\* what was cached when its key last changed.
FormsFresh(page, row) ==
  /\ page.forms # Closed => page.detail # Unset
  /\ page.forms.editor # Unset => page.forms.editor = page.detail.details
  /\ page.forms.release # Unset => page.forms.planning # Unset
  /\ page.forms.out # Unset => page.poll # Unset
  /\ page.detail # Unset /\ page.detail.version = row.version =>
       /\ page.forms.planning # Unset => page.forms.planning = row.details
       /\ page.forms.release # Unset => page.forms.release = row.release

CallFresh(c, row) ==
  /\ c.kind = "edit" => c.wish \in Details
  /\ c.kind = "correct" => c.wish \in TimeValues
  /\ c.kind # "correct" => c.version <= row.version
  /\ c.kind \in {"edit", "publish"} /\ c.answer = "none"
     /\ c.version = row.version =>
       c.based = IF c.kind = "publish" THEN row.release ELSE row.details

RowOK == flight \in Row /\ flight.release <= flight.version
PagesOK ==
  /\ pages \in [Browsers -> Page]
  /\ \A b \in Browsers :
       CacheFresh(pages[b], flight) /\ FormsFresh(pages[b], flight)
CallsOK ==
  /\ calls \subseteq Call
  /\ IsFiniteSet(calls) /\ Cardinality(calls) <= MaxCalls
  /\ \A c \in calls : CallFresh(c, flight)

PageInv == RowOK /\ PagesOK /\ CallsOK

LEMMA FetchIs ==
  /\ Still \in Fetching /\ Still.pc = "none"
  /\ Sent \in Fetching /\ Sent.pc = "sent"
BY DEF Still, Sent, Fetching

LEMMA ClosedIs ==
  /\ Closed \in Filled
  /\ Closed.editor = Unset /\ Closed.planning = Unset
  /\ Closed.release = Unset /\ Closed.out = Unset
  /\ Closed.dialog = Unset
BY DEF Closed, Filled

\* A form that shows something is open.
LEMMA OpenIs ==
  ASSUME NEW forms,
         forms.editor # Unset \/ forms.planning # Unset
         \/ forms.release # Unset \/ forms.out # Unset
         \/ forms.dialog # Unset
  PROVE  forms # Closed
BY ClosedIs

LEMMA NoPageIs ==
  /\ NoPage \in Page /\ NoPage.detail = Unset /\ NoPage.fetch = Still
  /\ NoPage.poll = Unset /\ NoPage.forms = Closed
BY FetchIs, ClosedIs DEF NoPage, Page

\* What a browser has filled in hangs on its cache only.
LEMMA NoPageFresh ==
  ASSUME NEW row
  PROVE  CacheFresh(NoPage, row) /\ FormsFresh(NoPage, row)
BY NoPageIs, ClosedIs, FetchIs DEF CacheFresh, FormsFresh

LEMMA PageInitOK ==
  PageInit => PageInv
<1> SUFFICES ASSUME PageInit
             PROVE  PageInv
  OBVIOUS
<1>1. 1 \in 1..LastVersion /\ 0 \in Revisions /\ 1 \in Revisions
  BY PageAssumption DEF Revisions
<1>2. RowOK
  <2>1. flight \in [version : {1}, status : FlightStatuses,
                   details : Details, release : {0, 1}, out : {Unset},
                   manual : {FALSE}]
    BY DEF PageInit
  <2>2. flight.release <= flight.version
    BY <2>1
  <2>3. flight \in Row
    BY <1>1, <2>1 DEF Row, TimeValues
  <2> QED
    BY <2>2, <2>3 DEF RowOK
<1>3. PagesOK
  BY NoPageIs, NoPageFresh DEF PageInit, PagesOK
<1>4. CallsOK
  BY FS_EmptySet, PageAssumption DEF PageInit, CallsOK
<1> QED
  BY <1>2, <1>3, <1>4 DEF PageInv

\* A step of one browser.
LEMMA PageKept ==
  ASSUME PageInv, NEW b \in Browsers, NEW page \in Page, SetPage(b, page),
         CacheFresh(page, flight), FormsFresh(page, flight),
         UNCHANGED flight, CallsOK'
  PROVE  PageInv'
<1>1. RowOK'
  BY DEF PageInv, RowOK
<1>2. pages' \in [Browsers -> Page]
  BY DEF PageInv, PagesOK, SetPage
<1>3. \A c \in Browsers : pages'[c] = IF c = b THEN page ELSE pages[c]
  BY DEF PageInv, PagesOK, SetPage
<1>4. PagesOK'
  BY <1>2, <1>3 DEF PageInv, PagesOK
<1> QED
  BY <1>1, <1>4 DEF PageInv

LEMMA QuietCalls ==
  ASSUME PageInv, UNCHANGED <<flight, calls>>
  PROVE  CallsOK'
BY DEF PageInv, CallsOK

\* A row with a new version makes every copy of it an old one.
LEMMA CopiesOutdated ==
  ASSUME PageInv, flight' \in Row, flight'.version = flight.version + 1
  PROVE  /\ \A b \in Browsers : CacheFresh(pages[b], flight')
                                /\ FormsFresh(pages[b], flight')
         /\ \A c \in calls : CallFresh(c, flight')
<1>1. flight.version \in Nat /\ flight \in Row
  BY DEF PageInv, RowOK, Row
<1>2. ASSUME NEW b \in Browsers
      PROVE  CacheFresh(pages[b], flight') /\ FormsFresh(pages[b], flight')
  <2>1. pages[b] \in Page
        /\ CacheFresh(pages[b], flight) /\ FormsFresh(pages[b], flight)
    BY <1>2 DEF PageInv, PagesOK
  <2>2. /\ pages[b].detail # Unset => pages[b].detail.version \in Nat
        /\ pages[b].fetch.pc = "read" => pages[b].fetch.version \in Nat
    BY <2>1, FetchIs DEF Page, Detail, Fetching, Still, Sent
  <2>3. /\ pages[b].detail # Unset => pages[b].detail.version < flight'.version
        /\ pages[b].fetch.pc = "read" =>
             pages[b].fetch.version < flight'.version
    BY <1>1, <2>1, <2>2 DEF CacheFresh
  <2>4. flight'.version \in Nat
    BY <1>1
  <2> QED
    BY <2>1, <2>2, <2>3, <2>4 DEF CacheFresh, FormsFresh
<1>3. ASSUME NEW c \in calls
      PROVE  CallFresh(c, flight')
  <2>1. c \in Call /\ CallFresh(c, flight)
    BY <1>3 DEF PageInv, CallsOK
  <2>2. c.version \in Nat
    BY <2>1 DEF Call
  <2> QED
    BY <1>1, <2>1, <2>2 DEF CallFresh
<1> QED
  BY <1>2, <1>3

-----------------------------------------------------------------------------
(* Reading.                                                                *)

\* The page of a browser, and what follows from the invariant for it.
LEMMA PageAt ==
  ASSUME PageInv, NEW b \in Browsers
  PROVE  /\ pages[b] \in Page
         /\ CacheFresh(pages[b], flight) /\ FormsFresh(pages[b], flight)
         /\ pages[b].detail \in Detail \cup {Unset}
         /\ pages[b].fetch \in Fetching
         /\ pages[b].poll \in Polled \cup {Unset}
         /\ pages[b].forms \in Filled
         /\ flight \in Row
BY DEF PageInv, RowOK, PagesOK, Page

\* Another fetch that has read nothing yet.
LEMMA FetchKept ==
  ASSUME PageInv, NEW b \in Browsers, NEW fetch \in {Still, Sent},
         SetPage(b, [pages[b] EXCEPT !.fetch = fetch]),
         UNCHANGED <<flight, calls>>
  PROVE  PageInv'
<1>1. PICK page : page = [pages[b] EXCEPT !.fetch = fetch]
  OBVIOUS
<1>2. /\ page \in Page /\ page.fetch = fetch
      /\ page.detail = pages[b].detail /\ page.poll = pages[b].poll
      /\ page.forms = pages[b].forms
  BY <1>1, PageAt, FetchIs DEF Page
<1>3. CacheFresh(page, flight) /\ FormsFresh(page, flight)
  BY <1>2, PageAt, FetchIs DEF CacheFresh, FormsFresh
<1> QED
  BY <1>1, <1>2, <1>3, PageKept, QuietCalls

LEMMA ReadFlightRowKept ==
  ASSUME PageInv, NEW b \in Browsers, ReadFlightRow(b)
  PROVE  PageInv'
<1>1. PICK read : read = FlightPart
  OBVIOUS
<1>2. /\ read \in Fetching /\ read.version = flight.version
      /\ read.details = flight.details
  BY <1>1, PageAt DEF FlightPart, Fetching, Row
<1>3. PICK page : page = [pages[b] EXCEPT !.fetch = read]
  OBVIOUS
<1>4. /\ page \in Page /\ page.fetch = read
      /\ page.detail = pages[b].detail /\ page.poll = pages[b].poll
      /\ page.forms = pages[b].forms
  BY <1>2, <1>3, PageAt DEF Page
<1>5. flight.version <= flight.version
  BY PageAt DEF Row
<1>6. CacheFresh(page, flight) /\ FormsFresh(page, flight)
  BY <1>2, <1>4, <1>5, PageAt DEF CacheFresh, FormsFresh
<1> QED
  BY <1>1, <1>3, <1>4, <1>6, PageKept, QuietCalls DEF ReadFlightRow

\* A planning workspace that starts over.
LEMMA PlannedIs ==
  ASSUME NEW forms \in Filled, NEW detail \in Detail
  PROVE  LET new == Planned(detail, forms) IN
         /\ new \in Filled /\ new.planning = detail.details
         /\ new.release \in {detail.release, Unset}
         /\ new.editor = forms.editor /\ new.out = forms.out
<1>1. ReleaseForm(detail) \in {detail.release, Unset}
      /\ ReleaseForm(detail) \in Revisions \cup {Unset}
  BY DEF ReleaseForm, Detail
<1>2. PICK release : release = ReleaseForm(detail)
  OBVIOUS
<1>3. PICK n1 : n1 = [forms EXCEPT !.planning = detail.details]
  OBVIOUS
<1>4. PICK n2 : n2 = [n1 EXCEPT !.warned = FALSE]
  OBVIOUS
<1>5. PICK n3 : n3 = [n2 EXCEPT !.release = release]
  OBVIOUS
<1>6. Planned(detail, forms) = n3
  BY <1>2, <1>3, <1>4, <1>5 DEF Planned
<1>7. detail.details \in Details
  BY DEF Detail
<1>8. /\ n1 \in Filled /\ n1.planning = detail.details
      /\ n1.editor = forms.editor /\ n1.out = forms.out
  BY <1>3, <1>7 DEF Filled
<1>9. /\ n2 \in Filled /\ n2.planning = detail.details
      /\ n2.editor = forms.editor /\ n2.out = forms.out
  BY <1>4, <1>8 DEF Filled
<1>10. /\ n3 \in Filled /\ n3.planning = detail.details
       /\ n3.release = release
       /\ n3.editor = forms.editor /\ n3.out = forms.out
  BY <1>1, <1>2, <1>5, <1>9 DEF Filled
<1> QED
  BY <1>1, <1>2, <1>6, <1>10

\* What the forms hold after the page is shown another answer.
LEMMA RenewedIs ==
  ASSUME NEW forms \in Filled, NEW old \in Detail, NEW new \in Detail
  PROVE  LET next == Renewed(old, new, forms) IN
         /\ next \in Filled /\ next.out = forms.out
         /\ next.editor = forms.editor \/ next.editor = new.details
         /\ next.editor = forms.editor => forms.editor = Unset
              \/ next.editor = new.details \/ old.details = new.details
         /\ \/ /\ next.planning = forms.planning
               /\ next.release = forms.release
               /\ \/ forms.planning = Unset
                  \/ old.version = new.version /\ old.release = new.release
            \/ /\ forms.planning # Unset
               /\ next.planning = new.details
               /\ next.release \in {new.release, Unset}
<1> DEFINE renews == forms.planning # Unset /\ Key(old) # Key(new)
           same == /\ old.version = new.version /\ old.status = new.status
                   /\ old.details = new.details
<1>1. PICK kept : kept = IF renews THEN Planned(new, forms) ELSE forms
  OBVIOUS
<1>2. ~renews => forms.planning = Unset
        \/ (old.version = new.version /\ old.release = new.release)
  BY DEF Key
<1>3. /\ kept \in Filled /\ kept.editor = forms.editor
      /\ kept.out = forms.out
      /\ \/ ~renews /\ kept = forms
         \/ /\ renews /\ kept.planning = new.details
            /\ kept.release \in {new.release, Unset}
  BY <1>1, PlannedIs
<1>4. PICK reset : reset = IF forms.editor # Unset /\ ~same
                           THEN [kept EXCEPT !.editor = new.details] ELSE kept
  OBVIOUS
<1>5. PICK dialog : dialog = Mounted(new, reset.dialog)
  OBVIOUS
<1>6. PICK next : next = [reset EXCEPT !.dialog = dialog]
  OBVIOUS
<1>7. Renewed(old, new, forms) = next
  BY <1>1, <1>4, <1>5, <1>6 DEF Renewed
<1>8. new.details \in Details
  BY DEF Detail
<1>9. /\ reset \in Filled /\ reset.planning = kept.planning
      /\ reset.release = kept.release /\ reset.out = kept.out
      /\ reset.editor = IF forms.editor # Unset /\ ~same
                        THEN new.details ELSE forms.editor
  BY <1>3, <1>4, <1>8 DEF Filled
<1>10. dialog \in Dialogs \cup {Unset}
  BY <1>5, <1>9 DEF Mounted, Filled
<1>11. /\ next \in Filled /\ next.planning = reset.planning
       /\ next.release = reset.release /\ next.out = reset.out
       /\ next.editor = reset.editor
  BY <1>6, <1>9, <1>10 DEF Filled
<1> QED
  BY <1>2, <1>3, <1>7, <1>9, <1>11

LEMMA ArriveKept ==
  ASSUME PageInv, NEW b \in Browsers, Arrive(b)
  PROVE  PageInv'
<1> DEFINE old == pages[b].detail
           read == pages[b].fetch
           forms == pages[b].forms
<1>1. read \in Fetching /\ read.pc = "read" /\ flight \in Row
      /\ read.version \in 1..LastVersion /\ read.status \in FlightStatuses
      /\ read.details \in Details
  BY PageAt, FetchIs DEF Arrive, Fetching
<1>2. PICK new : new = [version |-> read.version, status |-> read.status,
                        details |-> read.details, release |-> flight.release]
  OBVIOUS
<1>3. /\ new \in Detail /\ new # Unset
      /\ new.version = read.version /\ new.details = read.details
      /\ new.release = flight.release
  BY <1>1, <1>2, PageAssumption DEF Detail, Row
<1>4. /\ new.version <= flight.version
      /\ new.version = flight.version => new.details = flight.details
  BY <1>1, <1>3, PageAt DEF CacheFresh
<1>5. PICK next : next = IF old = Unset THEN forms ELSE Renewed(old, new, forms)
  OBVIOUS
<1>6. forms \in Filled /\ old \in Detail \cup {Unset}
  BY PageAt
<1>7. next \in Filled
  BY <1>3, <1>5, <1>6, RenewedIs
<1>8. PICK p1 : p1 = [pages[b] EXCEPT !.detail = new]
  OBVIOUS
<1>9. PICK p2 : p2 = [p1 EXCEPT !.fetch = Still]
  OBVIOUS
<1>10. PICK page : page = [p2 EXCEPT !.forms = next]
  OBVIOUS
<1>11. /\ p1 \in Page /\ p1.detail = new /\ p1.fetch = read
       /\ p1.poll = pages[b].poll /\ p1.forms = forms
  BY <1>3, <1>8, PageAt DEF Page
<1>12. /\ p2 \in Page /\ p2.detail = new /\ p2.fetch = Still
       /\ p2.poll = pages[b].poll /\ p2.forms = forms
  BY <1>9, <1>11, FetchIs DEF Page
<1>13. /\ page \in Page /\ page.detail = new /\ page.fetch = Still
       /\ page.poll = pages[b].poll /\ page.forms = next
  BY <1>7, <1>10, <1>12 DEF Page
<1>14. SetPage(b, page) /\ UNCHANGED <<flight, calls>>
  BY <1>2, <1>5, <1>8, <1>9, <1>10, <1>11, <1>12 DEF Arrive
<1>15. CacheFresh(page, flight)
  BY <1>3, <1>4, <1>13, FetchIs DEF CacheFresh
<1>16. FormsFresh(page, flight)
  <2>1. FormsFresh(pages[b], flight) /\ CacheFresh(pages[b], flight)
    BY PageAt
  <2>2. CASE old = Unset
    <3>1. forms = Closed /\ next = Closed
      BY <1>5, <2>1, <2>2 DEF FormsFresh
    <3> QED
      BY <1>13, <3>1, ClosedIs DEF FormsFresh
  <2>3. CASE old # Unset
    <3>1. next = Renewed(old, new, forms) /\ old \in Detail
      BY <1>5, <1>6, <2>3
    <3>2. /\ next.out = forms.out
          /\ next.editor = forms.editor \/ next.editor = new.details
          /\ next.editor = forms.editor => forms.editor = Unset
               \/ next.editor = new.details \/ old.details = new.details
          /\ \/ /\ next.planning = forms.planning
                /\ next.release = forms.release
                /\ \/ forms.planning = Unset
                   \/ old.version = new.version /\ old.release = new.release
             \/ /\ forms.planning # Unset
                /\ next.planning = new.details
                /\ next.release \in {new.release, Unset}
      BY <1>3, <1>6, <3>1, RenewedIs
    <3>3. new.details # Unset
      BY <1>1, <1>3, PageAssumption
    <3>4. next.editor # Unset => next.editor = new.details
      BY <2>1, <3>2 DEF FormsFresh
    <3>5. next.release # Unset => next.planning # Unset
      BY <2>1, <3>2, <3>3 DEF FormsFresh
    <3>6. new.version = flight.version =>
            /\ next.planning # Unset => next.planning = flight.details
            /\ next.release # Unset => next.release = flight.release
      BY <1>3, <1>4, <2>1, <2>3, <3>2 DEF FormsFresh
    <3>7. next.out # Unset => page.poll # Unset
      BY <1>13, <2>1, <3>2 DEF FormsFresh
    <3> QED
      BY <1>3, <1>13, <3>4, <3>5, <3>6, <3>7 DEF FormsFresh
  <2> QED
    BY <2>2, <2>3
<1> QED
  BY <1>13, <1>14, <1>15, <1>16, PageKept, QuietCalls

LEMMA PollKept ==
  ASSUME PageInv, NEW b \in Browsers, Poll(b)
  PROVE  PageInv'
<1>1. PICK poll : poll = [version |-> flight.version, out |-> flight.out]
  OBVIOUS
<1>2. poll \in Polled /\ poll # Unset
  BY <1>1, PageAt, PageAssumption DEF Polled, Row, TimeValues
<1>3. PICK page : page = [pages[b] EXCEPT !.poll = poll]
  OBVIOUS
<1>4. /\ page \in Page /\ page.poll = poll
      /\ page.detail = pages[b].detail /\ page.fetch = pages[b].fetch
      /\ page.forms = pages[b].forms
  BY <1>2, <1>3, PageAt DEF Page
<1>5. CacheFresh(page, flight) /\ FormsFresh(page, flight)
  BY <1>2, <1>4, PageAt DEF CacheFresh, FormsFresh
<1> QED
  BY <1>1, <1>3, <1>4, <1>5, PageKept, QuietCalls DEF Poll

LEMMA ReadingKept ==
  ASSUME PageInv, ReadNext
  PROVE  PageInv'
<1>1. PICK b \in Browsers :
        \/ Fetch(b) \/ ReadFlightRow(b) \/ Arrive(b) \/ FetchFails(b)
        \/ Poll(b)
  BY DEF ReadNext
<1>2. CASE Fetch(b)
  BY <1>2, FetchKept DEF Fetch
<1>3. CASE FetchFails(b)
  <2>1. PICK page : page = NoPage
    OBVIOUS
  <2> QED
    BY <1>3, <2>1, NoPageIs, NoPageFresh, PageKept, QuietCalls DEF FetchFails
<1> QED
  BY <1>1, <1>2, <1>3, ReadFlightRowKept, ArriveKept, PollKept

-----------------------------------------------------------------------------
(* Filling in.                                                             *)

\* A browser whose forms change while what it shows stays.
LEMMA FormsKept ==
  ASSUME PageInv, NEW b \in Browsers, NEW forms \in Filled,
         NEW fetch \in Fetching, fetch \in {Still, Sent, pages[b].fetch},
         NEW page, page = [pages[b] EXCEPT !.forms = forms, !.fetch = fetch],
         SetPage(b, page),
         forms # Closed => pages[b].detail # Unset,
         forms.editor # Unset => forms.editor = pages[b].detail.details,
         forms.release # Unset => forms.planning # Unset,
         forms.out # Unset => pages[b].poll # Unset,
         pages[b].detail # Unset /\ pages[b].detail.version = flight.version =>
           /\ forms.planning # Unset => forms.planning = flight.details
           /\ forms.release # Unset => forms.release = flight.release,
         UNCHANGED flight, CallsOK'
  PROVE  PageInv'
<1>1. PICK p1 : p1 = [pages[b] EXCEPT !.forms = forms]
  OBVIOUS
<1>2. /\ p1 \in Page /\ p1.forms = forms
      /\ p1.detail = pages[b].detail /\ p1.poll = pages[b].poll
  BY <1>1, PageAt DEF Page
<1>3. page = [p1 EXCEPT !.fetch = fetch]
  BY <1>1
<1>4. /\ page \in Page /\ page.forms = forms /\ page.fetch = fetch
      /\ page.detail = pages[b].detail /\ page.poll = pages[b].poll
  BY <1>2, <1>3 DEF Page
<1>5. CacheFresh(page, flight)
  BY <1>4, PageAt, FetchIs DEF CacheFresh
<1>6. FormsFresh(page, flight)
  BY <1>4 DEF FormsFresh
<1> QED
  BY <1>4, <1>5, <1>6, PageKept

\* What the forms of a browser satisfy.
LEMMA FormsAt ==
  ASSUME PageInv, NEW b \in Browsers
  PROVE  LET page == pages[b]
             forms == page.forms IN
         /\ forms \in Filled
         /\ forms # Closed => page.detail # Unset
         /\ forms.editor # Unset => forms.editor = page.detail.details
         /\ forms.release # Unset => forms.planning # Unset
         /\ forms.out # Unset => page.poll # Unset
         /\ page.detail # Unset /\ page.detail.version = flight.version =>
              /\ page.detail.details = flight.details
              /\ page.detail.release = flight.release
              /\ forms.planning # Unset => forms.planning = flight.details
              /\ forms.release # Unset => forms.release = flight.release
         /\ page.detail # Unset =>
              /\ page.detail \in Detail
              /\ page.detail.version <= flight.version
BY PageAt DEF FormsFresh, CacheFresh

\* A form that is filled in: Form leaves the fetch and the planning
\* workspace's fields as they are.
LEMMA FormKept ==
  ASSUME PageInv, NEW b \in Browsers, NEW new \in Filled, Form(b, new),
         new.planning = pages[b].forms.planning,
         new.release = pages[b].forms.release,
         \/ new.editor = pages[b].forms.editor
         \/ new.editor = pages[b].detail.details,
         new.out = pages[b].forms.out \/ pages[b].poll # Unset
  PROVE  PageInv'
<1> DEFINE forms == pages[b].forms
<1>1. PICK fetch : fetch = pages[b].fetch
  OBVIOUS
<1>2. fetch \in Fetching /\ fetch \in {Still, Sent, pages[b].fetch}
  BY <1>1, PageAt
<1>3. PICK page : page = [pages[b] EXCEPT !.forms = new, !.fetch = fetch]
  OBVIOUS
<1>4. [pages[b] EXCEPT !.forms = new]
        = [pages[b] EXCEPT !.forms = new, !.fetch = pages[b].fetch]
  BY PageAt DEF Page
<1>5. /\ SetPage(b, page) /\ pages[b].detail # Unset
      /\ UNCHANGED flight
  BY <1>1, <1>3, <1>4 DEF Form
<1>6. CallsOK'
  BY QuietCalls DEF Form
<1>7. /\ forms.editor # Unset => forms.editor = pages[b].detail.details
      /\ forms.release # Unset => forms.planning # Unset
      /\ forms.out # Unset => pages[b].poll # Unset
      /\ pages[b].detail.version = flight.version =>
           /\ forms.planning # Unset => forms.planning = flight.details
           /\ forms.release # Unset => forms.release = flight.release
  BY <1>5, FormsAt
<1>8. /\ new.editor # Unset => new.editor = pages[b].detail.details
      /\ new.release # Unset => new.planning # Unset
      /\ new.out # Unset => pages[b].poll # Unset
      /\ pages[b].detail.version = flight.version =>
           /\ new.planning # Unset => new.planning = flight.details
           /\ new.release # Unset => new.release = flight.release
  BY <1>7
<1> QED
  BY <1>2, <1>3, <1>5, <1>6, <1>8, FormsKept

LEMMA OpenEditorKept ==
  ASSUME PageInv, NEW b \in Browsers, OpenEditor(b)
  PROVE  PageInv'
<1> DEFINE detail == pages[b].detail
           forms == pages[b].forms
<1>1. detail.details \in Details
  BY PageAt DEF OpenEditor, Detail
<1>2. PICK new : new = [forms EXCEPT !.editor = detail.details]
  OBVIOUS
<1>3. /\ new \in Filled /\ new.editor = detail.details
      /\ new.planning = forms.planning /\ new.release = forms.release
      /\ new.out = forms.out
  BY <1>1, <1>2, PageAt DEF Filled
<1> QED
  BY <1>2, <1>3, FormKept DEF OpenEditor

LEMMA OpenPlanningKept ==
  ASSUME PageInv, NEW b \in Browsers, OpenPlanning(b)
  PROVE  PageInv'
<1> DEFINE detail == pages[b].detail
           forms == pages[b].forms
<1>1. /\ detail \in Detail /\ detail # Unset /\ detail.details \in Details
      /\ UNCHANGED <<flight, calls>>
  BY PageAt DEF OpenPlanning, Detail
<1>2. PICK new : new = Planned(detail, forms)
  OBVIOUS
<1>3. /\ new \in Filled /\ new.planning = detail.details
      /\ new.release \in {detail.release, Unset}
      /\ new.editor = forms.editor /\ new.out = forms.out
  BY <1>1, <1>2, PlannedIs, PageAt
<1>4. PICK fetch : fetch = IF pages[b].fetch = Still THEN Sent
                           ELSE pages[b].fetch
  OBVIOUS
<1>5. fetch \in Fetching /\ fetch \in {Still, Sent, pages[b].fetch}
  BY <1>4, FetchIs, PageAt
<1>6. PICK page : page = [pages[b] EXCEPT !.forms = new, !.fetch = fetch]
  OBVIOUS
<1>7. SetPage(b, page)
  <2>1. SetPage(b, [pages[b] EXCEPT
          !.forms = Planned(detail, forms),
          !.fetch = IF pages[b].fetch = Still THEN Sent ELSE pages[b].fetch])
    BY DEF OpenPlanning
  <2> QED
    BY <1>2, <1>4, <1>6, <2>1
<1>8. new.planning # Unset
  BY <1>1, <1>3, PageAssumption
<1>9. /\ new.editor # Unset => new.editor = detail.details
      /\ new.out # Unset => pages[b].poll # Unset
  BY <1>3, FormsAt
<1>10. detail.version = flight.version =>
         /\ new.planning # Unset => new.planning = flight.details
         /\ new.release # Unset => new.release = flight.release
  BY <1>1, <1>3, FormsAt
<1>11. CallsOK' /\ UNCHANGED flight
  BY <1>1, QuietCalls
<1> QED
  BY <1>1, <1>3, <1>5, <1>6, <1>7, <1>8, <1>9, <1>10, <1>11, FormsKept

LEMMA CloseFormsKept ==
  ASSUME PageInv, NEW b \in Browsers, CloseForms(b)
  PROVE  PageInv'
<1>1. PICK fetch : fetch = IF pages[b].forms.planning # Unset THEN Sent
                           ELSE pages[b].fetch
  OBVIOUS
<1>2. fetch \in Fetching /\ fetch \in {Still, Sent, pages[b].fetch}
  BY <1>1, FetchIs, PageAt
<1>3. PICK new : new = Closed
  OBVIOUS
<1>4. PICK page : page = [pages[b] EXCEPT !.forms = new, !.fetch = fetch]
  OBVIOUS
<1>5. SetPage(b, page) /\ UNCHANGED <<flight, calls>>
  <2>1. SetPage(b, [pages[b] EXCEPT
          !.forms = Closed,
          !.fetch = IF pages[b].forms.planning # Unset THEN Sent
                    ELSE pages[b].fetch])
    BY DEF CloseForms
  <2> QED
    BY <1>1, <1>3, <1>4, <2>1 DEF CloseForms
<1> QED
  BY <1>2, <1>3, <1>4, <1>5, ClosedIs, FormsKept, QuietCalls

LEMMA TouchKept ==
  ASSUME PageInv, NEW b \in Browsers, Touch(b)
  PROVE  PageInv'
<1> DEFINE poll == pages[b].poll
           forms == pages[b].forms
<1>1. poll \in Polled /\ poll # Unset
  BY PageAt DEF Touch
<1>2. PICK draft : draft = [seen |-> poll.out]
  OBVIOUS
<1>3. draft \in [seen : TimeValues]
  BY <1>1, <1>2 DEF Polled, TimeValues
<1>4. PICK new : new = [forms EXCEPT !.out = draft]
  OBVIOUS
<1>5. /\ new \in Filled /\ new.editor = forms.editor
      /\ new.planning = forms.planning /\ new.release = forms.release
  BY <1>3, <1>4, PageAt DEF Filled
<1>6. Form(b, new)
  BY <1>2, <1>4 DEF Touch
<1> QED
  BY <1>1, <1>5, <1>6, FormKept

LEMMA WarnKept ==
  ASSUME PageInv, NEW b \in Browsers, NEW wish, Warn(b, wish)
  PROVE  PageInv'
<1> DEFINE forms == pages[b].forms
<1>1. PICK new : new = [forms EXCEPT !.warned = TRUE]
  OBVIOUS
<1>2. /\ new \in Filled /\ new.editor = forms.editor
      /\ new.planning = forms.planning /\ new.release = forms.release
      /\ new.out = forms.out
  BY <1>1, PageAt DEF Filled
<1>3. Form(b, new)
  BY <1>1 DEF Warn
<1> QED
  BY <1>2, <1>3, FormKept

LEMMA OpenDialogKept ==
  ASSUME PageInv, NEW b \in Browsers, NEW move \in Asked,
         OpenDialog(b, move)
  PROVE  PageInv'
<1> DEFINE detail == pages[b].detail
           forms == pages[b].forms
<1>1. PICK dialog : dialog = [move |-> move, seen |-> detail.details]
  OBVIOUS
<1>2. dialog \in Dialogs
  BY <1>1, PageAt DEF OpenDialog, Detail, Dialogs
<1>3. PICK new : new = [forms EXCEPT !.dialog = dialog]
  OBVIOUS
<1>4. /\ new \in Filled /\ new.editor = forms.editor
      /\ new.planning = forms.planning /\ new.release = forms.release
      /\ new.out = forms.out
  BY <1>2, <1>3, PageAt DEF Filled
<1>5. Form(b, new)
  BY <1>1, <1>3 DEF OpenDialog
<1> QED
  BY <1>4, <1>5, FormKept

LEMMA CloseDialogKept ==
  ASSUME PageInv, NEW b \in Browsers, CloseDialog(b)
  PROVE  PageInv'
<1> DEFINE forms == pages[b].forms
<1>1. PICK new : new = [forms EXCEPT !.dialog = Unset]
  OBVIOUS
<1>2. /\ new \in Filled /\ new.editor = forms.editor
      /\ new.planning = forms.planning /\ new.release = forms.release
      /\ new.out = forms.out
  BY <1>1, PageAt DEF Filled
<1>3. Form(b, new)
  BY <1>1 DEF CloseDialog
<1> QED
  BY <1>2, <1>3, FormKept

LEMMA FillingKept ==
  ASSUME PageInv, FillNext
  PROVE  PageInv'
BY OpenEditorKept, OpenPlanningKept, CloseFormsKept, TouchKept, WarnKept,
   OpenDialogKept DEF FillNext

-----------------------------------------------------------------------------
(* Sending.                                                                *)

LEMMA SendKept ==
  ASSUME PageInv, NEW b \in Browsers, NEW mutation \in Mutations,
         NEW kind \in Kinds, NEW version \in 1..LastVersion,
         NEW based \in Details \cup Revisions \cup TimeValues,
         NEW wish \in Details \cup TimeValues,
         Send(b, mutation, kind, version, based, wish),
         kind = "edit" => wish \in Details,
         kind = "correct" => wish \in TimeValues,
         kind # "correct" => version <= flight.version,
         kind \in {"edit", "publish"} /\ version = flight.version =>
           based = IF kind = "publish" THEN flight.release
                   ELSE flight.details
  PROVE  PageInv'
<1>1. PICK c : c = [browser |-> b, mutation |-> mutation, kind |-> kind,
                    version |-> version, based |-> based, wish |-> wish,
                    answer |-> "none"]
  OBVIOUS
<1>2. /\ c \in Call /\ c.kind = kind /\ c.version = version
      /\ c.based = based /\ c.wish = wish
  BY <1>1 DEF Call, Answers
<1>3. /\ calls' = calls \cup {c} /\ UNCHANGED <<flight, pages>>
      /\ Cardinality(calls) < MaxCalls
  BY <1>1 DEF Send
<1>4. CallFresh(c, flight)
  BY <1>2 DEF CallFresh
<1>5. IsFiniteSet(calls') /\ Cardinality(calls') <= MaxCalls
  <2>1. IsFiniteSet(calls) /\ Cardinality(calls) \in Nat
    BY FS_CardinalityType DEF PageInv, CallsOK
  <2>2. IsFiniteSet(calls') /\ (Cardinality(calls') = Cardinality(calls)
                                \/ Cardinality(calls') = Cardinality(calls) + 1)
    BY <1>3, <2>1, FS_AddElement
  <2> QED
    BY <1>3, <2>1, <2>2, PageAssumption
<1>6. CallsOK'
  BY <1>2, <1>3, <1>4, <1>5 DEF PageInv, CallsOK
<1> QED
  BY <1>3, <1>6 DEF PageInv, RowOK, PagesOK

\* The version a form is sent with is that of what the page shows.
LEMMA VersionAt ==
  ASSUME PageInv, NEW b \in Browsers, pages[b].detail # Unset
  PROVE  /\ pages[b].detail \in Detail
         /\ pages[b].detail.version \in 1..LastVersion
         /\ pages[b].detail.details \in Details
         /\ pages[b].detail.version <= flight.version
BY FormsAt DEF Detail

LEMMA SubmitEditorKept ==
  ASSUME PageInv, NEW b \in Browsers, NEW wish \in Details,
         SubmitEditor(b, wish)
  PROVE  PageInv'
<1> DEFINE page == pages[b]
<1>1. page.forms.editor # Unset
      /\ Send(b, "editor", "edit", page.detail.version, page.forms.editor,
              wish)
  BY DEF SubmitEditor
<1>2. /\ page.detail # Unset /\ page.forms.editor = page.detail.details
      /\ page.detail.version = flight.version =>
           page.detail.details = flight.details
  BY <1>1, OpenIs, FormsAt
<1>3. "editor" \in Mutations /\ "edit" \in Kinds
  BY DEF Mutations, Kinds
<1> QED
  BY <1>1, <1>2, <1>3, VersionAt, SendKept

LEMMA SubmitPlanningKept ==
  ASSUME PageInv, NEW b \in Browsers, NEW wish \in Details,
         SubmitPlanning(b, wish)
  PROVE  PageInv'
<1> DEFINE page == pages[b]
<1>1. page.forms.planning # Unset
      /\ Send(b, "save", "edit", page.detail.version, page.forms.planning,
              wish)
  BY DEF SubmitPlanning
<1>2. /\ page.detail # Unset /\ page.forms.planning \in Details
      /\ page.detail.version = flight.version =>
           page.forms.planning = flight.details
  BY <1>1, OpenIs, FormsAt DEF Filled
<1>3. "save" \in Mutations /\ "edit" \in Kinds
  BY DEF Mutations, Kinds
<1> QED
  BY <1>1, <1>2, <1>3, VersionAt, SendKept

LEMMA PublishKept ==
  ASSUME PageInv, NEW b \in Browsers, Publish(b)
  PROVE  PageInv'
<1> DEFINE page == pages[b]
<1>1. page.forms.release # Unset
      /\ Send(b, "publish", "publish", page.detail.version,
              page.forms.release, Unset)
  BY DEF Publish
<1>2. /\ page.detail # Unset /\ page.forms.release \in Revisions
      /\ page.detail.version = flight.version =>
           page.forms.release = flight.release
  BY <1>1, OpenIs, FormsAt DEF Filled
<1>3. "publish" \in Mutations /\ "publish" \in Kinds /\ Unset \in TimeValues
  BY DEF Mutations, Kinds, TimeValues
<1> QED
  BY <1>1, <1>2, <1>3, VersionAt, SendKept

\* A correction is sent with the version polled last, whatever its draft
\* started from: nothing is promised of it.
LEMMA CorrectKept ==
  ASSUME PageInv, NEW b \in Browsers, NEW time \in OutTimes \cup {Unset},
         Correct(b, time)
  PROVE  PageInv'
<1> DEFINE page == pages[b]
<1>1. page.forms.out # Unset
      /\ Send(b, "correction", "correct", page.poll.version,
              page.forms.out.seen, time)
  BY DEF Correct
<1>2. page.forms.out \in [seen : TimeValues] /\ page.poll \in Polled
  BY <1>1, FormsAt, PageAt DEF Filled
<1>3. page.forms.out.seen \in TimeValues /\ page.poll.version \in 1..LastVersion
  BY <1>2 DEF Polled
<1>4. "correction" \in Mutations /\ "correct" \in Kinds /\ time \in TimeValues
  BY DEF Mutations, Kinds, TimeValues
<1> QED
  BY <1>1, <1>3, <1>4, SendKept

\* A press sends the version of what the page shows.
LEMMA PressKept ==
  ASSUME PageInv, NEW b \in Browsers, NEW mutation \in Mutations,
         NEW moves \in SUBSET Moves, Press(b, mutation, moves)
  PROVE  PageInv'
<1> DEFINE detail == pages[b].detail
<1>1. PICK move \in moves :
        Send(b, mutation, move, detail.version, detail.details, Unset)
  BY DEF Press
<1>2. detail # Unset
  BY DEF Press
<1>3. /\ move \in Kinds /\ Unset \in TimeValues
      /\ move # "edit" /\ move # "correct" /\ move # "publish"
  BY <1>1 DEF Kinds, Moves, TimeValues
<1> QED
  BY <1>1, <1>2, <1>3, VersionAt, SendKept

\* A dialog is confirmed with the version shown by then, whatever was shown
\* when it was opened: nothing is promised of its move.
LEMMA ConfirmKept ==
  ASSUME PageInv, NEW b \in Browsers, Confirm(b)
  PROVE  PageInv'
<1> DEFINE page == pages[b]
           dialog == page.forms.dialog
<1>1. /\ dialog # Unset
      /\ Send(b, "dialog", dialog.move, page.detail.version, dialog.seen,
              Unset)
  BY DEF Confirm
<1>2. dialog \in Dialogs /\ page.detail # Unset
  BY <1>1, OpenIs, FormsAt DEF Filled
<1>3. dialog.move \in Asked /\ dialog.seen \in Details
  BY <1>2 DEF Dialogs
<1>4. /\ dialog.move \in Kinds /\ "dialog" \in Mutations
      /\ Unset \in TimeValues
      /\ dialog.move # "edit" /\ dialog.move # "correct"
      /\ dialog.move # "publish"
  BY <1>3 DEF Asked, Kinds, Moves, Mutations, TimeValues
<1> QED
  BY <1>1, <1>2, <1>3, <1>4, VersionAt, SendKept

LEMMA DialogKept ==
  ASSUME PageInv, DialogNext
  PROVE  PageInv'
BY CloseDialogKept, ConfirmKept DEF DialogNext

LEMMA ReofferKept ==
  ASSUME PageInv, NEW b \in Browsers, Reoffer(b)
  PROVE  PageInv'
<1> DEFINE detail == pages[b].detail
<1>1. /\ detail # Unset
      /\ Send(b, "reoffer", "reoffer", detail.version, detail.details, Unset)
  BY DEF Reoffer
<1>2. "reoffer" \in Mutations /\ "reoffer" \in Kinds /\ Unset \in TimeValues
  BY DEF Mutations, Kinds, TimeValues
<1> QED
  BY <1>1, <1>2, VersionAt, SendKept

LEMMA SendingKept ==
  ASSUME PageInv, SendNext
  PROVE  PageInv'
<1>1. PICK b \in Browsers :
        \/ \E wish \in Details : SubmitEditor(b, wish) \/ SubmitPlanning(b, wish)
        \/ Publish(b) \/ Reoffer(b)
        \/ \E time \in OutTimes \cup {Unset} : Correct(b, time)
        \/ Transition(b) \/ Decide(b) \/ Progress(b)
  BY DEF SendNext
<1>2. CASE Transition(b)
  <2>1. /\ "transition" \in Mutations
        /\ {"offer", "start"} \in SUBSET Moves
    BY DEF Mutations, Moves
  <2> QED
    BY <1>2, <2>1, PressKept DEF Transition
<1>3. CASE Decide(b)
  <2>1. /\ "decision" \in Mutations
        /\ {"accept"} \in SUBSET Moves
    BY DEF Mutations, Moves
  <2> QED
    BY <1>3, <2>1, PressKept DEF Decide
<1>4. CASE Progress(b)
  <2>1. "progress" \in Mutations /\ {"start", "finish"} \in SUBSET Moves
    BY DEF Mutations, Moves
  <2> QED
    BY <1>4, <2>1, PressKept DEF Progress
<1> QED
  BY <1>1, <1>2, <1>3, <1>4, SubmitEditorKept, SubmitPlanningKept,
     PublishKept, ReofferKept, CorrectKept

-----------------------------------------------------------------------------
(* The API.                                                                *)

\* A row that gets the next version.
Draft == [version : 1..LastVersion, status : FlightStatuses,
          details : Details, release : Nat, out : TimeValues,
          manual : BOOLEAN]

\* What may become of the row: its release comes with a version.
Allowed(row) ==
  /\ row \in Draft /\ row.version = flight.version
  /\ row.release <= flight.version + 1

LEMMA EditedAllowed ==
  ASSUME PageInv, NEW details \in Details
  PROVE  Allowed(Edited(flight, details))
<1>1. PICK status : status =
        IF /\ details.assignment # flight.details.assignment
           /\ flight.status \in {"accepted", "briefed"}
        THEN "offered" ELSE flight.status
  OBVIOUS
<1>2. flight \in Row /\ flight.release <= flight.version
  BY DEF PageInv, RowOK
<1>3. status \in FlightStatuses
  BY <1>1, <1>2 DEF Row, FlightStatuses
<1>4. PICK n1 : n1 = [flight EXCEPT !.details = details]
  OBVIOUS
<1>5. n1 \in Row /\ n1.version = flight.version /\ n1.release = flight.release
      /\ n1.status = flight.status
  BY <1>2, <1>4 DEF Row
<1>6. PICK n2 : n2 = [n1 EXCEPT !.status = status]
  OBVIOUS
<1>7. n2 \in Row /\ n2.version = flight.version /\ n2.release = flight.release
  BY <1>3, <1>5, <1>6 DEF Row
<1>8. Edited(flight, details) = n2
  BY <1>1, <1>4, <1>5, <1>6 DEF Edited
<1> QED
  BY <1>2, <1>7, <1>8 DEF Allowed, Row, Draft, Revisions

LEMMA MovedAllowed ==
  ASSUME PageInv, NEW move \in Moves
  PROVE  Allowed(Moved(flight, move))
<1>1. flight \in Row /\ flight.release <= flight.version
  BY DEF PageInv, RowOK
<1>2. PICK out : out = IF move = "start" /\ flight.out = Unset
                       THEN CHOOSE t \in OutTimes : TRUE ELSE flight.out
  OBVIOUS
<1>3. out \in TimeValues
  BY <1>1, <1>2, PageAssumption DEF Row, TimeValues
<1>4. To[move] \in FlightStatuses
  BY DEF To, Moves, FlightStatuses
<1>5. PICK n1 : n1 = [flight EXCEPT !.status = To[move]]
  OBVIOUS
<1>6. n1 \in Row /\ n1.version = flight.version /\ n1.release = flight.release
      /\ n1.out = flight.out
  BY <1>1, <1>4, <1>5 DEF Row
<1>7. PICK n2 : n2 = [n1 EXCEPT !.out = out]
  OBVIOUS
<1>8. n2 \in Row /\ n2.version = flight.version /\ n2.release = flight.release
  BY <1>3, <1>6, <1>7 DEF Row
<1>9. Moved(flight, move) = n2
  BY <1>2, <1>5, <1>6, <1>7 DEF Moved
<1> QED
  BY <1>1, <1>8, <1>9 DEF Allowed, Row, Draft, Revisions

LEMMA PublishedAllowed ==
  ASSUME PageInv
  PROVE  Allowed(Published(flight))
<1>1. flight \in Row /\ flight.release <= flight.version
  BY DEF PageInv, RowOK
<1>2. PICK n1 : n1 = [flight EXCEPT !.status = "briefed"]
  OBVIOUS
<1>3. n1 \in Row /\ n1.version = flight.version /\ n1.release = flight.release
  BY <1>1, <1>2 DEF Row, FlightStatuses
<1>4. PICK n2 : n2 = [n1 EXCEPT !.release = flight.release + 1]
  OBVIOUS
<1>5. flight.release \in Nat /\ flight.version \in Nat
  BY <1>1 DEF Row, Revisions
<1>6. n2 \in Draft /\ n2.version = flight.version
      /\ n2.release = flight.release + 1
  BY <1>3, <1>4, <1>5 DEF Row, Draft
<1>7. Published(flight) = n2
  BY <1>2, <1>3, <1>4 DEF Published
<1> QED
  BY <1>1, <1>5, <1>6, <1>7 DEF Allowed

LEMMA TimedAllowed ==
  ASSUME PageInv, NEW out \in TimeValues
  PROVE  /\ Allowed([flight EXCEPT !.out = out])
         /\ Allowed([flight EXCEPT !.out = out, !.manual = TRUE])
<1>1. flight \in Row /\ flight.release <= flight.version
  BY DEF PageInv, RowOK
<1>2. PICK n1 : n1 = [flight EXCEPT !.out = out]
  OBVIOUS
<1>3. n1 \in Row /\ n1.version = flight.version /\ n1.release = flight.release
  BY <1>1, <1>2 DEF Row
<1>4. PICK n2 : n2 = [n1 EXCEPT !.manual = TRUE]
  OBVIOUS
<1>5. n2 \in Row /\ n2.version = flight.version /\ n2.release = flight.release
  BY <1>3, <1>4 DEF Row
<1> QED
  BY <1>1, <1>2, <1>3, <1>4, <1>5 DEF Allowed, Row, Draft, Revisions

LEMMA NextVersion ==
  ASSUME PageInv, NEW row, Allowed(row), flight.version < LastVersion,
         flight' = [row EXCEPT !.version = @ + 1]
  PROVE  /\ flight' \in Row /\ flight'.version = flight.version + 1
         /\ RowOK'
<1>1. flight.version \in 1..LastVersion
  BY DEF PageInv, RowOK, Row
<1>2. flight.version + 1 \in 1..LastVersion
  BY <1>1, PageAssumption
<1>3. flight' \in Draft /\ flight'.version = flight.version + 1
      /\ flight'.release = row.release
  BY <1>2 DEF Allowed, Draft
<1>4. flight'.release \in Revisions /\ flight'.release <= flight'.version
  BY <1>1, <1>2, <1>3, PageAssumption DEF Allowed, Draft, Revisions
<1>5. flight' \in Row
  BY <1>3, <1>4 DEF Draft, Row
<1> QED
  BY <1>3, <1>4, <1>5 DEF RowOK

LEMMA AnswerKept ==
  ASSUME PageInv, NEW c \in calls, NEW answer \in {"conflict", "done"},
         Answer(c, answer), \A k \in calls : CallFresh(k, flight')
  PROVE  CallsOK'
<1>1. PICK k : k = [c EXCEPT !.answer = answer]
  OBVIOUS
<1>2. c \in Call
  BY DEF PageInv, CallsOK
<1>3. /\ k \in Call /\ k.kind = c.kind /\ k.version = c.version
      /\ k.wish = c.wish /\ k.based = c.based /\ k.answer = answer
  BY <1>1, <1>2 DEF Call, Answers
<1>4. calls' = (calls \ {c}) \cup {k}
  BY <1>1 DEF Answer
<1>5. CallFresh(k, flight')
  BY <1>3 DEF CallFresh
<1>6. IsFiniteSet(calls') /\ Cardinality(calls') <= MaxCalls
  <2>1. IsFiniteSet(calls) /\ Cardinality(calls) \in Nat
    BY FS_CardinalityType DEF PageInv, CallsOK
  <2>2. /\ IsFiniteSet(calls \ {c}) /\ Cardinality(calls \ {c}) \in Nat
        /\ Cardinality(calls \ {c}) = Cardinality(calls) - 1
    BY <2>1, FS_RemoveElement, FS_CardinalityType
  <2>3. IsFiniteSet(calls') /\ Cardinality(calls') <= Cardinality(calls)
    <3>1. PICK rest : rest = calls \ {c}
      OBVIOUS
    <3>2. IsFiniteSet(rest) /\ calls' = rest \cup {k}
      BY <1>4, <2>2, <3>1
    <3>3. /\ IsFiniteSet(rest \cup {k})
          /\ Cardinality(rest \cup {k})
               = IF k \in rest THEN Cardinality(rest) ELSE Cardinality(rest) + 1
      BY <3>2, FS_AddElement
    <3> QED
      BY <2>1, <2>2, <3>1, <3>2, <3>3
  <2>4. Cardinality(calls') \in Nat
    BY <2>3, FS_CardinalityType
  <2> QED
    BY <2>1, <2>3, <2>4, PageAssumption DEF PageInv, CallsOK
<1> QED
  BY <1>2, <1>3, <1>4, <1>5, <1>6 DEF PageInv, CallsOK

\* A change by somebody else, or by a call that is served.
LEMMA ChangeKept ==
  ASSUME PageInv, NEW row, Allowed(row), flight.version < LastVersion,
         flight' = [row EXCEPT !.version = @ + 1], UNCHANGED pages,
         UNCHANGED calls
           \/ \E c \in calls : Answer(c, "done")
  PROVE  PageInv'
<1>1. /\ flight' \in Row /\ flight'.version = flight.version + 1
      /\ RowOK'
  BY NextVersion
<1>2. /\ \A b \in Browsers : CacheFresh(pages[b], flight')
                             /\ FormsFresh(pages[b], flight')
      /\ \A c \in calls : CallFresh(c, flight')
  BY <1>1, CopiesOutdated
<1>3. PagesOK'
  BY <1>2 DEF PageInv, PagesOK
<1>4. CallsOK'
  <2>1. CASE UNCHANGED calls
    BY <1>2, <2>1 DEF PageInv, CallsOK
  <2>2. CASE \E c \in calls : Answer(c, "done")
    BY <1>2, <2>2, AnswerKept
  <2> QED
    BY <2>1, <2>2
<1> QED
  BY <1>1, <1>3, <1>4 DEF PageInv

\* What a call makes of the row is allowed.
LEMMA ChangedAllowed ==
  ASSUME PageInv, NEW c \in calls, c.kind # "reoffer"
  PROVE  Allowed(Changed(flight, c))
<1>1. c.kind \in Kinds /\ CallFresh(c, flight)
  BY DEF PageInv, CallsOK, Call
<1>2. CASE c.kind = "edit"
  <2>1. Changed(flight, c) = Edited(flight, c.wish)
    BY <1>2 DEF Changed
  <2> QED
    BY <1>1, <1>2, <2>1, EditedAllowed DEF CallFresh
<1>3. CASE c.kind = "publish"
  <2>1. Changed(flight, c) = Published(flight)
    BY <1>3 DEF Changed
  <2> QED
    BY <2>1, PublishedAllowed
<1>4. CASE c.kind = "correct"
  <2>1. Changed(flight, c) = [flight EXCEPT !.out = c.wish, !.manual = TRUE]
    BY <1>4 DEF Changed
  <2> QED
    BY <1>1, <1>4, <2>1, TimedAllowed DEF CallFresh
<1>5. CASE c.kind \in Moves
  <2>1. Changed(flight, c) = Moved(flight, c.kind)
    BY <1>5 DEF Changed, Moves
  <2> QED
    BY <1>5, <2>1, MovedAllowed
<1> QED
  BY <1>1, <1>2, <1>3, <1>4, <1>5 DEF Kinds

LEMMA ServeKept ==
  ASSUME PageInv, NEW c \in calls, Serve(c)
  PROVE  PageInv'
<1>1. CASE UNCHANGED flight
  <2>1. UNCHANGED pages /\ \A k \in calls : CallFresh(k, flight')
    BY <1>1 DEF Serve, PageInv, CallsOK
  <2>2. Answer(c, "conflict") \/ Answer(c, "done")
    BY DEF Serve
  <2>3. CallsOK'
    BY <2>1, <2>2, AnswerKept
  <2> QED
    BY <1>1, <2>1, <2>3 DEF PageInv, RowOK, PagesOK
<1>2. CASE ~UNCHANGED flight
  <2>1. /\ c.kind # "reoffer" /\ flight.version < LastVersion
        /\ flight' = [Changed(flight, c) EXCEPT !.version = @ + 1]
        /\ Answer(c, "done") /\ UNCHANGED pages
    BY <1>2 DEF Serve
  <2> QED
    BY <2>1, ChangedAllowed, ChangeKept
<1> QED
  BY <1>1, <1>2

LEMMA LoseKept ==
  ASSUME PageInv, NEW c \in calls, Lose(c)
  PROVE  PageInv'
<1>1. calls' = calls \ {c} /\ UNCHANGED <<flight, pages>>
  BY DEF Lose
<1>2. IsFiniteSet(calls') /\ Cardinality(calls') <= MaxCalls
  <2>1. IsFiniteSet(calls) /\ Cardinality(calls) \in Nat
        /\ Cardinality(calls) <= MaxCalls
    BY FS_CardinalityType DEF PageInv, CallsOK
  <2>2. /\ IsFiniteSet(calls \ {c})
        /\ Cardinality(calls \ {c}) = Cardinality(calls) - 1
    BY <2>1, FS_RemoveElement
  <2> QED
    BY <1>1, <2>1, <2>2, PageAssumption
<1>3. CallsOK'
  BY <1>1, <1>2 DEF PageInv, CallsOK
<1> QED
  BY <1>1, <1>3 DEF PageInv, RowOK, PagesOK

\* What an answer makes of the forms: they stay or start over.
LEMMA SettledIs ==
  ASSUME NEW c, NEW forms \in Filled
  PROVE  LET new == Settled(c, forms) IN
         /\ new \in Filled
         /\ new.editor \in {forms.editor, Unset}
         /\ new.out \in {forms.out, Unset}
         /\ \/ new.planning = forms.planning /\ new.release = forms.release
            \/ new.planning = Unset /\ new.release = Unset
         /\ new # Closed => forms # Closed
<1>1. PICK e : e = [forms EXCEPT !.editor = Unset]
  OBVIOUS
<1>2. PICK w : w = [forms EXCEPT !.warned = FALSE]
  OBVIOUS
<1>3. PICK o : o = [forms EXCEPT !.out = Unset]
  OBVIOUS
<1>4. PICK d : d = [forms EXCEPT !.dialog = Unset]
  OBVIOUS
<1>5. Settled(c, forms) \in {e, w, o, d, Closed, forms}
  BY <1>1, <1>2, <1>3, <1>4 DEF Settled
<1>6. /\ e \in Filled /\ e.editor = Unset /\ e.out = forms.out
      /\ e.planning = forms.planning /\ e.release = forms.release
      /\ forms = Closed => e = Closed
  BY <1>1, ClosedIs DEF Filled, Closed
<1>7. /\ w \in Filled /\ w.editor = forms.editor /\ w.out = forms.out
      /\ w.planning = forms.planning /\ w.release = forms.release
      /\ forms = Closed => w = Closed
  BY <1>2, ClosedIs DEF Filled, Closed
<1>8. /\ o \in Filled /\ o.editor = forms.editor /\ o.out = Unset
      /\ o.planning = forms.planning /\ o.release = forms.release
      /\ forms = Closed => o = Closed
  BY <1>3, ClosedIs DEF Filled, Closed
<1>9. /\ d \in Filled /\ d.editor = forms.editor /\ d.out = forms.out
      /\ d.planning = forms.planning /\ d.release = forms.release
      /\ forms = Closed => d = Closed
  BY <1>4, ClosedIs DEF Filled, Closed
<1> QED
  BY <1>5, <1>6, <1>7, <1>8, <1>9, ClosedIs

LEMMA DeliverKept ==
  ASSUME PageInv, NEW c \in calls, Deliver(c)
  PROVE  PageInv'
<1>1. PICK b : b = c.browser
  OBVIOUS
<1>2. b \in Browsers
  BY <1>1 DEF PageInv, CallsOK, Call
<1>3. PICK new : new = Settled(c, pages[b].forms)
  OBVIOUS
<1>4. /\ new \in Filled
      /\ new.editor \in {pages[b].forms.editor, Unset}
      /\ new.out \in {pages[b].forms.out, Unset}
      /\ \/ /\ new.planning = pages[b].forms.planning
            /\ new.release = pages[b].forms.release
         \/ new.planning = Unset /\ new.release = Unset
      /\ new # Closed => pages[b].forms # Closed
  BY <1>2, <1>3, FormsAt, SettledIs
<1>5. PICK fetch : fetch = IF c.answer = "done" \/ c.mutation \in Reloading
                           THEN Sent ELSE pages[b].fetch
  OBVIOUS
<1>6. fetch \in Fetching /\ fetch \in {Still, Sent, pages[b].fetch}
  BY <1>2, <1>5, FetchIs, PageAt
<1>7. PICK page : page = [pages[b] EXCEPT !.forms = new, !.fetch = fetch]
  OBVIOUS
<1>8. SetPage(b, page)
  <2>1. SetPage(b, [pages[b] EXCEPT
          !.forms = Settled(c, pages[b].forms),
          !.fetch = IF c.answer = "done" \/ c.mutation \in Reloading
                    THEN Sent ELSE pages[b].fetch])
    BY <1>1 DEF Deliver
  <2> QED
    BY <1>3, <1>5, <1>7, <2>1
<1>9. UNCHANGED flight /\ CallsOK'
  <2>1. calls' = calls \ {c} /\ UNCHANGED flight
    BY DEF Deliver
  <2>2. IsFiniteSet(calls) /\ Cardinality(calls) \in Nat
        /\ Cardinality(calls) <= MaxCalls
    BY FS_CardinalityType DEF PageInv, CallsOK
  <2>3. /\ IsFiniteSet(calls \ {c})
        /\ Cardinality(calls \ {c}) = Cardinality(calls) - 1
    BY <2>2, FS_RemoveElement
  <2>4. IsFiniteSet(calls') /\ Cardinality(calls') <= MaxCalls
    BY <2>1, <2>2, <2>3, PageAssumption
  <2> QED
    BY <2>1, <2>4 DEF PageInv, CallsOK
<1>10. new # Closed => pages[b].detail # Unset
  BY <1>2, <1>4, FormsAt
<1>11. /\ new.editor # Unset => new.editor = pages[b].detail.details
       /\ new.release # Unset => new.planning # Unset
       /\ new.out # Unset => pages[b].poll # Unset
       /\ pages[b].detail # Unset
            /\ pages[b].detail.version = flight.version =>
            /\ new.planning # Unset => new.planning = flight.details
            /\ new.release # Unset => new.release = flight.release
  BY <1>2, <1>4, FormsAt
<1> QED
  BY <1>2, <1>4, <1>6, <1>7, <1>8, <1>9, <1>10, <1>11, FormsKept

LEMMA ElsewhereKept ==
  ASSUME PageInv, ElsewhereNext
  PROVE  PageInv'
<1>1. ASSUME NEW row, Allowed(row), Change(row)
      PROVE  PageInv'
  BY <1>1, ChangeKept DEF Change
<1>2. CASE \E time \in OutTimes : Simulator(time)
  <2>1. PICK time \in OutTimes : Change([flight EXCEPT !.out = time])
    BY <1>2 DEF Simulator
  <2>2. time \in TimeValues
    BY DEF TimeValues
  <2> QED
    BY <1>1, <2>1, <2>2, TimedAllowed
<1>3. CASE \E details \in Details : EditElsewhere(details)
  BY <1>1, <1>3, EditedAllowed DEF EditElsewhere
<1>4. CASE PublishElsewhere
  BY <1>1, <1>4, PublishedAllowed DEF PublishElsewhere
<1>5. CASE \E move \in DOMAIN From : MoveElsewhere(move)
  <2>1. DOMAIN From = Moves
    BY DEF From, Moves
  <2> QED
    BY <1>1, <1>5, <2>1, MovedAllowed DEF MoveElsewhere
<1> QED
  BY <1>2, <1>3, <1>4, <1>5 DEF ElsewhereNext

LEMMA PageNextKept ==
  ASSUME PageInv, PageNext
  PROVE  PageInv'
BY ReadingKept, FillingKept, SendingKept, DialogKept, ServeKept, DeliverKept,
   LoseKept, ElsewhereKept DEF PageNext, ServeNext

-----------------------------------------------------------------------------
(* The theorems.                                                           *)

IInv == SimbriefInv /\ PageInv

LEMMA InitKept ==
  WorkspaceInit => IInv
BY SimbriefInit, PageInitOK DEF WorkspaceInit, IInv

LEMMA StepKept ==
  ASSUME IInv, [WorkspaceNext]_workspaceVars
  PROVE  IInv'
<1>1. ASSUME UNCHANGED pageVars
      PROVE  PageInv'
  BY <1>1 DEF IInv, PageInv, RowOK, PagesOK, CallsOK, pageVars
<1>2. ASSUME UNCHANGED vars
      PROVE  SimbriefInv'
  BY <1>2 DEF IInv, SimbriefInv, TypeOK, PlanOK, JobsOK, DispatchesOK,
              VerifiedHonest, Proved, vars
<1>3. CASE Planning
  BY <1>1, <1>3, SimbriefKept DEF IInv, Planning
<1>4. CASE Forms \/ Times
  BY <1>2, <1>4, PageNextKept DEF IInv, Forms, Times
<1>5. CASE UNCHANGED workspaceVars
  BY <1>1, <1>2, <1>5 DEF IInv, workspaceVars
<1> QED
  BY <1>3, <1>4, <1>5 DEF WorkspaceNext

\* The invariant everything else follows from.
THEOREM Invariance == WorkspaceSpec => []IInv
BY InitKept, StepKept, PTL DEF WorkspaceSpec

\* Rows, handlers, caches, forms and calls stay well formed, with any number
\* of them.
THEOREM TypeCorrect == WorkspaceSpec => []WorkspacesTypeOK
<1>1. IInv => WorkspacesTypeOK
  <2> SUFFICES ASSUME IInv
               PROVE  TypeOK /\ PageTypeOK
    BY DEF WorkspacesTypeOK
  <2>1. flight \in Row
    BY DEF IInv, PageInv, RowOK
  <2>2. ASSUME NEW b \in Browsers
        PROVE  /\ pages[b].detail \in Detail \cup {Unset}
               /\ pages[b].forms.editor \in Details \cup {Unset}
               /\ pages[b].forms.planning \in Details \cup {Unset}
               /\ pages[b].forms.release \in Revisions \cup {Unset}
               /\ pages[b].forms.dialog \in Dialogs \cup {Unset}
               /\ pages[b].forms # Closed => pages[b].detail # Unset
    BY <2>2, PageAt, FormsAt DEF IInv, Filled
  <2> QED
    BY <2>1, <2>2
       DEF IInv, SimbriefInv, PageInv, CallsOK, PageTypeOK, Row, TimeValues,
           Dialogs
<1> QED
  BY <1>1, Invariance, PTL

\* However often a pilot connects, disconnects and reconnects while plans
\* come back, a verified account is one that a plan of this pilot proved.
THEOREM VerificationHonest == WorkspaceSpec => []VerifiedHonest
<1>1. IInv => VerifiedHonest
  BY DEF IInv, SimbriefInv
<1> QED
  BY <1>1, Invariance, PTL

\* The version a page sends protects what its forms started from, with any
\* number of browsers, calls and changes: an edit or a release the API would
\* take was made by a person who had seen what it replaces.  Moves, which a
\* dialog may send with a newer version, are not meant.
THEOREM NobodyOverwritten == WorkspaceSpec => []NothingOverwritten
<1>1. IInv => NothingOverwritten
  <2> SUFFICES ASSUME IInv, NEW c \in calls, Current(c),
                      c.kind \in {"edit", "publish"}
               PROVE  c.based = Held(c)
    BY DEF NothingOverwritten
  <2>1. CallFresh(c, flight)
    BY DEF IInv, PageInv, CallsOK
  <2> QED
    BY <2>1 DEF CallFresh, Current, Held
<1> QED
  BY <1>1, Invariance, PTL

\* Whatever was edited, accepted or released while a plan was prepared, a
\* pilot is sent to SimBrief with the flight as it is and the newest request.
THEOREM LaunchesAreCurrent == WorkspaceSpec => LaunchIsCurrent
<1>1. ASSUME IInv, [WorkspaceNext]_workspaceVars
      PROVE  [CurrentLaunch]_vars
  <2>1. CASE Planning
    BY <1>1, <2>1, LaunchesCurrent DEF IInv, Planning
  <2>2. CASE UNCHANGED vars
    BY <2>2
  <2> QED
    BY <1>1, <2>1, <2>2 DEF WorkspaceNext, Forms, Times, workspaceVars
<1> QED
  BY <1>1, Invariance, PTL DEF WorkspaceSpec, LaunchIsCurrent, CurrentLaunch
=============================================================================
