--------------------------- MODULE SubjectRequests ---------------------------
(***************************************************************************)
(* Verified requests about one member (domain/privacy/service.ts,          *)
(* db/repositories/privacy.ts): administrators create, verify, approve and *)
(* process them; operators close the tasks at external providers that      *)
(* exports, corrections and destructions leave; legal holds block          *)
(* destruction.                                                            *)
(*                                                                         *)
(* A handler reads and writes in several statements and each is a step, so *)
(* that anything happens in between and an instance may die in between.    *)
(* Destruction and the statements on holds begin by taking the privacy     *)
(* lock of the tenant.                                                     *)
(*                                                                         *)
(* What is stored about the member is two parts: identity, the columns of  *)
(* memberships with the flights and requests of the member, which go or    *)
(* are redacted together; messages, the ACARS messages and SimBrief        *)
(* dispatches the member wrote.  Redacting and deleting are the same here. *)
(* The providers are Clerk and another; Hoppie's task of a destruction is  *)
(* closed from the start and left out, as are audit rows, the texts, and   *)
(* who acts: that the administrator who approves is not the one who made   *)
(* the request is a condition of one statement and of the table.           *)
(* Completed tasks and those that do not apply are both closed.  How holds *)
(* come and go is in Retention; here one is placed or lifted.  No          *)
(* statement writes "processing".                                          *)
(***************************************************************************)
EXTENDS Naturals, FiniteSets

CONSTANTS Requests, Handlers,
          KindsOf      \* the kinds each request may be of

Destructive == {"anonymization", "erasure"}
AllKinds == {"export", "correction", "restriction", "objection"}
            \cup Destructive
Providers == {"clerk", "other"}
Parts == {"identity", "messages"}

ASSUME RequestAssumption == KindsOf \in [Requests -> SUBSET AllKinds]

Status == {"absent", "pending_verification", "pending_approval", "approved",
           "awaiting_external", "blocked", "completed", "cancelled"}
Request == [kind : AllKinds, status : Status,
            subject : BOOLEAN]     \* the member, or nobody: tenant or erased
Open == {"pending", "failed"}
TaskStatus == {"none", "closed"} \cup Open

VARIABLES
  requests,  \* privacy_subject_requests
  tasks,     \* privacy_external_tasks by request and provider
  held,      \* a pending or active hold concerns the member
  member,    \* the membership: stored, fit (disabled and no administrator)
  work,      \* the member has open flights or requests
  data,      \* the parts stored about the member
  controls,  \* privacy_subject_controls
  handlers

vars == <<requests, tasks, held, member, work, data, controls,
          handlers>>
world == <<held, member, work>>

Member == [stored : BOOLEAN, fit : BOOLEAN]

Idle == [pc |-> "idle"]
Handling == [pc : {"verified", "approved", "correct", "correcting", "corrected",
                   "control", "look", "held", "listing", "destroy", "export",
                   "exported", "complete", "look again", "retry"},
             req : Requests,
             fit : BOOLEAN,        \* the member as loaded
             final : {"completed", "awaiting_external"}]

-----------------------------------------------------------------------------
(* The rest of the system: administration of members, flights, time.       *)

\* An administrator disables or promotes the member, or brings it back.
ChangeMember ==
  /\ member.stored
  /\ member' = [member EXCEPT !.fit = ~@]
  /\ work' = IF member'.fit THEN FALSE ELSE work
  /\ UNCHANGED <<requests, tasks, held, data, controls, handlers>>

\* Work comes and goes; a handler that checked the pilot before may still
\* offer a flight to a disabled one.
ChangeWork ==
  /\ member.stored
  /\ work' = ~work
  /\ UNCHANGED <<requests, tasks, held, member, data, controls, handlers>>

\* A hold is created; the last one is released or expires.
ChangeHold ==
  /\ held' = ~held
  /\ UNCHANGED <<requests, tasks, member, work, data, controls, handlers>>

-----------------------------------------------------------------------------
(* Statements on requests.                                                 *)

CreateRequest(q, kind, scope) ==
  /\ requests[q].status = "absent" /\ kind \in KindsOf[q]
  /\ scope = "tenant" => kind = "export"
  /\ scope = "member" => member.stored
  /\ requests' = [requests EXCEPT ![q] =
       [kind |-> kind, status |-> "pending_verification",
        subject |-> scope = "member"]]
  /\ UNCHANGED <<tasks, data, controls, handlers, world>>

\* The handler of verification or approval goes on to create tasks.
Enter(w, pc, q, fit) ==
  /\ handlers[w] = Idle
  /\ handlers' = [handlers EXCEPT ![w] =
       [pc |-> pc, req |-> q, fit |-> fit, final |-> "completed"]]

Verify(w, q) ==
  /\ requests[q].status = "pending_verification"
  /\ requests' = [requests EXCEPT ![q].status =
       IF requests[q].kind \in Destructive THEN "pending_approval"
       ELSE "approved"]
  /\ IF requests[q].kind = "export" THEN Enter(w, "verified", q, FALSE)
     ELSE UNCHANGED handlers
  /\ UNCHANGED <<tasks, data, controls, world>>

Approve(w, q) ==
  /\ requests[q].status = "pending_approval"
  /\ requests' = [requests EXCEPT ![q].status = "approved"]
  /\ Enter(w, "approved", q, FALSE)
  /\ UNCHANGED <<tasks, data, controls, world>>

Goto(w, pc) == handlers' = [handlers EXCEPT ![w].pc = pc]
Leave(w) == handlers' = [handlers EXCEPT ![w] = Idle]
At(w, pc) == handlers[w] # Idle /\ handlers[w].pc = pc
Req(w) == handlers[w].req
Kind(w) == requests[Req(w)].kind

\* createExternalRequestTasks: on conflict do nothing.
AddTasks(q, providers) ==
  tasks' = [tasks EXCEPT ![q] = [p \in Providers |->
              IF p \in providers /\ @[p] = "none" THEN "pending" ELSE @[p]]]

\* ensureExportExternalTasks, ensureDestructiveExternalTasks
EnsureTasks(w) ==
  /\ At(w, "verified") \/ At(w, "approved")
  /\ AddTasks(Req(w), Providers)
  /\ Leave(w)
  /\ UNCHANGED <<requests, data, controls, world>>

-----------------------------------------------------------------------------
(* processSubjectRequest and exportPrivacyRequestPage.                     *)

\* An approved request about a member, and the member, are loaded.
Begin(w, q) ==
  /\ requests[q].status = "approved" /\ requests[q].subject /\ member.stored
  /\ requests[q].kind # "export"
  /\ Enter(w, CASE requests[q].kind = "correction" -> "correct"
                [] requests[q].kind \in Destructive -> "look"
                [] OTHER -> "control",
           q, member.fit)
  /\ UNCHANGED <<requests, tasks, data, controls, world>>

\* correctMembershipForPrivacy writes the name whatever became of the request.
Correct(w) ==
  /\ At(w, "correct")
  /\ IF member.stored
     THEN /\ data' = data \cup {"identity"}
          /\ Goto(w, "correcting")
     ELSE /\ Leave(w)
          /\ UNCHANGED data
  /\ UNCHANGED <<requests, tasks, controls, world>>

\* With or without a correction at Clerk.
AddClerkTask(w) ==
  /\ At(w, "correcting")
  /\ AddTasks(Req(w), {"clerk"}) \/ UNCHANGED tasks
  /\ Goto(w, "corrected")
  /\ UNCHANGED <<requests, data, controls, world>>

\* upsertSubjectRestriction, upsertSubjectObjection; the row needs a member.
Control(w) ==
  /\ At(w, "control")
  /\ IF member.stored
     THEN /\ controls' = controls \cup {Kind(w)}
          /\ Goto(w, "complete")
     ELSE /\ Leave(w)
          /\ UNCHANGED controls
  /\ UNCHANGED <<requests, tasks, data, world>>

OpenTasks(q) == {p \in Providers : tasks[q][p] \in Open}
PendingTasks(q) == {p \in Providers : tasks[q][p] = "pending"}

List(w, open, pc) ==
  /\ handlers' = [handlers EXCEPT ![w].pc = pc, ![w].final =
       IF open = {} THEN "completed" ELSE "awaiting_external"]
  /\ UNCHANGED <<requests, tasks, data, controls, world>>

\* A correction waits for pending tasks, not for failed ones.
ListCorrection(w) ==
  At(w, "corrected") /\ List(w, PendingTasks(Req(w)), "complete")

\* completePrivacyRequest
\* Fault: a request is completed whatever became of it.
Completable_Always(q) == TRUE

Completable(q) == requests[q].status = "approved"

Complete(w) ==
  /\ At(w, "complete")
  /\ requests' = IF Completable(Req(w))
                 THEN [requests EXCEPT ![Req(w)].status = handlers[w].final]
                 ELSE requests
  /\ Leave(w)
  /\ UNCHANGED <<tasks, data, controls, world>>

\* The service looks for a hold before anything else.
FindHold(w) ==
  /\ At(w, "look")
  /\ Goto(w, IF held THEN "held" ELSE "listing")
  /\ UNCHANGED <<requests, tasks, data, controls, world>>

MarkBlocked(w) ==
  /\ At(w, "held")
  /\ requests' = IF Completable(Req(w))
                 THEN [requests EXCEPT ![Req(w)].status = "blocked"]
                 ELSE requests
  /\ Leave(w)
  /\ UNCHANGED <<tasks, data, controls, world>>

ClerkDone(q) == tasks[q]["clerk"] = "closed"

\* The member as loaded is disabled and no administrator, the task at Clerk is
\* closed.
ListDestruction(w) ==
  /\ At(w, "listing")
  /\ \/ /\ handlers[w].fit /\ ClerkDone(Req(w))
        /\ List(w, OpenTasks(Req(w)), "destroy")
     \/ /\ ~(handlers[w].fit /\ ClerkDone(Req(w)))
        /\ Leave(w)
        /\ UNCHANGED <<requests, tasks, data, controls, world>>

\* Fault: the hold found absent before is not looked for again.
Subject_NoHold(q) == member.stored /\ requests[q].status = "approved"

\* The rows the statement begins with.
Subject(q) == member.stored /\ requests[q].status = "approved" /\ ~held

Cancellable == {"pending_verification", "pending_approval", "approved"}

\* Other requests about the member are cancelled, their tasks need nothing.
Cancelled(q) ==
  [r \in Requests |->
     IF r # q /\ requests[r].subject /\ requests[r].status \in Cancellable
     THEN [requests[r] EXCEPT !.status = "cancelled"] ELSE requests[r]]

\* Fault: their tasks take the status of the requests.
Unneeded_Cancelled(q) ==
  [r \in Requests |->
     IF r # q /\ requests[r].subject
     THEN [p \in Providers |->
             IF tasks[r][p] \in Open THEN "cancelled" ELSE tasks[r][p]]
     ELSE tasks[r]]

Unneeded(q) ==
  [r \in Requests |->
     IF r # q /\ requests[r].subject
     THEN [p \in Providers |->
             IF tasks[r][p] \in Open THEN "closed" ELSE tasks[r][p]]
     ELSE tasks[r]]

\* open_work keeps the rows of the member, and the member, from going.
Destroyable(q) == Subject(q) /\ ~work

\* Messages are tied neither to the rows the statement begins with nor to open
\* work, and go in any case.
DataLeft(q) == IF Destroyable(q) THEN {} ELSE data \ {"messages"}

\* The request takes the status its handler has worked out.
Finished(w, others) ==
  [others EXCEPT ![Req(w)].status =
     IF Destroyable(Req(w)) THEN handlers[w].final ELSE @]

\* anonymizePrivacySubject
Anonymize(w) ==
  LET q == Req(w) IN
  /\ At(w, "destroy") /\ Kind(w) = "anonymization"
  /\ data' = DataLeft(q)
  /\ tasks' = IF Subject(q) THEN Unneeded(q) ELSE tasks
  /\ requests' = Finished(w, IF Subject(q) THEN Cancelled(q) ELSE requests)
  /\ member' = IF Destroyable(q) THEN [stored |-> TRUE, fit |-> TRUE]
               ELSE member
  /\ Leave(w)
  /\ UNCHANGED <<controls, held, work>>

\* Every request about the member that is left refers to nobody.
Forgotten(rs) == [r \in Requests |-> [rs[r] EXCEPT !.subject = FALSE]]

\* erasePrivacySubject: the other requests are cancelled in any case.
Erase(w) ==
  LET q == Req(w)
      finished == Finished(w, Cancelled(q))
  IN
  /\ At(w, "destroy") /\ Kind(w) = "erasure"
  /\ data' = DataLeft(q)
  /\ tasks' = IF Subject(q) THEN Unneeded(q) ELSE tasks
  /\ requests' = IF Destroyable(q) THEN Forgotten(finished) ELSE finished
  /\ member' = IF Destroyable(q) THEN [stored |-> FALSE, fit |-> TRUE]
               ELSE member
  /\ controls' = IF Destroyable(q) THEN {} ELSE controls
  /\ Leave(w)
  /\ UNCHANGED <<held, work>>

\* The first or a later page of an export.
BeginExport(w, q) ==
  /\ requests[q].kind = "export"
  /\ requests[q].status \in {"approved", "awaiting_external", "completed"}
  /\ Enter(w, IF requests[q].status = "approved" THEN "export" ELSE "verified",
           q, FALSE)
  /\ UNCHANGED <<requests, tasks, data, controls, world>>

\* The tasks are created if they are not there; on the last page of an approved
\* export they are listed.
EnsureExport(w) ==
  /\ At(w, "export")
  /\ AddTasks(Req(w), Providers)
  /\ Goto(w, "exported") \/ Leave(w)
  /\ UNCHANGED <<requests, data, controls, world>>

ListExport(w) == At(w, "exported") /\ List(w, OpenTasks(Req(w)), "complete")

\* retrySubjectRequest
BeginRetry(w, q) ==
  /\ requests[q].status = "blocked" /\ requests[q].subject
  /\ Enter(w, "look again", q, FALSE)
  /\ UNCHANGED <<requests, tasks, data, controls, world>>

LookAgain(w) ==
  /\ At(w, "look again")
  /\ IF held THEN Leave(w) ELSE Goto(w, "retry")
  /\ UNCHANGED <<requests, tasks, data, controls, world>>

Retry(w) ==
  /\ At(w, "retry")
  /\ requests' = IF requests[Req(w)].status = "blocked"
                 THEN [requests EXCEPT ![Req(w)].status = "approved"]
                 ELSE requests
  /\ Leave(w)
  /\ UNCHANGED <<tasks, data, controls, world>>

\* The instance dies.
Crash(w) ==
  /\ handlers[w] # Idle
  /\ Leave(w)
  /\ UNCHANGED <<requests, tasks, data, controls, world>>

-----------------------------------------------------------------------------
(* completeExternalTask                                                    *)

\* Fault: a failed task counts as closed.
Remaining_Pending(q, p) == PendingTasks(q) \ {p}

Remaining(q, p) == OpenTasks(q) \ {p}

\* The last task to be closed completes a request that waits.  The statement
\* takes no lock: it may miss, in its snapshot, that another update closes the
\* only other task or that the request begins to wait, and leave the request.
UpdateTask(q, p, to) ==
  /\ tasks[q][p] \in Open
  /\ tasks' = [tasks EXCEPT ![q][p] = to]
  /\ \/ /\ requests[q].status = "awaiting_external"
        /\ to = "closed" /\ Remaining(q, p) = {}
        /\ requests' = [requests EXCEPT ![q].status = "completed"]
     \/ UNCHANGED requests
  /\ UNCHANGED <<data, controls, handlers, world>>

-----------------------------------------------------------------------------
NoRequest == [kind |-> "export", status |-> "absent", subject |-> FALSE]

Init ==
  /\ requests = [q \in Requests |-> NoRequest]
  /\ tasks = [q \in Requests |-> [p \in Providers |-> "none"]]
  /\ held = FALSE
  /\ member = [stored |-> TRUE, fit |-> FALSE]
  /\ work = FALSE
  /\ data = Parts
  /\ controls = {}
  /\ handlers = [w \in Handlers |-> Idle]

Make == \E q \in Requests, kind \in AllKinds, scope \in {"member", "tenant"} :
          CreateRequest(q, kind, scope)

Start(w) == \E q \in Requests :
  \/ Verify(w, q) \/ Approve(w, q)
  \/ Begin(w, q) \/ BeginExport(w, q) \/ BeginRetry(w, q)

Proceed(w) ==
  \/ EnsureTasks(w) \/ Correct(w) \/ AddClerkTask(w) \/ Control(w)
  \/ ListCorrection(w) \/ Complete(w) \/ FindHold(w) \/ MarkBlocked(w)
  \/ ListDestruction(w) \/ Anonymize(w) \/ Erase(w)
  \/ EnsureExport(w) \/ ListExport(w)
  \/ LookAgain(w) \/ Retry(w)

Operate == \E q \in Requests, p \in Providers, to \in {"failed", "closed"} :
  UpdateTask(q, p, to)

Next ==
  \/ ChangeMember \/ ChangeWork \/ ChangeHold \/ Make \/ Operate
  \/ \E w \in Handlers : Start(w) \/ Proceed(w) \/ Crash(w)

Spec == Init /\ [][Next]_vars

-----------------------------------------------------------------------------
(* Properties.                                                             *)

TypeOK ==
  /\ requests \in [Requests -> Request]
  /\ tasks \in [Requests -> [Providers -> TaskStatus]]
  /\ held \in BOOLEAN
  /\ member \in Member
  /\ work \in BOOLEAN
  /\ data \subseteq Parts
  /\ controls \subseteq {"restriction", "objection"}
  /\ handlers \in [Handlers -> Handling \cup {Idle}]

\* The identity of a member goes only by an approved request to destroy it,
\* after Clerk's task is closed, with no hold and no open work at that moment,
\* whatever was placed, cancelled, retried or processed twice since the service
\* looked (processSubjectRequest, anonymizePrivacySubject,
\* erasePrivacySubject).
DestructionByTheBook ==
  [][ "identity" \in data \ data' =>
        /\ ~held /\ ~work
        /\ \E q \in Requests :
             /\ requests[q].kind \in Destructive
             /\ requests[q].status = "approved"
             /\ ClerkDone(q) ]_vars

\* A completed export or destruction has no task open, and none missing: two
\* operators, an export page and a destruction may all be the last
\* (completeExternalTask, exportPrivacyRequestPage, processSubjectRequest).
CompletedMeansClosed ==
  \A q \in Requests :
    requests[q].status = "completed"
      /\ requests[q].kind \in Destructive \cup {"export"}
    => \A p \in Providers : tasks[q][p] = "closed"

\* A request that was completed or cancelled stays so under handlers that
\* loaded it before, and one that waits for providers only completes
\* (completePrivacyRequest, markPrivacyRequestBlocked,
\* retryBlockedPrivacyRequest).
RequestsStaySettled ==
  [][ \A q \in Requests :
        LET before == requests[q].status
            after == requests'[q].status IN
        /\ before \in {"completed", "cancelled"} => after = before
        /\ before = "awaiting_external" =>
             after \in {before, "completed"} ]_vars

\* Nothing stored about the member goes while a hold or open work blocks it:
\* "Both are conservative: open work or a concurrent change blocks the
\* operation" (docs/privacy-operations.md).
BlockedMeansUntouched ==
  [][ data \ data' # {} => ~held /\ ~work ]_vars
==============================================================================
