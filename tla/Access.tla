-------------------------------- MODULE Access --------------------------------
(***************************************************************************)
(* Who is a member of the tenant, and as what (db/repositories/            *)
(* memberships.ts, domain/members, routes/members.ts,                      *)
(* routes/membership-applications.ts, middleware/auth.ts): first sign-in,  *)
(* applications and their review, role and status changes, removal,        *)
(* directory synchronisation, recovery of a tenant without administrator.  *)
(*                                                                         *)
(* There are two records of a user: the row of memberships, on which       *)
(* access depends, and the membership of the Clerk organization, which     *)
(* only calls over the network read and write.  A handler makes several    *)
(* such calls and statements; each is a step, so that anything may happen  *)
(* between two of them.  administrativelyUpdateMembership and              *)
(* recoverMembershipAsTenantAdmin run under the advisory lock of the       *)
(* tenant and are atomic.                                                  *)
(*                                                                         *)
(* The work of a member, which blocks some updates or moves to a           *)
(* replacement, is in FlightLifecycle; here such an update may be refused. *)
(* Names, callsigns and audit rows are left out, and so is the development *)
(* bypass of authentication.                                               *)
(***************************************************************************)
EXTENDS Naturals

CONSTANTS Users, Handlers,
          Founders,    \* administrators to begin with
          Known,       \* users the Clerk organization has to begin with
          Openings,    \* roles one may apply for, in the tenant's settings
          Patches,     \* changes administrators submit
          Null

Roles == {"pilot", "dispatcher", "admin"}
NoPatch == "unchanged"
AllPatches == [role : Roles \cup {NoPatch},
               status : {"active", "disabled", NoPatch}]

ASSUME AccessAssumption ==
  /\ Founders \subseteq Users /\ Known \subseteq Users
  /\ Openings \subseteq Roles \ {"admin"}
  /\ Patches \subseteq AllPatches
  /\ Null \notin Roles

VARIABLES
  members,   \* memberships by Clerk user
  clerk,     \* roles in the Clerk organization, Null for strangers
  handlers

vars == <<members, clerk, handlers>>

Absent == [status |-> "absent", role |-> Null]
Member == {Absent} \cup [status : {"active", "invited", "disabled"},
                         role : Roles]
ActiveAdmin(u) == members[u] = [status |-> "active", role |-> "admin"]
AnyAdmin == \E u \in Users : ActiveAdmin(u)

Idle == [pc |-> "idle"]
Handling ==
  [pc : {"provision", "recover", "submit", "look", "write", "commit", "entry",
         "listed", "restore", "rewrite", "removal", "remove"},
   op : {"sign in", "apply", "approve", "reject", "patch", "kick", "sync"},
   user : Users,
   patch : AllPatches,
   seen : Roles \cup {Null},  \* role of the row read, where it is used
   role : Roles \cup {Null},  \* of the token, the entry, or to give in Clerk
   listed : BOOLEAN]          \* Clerk answered that it has the user

-----------------------------------------------------------------------------
(* Handlers.                                                               *)

NoChange == [role |-> NoPatch, status |-> NoPatch]

Enter(w, op, pc, u, patch, role) ==
  /\ handlers[w] = Idle
  /\ handlers' = [handlers EXCEPT ![w] =
       [pc |-> pc, op |-> op, user |-> u, patch |-> patch,
        seen |-> IF op = "patch" /\ role # Null THEN members[u].role
                 ELSE Null,
        role |-> role, listed |-> FALSE]]

At(w, pc) == handlers[w] # Idle /\ handlers[w].pc = pc
Goto(w, pc) == handlers' = [handlers EXCEPT ![w].pc = pc]
Leave(w) == handlers' = [handlers EXCEPT ![w] = Idle]
User(w) == handlers[w].user
Doing(w, op) == handlers[w] # Idle /\ handlers[w].op = op

\* The instance dies, or Clerk fails a call: approval and role changes then
\* throw before their statement, removal and restoration stop silently.
Fail(w) ==
  /\ handlers[w] # Idle
  /\ Leave(w)
  /\ UNCHANGED <<members, clerk>>

\* An invitation is accepted, or the organization is edited in Clerk.
DirectoryChanges(u, role) ==
  /\ clerk[u] # role
  /\ clerk' = [clerk EXCEPT ![u] = role]
  /\ UNCHANGED <<members, handlers>>

-----------------------------------------------------------------------------
(* requireAuth: what a request does before its handler.                    *)

\* A sign-in with a token that may be older than what Clerk has now; only
\* those are followed that find no row or could recover the tenant.
SignIn(w, u) ==
  /\ clerk[u] # Null
  /\ \/ members[u] = Absent
     \/ clerk[u] = "admin" /\ ~ActiveAdmin(u)
  /\ Enter(w, "sign in",
           IF members[u] = Absent THEN "provision" ELSE "recover",
           u, NoChange, clerk[u])
  /\ UNCHANGED <<members, clerk>>

\* Fault: the conflicting row is updated.
Insert_Upsert(u, status, role) ==
  members' = [members EXCEPT ![u] = [status |-> status, role |-> role]]

\* insert ... on conflict do nothing
Insert(u, status, role) ==
  members' = IF members[u] = Absent
             THEN [members EXCEPT ![u] = [status |-> status, role |-> role]]
             ELSE members

Provision(w) ==
  /\ At(w, "provision")
  /\ Insert(User(w), "active",
       IF handlers[w].role = "dispatcher" THEN "dispatcher" ELSE "pilot")
  /\ IF handlers[w].role = "admin" /\ ~ActiveAdmin(User(w))
     THEN Goto(w, "recover") ELSE Leave(w)
  /\ UNCHANGED clerk

\* Fault: any administrator of the Clerk organization is taken.
Recoverable_Always == TRUE

\* What recoverMembershipAsTenantAdmin asks of the tenant.
Recoverable == ~AnyAdmin

Recover(w) ==
  /\ At(w, "recover")
  /\ members' = IF Recoverable
       THEN [members EXCEPT ![User(w)] =
               [status |-> "active", role |-> "admin"]]
       ELSE members
  /\ Leave(w)
  /\ UNCHANGED clerk

-----------------------------------------------------------------------------
(* Applications.                                                           *)

BeginApply(w, u, role) ==
  /\ role \in Openings
  /\ members[u].status # "active"
  /\ Enter(w, "apply", "submit", u, NoChange, role)
  /\ UNCHANGED <<members, clerk>>

\* The time between is that of verifiedClerkDisplayName.
Submit(w) ==
  /\ At(w, "submit")
  /\ members' = IF members[User(w)].status = "active" THEN members
       ELSE [members EXCEPT ![User(w)] =
               [status |-> "invited", role |-> handlers[w].role]]
  /\ Leave(w)
  /\ UNCHANGED clerk

Cancel(u) ==
  /\ members[u].status = "invited"
  /\ members' = [members EXCEPT ![u].status = "disabled"]
  /\ UNCHANGED <<clerk, handlers>>

\* The administrator approves for the role asked for, or for another; a row
\* that says admin by now is taken for a pilot's.
BeginApprove(w, u, role) ==
  /\ AnyAdmin
  /\ members[u].status = "invited"
  /\ role \in {"pilot", "dispatcher"}
  /\ Enter(w, "approve", "look", u,
           [role |-> role, status |-> "active"], role)
  /\ UNCHANGED <<members, clerk>>

BeginReject(w, u) ==
  /\ AnyAdmin
  /\ members[u].status = "invited"
  /\ Enter(w, "reject", "commit", u,
           [role |-> NoPatch, status |-> "disabled"], Null)
  /\ UNCHANGED <<members, clerk>>

-----------------------------------------------------------------------------
(* Changes by administrators.                                              *)

\* Fault: a field that is not in the patch is written too.
After_EveryField(m, patch) ==
  [role |-> patch.role,
   status |-> IF patch.status = NoPatch THEN m.status ELSE patch.status]

After(m, patch) ==
  [role |-> IF patch.role = NoPatch THEN m.role ELSE patch.role,
   status |-> IF patch.status = NoPatch THEN m.status ELSE patch.status]

\* Clerk is told first when the change gives access or another role.
BeginPatch(w, u, patch) ==
  /\ AnyAdmin
  /\ members[u].status \in {"active", "disabled"}
  /\ LET next == After(members[u], patch)
         sync == next.status = "active" /\ next # members[u]
     IN Enter(w, "patch", IF sync THEN "look" ELSE "commit", u, patch,
              IF sync THEN next.role ELSE Null)
  /\ UNCHANGED <<members, clerk>>

BeginKick(w, u) ==
  /\ AnyAdmin
  /\ members[u] # Absent
  /\ Enter(w, "kick",
           IF members[u].status = "disabled" THEN "removal" ELSE "commit",
           u, [role |-> NoPatch, status |-> "disabled"], Null)
  /\ UNCHANGED <<members, clerk>>

\* ensureClerkMembership and removeClerkMembership list before they write.
LookUp(w) ==
  /\ \/ At(w, "look") /\ handlers' = [handlers EXCEPT
            ![w].pc = "write", ![w].listed = clerk[User(w)] # Null]
     \/ At(w, "restore") /\ handlers' = [handlers EXCEPT
            ![w].pc = "rewrite", ![w].listed = clerk[User(w)] # Null]
     \/ At(w, "removal") /\ handlers' = [handlers EXCEPT
            ![w].pc = "remove", ![w].listed = clerk[User(w)] # Null]
  /\ UNCHANGED <<members, clerk>>

\* Clerk updates a membership it has and creates one it has not, or fails.
ClerkWrite(w) ==
  /\ At(w, "write") \/ At(w, "rewrite")
  /\ handlers[w].listed = (clerk[User(w)] # Null)
  /\ clerk' = [clerk EXCEPT ![User(w)] = handlers[w].role]
  /\ IF At(w, "write")
     THEN handlers' = [handlers EXCEPT ![w].pc = "commit",
                                       ![w].listed = FALSE]
     ELSE Leave(w)
  /\ UNCHANGED members

ClerkRemove(w) ==
  /\ At(w, "remove")
  /\ clerk' = IF handlers[w].listed
              THEN [clerk EXCEPT ![User(w)] = Null] ELSE clerk
  /\ Leave(w)
  /\ UNCHANGED members

\* Only reviews and the directory say which status the row must still have.
Expected(w) ==
  IF Doing(w, "approve") \/ Doing(w, "reject")
    THEN members[User(w)].status = "invited"
  ELSE IF Doing(w, "sync") THEN members[User(w)].status = "active"
  ELSE TRUE

\* Fault: an administrator who is disabled or has only applied counts.
LastAdmin_AnyStatus(u, next) ==
  /\ ActiveAdmin(u)
  /\ next # members[u]
  /\ \A other \in Users \ {u} : members[other].role # "admin"

\* The active administrators but one, when this would be the last to go.
LastAdmin(u, next) ==
  /\ ActiveAdmin(u)
  /\ next # members[u]
  /\ \A other \in Users \ {u} : ~ActiveAdmin(other)

\* administrativelyUpdateMembership
Update(w) ==
  LET u == User(w)
      next == After(members[u], handlers[w].patch) IN
  /\ Expected(w)
  /\ ~LastAdmin(u, next)
  /\ members' = [members EXCEPT ![u] = next]

\* It finds no such row or the last administrator; open work may be in the
\* way of an update that takes a pilot away, a callsign of another.
Refused(w) ==
  LET u == User(w)
      patch == handlers[w].patch IN
  \/ ~Expected(w)
  \/ LastAdmin(u, After(members[u], patch))
  \/ patch.status = "disabled"
  \/ members[u].role = "pilot" /\ patch.role \notin {"pilot", NoPatch}
  \/ Doing(w, "patch")

Commit(w) ==
  /\ At(w, "commit")
  /\ Update(w)
  /\ IF Doing(w, "kick") THEN Goto(w, "removal") ELSE Leave(w)
  /\ UNCHANGED clerk

\* Where Clerk was told before, it is told the role read in the beginning.
Refuse(w) ==
  /\ At(w, "commit")
  /\ Refused(w)
  /\ IF Doing(w, "patch") /\ handlers[w].role # Null
     THEN handlers' = [handlers EXCEPT
            ![w].pc = "restore", ![w].role = handlers[w].seen]
     ELSE Leave(w)
  /\ UNCHANGED <<members, clerk>>

-----------------------------------------------------------------------------
(* syncMembersFromDirectory: one handler stands for one entry of a page,   *)
(* which may be long out of date when its turn comes.                      *)

LoadEntry(w, u) ==
  /\ AnyAdmin
  /\ clerk[u] # Null
  /\ Enter(w, "sync", "entry", u,
           [role |-> clerk[u], status |-> NoPatch], clerk[u])
  /\ UNCHANGED <<members, clerk>>

\* findMembership; pending and disabled members are left to review.
FindEntry(w) ==
  /\ At(w, "entry")
  /\ IF \/ members[User(w)] = Absent
        \/ /\ members[User(w)].status = "active"
           /\ members[User(w)].role # handlers[w].role
     THEN handlers' = [handlers EXCEPT ![w].pc = "listed",
                                       ![w].seen = members[User(w)].role]
     ELSE Leave(w)
  /\ UNCHANGED <<members, clerk>>

\* createDirectoryMembershipWithAudit; another insert first: look again.
CreateEntry(w) ==
  /\ At(w, "listed") /\ handlers[w].seen = Null
  /\ Insert(User(w), "active", handlers[w].role)
  /\ IF members[User(w)] = Absent THEN Leave(w) ELSE Goto(w, "entry")
  /\ UNCHANGED clerk

UpdateEntry(w) ==
  /\ At(w, "listed") /\ handlers[w].seen # Null
  /\ \/ Update(w)
     \/ Refused(w) /\ UNCHANGED members
  /\ Leave(w)
  /\ UNCHANGED clerk

-----------------------------------------------------------------------------
Init ==
  /\ members = [u \in Users |-> IF u \in Founders
                  THEN [status |-> "active", role |-> "admin"] ELSE Absent]
  /\ clerk \in [Users -> Roles \cup {Null}]
  /\ \A u \in Users : clerk[u] # Null <=> u \in Known
  /\ handlers = [w \in Handlers |-> Idle]

SignInNext ==
  \E w \in Handlers :
    (\E u \in Users : SignIn(w, u)) \/ Provision(w) \/ Recover(w)

ApplicationNext ==
  \/ \E u \in Users : Cancel(u)
  \/ \E w \in Handlers :
       \/ \E u \in Users, role \in Roles :
            BeginApply(w, u, role) \/ BeginApprove(w, u, role)
       \/ \E u \in Users : BeginReject(w, u)
       \/ Submit(w)

AdministrationNext ==
  \E w \in Handlers :
    \/ \E u \in Users :
         \/ \E patch \in Patches : BeginPatch(w, u, patch)
         \/ BeginKick(w, u)
         \/ LoadEntry(w, u)
    \/ LookUp(w) \/ ClerkWrite(w) \/ ClerkRemove(w)
    \/ Commit(w) \/ Refuse(w)
    \/ FindEntry(w) \/ CreateEntry(w) \/ UpdateEntry(w)

Next ==
  \/ SignInNext \/ ApplicationNext \/ AdministrationNext
  \/ \E w \in Handlers : Fail(w)
  \/ \E u \in Users, role \in Roles \cup {Null} : DirectoryChanges(u, role)

Spec == Init /\ [][Next]_vars

-----------------------------------------------------------------------------
\* Rows and handlers are well formed.
TypeOK ==
  /\ members \in [Users -> Member]
  /\ clerk \in [Users -> Roles \cup {Null}]
  /\ handlers \in [Handlers -> {Idle} \cup Handling]

\* A tenant that has an active administrator keeps one, whatever changes,
\* removals and synchronisations overlap ("will not demote or disable the
\* last active application administrator").
AdminRemains == [][AnyAdmin => AnyAdmin']_vars

\* Somebody whose membership is pending, rejected, withdrawn or removed gets
\* in only by an administrator's approval of a pending application or by an
\* administrator's change, or as the recovered administrator of a tenant
\* without any: not by a sign-in or a synchronisation that began when there
\* was no row yet, and not by an approval that was overtaken by a rejection.
AdmittedByDecision ==
  [][\A u \in Users :
       members[u].status \in {"invited", "disabled"}
         /\ members'[u].status = "active"
       => \/ \E w \in Handlers :
               /\ At(w, "commit") /\ User(w) = u /\ handlers'[w] = Idle
               /\ \/ Doing(w, "patch")
                  \/ Doing(w, "approve") /\ members[u].status = "invited"
          \/ ~AnyAdmin]_vars

\* While the tenant has an administrator, others become one only by an
\* administrator's change or by a synchronisation an administrator started;
\* a token that says so is not enough.
AdminsMadeByAdmins ==
  [][\A u \in Users :
       AnyAdmin /\ ~ActiveAdmin(u) /\ ActiveAdmin(u)'
       => \E w \in Handlers :
            /\ Doing(w, "patch") \/ Doing(w, "sync")
            /\ User(w) = u /\ handlers'[w] = Idle]_vars
=============================================================================
