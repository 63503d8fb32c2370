---------------------------- MODULE AccessProofs ----------------------------
(***************************************************************************)
(* What is proved of Access for every number of users and concurrent       *)
(* handlers, and for any roles one may apply for and any changes           *)
(* administrators submit.                                                  *)
(*                                                                         *)
(* The statements protect the rows: an insert touches no row that exists,  *)
(* a review or a synchronisation none whose status has changed, an update  *)
(* not the last administrator.  HandlersOK is what they need to know of    *)
(* the handler: who reviews, removes or synchronises carries the change    *)
(* of a reviewer, of a removal or of the directory.                        *)
(***************************************************************************)
EXTENDS Access, TLAPS

\* What is known of a handler under way.
HandlerOK(h) ==
  /\ h.pc \in {"provision", "recover"} => h.role \in Roles
  /\ h.pc = "submit" => h.role \in Openings
  /\ h.pc \in {"look", "write", "commit", "restore", "rewrite", "removal",
               "remove"} =>
       /\ members[h.user] # Absent
       /\ h.op \in {"approve", "reject", "patch", "kick"}
  /\ h.pc \in {"entry", "listed"} =>
       /\ h.op = "sync" /\ h.role \in Roles
       /\ h.patch = [role |-> h.role, status |-> NoPatch]
  /\ h.pc = "listed" /\ h.seen # Null => members[h.user] # Absent
  /\ h.op = "approve" => h.patch.role \in {"pilot", "dispatcher"}
  /\ h.op \in {"reject", "kick"} =>
       h.patch = [role |-> NoPatch, status |-> "disabled"]

HandlersOK == \A w \in Handlers : handlers[w] # Idle => HandlerOK(handlers[w])

IInv == TypeOK /\ HandlersOK

\* No row is ever deleted.
RowsStay ==
  /\ members' \in [Users -> Member]
  /\ \A u \in Users : members[u] # Absent => members'[u] # Absent

-----------------------------------------------------------------------------
(* Rows and handlers.                                                      *)

LEMMA IdleIsNoHandler == Idle \notin Handling
BY DEF Idle, Handling

LEMMA MemberFields ==
  ASSUME TypeOK, NEW u \in Users
  PROVE  /\ members[u] # Absent => /\ members[u].role \in Roles
                                   /\ members[u].status \in
                                        {"active", "invited", "disabled"}
         /\ members[u] = Absent => /\ members[u].role = Null
                                   /\ members[u].status = "absent"
BY DEF TypeOK, Member, Absent

LEMMA HandlerFields ==
  ASSUME TypeOK, NEW w \in Handlers, handlers[w] # Idle
  PROVE  handlers[w] \in Handling
BY DEF TypeOK

\* A step of one handler keeps the invariant when it leaves the handler in
\* order and takes no row away.
LEMMA HandlerStep ==
  ASSUME IInv, NEW w \in Handlers, NEW h \in Handling \cup {Idle},
         handlers' = [handlers EXCEPT ![w] = h],
         h # Idle => HandlerOK(h)',
         RowsStay, clerk' \in [Users -> Roles \cup {Null}]
  PROVE  IInv'
<1>1. TypeOK'
  BY DEF IInv, TypeOK, RowsStay
<1>2. HandlersOK'
  <2> SUFFICES ASSUME NEW v \in Handlers, handlers'[v] # Idle
               PROVE  HandlerOK(handlers[v])'
    BY DEF HandlersOK
  <2>1. CASE v = w
    BY <2>1 DEF IInv, TypeOK
  <2>2. CASE v # w
    <3>1. /\ handlers'[v] = handlers[v]
          /\ handlers[v] \in Handling
          /\ HandlerOK(handlers[v])
      BY <2>2 DEF IInv, TypeOK, HandlersOK
    <3>2. handlers[v].user \in Users
      BY <3>1 DEF Handling
    <3> QED BY <3>1, <3>2 DEF HandlerOK, RowsStay
  <2> QED BY <2>1, <2>2
<1> QED BY <1>1, <1>2 DEF IInv

LEMMA Unmoved ==
  ASSUME IInv, UNCHANGED members
  PROVE  RowsStay /\ (AnyAdmin => AnyAdmin')
BY DEF IInv, TypeOK, RowsStay, AnyAdmin, ActiveAdmin

\* A handler that begins, goes on to another statement, or ends.
LEMMA EnterStep ==
  ASSUME IInv, NEW w \in Handlers, NEW u \in Users,
         NEW op \in {"sign in", "apply", "approve", "reject", "patch", "kick",
                     "sync"},
         NEW pc \in {"provision", "recover", "submit", "look", "commit",
                     "entry", "removal"},
         NEW patch \in AllPatches, NEW role \in Roles \cup {Null},
         Enter(w, op, pc, u, patch, role), UNCHANGED <<members, clerk>>,
         \A seen : HandlerOK([pc |-> pc, op |-> op, user |-> u, patch |-> patch,
                    seen |-> seen, role |-> role, listed |-> FALSE])
  PROVE  IInv'
<1>1. PICK seen \in Roles \cup {Null} :
        seen = IF op = "patch" /\ role # Null THEN members[u].role ELSE Null
  BY MemberFields DEF IInv
<1>2. PICK h \in Handling :
        h = [pc |-> pc, op |-> op, user |-> u, patch |-> patch,
             seen |-> seen, role |-> role, listed |-> FALSE]
  BY DEF Handling
<1>3. handlers' = [handlers EXCEPT ![w] = h]
  BY <1>1, <1>2 DEF Enter
<1>4. HandlerOK(h)'
  BY <1>2 DEF HandlerOK
<1> QED BY <1>2, <1>3, <1>4, HandlerStep, Unmoved DEF IInv, TypeOK

LEMMA LeaveStep ==
  ASSUME IInv, NEW w \in Handlers, Leave(w), RowsStay,
         clerk' \in [Users -> Roles \cup {Null}]
  PROVE  IInv'
BY HandlerStep DEF Leave

LEMMA GotoStep ==
  ASSUME IInv, NEW w \in Handlers, handlers[w] # Idle,
         NEW pc \in {"recover", "removal", "entry"}, Goto(w, pc),
         \A h \in Handling :
           /\ h.pc = pc
           /\ h.op = handlers[w].op /\ h.user = handlers[w].user
           /\ h.patch = handlers[w].patch /\ h.role = handlers[w].role
           => HandlerOK(h)',
         RowsStay, UNCHANGED clerk
  PROVE  IInv'
<1>1. handlers[w] \in Handling
  BY HandlerFields DEF IInv
<1>2. PICK h \in Handling : h = [handlers[w] EXCEPT !.pc = pc]
  BY <1>1 DEF Handling
<1>3. handlers' = [handlers EXCEPT ![w] = h]
  BY <1>2 DEF Goto
<1>4. /\ h.pc = pc
      /\ h.op = handlers[w].op /\ h.user = handlers[w].user
      /\ h.patch = handlers[w].patch /\ h.role = handlers[w].role
  BY <1>1, <1>2 DEF Handling
<1>5. HandlerOK(h)'
  BY <1>4
<1> QED BY <1>2, <1>3, <1>5, HandlerStep DEF IInv, TypeOK

LEMMA RowsStep ==
  ASSUME IInv, RowsStay, UNCHANGED <<clerk, handlers>>
  PROVE  IInv'
<1>1. TypeOK'
  BY DEF IInv, TypeOK, RowsStay
<1>2. HandlersOK'
  <2> SUFFICES ASSUME NEW w \in Handlers, handlers[w] # Idle
               PROVE  HandlerOK(handlers[w])'
    BY DEF HandlersOK
  <2>1. handlers[w] \in Handling /\ HandlerOK(handlers[w])
    BY DEF IInv, TypeOK, HandlersOK
  <2>2. handlers[w].user \in Users
    BY <2>1 DEF Handling
  <2> QED BY <2>1, <2>2 DEF HandlerOK, RowsStay
<1> QED BY <1>1, <1>2 DEF IInv

-----------------------------------------------------------------------------
(* What a step owes, and when it owes it to leaving the rows alone.        *)

AdminKept == AnyAdmin => AnyAdmin'

Admitted ==
  \A u \in Users :
    members[u].status \in {"invited", "disabled"}
      /\ members'[u].status = "active"
    => \/ \E w \in Handlers :
            /\ At(w, "commit") /\ User(w) = u /\ handlers'[w] = Idle
            /\ \/ Doing(w, "patch")
               \/ Doing(w, "approve") /\ members[u].status = "invited"
       \/ ~AnyAdmin

MadeAdmin ==
  \A u \in Users :
    AnyAdmin /\ ~ActiveAdmin(u) /\ ActiveAdmin(u)'
    => \E w \in Handlers :
         /\ Doing(w, "patch") \/ Doing(w, "sync")
         /\ User(w) = u /\ handlers'[w] = Idle

Good == IInv' /\ AdminKept /\ Admitted /\ MadeAdmin

LEMMA Reading ==
  ASSUME IInv, UNCHANGED members, IInv'
  PROVE  Good
<1>1. AdminKept
  BY Unmoved DEF AdminKept
<1>2. Admitted
  BY DEF Admitted
<1>3. MadeAdmin
  BY DEF MadeAdmin, ActiveAdmin
<1> QED BY <1>1, <1>2, <1>3 DEF Good

\* A change of one row that ends no administrator, admits nobody and makes
\* nobody an administrator.
LEMMA Harmless ==
  ASSUME IInv, IInv', NEW u \in Users, NEW m \in Member,
         members' = [members EXCEPT ![u] = m],
         ActiveAdmin(u) => m = members[u],
         m.status = "active" => members[u].status \in {"absent", "active"},
         m.role = "admin" /\ m.status = "active" => m = members[u]
  PROVE  Good
<1>1. members \in [Users -> Member]
  BY DEF IInv, TypeOK
<1>2. AdminKept
  BY <1>1 DEF AdminKept, AnyAdmin, ActiveAdmin
<1>3. Admitted
  BY <1>1 DEF Admitted
<1>4. MadeAdmin
  BY <1>1 DEF MadeAdmin, ActiveAdmin
<1> QED BY <1>2, <1>3, <1>4 DEF Good

LEMMA RowWritten ==
  ASSUME IInv, NEW u \in Users, NEW m \in Member \ {Absent},
         members' = [members EXCEPT ![u] = m]
  PROVE  RowsStay
BY DEF IInv, TypeOK, RowsStay

LEMMA IdleAfterwards ==
  ASSUME IInv, NEW w \in Handlers, Leave(w)
  PROVE  handlers'[w] = Idle
BY DEF IInv, TypeOK, Leave

LEMMA HandlerUser ==
  ASSUME IInv, NEW w \in Handlers, handlers[w] # Idle
  PROVE  /\ User(w) \in Users
         /\ handlers[w].role \in Roles \cup {Null}
         /\ handlers[w].patch \in AllPatches
         /\ handlers[w].seen \in Roles \cup {Null}
         /\ HandlerOK(handlers[w])
BY HandlerFields DEF IInv, HandlersOK, Handling, User

-----------------------------------------------------------------------------
(* Beginnings: they read a row and put what follows from it in order.      *)

LEMMA NoChangeIsPatch == NoChange \in AllPatches
BY DEF NoChange, AllPatches, NoPatch

LEMMA SignInGood ==
  ASSUME IInv, NEW w \in Handlers, NEW u \in Users, SignIn(w, u)
  PROVE  Good
<1> DEFINE pc == IF members[u] = Absent THEN "provision" ELSE "recover"
<1>1. PICK p \in {"provision", "recover"} : p = pc
  OBVIOUS
<1>2. PICK r \in Roles : r = clerk[u]
  BY DEF SignIn, IInv, TypeOK
<1>3. /\ Enter(w, "sign in", p, u, NoChange, r)
      /\ UNCHANGED <<members, clerk>>
  BY <1>1, <1>2 DEF SignIn
<1>4. \A seen : HandlerOK([pc |-> p, op |-> "sign in", user |-> u,
        patch |-> NoChange, seen |-> seen, role |-> r, listed |-> FALSE])
  BY <1>1, <1>2 DEF HandlerOK
<1>5. IInv'
  BY <1>1, <1>2, <1>3, <1>4, NoChangeIsPatch, EnterStep
<1> QED BY <1>3, <1>5, Reading

LEMMA BeginApplyGood ==
  ASSUME IInv, NEW w \in Handlers, NEW u \in Users, NEW role \in Roles,
         BeginApply(w, u, role)
  PROVE  Good
<1>1. /\ Enter(w, "apply", "submit", u, NoChange, role)
      /\ UNCHANGED <<members, clerk>> /\ role \in Openings
  BY DEF BeginApply
<1>2. \A seen : HandlerOK([pc |-> "submit", op |-> "apply", user |-> u,
        patch |-> NoChange, seen |-> seen, role |-> role, listed |-> FALSE])
  BY <1>1 DEF HandlerOK
<1>3. IInv'
  BY <1>1, <1>2, NoChangeIsPatch, EnterStep
<1> QED BY <1>1, <1>3, Reading

LEMMA BeginApproveGood ==
  ASSUME IInv, NEW w \in Handlers, NEW u \in Users, NEW role \in Roles,
         BeginApprove(w, u, role)
  PROVE  Good
<1> DEFINE patch == [role |-> role, status |-> "active"]
<1>1. /\ Enter(w, "approve", "look", u, patch, role)
      /\ UNCHANGED <<members, clerk>>
      /\ role \in {"pilot", "dispatcher"}
      /\ members[u] # Absent
  BY DEF BeginApprove, Absent
<1>2. patch \in AllPatches /\ patch.role = role
  BY DEF AllPatches
<1>3. \A seen : HandlerOK([pc |-> "look", op |-> "approve", user |-> u,
        patch |-> patch, seen |-> seen, role |-> role, listed |-> FALSE])
  BY <1>1, <1>2 DEF HandlerOK
<1> HIDE DEF patch
<1>4. IInv'
  BY <1>1, <1>2, <1>3, EnterStep
<1> QED BY <1>1, <1>4, Reading

LEMMA BeginRejectGood ==
  ASSUME IInv, NEW w \in Handlers, NEW u \in Users, BeginReject(w, u)
  PROVE  Good
<1> DEFINE patch == [role |-> NoPatch, status |-> "disabled"]
<1>1. /\ Enter(w, "reject", "commit", u, patch, Null)
      /\ UNCHANGED <<members, clerk>>
      /\ members[u] # Absent
  BY DEF BeginReject, Absent
<1>2. patch \in AllPatches
  BY DEF AllPatches
<1>3. \A seen : HandlerOK([pc |-> "commit", op |-> "reject", user |-> u,
        patch |-> patch, seen |-> seen, role |-> Null, listed |-> FALSE])
  BY <1>1 DEF HandlerOK
<1> HIDE DEF patch
<1>4. IInv'
  BY <1>1, <1>2, <1>3, EnterStep
<1> QED BY <1>1, <1>4, Reading

LEMMA BeginPatchGood ==
  ASSUME IInv, NEW w \in Handlers, NEW u \in Users, NEW patch \in Patches,
         BeginPatch(w, u, patch)
  PROVE  Good
<1> DEFINE next == After(members[u], patch)
           sync == next.status = "active" /\ next # members[u]
<1>1. /\ members[u] # Absent
      /\ Enter(w, "patch", IF sync THEN "look" ELSE "commit", u, patch,
               IF sync THEN next.role ELSE Null)
      /\ UNCHANGED <<members, clerk>>
  BY DEF BeginPatch, Absent
<1>2. patch \in AllPatches
  BY AccessAssumption
<1>3. next.role \in Roles
  BY <1>1, <1>2, MemberFields DEF IInv, After, AllPatches
<1>4. PICK p \in {"look", "commit"} : p = IF sync THEN "look" ELSE "commit"
  OBVIOUS
<1>5. PICK r \in Roles \cup {Null} : r = IF sync THEN next.role ELSE Null
  BY <1>3
<1>6. Enter(w, "patch", p, u, patch, r)
  BY <1>1, <1>4, <1>5
<1>7. \A seen : HandlerOK([pc |-> p, op |-> "patch", user |-> u,
        patch |-> patch, seen |-> seen, role |-> r, listed |-> FALSE])
  BY <1>1, <1>4 DEF HandlerOK
<1>8. IInv'
  BY <1>1, <1>2, <1>6, <1>7, EnterStep
<1> QED BY <1>1, <1>8, Reading

LEMMA BeginKickGood ==
  ASSUME IInv, NEW w \in Handlers, NEW u \in Users, BeginKick(w, u)
  PROVE  Good
<1> DEFINE patch == [role |-> NoPatch, status |-> "disabled"]
<1>1. PICK p \in {"removal", "commit"} :
        p = IF members[u].status = "disabled" THEN "removal" ELSE "commit"
  OBVIOUS
<1>2. /\ Enter(w, "kick", p, u, patch, Null)
      /\ UNCHANGED <<members, clerk>>
      /\ members[u] # Absent
  BY <1>1 DEF BeginKick
<1>3. patch \in AllPatches
  BY DEF AllPatches
<1>4. \A seen : HandlerOK([pc |-> p, op |-> "kick", user |-> u,
        patch |-> patch, seen |-> seen, role |-> Null, listed |-> FALSE])
  BY <1>1, <1>2 DEF HandlerOK
<1> HIDE DEF patch
<1>5. IInv'
  BY <1>2, <1>3, <1>4, EnterStep
<1> QED BY <1>2, <1>5, Reading

LEMMA LoadEntryGood ==
  ASSUME IInv, NEW w \in Handlers, NEW u \in Users, LoadEntry(w, u)
  PROVE  Good
<1>1. PICK r \in Roles : r = clerk[u]
  BY DEF LoadEntry, IInv, TypeOK
<1> DEFINE patch == [role |-> r, status |-> NoPatch]
<1>2. /\ Enter(w, "sync", "entry", u, patch, r)
      /\ UNCHANGED <<members, clerk>>
  BY <1>1 DEF LoadEntry
<1>3. patch \in AllPatches
  BY DEF AllPatches
<1>4. \A seen : HandlerOK([pc |-> "entry", op |-> "sync", user |-> u,
        patch |-> patch, seen |-> seen, role |-> r, listed |-> FALSE])
  BY DEF HandlerOK
<1> HIDE DEF patch
<1>5. IInv'
  BY <1>2, <1>3, <1>4, EnterStep
<1> QED BY <1>2, <1>5, Reading

-----------------------------------------------------------------------------
(* Steps that touch no row.                                                *)

LEMMA FailGood ==
  ASSUME IInv, NEW w \in Handlers, Fail(w)
  PROVE  Good
<1>1. Leave(w) /\ UNCHANGED <<members, clerk>>
  BY DEF Fail
<1>2. IInv'
  BY <1>1, LeaveStep, Unmoved DEF IInv, TypeOK
<1> QED BY <1>1, <1>2, Reading

LEMMA DirectoryChangesGood ==
  ASSUME IInv, NEW u \in Users, NEW role \in Roles \cup {Null},
         DirectoryChanges(u, role)
  PROVE  Good
<1>1. TypeOK' /\ UNCHANGED members
  BY DEF DirectoryChanges, IInv, TypeOK
<1>2. HandlersOK'
  BY DEF DirectoryChanges, IInv, HandlersOK, HandlerOK
<1> QED BY <1>1, <1>2, Reading DEF IInv

LEMMA LookUpGood ==
  ASSUME IInv, NEW w \in Handlers, LookUp(w)
  PROVE  Good
<1>1. /\ handlers[w] # Idle
      /\ handlers[w].pc \in {"look", "restore", "removal"}
      /\ UNCHANGED <<members, clerk>>
  BY DEF LookUp, At
<1>2. PICK r \in Handling : r = handlers[w]
  BY <1>1, HandlerFields DEF IInv
<1>3. PICK pc \in {"write", "rewrite", "remove"}, listed \in BOOLEAN :
        handlers' = [handlers EXCEPT ![w].pc = pc, ![w].listed = listed]
  BY DEF LookUp
<1>4. PICK h : h = [r EXCEPT !.pc = pc, !.listed = listed]
  OBVIOUS
<1>5. /\ h \in Handling
      /\ h.pc = pc /\ h.op = r.op
      /\ h.user = r.user /\ h.patch = r.patch
  <2>1. h \in Handling
    BY <1>4 DEF Handling
  <2>2. /\ h.pc = pc /\ h.op = r.op
        /\ h.user = r.user /\ h.patch = r.patch
    BY <1>4 DEF Handling
  <2> QED BY <2>1, <2>2
<1>6. handlers' = [handlers EXCEPT ![w] = h]
  BY <1>2, <1>3, <1>4 DEF IInv, TypeOK
<1>7. HandlerOK(h)'
  BY <1>1, <1>2, <1>5, HandlerUser DEF HandlerOK
<1>8. IInv'
  BY <1>1, <1>5, <1>6, <1>7, HandlerStep, Unmoved DEF IInv, TypeOK
<1> QED BY <1>1, <1>8, Reading

LEMMA ClerkWriteGood ==
  ASSUME IInv, NEW w \in Handlers, ClerkWrite(w)
  PROVE  Good
<1>1. handlers[w] # Idle /\ UNCHANGED members
  BY DEF ClerkWrite, At
<1>2. handlers[w] \in Handling /\ HandlerOK(handlers[w])
  BY <1>1, HandlerFields, HandlerUser DEF IInv
<1>3. clerk' \in [Users -> Roles \cup {Null}]
  BY <1>2 DEF ClerkWrite, IInv, TypeOK, Handling
<1>4. IInv'
  <2>1. CASE At(w, "write")
    <3>1. PICK h \in Handling :
            h = [handlers[w] EXCEPT !.pc = "commit", !.listed = FALSE]
      BY <1>2 DEF Handling
    <3>2. handlers' = [handlers EXCEPT ![w] = h]
      BY <2>1, <3>1 DEF ClerkWrite, IInv, TypeOK
    <3>3. /\ h.pc = "commit" /\ h.op = handlers[w].op
          /\ h.user = handlers[w].user /\ h.patch = handlers[w].patch
      <4> DEFINE old == handlers[w]
      <4>1. old \in Handling
        BY <1>2
      <4>2. h = [[old EXCEPT !.pc = "commit"] EXCEPT !.listed = FALSE]
        BY <3>1
      <4> HIDE DEF old
      <4>3. PICK on \in Handling : on = [old EXCEPT !.pc = "commit"]
        BY <4>1 DEF Handling
      <4>4. /\ on.pc = "commit" /\ on.op = old.op
            /\ on.user = old.user /\ on.patch = old.patch
        BY <4>1, <4>3 DEF Handling
      <4>5. h = [on EXCEPT !.listed = FALSE]
        BY <4>2, <4>3
      <4>6. h.pc = on.pc /\ h.op = on.op /\ h.user = on.user /\ h.patch = on.patch
        BY <4>5 DEF Handling
      <4> QED
        BY <4>4, <4>6 DEF old
    <3>4. HandlerOK(h)'
      <4>1. handlers[w].pc = "write"
        BY <2>1 DEF At
      <4>2. UNCHANGED members
        BY <1>1
      <4> QED
        BY <1>2, <3>3, <4>1, <4>2 DEF HandlerOK
    <3> QED BY <1>1, <1>3, <3>2, <3>4, HandlerStep, Unmoved
  <2>2. CASE ~At(w, "write")
    BY <1>1, <1>3, <2>2, LeaveStep, Unmoved DEF ClerkWrite
  <2> QED BY <2>1, <2>2
<1> QED BY <1>1, <1>4, Reading

LEMMA ClerkRemoveGood ==
  ASSUME IInv, NEW w \in Handlers, ClerkRemove(w)
  PROVE  Good
<1>1. Leave(w) /\ UNCHANGED members
  BY DEF ClerkRemove
<1>2. clerk' \in [Users -> Roles \cup {Null}]
  BY DEF ClerkRemove, IInv, TypeOK
<1>3. IInv'
  BY <1>1, <1>2, LeaveStep, Unmoved
<1> QED BY <1>1, <1>3, Reading

LEMMA RefuseGood ==
  ASSUME IInv, NEW w \in Handlers, Refuse(w)
  PROVE  Good
<1>1. /\ handlers[w] # Idle /\ handlers[w].pc = "commit"
      /\ UNCHANGED <<members, clerk>>
  BY DEF Refuse, At
<1>2. CASE Doing(w, "patch") /\ handlers[w].role # Null
  <2>1. PICK r \in Handling : r = handlers[w]
    BY <1>1, HandlerFields DEF IInv
  <2>2. PICK h : h = [r EXCEPT !.pc = "restore", !.role = r.seen]
    OBVIOUS
  <2>3. h \in Handling
    BY <2>2 DEF Handling
  <2>4. /\ h.pc = "restore" /\ h.op = r.op
        /\ h.user = r.user /\ h.patch = r.patch
    BY <2>2 DEF Handling
  <2>5. handlers' = [handlers EXCEPT ![w] = h]
    BY <1>2, <2>1, <2>2 DEF Refuse, IInv, TypeOK
  <2>6. HandlerOK(h)'
    BY <1>1, <2>1, <2>4, HandlerUser DEF HandlerOK
  <2>7. IInv'
    BY <1>1, <2>3, <2>5, <2>6, HandlerStep, Unmoved DEF IInv, TypeOK
  <2> QED BY <1>1, <2>7, Reading
<1>3. CASE ~(Doing(w, "patch") /\ handlers[w].role # Null)
  <2>1. Leave(w)
    BY <1>3 DEF Refuse
  <2>2. IInv'
    BY <1>1, <2>1, LeaveStep, Unmoved DEF IInv, TypeOK
  <2> QED BY <1>1, <2>2, Reading
<1> QED BY <1>2, <1>3

LEMMA FindEntryGood ==
  ASSUME IInv, NEW w \in Handlers, FindEntry(w)
  PROVE  Good
<1>1. /\ handlers[w] # Idle /\ handlers[w].pc = "entry"
      /\ UNCHANGED <<members, clerk>>
  BY DEF FindEntry, At
<1>2. CASE Leave(w)
  <2>1. IInv'
    BY <1>1, <1>2, LeaveStep, Unmoved DEF IInv, TypeOK
  <2> QED BY <1>1, <2>1, Reading
<1>3. CASE ~Leave(w)
  <2>1. PICK r \in Handling : r = handlers[w]
    BY <1>1, HandlerFields DEF IInv
  <2>2. r.user \in Users
    BY DEF Handling
  <2>3. PICK seen \in Roles \cup {Null} : seen = members[r.user].role
    BY <2>2, MemberFields DEF IInv
  <2>4. PICK h : h = [r EXCEPT !.pc = "listed", !.seen = seen]
    OBVIOUS
  <2>5. h \in Handling
    BY <2>4 DEF Handling
  <2>6. /\ h.pc = "listed" /\ h.op = r.op /\ h.seen = seen
        /\ h.user = r.user /\ h.patch = r.patch /\ h.role = r.role
    BY <2>4 DEF Handling
  <2>7. handlers' = [handlers EXCEPT ![w] = h]
    BY <1>3, <2>1, <2>3, <2>4 DEF FindEntry, User, IInv, TypeOK
  <2>8. seen # Null => members[r.user] # Absent
    BY <2>3 DEF Absent
  <2>9. HandlerOK(h)'
    BY <1>1, <2>1, <2>6, <2>8, HandlerUser DEF HandlerOK
  <2>10. IInv'
    BY <1>1, <2>5, <2>7, <2>9, HandlerStep, Unmoved DEF IInv, TypeOK
  <2> QED BY <1>1, <2>10, Reading
<1> QED BY <1>2, <1>3

-----------------------------------------------------------------------------
(* Steps that write a row.                                                 *)

LEMMA CancelGood ==
  ASSUME IInv, NEW u \in Users, Cancel(u)
  PROVE  Good
<1>1. members[u] \in Member /\ members[u].status = "invited"
  BY DEF Cancel, IInv, TypeOK
<1>2. members[u].role \in Roles
  BY <1>1 DEF Member, Absent
<1>3. PICK m \in Member :
        m = [status |-> "disabled", role |-> members[u].role]
  BY <1>2 DEF Member
<1>4. m # Absent /\ m.status = "disabled"
  BY <1>3 DEF Absent
<1>5. m = [members[u] EXCEPT !.status = "disabled"]
  BY <1>1, <1>3 DEF Member, Absent
<1>6. members' = [members EXCEPT ![u] = m]
  BY <1>5 DEF Cancel
<1>7. IInv'
  BY <1>4, <1>6, RowWritten, RowsStep DEF Cancel
<1>8. ~ActiveAdmin(u)
  BY <1>1 DEF ActiveAdmin
<1> QED BY <1>4, <1>6, <1>7, <1>8, Harmless

LEMMA SubmitGood ==
  ASSUME IInv, NEW w \in Handlers, Submit(w)
  PROVE  Good
<1>1. /\ handlers[w] # Idle /\ handlers[w].pc = "submit"
      /\ Leave(w) /\ UNCHANGED clerk
  BY DEF Submit, At
<1>2. User(w) \in Users /\ handlers[w].role \in Openings
  BY <1>1, HandlerUser DEF HandlerOK
<1>3. CASE UNCHANGED members
  BY <1>1, <1>3, LeaveStep, Unmoved, Reading DEF IInv, TypeOK
<1>4. CASE ~UNCHANGED members
  <2>1. PICK m \in Member :
          m = [status |-> "invited", role |-> handlers[w].role]
    BY <1>2, AccessAssumption DEF Member
  <2>2. m # Absent /\ m.status = "invited"
    BY <2>1 DEF Absent
  <2>3. /\ members' = [members EXCEPT ![User(w)] = m]
        /\ members[User(w)].status # "active"
    BY <1>4, <2>1 DEF Submit
  <2>4. ~ActiveAdmin(User(w))
    BY <2>3 DEF ActiveAdmin
  <2>5. IInv'
    BY <1>1, <1>2, <2>2, <2>3, RowWritten, LeaveStep DEF IInv, TypeOK
  <2> QED BY <1>2, <2>2, <2>3, <2>4, <2>5, Harmless
<1> QED BY <1>3, <1>4

LEMMA RecoverGood ==
  ASSUME IInv, NEW w \in Handlers, Recover(w)
  PROVE  Good
<1>1. /\ handlers[w] # Idle /\ Leave(w) /\ UNCHANGED clerk
  BY DEF Recover, At
<1>2. User(w) \in Users
  BY <1>1, HandlerUser
<1>3. CASE UNCHANGED members
  BY <1>1, <1>3, LeaveStep, Unmoved, Reading DEF IInv, TypeOK
<1>4. CASE ~UNCHANGED members
  <2>1. PICK m \in Member : m = [status |-> "active", role |-> "admin"]
    BY DEF Member, Roles
  <2>2. ~AnyAdmin /\ members' = [members EXCEPT ![User(w)] = m]
    BY <1>4, <2>1 DEF Recover, Recoverable
  <2>3. m # Absent
    BY <2>1 DEF Absent
  <2>4. IInv'
    BY <1>1, <1>2, <2>2, <2>3, RowWritten, LeaveStep DEF IInv, TypeOK
  <2> QED BY <2>2, <2>4 DEF Good, AdminKept, Admitted, MadeAdmin
<1> QED BY <1>3, <1>4

\* A change of one row that is not of the last administrator, admits only by
\* a decision and makes an administrator only by a change or from the
\* directory.
LEMMA Decided ==
  ASSUME IInv, IInv', NEW w \in Handlers, NEW m \in Member,
         User(w) \in Users,
         members' = [members EXCEPT ![User(w)] = m],
         ~LastAdmin(User(w), m),
         members[User(w)].status \in {"invited", "disabled"}
           /\ m.status = "active"
         => /\ At(w, "commit") /\ handlers'[w] = Idle
            /\ \/ Doing(w, "patch")
               \/ Doing(w, "approve")
                    /\ members[User(w)].status = "invited",
         m = [status |-> "active", role |-> "admin"] /\ m # members[User(w)]
         => /\ Doing(w, "patch") \/ Doing(w, "sync")
            /\ handlers'[w] = Idle
  PROVE  Good
<1>1. members \in [Users -> Member]
  BY DEF IInv, TypeOK
<1>2. AdminKept
  BY <1>1 DEF AdminKept, AnyAdmin, ActiveAdmin, LastAdmin
<1>3. Admitted
  BY <1>1 DEF Admitted
<1>4. MadeAdmin
  BY <1>1 DEF MadeAdmin, ActiveAdmin
<1> QED BY <1>2, <1>3, <1>4 DEF Good

LEMMA ProvisionGood ==
  ASSUME IInv, NEW w \in Handlers, Provision(w)
  PROVE  Good
<1>1. /\ handlers[w] # Idle /\ handlers[w].pc = "provision"
      /\ UNCHANGED clerk
  BY DEF Provision, At
<1>2. User(w) \in Users /\ HandlerOK(handlers[w])
  BY <1>1, HandlerUser
<1>3. PICK m \in Member :
        m = [status |-> "active",
             role |-> IF handlers[w].role = "dispatcher"
                      THEN "dispatcher" ELSE "pilot"]
  BY DEF Member, Roles
<1>4. m # Absent /\ m.status = "active" /\ m.role # "admin"
  BY <1>3 DEF Absent
<1>5. \/ UNCHANGED members
      \/ /\ members[User(w)] = Absent
         /\ members' = [members EXCEPT ![User(w)] = m]
  BY <1>3 DEF Provision, Insert
<1>6. RowsStay
  BY <1>2, <1>4, <1>5, Unmoved, RowWritten
<1>7. IInv'
  <2>1. CASE Leave(w)
    BY <1>1, <1>6, <2>1, LeaveStep DEF IInv, TypeOK
  <2>2. CASE ~Leave(w)
    <3>1. Goto(w, "recover")
      BY <2>2 DEF Provision
    <3>2. ASSUME NEW h \in Handling,
                 h.pc = "recover", h.op = handlers[w].op,
                 h.patch = handlers[w].patch, h.role = handlers[w].role
          PROVE  HandlerOK(h)'
      BY <1>1, <1>2, <3>2 DEF HandlerOK
    <3> QED BY <1>1, <1>6, <3>1, <3>2, GotoStep
  <2> QED BY <2>1, <2>2
<1>8. CASE UNCHANGED members
  BY <1>7, <1>8, Reading
<1>9. CASE ~UNCHANGED members
  <2>1. /\ members[User(w)] = Absent
        /\ members' = [members EXCEPT ![User(w)] = m]
    BY <1>5, <1>9
  <2>2. ~ActiveAdmin(User(w)) /\ members[User(w)].status = "absent"
    BY <2>1 DEF ActiveAdmin, Absent
  <2> QED BY <1>2, <1>4, <1>7, <2>1, <2>2, Harmless
<1> QED BY <1>8, <1>9

LEMMA CreateEntryGood ==
  ASSUME IInv, NEW w \in Handlers, CreateEntry(w)
  PROVE  Good
<1>1. /\ handlers[w] # Idle /\ handlers[w].pc = "listed"
      /\ UNCHANGED clerk
  BY DEF CreateEntry, At
<1>2. User(w) \in Users /\ HandlerOK(handlers[w])
  BY <1>1, HandlerUser
<1>3. handlers[w].op = "sync" /\ handlers[w].role \in Roles
  BY <1>1, <1>2 DEF HandlerOK
<1>4. CASE members[User(w)] = Absent
  <2>1. PICK m \in Member :
          m = [status |-> "active", role |-> handlers[w].role]
    BY <1>3 DEF Member
  <2>2. m # Absent
    BY <2>1 DEF Absent
  <2>3. Leave(w) /\ members' = [members EXCEPT ![User(w)] = m]
    BY <1>4, <2>1 DEF CreateEntry, Insert
  <2>4. IInv'
    BY <1>1, <1>2, <2>2, <2>3, RowWritten, LeaveStep DEF IInv, TypeOK
  <2>5. Doing(w, "sync") /\ handlers'[w] = Idle
    BY <1>1, <1>3, <2>3, IdleAfterwards DEF Doing
  <2>6. /\ ~LastAdmin(User(w), m)
        /\ members[User(w)].status = "absent"
    BY <1>4 DEF LastAdmin, ActiveAdmin, Absent
  <2> QED BY <1>2, <2>3, <2>4, <2>5, <2>6, Decided
<1>5. CASE members[User(w)] # Absent
  <2>1. Goto(w, "entry") /\ UNCHANGED members
    BY <1>5 DEF CreateEntry, Insert
  <2>2. ASSUME NEW h \in Handling,
               h.pc = "entry", h.op = handlers[w].op,
               h.patch = handlers[w].patch, h.role = handlers[w].role
        PROVE  HandlerOK(h)'
    BY <1>1, <1>2, <2>2 DEF HandlerOK
  <2>3. IInv'
    BY <1>1, <2>1, <2>2, GotoStep, Unmoved
  <2> QED BY <2>1, <2>3, Reading
<1> QED BY <1>4, <1>5

\* The row a change of a handler leaves.
LEMMA Changed ==
  ASSUME IInv, NEW w \in Handlers, handlers[w] # Idle,
         members[User(w)] # Absent, Update(w)
  PROVE  \E m \in Member \ {Absent} :
           /\ m = After(members[User(w)], handlers[w].patch)
           /\ members' = [members EXCEPT ![User(w)] = m]
           /\ ~LastAdmin(User(w), m)
<1>1. User(w) \in Users /\ handlers[w].patch \in AllPatches
  BY HandlerUser
<1>2. PICK m : m = After(members[User(w)], handlers[w].patch)
  OBVIOUS
<1>3. m.role \in Roles /\ m.status \in {"active", "invited", "disabled"}
  BY <1>1, <1>2, MemberFields DEF IInv, After, AllPatches
<1>4. m = [status |-> m.status, role |-> m.role]
  BY <1>2 DEF After
<1>5. m \in Member
  BY <1>3, <1>4 DEF Member
<1>6. m # Absent
  BY <1>3 DEF Absent
<1> QED BY <1>2, <1>5, <1>6 DEF Update

LEMMA CommitGood ==
  ASSUME IInv, NEW w \in Handlers, Commit(w)
  PROVE  Good
<1>1. /\ handlers[w] # Idle /\ handlers[w].pc = "commit" /\ At(w, "commit")
      /\ UNCHANGED clerk /\ Update(w)
  BY DEF Commit, At
<1>2. /\ User(w) \in Users /\ handlers[w].patch \in AllPatches
      /\ HandlerOK(handlers[w])
  BY <1>1, HandlerUser
<1>3. /\ members[User(w)] # Absent
      /\ handlers[w].op \in {"approve", "reject", "patch", "kick"}
  BY <1>1, <1>2 DEF HandlerOK, User
<1>4. PICK m \in Member \ {Absent} :
        /\ m = After(members[User(w)], handlers[w].patch)
        /\ members' = [members EXCEPT ![User(w)] = m]
        /\ ~LastAdmin(User(w), m)
  BY <1>1, <1>3, Changed
<1>5. RowsStay
  BY <1>2, <1>4, RowWritten
<1>6. CASE Doing(w, "kick")
  <2>1. Goto(w, "removal") /\ handlers[w].op = "kick"
    BY <1>6 DEF Commit, Doing
  <2>2. ASSUME NEW h \in Handling,
               h.pc = "removal", h.op = handlers[w].op,
               h.user = handlers[w].user, h.patch = handlers[w].patch
        PROVE  HandlerOK(h)'
    BY <1>2, <1>3, <1>5, <2>1, <2>2 DEF HandlerOK, RowsStay, User
  <2>3. IInv'
    BY <1>1, <1>5, <2>1, <2>2, GotoStep
  <2>4. m.status = "disabled"
    BY <1>2, <1>4, <2>1 DEF HandlerOK, After, NoPatch
  <2>5. m # [status |-> "active", role |-> "admin"]
    BY <2>4
  <2> QED BY <1>2, <1>4, <2>3, <2>4, <2>5, Decided
<1>7. CASE ~Doing(w, "kick")
  <2>1. Leave(w) /\ handlers'[w] = Idle
    BY <1>7, IdleAfterwards DEF Commit
  <2>2. IInv'
    BY <1>1, <1>5, <2>1, LeaveStep DEF IInv, TypeOK
  <2>3. CASE handlers[w].op = "patch"
    BY <1>1, <1>2, <1>4, <2>1, <2>2, <2>3, Decided DEF Doing
  <2>4. CASE handlers[w].op = "approve"
    <3>1. /\ Doing(w, "approve") /\ members[User(w)].status = "invited"
      BY <1>1, <2>4 DEF Update, Expected, Doing
    <3>2. handlers[w].patch.role \in {"pilot", "dispatcher"}
      BY <1>2, <2>4 DEF HandlerOK
    <3>3. m.role # "admin"
      BY <1>4, <3>2 DEF After, NoPatch
    <3>4. m # [status |-> "active", role |-> "admin"]
      BY <3>3
    <3> QED BY <1>1, <1>2, <1>4, <2>1, <2>2, <3>1, <3>4, Decided
  <2>5. CASE handlers[w].op = "reject"
    <3>1. m.status = "disabled"
      BY <1>2, <1>4, <2>5 DEF HandlerOK, After, NoPatch
    <3>2. m # [status |-> "active", role |-> "admin"]
      BY <3>1
    <3> QED BY <1>2, <1>4, <2>2, <3>1, <3>2, Decided
  <2> QED BY <1>1, <1>3, <1>7, <2>3, <2>4, <2>5 DEF Doing
<1> QED BY <1>6, <1>7

LEMMA UpdateEntryGood ==
  ASSUME IInv, NEW w \in Handlers, UpdateEntry(w)
  PROVE  Good
<1>1. /\ handlers[w] # Idle /\ handlers[w].pc = "listed"
      /\ UNCHANGED clerk /\ Leave(w) /\ handlers'[w] = Idle
  BY IdleAfterwards DEF UpdateEntry, At
<1>2. User(w) \in Users /\ handlers[w].op = "sync"
  BY <1>1, HandlerUser DEF HandlerOK
<1>3. CASE UNCHANGED members
  BY <1>1, <1>3, LeaveStep, Unmoved, Reading DEF IInv, TypeOK
<1>4. CASE ~UNCHANGED members
  <2>1. Update(w) /\ Doing(w, "sync")
    BY <1>1, <1>2, <1>4 DEF UpdateEntry, Doing
  <2>2. members[User(w)].status = "active"
    BY <1>2, <2>1 DEF Update, Expected, Doing
  <2>3. PICK m \in Member \ {Absent} :
          /\ members' = [members EXCEPT ![User(w)] = m]
          /\ ~LastAdmin(User(w), m)
    BY <1>1, <2>1, <2>2, Changed DEF Absent
  <2>4. IInv'
    BY <1>1, <1>2, <2>3, RowWritten, LeaveStep DEF IInv, TypeOK
  <2> QED BY <1>1, <1>2, <2>1, <2>2, <2>3, <2>4, Decided
<1> QED BY <1>3, <1>4

-----------------------------------------------------------------------------
(* The theorems.                                                           *)

LEMMA InitOK == Init => IInv
<1> SUFFICES ASSUME Init PROVE IInv
  OBVIOUS
<1>1. TypeOK
  BY AccessAssumption DEF Init, TypeOK, Member, Roles
<1>2. HandlersOK
  BY DEF Init, HandlersOK
<1> QED BY <1>1, <1>2 DEF IInv

LEMMA NextGood ==
  ASSUME IInv, Next
  PROVE  Good
<1>1. CASE SignInNext
  BY <1>1, SignInGood, ProvisionGood, RecoverGood DEF SignInNext
<1>2. CASE ApplicationNext
  BY <1>2, CancelGood, BeginApplyGood, BeginApproveGood, BeginRejectGood,
     SubmitGood DEF ApplicationNext
<1>3. CASE AdministrationNext
  <2>1. PICK w \in Handlers :
          \/ \E u \in Users :
               \/ \E patch \in Patches : BeginPatch(w, u, patch)
               \/ BeginKick(w, u)
               \/ LoadEntry(w, u)
          \/ LookUp(w) \/ ClerkWrite(w) \/ ClerkRemove(w)
          \/ Commit(w) \/ Refuse(w)
          \/ FindEntry(w) \/ CreateEntry(w) \/ UpdateEntry(w)
    BY <1>3 DEF AdministrationNext
  <2>2. CASE \E u \in Users, patch \in Patches : BeginPatch(w, u, patch)
    BY <2>2, BeginPatchGood
  <2>3. CASE \E u \in Users : BeginKick(w, u) \/ LoadEntry(w, u)
    BY <2>3, BeginKickGood, LoadEntryGood
  <2>4. CASE LookUp(w) \/ ClerkWrite(w) \/ ClerkRemove(w)
    BY <2>4, LookUpGood, ClerkWriteGood, ClerkRemoveGood
  <2>5. CASE Commit(w) \/ Refuse(w)
    BY <2>5, CommitGood, RefuseGood
  <2>6. CASE FindEntry(w) \/ CreateEntry(w) \/ UpdateEntry(w)
    BY <2>6, FindEntryGood, CreateEntryGood, UpdateEntryGood
  <2> QED BY <2>1, <2>2, <2>3, <2>4, <2>5, <2>6
<1>4. CASE \E w \in Handlers : Fail(w)
  BY <1>4, FailGood
<1>5. CASE \E u \in Users, role \in Roles \cup {Null} :
             DirectoryChanges(u, role)
  BY <1>5, DirectoryChangesGood
<1> QED BY <1>1, <1>2, <1>3, <1>4, <1>5 DEF Next

\* The strengthening holds throughout.
THEOREM Invariance == Spec => []IInv
<1>1. Init => IInv
  BY InitOK
<1>2. IInv /\ [Next]_vars => IInv'
  <2> SUFFICES ASSUME IInv, [Next]_vars PROVE IInv'
    OBVIOUS
  <2>1. CASE Next
    BY <2>1, NextGood DEF Good
  <2>2. CASE UNCHANGED vars
    BY <2>2 DEF vars, IInv, TypeOK, HandlersOK, HandlerOK
  <2> QED BY <2>1, <2>2
<1> QED BY <1>1, <1>2, PTL DEF Spec

\* Rows and handlers stay well formed (Access).
THEOREM TypeCorrect == Spec => []TypeOK
BY Invariance, PTL DEF IInv

\* No overlap of changes, removals, reviews, synchronisations and sign-ins
\* takes the last active administrator of a tenant
\* (administrativelyUpdateMembership and the inserts that do nothing on a
\* conflict).
THEOREM AdminsRemain == Spec => AdminRemains
<1>1. IInv /\ [Next]_vars => [AnyAdmin => AnyAdmin']_vars
  <2> SUFFICES ASSUME IInv, Next PROVE AnyAdmin => AnyAdmin'
    OBVIOUS
  <2> QED BY NextGood DEF Good, AdminKept
<1> QED BY <1>1, Invariance, PTL DEF Spec, AdminRemains

\* Who is pending or disabled gets in only by a decision of an administrator
\* that still applies, or as the recovered administrator.
THEOREM DecisionAdmits == Spec => AdmittedByDecision
<1>1. IInv /\ [Next]_vars => [Admitted]_vars
  BY NextGood DEF Good
<1>2. Spec => [][Admitted]_vars
  BY <1>1, Invariance, PTL DEF Spec
<1> QED BY <1>2 DEF AdmittedByDecision, Admitted

\* While there is an administrator, others become one only by a change or a
\* synchronisation of an administrator, never by what a token says.
THEOREM AdminsOnlyByAdmins == Spec => AdminsMadeByAdmins
<1>1. IInv /\ [Next]_vars => [MadeAdmin]_vars
  BY NextGood DEF Good
<1>2. Spec => [][MadeAdmin]_vars
  BY <1>1, Invariance, PTL DEF Spec
<1> QED BY <1>2 DEF AdminsMadeByAdmins, MadeAdmin
=============================================================================
