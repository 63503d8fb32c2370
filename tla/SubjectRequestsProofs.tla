------------------------- MODULE SubjectRequestsProofs -------------------------
(***************************************************************************)
(* What is proved of SubjectRequests for every number of requests, of any  *)
(* kinds, and of concurrent handlers.                                      *)
(*                                                                         *)
(* Most handlers act on what they read before: which tasks are open, that  *)
(* Clerk's is closed.  That stays true because requests keep their kind    *)
(* and tasks only go forward (RequestsMove, TasksMove); HandlerOK collects *)
(* what a handler therefore knows at each of its statements, and RowOK     *)
(* that a request nobody can finish early has all of its tasks.            *)
(***************************************************************************)
EXTENDS SubjectRequests, TLAPS

\* The tasks of the request exist, and are closed.
Asked(q) == \A p \in Providers : tasks[q][p] # "none"
AllClosed(q) == \A p \in Providers : tasks[q][p] = "closed"

WithTasks == Destructive \cup {"export"}

RowOK(q) ==
  /\ requests[q].status = "absent" =>
       \A p \in Providers : tasks[q][p] = "none"
  /\ requests[q].kind \in Destructive /\ tasks[q]["clerk"] # "none" => Asked(q)
  /\ requests[q].kind \in WithTasks /\ requests[q].status = "awaiting_external"
       => Asked(q)
  /\ requests[q].kind \in WithTasks /\ requests[q].status = "completed"
       => AllClosed(q)

RowsOK == \A q \in Requests : RowOK(q)

\* What a handler that has listed the tasks knows.
Listed(h) == Asked(h.req) /\ (h.final = "completed" => AllClosed(h.req))

HandlerOK(h) ==
  LET kind == requests[h.req].kind IN
  /\ requests[h.req].status # "absent"
  /\ h.pc \in {"correct", "correcting", "corrected"} => kind = "correction"
  /\ h.pc = "control" => kind \in {"restriction", "objection"}
  /\ h.pc \in {"look", "listing", "destroy"} => kind \in Destructive
  /\ h.pc \in {"export", "exported"} => kind = "export"
  /\ h.pc = "exported" => Asked(h.req)
  /\ h.pc = "complete" => kind \notin Destructive
  /\ h.pc = "complete" /\ kind = "export" => Listed(h)
  /\ h.pc = "destroy" => ClerkDone(h.req) /\ Listed(h)

HandlersOK == \A w \in Handlers : handlers[w] # Idle => HandlerOK(handlers[w])

IInv == TypeOK /\ RowsOK /\ HandlersOK

RequestsMove ==
  \A q \in Requests : requests[q].status # "absent" =>
    requests'[q].status # "absent" /\ requests'[q].kind = requests[q].kind

TasksMove ==
  \A q \in Requests, p \in Providers :
    /\ tasks[q][p] # "none" => tasks'[q][p] # "none"
    /\ tasks[q][p] = "closed" => tasks'[q][p] = "closed"

\* The two action properties, of one step.
Settled ==
  \A q \in Requests :
    LET before == requests[q].status
        after == requests'[q].status IN
    /\ before \in {"completed", "cancelled"} => after = before
    /\ before = "awaiting_external" => after \in {before, "completed"}

ByTheBook ==
  "identity" \in data \ data' =>
    /\ ~held /\ ~work
    /\ \E q \in Requests :
         /\ requests[q].kind \in Destructive
         /\ requests[q].status = "approved"
         /\ ClerkDone(q)

Good == IInv' /\ Settled /\ ByTheBook

-----------------------------------------------------------------------------
(* Handlers while others proceed.                                          *)

LEMMA HandlerKept ==
  ASSUME TypeOK, NEW h \in Handling, HandlerOK(h), RequestsMove, TasksMove
  PROVE  HandlerOK(h)'
<1>1. h.req \in Requests
  BY DEF Handling
<1>2. /\ requests'[h.req].status # "absent"
      /\ requests'[h.req].kind = requests[h.req].kind
  BY <1>1 DEF HandlerOK, RequestsMove
<1>3. /\ Asked(h.req) => Asked(h.req)'
      /\ AllClosed(h.req) => AllClosed(h.req)'
      /\ ClerkDone(h.req) => ClerkDone(h.req)'
  BY <1>1 DEF TasksMove, Asked, AllClosed, ClerkDone, Providers
<1>4. Listed(h) => Listed(h)'
  BY <1>3 DEF Listed
<1> QED BY <1>2, <1>3, <1>4 DEF HandlerOK

LEMMA HandlersStep ==
  ASSUME IInv, NEW w \in Handlers, NEW h \in Handling \cup {Idle},
         handlers' = [handlers EXCEPT ![w] = h],
         h # Idle => HandlerOK(h)', RequestsMove, TasksMove
  PROVE  HandlersOK' /\ handlers' \in [Handlers -> Handling \cup {Idle}]
<1>1. handlers' \in [Handlers -> Handling \cup {Idle}]
  BY DEF IInv, TypeOK
<1>2. ASSUME NEW v \in Handlers, handlers'[v] # Idle
      PROVE  HandlerOK(handlers[v])'
  <2>1. CASE v = w
    BY <1>2, <2>1 DEF IInv, TypeOK
  <2>2. CASE v # w
    <3>1. PICK g : g = handlers[v]
      OBVIOUS
    <3>2. g \in Handling /\ HandlerOK(g) /\ handlers'[v] = g
      BY <1>2, <2>2, <3>1 DEF IInv, TypeOK, HandlersOK
    <3>3. HandlerOK(g)'
      BY <3>2, HandlerKept DEF IInv
    <3> QED BY <3>2, <3>3
  <2> QED BY <2>1, <2>2
<1> QED BY <1>1, <1>2 DEF HandlersOK

LEMMA HandlersUnmoved ==
  ASSUME IInv, UNCHANGED handlers, RequestsMove, TasksMove
  PROVE  HandlersOK' /\ handlers' \in [Handlers -> Handling \cup {Idle}]
<1>1. ASSUME NEW v \in Handlers, handlers'[v] # Idle
      PROVE  HandlerOK(handlers[v])'
  <2>1. PICK g : g = handlers[v]
    OBVIOUS
  <2>2. g \in Handling /\ HandlerOK(g) /\ handlers'[v] = g
    BY <1>1, <2>1 DEF IInv, TypeOK, HandlersOK
  <2>3. HandlerOK(g)'
    BY <2>2, HandlerKept DEF IInv
  <2> QED BY <2>2, <2>3
<1> QED BY <1>1 DEF HandlersOK, IInv, TypeOK

\* Requests and tasks stay as they are.
LEMMA Unmoved ==
  ASSUME IInv, UNCHANGED <<requests, tasks>>
  PROVE  /\ RequestsMove /\ TasksMove /\ RowsOK' /\ Settled
         /\ requests' \in [Requests -> Request]
         /\ tasks' \in [Requests -> [Providers -> TaskStatus]]
<1>1. RequestsMove /\ TasksMove /\ Settled
  BY DEF RequestsMove, TasksMove, Settled
<1>2. RowsOK'
  BY DEF IInv, RowsOK, RowOK, Asked, AllClosed
<1> QED BY <1>1, <1>2 DEF IInv, TypeOK

\* What surrounds requests, tasks and handlers is well formed.
WorldOK ==
  /\ held' \in BOOLEAN /\ member' \in Member /\ work' \in BOOLEAN
  /\ data' \subseteq Parts /\ controls' \subseteq {"restriction", "objection"}

LEMMA WorldUnmoved ==
  ASSUME IInv, UNCHANGED <<data, controls, held, member, work>>
  PROVE  WorldOK /\ ByTheBook
BY DEF IInv, TypeOK, WorldOK, ByTheBook

LEMMA HandlerAt ==
  ASSUME IInv, NEW w \in Handlers, handlers[w] # Idle
  PROVE  /\ handlers[w] \in Handling /\ HandlerOK(handlers[w])
         /\ Req(w) \in Requests /\ Req(w) = handlers[w].req
<1>1. handlers[w] \in Handling /\ HandlerOK(handlers[w])
  BY DEF IInv, TypeOK, HandlersOK
<1>2. handlers[w].req \in Requests
  BY <1>1 DEF Handling
<1> QED BY <1>1, <1>2 DEF Req

LEMMA LeaveStep ==
  ASSUME IInv, NEW w \in Handlers, Leave(w), RequestsMove, TasksMove
  PROVE  HandlersOK' /\ handlers' \in [Handlers -> Handling \cup {Idle}]
BY HandlersStep DEF Leave

\* A handler that only reads begins, goes on or ends.
LEMMA QuietStep ==
  ASSUME IInv, NEW w \in Handlers, NEW h \in Handling \cup {Idle},
         handlers' = [handlers EXCEPT ![w] = h],
         UNCHANGED <<requests, tasks>>, WorldOK, ByTheBook,
         h # Idle => HandlerOK(h)
  PROVE  Good
<1>1. h # Idle => HandlerOK(h)'
  BY DEF HandlerOK, Listed, Asked, AllClosed, ClerkDone
<1>2. HandlersOK' /\ handlers' \in [Handlers -> Handling \cup {Idle}]
  BY <1>1, HandlersStep, Unmoved
<1> QED BY <1>2, Unmoved DEF Good, IInv, TypeOK, WorldOK

LEMMA QuietLeave ==
  ASSUME IInv, NEW w \in Handlers, Leave(w),
         UNCHANGED <<requests, tasks>>, WorldOK, ByTheBook
  PROVE  Good
BY QuietStep DEF Leave

LEMMA QuietGoto ==
  ASSUME IInv, NEW w \in Handlers, handlers[w] # Idle,
         NEW pc \in {"held", "listing", "retry", "correcting", "complete",
                     "corrected"},
         Goto(w, pc), UNCHANGED <<requests, tasks>>, WorldOK, ByTheBook,
         \A h \in Handling : h.pc = pc /\ h.req = Req(w) => HandlerOK(h)
  PROVE  Good
<1>1. PICK r \in Handling : r = handlers[w]
  BY HandlerAt
<1>2. PICK h : h = [r EXCEPT !.pc = pc]
  OBVIOUS
<1>3. h \in Handling /\ h.pc = pc /\ h.req = r.req
  BY <1>2 DEF Handling
<1>4. handlers' = [handlers EXCEPT ![w] = h]
  BY <1>1, <1>2 DEF Goto
<1>5. HandlerOK(h)
  BY <1>1, <1>3 DEF Req
<1> QED BY <1>3, <1>4, <1>5, QuietStep

\* A handler begins, with the member as loaded.
Begun(w, pc, q) == \E fit \in BOOLEAN : Enter(w, pc, q, fit)

LEMMA QuietEnter ==
  ASSUME IInv, NEW w \in Handlers, NEW q \in Requests,
         NEW pc \in {"correct", "look", "control", "export", "verified",
                     "look again"},
         Begun(w, pc, q), UNCHANGED <<requests, tasks>>,
         UNCHANGED <<data, controls, held, member, work>>,
         \A h \in Handling : h.pc = pc /\ h.req = q => HandlerOK(h)
  PROVE  Good
<1>1. PICK h \in Handling :
        /\ h.pc = pc /\ h.req = q
        /\ handlers' = [handlers EXCEPT ![w] = h]
  <2>1. PICK fit \in BOOLEAN : Enter(w, pc, q, fit)
    BY DEF Begun
  <2>2. PICK h : h = [pc |-> pc, req |-> q, fit |-> fit,
                      final |-> "completed"]
    OBVIOUS
  <2>3. h \in Handling /\ h.pc = pc /\ h.req = q
    BY <2>2 DEF Handling
  <2>4. handlers' = [handlers EXCEPT ![w] = h]
    BY <2>1, <2>2 DEF Enter
  <2> QED BY <2>3, <2>4
<1> QED BY <1>1, QuietStep, WorldUnmoved

-----------------------------------------------------------------------------
(* The world, and handlers that only read.                                 *)

LEMMA WorldGood ==
  ASSUME IInv, ChangeMember \/ ChangeWork \/ ChangeHold
  PROVE  Good
<1>1. UNCHANGED <<requests, tasks, handlers, data, controls>>
  BY DEF ChangeMember, ChangeWork, ChangeHold
<1>2. held' \in BOOLEAN /\ member' \in Member /\ work' \in BOOLEAN
  <2>1. CASE ChangeMember
    <3>1. member' \in Member
      BY <2>1 DEF ChangeMember, IInv, TypeOK, Member
    <3>2. work' \in BOOLEAN /\ held' \in BOOLEAN
      BY <2>1 DEF ChangeMember, IInv, TypeOK
    <3> QED BY <3>1, <3>2
  <2>2. CASE ChangeWork \/ ChangeHold
    BY <2>2 DEF ChangeWork, ChangeHold, IInv, TypeOK
  <2> QED BY <2>1, <2>2
<1>3. HandlersOK' /\ handlers' \in [Handlers -> Handling \cup {Idle}]
  BY <1>1, Unmoved, HandlersUnmoved
<1>4. ByTheBook
  BY <1>1 DEF ByTheBook
<1> QED BY <1>1, <1>2, <1>3, <1>4, Unmoved DEF Good, IInv, TypeOK

LEMMA BeginGood ==
  ASSUME IInv, NEW w \in Handlers, NEW q \in Requests, Begin(w, q)
  PROVE  Good
<1>1. PICK fit \in BOOLEAN : fit = member.fit
  BY DEF IInv, TypeOK, Member
<1>2. /\ requests[q].status = "approved" /\ requests[q].kind # "export"
      /\ requests[q].kind \in AllKinds
      /\ UNCHANGED <<requests, tasks, data, controls, held, member, work>>
  BY DEF Begin, IInv, TypeOK, Request, world
<1>3. CASE requests[q].kind = "correction"
  <2>1. Begun(w, "correct", q)
    BY <1>1, <1>3 DEF Begin, Begun, Destructive
  <2>2. ASSUME NEW h \in Handling, h.pc = "correct", h.req = q
        PROVE  HandlerOK(h)
    BY <1>2, <1>3, <2>2 DEF HandlerOK
  <2> QED BY <1>2, <2>1, <2>2, QuietEnter
<1>4. CASE requests[q].kind \in Destructive
  <2>1. Begun(w, "look", q)
    BY <1>1, <1>4 DEF Begin, Begun, Destructive
  <2>2. ASSUME NEW h \in Handling, h.pc = "look", h.req = q
        PROVE  HandlerOK(h)
    BY <1>2, <1>4, <2>2 DEF HandlerOK
  <2> QED BY <1>2, <2>1, <2>2, QuietEnter
<1>5. CASE requests[q].kind \in {"restriction", "objection"}
  <2>1. Begun(w, "control", q)
    BY <1>1, <1>5 DEF Begin, Begun, Destructive
  <2>2. ASSUME NEW h \in Handling, h.pc = "control", h.req = q
        PROVE  HandlerOK(h)
    BY <1>2, <1>5, <2>2 DEF HandlerOK
  <2> QED BY <1>2, <2>1, <2>2, QuietEnter
<1> QED BY <1>2, <1>3, <1>4, <1>5 DEF AllKinds

LEMMA BeginExportGood ==
  ASSUME IInv, NEW w \in Handlers, NEW q \in Requests, BeginExport(w, q)
  PROVE  Good
<1>1. /\ requests[q].kind = "export" /\ requests[q].status # "absent"
      /\ UNCHANGED <<requests, tasks, data, controls, held, member, work>>
  BY DEF BeginExport, world
<1>2. CASE Begun(w, "export", q)
  <2>1. ASSUME NEW h \in Handling, h.pc = "export", h.req = q
        PROVE  HandlerOK(h)
    BY <1>1, <2>1 DEF HandlerOK
  <2> QED BY <1>1, <1>2, <2>1, QuietEnter
<1>3. CASE Begun(w, "verified", q)
  <2>1. ASSUME NEW h \in Handling, h.pc = "verified", h.req = q
        PROVE  HandlerOK(h)
    BY <1>1, <2>1 DEF HandlerOK
  <2> QED BY <1>1, <1>3, <2>1, QuietEnter
<1> QED BY <1>2, <1>3 DEF BeginExport, Begun

LEMMA BeginRetryGood ==
  ASSUME IInv, NEW w \in Handlers, NEW q \in Requests, BeginRetry(w, q)
  PROVE  Good
<1>1. /\ requests[q].status # "absent"
      /\ Begun(w, "look again", q)
      /\ UNCHANGED <<requests, tasks, data, controls, held, member, work>>
  BY DEF BeginRetry, world, Begun
<1>2. ASSUME NEW h \in Handling, h.pc = "look again", h.req = q
      PROVE  HandlerOK(h)
  BY <1>1, <1>2 DEF HandlerOK
<1> QED BY <1>1, <1>2, QuietEnter

LEMMA CrashGood ==
  ASSUME IInv, NEW w \in Handlers, Crash(w)
  PROVE  Good
<1>1. /\ Leave(w)
      /\ UNCHANGED <<requests, tasks, data, controls, held, member, work>>
  BY DEF Crash, world
<1> QED BY <1>1, QuietLeave, WorldUnmoved

LEMMA FindHoldGood ==
  ASSUME IInv, NEW w \in Handlers, FindHold(w)
  PROVE  Good
<1>1. /\ handlers[w] # Idle /\ handlers[w].pc = "look"
      /\ UNCHANGED <<requests, tasks, data, controls, held, member, work>>
  BY DEF FindHold, At, world
<1>2. PICK pc \in {"held", "listing"} : Goto(w, pc)
  BY DEF FindHold
<1>3. /\ requests[Req(w)].status # "absent"
      /\ requests[Req(w)].kind \in Destructive
  BY <1>1, HandlerAt DEF HandlerOK
<1>4. ASSUME NEW h \in Handling, h.pc = pc, h.req = Req(w)
      PROVE  HandlerOK(h)
  BY <1>2, <1>3, <1>4 DEF HandlerOK
<1> QED BY <1>1, <1>2, <1>4, QuietGoto, WorldUnmoved

LEMMA LookAgainGood ==
  ASSUME IInv, NEW w \in Handlers, LookAgain(w)
  PROVE  Good
<1>1. /\ handlers[w] # Idle
      /\ UNCHANGED <<requests, tasks, data, controls, held, member, work>>
  BY DEF LookAgain, At, world
<1>2. CASE Leave(w)
  BY <1>1, <1>2, QuietLeave, WorldUnmoved
<1>3. CASE Goto(w, "retry")
  <2>1. requests[Req(w)].status # "absent"
    BY <1>1, HandlerAt DEF HandlerOK
  <2>2. ASSUME NEW h \in Handling, h.pc = "retry", h.req = Req(w)
        PROVE  HandlerOK(h)
    BY <2>1, <2>2 DEF HandlerOK
  <2> QED BY <1>1, <1>3, <2>2, QuietGoto, WorldUnmoved
<1> QED BY <1>2, <1>3 DEF LookAgain

\* A handler lists the tasks of its request.
LEMMA ListGood ==
  ASSUME IInv, NEW w \in Handlers, handlers[w] # Idle,
         NEW open \in SUBSET Providers, NEW pc \in {"complete", "destroy"},
         List(w, open, pc),
         \A h \in Handling :
           /\ h.pc = pc /\ h.req = Req(w)
           /\ h.final = "completed" => open = {}
           => HandlerOK(h)
  PROVE  Good
<1>1. PICK r \in Handling : r = handlers[w]
  BY HandlerAt
<1>2. PICK final \in {"completed", "awaiting_external"} :
        final = IF open = {} THEN "completed" ELSE "awaiting_external"
  OBVIOUS
<1>3. PICK h : h = [r EXCEPT !.pc = pc, !.final = final]
  OBVIOUS
<1>4. h \in Handling
  BY <1>3 DEF Handling
<1>5. h.pc = pc /\ h.req = r.req /\ h.final = final
  BY <1>3 DEF Handling
<1>6. /\ handlers' = [handlers EXCEPT ![w] = h]
      /\ UNCHANGED <<requests, tasks, data, controls, held, member, work>>
  BY <1>1, <1>2, <1>3 DEF List, world, IInv, TypeOK
<1>7. HandlerOK(h)
  BY <1>1, <1>2, <1>4, <1>5 DEF Req
<1> QED BY <1>4, <1>6, <1>7, QuietStep, WorldUnmoved

LEMMA ListCorrectionGood ==
  ASSUME IInv, NEW w \in Handlers, ListCorrection(w)
  PROVE  Good
<1>1. /\ handlers[w] # Idle /\ handlers[w].pc = "corrected"
      /\ List(w, PendingTasks(Req(w)), "complete")
  BY DEF ListCorrection, At
<1>2. /\ requests[Req(w)].status # "absent"
      /\ requests[Req(w)].kind = "correction"
  BY <1>1, HandlerAt DEF HandlerOK
<1>3. ASSUME NEW h \in Handling, h.pc = "complete", h.req = Req(w)
      PROVE  HandlerOK(h)
  BY <1>2, <1>3 DEF HandlerOK, Destructive
<1>4. PendingTasks(Req(w)) \in SUBSET Providers
  BY DEF PendingTasks
<1> QED BY <1>1, <1>3, <1>4, ListGood

\* When all tasks exist and none is open, all are closed.
LEMMA NoneOpen ==
  ASSUME TypeOK, NEW q \in Requests, Asked(q), OpenTasks(q) = {}
  PROVE  AllClosed(q)
BY DEF TypeOK, Asked, AllClosed, OpenTasks, Open, TaskStatus

LEMMA ListExportGood ==
  ASSUME IInv, NEW w \in Handlers, ListExport(w)
  PROVE  Good
<1>1. /\ handlers[w] # Idle /\ handlers[w].pc = "exported"
      /\ List(w, OpenTasks(Req(w)), "complete")
  BY DEF ListExport, At
<1>2. /\ requests[Req(w)].status # "absent" /\ Req(w) \in Requests
      /\ requests[Req(w)].kind = "export" /\ Asked(Req(w))
  BY <1>1, HandlerAt DEF HandlerOK
<1>3. ASSUME NEW h \in Handling, h.pc = "complete", h.req = Req(w),
             h.final = "completed" => OpenTasks(Req(w)) = {}
      PROVE  HandlerOK(h)
  <2>1. Listed(h)
    BY <1>2, <1>3, NoneOpen DEF Listed, IInv
  <2> QED BY <1>2, <1>3, <2>1 DEF HandlerOK, Destructive
<1>4. OpenTasks(Req(w)) \in SUBSET Providers
  BY DEF OpenTasks
<1> QED BY <1>1, <1>3, <1>4, ListGood

LEMMA ListDestructionGood ==
  ASSUME IInv, NEW w \in Handlers, ListDestruction(w)
  PROVE  Good
<1>1. handlers[w] # Idle /\ handlers[w].pc = "listing"
  BY DEF ListDestruction, At
<1>2. /\ requests[Req(w)].status # "absent" /\ Req(w) \in Requests
      /\ requests[Req(w)].kind \in Destructive
  BY <1>1, HandlerAt DEF HandlerOK
<1>3. CASE ClerkDone(Req(w)) /\ List(w, OpenTasks(Req(w)), "destroy")
  <2>1. Asked(Req(w))
    BY <1>2, <1>3 DEF IInv, RowsOK, RowOK, ClerkDone
  <2>2. ASSUME NEW h \in Handling, h.pc = "destroy", h.req = Req(w),
               h.final = "completed" => OpenTasks(Req(w)) = {}
        PROVE  HandlerOK(h)
    <3>1. Listed(h)
      BY <1>2, <2>1, <2>2, NoneOpen DEF Listed, IInv
    <3> QED BY <1>2, <1>3, <2>2, <3>1 DEF HandlerOK
  <2>3. OpenTasks(Req(w)) \in SUBSET Providers
    BY DEF OpenTasks
  <2> QED BY <1>1, <1>3, <2>2, <2>3, ListGood
<1>4. CASE /\ Leave(w)
           /\ UNCHANGED <<requests, tasks, data, controls, world>>
  <2>1. UNCHANGED <<requests, tasks, data, controls, held, member, work>>
    BY <1>4 DEF world
  <2> QED BY <1>4, <2>1, QuietLeave, WorldUnmoved
<1> QED BY <1>3, <1>4 DEF ListDestruction

LEMMA CorrectGood ==
  ASSUME IInv, NEW w \in Handlers, Correct(w)
  PROVE  Good
<1>1. /\ handlers[w] # Idle /\ handlers[w].pc = "correct"
      /\ UNCHANGED <<requests, tasks, controls, held, member, work>>
      /\ data' \subseteq Parts /\ data \subseteq data'
  BY DEF Correct, At, world, IInv, TypeOK, Parts
<1>2. WorldOK /\ ByTheBook
  BY <1>1 DEF WorldOK, ByTheBook, IInv, TypeOK
<1>3. CASE Leave(w)
  BY <1>1, <1>2, <1>3, QuietLeave
<1>4. CASE Goto(w, "correcting")
  <2>1. /\ requests[Req(w)].status # "absent"
        /\ requests[Req(w)].kind = "correction"
    BY <1>1, HandlerAt DEF HandlerOK
  <2>2. ASSUME NEW h \in Handling, h.pc = "correcting", h.req = Req(w)
        PROVE  HandlerOK(h)
    BY <2>1, <2>2 DEF HandlerOK
  <2> QED BY <1>1, <1>2, <1>4, <2>2, QuietGoto
<1> QED BY <1>3, <1>4 DEF Correct

LEMMA ControlGood ==
  ASSUME IInv, NEW w \in Handlers, Control(w)
  PROVE  Good
<1>1. /\ handlers[w] # Idle /\ handlers[w].pc = "control"
      /\ UNCHANGED <<requests, tasks, data, held, member, work>>
  BY DEF Control, At, world
<1>2. /\ requests[Req(w)].status # "absent"
      /\ requests[Req(w)].kind \in {"restriction", "objection"}
  BY <1>1, HandlerAt DEF HandlerOK
<1>3. controls' \subseteq {"restriction", "objection"}
  BY <1>2 DEF Control, Kind, IInv, TypeOK
<1>4. WorldOK /\ ByTheBook
  BY <1>1, <1>3 DEF WorldOK, ByTheBook, IInv, TypeOK
<1>5. CASE Leave(w)
  BY <1>1, <1>4, <1>5, QuietLeave
<1>6. CASE Goto(w, "complete")
  <2>1. ASSUME NEW h \in Handling, h.pc = "complete", h.req = Req(w)
        PROVE  HandlerOK(h)
    BY <1>2, <2>1 DEF HandlerOK, Destructive
  <2> QED BY <1>1, <1>4, <1>6, <2>1, QuietGoto
<1> QED BY <1>5, <1>6 DEF Control

-----------------------------------------------------------------------------
(* Steps that change requests or tasks.                                    *)

\* Tasks are asked for: those that exist stay as they are.
LEMMA TasksAdded ==
  ASSUME IInv, NEW q \in Requests, NEW providers \in SUBSET Providers,
         AddTasks(q, providers), UNCHANGED requests,
         requests[q].status # "absent",
         providers = Providers \/ requests[q].kind \notin Destructive
  PROVE  /\ tasks' \in [Requests -> [Providers -> TaskStatus]]
         /\ RequestsMove /\ TasksMove /\ RowsOK' /\ Settled
         /\ providers = Providers => Asked(q)'
<1>1. PICK t \in [Providers -> TaskStatus] : t = tasks[q]
  BY DEF IInv, TypeOK
<1>2. PICK next : next = [p \in Providers |->
        IF p \in providers /\ t[p] = "none" THEN "pending" ELSE t[p]]
  OBVIOUS
<1>3. /\ next \in [Providers -> TaskStatus]
      /\ \A p \in Providers :
           /\ t[p] # "none" => next[p] = t[p]
           /\ p \in providers => next[p] # "none"
  BY <1>2 DEF TaskStatus, Open
<1>4. tasks' = [tasks EXCEPT ![q] = next]
  BY <1>1, <1>2 DEF AddTasks
<1>5. /\ tasks' \in [Requests -> [Providers -> TaskStatus]]
      /\ tasks'[q] = next
      /\ \A r \in Requests : r # q => tasks'[r] = tasks[r]
  BY <1>3, <1>4 DEF IInv, TypeOK
<1>6. TasksMove
  BY <1>1, <1>3, <1>5 DEF TasksMove
<1>7. providers = Providers => Asked(q)'
  BY <1>3, <1>5 DEF Asked
<1>8. ASSUME NEW r \in Requests PROVE RowOK(r)'
  <2>1. CASE r # q
    BY <1>5, <2>1 DEF IInv, RowsOK, RowOK, Asked, AllClosed
  <2>2. CASE r = q
    <3>1. RowOK(q) /\ \A p \in Providers :
            tasks[q][p] # "none" => tasks'[q][p] = tasks[q][p]
      BY <1>1, <1>3, <1>5 DEF IInv, RowsOK
    <3>2. AllClosed(q) => AllClosed(q)'
      BY <3>1 DEF AllClosed
    <3>3. Asked(q) => Asked(q)'
      BY <3>1 DEF Asked
    <3>4. requests[q].kind \in Destructive => Asked(q)'
      BY <1>7
    <3> QED BY <2>2, <3>1, <3>2, <3>3, <3>4 DEF RowOK
  <2> QED BY <2>1, <2>2
<1>9. RequestsMove /\ Settled
  BY DEF RequestsMove, Settled
<1> QED BY <1>5, <1>6, <1>7, <1>8, <1>9 DEF RowsOK

\* A request takes a status that its tasks allow.
LEMMA StatusTaken ==
  ASSUME IInv, NEW q \in Requests, NEW s \in Status,
         requests' = [requests EXCEPT ![q].status = s], UNCHANGED tasks,
         requests[q].status \notin {"absent", "completed", "cancelled"},
         s # "absent",
         requests[q].status = "awaiting_external" => s = "completed",
         requests[q].kind \in WithTasks /\ s = "awaiting_external"
           => Asked(q),
         requests[q].kind \in WithTasks /\ s = "completed" => AllClosed(q)
  PROVE  /\ requests' \in [Requests -> Request]
         /\ RequestsMove /\ TasksMove /\ RowsOK' /\ Settled
<1>1. PICK r \in Request : r = requests[q]
  BY DEF IInv, TypeOK
<1>2. PICK next : next = [r EXCEPT !.status = s]
  OBVIOUS
<1>3. next \in Request
  BY <1>2 DEF Request
<1>4. next.status = s /\ next.kind = r.kind
  BY <1>2 DEF Request
<1>5. requests' = [requests EXCEPT ![q] = next]
  BY <1>1, <1>2
<1>6. /\ requests' \in [Requests -> Request]
      /\ requests'[q].status = s /\ requests'[q].kind = requests[q].kind
      /\ \A o \in Requests : o # q => requests'[o] = requests[o]
  BY <1>1, <1>3, <1>4, <1>5 DEF IInv, TypeOK
<1>7. RequestsMove /\ TasksMove
  BY <1>6 DEF RequestsMove, TasksMove
<1>8. Settled
  BY <1>6 DEF Settled
<1>9. ASSUME NEW o \in Requests PROVE RowOK(o)'
  BY <1>6 DEF IInv, RowsOK, RowOK, Asked, AllClosed
<1> QED BY <1>6, <1>7, <1>8, <1>9 DEF RowsOK

\* A step that leaves the world alone is good when its parts are.
LEMMA Assembled ==
  ASSUME IInv, UNCHANGED <<data, controls, held, member, work>>,
         requests' \in [Requests -> Request],
         tasks' \in [Requests -> [Providers -> TaskStatus]],
         RowsOK', Settled,
         HandlersOK', handlers' \in [Handlers -> Handling \cup {Idle}]
  PROVE  Good
BY WorldUnmoved DEF Good, IInv, TypeOK, WorldOK

LEMMA CreateRequestGood ==
  ASSUME IInv, NEW q \in Requests, NEW kind \in AllKinds,
         NEW scope \in {"member", "tenant"}, CreateRequest(q, kind, scope)
  PROVE  Good
<1>1. PICK next \in Request :
        /\ next.kind = kind /\ next.status = "pending_verification"
        /\ requests' = [requests EXCEPT ![q] = next]
  <2>1. PICK next : next = [kind |-> kind, status |-> "pending_verification",
                            subject |-> scope = "member"]
    OBVIOUS
  <2>2. next \in Request
    BY <2>1 DEF Request, Status
  <2>3. next.kind = kind /\ next.status = "pending_verification"
    BY <2>1
  <2> QED BY <2>1, <2>2, <2>3 DEF CreateRequest
<1>2. /\ requests[q].status = "absent"
      /\ UNCHANGED <<tasks, handlers, data, controls, held, member, work>>
  BY DEF CreateRequest, world
<1>3. /\ requests' \in [Requests -> Request]
      /\ requests'[q] = next
      /\ \A o \in Requests : o # q => requests'[o] = requests[o]
  BY <1>1 DEF IInv, TypeOK
<1>4. RequestsMove /\ TasksMove /\ Settled
  BY <1>1, <1>2, <1>3 DEF RequestsMove, TasksMove, Settled
<1>5. ASSUME NEW o \in Requests PROVE RowOK(o)'
  <2>1. CASE o = q
    <3>1. \A p \in Providers : tasks'[q][p] = "none"
      BY <1>2 DEF IInv, RowsOK, RowOK
    <3>2. tasks'[q]["clerk"] = "none"
      BY <3>1 DEF Providers
    <3> QED BY <1>1, <1>3, <2>1, <3>2 DEF RowOK
  <2>2. CASE o # q
    BY <1>2, <1>3, <2>2 DEF IInv, RowsOK, RowOK, Asked, AllClosed
  <2> QED BY <2>1, <2>2
<1>6. HandlersOK' /\ handlers' \in [Handlers -> Handling \cup {Idle}]
  BY <1>2, <1>4, HandlersUnmoved
<1> QED BY <1>2, <1>3, <1>4, <1>5, <1>6, Assembled DEF IInv, TypeOK, RowsOK

\* Begun handlers whose request has just been verified or approved.
LEMMA BegunOK ==
  ASSUME IInv, NEW w \in Handlers, NEW q \in Requests,
         NEW pc \in {"verified", "approved"}, Begun(w, pc, q),
         requests'[q].status # "absent", RequestsMove, TasksMove
  PROVE  HandlersOK' /\ handlers' \in [Handlers -> Handling \cup {Idle}]
<1>1. PICK fit \in BOOLEAN : Enter(w, pc, q, fit)
  BY DEF Begun
<1>2. PICK h : h = [pc |-> pc, req |-> q, fit |-> fit, final |-> "completed"]
  OBVIOUS
<1>3. h \in Handling /\ h.pc = pc /\ h.req = q
  BY <1>2 DEF Handling
<1>4. handlers' = [handlers EXCEPT ![w] = h]
  BY <1>1, <1>2 DEF Enter
<1>5. HandlerOK(h)'
  BY <1>3 DEF HandlerOK
<1> QED BY <1>3, <1>4, <1>5, HandlersStep

LEMMA VerifyGood ==
  ASSUME IInv, NEW w \in Handlers, NEW q \in Requests, Verify(w, q)
  PROVE  Good
<1>1. PICK s \in {"pending_approval", "approved"} :
        requests' = [requests EXCEPT ![q].status = s]
  BY DEF Verify
<1>2. /\ requests[q].status = "pending_verification"
      /\ UNCHANGED <<tasks, data, controls, held, member, work>>
  BY DEF Verify, world
<1>3. /\ requests' \in [Requests -> Request]
      /\ RequestsMove /\ TasksMove /\ RowsOK' /\ Settled
  BY <1>1, <1>2, StatusTaken DEF Status
<1>4. requests'[q].status # "absent"
  BY <1>2, <1>3 DEF RequestsMove
<1>5. HandlersOK' /\ handlers' \in [Handlers -> Handling \cup {Idle}]
  <2>1. CASE UNCHANGED handlers
    BY <1>3, <2>1, HandlersUnmoved
  <2>2. CASE Begun(w, "verified", q)
    BY <1>3, <1>4, <2>2, BegunOK
  <2> QED BY <2>1, <2>2 DEF Verify, Begun
<1> QED BY <1>2, <1>3, <1>5, Assembled DEF IInv, TypeOK

LEMMA ApproveGood ==
  ASSUME IInv, NEW w \in Handlers, NEW q \in Requests, Approve(w, q)
  PROVE  Good
<1>1. /\ requests' = [requests EXCEPT ![q].status = "approved"]
      /\ requests[q].status = "pending_approval" /\ Begun(w, "approved", q)
      /\ UNCHANGED <<tasks, data, controls, held, member, work>>
  BY DEF Approve, world, Begun
<1>2. /\ requests' \in [Requests -> Request]
      /\ RequestsMove /\ TasksMove /\ RowsOK' /\ Settled
  BY <1>1, StatusTaken DEF Status
<1>3. requests'[q].status # "absent"
  BY <1>1, <1>2 DEF RequestsMove
<1>4. HandlersOK' /\ handlers' \in [Handlers -> Handling \cup {Idle}]
  BY <1>1, <1>2, <1>3, BegunOK
<1> QED BY <1>1, <1>2, <1>4, Assembled DEF IInv, TypeOK

LEMMA EnsureTasksGood ==
  ASSUME IInv, NEW w \in Handlers, EnsureTasks(w)
  PROVE  Good
<1>1. /\ handlers[w] # Idle /\ AddTasks(Req(w), Providers) /\ Leave(w)
      /\ UNCHANGED <<requests, data, controls, held, member, work>>
  BY DEF EnsureTasks, At, world
<1>2. Req(w) \in Requests /\ requests[Req(w)].status # "absent"
  BY <1>1, HandlerAt DEF HandlerOK
<1>3. /\ tasks' \in [Requests -> [Providers -> TaskStatus]]
      /\ RequestsMove /\ TasksMove /\ RowsOK' /\ Settled
  BY <1>1, <1>2, TasksAdded
<1>4. HandlersOK' /\ handlers' \in [Handlers -> Handling \cup {Idle}]
  BY <1>1, <1>3, LeaveStep
<1> QED BY <1>1, <1>3, <1>4, Assembled DEF IInv, TypeOK

\* A handler goes on after it has asked for tasks.
LEMMA GotoStep ==
  ASSUME IInv, NEW w \in Handlers, handlers[w] # Idle,
         NEW pc \in {"corrected", "exported"}, Goto(w, pc),
         RequestsMove, TasksMove,
         \A h \in Handling : h.pc = pc /\ h.req = Req(w) => HandlerOK(h)'
  PROVE  HandlersOK' /\ handlers' \in [Handlers -> Handling \cup {Idle}]
<1>1. PICK r \in Handling : r = handlers[w]
  BY HandlerAt
<1>2. PICK h : h = [r EXCEPT !.pc = pc]
  OBVIOUS
<1>3. h \in Handling /\ h.pc = pc /\ h.req = r.req
  BY <1>2 DEF Handling
<1>4. handlers' = [handlers EXCEPT ![w] = h]
  BY <1>1, <1>2 DEF Goto
<1>5. HandlerOK(h)'
  BY <1>1, <1>3 DEF Req
<1> QED BY <1>3, <1>4, <1>5, HandlersStep

LEMMA AddClerkTaskGood ==
  ASSUME IInv, NEW w \in Handlers, AddClerkTask(w)
  PROVE  Good
<1>1. /\ handlers[w] # Idle /\ handlers[w].pc = "correcting"
      /\ Goto(w, "corrected")
      /\ UNCHANGED <<requests, data, controls, held, member, work>>
  BY DEF AddClerkTask, At, world
<1>2. /\ Req(w) \in Requests /\ requests[Req(w)].status # "absent"
      /\ requests[Req(w)].kind = "correction"
  BY <1>1, HandlerAt DEF HandlerOK
<1>3. /\ tasks' \in [Requests -> [Providers -> TaskStatus]]
      /\ RequestsMove /\ TasksMove /\ RowsOK' /\ Settled
  <2>1. CASE AddTasks(Req(w), {"clerk"})
    <3>1. {"clerk"} \in SUBSET Providers
      BY DEF Providers
    <3>2. requests[Req(w)].kind \notin Destructive
      BY <1>2 DEF Destructive
    <3> QED BY <1>1, <1>2, <2>1, <3>1, <3>2, TasksAdded
  <2>2. CASE UNCHANGED tasks
    BY <1>1, <2>2, Unmoved
  <2> QED BY <2>1, <2>2 DEF AddClerkTask
<1>4. ASSUME NEW h \in Handling, h.pc = "corrected", h.req = Req(w)
      PROVE  HandlerOK(h)'
  BY <1>1, <1>2, <1>4 DEF HandlerOK
<1>5. HandlersOK' /\ handlers' \in [Handlers -> Handling \cup {Idle}]
  BY <1>1, <1>3, <1>4, GotoStep
<1> QED BY <1>1, <1>3, <1>5, Assembled DEF IInv, TypeOK

LEMMA EnsureExportGood ==
  ASSUME IInv, NEW w \in Handlers, EnsureExport(w)
  PROVE  Good
<1>1. /\ handlers[w] # Idle /\ handlers[w].pc = "export"
      /\ AddTasks(Req(w), Providers)
      /\ UNCHANGED <<requests, data, controls, held, member, work>>
  BY DEF EnsureExport, At, world
<1>2. /\ Req(w) \in Requests /\ requests[Req(w)].status # "absent"
      /\ requests[Req(w)].kind = "export"
  BY <1>1, HandlerAt DEF HandlerOK
<1>3. PICK q \in Requests : q = Req(w)
  BY <1>2
<1>4. /\ tasks' \in [Requests -> [Providers -> TaskStatus]]
      /\ RequestsMove /\ TasksMove /\ RowsOK' /\ Settled
      /\ Asked(q)'
  BY <1>1, <1>2, <1>3, TasksAdded
<1>5. HandlersOK' /\ handlers' \in [Handlers -> Handling \cup {Idle}]
  <2>1. CASE Leave(w)
    BY <1>4, <2>1, LeaveStep
  <2>2. CASE Goto(w, "exported")
    <3>1. ASSUME NEW h \in Handling, h.pc = "exported", h.req = Req(w)
          PROVE  HandlerOK(h)'
      BY <1>1, <1>2, <1>3, <1>4, <3>1 DEF HandlerOK
    <3> QED BY <1>1, <1>4, <2>2, <3>1, GotoStep
  <2> QED BY <2>1, <2>2 DEF EnsureExport
<1> QED BY <1>1, <1>4, <1>5, Assembled DEF IInv, TypeOK

\* A handler ends, with or without a status for its request.
LEMMA StatusStep ==
  ASSUME IInv, NEW w \in Handlers, handlers[w] # Idle, NEW s \in Status,
         Leave(w), UNCHANGED <<tasks, data, controls, held, member, work>>,
         \/ UNCHANGED requests
         \/ /\ requests' = [requests EXCEPT ![Req(w)].status = s]
            /\ requests[Req(w)].status \in {"approved", "blocked"}
            /\ s # "absent"
            /\ requests[Req(w)].kind \in WithTasks /\ s = "awaiting_external"
                 => Asked(Req(w))
            /\ requests[Req(w)].kind \in WithTasks /\ s = "completed"
                 => AllClosed(Req(w))
  PROVE  Good
<1>1. /\ requests' \in [Requests -> Request]
      /\ RequestsMove /\ TasksMove /\ RowsOK' /\ Settled
  <2>1. CASE UNCHANGED requests
    BY <2>1, Unmoved
  <2>2. CASE ~UNCHANGED requests
    <3>1. PICK q \in Requests : q = Req(w)
      BY HandlerAt
    <3> QED BY <2>2, <3>1, StatusTaken
  <2> QED BY <2>1, <2>2
<1>2. HandlersOK' /\ handlers' \in [Handlers -> Handling \cup {Idle}]
  BY <1>1, LeaveStep
<1> QED BY <1>1, <1>2, Assembled DEF IInv, TypeOK

LEMMA CompleteGood ==
  ASSUME IInv, NEW w \in Handlers, Complete(w)
  PROVE  Good
<1>1. /\ handlers[w] # Idle /\ handlers[w].pc = "complete" /\ Leave(w)
      /\ UNCHANGED <<tasks, data, controls, held, member, work>>
  BY DEF Complete, At, world
<1>2. PICK h \in Handling : h = handlers[w]
  BY <1>1, HandlerAt
<1>3. HandlerOK(h) /\ Req(w) = h.req
  BY <1>1, <1>2, HandlerAt
<1>4. PICK s \in {"completed", "awaiting_external"} : s = h.final
  BY DEF Handling
<1>5. /\ requests[Req(w)].kind \in WithTasks => Asked(Req(w))
      /\ requests[Req(w)].kind \in WithTasks /\ s = "completed"
           => AllClosed(Req(w))
  BY <1>1, <1>2, <1>3, <1>4 DEF HandlerOK, Listed, WithTasks
<1>6. \/ UNCHANGED requests
      \/ /\ requests' = [requests EXCEPT ![Req(w)].status = s]
         /\ requests[Req(w)].status = "approved"
  BY <1>2, <1>4 DEF Complete, Completable
<1> QED BY <1>1, <1>5, <1>6, StatusStep DEF Status

LEMMA MarkBlockedGood ==
  ASSUME IInv, NEW w \in Handlers, MarkBlocked(w)
  PROVE  Good
<1>1. /\ handlers[w] # Idle /\ Leave(w)
      /\ UNCHANGED <<tasks, data, controls, held, member, work>>
  BY DEF MarkBlocked, At, world
<1>2. \/ UNCHANGED requests
      \/ /\ requests' = [requests EXCEPT ![Req(w)].status = "blocked"]
         /\ requests[Req(w)].status = "approved"
  BY DEF MarkBlocked, Completable
<1> QED BY <1>1, <1>2, StatusStep DEF Status

LEMMA RetryGood ==
  ASSUME IInv, NEW w \in Handlers, Retry(w)
  PROVE  Good
<1>1. /\ handlers[w] # Idle /\ Leave(w)
      /\ UNCHANGED <<tasks, data, controls, held, member, work>>
  BY DEF Retry, At, world
<1>2. \/ UNCHANGED requests
      \/ /\ requests' = [requests EXCEPT ![Req(w)].status = "approved"]
         /\ requests[Req(w)].status = "blocked"
  BY DEF Retry
<1> QED BY <1>1, <1>2, StatusStep DEF Status

-----------------------------------------------------------------------------
(* Destruction.                                                            *)

\* The tasks of other requests about the member need nothing any more.
LEMMA TasksUnneeded ==
  ASSUME IInv, NEW q \in Requests,
         tasks' = tasks \/ tasks' = Unneeded(q)
  PROVE  /\ tasks' \in [Requests -> [Providers -> TaskStatus]]
         /\ TasksMove /\ tasks'[q] = tasks[q]
         /\ \A r \in Requests, p \in Providers :
              tasks[r][p] = "none" => tasks'[r][p] = "none"
<1>1. CASE tasks' = tasks
  BY <1>1 DEF IInv, TypeOK, TasksMove
<1>2. CASE tasks' = Unneeded(q)
  <2>1. ASSUME NEW r \in Requests
        PROVE  /\ tasks'[r] \in [Providers -> TaskStatus]
               /\ \A p \in Providers :
                    /\ tasks[r][p] = "none" => tasks'[r][p] = "none"
                    /\ tasks[r][p] # "none" => tasks'[r][p] # "none"
                    /\ tasks[r][p] = "closed" => tasks'[r][p] = "closed"
               /\ r = q => tasks'[r] = tasks[r]
    <3>1. PICK t \in [Providers -> TaskStatus] : t = tasks[r]
      BY DEF IInv, TypeOK
    <3>2. tasks'[r] = IF r # q /\ requests[r].subject
            THEN [p \in Providers |->
                    IF t[p] \in Open THEN "closed" ELSE t[p]]
            ELSE t
      BY <1>2, <3>1 DEF Unneeded
    <3>3. CASE r # q /\ requests[r].subject
      BY <3>1, <3>2, <3>3 DEF TaskStatus, Open
    <3>4. CASE ~(r # q /\ requests[r].subject)
      BY <3>1, <3>2, <3>4
    <3> QED BY <3>3, <3>4
  <2>2. tasks' \in [Requests -> [Providers -> TaskStatus]]
    BY <1>2, <2>1 DEF Unneeded
  <2> QED BY <2>1, <2>2 DEF TasksMove
<1> QED BY <1>1, <1>2

\* What a destruction does to the requests: others are cancelled, its own
\* takes the status its handler has worked out, or nothing happens.
Ended(w, rs) ==
  /\ rs \in [Requests -> Request]
  /\ \A r \in Requests :
       /\ rs[r].kind = requests[r].kind
       /\ \/ rs[r].status = requests[r].status
          \/ /\ r # Req(w) /\ requests[r].status \in Cancellable
             /\ rs[r].status = "cancelled"
          \/ /\ r = Req(w) /\ Destroyable(r)
             /\ rs[r].status = handlers[w].final

LEMMA CancelledFields ==
  ASSUME IInv, NEW q \in Requests
  PROVE  /\ Cancelled(q) \in [Requests -> Request]
         /\ Cancelled(q)[q] = requests[q]
         /\ \A r \in Requests :
              /\ Cancelled(q)[r].kind = requests[r].kind
              /\ \/ Cancelled(q)[r].status = requests[r].status
                 \/ /\ r # q /\ requests[r].status \in Cancellable
                    /\ Cancelled(q)[r].status = "cancelled"
<1>1. ASSUME NEW r \in Requests
      PROVE  /\ Cancelled(q)[r] \in Request
             /\ Cancelled(q)[r].kind = requests[r].kind
             /\ \/ Cancelled(q)[r].status = requests[r].status
                \/ /\ r # q /\ requests[r].status \in Cancellable
                   /\ Cancelled(q)[r].status = "cancelled"
  <2>1. PICK s \in Request : s = requests[r]
    BY DEF IInv, TypeOK
  <2>2. PICK gone : gone = [s EXCEPT !.status = "cancelled"]
    OBVIOUS
  <2>3. gone \in Request
    BY <2>2 DEF Request, Status
  <2>4. gone.status = "cancelled" /\ gone.kind = s.kind
    BY <2>2 DEF Request
  <2>5. \/ Cancelled(q)[r] = s
        \/ /\ r # q /\ s.status \in Cancellable
           /\ Cancelled(q)[r] = gone
    BY <2>1, <2>2 DEF Cancelled
  <2> QED BY <2>1, <2>3, <2>4, <2>5
<1>2. Cancelled(q) \in [Requests -> Request]
  BY <1>1 DEF Cancelled
<1>3. Cancelled(q)[q] = requests[q]
  BY DEF Cancelled
<1> QED BY <1>1, <1>2, <1>3

\* others: the requests as they are, or with those cancelled.
LEMMA FinishedEnds ==
  ASSUME IInv, NEW w \in Handlers, handlers[w] # Idle, NEW others, NEW rs,
         others = requests \/ others = Cancelled(Req(w)),
         rs = Finished(w, others)
  PROVE  Ended(w, rs)
<1>1. PICK q \in Requests : q = Req(w)
  BY HandlerAt
<1>2. PICK h \in Handling : h = handlers[w]
  BY HandlerAt
<1>3. /\ others \in [Requests -> Request] /\ others[q] = requests[q]
      /\ \A r \in Requests :
           /\ others[r].kind = requests[r].kind
           /\ \/ others[r].status = requests[r].status
              \/ /\ r # q /\ requests[r].status \in Cancellable
                 /\ others[r].status = "cancelled"
  BY <1>1, CancelledFields DEF IInv, TypeOK
<1>4. PICK o \in Request : o = others[q]
  BY <1>3
<1>5. h.final \in Status
  BY DEF Handling, Status
<1>6. PICK s \in Status :
        s = IF Destroyable(q) THEN h.final ELSE o.status
  BY <1>5 DEF Request
<1>7. PICK next : next = [o EXCEPT !.status = s]
  OBVIOUS
<1>8. next \in Request
  BY <1>7 DEF Request
<1>9. next.status = s /\ next.kind = o.kind
  BY <1>7 DEF Request
<1>10. rs = [others EXCEPT ![q] = next]
  BY <1>1, <1>2, <1>4, <1>6, <1>7 DEF Finished
<1>11. /\ rs \in [Requests -> Request]
       /\ rs[q] = next
       /\ \A r \in Requests : r # q => rs[r] = others[r]
  BY <1>3, <1>8, <1>10
<1>12. ASSUME NEW r \in Requests
       PROVE  /\ rs[r].kind = requests[r].kind
              /\ \/ rs[r].status = requests[r].status
                 \/ /\ r # q /\ requests[r].status \in Cancellable
                    /\ rs[r].status = "cancelled"
                 \/ /\ r = q /\ Destroyable(r)
                    /\ rs[r].status = h.final
  <2>1. CASE r = q
    BY <1>3, <1>4, <1>6, <1>9, <1>11, <2>1
  <2>2. CASE r # q
    BY <1>3, <1>11, <2>2
  <2> QED BY <2>1, <2>2
<1> QED BY <1>1, <1>2, <1>11, <1>12 DEF Ended

LEMMA DestroyStep ==
  ASSUME IInv, NEW w \in Handlers, At(w, "destroy"),
         tasks' = tasks \/ tasks' = Unneeded(Req(w)), Ended(w, requests'),
         Leave(w),
         data' = DataLeft(Req(w)), member' \in Member,
         controls' \subseteq controls, UNCHANGED <<held, work>>
  PROVE  Good
<1>1. handlers[w] # Idle /\ handlers[w].pc = "destroy"
  BY DEF At
<1>2. PICK q \in Requests : q = Req(w)
  BY <1>1, HandlerAt
<1>3. PICK h \in Handling : h = handlers[w]
  BY <1>1, HandlerAt
<1>4. /\ requests[q].kind \in Destructive
      /\ requests[q].status # "absent"
      /\ ClerkDone(q) /\ Asked(q)
      /\ h.final = "completed" => AllClosed(q)
      /\ h.final \in {"completed", "awaiting_external"}
  BY <1>1, <1>2, <1>3, HandlerAt DEF HandlerOK, Listed, Handling
<1>5. /\ tasks' \in [Requests -> [Providers -> TaskStatus]]
      /\ TasksMove /\ tasks'[q] = tasks[q]
      /\ \A r \in Requests, p \in Providers :
           tasks[r][p] = "none" => tasks'[r][p] = "none"
  BY <1>2, TasksUnneeded
<1>6. /\ requests' \in [Requests -> Request]
      /\ \A r \in Requests :
           /\ requests'[r].kind = requests[r].kind
           /\ \/ requests'[r].status = requests[r].status
              \/ /\ r # q /\ requests[r].status \in Cancellable
                 /\ requests'[r].status = "cancelled"
              \/ /\ r = q /\ requests[q].status = "approved"
                 /\ requests'[r].status = h.final
  BY <1>2, <1>3 DEF Ended, Destroyable, Subject
<1>7. RequestsMove
  BY <1>4, <1>6 DEF RequestsMove
<1>8. Settled
  BY <1>4, <1>6 DEF Settled, Cancellable
<1>9. ASSUME NEW r \in Requests PROVE RowOK(r)'
  <2>1. /\ RowOK(r)
        /\ Asked(r) => Asked(r)'
        /\ AllClosed(r) => AllClosed(r)'
    BY <1>5 DEF IInv, RowsOK, TasksMove, Asked, AllClosed
  <2>2. tasks'[r]["clerk"] # "none" => tasks[r]["clerk"] # "none"
    BY <1>5 DEF Providers
  <2>3. CASE requests'[r].status = requests[r].status
    BY <1>5, <1>6, <2>1, <2>2, <2>3 DEF RowOK
  <2>4. CASE r # q /\ requests'[r].status = "cancelled"
    BY <1>6, <2>1, <2>2, <2>4 DEF RowOK
  <2>5. CASE r = q /\ requests'[r].status = h.final
    BY <1>4, <2>1, <2>5 DEF RowOK
  <2> QED BY <1>6, <2>3, <2>4, <2>5
<1>10. HandlersOK' /\ handlers' \in [Handlers -> Handling \cup {Idle}]
  BY <1>5, <1>7, LeaveStep
<1>11. WorldOK
  BY DEF WorldOK, DataLeft, IInv, TypeOK
<1>12. ByTheBook
  <2>1. "identity" \in data \ data' => Destroyable(q)
    BY <1>2 DEF DataLeft
  <2> QED BY <1>4, <2>1 DEF ByTheBook, Destroyable, Subject
<1> QED BY <1>5, <1>6, <1>8, <1>9, <1>10, <1>11, <1>12
        DEF Good, IInv, TypeOK, WorldOK, RowsOK

LEMMA AnonymizeGood ==
  ASSUME IInv, NEW w \in Handlers, Anonymize(w)
  PROVE  Good
<1>1. /\ At(w, "destroy") /\ Leave(w) /\ handlers[w] # Idle
      /\ data' = DataLeft(Req(w))
      /\ tasks' = tasks \/ tasks' = Unneeded(Req(w))
      /\ UNCHANGED <<controls, held, work>>
  BY DEF Anonymize, At
<1>2. PICK others : /\ others = requests \/ others = Cancelled(Req(w))
                    /\ requests' = Finished(w, others)
  BY DEF Anonymize
<1>3. Ended(w, requests')
  BY <1>1, <1>2, FinishedEnds
<1>4. member' \in Member
  BY DEF Anonymize, IInv, TypeOK, Member
<1> QED BY <1>1, <1>3, <1>4, DestroyStep

\* Forgetting whom the requests are about changes no kind and no status.
LEMMA ForgottenFields ==
  ASSUME NEW rs \in [Requests -> Request]
  PROVE  /\ Forgotten(rs) \in [Requests -> Request]
         /\ \A r \in Requests : /\ Forgotten(rs)[r].kind = rs[r].kind
                                 /\ Forgotten(rs)[r].status = rs[r].status
<1>1. ASSUME NEW r \in Requests
      PROVE  /\ Forgotten(rs)[r] \in Request
             /\ Forgotten(rs)[r].kind = rs[r].kind
             /\ Forgotten(rs)[r].status = rs[r].status
  <2>1. PICK s \in Request : s = rs[r]
    OBVIOUS
  <2>2. PICK gone : gone = [s EXCEPT !.subject = FALSE]
    OBVIOUS
  <2>3. gone \in Request
    BY <2>2 DEF Request
  <2>4. gone.kind = s.kind /\ gone.status = s.status
    BY <2>2 DEF Request
  <2>5. Forgotten(rs)[r] = gone
    BY <2>1, <2>2 DEF Forgotten
  <2> QED BY <2>1, <2>3, <2>4, <2>5
<1> QED BY <1>1 DEF Forgotten

LEMMA EraseGood ==
  ASSUME IInv, NEW w \in Handlers, Erase(w)
  PROVE  Good
<1>1. /\ At(w, "destroy") /\ Leave(w) /\ handlers[w] # Idle
      /\ data' = DataLeft(Req(w))
      /\ tasks' = tasks \/ tasks' = Unneeded(Req(w))
      /\ UNCHANGED <<held, work>>
  BY DEF Erase, At
<1>2. PICK finished : finished = Finished(w, Cancelled(Req(w)))
  OBVIOUS
<1>3. Ended(w, finished)
  BY <1>1, <1>2, FinishedEnds
<1>4. requests' = finished \/ requests' = Forgotten(finished)
  BY <1>2 DEF Erase
<1>5. Ended(w, requests')
  <2>1. CASE requests' = finished
    BY <1>3, <2>1
  <2>2. CASE requests' = Forgotten(finished)
    BY <1>3, <2>2, ForgottenFields DEF Ended
  <2> QED BY <1>4, <2>1, <2>2
<1>6. member' \in Member
  BY DEF Erase, IInv, TypeOK, Member
<1>7. controls' \subseteq controls
  BY DEF Erase
<1> QED BY <1>1, <1>5, <1>6, <1>7, DestroyStep

-----------------------------------------------------------------------------
(* Operators at the providers.                                             *)

LEMMA UpdateTaskGood ==
  ASSUME IInv, NEW q \in Requests, NEW p \in Providers,
         NEW to \in {"failed", "closed"}, UpdateTask(q, p, to)
  PROVE  Good
<1>1. /\ tasks[q][p] \in Open
      /\ tasks' = [tasks EXCEPT ![q][p] = to]
      /\ UNCHANGED <<handlers, data, controls, held, member, work>>
  BY DEF UpdateTask, world
<1>2. PICK t \in [Providers -> TaskStatus] : t = tasks[q]
  BY DEF IInv, TypeOK
<1>3. PICK next : next = [t EXCEPT ![p] = to]
  OBVIOUS
<1>4. /\ next \in [Providers -> TaskStatus] /\ next[p] = to
      /\ \A o \in Providers : o # p => next[o] = t[o]
  BY <1>3 DEF TaskStatus, Open
<1>5. tasks' = [tasks EXCEPT ![q] = next]
  BY <1>1, <1>2, <1>3 DEF IInv, TypeOK
<1>6. /\ tasks' \in [Requests -> [Providers -> TaskStatus]]
      /\ tasks'[q] = next
      /\ \A r \in Requests : r # q => tasks'[r] = tasks[r]
  BY <1>4, <1>5 DEF IInv, TypeOK
<1>7. t[p] \notin {"none", "closed"} /\ to # "none"
  BY <1>1, <1>2 DEF Open
<1>8. TasksMove
  BY <1>2, <1>4, <1>6, <1>7 DEF TasksMove
<1>9. requests[q].status \notin {"absent"} /\ ~AllClosed(q)
  BY <1>2, <1>7 DEF IInv, RowsOK, RowOK, AllClosed
<1>10. Asked(q) => Asked(q)'
  BY <1>8 DEF TasksMove, Asked
<1>11. tasks'[q]["clerk"] # "none" => tasks[q]["clerk"] # "none"
  BY <1>2, <1>4, <1>6, <1>7 DEF Providers
<1>12. ASSUME NEW r \in Requests, r # q, requests'[r] = requests[r]
       PROVE  RowOK(r)'
  BY <1>6, <1>12 DEF IInv, RowsOK, RowOK, Asked, AllClosed
<1>13. CASE UNCHANGED requests
  <2>1. RowOK(q)'
    BY <1>9, <1>10, <1>11, <1>13 DEF IInv, RowsOK, RowOK
  <2>2. RowsOK'
    BY <1>12, <1>13, <2>1 DEF RowsOK
  <2>3. RequestsMove /\ Settled
    BY <1>13 DEF RequestsMove, Settled
  <2>4. HandlersOK' /\ handlers' \in [Handlers -> Handling \cup {Idle}]
    BY <1>1, <1>8, <2>3, HandlersUnmoved
  <2> QED BY <1>1, <1>6, <1>13, <2>2, <2>3, <2>4, Assembled
          DEF IInv, TypeOK
<1>14. CASE ~UNCHANGED requests
  <2>1. /\ requests[q].status = "awaiting_external"
        /\ to = "closed" /\ Remaining(q, p) = {}
        /\ requests' = [requests EXCEPT ![q].status = "completed"]
    BY <1>14 DEF UpdateTask
  <2>2. PICK s \in Request : s = requests[q]
    BY DEF IInv, TypeOK
  <2>3. PICK done : done = [s EXCEPT !.status = "completed"]
    OBVIOUS
  <2>4. done \in Request
    BY <2>3 DEF Request, Status
  <2>5. done.status = "completed" /\ done.kind = s.kind
    BY <2>3 DEF Request
  <2>6. /\ requests' \in [Requests -> Request]
        /\ requests'[q] = done
        /\ \A r \in Requests : r # q => requests'[r] = requests[r]
    BY <2>1, <2>2, <2>3, <2>4 DEF IInv, TypeOK
  <2>7. RequestsMove /\ Settled
    BY <2>1, <2>2, <2>5, <2>6 DEF RequestsMove, Settled
  <2>8. requests[q].kind \in WithTasks => AllClosed(q)'
    <3>1. SUFFICES ASSUME requests[q].kind \in WithTasks,
                          NEW o \in Providers
                   PROVE  tasks'[q][o] = "closed"
      BY DEF AllClosed
    <3>2. Asked(q)
      BY <2>1, <3>1 DEF IInv, RowsOK, RowOK
    <3>3. o # p => tasks[q][o] \notin Open
      BY <2>1 DEF Remaining, OpenTasks
    <3>4. o # p => tasks[q][o] = "closed"
      BY <1>2, <3>2, <3>3 DEF Asked, TaskStatus
    <3> QED BY <1>2, <1>4, <1>6, <2>1, <3>4
  <2>9. RowOK(q)'
    BY <1>10, <1>11, <2>2, <2>5, <2>6, <2>8 DEF IInv, RowsOK, RowOK
  <2>10. RowsOK'
    BY <1>12, <2>6, <2>9 DEF RowsOK
  <2>11. HandlersOK' /\ handlers' \in [Handlers -> Handling \cup {Idle}]
    BY <1>1, <1>8, <2>7, HandlersUnmoved
  <2> QED BY <1>1, <1>6, <2>6, <2>7, <2>10, <2>11, Assembled
          DEF IInv, TypeOK
<1> QED BY <1>13, <1>14

-----------------------------------------------------------------------------
(* The theorems.                                                           *)

LEMMA InitOK == Init => IInv
<1> SUFFICES ASSUME Init PROVE IInv
  OBVIOUS
<1>1. NoRequest \in Request /\ NoRequest.status = "absent"
      /\ NoRequest.kind = "export"
  BY DEF NoRequest, Request, AllKinds, Status
<1>2. \A q \in Requests : requests[q] = NoRequest
  BY DEF Init
<1>3. \A q \in Requests, p \in Providers : tasks[q][p] = "none"
  BY DEF Init
<1>4. requests \in [Requests -> Request]
  BY <1>1 DEF Init
<1>5. tasks \in [Requests -> [Providers -> TaskStatus]]
  BY DEF Init, TaskStatus
<1>6. TypeOK
  BY <1>4, <1>5 DEF Init, TypeOK, Member
<1>7. RowsOK
  <2> SUFFICES ASSUME NEW q \in Requests PROVE RowOK(q)
    BY DEF RowsOK
  <2>1. tasks[q]["clerk"] = "none"
    BY <1>3 DEF Providers
  <2> QED BY <1>1, <1>2, <1>3, <2>1 DEF RowOK
<1>8. HandlersOK
  BY DEF Init, HandlersOK
<1> QED BY <1>6, <1>7, <1>8 DEF IInv

LEMMA NextGood ==
  ASSUME IInv, Next
  PROVE  Good
<1>1. CASE ChangeMember \/ ChangeWork \/ ChangeHold
  BY <1>1, WorldGood
<1>2. CASE Make
  BY <1>2, CreateRequestGood DEF Make
<1>3. CASE Operate
  BY <1>3, UpdateTaskGood DEF Operate
<1>4. CASE \E w \in Handlers : Start(w)
  BY <1>4, VerifyGood, ApproveGood, BeginGood, BeginExportGood,
     BeginRetryGood DEF Start
<1>5. CASE \E w \in Handlers : Proceed(w)
  <2>1. PICK w \in Handlers : Proceed(w)
    BY <1>5
  <2>2. CASE EnsureTasks(w) \/ Correct(w) \/ AddClerkTask(w) \/ Control(w)
    BY <2>2, EnsureTasksGood, CorrectGood, AddClerkTaskGood, ControlGood
  <2>3. CASE \/ ListCorrection(w) \/ Complete(w) \/ FindHold(w)
             \/ MarkBlocked(w)
    BY <2>3, ListCorrectionGood, CompleteGood, FindHoldGood,
       MarkBlockedGood
  <2>4. CASE ListDestruction(w) \/ Anonymize(w) \/ Erase(w)
    BY <2>4, ListDestructionGood, AnonymizeGood, EraseGood
  <2>5. CASE EnsureExport(w) \/ ListExport(w) \/ LookAgain(w) \/ Retry(w)
    BY <2>5, EnsureExportGood, ListExportGood, LookAgainGood, RetryGood
  <2> QED BY <2>1, <2>2, <2>3, <2>4, <2>5 DEF Proceed
<1>6. CASE \E w \in Handlers : Crash(w)
  BY <1>6, CrashGood
<1> QED BY <1>1, <1>2, <1>3, <1>4, <1>5, <1>6 DEF Next

\* The strengthening holds throughout.
THEOREM Invariance == Spec => []IInv
<1>1. Init => IInv
  BY InitOK
<1>2. IInv /\ [Next]_vars => IInv'
  <2> SUFFICES ASSUME IInv, [Next]_vars PROVE IInv'
    OBVIOUS
  <2>1. CASE Next
    BY <2>1, NextGood DEF Good
  <2>2. CASE UNCHANGED vars
    <3>1. /\ UNCHANGED <<requests, tasks, handlers>>
          /\ UNCHANGED <<data, controls, held, member, work>>
      BY <2>2 DEF vars
    <3>2. HandlersOK'
      BY <3>1, Unmoved, HandlersUnmoved
    <3> QED BY <3>1, <3>2, Unmoved, Assembled DEF Good, IInv, TypeOK
  <2> QED BY <2>1, <2>2
<1> QED BY <1>1, <1>2, PTL DEF Spec

\* Requests, tasks and handlers stay well formed (SubjectRequests).
THEOREM TypeCorrect == Spec => []TypeOK
BY Invariance, PTL DEF IInv

\* No order of pages, listings, closings and retries completes an export or a
\* destruction that has a task open or missing (completeExternalTask,
\* completePrivacyRequest).
THEOREM CompletionHonest == Spec => []CompletedMeansClosed
<1>1. IInv => CompletedMeansClosed
  BY DEF IInv, RowsOK, RowOK, CompletedMeansClosed, AllClosed, WithTasks
<1> QED BY <1>1, Invariance, PTL

\* The identity of a member goes only by an approved destruction, with Clerk's
\* task closed and neither hold nor open work (anonymizePrivacySubject,
\* erasePrivacySubject).
THEOREM IdentityDestroyedByTheBook == Spec => DestructionByTheBook
<1>1. IInv /\ [Next]_vars => [ByTheBook]_vars
  BY NextGood DEF Good
<1>2. Spec => [][ByTheBook]_vars
  BY <1>1, Invariance, PTL DEF Spec
<1> QED BY <1>2 DEF DestructionByTheBook, ByTheBook

\* Late handlers and operators reopen no completed or cancelled request
\* (markPrivacyRequestBlocked, retryBlockedPrivacyRequest).
THEOREM SettledStays == Spec => RequestsStaySettled
<1>1. IInv /\ [Next]_vars => [Settled]_vars
  BY NextGood DEF Good
<1>2. Spec => [][Settled]_vars
  BY <1>1, Invariance, PTL DEF Spec
<1> QED BY <1>2 DEF RequestsStaySettled, Settled
=============================================================================
