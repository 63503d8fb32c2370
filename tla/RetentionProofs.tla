---------------------------- MODULE RetentionProofs ----------------------------
(***************************************************************************)
(* What is proved of Retention for every number of records, policies,      *)
(* holds and runs, any order of classes, any size of batches, and however  *)
(* many checkpoints overlap or die.                                        *)
(*                                                                         *)
(* A checkpoint reports what it found when it looked, which may be long    *)
(* ago.  It is right all the same because what it found stays true: what   *)
(* is gone does not come back, tasks are not withdrawn, and who was ever   *)
(* under a hold or a restriction is so for good (Moves, GoneKept).  RunOK  *)
(* says that the classes before the cursor of a run are gone and reported, *)
(* CheckpointOK the same of a checkpoint's own copy of the cursor, which   *)
(* may be ahead of the run's or behind it.                                 *)
(***************************************************************************)
EXTENDS Retention, TLAPS

\* Nobody ever placed the record under a hold or a restriction.
Untouched(r) ==
  /\ SubjectOf[r] \notin restricted
  /\ \A h \in Holds : holds[h].status # "absent" => ~Covers(holds[h].subject, r)

\* Nothing of the class is left for the run.
Gone(k, c) ==
  /\ \A r \in rows : ClassOf[r] = c /\ r \in runs[k].due => ~Untouched(r)
  /\ c \in External \cup {"acars"} => [run |-> k, class |-> c] \in tasks

Positions == 1 .. Len(Order)

GoneBefore(k, n) ==
  runs[k].mode = "execute" => \A i \in Positions : i < n => Gone(k, Order[i])

ReportedBefore(report, n) == \A i \in Positions : i < n => Order[i] \in report

Rests(k) ==
  LET dry == runs[k].dryRun IN
  runs[k].mode = "execute" =>
    /\ CompletedDry(dry)
    /\ runs[dry].policy = runs[k].policy
    /\ runs[dry].due = runs[k].due

RunOK(k) ==
  /\ runs[k].status = "completed" <=> runs[k].cursor = Len(Order) + 1
  /\ ReportedBefore(runs[k].report, runs[k].cursor)
  /\ GoneBefore(k, runs[k].cursor)
  /\ Rests(k)

RunsOK == \A k \in DOMAIN runs : RunOK(k)

CheckpointOK(h) ==
  /\ h.key \in DOMAIN runs
  /\ ReportedBefore(h.report, h.cursor)
  /\ GoneBefore(h.key, h.cursor)
  /\ h.pc = "batched" =>
       runs[h.key].mode = "execute" /\ Order[h.cursor] \notin External
  /\ h.pc = "report" /\ ~h.again /\ runs[h.key].mode = "execute"
       => Gone(h.key, Order[h.cursor])

CheckpointsOK == \A w \in Workers : workers[w] # Idle => CheckpointOK(workers[w])

\* A hold found what it covers, and still has it.
HoldOK(h) ==
  Blocking(h) =>
    \A r \in holds[h].found :
      /\ Covers(holds[h].subject, r)
      /\ r \in rows \/ (FlightOf[r] # Null /\ FlightOf[r] \notin holds[h].found)

HoldsOK == \A h \in Holds : HoldOK(h)

IInv == TypeOK /\ RunsOK /\ CheckpointsOK /\ HoldsOK

\* What no step undoes.
RunsMove ==
  /\ DOMAIN runs \subseteq DOMAIN runs'
  /\ \A k \in DOMAIN runs :
       /\ runs'[k].mode = runs[k].mode /\ runs'[k].policy = runs[k].policy
       /\ runs'[k].due = runs[k].due /\ runs'[k].dryRun = runs[k].dryRun
       /\ runs[k].status = "completed" => runs'[k].status = "completed"

WorldMoves ==
  /\ rows' \subseteq rows /\ tasks \subseteq tasks'
  /\ restricted \subseteq restricted'
  /\ \A h \in Holds : holds[h].status # "absent" =>
       /\ holds'[h].status # "absent"
       /\ holds'[h].subject = holds[h].subject

-----------------------------------------------------------------------------
(* What was found stays true.                                              *)

LEMMA UntouchedBefore ==
  ASSUME WorldMoves, NEW r, Untouched(r)'
  PROVE  Untouched(r)
BY DEF WorldMoves, Untouched, Covers

LEMMA GoneKept ==
  ASSUME RunsMove, WorldMoves, NEW k \in DOMAIN runs, NEW c, Gone(k, c)
  PROVE  Gone(k, c)'
<1>1. ASSUME NEW r \in rows', ClassOf[r] = c, r \in runs'[k].due
      PROVE  ~Untouched(r)'
  <2>1. r \in rows /\ r \in runs[k].due
    BY <1>1 DEF RunsMove, WorldMoves
  <2>2. ~Untouched(r)
    BY <1>1, <2>1 DEF Gone
  <2> QED BY <2>2, UntouchedBefore
<1>2. c \in External \cup {"acars"} => [run |-> k, class |-> c] \in tasks'
  BY DEF Gone, WorldMoves
<1> QED BY <1>1, <1>2 DEF Gone

LEMMA GoneBeforeKept ==
  ASSUME RunsMove, WorldMoves, NEW k \in DOMAIN runs, NEW n, GoneBefore(k, n)
  PROVE  GoneBefore(k, n)'
<1>1. runs'[k].mode = runs[k].mode
  BY DEF RunsMove
<1>2. ASSUME NEW i \in Positions, i < n, runs[k].mode = "execute"
      PROVE  Gone(k, Order[i])'
  BY <1>2, GoneKept DEF GoneBefore
<1> QED BY <1>1, <1>2 DEF GoneBefore, Positions

LEMMA RestsKept ==
  ASSUME RunsMove, NEW k \in DOMAIN runs, Rests(k)
  PROVE  Rests(k)'
BY DEF RunsMove, Rests, CompletedDry, Completed

LEMMA RunKept ==
  ASSUME RunsMove, WorldMoves, NEW k \in DOMAIN runs, RunOK(k),
         runs'[k].cursor = runs[k].cursor, runs'[k].report = runs[k].report,
         runs'[k].status = "completed" => runs[k].status = "completed"
  PROVE  RunOK(k)'
<1>1. GoneBefore(k, runs[k].cursor)'
  <2>1. PICK n : n = runs[k].cursor
    OBVIOUS
  <2>2. GoneBefore(k, n)'
    BY <2>1, GoneBeforeKept DEF RunOK
  <2> QED BY <2>1, <2>2 DEF GoneBefore
<1> QED BY <1>1, RestsKept DEF RunOK, RunsMove, ReportedBefore, Positions

LEMMA RunsUnmoved ==
  ASSUME RunsOK, UNCHANGED runs, WorldMoves
  PROVE  RunsMove /\ RunsOK'
<1>1. RunsMove
  BY DEF RunsMove
<1> QED BY <1>1, RunKept DEF RunsOK

LEMMA CheckpointKept ==
  ASSUME RunsMove, WorldMoves, NEW h, CheckpointOK(h)
  PROVE  CheckpointOK(h)'
<1>1. h.key \in DOMAIN runs
  BY DEF CheckpointOK
<1>2. GoneBefore(h.key, h.cursor)'
  BY <1>1, GoneBeforeKept DEF CheckpointOK
<1>3. Gone(h.key, Order[h.cursor]) => Gone(h.key, Order[h.cursor])'
  BY <1>1, GoneKept
<1> QED BY <1>1, <1>2, <1>3
        DEF CheckpointOK, RunsMove, ReportedBefore, Positions

LEMMA CheckpointsStep ==
  ASSUME IInv, RunsMove, WorldMoves,
         NEW w \in Workers, NEW h \in Processing \cup {Idle},
         workers' = [workers EXCEPT ![w] = h],
         h # Idle => CheckpointOK(h)'
  PROVE  CheckpointsOK' /\ workers' \in [Workers -> Processing \cup {Idle}]
<1>1. workers' \in [Workers -> Processing \cup {Idle}]
  BY DEF IInv, TypeOK
<1>2. ASSUME NEW v \in Workers, workers'[v] # Idle
      PROVE  CheckpointOK(workers[v])'
  <2>1. CASE v = w
    BY <1>2, <2>1 DEF IInv, TypeOK
  <2>2. CASE v # w
    <3>1. PICK g : g = workers[v]
      OBVIOUS
    <3>2. CheckpointOK(g) /\ workers'[v] = g
      BY <1>2, <2>2, <3>1 DEF IInv, TypeOK, CheckpointsOK
    <3>3. CheckpointOK(g)'
      BY <3>2, CheckpointKept
    <3> QED BY <3>2, <3>3
  <2> QED BY <2>1, <2>2
<1> QED BY <1>1, <1>2 DEF CheckpointsOK

LEMMA CheckpointsUnmoved ==
  ASSUME IInv, RunsMove, WorldMoves, UNCHANGED workers
  PROVE  CheckpointsOK' /\ workers' \in [Workers -> Processing \cup {Idle}]
<1>1. ASSUME NEW v \in Workers, workers'[v] # Idle
      PROVE  CheckpointOK(workers[v])'
  <2>1. PICK g : g = workers[v]
    OBVIOUS
  <2>2. CheckpointOK(g) /\ workers'[v] = g
    BY <1>1, <2>1 DEF IInv, TypeOK, CheckpointsOK
  <2> QED BY <2>2, CheckpointKept
<1> QED BY <1>1 DEF CheckpointsOK, IInv, TypeOK

LEMMA HoldsUnmoved ==
  ASSUME IInv, UNCHANGED <<rows, holds>>
  PROVE  HoldsOK'
BY DEF IInv, HoldsOK, HoldOK, Blocking, Covers

LEMMA WorldUnmoved ==
  ASSUME IInv, UNCHANGED <<rows, tasks, holds, restricted>>
  PROVE  WorldMoves
BY DEF WorldMoves

-----------------------------------------------------------------------------
(* Policies, holds, restrictions and time.                                 *)

LEMMA WorldStep ==
  ASSUME IInv, UNCHANGED <<runs, workers>>, WorldMoves, HoldsOK',
         policies' \in [Policies -> PolicyStatus], rows' \subseteq Rows,
         old' \subseteq Rows, holds' \in [Holds -> Hold],
         restricted' \subseteq Subjects,
         tasks' \subseteq [run : Keys, class : Classes],
         crashes' \in 0 .. MaxCrashes
  PROVE  IInv'
<1>1. RunsMove /\ RunsOK'
  BY RunsUnmoved DEF IInv
<1>2. CheckpointsOK' /\ workers' \in [Workers -> Processing \cup {Idle}]
  BY <1>1, CheckpointsUnmoved
<1>3. DOMAIN runs' \subseteq Keys /\ \A k \in DOMAIN runs' : runs'[k] \in Run
  BY DEF IInv, TypeOK
<1>4. TypeOK'
  BY <1>2, <1>3 DEF TypeOK
<1> QED BY <1>1, <1>2, <1>4 DEF IInv

LEMMA PolicyKeeps ==
  ASSUME IInv, NEW p \in Policies, CreatePolicy(p) \/ ApprovePolicy(p)
  PROVE  IInv'
<1>1. UNCHANGED <<runs, rows, old, holds, restricted, tasks, workers, crashes>>
  BY DEF CreatePolicy, ApprovePolicy
<1>2. policies' \in [Policies -> PolicyStatus]
  <2>1. CASE CreatePolicy(p)
    BY <2>1 DEF CreatePolicy, IInv, TypeOK, PolicyStatus
  <2>2. CASE ApprovePolicy(p)
    <3>1. \A q \in Policies : policies[q] \in PolicyStatus
      BY DEF IInv, TypeOK
    <3> QED BY <2>2, <3>1 DEF ApprovePolicy, PolicyStatus
  <2> QED BY <2>1, <2>2
<1>3. WorldMoves /\ HoldsOK'
  BY <1>1, WorldUnmoved, HoldsUnmoved
<1> QED BY <1>1, <1>2, <1>3, WorldStep DEF IInv, TypeOK

\* A hold is placed, approved, released or expires.
LEMMA HoldChanged ==
  ASSUME IInv, NEW h \in Holds, NEW hold \in Hold, ChangeHold(h, hold),
         hold.status # "absent",
         holds[h].status # "absent" => hold.subject = holds[h].subject,
         hold.status \in {"pending", "active"} =>
           \A r \in hold.found :
             /\ Covers(hold.subject, r)
             /\ r \in rows \/ (FlightOf[r] # Null /\ FlightOf[r] \notin hold.found)
  PROVE  IInv'
<1>1. /\ UNCHANGED <<policies, runs, rows, old, restricted, tasks, workers,
                     crashes>>
      /\ holds' = [holds EXCEPT ![h] = hold]
  BY DEF ChangeHold
<1>2. holds \in [Holds -> Hold]
  BY DEF IInv, TypeOK
<1>3. /\ holds' \in [Holds -> Hold] /\ holds'[h] = hold
      /\ \A g \in Holds \ {h} : holds'[g] = holds[g]
  BY <1>1, <1>2
<1>4. WorldMoves
  BY <1>1, <1>3 DEF WorldMoves
<1>5. HoldsOK'
  <2> SUFFICES ASSUME NEW g \in Holds PROVE HoldOK(g)'
    BY DEF HoldsOK
  <2>1. CASE g = h
    BY <1>1, <1>3, <2>1 DEF HoldOK, Blocking, Covers
  <2>2. CASE g # h
    <3>1. HoldOK(g) /\ holds'[g] = holds[g]
      BY <1>3, <2>2 DEF IInv, HoldsOK
    <3> QED BY <1>1, <3>1 DEF HoldOK, Blocking, Covers
  <2> QED BY <2>1, <2>2
<1> QED BY <1>1, <1>3, <1>4, <1>5, WorldStep DEF IInv, TypeOK

LEMMA HoldKeeps ==
  ASSUME IInv, HoldStep
  PROVE  IInv'
<1>1. PICK h \in Holds :
        \/ \E s \in Subjects \cup {Null} : CreateHold(h, s)
        \/ ApproveHold(h) \/ ReleaseHold(h) \/ ExpireHold(h)
  BY DEF HoldStep
<1>2. PICK before \in Hold : before = holds[h]
  BY DEF IInv, TypeOK
<1>3. CASE \E s \in Subjects \cup {Null} : CreateHold(h, s)
  <2>1. PICK s \in Subjects \cup {Null} : CreateHold(h, s)
    BY <1>3
  <2>2. PICK hold : hold = [status |-> "pending", subject |-> s,
                            found |-> {r \in rows : Covers(s, r)}]
    OBVIOUS
  <2>3. hold \in Hold /\ hold.status = "pending" /\ hold.subject = s
        /\ hold.found = {r \in rows : Covers(s, r)}
    BY <2>2 DEF Hold, IInv, TypeOK
  <2>4. ChangeHold(h, hold) /\ holds[h].status = "absent"
    BY <2>1, <2>2 DEF CreateHold
  <2> QED BY <2>3, <2>4, HoldChanged
<1>4. CASE ApproveHold(h)
  <2>1. PICK hold : hold = [before EXCEPT !.status = "active"]
    OBVIOUS
  <2>2. hold \in Hold /\ hold.status = "active"
        /\ hold.subject = before.subject /\ hold.found = before.found
    BY <1>2, <2>1 DEF Hold
  <2>3. ChangeHold(h, hold) /\ HoldOK(h) /\ before.status = "pending"
    BY <1>2, <1>4, <2>1 DEF ApproveHold, IInv, HoldsOK
  <2> QED BY <1>2, <2>2, <2>3, HoldChanged DEF HoldOK, Blocking
<1>5. CASE ReleaseHold(h) \/ ExpireHold(h)
  <2>1. PICK hold : hold = [before EXCEPT !.status = "over", !.found = {}]
    OBVIOUS
  <2>2. hold \in Hold /\ hold.status = "over" /\ hold.subject = before.subject
    BY <1>2, <2>1 DEF Hold
  <2>3. ChangeHold(h, hold)
    BY <1>2, <1>5, <2>1 DEF ReleaseHold, ExpireHold
  <2> QED BY <1>2, <2>2, <2>3, HoldChanged
<1> QED BY <1>1, <1>3, <1>4, <1>5

LEMMA RestrictKeeps ==
  ASSUME IInv, NEW s \in Subjects, Restrict(s)
  PROVE  IInv'
<1>1. /\ UNCHANGED <<policies, runs, rows, old, holds, tasks, workers, crashes>>
      /\ restricted' = restricted \cup {s}
  BY DEF Restrict
<1>2. WorldMoves /\ HoldsOK'
  BY <1>1, HoldsUnmoved DEF WorldMoves
<1> QED BY <1>1, <1>2, WorldStep DEF IInv, TypeOK

LEMMA AgeKeeps ==
  ASSUME IInv, NEW r \in Rows, Age(r)
  PROVE  IInv'
<1>1. /\ UNCHANGED <<policies, runs, rows, holds, restricted, tasks, workers,
                     crashes>>
      /\ old' = old \cup {r}
  BY DEF Age
<1>2. WorldMoves /\ HoldsOK'
  BY <1>1, HoldsUnmoved, WorldUnmoved
<1> QED BY <1>1, <1>2, WorldStep DEF IInv, TypeOK

-----------------------------------------------------------------------------
(* One run changes.                                                        *)

\* The run goes on as the run it was.
SameRun(r, k) ==
  /\ r.mode = runs[k].mode /\ r.policy = runs[k].policy
  /\ r.due = runs[k].due /\ r.dryRun = runs[k].dryRun
  /\ runs[k].status = "completed" => r.status = "completed"

LEMMA RunChanged ==
  ASSUME IInv, WorldMoves, NEW k \in DOMAIN runs, NEW r \in Run, SameRun(r, k),
         runs' = [runs EXCEPT ![k] = r]
  PROVE  /\ RunsMove
         /\ DOMAIN runs' \subseteq Keys /\ \A j \in DOMAIN runs' : runs'[j] \in Run
         /\ DOMAIN runs' = DOMAIN runs /\ runs'[k] = r
         /\ RunOK(k)' => RunsOK'
<1>1. /\ DOMAIN runs' = DOMAIN runs /\ runs'[k] = r
      /\ \A j \in DOMAIN runs \ {k} : runs'[j] = runs[j]
  OBVIOUS
<1>2. RunsMove
  BY <1>1 DEF RunsMove, SameRun
<1>3. \A j \in DOMAIN runs \ {k} : RunOK(j)'
  BY <1>1, <1>2, RunKept DEF IInv, RunsOK
<1> QED BY <1>1, <1>2, <1>3 DEF RunsOK, IInv, TypeOK

\* Its status changes, and that it is stale, but not to or from completed.
LEMMA StatusChanged ==
  ASSUME IInv, WorldMoves, NEW k \in DOMAIN runs, NEW r,
         r = [runs[k] EXCEPT !.status = r.status, !.stale = r.stale],
         r.status \in {"queued", "running", "failed"}, r.stale \in BOOLEAN,
         runs[k].status # "completed",
         runs' = [runs EXCEPT ![k] = r]
  PROVE  /\ RunsMove /\ RunsOK'
         /\ DOMAIN runs' \subseteq Keys /\ \A j \in DOMAIN runs' : runs'[j] \in Run
         /\ DOMAIN runs' = DOMAIN runs
<1>1. PICK b \in Run : b = runs[k]
  BY DEF IInv, TypeOK
<1>2. PICK status \in {"queued", "running", "failed"} : status = r.status
  OBVIOUS
<1>3. PICK stale \in BOOLEAN : stale = r.stale
  OBVIOUS
<1>4. r = [b EXCEPT !.status = status, !.stale = stale]
  BY <1>1, <1>2, <1>3
<1>5. /\ r \in Run /\ r.mode = b.mode /\ r.policy = b.policy
      /\ r.due = b.due /\ r.dryRun = b.dryRun /\ r.cursor = b.cursor
      /\ r.report = b.report /\ r.status = status
  BY <1>4 DEF Run
<1>6. SameRun(r, k)
  BY <1>1, <1>5 DEF SameRun
<1>7. /\ RunsMove
      /\ DOMAIN runs' \subseteq Keys /\ \A j \in DOMAIN runs' : runs'[j] \in Run
      /\ DOMAIN runs' = DOMAIN runs /\ runs'[k] = r
      /\ RunOK(k)' => RunsOK'
  BY <1>5, <1>6, RunChanged
<1>8. RunOK(k)'
  <2>1. RunOK(k)
    BY DEF IInv, RunsOK
  <2>2. /\ runs'[k].cursor = runs[k].cursor /\ runs'[k].report = runs[k].report
        /\ runs'[k].status # "completed"
    BY <1>1, <1>2, <1>5, <1>7
  <2> QED BY <1>7, <2>1, <2>2, RunKept
<1> QED BY <1>7, <1>8

\* Runs, tasks, records and checkpoints change, and what surrounds them does
\* not.
LEMMA Assembled ==
  ASSUME IInv, UNCHANGED <<policies, old, holds, restricted>>,
         crashes' \in 0 .. MaxCrashes,
         DOMAIN runs' \subseteq Keys, \A k \in DOMAIN runs' : runs'[k] \in Run,
         RunsOK', HoldsOK', CheckpointsOK',
         workers' \in [Workers -> Processing \cup {Idle}],
         rows' \subseteq Rows, tasks' \subseteq [run : Keys, class : Classes]
  PROVE  IInv'
<1>1. TypeOK'
  BY DEF IInv, TypeOK
<1> QED BY <1>1 DEF IInv

LEMMA RetryKeeps ==
  ASSUME IInv, NEW k \in DOMAIN runs, RetryRun(k) \/ GoStale(k)
  PROVE  IInv'
<1>1. UNCHANGED <<policies, rows, old, holds, restricted, tasks, workers,
                  crashes>>
  BY DEF RetryRun, GoStale, control
<1>2. WorldMoves /\ HoldsOK'
  BY <1>1, WorldUnmoved, HoldsUnmoved
<1>3. PICK b \in Run : b = runs[k]
  BY DEF IInv, TypeOK
<1>4. PICK r : /\ r = [b EXCEPT !.status = r.status, !.stale = r.stale]
               /\ r.status \in {"queued", "running", "failed"}
               /\ r.stale \in BOOLEAN
               /\ runs' = [runs EXCEPT ![k] = r]
               /\ b.status # "completed"
  <2>1. CASE RetryRun(k)
    <3>1. PICK r : r = [b EXCEPT !.status = "queued", !.stale = FALSE]
      OBVIOUS
    <3>2. r.status = "queued" /\ r.stale = FALSE
      BY <3>1 DEF Run
    <3>3. runs' = [runs EXCEPT ![k] = r] /\ b.status = "failed"
      BY <1>3, <2>1, <3>1 DEF RetryRun
    <3> QED BY <3>1, <3>2, <3>3
  <2>2. CASE GoStale(k)
    <3>1. PICK r : r = [b EXCEPT !.stale = TRUE]
      OBVIOUS
    <3>2. r.status = b.status /\ r.stale = TRUE /\ b.status = "running"
      BY <1>3, <2>2, <3>1 DEF Run, GoStale
    <3>3. runs' = [runs EXCEPT ![k] = r]
      BY <1>3, <2>2, <3>1 DEF GoStale
    <3>4. r = [b EXCEPT !.status = r.status, !.stale = r.stale]
      BY <3>1, <3>2 DEF Run
    <3> QED BY <3>2, <3>3, <3>4
  <2> QED BY <2>1, <2>2
<1>5. /\ RunsMove /\ RunsOK'
      /\ DOMAIN runs' \subseteq Keys /\ \A j \in DOMAIN runs' : runs'[j] \in Run
  BY <1>2, <1>3, <1>4, StatusChanged
<1>6. CheckpointsOK' /\ workers' \in [Workers -> Processing \cup {Idle}]
  BY <1>1, <1>2, <1>5, CheckpointsUnmoved
<1> QED BY <1>1, <1>2, <1>5, <1>6, Assembled DEF IInv, TypeOK

-----------------------------------------------------------------------------
(* Queueing.                                                               *)

LEMMA OrderFacts ==
  /\ Len(Order) \in Nat /\ Len(Order) >= 1
  /\ \A i \in Positions : Order[i] \in Classes /\ Order[i] \in AllClasses
<1>1. Order \in Seq(AllClasses) /\ Order # <<>>
  BY RetentionAssumption
<1>2. Len(Order) \in Nat /\ Len(Order) >= 1
  BY <1>1
<1>3. \A i \in Positions : Order[i] \in AllClasses
  BY <1>1 DEF Positions
<1>4. \A i \in Positions : Order[i] \in Classes
  BY DEF Positions, Classes
<1> QED BY <1>2, <1>3, <1>4

LEMMA Inserted ==
  ASSUME IInv, NEW key \in Keys, NEW r \in Run,
         key \notin DOMAIN runs, runs' = [k \in DOMAIN runs \cup {key} |->
                    IF k = key THEN r ELSE runs[k]],
         r.status = "queued", r.cursor = 1,
         r.mode = "execute" =>
           /\ CompletedDry(r.dryRun)
           /\ runs[r.dryRun].policy = r.policy
           /\ runs[r.dryRun].due = r.due,
         UNCHANGED <<policies, rows, old, holds, restricted, tasks, workers,
                     crashes>>
  PROVE  IInv'
<1>1. /\ DOMAIN runs' = DOMAIN runs \cup {key} /\ runs'[key] = r
      /\ \A k \in DOMAIN runs : runs'[k] = runs[k]
  OBVIOUS
<1>2. WorldMoves /\ HoldsOK'
  BY WorldUnmoved, HoldsUnmoved
<1>3. RunsMove
  BY <1>1 DEF RunsMove
<1>4. DOMAIN runs' \subseteq Keys /\ \A k \in DOMAIN runs' : runs'[k] \in Run
  BY <1>1 DEF IInv, TypeOK
<1>5. RunOK(key)'
  <2>1. 1 # Len(Order) + 1 /\ \A i \in Positions : ~(i < 1)
    BY OrderFacts DEF Positions
  <2>2. Rests(key)'
    BY <1>1 DEF Rests, CompletedDry, Completed
  <2> QED BY <1>1, <2>1, <2>2
          DEF RunOK, ReportedBefore, GoneBefore, Positions
<1>6. \A k \in DOMAIN runs : RunOK(k)'
  BY <1>1, <1>2, <1>3, RunKept DEF IInv, RunsOK
<1>7. RunsOK'
  BY <1>1, <1>5, <1>6 DEF RunsOK
<1>8. CheckpointsOK' /\ workers' \in [Workers -> Processing \cup {Idle}]
  BY <1>2, <1>3, CheckpointsUnmoved
<1> QED BY <1>2, <1>4, <1>7, <1>8, Assembled DEF IInv, TypeOK

LEMMA QueueKeeps ==
  ASSUME IInv, QueueStep
  PROVE  IInv'
<1>1. PICK p \in Policies :
        \/ \E key \in DryKeys : QueueDryRun(p, key)
        \/ \E key \in ExecutionKeys, dry \in DOMAIN runs :
             QueueExecution(p, dry, key)
  BY DEF QueueStep
<1>2. ASSUME NEW key \in DryKeys, QueueDryRun(p, key)
      PROVE  IInv'
  <2>1. PICK r : r = [mode |-> "dry_run", policy |-> p, due |-> old,
                      dryRun |-> Null, status |-> "queued", cursor |-> 1,
                      report |-> {}, stale |-> FALSE]
    OBVIOUS
  <2>2. r \in Run /\ r.status = "queued" /\ r.cursor = 1 /\ r.mode = "dry_run"
    BY <2>1, OrderFacts DEF Run, IInv, TypeOK
  <2>3. /\ key \notin DOMAIN runs /\ runs' = [k \in DOMAIN runs \cup {key} |->
                    IF k = key THEN r ELSE runs[k]]
        /\ UNCHANGED <<policies, rows, old, holds, restricted, tasks, workers,
                       crashes>>
    BY <1>2, <2>1 DEF QueueDryRun, Insert
  <2> QED BY <2>2, <2>3, Inserted DEF Keys
<1>3. ASSUME NEW key \in ExecutionKeys, NEW dry \in DOMAIN runs,
             QueueExecution(p, dry, key)
      PROVE  IInv'
  <2>1. PICK due \in SUBSET Rows : due = runs[dry].due
    BY DEF IInv, TypeOK, Run
  <2>2. PICK r : r = [mode |-> "execute", policy |-> p, due |-> due,
                      dryRun |-> dry, status |-> "queued", cursor |-> 1,
                      report |-> {}, stale |-> FALSE]
    OBVIOUS
  <2>3. dry \in Keys
    BY DEF IInv, TypeOK
  <2>4. /\ r \in Run /\ r.status = "queued" /\ r.cursor = 1 /\ r.due = due
        /\ r.dryRun = dry /\ r.policy = p
    BY <2>2, <2>3, OrderFacts DEF Run
  <2>5. /\ key \notin DOMAIN runs /\ runs' = [k \in DOMAIN runs \cup {key} |->
                    IF k = key THEN r ELSE runs[k]]
        /\ UNCHANGED <<policies, rows, old, holds, restricted, tasks, workers,
                       crashes>>
        /\ CompletedDry(dry) /\ runs[dry].policy = p
    BY <1>3, <2>1, <2>2 DEF QueueExecution, Insert, Basis
  <2> QED BY <2>1, <2>4, <2>5, Inserted DEF Keys
<1> QED BY <1>1, <1>2, <1>3

-----------------------------------------------------------------------------
(* Checkpoints.                                                            *)

LEMMA CheckpointAt ==
  ASSUME IInv, NEW w \in Workers, workers[w].pc # "idle"
  PROVE  \E g \in Processing :
           /\ g = workers[w] /\ CheckpointOK(g)
           /\ g.cursor \in Positions /\ Order[g.cursor] \in Classes
<1>1. workers[w] # Idle
  BY DEF Idle
<1>2. workers[w] \in Processing /\ CheckpointOK(workers[w])
  BY <1>1 DEF IInv, TypeOK, CheckpointsOK
<1>3. workers[w].cursor \in Positions
  BY <1>2 DEF Processing, Positions
<1> QED BY <1>2, <1>3, OrderFacts

\* A checkpoint goes on with the next statement, and runs stay as they are.
LEMMA GoesOn ==
  ASSUME IInv, NEW w \in Workers, NEW g \in Processing, NEW h \in Processing,
         g = workers[w], CheckpointOK(g),
         h.key = g.key, h.cursor = g.cursor, h.report = g.report,
         workers' = [workers EXCEPT ![w] = h],
         UNCHANGED <<policies, runs, old, holds, restricted, crashes>>,
         WorldMoves, HoldsOK', rows' \subseteq Rows,
         tasks' \subseteq [run : Keys, class : Classes],
         h.pc = "batched" =>
           runs[h.key].mode = "execute" /\ Order[h.cursor] \notin External,
         h.pc = "report" /\ ~h.again /\ runs[h.key].mode = "execute"
           => Gone(h.key, Order[h.cursor])'
  PROVE  IInv'
<1>1. RunsMove /\ RunsOK'
  BY RunsUnmoved DEF IInv
<1>2. CheckpointOK(g)'
  BY <1>1, CheckpointKept
<1>3. CheckpointOK(h)'
  BY <1>2 DEF CheckpointOK
<1>4. CheckpointsOK' /\ workers' \in [Workers -> Processing \cup {Idle}]
  BY <1>1, <1>3, CheckpointsStep
<1> QED BY <1>1, <1>4, Assembled DEF IInv, TypeOK

LEMMA QuietKeeps ==
  ASSUME IInv, NEW w \in Workers, CheckPolicy(w) \/ Inspect(w) \/ Fail(w)
  PROVE  IInv'
<1>1. UNCHANGED <<runs, rows, tasks, policies, old, holds, restricted, crashes>>
  BY DEF CheckPolicy, Inspect, Fail, control
<1>2. WorldMoves /\ HoldsOK'
  BY <1>1, WorldUnmoved, HoldsUnmoved
<1>3. workers[w].pc # "idle"
  BY DEF CheckPolicy, Inspect, Fail, Step
<1>4. PICK g \in Processing : g = workers[w] /\ CheckpointOK(g)
  BY <1>3, CheckpointAt
<1>5. PICK pc \in {"checked", "failing", "report"} :
        /\ workers' = [workers EXCEPT ![w].pc = pc]
        /\ pc = "report" => runs[g.key].mode = "dry_run"
  BY <1>4 DEF CheckPolicy, Inspect, Fail, Step, RunOf
<1>6. PICK h : h = [g EXCEPT !.pc = pc]
  OBVIOUS
<1>7. h \in Processing /\ h.key = g.key /\ h.cursor = g.cursor
      /\ h.report = g.report /\ h.pc = pc
  BY <1>6 DEF Processing
<1>8. workers' = [workers EXCEPT ![w] = h]
  BY <1>4, <1>5, <1>6
<1> QED BY <1>1, <1>2, <1>4, <1>5, <1>7, <1>8, GoesOn DEF IInv, TypeOK

LEMMA AskProviderKeeps ==
  ASSUME IInv, NEW w \in Workers, AskProvider(w)
  PROVE  IInv'
<1>1. /\ UNCHANGED <<runs, rows, policies, old, holds, restricted, crashes>>
      /\ workers[w].pc = "checked"
      /\ workers' = [workers EXCEPT ![w].pc = "report"]
      /\ Class(w) \in External
      /\ tasks' = tasks \cup {[run |-> workers[w].key, class |-> Class(w)]}
  BY DEF AskProvider, Step, control
<1>2. PICK g \in Processing : /\ g = workers[w] /\ CheckpointOK(g)
                              /\ Order[g.cursor] \in Classes
  BY <1>1, CheckpointAt
<1>3. Class(w) = Order[g.cursor] /\ g.key \in Keys
  BY <1>2 DEF Class, Processing
<1>4. PICK h : h = [g EXCEPT !.pc = "report"]
  OBVIOUS
<1>5. h \in Processing /\ h.key = g.key /\ h.cursor = g.cursor
      /\ h.report = g.report /\ h.pc = "report"
  BY <1>4 DEF Processing
<1>6. workers' = [workers EXCEPT ![w] = h]
  BY <1>1, <1>2, <1>4
<1>7. WorldMoves /\ HoldsOK' /\ tasks' \subseteq [run : Keys, class : Classes]
  BY <1>1, <1>2, <1>3, HoldsUnmoved DEF WorldMoves, IInv, TypeOK
<1>8. Gone(g.key, Order[g.cursor])'
  <2>1. \A r \in rows : ClassOf[r] \notin External
    BY RetentionAssumption DEF IInv, TypeOK
  <2> QED BY <1>1, <1>2, <1>3, <2>1 DEF Gone
<1> QED BY <1>1, <1>2, <1>5, <1>6, <1>7, <1>8, GoesOn DEF IInv, TypeOK

\* What is under a hold or a restriction is not eligible, and goes only with
\* a flight that is not.
LEMMA BatchSpares ==
  ASSUME IInv, NEW w \in Workers, NEW batch \in SUBSET Eligible(w),
         rows' = Without(batch), UNCHANGED holds
  PROVE  HoldsOK'
<1> SUFFICES ASSUME NEW h \in Holds, Blocking(h), NEW r \in holds[h].found
             PROVE  /\ Covers(holds[h].subject, r)
                    /\ \/ r \in rows'
                       \/ FlightOf[r] # Null /\ FlightOf[r] \notin holds[h].found
  BY DEF HoldsOK, HoldOK, Blocking, Covers
<1>1. \A q \in holds[h].found : Covers(holds[h].subject, q)
  BY DEF IInv, HoldsOK, HoldOK
<1>2. \A q \in batch : q \notin holds[h].found /\ q \in Rows
  <2> SUFFICES ASSUME NEW q \in batch PROVE q \notin holds[h].found /\ q \in Rows
    OBVIOUS
  <2>1. ~Protected(q) /\ q \in rows
    BY DEF Eligible
  <2> QED BY <1>1, <2>1 DEF Protected, IInv, TypeOK
<1>3. r \in rows \/ (FlightOf[r] # Null /\ FlightOf[r] \notin holds[h].found)
  BY DEF IInv, HoldsOK, HoldOK
<1>4. CASE r \in rows /\ r \notin rows'
  <2>1. r \notin batch
    BY <1>2
  <2>2. FlightOf[r] \in batch
    BY <1>4, <2>1 DEF Without
  <2>3. FlightOf[r] # Null /\ FlightOf[r] \notin holds[h].found
    BY <1>2, <2>2, RetentionAssumption
  <2> QED BY <1>1, <2>3
<1> QED BY <1>1, <1>3, <1>4

LEMMA BatchKeeps ==
  ASSUME IInv, NEW w \in Workers, Batch(w)
  PROVE  IInv'
<1>1. /\ UNCHANGED <<runs, tasks, policies, old, holds, restricted, crashes>>
      /\ workers[w].pc = "checked" /\ RunOf(w).mode = "execute"
      /\ Class(w) \notin External
  BY DEF Batch, control
<1>2. PICK batch \in SUBSET Eligible(w) :
        /\ rows' = Without(batch)
        /\ workers' = [workers EXCEPT ![w].pc = "batched",
                         ![w].again = (Cardinality(batch) = BatchSize)]
  BY DEF Batch
<1>3. PICK g \in Processing : g = workers[w] /\ CheckpointOK(g)
  BY <1>1, CheckpointAt
<1>4. PICK again \in BOOLEAN : again = (Cardinality(batch) = BatchSize)
  OBVIOUS
<1>5. PICK h : h = [g EXCEPT !.pc = "batched", !.again = again]
  OBVIOUS
<1>6. h \in Processing /\ h.key = g.key /\ h.cursor = g.cursor
      /\ h.report = g.report /\ h.pc = "batched"
  BY <1>5 DEF Processing
<1>7. workers' = [workers EXCEPT ![w] = h]
  BY <1>2, <1>3, <1>4, <1>5
<1>8. HoldsOK'
  BY <1>1, <1>2, BatchSpares
<1>9. rows' \subseteq rows /\ rows' \subseteq Rows
  BY <1>2 DEF Without, IInv, TypeOK
<1>10. WorldMoves
  BY <1>1, <1>9 DEF WorldMoves
<1>11. runs[g.key].mode = "execute" /\ Order[g.cursor] \notin External
  BY <1>1, <1>3 DEF RunOf, Class
<1> QED BY <1>1, <1>3, <1>6, <1>7, <1>8, <1>9, <1>10, <1>11, GoesOn
        DEF IInv, TypeOK

LEMMA InspectRemainingKeeps ==
  ASSUME IInv, NEW w \in Workers, InspectRemaining(w)
  PROVE  IInv'
<1>1. /\ UNCHANGED <<runs, rows, policies, old, holds, restricted, crashes>>
      /\ workers[w].pc = "batched"
      /\ workers' = [workers EXCEPT ![w].pc = "report", ![w].again = More(w)]
      /\ tasks' = IF Class(w) = "acars"
                  THEN tasks \cup {[run |-> workers[w].key, class |-> "acars"]}
                  ELSE tasks
  BY DEF InspectRemaining, control
<1>2. PICK g \in Processing : /\ g = workers[w] /\ CheckpointOK(g)
                              /\ Order[g.cursor] \in Classes
  BY <1>1, CheckpointAt
<1>3. Class(w) = Order[g.cursor] /\ g.key \in Keys
  BY <1>2 DEF Class, Processing
<1>4. PICK again \in BOOLEAN : again = More(w)
  BY <1>2 DEF More, Processing
<1>5. PICK h : h = [g EXCEPT !.pc = "report", !.again = again]
  OBVIOUS
<1>6. h \in Processing /\ h.key = g.key /\ h.cursor = g.cursor
      /\ h.report = g.report /\ h.pc = "report" /\ h.again = again
  BY <1>5 DEF Processing
<1>7. workers' = [workers EXCEPT ![w] = h]
  BY <1>1, <1>2, <1>4, <1>5
<1>8. WorldMoves /\ HoldsOK' /\ tasks' \subseteq [run : Keys, class : Classes]
  BY <1>1, <1>2, <1>3, HoldsUnmoved DEF WorldMoves, IInv, TypeOK
<1>9. ~again => Gone(g.key, Order[g.cursor])'
  <2> SUFFICES ASSUME ~again PROVE Gone(g.key, Order[g.cursor])'
    OBVIOUS
  <2>1. Eligible(w) = {}
    BY <1>4 DEF More
  <2>2. ASSUME NEW r \in rows, ClassOf[r] = Order[g.cursor],
               r \in runs[g.key].due
        PROVE  ~Untouched(r)'
    <3>1. Protected(r)
      BY <1>2, <1>3, <2>1, <2>2 DEF Eligible, RunOf
    <3> QED BY <1>1, <3>1 DEF Protected, Untouched, Blocking, Covers
  <2>3. Order[g.cursor] \notin External
    BY <1>1, <1>2 DEF CheckpointOK
  <2>4. Order[g.cursor] = "acars"
        => [run |-> g.key, class |-> "acars"] \in tasks'
    BY <1>1, <1>2, <1>3
  <2> QED BY <1>1, <2>2, <2>3, <2>4 DEF Gone
<1> QED BY <1>1, <1>2, <1>6, <1>7, <1>8, <1>9, GoesOn DEF IInv, TypeOK

\* The run may be one that another checkpoint has left.
LEMMA ClaimKeeps ==
  ASSUME IInv, NEW k \in DOMAIN runs, NEW w \in Workers, Claim(w, k)
  PROVE  IInv'
<1>1. /\ UNCHANGED <<rows, tasks, policies, old, holds, restricted, crashes>>
      /\ workers[w] = Idle /\ Claimable(k)
      /\ runs' = [runs EXCEPT ![k].status = "running", ![k].stale = FALSE]
      /\ workers' = [workers EXCEPT ![w] =
           [pc |-> "claimed", key |-> k, cursor |-> runs[k].cursor,
            report |-> runs[k].report, again |-> FALSE]]
  BY DEF Claim, control
<1>2. WorldMoves /\ HoldsOK'
  BY <1>1, WorldUnmoved, HoldsUnmoved
<1>3. PICK b \in Run : b = runs[k]
  BY DEF IInv, TypeOK
<1>4. RunOK(k) /\ b.status # "completed"
  BY <1>1, <1>3 DEF IInv, RunsOK, Claimable
<1>5. b.cursor \in Positions
  BY <1>3, <1>4, OrderFacts DEF RunOK, Run, Positions
<1>6. PICK r : r = [b EXCEPT !.status = "running", !.stale = FALSE]
  OBVIOUS
<1>7. r.status = "running" /\ r.stale = FALSE
  BY <1>6 DEF Run
<1>8. runs' = [runs EXCEPT ![k] = r]
  BY <1>1, <1>3, <1>6
<1>9. /\ RunsMove /\ RunsOK' /\ DOMAIN runs' = DOMAIN runs
      /\ DOMAIN runs' \subseteq Keys /\ \A j \in DOMAIN runs' : runs'[j] \in Run
  BY <1>2, <1>3, <1>4, <1>6, <1>7, <1>8, StatusChanged
<1>10. PICK h : h = [pc |-> "claimed", key |-> k, cursor |-> b.cursor,
                     report |-> b.report, again |-> FALSE]
  OBVIOUS
<1>11. h \in Processing /\ h.pc = "claimed" /\ h.key = k
       /\ h.cursor = b.cursor /\ h.report = b.report
  BY <1>5, <1>10 DEF Processing, Positions, Run, IInv, TypeOK
<1>12. CheckpointOK(h)'
  <2>1. CheckpointOK(h)
    BY <1>3, <1>4, <1>11 DEF CheckpointOK, RunOK
  <2> QED BY <1>2, <1>9, <2>1, CheckpointKept
<1>13. workers' = [workers EXCEPT ![w] = h]
  BY <1>1, <1>3, <1>10
<1>14. CheckpointsOK' /\ workers' \in [Workers -> Processing \cup {Idle}]
  BY <1>2, <1>9, <1>11, <1>12, <1>13, CheckpointsStep
<1> QED BY <1>1, <1>2, <1>9, <1>14, Assembled DEF IInv, TypeOK

\* A checkpoint ends.
LEMMA EndKeeps ==
  ASSUME IInv, NEW w \in Workers, Done(w), RunsMove, RunsOK',
         DOMAIN runs' \subseteq Keys, \A k \in DOMAIN runs' : runs'[k] \in Run,
         UNCHANGED <<rows, tasks, policies, old, holds, restricted>>,
         crashes' \in 0 .. MaxCrashes
  PROVE  IInv'
<1>1. WorldMoves /\ HoldsOK'
  BY WorldUnmoved, HoldsUnmoved
<1>2. CheckpointsOK' /\ workers' \in [Workers -> Processing \cup {Idle}]
  BY <1>1, CheckpointsStep DEF Done
<1> QED BY <1>1, <1>2, Assembled DEF IInv, TypeOK

LEMMA RunsAsTheyAre ==
  ASSUME IInv, UNCHANGED <<runs, rows, tasks, holds, restricted>>
  PROVE  /\ RunsMove /\ RunsOK'
         /\ DOMAIN runs' \subseteq Keys /\ \A k \in DOMAIN runs' : runs'[k] \in Run
BY RunsUnmoved, WorldUnmoved DEF IInv, TypeOK

LEMMA CrashKeeps ==
  ASSUME IInv, NEW w \in Workers, Crash(w)
  PROVE  IInv'
<1>1. /\ UNCHANGED <<policies, runs, rows, old, holds, restricted, tasks>>
      /\ Done(w) /\ crashes < MaxCrashes /\ crashes' = crashes + 1
  BY DEF Crash
<1>2. crashes' \in 0 .. MaxCrashes
  BY <1>1, RetentionAssumption DEF IInv, TypeOK
<1> QED BY <1>1, <1>2, RunsAsTheyAre, EndKeeps

LEMMA RecordFailureKeeps ==
  ASSUME IInv, NEW w \in Workers, RecordFailure(w)
  PROVE  IInv'
<1>1. /\ UNCHANGED <<rows, tasks, policies, old, holds, restricted, crashes>>
      /\ workers[w].pc = "failing" /\ Done(w)
  BY DEF RecordFailure, control
<1>2. PICK g \in Processing : g = workers[w] /\ CheckpointOK(g)
  BY <1>1, CheckpointAt
<1>3. PICK k \in DOMAIN runs : k = workers[w].key
  BY <1>2 DEF CheckpointOK
<1>4. /\ RunsMove /\ RunsOK'
      /\ DOMAIN runs' \subseteq Keys /\ \A j \in DOMAIN runs' : runs'[j] \in Run
  <2>1. CASE UNCHANGED runs
    BY <1>1, <2>1, RunsAsTheyAre
  <2>2. CASE /\ runs[k].status \in Unfinished
             /\ runs' = [runs EXCEPT ![k].status = "failed",
                                     ![k].stale = FALSE]
    <3>1. PICK b \in Run : b = runs[k]
      BY DEF IInv, TypeOK
    <3>2. PICK r : r = [b EXCEPT !.status = "failed", !.stale = FALSE]
      OBVIOUS
    <3>3. r.status = "failed" /\ r.stale = FALSE
      BY <3>2 DEF Run
    <3>4. runs' = [runs EXCEPT ![k] = r] /\ runs[k].status # "completed"
      BY <2>2, <3>1, <3>2 DEF Unfinished
    <3>5. WorldMoves
      BY <1>1, WorldUnmoved
    <3> QED BY <3>1, <3>2, <3>3, <3>4, <3>5, StatusChanged
  <2> QED BY <1>3, <2>1, <2>2 DEF RecordFailure
<1> QED BY <1>1, <1>4, EndKeeps DEF IInv, TypeOK

\* The run as a report of checkpoint g leaves it.
Reported(k, g) ==
  LET next == g.cursor + (IF g.again THEN 0 ELSE 1) IN
  [runs[k] EXCEPT !.status = IF next > Len(Order) THEN "completed" ELSE "queued",
                  !.cursor = next,
                  !.report = g.report \cup {Order[g.cursor]},
                  !.stale = FALSE]

LEMMA ReportKeeps ==
  ASSUME IInv, NEW w \in Workers, Report(w)
  PROVE  IInv'
<1>1. /\ UNCHANGED <<rows, tasks, policies, old, holds, restricted, crashes>>
      /\ workers[w].pc = "report" /\ Done(w)
  BY DEF Report, control
<1>2. PICK g \in Processing :
        /\ g = workers[w] /\ CheckpointOK(g)
        /\ g.cursor \in Positions /\ Order[g.cursor] \in Classes
  BY <1>1, CheckpointAt
<1>3. PICK k \in DOMAIN runs : k = g.key
  BY <1>2 DEF CheckpointOK
<1>4. WorldMoves
  BY <1>1, WorldUnmoved
<1>5. CASE UNCHANGED runs
  BY <1>1, <1>5, RunsAsTheyAre, EndKeeps DEF IInv, TypeOK
<1>6. CASE Open(k) /\ runs' = [runs EXCEPT ![k] = Reported(k, g)]
  <2>1. PICK b \in Run : b = runs[k]
    BY DEF IInv, TypeOK
  <2>2. PICK next \in 1 .. Len(Order) + 1 :
          next = g.cursor + (IF g.again THEN 0 ELSE 1)
    BY <1>2, OrderFacts DEF Positions
  <2>3. PICK status \in {"completed", "queued"} :
          status = "completed" <=> next > Len(Order)
    OBVIOUS
  <2>4. PICK report \in SUBSET Classes :
          report = g.report \cup {Order[g.cursor]}
    BY <1>2 DEF Processing
  <2>5. PICK r : r = [b EXCEPT !.status = status, !.cursor = next,
                               !.report = report, !.stale = FALSE]
    OBVIOUS
  <2>6. /\ r \in Run /\ r.status = status /\ r.cursor = next
        /\ r.report = report /\ r.mode = b.mode /\ r.due = b.due
        /\ r.policy = b.policy /\ r.dryRun = b.dryRun
    BY <2>5 DEF Run
  <2>7. runs' = [runs EXCEPT ![k] = r]
    BY <1>6, <2>1, <2>2, <2>3, <2>4, <2>5 DEF Reported
  <2>8. SameRun(r, k)
    BY <1>6, <2>1, <2>6 DEF SameRun, Open, Unfinished
  <2>9. /\ RunsMove
        /\ DOMAIN runs' \subseteq Keys /\ \A j \in DOMAIN runs' : runs'[j] \in Run
        /\ DOMAIN runs' = DOMAIN runs /\ runs'[k] = r
        /\ RunOK(k)' => RunsOK'
    BY <1>4, <2>6, <2>7, <2>8, RunChanged
  <2>10. ReportedBefore(report, next)
    BY <1>2, <2>2, <2>4 DEF ReportedBefore, CheckpointOK, Positions, Processing
  <2>11. GoneBefore(k, next)
    <3> SUFFICES ASSUME NEW i \in Positions, i < next, runs[k].mode = "execute"
                 PROVE  Gone(k, Order[i])
      BY DEF GoneBefore
    <3>1. CASE i < g.cursor
      BY <1>2, <1>3, <3>1 DEF CheckpointOK, GoneBefore
    <3>2. CASE ~(i < g.cursor)
      <4>1. i = g.cursor /\ ~g.again
        BY <1>2, <2>2, <3>2, OrderFacts DEF Positions, Processing
      <4> QED BY <1>1, <1>2, <1>3, <4>1 DEF CheckpointOK
    <3> QED BY <3>1, <3>2
  <2>12. GoneBefore(k, next)'
    BY <1>4, <2>9, <2>11, GoneBeforeKept
  <2>13. Rests(k)'
    BY <2>9, RestsKept DEF IInv, RunsOK, RunOK
  <2>14. status = "completed" <=> next = Len(Order) + 1
    BY <2>2, <2>3, OrderFacts
  <2>15. RunOK(k)'
    BY <2>6, <2>9, <2>10, <2>12, <2>13, <2>14
       DEF RunOK, ReportedBefore, GoneBefore, Positions
  <2> QED BY <1>1, <2>9, <2>15, EndKeeps DEF IInv, TypeOK
<1> QED BY <1>2, <1>3, <1>5, <1>6 DEF Report, Reported, Class

-----------------------------------------------------------------------------
(* The theorems.                                                           *)

LEMMA Initially ==
  ASSUME Init
  PROVE  IInv
<1>1. \A h \in Holds : holds[h] = NoHold
  BY DEF Init
<1>2. NoHold \in Hold /\ NoHold.status = "absent"
  BY DEF NoHold, Hold
<1>3. DOMAIN runs = {}
  BY DEF Init
<1>4. TypeOK
  <2>1. holds \in [Holds -> Hold]
    BY <1>2 DEF Init
  <2>2. policies \in [Policies -> PolicyStatus]
    BY DEF Init, PolicyStatus
  <2> QED BY <1>3, <2>1, <2>2, RetentionAssumption DEF Init, TypeOK
<1>5. RunsOK
  BY <1>3 DEF RunsOK
<1>6. CheckpointsOK
  BY DEF Init, CheckpointsOK
<1>7. HoldsOK
  BY <1>1, <1>2 DEF HoldsOK, HoldOK, Blocking
<1> QED BY <1>4, <1>5, <1>6, <1>7 DEF IInv

LEMMA NextKeeps ==
  ASSUME IInv, Next
  PROVE  IInv'
<1>1. CASE PolicyStep
  BY <1>1, PolicyKeeps DEF PolicyStep
<1>2. CASE HoldStep
  BY <1>2, HoldKeeps
<1>3. CASE QueueStep
  BY <1>3, QueueKeeps
<1>4. CASE \E s \in Subjects : Restrict(s)
  BY <1>4, RestrictKeeps
<1>5. CASE \E r \in Rows : Age(r)
  BY <1>5, AgeKeeps
<1>6. CASE \E k \in DOMAIN runs :
             RetryRun(k) \/ GoStale(k) \/ \E w \in Workers : Claim(w, k)
  BY <1>6, RetryKeeps, ClaimKeeps
<1>7. CASE \E w \in Workers : Proceed(w) \/ Fail(w) \/ Crash(w)
  <2>1. PICK w \in Workers : Proceed(w) \/ Fail(w) \/ Crash(w)
    BY <1>7
  <2>2. CASE CheckPolicy(w) \/ Inspect(w) \/ Fail(w)
    BY <2>2, QuietKeeps
  <2>3. CASE AskProvider(w) \/ Batch(w) \/ InspectRemaining(w)
    BY <2>3, AskProviderKeeps, BatchKeeps, InspectRemainingKeeps
  <2>4. CASE Report(w) \/ RecordFailure(w) \/ Crash(w)
    BY <2>4, ReportKeeps, RecordFailureKeeps, CrashKeeps
  <2> QED BY <2>1, <2>2, <2>3, <2>4 DEF Proceed
<1> QED BY <1>1, <1>2, <1>3, <1>4, <1>5, <1>6, <1>7 DEF Next

\* Runs, checkpoints and holds stay as IInv describes them, whatever overlaps.
THEOREM Invariance == Spec => []IInv
<1>1. Init => IInv
  BY Initially
<1>2. IInv /\ [Next]_vars => IInv'
  <2> SUFFICES ASSUME IInv, [Next]_vars PROVE IInv'
    OBVIOUS
  <2>1. CASE Next
    BY <2>1, NextKeeps
  <2>2. CASE UNCHANGED vars
    <3>1. /\ UNCHANGED <<runs, workers, policies, crashes>>
          /\ UNCHANGED <<rows, old, holds, restricted, tasks>>
      BY <2>2 DEF vars
    <3>2. WorldMoves /\ HoldsOK'
      BY <3>1, WorldUnmoved, HoldsUnmoved
    <3> QED BY <3>1, <3>2, WorldStep DEF IInv, TypeOK
  <2> QED BY <2>1, <2>2
<1> QED BY <1>1, <1>2, PTL DEF Spec

\* Policies, runs, holds and checkpoints stay well formed.
THEOREM TypeCorrect == Spec => []TypeOK
BY Invariance, PTL DEF IInv

\* A completed execution has removed all that was due and never protected, and
\* has asked for what the providers keep (processRetentionRun,
\* updateRetentionRunProgress).
THEOREM CompletionMeansGone == Spec => []CompletedMeansGone
<1>1. IInv => CompletedMeansGone
  <2> SUFFICES ASSUME IInv, NEW k \in DOMAIN runs, Completed(k),
                      runs[k].mode = "execute"
               PROVE  /\ \A r \in rows :
                           ClassOf[r] \in Classes /\ r \in runs[k].due
                           => \/ SubjectOf[r] \in restricted
                              \/ \E h \in Holds :
                                   /\ holds[h].status # "absent"
                                   /\ Covers(holds[h].subject, r)
                      /\ \A c \in Classes \cap (External \cup {"acars"}) :
                           [run |-> k, class |-> c] \in tasks
    BY DEF CompletedMeansGone
  <2>1. \A i \in Positions : Gone(k, Order[i])
    BY OrderFacts
       DEF IInv, RunsOK, RunOK, GoneBefore, Completed, Positions
  <2>2. \A c \in Classes : Gone(k, c)
    BY <2>1 DEF Classes, Positions
  <2> QED BY <2>2 DEF Gone, Untouched
<1> QED BY <1>1, Invariance, PTL

\* An execution rests on a dry run of the same policy and asOf that has seen
\* every class, and stays completed (queueRetentionRun).
THEOREM ExecutionRestsOnDryRun == Spec => []ExecutionHasBasis
<1>1. IInv => ExecutionHasBasis
  <2> SUFFICES ASSUME IInv, NEW k \in DOMAIN runs, runs[k].mode = "execute"
               PROVE  LET dry == runs[k].dryRun IN
                        /\ CompletedDry(dry)
                        /\ runs[dry].policy = runs[k].policy
                        /\ runs[dry].due = runs[k].due
                        /\ runs[dry].report = Classes
    BY DEF ExecutionHasBasis
  <2>1. PICK dry : dry = runs[k].dryRun
    OBVIOUS
  <2>2. /\ CompletedDry(dry)
        /\ runs[dry].policy = runs[k].policy
        /\ runs[dry].due = runs[k].due
    BY <2>1 DEF IInv, RunsOK, RunOK, Rests
  <2>3. dry \in DOMAIN runs /\ runs[dry].status = "completed"
    BY <2>2 DEF CompletedDry, Completed
  <2>4. \A i \in Positions : Order[i] \in runs[dry].report
    BY <2>3, OrderFacts
       DEF IInv, RunsOK, RunOK, ReportedBefore, Positions
  <2>5. Classes \subseteq runs[dry].report
    BY <2>4 DEF Classes, Positions
  <2>6. runs[dry].report \subseteq Classes
    BY <2>3 DEF IInv, TypeOK, Run
  <2> QED BY <2>1, <2>2, <2>5, <2>6
<1> QED BY <1>1, Invariance, PTL

\* A hold keeps what it found from the moment it is placed
\* (retentionProtectionPredicate).
THEOREM HoldsKeep == Spec => []HeldRecordsKept
<1>1. IInv => HeldRecordsKept
  BY DEF IInv, HoldsOK, HoldOK, HeldRecordsKept
<1> QED BY <1>1, Invariance, PTL
=============================================================================
