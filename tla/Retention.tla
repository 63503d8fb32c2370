------------------------------ MODULE Retention ------------------------------
(***************************************************************************)
(* Retention (domain/privacy/service.ts, db/repositories/privacy.ts): two  *)
(* administrators put a policy into force; dry runs count what is due,     *)
(* executions remove it class by class in bounded batches.  The hourly job *)
(* schedules runs and processes them one checkpoint at a time; checkpoints *)
(* of one run overlap when one of them stalls or dies, because a running   *)
(* run nobody updated for ten minutes may be claimed again.                *)
(*                                                                         *)
(* Each statement is a step.  Statements that place, approve, release or   *)
(* look for a legal hold and the batches themselves begin by taking the    *)
(* privacy lock of the tenant, so that their snapshots are in order.  The  *)
(* counts of a report are left out: it is the set of classes inspected.    *)
(* Time is what has become old: a run carries the records that its policy  *)
(* no longer keeps at its asOf, and how long an interval, a dry run or an  *)
(* hour lasts is left open.  Runs are queued in one step: what was read    *)
(* before the insert is fixed, but for the policy, which may as well be    *)
(* retired right after it.  The hourly job queues as an administrator may, *)
(* under keys of its own: one for a policy and an interval, one for an     *)
(* execution of a dry run.                                                 *)
(* Audit rows are left out, and who acts: that the administrator who       *)
(* approves is not the one who created is a condition of one statement.    *)
(***************************************************************************)
EXTENDS Naturals, Sequences, FiniteSets

CONSTANTS
  Rows,          \* the stored records retention is about
  ClassOf,       \* the retention class of each
  SubjectOf,     \* the member each is about, or Null
  FlightOf,      \* the flight whose deletion cascades to it, or Null
  Subjects, Policies, Holds,
  InForce,       \* the policy in force at first, or Null
  Order,         \* RETENTION_CLASS_KEYS, or a part of it, in order
  Aged,          \* the records that are old at first
  BatchSize,
  Workers,       \* checkpoints being processed
  DryKeys, ExecutionKeys,   \* idempotency keys of runs
  Null,
  MaxCrashes     \* bound for model checking

AllClasses == {"memberships", "scheduleRequests", "flights", "telemetry",
               "simbrief", "acars", "oauth", "audit", "logs", "backups"}
External == {"logs", "backups"}
Classes == {Order[i] : i \in 1 .. Len(Order)}

ASSUME RetentionAssumption ==
  /\ Order \in Seq(AllClasses) \ {<<>>}
  /\ ClassOf \in [Rows -> AllClasses \ External]
  /\ SubjectOf \in [Rows -> Subjects \cup {Null}]
  /\ FlightOf \in [Rows -> Rows \cup {Null}]
  /\ Aged \subseteq Rows
  /\ BatchSize \in Nat \ {0}
  /\ MaxCrashes \in Nat
  /\ InForce \in Policies \cup {Null}
  /\ Null \notin Rows \cup Subjects \cup Policies

PolicyStatus == {"absent", "draft", "active", "retired"}
Hold == [status : {"absent", "pending", "active", "over"},
         subject : Subjects \cup {Null},
         found : SUBSET Rows]      \* history: what it protected when placed

Keys == DryKeys \cup ExecutionKeys
Run == [mode : {"dry_run", "execute"}, policy : Policies,
        due : SUBSET Rows,         \* what its policy does not keep at its asOf
        dryRun : Keys \cup {Null},
        status : {"queued", "running", "completed", "failed"},
        cursor : 1 .. Len(Order) + 1, report : SUBSET Classes,
        stale : BOOLEAN]           \* not updated for ten minutes

VARIABLES
  policies,  \* the status of each
  runs,      \* privacy_retention_runs by key
  rows,      \* the records still stored
  old,       \* the records in the state retention asks for, for long enough
  holds, restricted,               \* privacy_legal_holds, restrictedAt
  tasks,     \* privacy_external_tasks of runs: run and class
  workers,   \* the checkpoints under way
  crashes    \* workers lost so far

vars == <<policies, runs, rows, old, holds, restricted, tasks,
          workers, crashes>>
control == <<policies, old, holds, restricted, crashes>>

Idle == [pc |-> "idle"]
Processing == [pc : {"claimed", "checked", "batched", "report", "failing"},
               key : Keys, cursor : 1 .. Len(Order),
              report : SUBSET Classes, again : BOOLEAN]

-----------------------------------------------------------------------------
(* Policies and holds.                                                     *)

CreatePolicy(p) ==
  /\ policies[p] = "absent"
  /\ policies' = [policies EXCEPT ![p] = "draft"]
  /\ UNCHANGED <<runs, rows, old, holds, restricted, tasks, workers,
                 crashes>>

\* Retires the active policy and activates the draft in one statement.
ApprovePolicy(p) ==
  /\ policies[p] = "draft"
  /\ policies' = [q \in Policies |->
                    CASE q = p -> "active"
                      [] q # p /\ policies[q] = "active" -> "retired"
                      [] OTHER -> policies[q]]
  /\ UNCHANGED <<runs, rows, old, holds, restricted, tasks, workers,
                 crashes>>

\* A hold blocks from its creation: pending holds count.
\* Fault: only approved holds count.
Blocking_ActiveOnly(h) == holds[h].status = "active"

Blocking(h) == holds[h].status \in {"pending", "active"}

Covers(subject, r) == subject = Null \/ subject = SubjectOf[r]

Protected(r) ==
  \/ \E h \in Holds : Blocking(h) /\ Covers(holds[h].subject, r)
  \/ SubjectOf[r] # Null /\ SubjectOf[r] \in restricted

ChangeHold(h, hold) ==
  /\ holds' = [holds EXCEPT ![h] = hold]
  /\ UNCHANGED <<policies, runs, rows, old, restricted, tasks,
                 workers, crashes>>

CreateHold(h, subject) ==
  /\ holds[h].status = "absent"
  /\ ChangeHold(h, [status |-> "pending", subject |-> subject,
                    found |-> {r \in rows : Covers(subject, r)}])

ApproveHold(h) ==
  /\ holds[h].status = "pending"
  /\ ChangeHold(h, [holds[h] EXCEPT !.status = "active"])

ReleaseHold(h) ==
  /\ holds[h].status = "active"
  /\ ChangeHold(h, [holds[h] EXCEPT !.status = "over", !.found = {}])

\* expiresAt, where a hold has one, passes.
ExpireHold(h) ==
  /\ Blocking(h)
  /\ ChangeHold(h, [holds[h] EXCEPT !.status = "over", !.found = {}])

\* upsertSubjectRestriction; nothing lifts a restriction.
Restrict(s) ==
  /\ s \notin restricted
  /\ restricted' = restricted \cup {s}
  /\ UNCHANGED <<policies, runs, rows, old, holds, tasks, workers,
                 crashes>>

\* A record has been in its last state for as long as a policy asks for.
Age(r) ==
  /\ r \in rows \ old
  /\ old' = old \cup {r}
  /\ UNCHANGED <<policies, runs, rows, holds, restricted, tasks, workers,
                 crashes>>

-----------------------------------------------------------------------------
(* Queueing runs.                                                          *)

\* createRetentionRun: on conflict do nothing.
Insert(key, mode, p, due, dry) ==
  /\ key \notin DOMAIN runs
  /\ runs' = [k \in DOMAIN runs \cup {key} |->
       IF k = key
       THEN [mode |-> mode, policy |-> p, due |-> due, dryRun |-> dry,
             status |-> "queued", cursor |-> 1, report |-> {}, stale |-> FALSE]
       ELSE runs[k]]
  /\ UNCHANGED <<policies, rows, old, holds, restricted, tasks, workers,
                 crashes>>

Completed(k) == k \in DOMAIN runs /\ runs[k].status = "completed"
CompletedDry(k) == Completed(k) /\ runs[k].mode = "dry_run"

Basis(k, p) == CompletedDry(k) /\ runs[k].policy = p

\* queueRetentionRun and runPrivacyLifecycleCron: under the active policy, for
\* what is old now.
QueueDryRun(p, key) ==
  /\ policies[p] = "active"
  /\ Insert(key, "dry_run", p, old, Null)

\* With the asOf of a completed dry run of the policy; the job, which takes
\* the latest once it is old enough, does no more than that.
QueueExecution(p, dry, key) ==
  /\ policies[p] = "active"
  /\ Basis(dry, p)
  /\ Insert(key, "execute", p, runs[dry].due, dry)

RetryRun(k) ==
  /\ runs[k].status = "failed"
  /\ runs' = [runs EXCEPT ![k].status = "queued", ![k].stale = FALSE]
  /\ UNCHANGED <<policies, rows, old, holds, restricted, tasks,
                 workers, crashes>>

-----------------------------------------------------------------------------
(* Processing one checkpoint: processRetentionRun.                         *)

Unfinished == {"queued", "running"}

\* Ten minutes without an update.
GoStale(k) ==
  /\ runs[k].status = "running" /\ ~runs[k].stale
  /\ runs' = [runs EXCEPT ![k].stale = TRUE]
  /\ UNCHANGED <<rows, tasks, workers, control>>

\* Fault: a run is claimed whatever became of it.
Claimable_Always(k) == TRUE

Claimable(k) ==
  runs[k].status = "queued" \/ (runs[k].status = "running" /\ runs[k].stale)

Claim(w, k) ==
  /\ workers[w] = Idle
  /\ Claimable(k)
  /\ runs' = [runs EXCEPT ![k].status = "running", ![k].stale = FALSE]
  /\ workers' = [workers EXCEPT ![w] =
       [pc |-> "claimed", key |-> k, cursor |-> runs[k].cursor,
        report |-> runs[k].report, again |-> FALSE]]
  /\ UNCHANGED <<rows, tasks, control>>

Step(w, from, to) ==
  /\ workers[w].pc = from
  /\ workers' = [workers EXCEPT ![w].pc = to]

RunOf(w) == runs[workers[w].key]     \* for what never changes: mode, policy,
                                     \* asOf
Class(w) == Order[workers[w].cursor]

\* The policy must still be active; otherwise the checkpoint fails.
CheckPolicy(w) ==
  /\ \/ /\ workers[w].pc = "claimed"
        /\ policies[RunOf(w).policy] = "active"
        /\ Step(w, "claimed", "checked")
     \/ /\ workers[w].pc = "claimed"
        /\ policies[RunOf(w).policy] # "active"
        /\ Step(w, "claimed", "failing")
  /\ UNCHANGED <<runs, rows, tasks, control>>

\* A dry run counts; so does nothing else to the records.
Inspect(w) ==
  /\ Step(w, "checked", "report")
  /\ RunOf(w).mode = "dry_run"
  /\ UNCHANGED <<runs, rows, tasks, control>>

\* Logs and backups are the providers': a task for an operator.
AskProvider(w) ==
  /\ Step(w, "checked", "report")
  /\ RunOf(w).mode = "execute" /\ Class(w) \in External
  /\ tasks' = tasks \cup {[run |-> workers[w].key, class |-> Class(w)]}
  /\ UNCHANGED <<runs, rows, control>>

\* The records of the class whose time was up at asOf, unprotected.
Eligible(w) ==
  {r \in rows \cap RunOf(w).due : ClassOf[r] = Class(w) /\ ~Protected(r)}

\* Fault: one batch finishes a class.
More_Never(w) == FALSE

More(w) == workers[w].again \/ Eligible(w) # {}

\* The rows left by a batch: what is about a deleted flight goes with it.
Without(batch) == {r \in rows \ batch : FlightOf[r] \notin batch}

\* executeRetentionClass: eligible records, at most a batch, and what hangs on
\* deleted flights.  again: hasMore.
Batch(w) ==
  /\ workers[w].pc = "checked"
  /\ RunOf(w).mode = "execute" /\ Class(w) \notin External
  /\ \E batch \in SUBSET Eligible(w) :
       LET n == Cardinality(batch) IN
       /\ n = BatchSize \/ (n < BatchSize /\ batch = Eligible(w))
       /\ rows' = Without(batch)
       /\ workers' = [workers EXCEPT ![w].pc = "batched",
                                     ![w].again = (n = BatchSize)]
  /\ UNCHANGED <<runs, tasks, control>>

\* The remaining records decide whether the class is finished.
InspectRemaining(w) ==
  /\ workers[w].pc = "batched"
  /\ workers' = [workers EXCEPT ![w].pc = "report", ![w].again = More(w)]
  /\ tasks' = IF Class(w) = "acars"
              THEN tasks \cup {[run |-> workers[w].key, class |-> "acars"]}
              ELSE tasks
  /\ UNCHANGED <<runs, rows, control>>

Done(w) == workers' = [workers EXCEPT ![w] = Idle]

\* Fault: a late checkpoint updates a run whatever became of it.
Open_Always(k) == TRUE

\* Completed and failed runs are closed to checkpoints still under way.
Open(k) == runs[k].status \in Unfinished

\* updateRetentionRunProgress
Report(w) ==
  LET k == workers[w].key
      next == workers[w].cursor + (IF workers[w].again THEN 0 ELSE 1)
      completed == next > Len(Order)
  IN
  /\ workers[w].pc = "report"
  /\ IF Open(k)
     THEN runs' = [runs EXCEPT ![k] =
            [@ EXCEPT !.status = IF completed THEN "completed" ELSE "queued",
                      !.cursor = next,
                      !.report = workers[w].report \cup {Class(w)},
                      !.stale = FALSE]]
     ELSE UNCHANGED runs
  /\ Done(w)
  /\ UNCHANGED <<rows, tasks, control>>

\* A statement fails.
Fail(w) ==
  /\ workers[w].pc \in {"claimed", "checked", "batched", "report"}
  /\ Step(w, workers[w].pc, "failing")
  /\ UNCHANGED <<runs, rows, tasks, control>>

\* failRetentionRun
RecordFailure(w) ==
  LET k == workers[w].key IN
  /\ workers[w].pc = "failing"
  /\ IF runs[k].status \in Unfinished
     THEN runs' = [runs EXCEPT ![k].status = "failed", ![k].stale = FALSE]
     ELSE UNCHANGED runs
  /\ Done(w)
  /\ UNCHANGED <<rows, tasks, control>>

\* The instance dies in the middle of a checkpoint.
Crash(w) ==
  /\ workers[w] # Idle /\ crashes < MaxCrashes
  /\ crashes' = crashes + 1
  /\ Done(w)
  /\ UNCHANGED <<policies, runs, rows, old, holds, restricted, tasks>>

-----------------------------------------------------------------------------
NoHold == [status |-> "absent", subject |-> Null, found |-> {}]

Init ==
  /\ policies = [p \in Policies |-> IF p = InForce THEN "active" ELSE "absent"]
  /\ runs = [k \in {} |-> Null]
  /\ rows = Rows
  /\ old = Aged
  /\ holds = [h \in Holds |-> NoHold]
  /\ restricted = {}
  /\ tasks = {}
  /\ workers = [w \in Workers |-> Idle]
  /\ crashes = 0

PolicyStep == \E p \in Policies : CreatePolicy(p) \/ ApprovePolicy(p)

HoldStep == \E h \in Holds :
  \/ \E s \in Subjects \cup {Null} : CreateHold(h, s)
  \/ ApproveHold(h) \/ ReleaseHold(h) \/ ExpireHold(h)

QueueStep == \E p \in Policies :
  \/ \E key \in DryKeys : QueueDryRun(p, key)
  \/ \E key \in ExecutionKeys, dry \in DOMAIN runs :
       QueueExecution(p, dry, key)

Proceed(w) ==
  \/ CheckPolicy(w) \/ Inspect(w) \/ AskProvider(w) \/ Batch(w)
  \/ InspectRemaining(w) \/ Report(w) \/ RecordFailure(w)

Next ==
  \/ PolicyStep \/ HoldStep \/ QueueStep
  \/ \E s \in Subjects : Restrict(s)
  \/ \E r \in Rows : Age(r)
  \/ \E k \in DOMAIN runs :
       RetryRun(k) \/ GoStale(k) \/ \E w \in Workers : Claim(w, k)
  \/ \E w \in Workers : Proceed(w) \/ Fail(w) \/ Crash(w)

Spec == Init /\ [][Next]_vars

-----------------------------------------------------------------------------
(* Properties.                                                             *)

TypeOK ==
  /\ policies \in [Policies -> PolicyStatus]
  /\ DOMAIN runs \subseteq Keys /\ \A k \in DOMAIN runs : runs[k] \in Run
  /\ rows \subseteq Rows
  /\ old \subseteq Rows
  /\ holds \in [Holds -> Hold]
  /\ restricted \subseteq Subjects
  /\ tasks \subseteq [run : Keys, class : Classes]
  /\ workers \in [Workers -> Processing \cup {Idle}]
  /\ crashes \in 0 .. MaxCrashes

\* A completed execution has removed every record that was due at its asOf
\* and that neither a hold nor a restriction ever concerned, however many
\* checkpoints overlapped, stalled or died, and has left the operators one
\* task for each external class (processRetentionRun, claimRetentionRun).
CompletedMeansGone ==
  \A k \in DOMAIN runs :
    Completed(k) /\ runs[k].mode = "execute" =>
      /\ \A r \in rows :
           ClassOf[r] \in Classes /\ r \in runs[k].due
           => \/ SubjectOf[r] \in restricted
              \/ \E h \in Holds : /\ holds[h].status # "absent"
                                  /\ Covers(holds[h].subject, r)
      /\ \A c \in Classes \cap (External \cup {"acars"}) :
           [run |-> k, class |-> c] \in tasks

\* An execution rests on a completed dry run of its policy with the same asOf
\* that inspected every class: no late checkpoint reopens the dry run
\* (queueRetentionRun, updateRetentionRunProgress).
ExecutionHasBasis ==
  \A k \in DOMAIN runs :
    LET dry == runs[k].dryRun IN
    runs[k].mode = "execute" =>
      /\ CompletedDry(dry)
      /\ runs[dry].policy = runs[k].policy
      /\ runs[dry].due = runs[k].due
      /\ runs[dry].report = Classes

\* From the moment it is placed, before its approval as well, a hold that is
\* neither released nor expired keeps what it found, other than what is
\* deleted with a flight of somebody it does not cover
\* (retentionProtectionPredicate).
HeldRecordsKept ==
  \A h \in Holds :
    Blocking(h) =>
      \A r \in holds[h].found :
        r \in rows \/ (FlightOf[r] # Null /\ FlightOf[r] \notin holds[h].found)
=============================================================================
