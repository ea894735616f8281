------------------------------ MODULE TaskStore ------------------------------
(* The durable task store of keryx-store (SqliteStore): the tasks, leases    *)
(* and task_events tables and every operation that changes them.  SQLite is  *)
(* opened with one connection and each operation is one transaction, so each *)
(* operation is one action; an operation that returns an error changes       *)
(* nothing and is the action's guard being false.                            *)
(*                                                                           *)
(* A lease id is made by the daemon from the task and the millisecond of the *)
(* claim (new_lease_id), so within one task the id is leased_at_ms itself.   *)
EXTENDS TaskRules

CONSTANTS Tasks,        \* task ids, numbers so that ORDER BY task_id is <
          Workers,      \* agent ids
          Keys,         \* idempotency keys
          Deadlines,    \* deadlines a submitted envelope may carry
          Durations,    \* lease durations a worker may ask for
          RetryLimits,  \* values of RetryPolicy.max_retries
          LegacyEvents, \* legacy event types ingested
          Limits,       \* batch limits of the two background scans
          MaxMs,        \* i64::MAX, where saturating_add stops
          MaxTime,      \* bound: last millisecond explored
          MaxLag,       \* bound: age of a clock value when it is used
          MaxEvents     \* bound: log length past which no claim, retry or note is added

NoWorker == "no worker"

\* Where a task came from: submitted here, received from another node (its
\* sender is the return peer), or sent to another node that must execute it.
Routes == {"local", "inbound", "outbound"}

ASSUME TasksAssumption == Tasks \subseteq Nat /\ IsFiniteSet(Tasks)
ASSUME WorkersAssumption == NoWorker \notin Workers
ASSUME KeysAssumption == NoKey \notin Keys
ASSUME TimesAssumption ==
    /\ Deadlines \subseteq Nat
    /\ Durations \subseteq Nat \ {0}
    /\ MaxMs \in Nat
    /\ MaxTime \in 0..MaxMs
    /\ MaxLag \in Nat
ASSUME LimitsAssumption == RetryLimits \subseteq Nat /\ Limits \subseteq Nat /\ MaxEvents \in Nat
ASSUME LegacyAssumption == LegacyEvents \subseteq EventTypes \ {"TaskAccepted", "RecoveryAction"}

VARIABLES clock,         \* wall-clock milliseconds
          status,        \* tasks.status, "absent" before the row exists
          retry_count,   \* tasks.retry_count
          dead_lettered, \* tasks.dead_lettered
          deadline_ms,   \* tasks.deadline_ms
          key,           \* tasks.idempotency_key / idempotency_keys
          route,         \* task_transport_context
          lease,         \* the leases row with active = 1, or NoLease
          task_events    \* task_events by sequence

vars == <<clock, status, retry_count, dead_lettered, deadline_ms, key, route,
          lease, task_events>>

NoLease == [active |-> FALSE, worker |-> NoWorker, leased_at |-> 0, expires_at |-> 0]
LeaseRecord == [active : BOOLEAN, worker : Workers \cup {NoWorker},
                leased_at : Nat, expires_at : Nat]
EventRecord == [type : EventTypes, from : Statuses, to : Statuses]

TypeOK == /\ clock \in Nat
          /\ status \in [Tasks -> Statuses]
          /\ retry_count \in [Tasks -> Nat]
          /\ dead_lettered \in [Tasks -> BOOLEAN]
          /\ deadline_ms \in [Tasks -> Nat \cup {NoDeadline}]
          /\ key \in [Tasks -> Keys \cup {NoKey}]
          /\ route \in [Tasks -> Routes]
          /\ lease \in [Tasks -> LeaseRecord]
          /\ task_events \in [Tasks -> Seq(EventRecord)]

Init == /\ clock = 0
        /\ status = [t \in Tasks |-> "absent"]
        /\ retry_count = [t \in Tasks |-> 0]
        /\ dead_lettered = [t \in Tasks |-> FALSE]
        /\ deadline_ms = [t \in Tasks |-> NoDeadline]
        /\ key = [t \in Tasks |-> NoKey]
        /\ route = [t \in Tasks |-> "local"]
        /\ lease = [t \in Tasks |-> NoLease]
        /\ task_events = [t \in Tasks |-> <<>>]
------------------------------------------------------------------------------
(* Building blocks of the transactions.                                      *)

\* A caller reads the clock, then waits for the only connection of the pool.
ReadTimes == {now \in 0..clock : now + MaxLag >= clock}

SaturatingAdd(a, b) == IF a + b > MaxMs THEN MaxMs ELSE a + b

Exists(t) == status[t] # "absent"
DeadlinePassed(t, now) == deadline_ms[t] # NoDeadline /\ deadline_ms[t] <= now

\* Fault: any lease of the worker will do.
LaxPresentsLease(t, id, w) == lease[t].active /\ lease[t].worker = w

\* fetch_active_lease, ensure_matching_lease_id, ensure_matching_worker_id.
PresentsLease(t, id, w) ==
    lease[t].active /\ lease[t].leased_at = id /\ lease[t].worker = w

\* update_task_status and insert_event at next_sequence.
Record(t, type, to) ==
    /\ status' = [status EXCEPT ![t] = to]
    /\ task_events' = [task_events EXCEPT ![t] = Append(@, Event(type, status[t], to))]

\* Fault: nothing is released.
FaultyDeactivate(t) == UNCHANGED lease

Deactivate(t) == lease' = [lease EXCEPT ![t] = NoLease]

LogRoom(t) == Len(task_events[t]) < MaxEvents

fixed == <<deadline_ms, key, route>>
counters == <<retry_count, dead_lettered>>
------------------------------------------------------------------------------
(* Accepting a task.                                                         *)

KeyIsFree(k) == k = NoKey \/ \A u \in Tasks : key[u] # k

\* A new row with its key, its first event and its transport context.  The
\* other outcomes (the same task again, a key or an id already used) change
\* nothing.
InsertTask(t, k, d, r) ==
    /\ status[t] = "absent"
    /\ KeyIsFree(k)
    /\ status' = [status EXCEPT ![t] = "pending"]
    /\ key' = [key EXCEPT ![t] = k]
    /\ deadline_ms' = [deadline_ms EXCEPT ![t] = d]
    /\ route' = [route EXCEPT ![t] = r]
    /\ task_events' = [task_events EXCEPT ![t] = <<Accepted>>]
    /\ UNCHANGED <<clock, counters, lease>>

AcceptTask(t, k, d) == InsertTask(t, k, d, "local")

AcceptTaskWithContext(t, k, d, r) == InsertTask(t, k, d, r)
------------------------------------------------------------------------------
(* Leases.                                                                   *)

\* Both branches of lease_task_with_peer_guard need the task to be executable
\* here and not to be leased, not even by a lease that has expired.
Leasable(t) == Exists(t) /\ route[t] # "outbound" /\ ~lease[t].active

LeaseTask(t, w, now, dur) ==
    /\ LogRoom(t)
    /\ Leasable(t)
    /\ ~DeadlinePassed(t, now)
    /\ LegalTransition(status[t], "running")
    /\ lease' = [lease EXCEPT ![t] =
                    [active |-> TRUE, worker |-> w, leased_at |-> now,
                     expires_at |-> SaturatingAdd(now, dur)]]
    /\ Record(t, "TaskStarted", "running")
    /\ UNCHANGED <<clock, counters, fixed>>

\* Fault: the timeout is logged like a worker's failure.
FaultyLeaseTaskTooLate(t, now) ==
    /\ Leasable(t)
    /\ DeadlinePassed(t, now)
    /\ status[t] \in Live
    /\ Record(t, "TaskFailed", "failed")
    /\ UNCHANGED <<clock, counters, fixed, lease>>

\* The claim comes too late: the task is failed and the claim answers with
\* TaskDeadlineExpired.
LeaseTaskTooLate(t, now) ==
    /\ Leasable(t)
    /\ DeadlinePassed(t, now)
    /\ status[t] \in Live
    /\ Record(t, "TaskTimedOut", "failed")
    /\ UNCHANGED <<clock, counters, fixed, lease>>

\* Fault: an expired lease may be renewed.
FaultyValidLeaseExpiry(t, now, new) == new > now /\ new > lease[t].expires_at

\* ensure_valid_lease_expiry.
ValidLeaseExpiry(t, now, new) ==
    lease[t].expires_at > now /\ new > now /\ new > lease[t].expires_at

RenewLease(t, id, w, now, dur) ==
    /\ status[t] = "running"
    /\ PresentsLease(t, id, w)
    /\ ValidLeaseExpiry(t, now, SaturatingAdd(now, dur))
    /\ lease' = [lease EXCEPT ![t].expires_at = SaturatingAdd(now, dur)]
    /\ UNCHANGED <<clock, status, counters, fixed, task_events>>
------------------------------------------------------------------------------
(* Settling a leased task.  No operation here looks at the lease's expiry.   *)

FinishTaskInTx(t, id, w, to, rc, dl) ==
    /\ PresentsLease(t, id, w)
    /\ LegalTransition(status[t], to)
    /\ Deactivate(t)
    /\ Record(t, EventForTransition(to), to)
    /\ retry_count' = [retry_count EXCEPT ![t] = rc]
    /\ dead_lettered' = [dead_lettered EXCEPT ![t] = dl]
    /\ UNCHANGED <<clock, fixed>>

RetryTaskInTx(t) ==
    /\ status[t] = "running"
    /\ Deactivate(t)
    /\ Record(t, "RecoveryAction", "pending")
    /\ retry_count' = [retry_count EXCEPT ![t] = @ + 1]
    /\ dead_lettered' = [dead_lettered EXCEPT ![t] = FALSE]
    /\ UNCHANGED <<clock, fixed>>

DeadLetterTaskInTx(t) ==
    /\ status[t] = "running"
    /\ Deactivate(t)
    /\ Record(t, "TaskDeadLettered", "failed")
    /\ retry_count' = [retry_count EXCEPT ![t] = @ + 1]
    /\ dead_lettered' = [dead_lettered EXCEPT ![t] = TRUE]
    /\ UNCHANGED <<clock, fixed>>

CompleteTask(t, id, w) ==
    FinishTaskInTx(t, id, w, "completed", retry_count[t], dead_lettered[t])

\* fail_task: no retries at all, retries left, or dead letter.
FailTask(t, id, w, max) ==
    /\ PresentsLease(t, id, w)
    /\ status[t] = "running"
    /\ \/ max = 0 /\ FinishTaskInTx(t, id, w, "failed", retry_count[t], FALSE)
       \/ ShouldRetryAfterFailure(max, retry_count[t]) /\ RetryTaskInTx(t)
       \/ /\ max # 0
          /\ ~ShouldRetryAfterFailure(max, retry_count[t])
          /\ DeadLetterTaskInTx(t)

RetryTask(t, id, w) == LogRoom(t) /\ PresentsLease(t, id, w) /\ RetryTaskInTx(t)

DeadLetterTask(t, id, w) == PresentsLease(t, id, w) /\ DeadLetterTaskInTx(t)
------------------------------------------------------------------------------
(* Cancellation, the two background scans and the other ways to a new status.*)

\* A terminal task is left as it is; a running one needs a live lease, checked
\* with ensure_active_lease_unexpired (a renewal by one millisecond is valid).
CancelTask(t, now) ==
    /\ status[t] \in Live
    /\ status[t] = "running" =>
         lease[t].active /\ ValidLeaseExpiry(t, now, SaturatingAdd(lease[t].expires_at, 1))
    /\ Deactivate(t)
    /\ Record(t, "TaskCanceled", "failed")
    /\ UNCHANGED <<clock, counters, fixed>>

\* Fault: tasks that are being executed are spared.
SparingExpiredDeadlines(now) == {t \in Tasks : status[t] = "pending" /\ DeadlinePassed(t, now)}

ExpiredDeadlines(now) == {t \in Tasks : status[t] \in Live /\ DeadlinePassed(t, now)}

FailExpiredDeadlines(now, limit) ==
    LET batch == OldestFirst(ExpiredDeadlines(now), deadline_ms, limit)
    IN /\ batch # {}
       /\ status' = [t \in Tasks |-> IF t \in batch THEN "failed" ELSE status[t]]
       /\ task_events' = [t \in Tasks |->
            IF t \in batch
            THEN Append(task_events[t], Event("TaskTimedOut", status[t], "failed"))
            ELSE task_events[t]]
       /\ lease' = [t \in Tasks |-> IF t \in batch THEN NoLease ELSE lease[t]]
       /\ UNCHANGED <<clock, counters, fixed>>

\* Fault: a lease that expires at this very millisecond is missed.
FaultyStaleLeases(now) == {t \in Tasks : lease[t].active /\ lease[t].expires_at < now}

StaleLeases(now) == {t \in Tasks : lease[t].active /\ lease[t].expires_at <= now}

RecoverStaleLeases(now, limit) ==
    LET batch == OldestFirst(StaleLeases(now), [t \in Tasks |-> lease[t].expires_at], limit)
    IN /\ batch # {}
       /\ status' = [t \in Tasks |-> IF t \in batch THEN Recovered(status[t]) ELSE status[t]]
       /\ task_events' = [t \in Tasks |->
            IF t \in batch
            THEN Append(task_events[t],
                        Event("RecoveryAction", status[t], Recovered(status[t])))
            ELSE task_events[t]]
       /\ lease' = [t \in Tasks |-> IF t \in batch THEN NoLease ELSE lease[t]]
       /\ UNCHANGED <<clock, counters, fixed>>

TransitionTask(t, to) ==
    /\ LegalTransition(status[t], to)
    /\ Record(t, EventForTransition(to), to)
    /\ IF to \in Terminal THEN Deactivate(t) ELSE UNCHANGED lease
    /\ UNCHANGED <<clock, counters, fixed>>

\* accept_legacy_event: a lifecycle event is stored under its canonical name.
AcceptLegacyLifecycleEvent(t, legacy, to) ==
    /\ <<status[t], legacy, to>> \in LegacyTransitions
    /\ Record(t, EventForTransition(to), to)
    /\ IF to \in Terminal THEN Deactivate(t) ELSE UNCHANGED lease
    /\ UNCHANGED <<clock, counters, fixed>>

AcceptLegacyOperationalEvent(t, legacy) ==
    /\ LogRoom(t)
    /\ <<status[t], legacy>> \in OperationalLegacy
    /\ Record(t, legacy, status[t])
    /\ UNCHANGED <<clock, counters, fixed, lease>>

\* The lifecycle part of ingest_remote_result_with_artifacts: the executor of a
\* task sent to another node reports its outcome.  A pending task is started
\* and finished in the same transaction.
ApplyRemoteResult(t, to) ==
    LET started == IF status[t] = "pending"
                   THEN Append(task_events[t], Event("TaskStarted", "pending", "running"))
                   ELSE task_events[t]
        finish == Event(EventForTransition(to), "running", to)
    IN /\ route[t] = "outbound"
       /\ status[t] \in Live
       /\ status' = [status EXCEPT ![t] = to]
       /\ task_events' = [task_events EXCEPT ![t] = Append(started, finish)]
       /\ UNCHANGED <<clock, counters, fixed, lease>>

Tick == /\ clock < MaxTime
        /\ clock' = clock + 1
        /\ UNCHANGED <<status, counters, fixed, lease, task_events>>
------------------------------------------------------------------------------
Accepting ==
    \E t \in Tasks, k \in Keys \cup {NoKey}, d \in Deadlines \cup {NoDeadline} :
        \/ AcceptTask(t, k, d)
        \/ \E r \in {"inbound", "outbound"} : AcceptTaskWithContext(t, k, d, r)

Leasing ==
    \E t \in Tasks, now \in ReadTimes :
        \/ LeaseTaskTooLate(t, now)
        \/ \E w \in Workers, dur \in Durations :
              \/ LeaseTask(t, w, now, dur)
              \/ \E id \in 0..MaxTime : RenewLease(t, id, w, now, dur)

\* The calls of a worker that presents a lease, its own or an old one.
Settling ==
    \E t \in Tasks, id \in 0..MaxTime, w \in Workers :
        \/ CompleteTask(t, id, w)
        \/ \E max \in RetryLimits : FailTask(t, id, w, max)
        \/ RetryTask(t, id, w)
        \/ DeadLetterTask(t, id, w)

AllTasks == Cardinality(Tasks)

Scanning ==
    \E now \in ReadTimes, limit \in Limits \cup {AllTasks} :
        FailExpiredDeadlines(now, limit) \/ RecoverStaleLeases(now, limit)

Maintaining ==
    \E t \in Tasks :
        \/ \E now \in ReadTimes : CancelTask(t, now)
        \/ \E to \in Live \cup Terminal : TransitionTask(t, to)
        \/ \E legacy \in LegacyEvents :
              \/ AcceptLegacyOperationalEvent(t, legacy)
              \/ \E to \in Live \cup Terminal : AcceptLegacyLifecycleEvent(t, legacy, to)
        \/ \E to \in Terminal : ApplyRemoteResult(t, to)

Next == Accepting \/ Leasing \/ Settling \/ Scanning \/ Maintaining \/ Tick

Spec == Init /\ [][Next]_vars

\* The recovery and the deadline loops run at a fixed interval for as long as
\* the daemon runs, without a limit, each time with a fresh clock value.
Fairness == /\ WF_vars(RecoverStaleLeases(clock, AllTasks))
            /\ WF_vars(FailExpiredDeadlines(clock, AllTasks))
            /\ WF_vars(Tick)

FairSpec == Spec /\ Fairness
------------------------------------------------------------------------------
(* Properties.                                                               *)

\* The event log of every task replays to its snapshot, so that the corruption
\* scan of recover_stale_leases (and with it the daemon's startup) never trips
\* over a task the store itself wrote.
ReplayConsistent ==
    \A t \in Tasks :
        Exists(t) => Replays(task_events[t], status[t], dead_lettered[t], retry_count[t])

\* Execution rights and lifecycle agree.  An active lease belongs to a task that
\* is running here, names its worker and was granted before the task's
\* deadline; settling, cancelling, timing out and recovering all release it for
\* good.  Only a failed task is dead-lettered.
ActiveLeaseOwnsTask ==
    \A t \in Tasks :
        /\ lease[t].active =>
             /\ status[t] = "running"
             /\ lease[t].worker \in Workers
             /\ route[t] # "outbound"
             /\ deadline_ms[t] # NoDeadline => lease[t].leased_at < deadline_ms[t]
        /\ ~lease[t].active => lease[t] = NoLease
        /\ dead_lettered[t] => status[t] = "failed"

\* An idempotency key names one task for ever: no second task is accepted
\* under a key already used (accept_task and its variants).
KeyNamesOneTask ==
    \A t, u \in Tasks : key[t] = key[u] /\ key[t] # NoKey => t = u

\* A lease that has expired by every clock value a caller may still carry is
\* never extended and never passes straight to another worker: it stays as it
\* is until it is released (renew_lease, lease_task).
LeaseNeverRevived ==
    [][\A t \in Tasks :
         lease[t].active /\ lease[t].expires_at + MaxLag <= clock /\ lease'[t].active
            => lease'[t] = lease[t]]_vars

\* A recovery scan cut off by its limit takes the leases that expired first: no
\* lease is taken back while one that expired earlier stays (a release with no
\* failure counted is a recovery).
OldestLeaseFirst ==
    [][\A t, u \in Tasks :
         /\ lease[t].active /\ status'[t] = "pending" /\ retry_count'[t] = retry_count[t]
         /\ lease'[u].active
         => lease[t].expires_at <= lease[u].expires_at]_vars

\* The store implements the lifecycle contract: one holder at a time, no way
\* out of a terminal status, failures counted only against the holder.
L == INSTANCE Lifecycle WITH
        state <- status,
        holder <- [t \in Tasks |-> lease[t].worker],
        retries <- retry_count,
        dead <- dead_lettered

ImplementsLifecycle == L!Spec

\* A worker that vanishes does not keep its task: a lease that can expire
\* before the horizon is released or renewed past it, thanks to the recovery
\* loop.
VanishedWorkerReleased ==
    \A t \in Tasks :
        lease[t].active /\ lease[t].expires_at <= MaxTime
            ~> ~lease[t].active \/ lease[t].expires_at > MaxTime

\* No live task outlives its deadline for ever, leased or not (the deadline
\* enforcement loop).
DeadlineEnforced ==
    \A t \in Tasks :
        status[t] \in Live /\ DeadlinePassed(t, clock) ~> status[t] \in Terminal
=============================================================================
