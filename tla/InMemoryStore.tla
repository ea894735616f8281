---------------------------- MODULE InMemoryStore ----------------------------
(* keryx-store's InMemoryStore, the double that unit tests use in place of   *)
(* SqliteStore: hash maps under one mutex.  Every operation holds the mutex  *)
(* throughout, so each is one action; one that returns an error changes      *)
(* nothing.  There is no transaction to roll back, so an operation must do   *)
(* all its checks before its first insert or remove.                         *)
(*                                                                           *)
(* A map is a function whose domain is the keys present.  Lease ids are the  *)
(* millisecond of the claim, as in TaskStore.                                *)
EXTENDS TaskRules

CONSTANTS Tasks, Workers, Keys, Deadlines, RetryLimits, LegacyEvents,
          Times,   \* the clock values callers pass
          MaxMs    \* i64::MAX

Expiries == 0..MaxMs

VARIABLES tasks,              \* map: task id -> TaskRecord
          events,             \* map: task id -> its events
          idempotency,        \* map: key -> task id
          leases,             \* map: task id -> LeaseRecord
          transport_contexts, \* map: task id -> where the task came from
          terminal_results,   \* map: task id -> outcome
          result_outbox       \* map: task id -> when the delivery was created

taskMaps == <<tasks, events, idempotency, leases, transport_contexts>>
resultMaps == <<terminal_results, result_outbox>>
memVars == <<taskMaps, resultMaps>>

NoEntries == [x \in {} |-> x]

MemInit == /\ tasks = NoEntries
           /\ events = NoEntries
           /\ idempotency = NoEntries
           /\ leases = NoEntries
           /\ transport_contexts = NoEntries
           /\ terminal_results = NoEntries
           /\ result_outbox = NoEntries

Insert(map, k, v) == [x \in DOMAIN map \cup {k} |-> IF x = k THEN v ELSE map[x]]
Remove(map, K) == [x \in DOMAIN map \ K |-> map[x]]

Known(t) == t \in DOMAIN tasks
Is(t, s) == Known(t) /\ tasks[t].status = s
Holds(t, id, w) == t \in DOMAIN leases /\ leases[t].leased_at = id /\ leases[t].worker = w
PastDeadline(t, now) == tasks[t].deadline_ms # NoDeadline /\ tasks[t].deadline_ms <= now

\* append_in_memory_event and the insert of the updated task.
Write(t, task, type) ==
    /\ tasks' = Insert(tasks, t, task)
    /\ events' = Insert(events, t, Append(events[t], Event(type, tasks[t].status, task.status)))
    /\ UNCHANGED <<idempotency, transport_contexts>>

To(t, s) == [tasks[t] EXCEPT !.status = s]
-----------------------------------------------------------------------------
(* Accepting.                                                                *)

NewTask(t, k, d) ==
    /\ ~Known(t)
    /\ k \notin DOMAIN idempotency
    /\ tasks' = Insert(tasks, t, [status |-> "pending", retry_count |-> 0,
                                  dead_lettered |-> FALSE, deadline_ms |-> d,
                                  idempotency_key |-> k])
    /\ events' = Insert(events, t, <<Accepted>>)
    /\ idempotency' = IF k = NoKey THEN idempotency ELSE Insert(idempotency, k, t)
    /\ UNCHANGED <<leases, resultMaps>>

MemAcceptTask(t, k, d) == NewTask(t, k, d) /\ UNCHANGED transport_contexts

MemAcceptTaskWithContext(t, k, d, context) ==
    /\ NewTask(t, k, d)
    /\ transport_contexts' = Insert(transport_contexts, t, context)
-----------------------------------------------------------------------------
(* Leases.                                                                   *)

ExecutableHere(t) ==
    t \in DOMAIN transport_contexts => transport_contexts[t] # "outbound"

MemLeaseTask(t, w, now, expiry) ==
    /\ Known(t)
    /\ ExecutableHere(t)
    /\ t \notin DOMAIN leases
    /\ ~PastDeadline(t, now)
    /\ LegalTransition(tasks[t].status, "running")
    /\ leases' = Insert(leases, t, [worker |-> w, leased_at |-> now, expires_at |-> expiry])
    /\ Write(t, To(t, "running"), "TaskStarted")
    /\ UNCHANGED resultMaps

MemLeaseTaskTooLate(t, now) ==
    /\ Known(t)
    /\ ExecutableHere(t)
    /\ t \notin DOMAIN leases
    /\ PastDeadline(t, now)
    /\ tasks[t].status \in Live
    /\ Write(t, To(t, "failed"), "TaskTimedOut")
    /\ UNCHANGED <<leases, resultMaps>>

MemRenewLease(t, id, w, now, expiry) ==
    /\ Is(t, "running")
    /\ Holds(t, id, w)
    /\ now < leases[t].expires_at
    /\ expiry > now /\ expiry > leases[t].expires_at
    /\ leases' = Insert(leases, t, [leases[t] EXCEPT !.expires_at = expiry])
    /\ UNCHANGED <<tasks, events, idempotency, transport_contexts, resultMaps>>
-----------------------------------------------------------------------------
(* Settling a leased task.                                                   *)

\* Fault: a lease outlives the settlement of its task.
KeepingRelease(T) == UNCHANGED leases

Release(T) == leases' = Remove(leases, T)

FinishTaskInState(t, id, w, to, dl) ==
    /\ Known(t)
    /\ Holds(t, id, w)
    /\ LegalTransition(tasks[t].status, to)
    /\ Release({t})
    /\ Write(t, [To(t, to) EXCEPT !.dead_lettered = dl], EventForTransition(to))

RetryTaskInState(t) ==
    /\ Is(t, "running")
    /\ Release({t})
    /\ Write(t, [To(t, "pending") EXCEPT !.retry_count = @ + 1], "RecoveryAction")

DeadLetterTaskInState(t) ==
    /\ Is(t, "running")
    /\ Release({t})
    /\ Write(t, [To(t, "failed") EXCEPT !.retry_count = @ + 1, !.dead_lettered = TRUE],
             "TaskDeadLettered")

Complete(t, id, w) ==
    Known(t) /\ FinishTaskInState(t, id, w, "completed", tasks[t].dead_lettered)

Failing(t, id, w, max) ==
    /\ Is(t, "running")
    /\ Holds(t, id, w)
    /\ \/ max = 0 /\ FinishTaskInState(t, id, w, "failed", FALSE)
       \/ ShouldRetryAfterFailure(max, tasks[t].retry_count) /\ RetryTaskInState(t)
       \/ /\ max # 0
          /\ ~ShouldRetryAfterFailure(max, tasks[t].retry_count)
          /\ DeadLetterTaskInState(t)

MemCompleteTask(t, id, w) == Complete(t, id, w) /\ UNCHANGED resultMaps
MemFailTask(t, id, w, max) == Failing(t, id, w, max) /\ UNCHANGED resultMaps

MemRetryTask(t, id, w) ==
    Holds(t, id, w) /\ RetryTaskInState(t) /\ UNCHANGED resultMaps

MemDeadLetterTask(t, id, w) ==
    Holds(t, id, w) /\ DeadLetterTaskInState(t) /\ UNCHANGED resultMaps
-----------------------------------------------------------------------------
(* Cancelling, the two scans, transitions and legacy events.                 *)

\* ensure_active_lease_unexpired asks for a renewal by one millisecond, which a
\* saturated expiry does not have.
Cancelling(t, now) ==
    /\ Is(t, "pending") \/ Is(t, "running")
    /\ Is(t, "running") => /\ t \in DOMAIN leases
                         /\ leases[t].expires_at > now
                         /\ leases[t].expires_at < MaxMs
    /\ Release({t})
    /\ Write(t, To(t, "failed"), "TaskCanceled")

MemCancelTask(t, now) == Cancelling(t, now) /\ UNCHANGED resultMaps

\* Both scans: the first entries in order of their time, all in one go.
Batch(T, newStatus(_), type) ==
    /\ T # {}
    /\ Release(T)
    /\ tasks' = [t \in DOMAIN tasks |->
                   IF t \in T THEN To(t, newStatus(tasks[t].status)) ELSE tasks[t]]
    /\ events' = [t \in DOMAIN events |->
                   IF t \in T
                     THEN Append(events[t], Event(type, tasks[t].status,
                                                  newStatus(tasks[t].status)))
                     ELSE events[t]]
    /\ UNCHANGED <<idempotency, transport_contexts, resultMaps>>

MemFailExpiredDeadlines(now, limit) ==
    LET expired == {t \in DOMAIN tasks : tasks[t].status \in Live /\ PastDeadline(t, now)}
    IN  Batch(OldestFirst(expired, [t \in DOMAIN tasks |-> tasks[t].deadline_ms], limit),
              LAMBDA s : "failed", "TaskTimedOut")

MemRecoverStaleLeases(now, limit) ==
    LET stale == {t \in DOMAIN leases : leases[t].expires_at <= now}
    IN  Batch(OldestFirst(stale, [t \in DOMAIN leases |-> leases[t].expires_at], limit),
              Recovered, "RecoveryAction")

\* transition_task, and a legacy event that is a lifecycle transition.
MemTransition(t, to) ==
    /\ IF to \in Terminal THEN Release({t}) ELSE UNCHANGED leases
    /\ Write(t, To(t, to), EventForTransition(to))
    /\ UNCHANGED resultMaps

MemTransitionTask(t, to) ==
    Known(t) /\ LegalTransition(tasks[t].status, to) /\ MemTransition(t, to)

MemAcceptLegacyEvent(t, legacy) ==
    /\ Known(t)
    /\ \/ \E to \in Live \cup Terminal :
             <<tasks[t].status, legacy, to>> \in LegacyTransitions /\ MemTransition(t, to)
       \/ /\ <<tasks[t].status, legacy>> \in OperationalLegacy
          /\ Write(t, tasks[t], legacy)
          /\ UNCHANGED <<leases, resultMaps>>
-----------------------------------------------------------------------------
(* Settling with a result.                                                   *)

\* Fault: every result is queued for delivery.
QueueingInsertResult(t, outcome, at) ==
    /\ terminal_results' = Insert(terminal_results, t, outcome)
    /\ result_outbox' = Insert(result_outbox, t, at)

InsertResult(t, outcome, at) ==
    /\ terminal_results' = Insert(terminal_results, t, outcome)
    /\ result_outbox' = IF t \in DOMAIN transport_contexts /\ transport_contexts[t] = "inbound"
                          THEN Insert(result_outbox, t, at) ELSE result_outbox

NoResult(t) == t \notin DOMAIN terminal_results

MemCompleteTaskWithResult(t, id, w, at) ==
    NoResult(t) /\ Complete(t, id, w) /\ InsertResult(t, "completed", at)

MemFailTaskWithResult(t, id, w, max, at) ==
    /\ NoResult(t)
    /\ Failing(t, id, w, max)
    /\ IF tasks'[t].status = "failed" THEN InsertResult(t, "failed", at)
                                      ELSE UNCHANGED resultMaps

MemCancelTaskWithResult(t, id, w, now) ==
    /\ Is(t, "running") => Holds(t, id, w)
    /\ NoResult(t)
    /\ Cancelling(t, now)
    /\ InsertResult(t, "canceled", now)
-----------------------------------------------------------------------------
MemNext ==
    \/ \E t \in Tasks, k \in Keys \cup {NoKey}, d \in Deadlines \cup {NoDeadline} :
          \/ MemAcceptTask(t, k, d)
          \/ \E context \in {"inbound", "outbound"} :
                MemAcceptTaskWithContext(t, k, d, context)
    \/ \E t \in Tasks, w \in Workers, now \in Times :
          \/ MemLeaseTaskTooLate(t, now)
          \/ \E expiry \in Expiries :
                \/ MemLeaseTask(t, w, now, expiry)
                \/ \E id \in Times : MemRenewLease(t, id, w, now, expiry)
    \/ \E t \in Tasks, w \in Workers, id \in Times :
          \/ MemCompleteTask(t, id, w)
          \/ \E max \in RetryLimits : MemFailTask(t, id, w, max)
          \/ MemRetryTask(t, id, w)
          \/ MemDeadLetterTask(t, id, w)
          \/ \E at \in Times :
                \/ MemCompleteTaskWithResult(t, id, w, at)
                \/ \E max \in RetryLimits : MemFailTaskWithResult(t, id, w, max, at)
                \/ MemCancelTaskWithResult(t, id, w, at)
    \/ \E now \in Times, limit \in 0..Cardinality(Tasks) :
          MemFailExpiredDeadlines(now, limit) \/ MemRecoverStaleLeases(now, limit)
    \/ \E t \in Tasks :
          \/ \E now \in Times : MemCancelTask(t, now)
          \/ \E to \in Live \cup Terminal : MemTransitionTask(t, to)
          \/ \E legacy \in LegacyEvents : MemAcceptLegacyEvent(t, legacy)

MemSpec == MemInit /\ [][MemNext]_memVars
=============================================================================
