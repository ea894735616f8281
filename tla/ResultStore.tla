----------------------------- MODULE ResultStore -----------------------------
(* The store as the daemon drives it: the task operations of TaskStore that  *)
(* the daemon's RPC handlers and loops call, in their forms that write the   *)
(* terminal result and the result outbox in the same transaction, and the    *)
(* leased delivery of outbox rows to the node that sent the task.            *)
EXTENDS TaskStore

CONSTANTS DeliveryWorkers,     \* lease owners of outbox rows
          DeliveryDurations,   \* lease durations asked for, after max(1)
          RetryDelays,         \* delays of fail_result_delivery, after the clamp
          MaxDeliveryAttempts  \* MAX_RESULT_DELIVERY_ATTEMPTS

ASSUME DeliveryAssumption ==
    /\ NoWorker \notin DeliveryWorkers
    /\ DeliveryDurations \subseteq Nat \ {0}
    /\ RetryDelays \subseteq Nat \ {0}
    /\ MaxDeliveryAttempts \in Nat \ {0}

VARIABLES result,  \* task_terminal_results: the outcome, or "none"
          outbox   \* result_outbox: a row, or NoDelivery

rvars == <<vars, result, outbox>>

Outcomes == {"completed", "failed", "canceled"}
StatusOf(outcome) == IF outcome = "completed" THEN "completed" ELSE "failed"

NoDelivery == [state |-> "none", attempts |-> 0, created_at |-> 0, next_at |-> 0,
               owner |-> NoWorker, expires_at |-> 0]
OutboxRecord == [state : {"none", "pending", "leased", "delivered", "dead_lettered"},
                 attempts : Nat, created_at : Nat, next_at : Nat,
                 owner : DeliveryWorkers \cup {NoWorker}, expires_at : Nat]

RowsTyped == /\ result \in [Tasks -> Outcomes \cup {"none"}]
             /\ outbox \in [Tasks -> OutboxRecord]
ResultTypeOK == TypeOK /\ RowsTyped

ResultInit == /\ Init
              /\ result = [t \in Tasks |-> "none"]
              /\ outbox = [t \in Tasks |-> NoDelivery]
------------------------------------------------------------------------------
(* Settling a task with its result.                                          *)

\* insert_terminal_result_and_outbox: only a task received from another node
\* has a return peer, and so an outbox row.
InsertResultAndOutbox(t, outcome, at) ==
    /\ result' = [result EXCEPT ![t] = outcome]
    /\ outbox' = IF route[t] = "inbound"
                 THEN [outbox EXCEPT ![t] = [NoDelivery EXCEPT !.state = "pending",
                                                               !.created_at = at,
                                                               !.next_at = at]]
                 ELSE outbox

\* A second result, equal or not, changes nothing.
CompleteTaskWithResult(t, id, w, at) ==
    /\ result[t] = "none"
    /\ CompleteTask(t, id, w)
    /\ InsertResultAndOutbox(t, "completed", at)

\* Fault: a failure that is retried leaves a result too.
FaultyFailTaskWithResult(t, id, w, max, at) ==
    /\ result[t] = "none"
    /\ FailTask(t, id, w, max)
    /\ InsertResultAndOutbox(t, "failed", at)

\* A failure that is retried leaves no result.
FailTaskWithResult(t, id, w, max, at) ==
    /\ result[t] = "none"
    /\ FailTask(t, id, w, max)
    /\ IF status'[t] = "failed"
       THEN InsertResultAndOutbox(t, "failed", at)
       ELSE UNCHANGED <<result, outbox>>

\* The daemon refuses to cancel a task that another node executes.
CancellableHere(t) == route[t] # "outbound"

\* A running task is cancelled only by the worker that proves its lease.
CancelTaskWithResult(t, id, w, now) ==
    /\ CancellableHere(t)
    /\ status[t] = "running" => PresentsLease(t, id, w)
    /\ result[t] = "none"
    /\ CancelTask(t, now)
    /\ InsertResultAndOutbox(t, "canceled", now)

\* ingest_remote_result_with_artifacts: applied once.  A result for a task that
\* already has one, or that ran out of time here, changes nothing.
IngestRemoteResult(t, outcome) ==
    /\ result[t] = "none"
    /\ ApplyRemoteResult(t, StatusOf(outcome))
    /\ result' = [result EXCEPT ![t] = outcome]
    /\ UNCHANGED outbox
------------------------------------------------------------------------------
(* Delivering results.                                                       *)

\* Fault: the budget is spent one attempt late.
LateAttempted(row, next, giveUp) ==
    LET last == row.attempts >= MaxDeliveryAttempts
    IN [row EXCEPT !.state = IF giveUp \/ last THEN "dead_lettered" ELSE "pending",
                   !.attempts = IF last THEN MaxDeliveryAttempts ELSE @ + 1,
                   !.next_at = next, !.owner = NoWorker, !.expires_at = 0]

\* One more failed attempt; the row goes back to the queue or is given up.
Attempted(row, next, giveUp) ==
    LET last == row.attempts >= MaxDeliveryAttempts - 1
    IN [state |-> IF giveUp \/ last THEN "dead_lettered" ELSE "pending",
        attempts |-> IF last THEN MaxDeliveryAttempts ELSE row.attempts + 1,
        created_at |-> row.created_at,
        next_at |-> next,
        owner |-> NoWorker,
        expires_at |-> 0]

\* Fault: a claim that expires at this very millisecond is missed.
LateReclaimExpired(now) ==
    [t \in Tasks |-> IF outbox[t].state = "leased" /\ outbox[t].expires_at < now
                     THEN Attempted(outbox[t], now, FALSE)
                     ELSE outbox[t]]

ReclaimExpired(now) ==
    [t \in Tasks |-> IF outbox[t].state = "leased" /\ outbox[t].expires_at <= now
                     THEN Attempted(outbox[t], now, FALSE)
                     ELSE outbox[t]]

\* Fault: rows are ordered by delivery id alone.
FaultyEarlier(rows, u, t) == u < t

\* ORDER BY next_attempt_at_ms, created_at_ms, delivery_id LIMIT 1.
Earlier(rows, u, t) ==
    \/ rows[u].next_at < rows[t].next_at
    \/ /\ rows[u].next_at = rows[t].next_at
       /\ \/ rows[u].created_at < rows[t].created_at
          \/ rows[u].created_at = rows[t].created_at /\ u < t

\* Every expired claim is taken back first, then the earliest due row is leased.
ClaimNextResultDelivery(dw, now, dur) ==
    LET rows == ReclaimExpired(now)
        due == {t \in Tasks : rows[t].state = "pending" /\ rows[t].next_at <= now}
        next == {t \in due : \A u \in due : ~Earlier(rows, u, t)}
    IN /\ outbox' = [t \in Tasks |->
            IF t \in next
            THEN [rows[t] EXCEPT !.state = "leased", !.owner = dw,
                                 !.expires_at = SaturatingAdd(now, dur)]
            ELSE rows[t]]
       /\ UNCHANGED <<vars, result>>

\* The WHERE clause shared by ack_result_delivery and fail_result_delivery.
HoldsDelivery(t, dw, exp, now) ==
    /\ outbox[t].state = "leased"
    /\ outbox[t].owner = dw
    /\ outbox[t].expires_at = exp
    /\ exp > now

AckResultDelivery(t, dw, exp, now) ==
    /\ HoldsDelivery(t, dw, exp, now)
    /\ outbox' = [outbox EXCEPT ![t] = [@ EXCEPT !.state = "delivered",
                                                 !.owner = NoWorker, !.expires_at = 0]]
    /\ UNCHANGED <<vars, result>>

FailResultDelivery(t, dw, exp, now, delay, giveUp) ==
    /\ HoldsDelivery(t, dw, exp, now)
    /\ outbox' = [outbox EXCEPT ![t] = Attempted(@, SaturatingAdd(now, delay), giveUp)]
    /\ UNCHANGED <<vars, result>>
------------------------------------------------------------------------------
\* Operations of TaskStore that touch neither results nor the outbox.
StoreStep ==
    /\ Accepting \/ Leasing \/ Scanning \/ Tick
    /\ UNCHANGED <<result, outbox>>

SettlingWithResult ==
    \E t \in Tasks, id \in 0..MaxTime, w \in Workers, at \in ReadTimes :
        \/ CompleteTaskWithResult(t, id, w, at)
        \/ \E max \in RetryLimits : FailTaskWithResult(t, id, w, max, at)
        \/ CancelTaskWithResult(t, id, w, at)

Ingesting ==
    \E t \in Tasks, outcome \in Outcomes : IngestRemoteResult(t, outcome)

Delivering ==
    \E dw \in DeliveryWorkers, now \in ReadTimes :
        \/ \E dur \in DeliveryDurations : ClaimNextResultDelivery(dw, now, dur)
        \/ \E t \in Tasks, exp \in 0..MaxMs :
              \/ AckResultDelivery(t, dw, exp, now)
              \/ \E delay \in RetryDelays, giveUp \in BOOLEAN :
                    FailResultDelivery(t, dw, exp, now, delay, giveUp)

ResultNext == StoreStep \/ SettlingWithResult \/ Ingesting \/ Delivering

ResultSpec == ResultInit /\ [][ResultNext]_rvars

\* run_result_delivery_worker claims in a loop for as long as the edge node runs.
ResultFairSpec ==
    /\ ResultSpec
    /\ Fairness
    /\ WF_rvars(\E dw \in DeliveryWorkers, dur \in DeliveryDurations :
                  ClaimNextResultDelivery(dw, clock, dur))
------------------------------------------------------------------------------
(* Properties.                                                               *)

LastEvent(t) == task_events[t][Len(task_events[t])].type

\* The result and the task settle together: a stored result names the status
\* the task has, and the only terminal tasks without a result are those the
\* deadline settled (complete/fail/cancel_task_with_result and the ingestion
\* write both in one transaction; fail_expired_deadlines writes no result).
ResultSettlesTask ==
    \A t \in Tasks :
        /\ result[t] # "none" => status[t] = StatusOf(result[t])
        /\ status[t] \in Terminal =>
             (result[t] = "none" <=> LastEvent(t) = "TaskTimedOut")

\* A result leaves for the node that sent the task, and for no other reason:
\* exactly the results of received tasks have an outbox row (make_outbox).
OutboxServesSenders ==
    \A t \in Tasks :
        outbox[t].state # "none" <=> result[t] # "none" /\ route[t] = "inbound"

\* The delivery budget: a row that can still be sent has attempts left, and a
\* row is given up by the last attempt at the latest, whether attempts fail or
\* their leases run out.
DeliveryBudget ==
    \A t \in Tasks :
        /\ outbox[t].attempts <= MaxDeliveryAttempts
        /\ outbox[t].attempts = MaxDeliveryAttempts => outbox[t].state = "dead_lettered"

\* The inductive invariant of the outbox: only settled tasks have a result.
SettledOnly == \A t \in Tasks : result[t] # "none" => status[t] \in Terminal
OutboxInv == RowsTyped /\ SettledOnly /\ OutboxServesSenders /\ DeliveryBudget

\* The outbox owes what it should and no more: exactly the results of received
\* tasks are queued, and each within its attempts (make_outbox, and the claim,
\* reclaim and failure of a delivery).
OutboxInStep == OutboxServesSenders /\ DeliveryBudget

\* A delivery is settled once: neither a late claim holder nor the reclaim of
\* expired claims touches a row that was delivered or given up.
SettledDeliveryFrozen ==
    [][\A t \in Tasks :
         outbox[t].state \in {"delivered", "dead_lettered"} => outbox'[t] = outbox[t]]_rvars

\* The daemon never leaves a task running without a lease, so the recovery
\* loop can always take back a task whose worker vanished.
RunningIsLeased ==
    \A t \in Tasks : status[t] = "running" => lease[t].active

\* The failure budget of fail_task_with_result: a task that was not
\* dead-lettered has at most max_retries counted failures, and one failure
\* more dead-letters it.
RetryBudget ==
    \A t \in Tasks : \E max \in RetryLimits \cup {0} :
        retry_count[t] <= max + (IF dead_lettered[t] THEN 1 ELSE 0)

\* The outbox is served in the order in which rows fall due: no row is claimed
\* from the queue while a queued row due earlier waits.
EarliestDeliveryFirst ==
    [][\A t, u \in Tasks :
         /\ outbox[t].state = "pending" /\ outbox'[t].state = "leased"
         /\ outbox[u].state = "pending"
         => outbox[t].next_at <= outbox[u].next_at]_rvars

\* Neither of the daemon's two queues, the expired leases and the due
\* deliveries, lets a younger entry overtake an older one.
NoOvertaking == OldestLeaseFirst /\ EarliestDeliveryFirst

\* No result is stuck in the outbox: a row that falls due before the horizon
\* (its next attempt, or the end of the claim on it) is delivered, given up, or
\* moves on to a later attempt, whatever becomes of the worker that claimed it.
DueAt(t) == IF outbox[t].state = "leased" THEN outbox[t].expires_at ELSE outbox[t].next_at
Queued(t) == outbox[t].state \in {"pending", "leased"} /\ DueAt(t) <= MaxTime
OutboxProgresses == \A t \in Tasks : Queued(t) ~> ~Queued(t)

\* Every step of the daemon's store is a step of TaskStore, so all that holds
\* of TaskStore holds here.
ImplementsTaskStore == Spec
=============================================================================
