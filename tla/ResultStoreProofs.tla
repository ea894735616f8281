-------------------------- MODULE ResultStoreProofs --------------------------
(* Proofs about TaskStore, and about ResultStore on top of them, for every   *)
(* set of tasks, workers, keys and deadlines and for all limits.             *)
EXTENDS ResultStore, TLAPS

\* Every step keeps the rows of the store in their types: all operations write
\* statuses of the lifecycle, counters that never go below zero, lease times
\* that saturate instead of overflowing, and well-formed events.
LEMMA TypeStep == TypeOK /\ [Next]_vars => TypeOK'
<1> SUFFICES ASSUME TypeOK, [Next]_vars PROVE TypeOK'
  OBVIOUS
<1> USE TasksAssumption, TimesAssumption, LimitsAssumption, LegacyAssumption
<1>a. ASSUME NEW t \in Tasks, NEW type \in EventTypes, NEW to \in Statuses,
             Record(t, type, to)
      PROVE  status' \in [Tasks -> Statuses] /\ task_events' \in [Tasks -> Seq(EventRecord)]
  <2>1. status[t] \in Statuses /\ task_events[t] \in Seq(EventRecord)
    BY DEF TypeOK
  <2>2. Event(type, status[t], to) \in EventRecord
    BY <2>1 DEF Event, EventRecord
  <2>3. Append(task_events[t], Event(type, status[t], to)) \in Seq(EventRecord)
    BY <2>1, <2>2
  <2> QED
    BY <1>a, <2>3 DEF TypeOK, Record
<1>b. \A a \in Nat, b \in Nat : SaturatingAdd(a, b) \in Nat
  BY DEF SaturatingAdd
<1>c. NoLease \in LeaseRecord
  BY DEF NoLease, LeaseRecord
<1>d. \A s \in Statuses : EventForTransition(s) \in EventTypes /\ Recovered(s) \in Statuses
  BY DEF EventForTransition, Recovered, EventTypes, Statuses, Live, Terminal
<1>e. /\ clock \in Nat /\ ReadTimes \subseteq Nat
      /\ Live \cup Terminal \subseteq Statuses
      /\ {"TaskStarted", "TaskTimedOut", "TaskCanceled", "RecoveryAction",
          "TaskDeadLettered"} \subseteq EventTypes
  BY DEF TypeOK, ReadTimes, Statuses, EventTypes
<1>1. ASSUME NEW t \in Tasks, NEW k \in Keys \cup {NoKey},
             NEW d \in Deadlines \cup {NoDeadline}, NEW r \in Routes,
             InsertTask(t, k, d, r)
      PROVE  TypeOK'
  <2>1. Accepted \in EventRecord
    BY DEF Accepted, Event, EventRecord, EventTypes, Statuses, Live
  <2>2. <<Accepted>> \in Seq(EventRecord)
    BY <2>1
  <2> QED
    BY <1>1, <2>2 DEF TypeOK, InsertTask, counters, Statuses, Live
<1>2. ASSUME NEW t \in Tasks, NEW w \in Workers, NEW now \in ReadTimes,
             NEW dur \in Durations, LeaseTask(t, w, now, dur)
      PROVE  TypeOK'
  <2>1. lease' \in [Tasks -> LeaseRecord]
    BY <1>2, <1>b, <1>e DEF TypeOK, LeaseTask, LeaseRecord
  <2>2. Record(t, "TaskStarted", "running")
    BY <1>2 DEF LeaseTask
  <2>3. status' \in [Tasks -> Statuses] /\ task_events' \in [Tasks -> Seq(EventRecord)]
    BY <1>a, <1>e, <2>2 DEF Live
  <2>4. UNCHANGED <<clock, retry_count, dead_lettered, deadline_ms, key, route>>
    BY <1>2 DEF LeaseTask, counters, fixed
  <2> QED
    BY <2>1, <2>3, <2>4 DEF TypeOK
<1>3. ASSUME NEW t \in Tasks, NEW now \in ReadTimes, LeaseTaskTooLate(t, now)
      PROVE  TypeOK'
  BY <1>3, <1>a, <1>e DEF TypeOK, LeaseTaskTooLate, counters, fixed, Terminal
<1>4. ASSUME NEW t \in Tasks, NEW id, NEW w \in Workers, NEW now \in ReadTimes,
             NEW dur \in Durations, RenewLease(t, id, w, now, dur)
      PROVE  TypeOK'
  <2>1. lease' \in [Tasks -> LeaseRecord]
    <3>1. SaturatingAdd(now, dur) \in Nat
      BY <1>b, <1>e
    <3>2. lease' = [lease EXCEPT ![t].expires_at = SaturatingAdd(now, dur)]
      BY <1>4 DEF RenewLease
    <3>3. lease \in [Tasks -> LeaseRecord]
      BY DEF TypeOK
    <3> HIDE TasksAssumption, TimesAssumption, LimitsAssumption, LegacyAssumption
    <3> QED
      BY <3>1, <3>2, <3>3 DEF LeaseRecord
  <2> QED
    BY <1>4, <2>1 DEF TypeOK, RenewLease, counters, fixed
<1>5. ASSUME NEW t \in Tasks, NEW id, NEW w \in Workers, NEW to \in Terminal,
             NEW dl \in BOOLEAN, FinishTaskInTx(t, id, w, to, retry_count[t], dl)
      PROVE  TypeOK'
  BY <1>5, <1>a, <1>c, <1>d, <1>e DEF TypeOK, FinishTaskInTx, Deactivate, fixed
<1>6. ASSUME NEW t \in Tasks, RetryTaskInTx(t)
      PROVE  TypeOK'
  BY <1>6, <1>a, <1>c, <1>e DEF TypeOK, RetryTaskInTx, Deactivate, fixed, Live
<1>7. ASSUME NEW t \in Tasks, DeadLetterTaskInTx(t)
      PROVE  TypeOK'
  BY <1>7, <1>a, <1>c, <1>e DEF TypeOK, DeadLetterTaskInTx, Deactivate, fixed, Terminal
<1>8. ASSUME NEW now \in ReadTimes, NEW limit, FailExpiredDeadlines(now, limit)
      PROVE  TypeOK'
  <2>1. \A s \in Statuses : Event("TaskTimedOut", s, "failed") \in EventRecord
    BY <1>e DEF Event, EventRecord, Terminal
  <2> QED
    BY <1>8, <1>c, <1>e, <2>1 DEF TypeOK, FailExpiredDeadlines, counters, fixed, Terminal
<1>9. ASSUME NEW now \in ReadTimes, NEW limit, RecoverStaleLeases(now, limit)
      PROVE  TypeOK'
  <2>1. \A s \in Statuses : Event("RecoveryAction", s, Recovered(s)) \in EventRecord
    BY <1>d, <1>e DEF Event, EventRecord
  <2> QED
    BY <1>9, <1>c, <1>d, <2>1 DEF TypeOK, RecoverStaleLeases, counters, fixed
<1>10. ASSUME NEW t \in Tasks, NEW now \in ReadTimes, CancelTask(t, now)
       PROVE  TypeOK'
  BY <1>10, <1>a, <1>c, <1>e DEF TypeOK, CancelTask, Deactivate, counters, fixed, Terminal
<1>11. ASSUME NEW t \in Tasks, NEW to \in Live \cup Terminal, TransitionTask(t, to)
       PROVE  TypeOK'
  BY <1>11, <1>a, <1>c, <1>d, <1>e DEF TypeOK, TransitionTask, Deactivate, counters, fixed
<1>12. ASSUME NEW t \in Tasks, NEW legacy, NEW to \in Live \cup Terminal,
              AcceptLegacyLifecycleEvent(t, legacy, to)
       PROVE  TypeOK'
  BY <1>12, <1>a, <1>c, <1>d, <1>e
     DEF TypeOK, AcceptLegacyLifecycleEvent, Deactivate, counters, fixed
<1>13. ASSUME NEW t \in Tasks, NEW legacy \in LegacyEvents,
              AcceptLegacyOperationalEvent(t, legacy)
       PROVE  TypeOK'
  <2>1. legacy \in EventTypes /\ status[t] \in Statuses
    BY DEF TypeOK
  <2> QED
    BY <1>13, <1>a, <2>1 DEF TypeOK, AcceptLegacyOperationalEvent, counters, fixed
<1>14. ASSUME NEW t \in Tasks, NEW to \in Terminal, ApplyRemoteResult(t, to)
       PROVE  TypeOK'
  <2> DEFINE started == IF status[t] = "pending"
                        THEN Append(task_events[t], Event("TaskStarted", "pending", "running"))
                        ELSE task_events[t]
             finish == Event(EventForTransition(to), "running", to)
  <2>1. /\ Event("TaskStarted", "pending", "running") \in EventRecord
        /\ finish \in EventRecord
    BY <1>d, <1>e DEF Event, EventRecord, Live
  <2>2. started \in Seq(EventRecord)
    BY <2>1 DEF TypeOK
  <2> HIDE DEF started, finish
  <2>3. Append(started, finish) \in Seq(EventRecord)
    BY <2>1, <2>2
  <2>4. task_events' = [task_events EXCEPT ![t] = Append(started, finish)]
    BY <1>14 DEF ApplyRemoteResult, started, finish
  <2> QED
    BY <1>14, <1>e, <2>3, <2>4 DEF TypeOK, ApplyRemoteResult, counters, fixed
<1>15. CASE Tick
  BY <1>15 DEF TypeOK, Tick, counters, fixed
<1>16. CASE UNCHANGED vars
  BY <1>16 DEF TypeOK, vars
<1>17. CASE Accepting
  BY <1>17, <1>1 DEF Accepting, AcceptTask, AcceptTaskWithContext, Routes
<1>18. CASE Leasing
  BY <1>18, <1>2, <1>3, <1>4 DEF Leasing
<1>19. CASE Settling
  <2>1. "completed" \in Terminal /\ "failed" \in Terminal
    BY DEF Terminal
  <2>2. PICK t \in Tasks, id \in 0..MaxTime, w \in Workers :
          \/ CompleteTask(t, id, w)
          \/ \E max \in RetryLimits : FailTask(t, id, w, max)
          \/ RetryTask(t, id, w)
          \/ DeadLetterTask(t, id, w)
    BY <1>19 DEF Settling
  <2>3. dead_lettered[t] \in BOOLEAN
    BY DEF TypeOK
  <2>4. CASE CompleteTask(t, id, w)
    BY <2>1, <2>3, <2>4, <1>5 DEF CompleteTask
  <2>5. CASE \E max \in RetryLimits : FailTask(t, id, w, max)
    BY <2>1, <2>5, <1>5, <1>6, <1>7 DEF FailTask
  <2> QED
    BY <2>2, <2>4, <2>5, <1>6, <1>7 DEF RetryTask, DeadLetterTask
<1>20. CASE Scanning
  BY <1>20, <1>8, <1>9 DEF Scanning
<1>21. CASE Maintaining
  BY <1>21, <1>10, <1>11, <1>12, <1>13, <1>14 DEF Maintaining
<1> QED
  BY <1>15, <1>16, <1>17, <1>18, <1>19, <1>20, <1>21 DEF Next

\* Type correctness of the store, from any number of operations of any mix of
\* clients, with clock values read before waiting for the connection.
THEOREM TypeCorrect == Spec => []TypeOK
<1>1. Init => TypeOK
  <2> SUFFICES ASSUME Init PROVE TypeOK
    OBVIOUS
  <2>1. NoLease \in LeaseRecord
    BY DEF NoLease, LeaseRecord
  <2> QED
    BY <2>1 DEF Init, TypeOK, Statuses, Routes
<1> QED
  BY <1>1, TypeStep, PTL DEF Spec
------------------------------------------------------------------------------
(* What one step does to the rows of one task.                               *)

\* No approval denial is ingested: its event cannot be replayed.
NoDenials == "TaskApprovalDenied" \notin LegacyEvents

Logged(t, e) == task_events'[t] = Append(task_events[t], e)

SameCounters(t) == retry_count'[t] = retry_count[t] /\ dead_lettered'[t] = dead_lettered[t]

SameTask(t) == /\ deadline_ms'[t] = deadline_ms[t]
               /\ key'[t] = key[t]
               /\ route'[t] = route[t]

RowIdle(t) == /\ status'[t] = status[t]
              /\ lease'[t] = lease[t]
              /\ task_events'[t] = task_events[t]
              /\ SameCounters(t) /\ SameTask(t)

RowAccepted(t) == /\ status[t] = "absent"
                  /\ status'[t] = "pending"
                  /\ lease'[t] = lease[t]
                  /\ task_events'[t] = <<Accepted>>
                  /\ SameCounters(t)

RowClaimed(t) == /\ status[t] = "pending"
                 /\ ~lease[t].active
                 /\ route[t] # "outbound"
                 /\ status'[t] = "running"
                 /\ lease'[t].active
                 /\ lease'[t].worker \in Workers
                 /\ deadline_ms[t] # NoDeadline => lease'[t].leased_at < deadline_ms[t]
                 /\ Logged(t, Event("TaskStarted", "pending", "running"))
                 /\ SameCounters(t) /\ SameTask(t)

\* The lease was alive by some clock value that is not too old.
RowRenewed(t) == /\ lease[t].active
                 /\ lease[t].expires_at + MaxLag > clock
                 /\ lease'[t].active
                 /\ lease'[t].worker = lease[t].worker
                 /\ lease'[t].leased_at = lease[t].leased_at
                 /\ status'[t] = status[t]
                 /\ task_events'[t] = task_events[t]
                 /\ SameCounters(t) /\ SameTask(t)

\* The task is settled, requeued or started by hand; nobody holds it any more.
RowMoved(t, type, to) ==
    /\ status[t] \in Live
    /\ to \in Live \cup Terminal
    /\ to # status[t]
    /\ to = "pending" => lease[t].active
    /\ NoDenials => ReplayStep(Event(type, status[t], to), status[t])
    /\ status'[t] = to
    /\ lease'[t] = NoLease
    /\ Logged(t, Event(type, status[t], to))
    /\ \/ SameCounters(t) /\ type # "TaskDeadLettered"
       \/ /\ lease[t].active
          /\ retry_count'[t] = retry_count[t] + 1
          /\ \/ ~dead_lettered'[t] /\ to = "pending" /\ type # "TaskDeadLettered"
             \/ dead_lettered'[t] /\ to = "failed" /\ type = "TaskDeadLettered"
    /\ SameTask(t)

RowNoted(t, type) == /\ type \in OperationalEvents
                     /\ status[t] \in Live
                     /\ status'[t] = status[t]
                     /\ lease'[t] = lease[t]
                     /\ Logged(t, Event(type, status[t], status[t]))
                     /\ SameCounters(t) /\ SameTask(t)

RowReported(t, to) ==
    /\ status[t] \in Live
    /\ ~lease[t].active
    /\ to \in Terminal
    /\ status'[t] = to
    /\ lease'[t] = lease[t]
    /\ task_events'[t] =
         Append(IF status[t] = "pending"
                THEN Append(task_events[t], Event("TaskStarted", "pending", "running"))
                ELSE task_events[t],
                Event(EventForTransition(to), "running", to))
    /\ SameCounters(t) /\ SameTask(t)

RowStep(t) == \/ RowIdle(t)
              \/ RowAccepted(t)
              \/ RowClaimed(t)
              \/ RowRenewed(t)
              \/ \E type \in EventTypes, to \in Statuses : RowMoved(t, type, to)
              \/ \E type \in EventTypes : RowNoted(t, type)
              \/ \E to \in Terminal : RowReported(t, to)

\* The event of a legal transition is one the replay accepts.
LEMMA TransitionReplays ==
    ASSUME NEW from, NEW to, LegalTransition(from, to)
    PROVE  /\ EventForTransition(to) \in {"TaskStarted", "TaskCompleted", "TaskFailed"}
           /\ EventForTransition(to) \in EventTypes
           /\ ReplayStep(Event(EventForTransition(to), from, to), from)
           /\ from \in Live /\ to \in Live \cup Terminal
           /\ from # to /\ to # "pending"
<1>1. from \in Live /\ to \in Live \cup Terminal /\ from # to /\ to # "pending"
  BY DEF LegalTransition, Live, Terminal
<1>2. to \in {"running", "completed", "failed"}
  BY DEF LegalTransition
<1>3. EventForTransition(to) \in {"TaskStarted", "TaskCompleted", "TaskFailed"}
  BY <1>2, Zenon DEF EventForTransition
<1>4. ReplayStep(Event(EventForTransition(to), from, to), from)
  BY <1>3 DEF ReplayStep, Event
<1> QED
  BY <1>1, <1>3, <1>4 DEF EventTypes

\* A step of the store changes the rows of every single task in one of these
\* ways, whichever operation it is and whichever other tasks its scan takes.
LEMMA RowSteps ==
    TypeOK /\ ActiveLeaseOwnsTask /\ [Next]_vars => \A u \in Tasks : RowStep(u)
<1> SUFFICES ASSUME TypeOK, ActiveLeaseOwnsTask, [Next]_vars, NEW u \in Tasks
             PROVE  RowStep(u)
  OBVIOUS
<1> USE TasksAssumption, TimesAssumption, LimitsAssumption, LegacyAssumption
<1>a. /\ status[u] \in Statuses /\ lease[u] \in LeaseRecord
      /\ retry_count[u] \in Nat /\ dead_lettered[u] \in BOOLEAN
      /\ clock \in Nat /\ ReadTimes \subseteq Nat
  BY DEF TypeOK, ReadTimes
<1>1. ASSUME NEW t \in Tasks, NEW k, NEW d, NEW r, InsertTask(t, k, d, r)
      PROVE  RowStep(u)
  <2>1. CASE u = t
    BY <1>1, <2>1 DEF TypeOK, InsertTask, counters, RowStep, RowAccepted, SameCounters
  <2>2. CASE u # t
    BY <1>1, <2>2 DEF TypeOK, InsertTask, counters, RowStep, RowIdle, SameCounters, SameTask
  <2> QED
    BY <2>1, <2>2
<1>2. ASSUME NEW t \in Tasks, NEW w \in Workers, NEW now \in ReadTimes,
             NEW dur \in Durations, LeaseTask(t, w, now, dur)
      PROVE  RowStep(u)
  <2>1. CASE u = t
    <3>1. status[t] = "pending"
      BY <1>2 DEF LeaseTask, LegalTransition
    <3>2. deadline_ms[t] # NoDeadline => now < deadline_ms[t]
      BY <1>2, <1>a DEF LeaseTask, DeadlinePassed, TypeOK
    <3>3. RowClaimed(t)
      BY <1>2, <3>1, <3>2
         DEF TypeOK, LeaseTask, Leasable, Record, counters, fixed, RowClaimed, Logged,
             SameCounters, SameTask
    <3> QED
      BY <2>1, <3>3 DEF RowStep
  <2>2. CASE u # t
    BY <1>2, <2>2
       DEF TypeOK, LeaseTask, Record, counters, fixed, RowStep, RowIdle, SameCounters, SameTask
  <2> QED
    BY <2>1, <2>2
<1>3. ASSUME NEW t \in Tasks, NEW now \in ReadTimes, LeaseTaskTooLate(t, now)
      PROVE  RowStep(u)
  <2>1. CASE u = t
    <3>1. ReplayStep(Event("TaskTimedOut", status[t], "failed"), status[t])
      BY <1>3 DEF LeaseTaskTooLate, ReplayStep, Event
    <3>2. RowMoved(t, "TaskTimedOut", "failed")
      BY <1>3, <3>1
         DEF TypeOK, ActiveLeaseOwnsTask, LeaseTaskTooLate, Leasable, Record, counters, fixed,
             RowMoved, Logged, SameCounters, SameTask, Live, Terminal
    <3> QED
      BY <2>1, <3>2 DEF RowStep, EventTypes, Statuses, Terminal
  <2>2. CASE u # t
    BY <1>3, <2>2 DEF TypeOK, LeaseTaskTooLate, Record, counters, fixed, RowStep, RowIdle,
                      SameCounters, SameTask
  <2> QED
    BY <2>1, <2>2
<1>4. ASSUME NEW t \in Tasks, NEW id, NEW w \in Workers, NEW now \in ReadTimes,
             NEW dur \in Durations, RenewLease(t, id, w, now, dur)
      PROVE  RowStep(u)
  <2>1. CASE u = t
    <3>1. lease[t].active /\ lease[t].expires_at > now /\ lease[t].expires_at \in Nat
      BY <1>4, <2>1, <1>a DEF RenewLease, PresentsLease, ValidLeaseExpiry, LeaseRecord
    <3>2. lease[t].expires_at + MaxLag > clock
      BY <1>a, <3>1 DEF ReadTimes
    <3>3. /\ lease'[t].active = lease[t].active
          /\ lease'[t].worker = lease[t].worker
          /\ lease'[t].leased_at = lease[t].leased_at
      BY <1>4, <2>1, <1>a DEF TypeOK, RenewLease, LeaseRecord
    <3> QED
      BY <1>4, <2>1, <3>1, <3>2, <3>3
         DEF RenewLease, counters, fixed, RowStep, RowRenewed, SameCounters, SameTask
  <2>2. CASE u # t
    BY <1>4, <2>2 DEF TypeOK, RenewLease, counters, fixed, RowStep, RowIdle, SameCounters, SameTask
  <2> QED
    BY <2>1, <2>2
<1>5. ASSUME NEW t \in Tasks, NEW id, NEW w \in Workers, NEW to \in Terminal, NEW dl \in BOOLEAN,
             dl => dead_lettered[t],
             FinishTaskInTx(t, id, w, to, retry_count[t], dl)
      PROVE  RowStep(u)
  <2>1. CASE u = t
    <3>1. LegalTransition(status[t], to) /\ status[t] = "running"
      BY <1>5 DEF FinishTaskInTx, LegalTransition, Terminal
    <3>2. dead_lettered[t] = FALSE /\ dl = FALSE
      BY <1>5, <3>1, <2>1, <1>a DEF ActiveLeaseOwnsTask
    <3>3. RowMoved(t, EventForTransition(to), to)
      BY <1>5, <3>1, <3>2, TransitionReplays
         DEF TypeOK, FinishTaskInTx, Deactivate, Record, fixed, RowMoved, Logged, SameCounters,
             SameTask
    <3> QED
      BY <2>1, <3>1, <3>3, TransitionReplays DEF RowStep, Statuses
  <2>2. CASE u # t
    BY <1>5, <2>2 DEF TypeOK, FinishTaskInTx, Deactivate, Record, fixed, RowStep, RowIdle,
                      SameCounters, SameTask
  <2> QED
    BY <2>1, <2>2
<1>6. ASSUME NEW t \in Tasks, lease[t].active, RetryTaskInTx(t)
      PROVE  RowStep(u)
  <2>1. CASE u = t
    <3>1. ReplayStep(Event("RecoveryAction", status[t], "pending"), status[t])
      BY <1>6 DEF RetryTaskInTx, ReplayStep, Event, Recovered
    <3>2. RowMoved(t, "RecoveryAction", "pending")
      BY <1>6, <3>1
         DEF TypeOK, RetryTaskInTx, Deactivate, Record, fixed, RowMoved, Logged, SameTask, Live
    <3> QED
      BY <2>1, <3>2 DEF RowStep, EventTypes, Statuses, Live
  <2>2. CASE u # t
    BY <1>6, <2>2 DEF TypeOK, RetryTaskInTx, Deactivate, Record, fixed, RowStep, RowIdle,
                      SameCounters, SameTask
  <2> QED
    BY <2>1, <2>2
<1>7. ASSUME NEW t \in Tasks, lease[t].active, DeadLetterTaskInTx(t)
      PROVE  RowStep(u)
  <2>1. CASE u = t
    <3>1. ReplayStep(Event("TaskDeadLettered", status[t], "failed"), status[t])
      BY <1>7 DEF DeadLetterTaskInTx, ReplayStep, Event, LegacyTransitions
    <3>2. RowMoved(t, "TaskDeadLettered", "failed")
      BY <1>7, <3>1
         DEF TypeOK, DeadLetterTaskInTx, Deactivate, Record, fixed, RowMoved, Logged, SameTask,
             Live, Terminal
    <3> QED
      BY <2>1, <3>2 DEF RowStep, EventTypes, Statuses, Terminal
  <2>2. CASE u # t
    BY <1>7, <2>2 DEF TypeOK, DeadLetterTaskInTx, Deactivate, Record, fixed, RowStep, RowIdle,
                      SameCounters, SameTask
  <2> QED
    BY <2>1, <2>2
<1>8. ASSUME NEW now \in ReadTimes, NEW limit, FailExpiredDeadlines(now, limit)
      PROVE  RowStep(u)
  <2> DEFINE batch == OldestFirst(ExpiredDeadlines(now), deadline_ms, limit)
  <2>1. u \in batch => status[u] \in Live
    BY DEF OldestFirst, ExpiredDeadlines
  <2> HIDE DEF batch
  <2>2. CASE u \in batch
    <3>1. ReplayStep(Event("TaskTimedOut", status[u], "failed"), status[u])
      BY <2>1, <2>2 DEF ReplayStep, Event
    <3>2. RowMoved(u, "TaskTimedOut", "failed")
      BY <1>8, <2>1, <2>2, <3>1
         DEF FailExpiredDeadlines, batch, counters, fixed, RowMoved, Logged, SameCounters,
             SameTask, Live, Terminal
    <3> QED
      BY <3>2 DEF RowStep, EventTypes, Statuses, Terminal
  <2>3. CASE u \notin batch
    BY <1>8, <2>3 DEF FailExpiredDeadlines, batch, counters, fixed, RowStep, RowIdle,
                      SameCounters, SameTask
  <2> QED
    BY <2>2, <2>3
<1>9. ASSUME NEW now \in ReadTimes, NEW limit, RecoverStaleLeases(now, limit)
      PROVE  RowStep(u)
  <2> DEFINE batch == OldestFirst(StaleLeases(now), [t \in Tasks |-> lease[t].expires_at], limit)
  <2>1. u \in batch => lease[u].active /\ status[u] = "running"
    BY DEF OldestFirst, StaleLeases, ActiveLeaseOwnsTask
  <2> HIDE DEF batch
  <2>2. CASE u \in batch
    <3>1. Recovered(status[u]) = "pending"
      BY <2>1, <2>2 DEF Recovered
    <3>2. ReplayStep(Event("RecoveryAction", status[u], "pending"), status[u])
      BY <2>1, <2>2, <3>1 DEF ReplayStep, Event
    <3>3. RowMoved(u, "RecoveryAction", "pending")
      BY <1>9, <2>1, <2>2, <3>1, <3>2
         DEF RecoverStaleLeases, batch, counters, fixed, RowMoved, Logged, SameCounters,
             SameTask, Live
    <3> QED
      BY <3>3 DEF RowStep, EventTypes, Statuses, Live
  <2>3. CASE u \notin batch
    BY <1>9, <2>3 DEF RecoverStaleLeases, batch, counters, fixed, RowStep, RowIdle,
                      SameCounters, SameTask
  <2> QED
    BY <2>2, <2>3
<1>10. ASSUME NEW t \in Tasks, NEW now \in ReadTimes, CancelTask(t, now)
       PROVE  RowStep(u)
  <2>1. CASE u = t
    <3>1. ReplayStep(Event("TaskCanceled", status[t], "failed"), status[t])
      BY <1>10 DEF CancelTask, ReplayStep, Event
    <3>2. RowMoved(t, "TaskCanceled", "failed")
      BY <1>10, <3>1
         DEF TypeOK, CancelTask, Deactivate, Record, counters, fixed, RowMoved, Logged,
             SameCounters, SameTask, Live, Terminal
    <3> QED
      BY <2>1, <3>2 DEF RowStep, EventTypes, Statuses, Terminal
  <2>2. CASE u # t
    BY <1>10, <2>2 DEF TypeOK, CancelTask, Deactivate, Record, counters, fixed, RowStep, RowIdle,
                       SameCounters, SameTask
  <2> QED
    BY <2>1, <2>2
<1>11. ASSUME NEW t \in Tasks, NEW to \in Live \cup Terminal, TransitionTask(t, to)
       PROVE  RowStep(u)
  <2>1. CASE u = t
    <3>1. LegalTransition(status[t], to)
      BY <1>11 DEF TransitionTask
    <3>2. lease'[t] = NoLease
      BY <1>11, <3>1 DEF TypeOK, ActiveLeaseOwnsTask, TransitionTask, Deactivate,
                         LegalTransition, Terminal
    <3>3. RowMoved(t, EventForTransition(to), to)
      BY <1>11, <3>1, <3>2, TransitionReplays
         DEF TypeOK, TransitionTask, Record, counters, fixed, RowMoved, Logged, SameCounters,
             SameTask
    <3> QED
      BY <2>1, <3>1, <3>3, TransitionReplays DEF RowStep, Statuses
  <2>2. CASE u # t
    BY <1>11, <2>2 DEF TypeOK, TransitionTask, Deactivate, Record, counters, fixed, RowStep,
                       RowIdle, SameCounters, SameTask
  <2> QED
    BY <2>1, <2>2
<1>12. ASSUME NEW t \in Tasks, NEW legacy \in LegacyEvents, NEW to \in Live \cup Terminal,
              AcceptLegacyLifecycleEvent(t, legacy, to)
       PROVE  RowStep(u)
  <2>1. CASE u = t
    <3>1. \/ LegalTransition(status[t], to)
          \/ ~NoDenials /\ status[t] = "pending" /\ to = "failed"
      BY <1>12 DEF AcceptLegacyLifecycleEvent, LegacyTransitions, LegalTransition, NoDenials
    <3>2. lease'[t] = NoLease
      BY <1>12, <3>1 DEF TypeOK, ActiveLeaseOwnsTask, AcceptLegacyLifecycleEvent, Deactivate,
                         LegalTransition, Terminal
    <3>3. EventForTransition("failed") = "TaskFailed"
      BY Zenon DEF EventForTransition
    <3>4. RowMoved(t, EventForTransition(to), to)
      BY <1>12, <3>1, <3>2, <3>3, TransitionReplays
         DEF TypeOK, AcceptLegacyLifecycleEvent, Record, counters, fixed, RowMoved, Logged,
             SameCounters, SameTask, Live, Terminal
    <3> QED
      BY <2>1, <3>1, <3>3, <3>4, TransitionReplays DEF RowStep, Statuses, EventTypes
  <2>2. CASE u # t
    BY <1>12, <2>2 DEF TypeOK, AcceptLegacyLifecycleEvent, Deactivate, Record, counters, fixed,
                       RowStep, RowIdle, SameCounters, SameTask
  <2> QED
    BY <2>1, <2>2
<1>13. ASSUME NEW t \in Tasks, NEW legacy \in LegacyEvents,
              AcceptLegacyOperationalEvent(t, legacy)
       PROVE  RowStep(u)
  <2>1. CASE u = t
    <3>1. legacy \in OperationalEvents /\ status[t] \in Live
      BY <1>13 DEF AcceptLegacyOperationalEvent, OperationalLegacy, OperationalEvents, Live
    <3>2. RowNoted(t, legacy)
      BY <1>13, <3>1
         DEF TypeOK, AcceptLegacyOperationalEvent, Record, counters, fixed, RowNoted, Logged,
             SameCounters, SameTask
    <3> QED
      BY <2>1, <3>1, <3>2 DEF RowStep, EventTypes
  <2>2. CASE u # t
    BY <1>13, <2>2 DEF TypeOK, AcceptLegacyOperationalEvent, Record, counters, fixed, RowStep,
                       RowIdle, SameCounters, SameTask
  <2> QED
    BY <2>1, <2>2
<1>14. ASSUME NEW t \in Tasks, NEW to \in Terminal, ApplyRemoteResult(t, to)
       PROVE  RowStep(u)
  <2>1. CASE u = t
    <3>1. ~lease[t].active
      BY <1>14, <2>1, <1>a DEF ActiveLeaseOwnsTask, ApplyRemoteResult
    <3>2. RowReported(t, to)
      BY <1>14, <3>1 DEF TypeOK, ApplyRemoteResult, counters, fixed, RowReported, SameCounters,
                         SameTask
    <3> QED
      BY <2>1, <3>2 DEF RowStep
  <2>2. CASE u # t
    BY <1>14, <2>2 DEF TypeOK, ApplyRemoteResult, counters, fixed, RowStep, RowIdle,
                       SameCounters, SameTask
  <2> QED
    BY <2>1, <2>2
<1>15. CASE Tick \/ UNCHANGED vars
  BY <1>15 DEF Tick, vars, counters, fixed, RowStep, RowIdle, SameCounters, SameTask
<1>16. CASE Accepting
  BY <1>16, <1>1 DEF Accepting, AcceptTask, AcceptTaskWithContext
<1>17. CASE Leasing
  BY <1>17, <1>2, <1>3, <1>4 DEF Leasing
<1>18. CASE Settling
  <2>1. "completed" \in Terminal /\ "failed" \in Terminal
    BY DEF Terminal
  <2>2. PICK t \in Tasks, id \in 0..MaxTime, w \in Workers :
          \/ CompleteTask(t, id, w)
          \/ \E max \in RetryLimits : FailTask(t, id, w, max)
          \/ RetryTask(t, id, w)
          \/ DeadLetterTask(t, id, w)
    BY <1>18 DEF Settling
  <2>3. dead_lettered[t] \in BOOLEAN
    BY DEF TypeOK
  <2>4. CASE CompleteTask(t, id, w)
    BY <2>1, <2>3, <2>4, <1>5 DEF CompleteTask
  <2>5. CASE \E max \in RetryLimits : FailTask(t, id, w, max)
    BY <2>1, <2>5, <1>5, <1>6, <1>7 DEF FailTask, PresentsLease
  <2> QED
    BY <2>2, <2>4, <2>5, <1>6, <1>7 DEF RetryTask, DeadLetterTask, PresentsLease
<1>19. CASE Scanning
  BY <1>19, <1>8, <1>9 DEF Scanning
<1>20. CASE Maintaining
  BY <1>20, <1>10, <1>11, <1>12, <1>13, <1>14 DEF Maintaining
<1> QED
  BY <1>15, <1>16, <1>17, <1>18, <1>19, <1>20 DEF Next
------------------------------------------------------------------------------
(* The theorems about leases, replay and the lifecycle.                      *)

\* ActiveLeaseOwnsTask is inductive: each way in which the rows of a task can
\* change keeps its lease and its status in agreement.
LEMMA LeaseStep ==
    TypeOK /\ ActiveLeaseOwnsTask /\ [Next]_vars => ActiveLeaseOwnsTask'
<1> SUFFICES ASSUME TypeOK, ActiveLeaseOwnsTask, [Next]_vars, NEW t \in Tasks
             PROVE  /\ lease'[t].active =>
                         /\ status'[t] = "running"
                         /\ lease'[t].worker \in Workers
                         /\ route'[t] # "outbound"
                         /\ deadline_ms'[t] # NoDeadline =>
                              lease'[t].leased_at < deadline_ms'[t]
                    /\ ~lease'[t].active => lease'[t] = NoLease
                    /\ dead_lettered'[t] => status'[t] = "failed"
  BY DEF ActiveLeaseOwnsTask
<1> DEFINE Held == lease'[t].active =>
                     /\ status'[t] = "running"
                     /\ lease'[t].worker \in Workers
                     /\ route'[t] # "outbound"
                     /\ deadline_ms'[t] # NoDeadline =>
                          lease'[t].leased_at < deadline_ms'[t]
           Released == ~lease'[t].active => lease'[t] = NoLease
           Dead == dead_lettered'[t] => status'[t] = "failed"
           Goal == Held /\ Released /\ Dead
<1>1. /\ lease[t].active =>
           /\ status[t] = "running"
           /\ lease[t].worker \in Workers
           /\ route[t] # "outbound"
           /\ deadline_ms[t] # NoDeadline => lease[t].leased_at < deadline_ms[t]
      /\ ~lease[t].active => lease[t] = NoLease
      /\ dead_lettered[t] => status[t] = "failed"
  BY DEF ActiveLeaseOwnsTask
<1>2. NoLease.active = FALSE
  BY DEF NoLease
<1>3. RowStep(t)
  BY RowSteps
<1>4. CASE RowIdle(t)
  BY <1>1, <1>4 DEF RowIdle, SameCounters, SameTask
<1>5. CASE RowAccepted(t)
  BY <1>1, <1>2, <1>5 DEF RowAccepted, SameCounters
<1>6. CASE RowClaimed(t)
  BY <1>1, <1>6 DEF RowClaimed, SameCounters, SameTask
<1>7. CASE RowRenewed(t)
  BY <1>1, <1>7 DEF RowRenewed, SameCounters, SameTask
<1>8. ASSUME NEW type, NEW to, RowMoved(t, type, to)
      PROVE  Goal
  <2>1. lease'[t] = NoLease
    BY <1>8 DEF RowMoved
  <2>2. Dead
    <3>1. status[t] # "failed"
      BY <1>8 DEF RowMoved, Live
    <3>2. SameCounters(t) \/ ~dead_lettered'[t] \/ status'[t] = "failed"
      BY <1>8 DEF RowMoved
    <3> QED
      BY <1>1, <3>1, <3>2 DEF SameCounters
  <2> QED
    BY <1>2, <2>1, <2>2
<1>9. ASSUME NEW type, RowNoted(t, type)
      PROVE  Goal
  <2>1. /\ status'[t] = status[t] /\ lease'[t] = lease[t]
        /\ SameCounters(t) /\ SameTask(t)
    BY <1>9 DEF RowNoted
  <2> QED
    BY <1>1, <2>1 DEF SameCounters, SameTask
<1>10. ASSUME NEW to, RowReported(t, to)
       PROVE  Goal
  <2>1. ~lease[t].active /\ lease'[t] = lease[t] /\ status[t] \in Live /\ SameCounters(t)
    BY <1>10 DEF RowReported
  <2> QED
    BY <1>1, <1>2, <2>1 DEF SameCounters, Live
<1>11. Goal
  <2> HIDE DEF Goal
  <2>1. CASE RowIdle(t) \/ RowAccepted(t) \/ RowClaimed(t) \/ RowRenewed(t)
    BY <1>4, <1>5, <1>6, <1>7, <2>1 DEF Goal
  <2> QED
    BY <1>3, <1>8, <1>9, <1>10, <2>1 DEF RowStep
<1> QED
  BY <1>11

\* Execution rights and lifecycle always agree (ActiveLeaseOwnsTask): every
\* operation that takes a task out of execution, the two background scans
\* included, releases its lease, and a claim grants a lease only for a pending
\* task of this node before its deadline.
THEOREM LeasesOwnTasks == Spec => []ActiveLeaseOwnsTask
<1>1. Init => ActiveLeaseOwnsTask
  BY DEF Init, ActiveLeaseOwnsTask, NoLease
<1> QED
  BY <1>1, TypeCorrect, LeaseStep, PTL DEF Spec

\* A lease that has expired by every clock value still in use is never revived:
\* renew_lease rejects it, and a new claim has to wait until it is released.
THEOREM ExpiredLeasesStayExpired == Spec => LeaseNeverRevived
<1>1. ASSUME TypeOK, ActiveLeaseOwnsTask, [Next]_vars, NEW t \in Tasks,
             lease[t].active, lease[t].expires_at + MaxLag <= clock, lease'[t].active
      PROVE  lease'[t] = lease[t]
  <2>1. RowStep(t) /\ status[t] = "running" /\ NoLease.active = FALSE
    BY <1>1, RowSteps DEF ActiveLeaseOwnsTask, NoLease
  <2>2. lease[t].expires_at \in Nat /\ clock \in Nat /\ MaxLag \in Nat
    BY TimesAssumption, <1>1 DEF TypeOK, LeaseRecord
  <2>3. ~RowAccepted(t) /\ ~RowClaimed(t)
    BY <1>1, <2>1 DEF RowAccepted, RowClaimed
  <2>4. ~RowRenewed(t)
    BY <1>1, <2>2 DEF RowRenewed
  <2>5. ASSUME NEW type, NEW to
        PROVE  ~RowMoved(t, type, to)
    BY <1>1, <2>1 DEF RowMoved
  <2>6. ASSUME NEW type, RowNoted(t, type)
        PROVE  lease'[t] = lease[t]
    BY <2>6 DEF RowNoted
  <2>7. ASSUME NEW to
        PROVE  ~RowReported(t, to)
    BY <1>1 DEF RowReported
  <2>8. RowIdle(t) => lease'[t] = lease[t]
    BY DEF RowIdle
  <2> QED
    BY <2>1, <2>3, <2>4, <2>5, <2>6, <2>7, <2>8 DEF RowStep
<1>2. TypeOK /\ ActiveLeaseOwnsTask /\ [Next]_vars =>
        [\A t \in Tasks :
           lease[t].active /\ lease[t].expires_at + MaxLag <= clock /\ lease'[t].active
             => lease'[t] = lease[t]]_vars
  BY <1>1
<1> QED
  BY <1>2, TypeCorrect, LeasesOwnTasks, PTL DEF Spec, LeaseNeverRevived

\* One idempotency key never names two tasks, since a task is inserted only
\* after its key was looked up in the same transaction.
THEOREM KeysNameOneTask == Spec => []KeyNamesOneTask
<1>1. Init => KeyNamesOneTask
  BY DEF Init, KeyNamesOneTask
<1>2. TypeOK /\ KeyNamesOneTask /\ [Next]_vars => KeyNamesOneTask'
  <2> SUFFICES ASSUME TypeOK, KeyNamesOneTask, [Next]_vars PROVE KeyNamesOneTask'
    OBVIOUS
  <2>1. CASE Accepting
    <3>1. PICK t \in Tasks, k \in Keys \cup {NoKey}, d \in Deadlines \cup {NoDeadline},
               r \in Routes : InsertTask(t, k, d, r)
      BY <2>1 DEF Accepting, AcceptTask, AcceptTaskWithContext, Routes
    <3> QED
      BY <3>1 DEF TypeOK, KeyNamesOneTask, InsertTask, KeyIsFree
  <2>2. CASE ~Accepting
    <3>1. Leasing => key' = key
      BY DEF Leasing, LeaseTask, LeaseTaskTooLate, RenewLease, fixed
    <3>2. Settling => key' = key
      BY DEF Settling, CompleteTask, FailTask, RetryTask, DeadLetterTask, FinishTaskInTx,
             RetryTaskInTx, DeadLetterTaskInTx, fixed
    <3>3. Scanning => key' = key
      BY DEF Scanning, FailExpiredDeadlines, RecoverStaleLeases, fixed
    <3>4. Maintaining => key' = key
      BY DEF Maintaining, CancelTask, TransitionTask, AcceptLegacyOperationalEvent,
             AcceptLegacyLifecycleEvent, ApplyRemoteResult, fixed
    <3>5. key' = key
      BY <2>2, <3>1, <3>2, <3>3, <3>4 DEF Next, Tick, vars, fixed
    <3> QED
      BY <3>5 DEF KeyNamesOneTask
  <2> QED
    BY <2>1, <2>2
<1> QED
  BY <1>1, <1>2, TypeCorrect, PTL DEF Spec

\* Replaying one more event: an event that continues the status of the snapshot
\* is accepted, and the snapshot moves to the event's target.
LEMMA AppendReplays ==
    ASSUME NEW log \in Seq(EventRecord), NEW s, NEW dl \in BOOLEAN, NEW rc,
           Replays(log, s, dl, rc),
           NEW e \in EventRecord, ReplayStep(e, s),
           NEW dl2 \in BOOLEAN, NEW rc2,
           dl2 <=> dl \/ e.type = "TaskDeadLettered",
           dl2 => rc2 # 0
    PROVE  Replays(Append(log, e), e.to, dl2, rc2)
<1> DEFINE new == Append(log, e)
<1>1. /\ Len(log) \in Nat /\ Len(log) > 0
      /\ log[1] = Accepted
      /\ \A i \in 2..Len(log) : ReplayStep(log[i], log[i - 1].to)
      /\ log[Len(log)].to = s
      /\ dl <=> \E i \in 2..Len(log) : log[i].type = "TaskDeadLettered"
  BY DEF Replays
<1>2. /\ Len(new) = Len(log) + 1
      /\ new[Len(log) + 1] = e
      /\ \A i \in 1..Len(log) : new[i] = log[i]
  OBVIOUS
<1> HIDE DEF new
<1>3. \A i \in 2..Len(new) : ReplayStep(new[i], new[i - 1].to)
  <2> SUFFICES ASSUME NEW i \in 2..Len(new) PROVE ReplayStep(new[i], new[i - 1].to)
    OBVIOUS
  <2>1. CASE i = Len(log) + 1
    BY <1>1, <1>2, <2>1
  <2>2. CASE i # Len(log) + 1
    <3>1. i \in 2..Len(log) /\ i - 1 \in 1..Len(log)
      BY <1>1, <1>2, <2>2
    <3>2. new[i] = log[i] /\ new[i - 1] = log[i - 1]
      BY <1>1, <1>2, <3>1
    <3> QED
      BY <1>1, <3>1, <3>2
  <2> QED
    BY <2>1, <2>2
<1>4. dl2 <=> \E i \in 2..Len(new) : new[i].type = "TaskDeadLettered"
  <2>1. ASSUME dl2 PROVE \E i \in 2..Len(new) : new[i].type = "TaskDeadLettered"
    BY <1>1, <1>2, <2>1
  <2>2. ASSUME NEW i \in 2..Len(new), new[i].type = "TaskDeadLettered" PROVE dl2
    BY <1>1, <1>2, <2>2
  <2> QED
    BY <2>1, <2>2
<1>5. Len(new) > 0 /\ new[1] = Accepted /\ new[Len(new)].to = e.to
  BY <1>1, <1>2
<1> QED
  BY <1>3, <1>4, <1>5 DEF Replays, new

\* The log of every task the store wrote replays to the task's snapshot, as
\* long as no approval denial is ingested (its stored form is one the replay
\* rejects), so recovery reports no task as corrupt.
THEOREM LogsReplay == NoDenials => (Spec => []ReplayConsistent)
<1> SUFFICES ASSUME NoDenials PROVE Spec => []ReplayConsistent
  OBVIOUS
<1>1. Init => ReplayConsistent
  BY DEF Init, ReplayConsistent, Exists
<1>2. TypeOK /\ TypeOK' /\ ActiveLeaseOwnsTask /\ ReplayConsistent /\ [Next]_vars
        => ReplayConsistent'
  <2> SUFFICES ASSUME TypeOK, TypeOK', ActiveLeaseOwnsTask, ReplayConsistent, [Next]_vars,
                      NEW t \in Tasks, status'[t] # "absent"
               PROVE  Replays(task_events'[t], status'[t], dead_lettered'[t], retry_count'[t])
    BY DEF ReplayConsistent, Exists
  <2>1. /\ task_events[t] \in Seq(EventRecord)
        /\ status[t] \in Statuses
        /\ dead_lettered[t] \in BOOLEAN /\ dead_lettered'[t] \in BOOLEAN
        /\ retry_count[t] \in Nat
        /\ status[t] # "absent" =>
             Replays(task_events[t], status[t], dead_lettered[t], retry_count[t])
        /\ dead_lettered[t] => status[t] = "failed"
    BY DEF TypeOK, ActiveLeaseOwnsTask, ReplayConsistent, Exists
  <2>2. dead_lettered[t] => retry_count[t] # 0
    BY <2>1 DEF Replays
  <2>3. RowStep(t)
    BY RowSteps
  <2>4. CASE RowIdle(t) \/ RowRenewed(t)
    BY <2>1, <2>4 DEF RowIdle, RowRenewed, SameCounters
  <2>5. CASE RowAccepted(t)
    <3>1. dead_lettered'[t] = FALSE
      BY <2>1, <2>5 DEF RowAccepted, SameCounters
    <3>2. Replays(<<Accepted>>, "pending", FALSE, retry_count'[t])
      <4>1. /\ Len(<<Accepted>>) = 1 /\ <<Accepted>>[1] = Accepted
            /\ 2..1 = {} /\ Accepted.to = "pending"
        BY DEF Accepted, Event
      <4> QED
        BY <4>1, SMTT(20) DEF Replays
    <3> QED
      BY <2>5, <3>1, <3>2 DEF RowAccepted
  <2>6. ASSUME NEW type \in EventTypes, NEW from \in Statuses, NEW to \in Statuses
        PROVE  /\ Event(type, from, to) \in EventRecord
               /\ Event(type, from, to).type = type
               /\ Event(type, from, to).to = to
    BY DEF Event, EventRecord
  <2>7. CASE RowClaimed(t)
    <3> DEFINE e == Event("TaskStarted", "pending", "running")
    <3>1. e \in EventRecord /\ e.type = "TaskStarted" /\ e.to = "running"
      BY <2>6 DEF EventTypes, Statuses, Live
    <3>2. ReplayStep(e, "pending")
      BY Zenon DEF ReplayStep, Event, LegalTransition, EventForTransition
    <3> HIDE DEF e
    <3>3. /\ task_events'[t] = Append(task_events[t], e) /\ status'[t] = "running"
          /\ status[t] = "pending" /\ SameCounters(t)
      BY <2>7 DEF RowClaimed, Logged, e
    <3> QED
      BY <2>1, <2>2, <3>1, <3>2, <3>3, AppendReplays DEF SameCounters
  <2>8. ASSUME NEW type \in EventTypes, NEW to \in Statuses, RowMoved(t, type, to)
        PROVE  Replays(task_events'[t], status'[t], dead_lettered'[t], retry_count'[t])
    <3> DEFINE e == Event(type, status[t], to)
    <3>1. e \in EventRecord /\ e.type = type /\ e.to = to
      BY <2>1, <2>6
    <3>2. /\ ReplayStep(e, status[t])
          /\ task_events'[t] = Append(task_events[t], e) /\ status'[t] = to
          /\ status[t] \in Live
      BY <2>8 DEF RowMoved, Logged
    <3>3. ~dead_lettered[t] /\ status[t] # "absent"
      BY <2>1, <3>2 DEF Live
    <3>4. /\ dead_lettered'[t] <=> type = "TaskDeadLettered"
          /\ dead_lettered'[t] => retry_count'[t] # 0
      <4>1. \/ SameCounters(t) /\ type # "TaskDeadLettered"
            \/ /\ retry_count'[t] = retry_count[t] + 1
               /\ \/ ~dead_lettered'[t] /\ type # "TaskDeadLettered"
                  \/ dead_lettered'[t] /\ type = "TaskDeadLettered"
        BY <2>8 DEF RowMoved
      <4>2. CASE SameCounters(t) /\ type # "TaskDeadLettered"
        BY <4>2, <3>3 DEF SameCounters
      <4>3. CASE retry_count'[t] = retry_count[t] + 1
        BY <4>1, <4>2, <4>3, <2>1
      <4> QED
        BY <4>1, <4>2, <4>3
    <3> HIDE DEF e
    <3> QED
      BY <2>1, <3>1, <3>2, <3>3, <3>4, AppendReplays
  <2>9. ASSUME NEW type \in EventTypes, RowNoted(t, type)
        PROVE  Replays(task_events'[t], status'[t], dead_lettered'[t], retry_count'[t])
    <3> DEFINE e == Event(type, status[t], status[t])
    <3>1. e \in EventRecord /\ e.type = type /\ e.to = status[t]
      BY <2>1, <2>6
    <3>2. ReplayStep(e, status[t]) /\ type # "TaskDeadLettered"
      BY <2>9 DEF RowNoted, ReplayStep, Event, OperationalEvents
    <3>3. /\ task_events'[t] = Append(task_events[t], e) /\ status'[t] = status[t]
          /\ status[t] # "absent" /\ SameCounters(t)
      BY <2>9 DEF RowNoted, Logged, Live
    <3> HIDE DEF e
    <3> QED
      BY <2>1, <2>2, <3>1, <3>2, <3>3, AppendReplays DEF SameCounters
  <2>10. ASSUME NEW to \in Terminal, RowReported(t, to)
         PROVE  Replays(task_events'[t], status'[t], dead_lettered'[t], retry_count'[t])
    <3> DEFINE b == Event("TaskStarted", "pending", "running")
               e == Event(EventForTransition(to), "running", to)
               log == IF status[t] = "pending" THEN Append(task_events[t], b)
                                               ELSE task_events[t]
    <3>1. /\ status[t] \in Live /\ status[t] # "absent" /\ status'[t] = to
          /\ task_events'[t] = Append(log, e) /\ SameCounters(t)
      BY <2>10 DEF RowReported, Live
    <3>2. LegalTransition("pending", "running") /\ LegalTransition("running", to)
      BY DEF LegalTransition, Terminal
    <3>3. /\ EventForTransition("running") = "TaskStarted"
          /\ ReplayStep(b, "pending") /\ ReplayStep(e, "running")
          /\ EventForTransition(to) \in EventTypes \ {"TaskDeadLettered"}
      <4>1. EventForTransition("running") = "TaskStarted"
        BY Zenon DEF EventForTransition
      <4> QED
        BY <3>2, <4>1, TransitionReplays
    <3>4. /\ b \in EventRecord /\ b.type = "TaskStarted" /\ b.to = "running"
          /\ e \in EventRecord /\ e.type # "TaskDeadLettered" /\ e.to = to
      BY <2>6, <3>3 DEF EventTypes, Statuses, Live, Terminal
    <3> HIDE DEF b, e
    <3>5. /\ log \in Seq(EventRecord)
          /\ Replays(log, "running", dead_lettered[t], retry_count[t])
      <4>1. CASE status[t] = "running"
        BY <2>1, <4>1
      <4>2. CASE status[t] = "pending"
        <5>1. Replays(Append(task_events[t], b), b.to, dead_lettered[t], retry_count[t])
          BY <2>1, <2>2, <3>1, <3>3, <3>4, <4>2, AppendReplays
        <5> QED
          BY <2>1, <3>4, <4>2, <5>1
      <4> QED
        BY <3>1, <4>1, <4>2 DEF Live
    <3> HIDE DEF log
    <3>6. Replays(Append(log, e), e.to, dead_lettered[t], retry_count[t])
      <4>1. /\ dead_lettered[t] \in BOOLEAN
            /\ dead_lettered[t] <=> dead_lettered[t] \/ e.type = "TaskDeadLettered"
            /\ dead_lettered[t] => retry_count[t] # 0
        BY <2>1, <2>2, <3>4
      <4>2. e \in EventRecord /\ ReplayStep(e, "running")
        BY <3>3, <3>4
      <4> QED
        BY <3>5, <4>1, <4>2, AppendReplays, ZenonT(20)
    <3> QED
      BY <3>1, <3>4, <3>6 DEF SameCounters
  <2> QED
    BY <2>3, <2>4, <2>5, <2>7, <2>8, <2>9, <2>10 DEF RowStep
<1> QED
  BY <1>1, <1>2, TypeCorrect, LeasesOwnTasks, PTL DEF Spec

\* The store implements the lifecycle contract for every number of tasks and
\* workers: each step of the store is, for each task, a lifecycle step or no
\* step at all.
THEOREM StoreImplementsLifecycle == Spec => ImplementsLifecycle
<1>1. Init => L!Init
  BY DEF Init, L!Init, NoLease
<1>2. TypeOK /\ ActiveLeaseOwnsTask /\ [Next]_vars => L!Next
  <2> SUFFICES ASSUME TypeOK, ActiveLeaseOwnsTask, [Next]_vars, NEW t \in Tasks
               PROVE  L!Step(t)
    BY DEF L!Next
  <2>1. /\ lease[t].active => status[t] = "running" /\ lease[t].worker # NoWorker
        /\ ~lease[t].active => lease[t].worker = NoWorker
        /\ NoLease.worker = NoWorker
    BY WorkersAssumption, SMTT(20) DEF ActiveLeaseOwnsTask, NoLease
  <2>a. /\ dead_lettered[t] \in BOOLEAN /\ dead_lettered'[t] \in BOOLEAN
        /\ dead_lettered[t] => status[t] = "failed"
    BY TypeStep DEF TypeOK, ActiveLeaseOwnsTask
  <2>2. RowStep(t)
    BY RowSteps
  <2>3. CASE RowIdle(t)
    BY <2>3 DEF RowIdle, SameCounters, L!Step, L!Same
  <2>4. CASE RowAccepted(t)
    BY <2>1, <2>4 DEF RowAccepted, SameCounters, L!Step, L!Accept
  <2>5. CASE RowClaimed(t)
    BY <2>1, <2>5 DEF RowClaimed, SameCounters, L!Step, L!Start
  <2>6. CASE RowRenewed(t)
    BY <2>6 DEF RowRenewed, SameCounters, L!Step, L!Same
  <2>7. ASSUME NEW type, NEW to, RowMoved(t, type, to)
        PROVE  L!Step(t)
    <3>1. CASE to = "pending"
      <4>1. dead_lettered'[t] = dead_lettered[t]
        <5>1. ~dead_lettered[t]
          <6>1. status[t] # "failed"
            BY <2>7 DEF RowMoved, Live
          <6> QED
            BY <2>a, <6>1
        <5>2. SameCounters(t) \/ ~dead_lettered'[t]
          BY <2>7, <3>1 DEF RowMoved
        <5>3. CASE ~dead_lettered'[t]
          BY <2>a, <5>1, <5>3
        <5> QED
          BY <5>2, <5>3 DEF SameCounters
      <4>2. retry_count'[t] \in {retry_count[t], retry_count[t] + 1}
        BY <2>7 DEF RowMoved, SameCounters
      <4> QED
        BY <2>1, <2>7, <3>1, <4>1, <4>2 DEF RowMoved, Live, L!Step, L!Requeue
    <3>2. CASE to = "running"
      BY <2>1, <2>7, <3>2 DEF RowMoved, SameCounters, Live, L!Step, L!Start
    <3>3. CASE to \in Terminal
      BY <2>1, <2>7, <3>3 DEF RowMoved, SameCounters, Live, Terminal, L!Step, L!Settle
    <3> QED
      BY <2>7, <3>1, <3>2, <3>3 DEF RowMoved, Live
  <2>8. ASSUME NEW type, RowNoted(t, type)
        PROVE  L!Step(t)
    BY <2>8 DEF RowNoted, SameCounters, L!Step, L!Same
  <2>9. ASSUME NEW to, RowReported(t, to)
        PROVE  L!Step(t)
    BY <2>1, <2>9 DEF RowReported, SameCounters, Live, Terminal, L!Step, L!Settle
  <2> QED
    BY <2>2, <2>3, <2>4, <2>5, <2>6, <2>7, <2>8, <2>9 DEF RowStep
<1> QED
  BY <1>1, <1>2, TypeCorrect, LeasesOwnTasks, PTL DEF Spec, ImplementsLifecycle, L!Spec
------------------------------------------------------------------------------
(* ResultStore.                                                              *)

\* Every operation the daemon performs is an operation of TaskStore, with more
\* written in the same transaction, or touches the outbox only.
LEMMA ResultStepIsStoreStep == [ResultNext]_rvars => [Next]_vars
<1> SUFFICES ASSUME [ResultNext]_rvars PROVE [Next]_vars
  OBVIOUS
<1>1. CASE StoreStep
  BY <1>1 DEF StoreStep, Next
<1>2. CASE SettlingWithResult
  <2>1. PICK t \in Tasks, id \in 0..MaxTime, w \in Workers, at \in ReadTimes :
          \/ CompleteTaskWithResult(t, id, w, at)
          \/ \E max \in RetryLimits : FailTaskWithResult(t, id, w, max, at)
          \/ CancelTaskWithResult(t, id, w, at)
    BY <1>2 DEF SettlingWithResult
  <2>2. Settling \/ Maintaining
    BY <2>1 DEF CompleteTaskWithResult, FailTaskWithResult, CancelTaskWithResult, Settling,
                Maintaining
  <2> QED
    BY <2>2 DEF Next
<1>3. CASE Ingesting
  <2>1. \E t \in Tasks, to \in Terminal : ApplyRemoteResult(t, to)
    BY <1>3 DEF Ingesting, IngestRemoteResult, StatusOf, Terminal
  <2> QED
    BY <2>1 DEF Next, Maintaining
<1>4. CASE Delivering
  BY <1>4 DEF Delivering, ClaimNextResultDelivery, AckResultDelivery, FailResultDelivery
<1>5. CASE UNCHANGED rvars
  BY <1>5 DEF rvars
<1> QED
  BY <1>1, <1>2, <1>3, <1>4, <1>5 DEF ResultNext

\* The store as the daemon drives it implements TaskStore, so every theorem
\* about TaskStore holds of it.
THEOREM ResultImplementsStore == ResultSpec => ImplementsTaskStore
<1>1. ResultInit => Init
  BY DEF ResultInit
<1> QED
  BY <1>1, ResultStepIsStoreStep, PTL DEF ResultSpec, Spec, ImplementsTaskStore
------------------------------------------------------------------------------
\* A step of the daemon's store that leaves a task running leaves it leased:
\* claims write both, and every release moves the task on.
LEMMA RunningStep ==
    TypeOK /\ RunningIsLeased /\ [ResultNext]_rvars => RunningIsLeased'
<1> SUFFICES ASSUME TypeOK, RunningIsLeased, [ResultNext]_rvars, NEW u \in Tasks,
                    status'[u] = "running"
             PROVE  lease'[u].active
  BY DEF RunningIsLeased
<1> USE DEF RunningIsLeased
<1>1. ASSUME NEW t \in Tasks, NEW k, NEW d, NEW r, InsertTask(t, k, d, r)
      PROVE  lease'[u].active
  BY <1>1 DEF TypeOK, InsertTask
<1>2. CASE Leasing
  <2>1. ASSUME NEW t \in Tasks, NEW now, LeaseTaskTooLate(t, now)
        PROVE  lease'[u].active
    BY <2>1 DEF TypeOK, LeaseTaskTooLate, Record
  <2>2. ASSUME NEW t \in Tasks, NEW w, NEW now, NEW dur, LeaseTask(t, w, now, dur)
        PROVE  lease'[u].active
    BY <2>2 DEF TypeOK, LeaseTask, Record
  <2>3. ASSUME NEW t \in Tasks, NEW id, NEW w, NEW now, NEW dur, RenewLease(t, id, w, now, dur)
        PROVE  lease'[u].active
    <3>1. lease[u] \in LeaseRecord /\ lease[u].active
      BY <2>3 DEF TypeOK, RenewLease
    <3> QED
      BY <2>3, <3>1 DEF TypeOK, RenewLease, LeaseRecord
  <2> QED
    BY <1>2, <2>1, <2>2, <2>3 DEF Leasing
<1>3. CASE Scanning
  <2>1. ASSUME NEW now, NEW limit, FailExpiredDeadlines(now, limit)
        PROVE  lease'[u].active
    BY <2>1 DEF FailExpiredDeadlines
  <2>2. ASSUME NEW now, NEW limit, RecoverStaleLeases(now, limit)
        PROVE  lease'[u].active
    <3>1. Recovered(status[u]) # "running"
      BY DEF Recovered
    <3> QED
      BY <2>2, <3>1 DEF RecoverStaleLeases
  <2> QED
    BY <1>3, <2>1, <2>2 DEF Scanning
<1>4. ASSUME NEW t \in Tasks, NEW id, NEW w, NEW to \in Terminal, NEW rc, NEW dl,
             FinishTaskInTx(t, id, w, to, rc, dl)
      PROVE  lease'[u].active
  BY <1>4 DEF TypeOK, FinishTaskInTx, Deactivate, Record, Terminal
<1>5. ASSUME NEW t \in Tasks, RetryTaskInTx(t) \/ DeadLetterTaskInTx(t)
      PROVE  lease'[u].active
  BY <1>5 DEF TypeOK, RetryTaskInTx, DeadLetterTaskInTx, Deactivate, Record
<1>6. ASSUME NEW t \in Tasks, NEW now, CancelTask(t, now)
      PROVE  lease'[u].active
  BY <1>6 DEF TypeOK, CancelTask, Deactivate, Record
<1>7. ASSUME NEW t \in Tasks, NEW to \in Terminal, ApplyRemoteResult(t, to)
      PROVE  lease'[u].active
  BY <1>7 DEF TypeOK, ApplyRemoteResult, Terminal
<1>8. CASE StoreStep
  BY <1>8, <1>1, <1>2, <1>3
     DEF StoreStep, Accepting, AcceptTask, AcceptTaskWithContext, Tick
<1>9. CASE SettlingWithResult
  <2>1. "completed" \in Terminal /\ "failed" \in Terminal
    BY DEF Terminal
  <2>2. ASSUME NEW t \in Tasks, NEW id, NEW w, NEW at, CompleteTaskWithResult(t, id, w, at)
        PROVE  lease'[u].active
    BY <2>2, <1>4, <2>1 DEF CompleteTaskWithResult, CompleteTask
  <2>3. ASSUME NEW t \in Tasks, NEW id, NEW w, NEW max, NEW at,
               FailTaskWithResult(t, id, w, max, at)
        PROVE  lease'[u].active
    BY <2>3, <1>4, <1>5, <2>1 DEF FailTaskWithResult, FailTask
  <2>4. ASSUME NEW t \in Tasks, NEW id, NEW w, NEW now, CancelTaskWithResult(t, id, w, now)
        PROVE  lease'[u].active
    BY <2>4, <1>6 DEF CancelTaskWithResult
  <2> QED
    BY <1>9, <2>2, <2>3, <2>4 DEF SettlingWithResult
<1>10. CASE Ingesting
  <2>1. \E t \in Tasks, to \in Terminal : ApplyRemoteResult(t, to)
    BY <1>10 DEF Ingesting, IngestRemoteResult, StatusOf, Terminal
  <2> QED
    BY <2>1, <1>7
<1>11. CASE Delivering \/ UNCHANGED rvars
  <2>1. UNCHANGED vars
    BY <1>11 DEF Delivering, ClaimNextResultDelivery, AckResultDelivery, FailResultDelivery,
                 rvars
  <2> QED
    BY <2>1 DEF vars
<1> QED
  BY <1>8, <1>9, <1>10, <1>11 DEF ResultNext

\* Through the daemon's operations a task never runs without a lease, so the
\* recovery loop can always take it back from a worker that vanished.
THEOREM RunningTasksAreLeased == ResultSpec => []RunningIsLeased
<1>1. ResultInit => RunningIsLeased
  BY DEF ResultInit, Init, RunningIsLeased
<1> QED
  BY <1>1, RunningStep, ResultImplementsStore, TypeCorrect, PTL
     DEF ResultSpec, ImplementsTaskStore
------------------------------------------------------------------------------
(* What one step does to the result and the outbox row of one task.          *)

Unfiled(t) == result'[t] = result[t] /\ outbox'[t] = outbox[t]

Filed(t, outcome) ==
    /\ result[t] = "none"
    /\ outcome \in Outcomes
    /\ status[t] \in Live
    /\ status'[t] = StatusOf(outcome)
    /\ result'[t] = outcome
    /\ \/ route[t] # "inbound" /\ outbox'[t] = outbox[t]
       \/ /\ route[t] = "inbound"
          /\ outbox'[t].state = "pending" /\ outbox'[t].attempts = 0

Worked(t) == /\ result'[t] = result[t]
             /\ outbox[t].state \in {"pending", "leased"}
             /\ outbox'[t].state # "none"
             /\ outbox[t].attempts < MaxDeliveryAttempts =>
                  /\ outbox'[t].attempts <= MaxDeliveryAttempts
                  /\ outbox'[t].attempts = MaxDeliveryAttempts
                       => outbox'[t].state = "dead_lettered"

\* A failed attempt stays a row of the outbox within its budget.
LEMMA AttemptedRow ==
    ASSUME NEW row \in OutboxRecord, NEW next \in Nat, NEW giveUp
    PROVE  /\ Attempted(row, next, giveUp) \in OutboxRecord
           /\ Attempted(row, next, giveUp).state \in {"pending", "dead_lettered"}
           /\ Attempted(row, next, giveUp).next_at = next
           /\ row.attempts < MaxDeliveryAttempts =>
                /\ Attempted(row, next, giveUp).attempts <= MaxDeliveryAttempts
                /\ Attempted(row, next, giveUp).attempts = MaxDeliveryAttempts
                     => Attempted(row, next, giveUp).state = "dead_lettered"
<1> DEFINE last == row.attempts >= MaxDeliveryAttempts - 1
           state == IF giveUp \/ last THEN "dead_lettered" ELSE "pending"
           attempts == IF last THEN MaxDeliveryAttempts ELSE row.attempts + 1
<1>1. /\ row.attempts \in Nat /\ MaxDeliveryAttempts \in Nat \ {0}
      /\ row.created_at \in Nat
  BY DeliveryAssumption DEF OutboxRecord
<1>2. Attempted(row, next, giveUp) =
        [state |-> state, attempts |-> attempts, created_at |-> row.created_at,
         next_at |-> next, owner |-> NoWorker, expires_at |-> 0]
  BY DEF Attempted
<1>3. /\ state \in {"pending", "dead_lettered"} /\ attempts \in Nat
      /\ row.attempts < MaxDeliveryAttempts =>
           attempts <= MaxDeliveryAttempts
             /\ (attempts = MaxDeliveryAttempts => state = "dead_lettered")
  BY <1>1
<1> HIDE DEF state, attempts
<1> QED
  BY <1>1, <1>2, <1>3 DEF OutboxRecord

\* A new row of the outbox.
LEMMA FreshRow ==
    ASSUME NEW at \in Nat
    PROVE  LET row == [NoDelivery EXCEPT !.state = "pending", !.created_at = at, !.next_at = at]
           IN row \in OutboxRecord /\ row.state = "pending" /\ row.attempts = 0
  BY DEF NoDelivery, OutboxRecord

\* What a claim leaves of every row: expired claims are taken back, one due row
\* is leased, the others stay.
LEMMA ClaimRows ==
    ASSUME TypeOK, RowsTyped, NEW dw \in DeliveryWorkers, NEW now \in Nat,
           NEW dur \in DeliveryDurations, ClaimNextResultDelivery(dw, now, dur)
    PROVE  RowsTyped' /\ \A t \in Tasks : Unfiled(t) \/ Worked(t)
<1> DEFINE rows == ReclaimExpired(now)
           due == {t \in Tasks : rows[t].state = "pending" /\ rows[t].next_at <= now}
           next == {t \in due : \A u \in due : ~Earlier(rows, u, t)}
<1>1. SaturatingAdd(now, dur) \in Nat
  BY DeliveryAssumption, TimesAssumption DEF SaturatingAdd
<1>2. ASSUME NEW t \in Tasks
      PROVE  /\ rows[t] \in OutboxRecord
             /\ \/ rows[t] = outbox[t]
                \/ /\ outbox[t].state = "leased"
                   /\ rows[t].state \in {"pending", "dead_lettered"}
                   /\ outbox[t].attempts < MaxDeliveryAttempts =>
                        /\ rows[t].attempts <= MaxDeliveryAttempts
                        /\ rows[t].attempts = MaxDeliveryAttempts
                             => rows[t].state = "dead_lettered"
  <2>1. outbox[t] \in OutboxRecord
    BY DEF RowsTyped
  <2>2. CASE outbox[t].state = "leased" /\ outbox[t].expires_at <= now
    <3>1. rows[t] = Attempted(outbox[t], now, FALSE)
      BY <2>2 DEF ReclaimExpired
    <3>2. /\ Attempted(outbox[t], now, FALSE) \in OutboxRecord
          /\ Attempted(outbox[t], now, FALSE).state \in {"pending", "dead_lettered"}
          /\ outbox[t].attempts < MaxDeliveryAttempts =>
               /\ Attempted(outbox[t], now, FALSE).attempts <= MaxDeliveryAttempts
               /\ Attempted(outbox[t], now, FALSE).attempts = MaxDeliveryAttempts
                    => Attempted(outbox[t], now, FALSE).state = "dead_lettered"
      BY <2>1, AttemptedRow, ZenonT(30)
    <3> QED
      BY <2>2, <3>1, <3>2
  <2>3. CASE ~(outbox[t].state = "leased" /\ outbox[t].expires_at <= now)
    BY <2>1, <2>3 DEF ReclaimExpired
  <2> QED
    BY <2>2, <2>3
<1>3. next \subseteq {t \in Tasks : rows[t].state = "pending"}
  OBVIOUS
<1>4. /\ outbox' = [t \in Tasks |->
            IF t \in next
            THEN [rows[t] EXCEPT !.state = "leased", !.owner = dw,
                                 !.expires_at = SaturatingAdd(now, dur)]
            ELSE rows[t]]
      /\ result' = result
  BY DEF ClaimNextResultDelivery
<1> HIDE DEF rows, due, next
<1>5. ASSUME NEW t \in Tasks, t \in next
      PROVE  /\ outbox'[t] \in OutboxRecord
             /\ outbox'[t].state = "leased"
             /\ outbox'[t].attempts = rows[t].attempts
  BY <1>1, <1>2, <1>4, <1>5 DEF OutboxRecord
<1>6. ASSUME NEW t \in Tasks PROVE outbox'[t] \in OutboxRecord
  BY <1>2, <1>4, <1>5
<1>7. ASSUME NEW t \in Tasks PROVE Unfiled(t) \/ Worked(t)
  <2>1. outbox[t].attempts \in Nat /\ rows[t].attempts \in Nat /\ MaxDeliveryAttempts \in Nat
    BY <1>2, DeliveryAssumption DEF RowsTyped, OutboxRecord
  <2>2. CASE t \in next
    <3>1. rows[t].state = "pending" /\ outbox[t].state \in {"pending", "leased"}
      BY <1>2, <1>3, <2>2
    <3>2. /\ outbox'[t].state = "leased" /\ outbox'[t].attempts = rows[t].attempts
          /\ result'[t] = result[t]
      BY <1>4, <1>5, <2>2
    <3>3. outbox[t].attempts < MaxDeliveryAttempts => rows[t].attempts < MaxDeliveryAttempts
      BY <1>2, <2>1, <3>1
    <3>4. outbox[t].attempts < MaxDeliveryAttempts =>
            /\ outbox'[t].attempts <= MaxDeliveryAttempts
            /\ outbox'[t].attempts # MaxDeliveryAttempts
      <4>1. ASSUME NEW n \in Nat, n < MaxDeliveryAttempts
            PROVE  n <= MaxDeliveryAttempts /\ n # MaxDeliveryAttempts
        BY <4>1, <2>1
      <4> QED
        BY <2>1, <3>2, <3>3, <4>1
    <3> QED
      BY <3>1, <3>2, <3>4, Zenon DEF Worked
  <2>3. CASE t \notin next
    <3>1. outbox'[t] = rows[t]
      BY <1>4, <2>3
    <3> QED
      BY <1>2, <1>4, <3>1 DEF Worked, Unfiled
  <2> QED
    BY <2>2, <2>3
<1> QED
  BY <1>4, <1>6, <1>7 DEF RowsTyped

\* insert_terminal_result_and_outbox, for the task it is about and the others.
LEMMA FiledRows ==
    ASSUME RowsTyped, NEW t \in Tasks, NEW outcome \in Outcomes, NEW at \in Nat,
           result[t] = "none", status[t] \in Live, status'[t] = StatusOf(outcome),
           InsertResultAndOutbox(t, outcome, at)
    PROVE  RowsTyped' /\ \A u \in Tasks : Unfiled(u) \/ \E o \in Outcomes : Filed(u, o)
<1> DEFINE row == [NoDelivery EXCEPT !.state = "pending", !.created_at = at, !.next_at = at]
<1>1. row \in OutboxRecord /\ row.state = "pending" /\ row.attempts = 0
  BY FreshRow
<1>2. /\ result' = [result EXCEPT ![t] = outcome]
      /\ outbox' = IF route[t] = "inbound" THEN [outbox EXCEPT ![t] = row] ELSE outbox
  BY DEF InsertResultAndOutbox
<1> HIDE DEF row
<1>3. RowsTyped'
  BY <1>1, <1>2 DEF RowsTyped
<1>4. Filed(t, outcome)
  BY <1>1, <1>2 DEF RowsTyped, Filed
<1>5. \A u \in Tasks \ {t} : Unfiled(u)
  BY <1>2 DEF RowsTyped, Unfiled
<1> QED
  BY <1>3, <1>4, <1>5

\* A step of the daemon's store leaves the result and the outbox row of a task
\* alone, files them together when the task is settled, or works on the delivery
\* of a row that is not settled yet.
LEMMA DeliveryRows ==
    TypeOK /\ RowsTyped /\ [ResultNext]_rvars =>
        /\ RowsTyped'
        /\ \A u \in Tasks : Unfiled(u) \/ Worked(u) \/ \E o \in Outcomes : Filed(u, o)
<1> DEFINE Goal == /\ RowsTyped'
                   /\ \A u \in Tasks :
                        Unfiled(u) \/ Worked(u) \/ \E o \in Outcomes : Filed(u, o)
<1> SUFFICES ASSUME TypeOK, RowsTyped, [ResultNext]_rvars PROVE Goal
  OBVIOUS
<1>a. ReadTimes \subseteq Nat
  BY DEF ReadTimes
<1>1. ASSUME UNCHANGED <<result, outbox>> PROVE Goal
  BY <1>1 DEF RowsTyped, Unfiled
<1>2. ASSUME NEW t \in Tasks, NEW id, NEW w, NEW at \in ReadTimes,
             CompleteTaskWithResult(t, id, w, at)
      PROVE  Goal
  <2>1. status[t] \in Live /\ status'[t] = StatusOf("completed") /\ "completed" \in Outcomes
    BY <1>2 DEF TypeOK, CompleteTaskWithResult, CompleteTask, FinishTaskInTx, LegalTransition,
                Record, StatusOf, Outcomes, Live
  <2> QED
    BY <1>a, <1>2, <2>1, FiledRows DEF CompleteTaskWithResult
<1>3. ASSUME NEW t \in Tasks, NEW id, NEW w, NEW max, NEW at \in ReadTimes,
             FailTaskWithResult(t, id, w, max, at)
      PROVE  Goal
  <2>1. CASE status'[t] = "failed"
    <3>1. status[t] \in Live /\ StatusOf("failed") = "failed" /\ "failed" \in Outcomes
      BY <1>3 DEF FailTaskWithResult, FailTask, StatusOf, Outcomes, Live
    <3> QED
      BY <1>a, <1>3, <2>1, <3>1, FiledRows DEF FailTaskWithResult
  <2>2. CASE status'[t] # "failed"
    BY <1>1, <1>3, <2>2 DEF FailTaskWithResult
  <2> QED
    BY <2>1, <2>2
<1>4. ASSUME NEW t \in Tasks, NEW id, NEW w, NEW now \in ReadTimes,
             CancelTaskWithResult(t, id, w, now)
      PROVE  Goal
  <2>1. status[t] \in Live /\ status'[t] = StatusOf("canceled") /\ "canceled" \in Outcomes
    BY <1>4 DEF TypeOK, CancelTaskWithResult, CancelTask, Record, StatusOf, Outcomes
  <2> QED
    BY <1>a, <1>4, <2>1, FiledRows DEF CancelTaskWithResult
<1>5. ASSUME NEW t \in Tasks, NEW outcome \in Outcomes, IngestRemoteResult(t, outcome)
      PROVE  Goal
  <2>1. Filed(t, outcome)
    BY <1>5 DEF TypeOK, RowsTyped, IngestRemoteResult, ApplyRemoteResult, Filed
  <2>2. RowsTyped' /\ \A u \in Tasks \ {t} : Unfiled(u)
    BY <1>5 DEF RowsTyped, IngestRemoteResult, Unfiled
  <2> QED
    BY <2>1, <2>2
<1>6. ASSUME NEW dw \in DeliveryWorkers, NEW now \in ReadTimes, NEW dur \in DeliveryDurations,
             ClaimNextResultDelivery(dw, now, dur)
      PROVE  Goal
  BY <1>a, <1>6, ClaimRows
<1>7. ASSUME NEW t \in Tasks, NEW dw, NEW exp, NEW now, AckResultDelivery(t, dw, exp, now)
      PROVE  Goal
  <2> DEFINE row == [outbox[t] EXCEPT !.state = "delivered", !.owner = NoWorker,
                                      !.expires_at = 0]
  <2>1. outbox[t] \in OutboxRecord /\ outbox[t].state = "leased"
    BY <1>7 DEF RowsTyped, AckResultDelivery, HoldsDelivery
  <2>2. row \in OutboxRecord /\ row.state = "delivered" /\ row.attempts = outbox[t].attempts
    BY <2>1 DEF OutboxRecord
  <2>3. outbox' = [outbox EXCEPT ![t] = row] /\ result' = result
    BY <1>7 DEF AckResultDelivery
  <2> HIDE DEF row
  <2>4. Worked(t)
    BY <2>1, <2>2, <2>3, DeliveryAssumption DEF RowsTyped, OutboxRecord, Worked
  <2>5. RowsTyped' /\ \A u \in Tasks \ {t} : Unfiled(u)
    BY <2>2, <2>3 DEF RowsTyped, Unfiled
  <2> QED
    BY <2>4, <2>5
<1>8. ASSUME NEW t \in Tasks, NEW dw, NEW exp, NEW now \in ReadTimes, NEW delay \in RetryDelays,
             NEW giveUp, FailResultDelivery(t, dw, exp, now, delay, giveUp)
      PROVE  Goal
  <2> DEFINE row == Attempted(outbox[t], SaturatingAdd(now, delay), giveUp)
  <2>1. outbox[t] \in OutboxRecord /\ outbox[t].state = "leased"
    BY <1>8 DEF RowsTyped, FailResultDelivery, HoldsDelivery
  <2>2. SaturatingAdd(now, delay) \in Nat
    BY <1>a, DeliveryAssumption, TimesAssumption DEF SaturatingAdd
  <2>3. /\ row \in OutboxRecord
        /\ row.state \in {"pending", "dead_lettered"}
        /\ outbox[t].attempts < MaxDeliveryAttempts =>
             /\ row.attempts <= MaxDeliveryAttempts
             /\ row.attempts = MaxDeliveryAttempts => row.state = "dead_lettered"
    BY <2>1, <2>2, AttemptedRow
  <2>4. outbox' = [outbox EXCEPT ![t] = row] /\ result' = result
    BY <1>8 DEF FailResultDelivery
  <2> HIDE DEF row
  <2>5. Worked(t)
    BY <2>1, <2>3, <2>4 DEF RowsTyped, Worked
  <2>6. RowsTyped' /\ \A u \in Tasks \ {t} : Unfiled(u)
    BY <2>3, <2>4 DEF RowsTyped, Unfiled
  <2> QED
    BY <2>5, <2>6
<1> HIDE DEF Goal
<1>9. CASE StoreStep \/ UNCHANGED rvars
  BY <1>1, <1>9 DEF StoreStep, rvars
<1>10. CASE SettlingWithResult
  BY <1>2, <1>3, <1>4, <1>10 DEF SettlingWithResult
<1>11. CASE Ingesting
  BY <1>5, <1>11 DEF Ingesting
<1>12. CASE Delivering
  BY <1>6, <1>7, <1>8, <1>12 DEF Delivering
<1> QED
  BY <1>9, <1>10, <1>11, <1>12 DEF ResultNext

\* OutboxInv is inductive: filing a result is the only way into the outbox, and
\* it needs the task to be live and unsettled (SettledOnly).
LEMMA OutboxStep ==
    TypeOK /\ ActiveLeaseOwnsTask /\ OutboxInv /\ [ResultNext]_rvars => OutboxInv'
<1> SUFFICES ASSUME TypeOK, ActiveLeaseOwnsTask, OutboxInv, [ResultNext]_rvars
             PROVE  OutboxInv'
  OBVIOUS
<1>1. RowsTyped' /\ \A t \in Tasks : Unfiled(t) \/ Worked(t) \/ \E o \in Outcomes : Filed(t, o)
  BY DeliveryRows DEF OutboxInv
<1>2. ASSUME NEW t \in Tasks
      PROVE  /\ result'[t] # "none" => status'[t] \in Terminal
             /\ outbox'[t].state # "none" <=> result'[t] # "none" /\ route'[t] = "inbound"
             /\ outbox'[t].attempts <= MaxDeliveryAttempts
             /\ outbox'[t].attempts = MaxDeliveryAttempts
                  => outbox'[t].state = "dead_lettered"
  <2>1. /\ result[t] # "none" => status[t] \in Terminal
        /\ outbox[t].state # "none" <=> result[t] # "none" /\ route[t] = "inbound"
        /\ outbox[t].attempts <= MaxDeliveryAttempts
        /\ outbox[t].attempts = MaxDeliveryAttempts => outbox[t].state = "dead_lettered"
        /\ outbox[t].attempts \in Nat /\ MaxDeliveryAttempts \in Nat \ {0}
    BY DeliveryAssumption
       DEF OutboxInv, SettledOnly, OutboxServesSenders, DeliveryBudget, RowsTyped, OutboxRecord
  <2>2. /\ status[t] \in Terminal => status'[t] = status[t]
        /\ status[t] # "absent" => route'[t] = route[t]
    <3>1. RowStep(t)
      BY RowSteps, ResultStepIsStoreStep
    <3> QED
      BY <3>1 DEF RowStep, RowIdle, RowAccepted, RowClaimed, RowRenewed, RowMoved, RowNoted,
                  RowReported, SameTask, Live, Terminal, ActiveLeaseOwnsTask
  <2>3. CASE Unfiled(t)
    <3>1. result[t] # "none" => status[t] # "absent"
      BY <2>1 DEF Terminal
    <3> QED
      BY <2>1, <2>2, <2>3, <3>1 DEF Unfiled
  <2>4. CASE Worked(t)
    <3>1. result[t] # "none" /\ route[t] = "inbound" /\ status[t] # "absent"
      BY <2>1, <2>4 DEF Worked, Terminal
    <3>2. outbox[t].attempts < MaxDeliveryAttempts
      BY <2>1, <2>4 DEF Worked
    <3> QED
      BY <2>1, <2>2, <2>4, <3>1, <3>2 DEF Worked
  <2>5. ASSUME NEW o \in Outcomes, Filed(t, o)
        PROVE  /\ result'[t] # "none" /\ status'[t] \in Terminal
               /\ route'[t] = route[t]
               /\ \/ route[t] # "inbound" /\ outbox'[t] = outbox[t]
                  \/ /\ route[t] = "inbound"
                     /\ outbox'[t].state = "pending" /\ outbox'[t].attempts = 0
    BY <2>2, <2>5 DEF Filed, Outcomes, StatusOf, Live, Terminal
  <2>6. CASE \E o \in Outcomes : Filed(t, o)
    <3>1. \/ route[t] # "inbound" /\ outbox'[t] = outbox[t]
          \/ /\ route[t] = "inbound"
             /\ outbox'[t].state = "pending" /\ outbox'[t].attempts = 0
      BY <2>5, <2>6
    <3> QED
      BY <2>1, <2>5, <2>6, <3>1
  <2> QED
    BY <1>1, <2>3, <2>4, <2>6
<1> QED
  BY <1>1, <1>2 DEF OutboxInv, SettledOnly, OutboxServesSenders, DeliveryBudget

\* OutboxInv holds throughout, on top of what TaskStore keeps.
LEMMA OutboxInvariant == ResultSpec => []OutboxInv
<1>1. ResultInit => OutboxInv
  BY DeliveryAssumption
     DEF ResultInit, Init, OutboxInv, RowsTyped, SettledOnly, OutboxServesSenders,
         DeliveryBudget, NoDelivery, OutboxRecord
<1> QED
  BY <1>1, OutboxStep, ResultImplementsStore, TypeCorrect, LeasesOwnTasks, PTL
     DEF ResultSpec, ImplementsTaskStore

\* Type correctness of results and outbox rows: outcomes are terminal ones and
\* attempt counters never go below zero.
THEOREM ResultTypeCorrect == ResultSpec => []ResultTypeOK
<1>1. TypeOK /\ OutboxInv => ResultTypeOK
  BY DEF OutboxInv, RowsTyped, ResultTypeOK
<1> QED
  BY <1>1, OutboxInvariant, ResultImplementsStore, TypeCorrect, PTL DEF ImplementsTaskStore

\* Exactly the results of tasks received from another node are put in the
\* outbox, in the transaction that settles the task.
THEOREM OutboxIsForSenders == ResultSpec => []OutboxServesSenders
  BY OutboxInvariant, PTL DEF OutboxInv

\* No outbox row outlives its delivery budget, whether its attempts fail or the
\* workers that claimed it vanish.
THEOREM DeliveriesKeepBudget == ResultSpec => []DeliveryBudget
  BY OutboxInvariant, PTL DEF OutboxInv

\* The outbox stays in step: exactly the results of received tasks are queued
\* (make_outbox), and each row within its attempts.
THEOREM OutboxStaysInStep == ResultSpec => []OutboxInStep
<1>1. OutboxServesSenders /\ DeliveryBudget => OutboxInStep
  BY DEF OutboxInStep
<1> QED
  BY <1>1, OutboxIsForSenders, DeliveriesKeepBudget, PTL

\* A delivered or given-up row never changes again: not by a claim holder that
\* comes late, not by the reclaim, and not by a second result of its task.
THEOREM SettledDeliveriesStay == ResultSpec => SettledDeliveryFrozen
<1>1. ASSUME TypeOK, OutboxInv, [ResultNext]_rvars, NEW t \in Tasks,
             outbox[t].state \in {"delivered", "dead_lettered"}
      PROVE  outbox'[t] = outbox[t]
  <2>1. Unfiled(t) \/ Worked(t) \/ \E o \in Outcomes : Filed(t, o)
    BY <1>1, DeliveryRows DEF OutboxInv
  <2>2. result[t] # "none"
    BY <1>1 DEF OutboxInv, OutboxServesSenders
  <2> QED
    BY <1>1, <2>1, <2>2 DEF Unfiled, Worked, Filed
<1>2. TypeOK /\ OutboxInv /\ [ResultNext]_rvars =>
        [\A t \in Tasks :
           outbox[t].state \in {"delivered", "dead_lettered"} => outbox'[t] = outbox[t]]_rvars
  BY <1>1
<1> QED
  BY <1>2, OutboxInvariant, ResultImplementsStore, TypeCorrect, PTL
     DEF ResultSpec, ImplementsTaskStore, SettledDeliveryFrozen

\* Deliveries are claimed in the order in which they fall due.
THEOREM DeliveriesGoEarliestFirst == ResultSpec => EarliestDeliveryFirst
<1>1. OutboxInv /\ TypeOK /\ [ResultNext]_rvars =>
        [\A t, u \in Tasks :
           /\ outbox[t].state = "pending" /\ outbox'[t].state = "leased"
           /\ outbox[u].state = "pending"
           => outbox[t].next_at <= outbox[u].next_at]_rvars
  <2> SUFFICES ASSUME OutboxInv, TypeOK, [ResultNext]_rvars, NEW t \in Tasks, NEW u \in Tasks,
                      outbox[t].state = "pending", outbox'[t].state = "leased",
                      outbox[u].state = "pending"
               PROVE  outbox[t].next_at <= outbox[u].next_at
    OBVIOUS
  <2>1. /\ outbox \in [Tasks -> OutboxRecord]
        /\ outbox[t].next_at \in Nat /\ outbox[u].next_at \in Nat
    BY DEF OutboxInv, RowsTyped, OutboxRecord
  <2>2. ASSUME NEW dw, NEW now \in ReadTimes, NEW dur, ClaimNextResultDelivery(dw, now, dur)
        PROVE  outbox[t].next_at <= outbox[u].next_at
    <3> DEFINE rows == ReclaimExpired(now)
               due == {v \in Tasks : rows[v].state = "pending" /\ rows[v].next_at <= now}
               next == {v \in due : \A x \in due : ~Earlier(rows, x, v)}
    <3>1. rows[t] = outbox[t] /\ rows[u] = outbox[u]
      BY DEF ReclaimExpired
    <3>2. outbox'[t] = IF t \in next
            THEN [rows[t] EXCEPT !.state = "leased", !.owner = dw,
                                 !.expires_at = SaturatingAdd(now, dur)]
            ELSE rows[t]
      BY <2>2 DEF ClaimNextResultDelivery
    <3>3. t \in next
      BY <3>1, <3>2
    <3>4. now \in Nat
      BY DEF ReadTimes, TypeOK
    <3>5. outbox[t].next_at <= now
      BY <3>1, <3>3
    <3>6. ASSUME outbox[u].next_at < outbox[t].next_at PROVE FALSE
      <4>1. u \in due
        BY <2>1, <3>1, <3>4, <3>5, <3>6
      <4>2. Earlier(rows, u, t)
        BY <3>1, <3>6 DEF Earlier
      <4> QED
        BY <3>3, <4>1, <4>2
    <3> QED
      BY <2>1, <3>6
  <2>3. ASSUME NEW v \in Tasks, NEW dw, NEW exp, NEW now, HoldsDelivery(v, dw, exp, now),
               NEW row, outbox' = [outbox EXCEPT ![v] = row]
        PROVE  FALSE
    BY <2>1, <2>3 DEF HoldsDelivery
  <2>4. CASE Delivering
    <3>1. ASSUME NEW v \in Tasks, NEW dw, NEW exp, NEW now, AckResultDelivery(v, dw, exp, now)
          PROVE  FALSE
      BY <2>3, <3>1 DEF AckResultDelivery
    <3>2. ASSUME NEW v \in Tasks, NEW dw, NEW exp, NEW now, NEW delay, NEW giveUp,
                 FailResultDelivery(v, dw, exp, now, delay, giveUp)
          PROVE  FALSE
      BY <2>3, <3>2 DEF FailResultDelivery
    <3> QED
      BY <2>2, <2>4, <3>1, <3>2 DEF Delivering
  <2>5. ASSUME NEW v \in Tasks, NEW o, NEW at, InsertResultAndOutbox(v, o, at) PROVE FALSE
    BY <2>1, <2>5 DEF InsertResultAndOutbox
  <2>6. CASE SettlingWithResult
    BY <2>5, <2>6 DEF SettlingWithResult, CompleteTaskWithResult, FailTaskWithResult,
                      CancelTaskWithResult
  <2>7. CASE StoreStep \/ Ingesting \/ UNCHANGED rvars
    BY <2>7 DEF StoreStep, Ingesting, IngestRemoteResult, rvars
  <2> QED
    BY <2>4, <2>6, <2>7 DEF ResultNext
<1> QED
  BY <1>1, OutboxInvariant, ResultImplementsStore, TypeCorrect, PTL
     DEF ResultSpec, ImplementsTaskStore, EarliestDeliveryFirst

\* The last event of a log that was just extended.
LEMMA LastAppended ==
    ASSUME NEW log \in Seq(EventRecord), NEW e
    PROVE  Append(log, e)[Len(Append(log, e))] = e
  OBVIOUS

\* A step that settles a task files a result, unless it is the deadline that
\* settles it: exactly then the last event is the timeout.
LEMMA SettlingEvents ==
    ASSUME ResultTypeOK, [ResultNext]_rvars, NEW u \in Tasks, result[u] = "none",
           status[u] \notin Terminal, status'[u] \in Terminal
    PROVE  result'[u] = "none" <=> LastEvent(u)' = "TaskTimedOut"
<1> DEFINE Goal == result'[u] = "none" <=> LastEvent(u)' = "TaskTimedOut"
<1> SUFFICES Goal
  OBVIOUS
<1>t. /\ task_events \in [Tasks -> Seq(EventRecord)] /\ status \in [Tasks -> Statuses]
      /\ result \in [Tasks -> Outcomes \cup {"none"}]
  BY DEF ResultTypeOK, RowsTyped, TypeOK
<1>1. ASSUME NEW log \in Seq(EventRecord), NEW e, task_events'[u] = Append(log, e),
             result'[u] = "none" <=> e.type = "TaskTimedOut"
      PROVE  Goal
  BY <1>1, LastAppended DEF LastEvent
<1>2. ASSUME NEW t \in Tasks, NEW type, NEW to, Record(t, type, to),
             result'[u] = "none" <=> (t # u \/ type = "TaskTimedOut")
      PROVE  Goal
  <2>1. t = u
    BY <1>t, <1>2 DEF Record
  <2>2. task_events'[u] = Append(task_events[u], Event(type, status[u], to))
    BY <1>t, <1>2, <2>1 DEF Record
  <2>3. Event(type, status[u], to).type = type
    BY DEF Event
  <2> QED
    BY <1>t, <1>1, <1>2, <2>1, <2>2, <2>3
<1> HIDE DEF Goal
<1>3. CASE StoreStep
  <2>1. result'[u] = "none"
    BY <1>3 DEF StoreStep
  <2>2. ASSUME NEW t \in Tasks, NEW k, NEW d, NEW r, InsertTask(t, k, d, r) PROVE Goal
    BY <1>t, <2>2 DEF InsertTask, Terminal
  <2>3. ASSUME NEW t \in Tasks, NEW now, LeaseTaskTooLate(t, now) PROVE Goal
    BY <1>2, <2>1, <2>3 DEF LeaseTaskTooLate
  <2>4. ASSUME NEW t \in Tasks, NEW w, NEW now, NEW dur, LeaseTask(t, w, now, dur) PROVE Goal
    BY <1>t, <2>4 DEF LeaseTask, Record, Terminal
  <2>5. ASSUME NEW now, NEW limit, FailExpiredDeadlines(now, limit) PROVE Goal
    <3>1. task_events'[u] = Append(task_events[u], Event("TaskTimedOut", status[u], "failed"))
      BY <1>t, <2>5 DEF FailExpiredDeadlines
    <3>2. Event("TaskTimedOut", status[u], "failed").type = "TaskTimedOut"
      BY DEF Event
    <3> QED
      BY <1>t, <1>1, <2>1, <3>1, <3>2
  <2>6. ASSUME NEW now, NEW limit, RecoverStaleLeases(now, limit) PROVE Goal
    BY <1>t, <2>6 DEF RecoverStaleLeases, Recovered, Terminal
  <2>7. ASSUME status' = status PROVE Goal
    BY <2>7
  <2>8. CASE Accepting
    BY <2>2, <2>8 DEF Accepting, AcceptTask, AcceptTaskWithContext
  <2>9. CASE Leasing
    BY <2>3, <2>4, <2>7, <2>9 DEF Leasing, RenewLease
  <2>10. CASE Scanning
    BY <2>5, <2>6, <2>10 DEF Scanning
  <2> QED
    BY <1>3, <2>7, <2>8, <2>9, <2>10 DEF StoreStep, Tick
<1>4. ASSUME NEW t \in Tasks, NEW o \in Outcomes, NEW at, InsertResultAndOutbox(t, o, at),
             NEW type, NEW to, Record(t, type, to), type # "TaskTimedOut"
      PROVE  Goal
  <2>1. result'[u] = "none" <=> t # u
    BY <1>t, <1>4 DEF InsertResultAndOutbox, Outcomes
  <2> QED
    BY <1>2, <1>4, <2>1
<1>5. CASE SettlingWithResult
  <2>1. {"completed", "failed", "canceled"} = Outcomes
    BY DEF Outcomes
  <2>2. /\ EventForTransition("completed") # "TaskTimedOut"
        /\ EventForTransition("failed") # "TaskTimedOut"
    BY DEF EventForTransition
  <2>3. ASSUME NEW t \in Tasks, NEW id, NEW w, NEW at, CompleteTaskWithResult(t, id, w, at)
        PROVE  Goal
    BY <1>4, <2>1, <2>2, <2>3 DEF CompleteTaskWithResult, CompleteTask, FinishTaskInTx
  <2>4. ASSUME NEW t \in Tasks, NEW id, NEW w, NEW max, NEW at,
               FailTaskWithResult(t, id, w, max, at)
        PROVE  Goal
    <3>1. PICK type, to : Record(t, type, to) /\ type # "TaskTimedOut"
      BY <2>2, <2>4 DEF FailTaskWithResult, FailTask, FinishTaskInTx, RetryTaskInTx,
                        DeadLetterTaskInTx
    <3>2. CASE status'[t] = "failed"
      BY <1>4, <2>1, <2>4, <3>1, <3>2 DEF FailTaskWithResult
    <3>3. CASE status'[t] # "failed"
      <4>1. status'[t] \in {"failed", "pending"}
        BY <1>t, <2>4 DEF FailTaskWithResult, FailTask, FinishTaskInTx, RetryTaskInTx,
                          DeadLetterTaskInTx, Record
      <4> QED
        BY <1>t, <3>1, <3>3, <4>1 DEF Record, Terminal
    <3> QED
      BY <3>2, <3>3
  <2>5. ASSUME NEW t \in Tasks, NEW id, NEW w, NEW now, CancelTaskWithResult(t, id, w, now)
        PROVE  Goal
    BY <1>4, <2>1, <2>5 DEF CancelTaskWithResult, CancelTask
  <2> QED
    BY <1>5, <2>3, <2>4, <2>5 DEF SettlingWithResult
<1>6. CASE Ingesting
  <2>1. PICK t \in Tasks, o \in Outcomes : IngestRemoteResult(t, o)
    BY <1>6 DEF Ingesting
  <2> DEFINE begun == IF status[t] = "pending"
                      THEN Append(task_events[t], Event("TaskStarted", "pending", "running"))
                      ELSE task_events[t]
             e == Event(EventForTransition(StatusOf(o)), "running", StatusOf(o))
  <2>2. t = u
    BY <1>t, <2>1 DEF IngestRemoteResult, ApplyRemoteResult
  <2>3. task_events'[u] = Append(begun, e) /\ result'[u] # "none"
    BY <1>t, <2>1, <2>2 DEF IngestRemoteResult, ApplyRemoteResult, Outcomes
  <2>4. begun \in Seq(EventRecord)
    <3>1. Event("TaskStarted", "pending", "running") \in EventRecord
      BY DEF Event, EventRecord, EventTypes, Statuses, Live
    <3> QED
      BY <1>t, <3>1
  <2>5. e.type # "TaskTimedOut"
    <3>1. /\ EventForTransition("completed") # "TaskTimedOut"
          /\ EventForTransition("failed") # "TaskTimedOut"
      BY DEF EventForTransition
    <3> QED
      BY <3>1 DEF Event, StatusOf
  <2> HIDE DEF begun, e
  <2> QED
    BY <1>1, <2>3, <2>4, <2>5
<1>7. CASE Delivering \/ UNCHANGED rvars
  <2>1. status' = status
    BY <1>7 DEF Delivering, ClaimNextResultDelivery, AckResultDelivery, FailResultDelivery,
                vars, rvars
  <2> QED
    BY <2>1
<1> QED
  BY <1>3, <1>5, <1>6, <1>7 DEF ResultNext

\* Result and task settle together, in every step of the daemon's store.
THEOREM ResultsSettleTasks == ResultSpec => []ResultSettlesTask
<1>1. ResultInit => ResultSettlesTask
  BY DEF ResultInit, Init, ResultSettlesTask, Terminal
<1>2. /\ ResultTypeOK /\ ActiveLeaseOwnsTask /\ OutboxInv /\ ResultSettlesTask
      /\ [ResultNext]_rvars
      => ResultSettlesTask'
  <2> SUFFICES ASSUME ResultTypeOK, ActiveLeaseOwnsTask, OutboxInv, ResultSettlesTask,
                      [ResultNext]_rvars, NEW t \in Tasks
               PROVE  /\ result'[t] # "none" => status'[t] = StatusOf(result'[t])
                      /\ status'[t] \in Terminal =>
                           (result'[t] = "none" <=> LastEvent(t)' = "TaskTimedOut")
    BY DEF ResultSettlesTask
  <2>1. /\ result[t] # "none" => status[t] = StatusOf(result[t])
        /\ status[t] \in Terminal => (result[t] = "none" <=> LastEvent(t) = "TaskTimedOut")
        /\ \A o : StatusOf(o) \in Terminal
    BY DEF ResultSettlesTask, StatusOf, Terminal
  <2>2. Unfiled(t) \/ Worked(t) \/ \E o \in Outcomes : Filed(t, o)
    BY DeliveryRows DEF ResultTypeOK, OutboxInv
  <2>3. CASE status[t] \in Terminal
    <3>1. status'[t] = status[t] /\ task_events'[t] = task_events[t]
      <4>1. RowStep(t)
        BY RowSteps, ResultStepIsStoreStep DEF ResultTypeOK
      <4> QED
        BY <2>3, <4>1 DEF RowStep, RowIdle, RowAccepted, RowClaimed, RowRenewed, RowMoved,
                          RowNoted, RowReported, Live, Terminal, ActiveLeaseOwnsTask
    <3>2. result'[t] = result[t]
      BY <2>2, <2>3 DEF Unfiled, Worked, Filed, Live, Terminal
    <3>3. LastEvent(t)' = LastEvent(t)
      BY <3>1 DEF LastEvent
    <3> QED
      BY <2>1, <2>3, <3>1, <3>2, <3>3
  <2>4. CASE status[t] \notin Terminal
    <3>1. result[t] = "none"
      BY <2>1, <2>4
    <3>2. result'[t] # "none" => status'[t] = StatusOf(result'[t])
      BY <2>2, <3>1 DEF Unfiled, Worked, Filed
    <3> QED
      BY <2>4, <3>1, <3>2, SettlingEvents
  <2> QED
    BY <2>3, <2>4
<1> QED
  BY <1>1, <1>2, ResultTypeCorrect, OutboxInvariant, ResultImplementsStore, LeasesOwnTasks, PTL
     DEF ResultSpec, ImplementsTaskStore

\* A step counts a failure of a task only against its holder, and either finds
\* the budget of the call unspent or dead-letters the task.
LEMMA CounterSteps ==
    ASSUME TypeOK, [ResultNext]_rvars, NEW u \in Tasks
    PROVE  \/ retry_count'[u] = retry_count[u] /\ dead_lettered'[u] = dead_lettered[u]
           \/ /\ status[u] = "running"
              /\ \/ retry_count'[u] = retry_count[u]
                 \/ \E max \in RetryLimits : retry_count'[u] = retry_count[u] + 1 /\ retry_count'[u] <= max
                 \/ retry_count'[u] = retry_count[u] + 1 /\ dead_lettered'[u]
<1> DEFINE Same(t) == retry_count'[t] = retry_count[t] /\ dead_lettered'[t] = dead_lettered[t]
           Goal == \/ Same(u)
                   \/ /\ status[u] = "running"
                      /\ \/ retry_count'[u] = retry_count[u]
                         \/ \E max \in RetryLimits :
                               retry_count'[u] = retry_count[u] + 1 /\ retry_count'[u] <= max
                         \/ retry_count'[u] = retry_count[u] + 1 /\ dead_lettered'[u]
<1> SUFFICES Goal
  OBVIOUS
<1>t. retry_count \in [Tasks -> Nat] /\ dead_lettered \in [Tasks -> BOOLEAN]
  BY DEF TypeOK
<1>1. ASSUME UNCHANGED counters PROVE Goal
  BY <1>1 DEF counters
<1>2. ASSUME NEW t \in Tasks, NEW id, NEW w, NEW to, NEW dl,
             FinishTaskInTx(t, id, w, to, retry_count[t], dl), status[t] = "running"
      PROVE  Goal
  BY <1>t, <1>2 DEF FinishTaskInTx
<1>3. ASSUME NEW t \in Tasks, NEW max \in RetryLimits,
             ShouldRetryAfterFailure(max, retry_count[t]), RetryTaskInTx(t)
      PROVE  Goal
  BY <1>t, <1>3 DEF ShouldRetryAfterFailure, RetryTaskInTx
<1>4. ASSUME NEW t \in Tasks, DeadLetterTaskInTx(t) PROVE Goal
  BY <1>t, <1>4 DEF DeadLetterTaskInTx
<1> HIDE DEF Goal
<1>5. CASE SettlingWithResult
  <2>1. ASSUME NEW t \in Tasks, NEW id, NEW w, NEW at, CompleteTaskWithResult(t, id, w, at)
        PROVE  Goal
    <3>1. status[t] = "running"
      BY <2>1 DEF CompleteTaskWithResult, CompleteTask, FinishTaskInTx, LegalTransition
    <3> QED
      BY <1>2, <2>1, <3>1 DEF CompleteTaskWithResult, CompleteTask
  <2>2. ASSUME NEW t \in Tasks, NEW id, NEW w, NEW max \in RetryLimits, NEW at,
               FailTaskWithResult(t, id, w, max, at)
        PROVE  Goal
    BY <1>2, <1>3, <1>4, <2>2 DEF FailTaskWithResult, FailTask
  <2>3. ASSUME NEW t \in Tasks, NEW id, NEW w, NEW now, CancelTaskWithResult(t, id, w, now)
        PROVE  Goal
    BY <1>1, <2>3 DEF CancelTaskWithResult, CancelTask
  <2> QED
    BY <1>5, <2>1, <2>2, <2>3 DEF SettlingWithResult
<1>6. CASE StoreStep
  BY <1>1, <1>6 DEF StoreStep, Accepting, AcceptTask, AcceptTaskWithContext, InsertTask, Leasing,
                    LeaseTaskTooLate, LeaseTask, RenewLease, Scanning, FailExpiredDeadlines,
                    RecoverStaleLeases, Tick
<1>7. CASE Ingesting
  BY <1>1, <1>7 DEF Ingesting, IngestRemoteResult, ApplyRemoteResult
<1>8. CASE Delivering \/ UNCHANGED rvars
  <2>1. UNCHANGED vars
    BY <1>8 DEF Delivering, ClaimNextResultDelivery, AckResultDelivery, FailResultDelivery, rvars
  <2>2. UNCHANGED counters
    BY <2>1 DEF vars, counters
  <2> QED
    BY <1>1, <2>2
<1> QED
  BY <1>5, <1>6, <1>7, <1>8 DEF ResultNext

\* The failure budget holds whatever limits the calls of fail_task name.
THEOREM RetriesKeepBudget == ResultSpec => []RetryBudget
<1>1. ResultInit => RetryBudget
  BY LimitsAssumption DEF ResultInit, Init, RetryBudget
<1>2. TypeOK /\ ActiveLeaseOwnsTask /\ RetryBudget /\ [ResultNext]_rvars => RetryBudget'
  <2> SUFFICES ASSUME TypeOK, ActiveLeaseOwnsTask, RetryBudget, [ResultNext]_rvars,
                      NEW t \in Tasks
               PROVE  \E max \in RetryLimits \cup {0} :
                        retry_count'[t] <= max + (IF dead_lettered'[t] THEN 1 ELSE 0)
    BY DEF RetryBudget
  <2>1. PICK max \in RetryLimits \cup {0} :
          retry_count[t] <= max + (IF dead_lettered[t] THEN 1 ELSE 0)
    BY DEF RetryBudget
  <2>2. /\ max \in Nat /\ retry_count[t] \in Nat /\ RetryLimits \subseteq Nat
        /\ status[t] = "running" => ~dead_lettered[t]
    BY LimitsAssumption DEF TypeOK, ActiveLeaseOwnsTask
  <2>3. CASE retry_count'[t] = retry_count[t] /\ dead_lettered'[t] = dead_lettered[t]
    BY <2>1, <2>3
  <2>4. CASE status[t] = "running" /\ retry_count'[t] = retry_count[t]
    BY <2>1, <2>2, <2>4
  <2>5. ASSUME NEW m \in RetryLimits, retry_count'[t] = retry_count[t] + 1, retry_count'[t] <= m
        PROVE  \E x \in RetryLimits \cup {0} :
                 retry_count'[t] <= x + (IF dead_lettered'[t] THEN 1 ELSE 0)
    BY <2>2, <2>5
  <2>6. CASE /\ status[t] = "running"
             /\ retry_count'[t] = retry_count[t] + 1 /\ dead_lettered'[t]
    BY <2>1, <2>2, <2>6
  <2> QED
    BY <2>3, <2>4, <2>5, <2>6, CounterSteps
<1> QED
  BY <1>1, <1>2, ResultImplementsStore, TypeCorrect, LeasesOwnTasks, PTL
     DEF ResultSpec, ImplementsTaskStore
=============================================================================
