------------------------------ MODULE TaskRules ------------------------------
(* The pure rules both implementations of the store share: keryx-core's task *)
(* lifecycle, its legacy event tables and retry policy, and the replay of a  *)
(* task's event log.                                                         *)
EXTENDS Integers, Sequences, FiniteSets

Live == {"pending", "running"}
Terminal == {"completed", "failed"}
NoKey == "no key"
NoDeadline == -1
Statuses == {"absent"} \cup Live \cup Terminal

OperationalEvents ==
    {"TaskQueued", "TaskApprovalRequested", "TaskApprovalGranted", "TaskAwaitingInput"}
EventTypes ==
    OperationalEvents \cup
    {"TaskAccepted", "TaskStarted", "TaskCompleted", "TaskFailed", "TaskCanceled",
     "TaskTimedOut", "TaskLeased", "TaskDeadLettered", "TaskApprovalDenied",
     "RecoveryAction"}

Event(type, from, to) == [type |-> type, from |-> from, to |-> to]

LegalTransition(from, to) ==
    <<from, to>> \in {<<"pending", "running">>, <<"running", "completed">>,
                      <<"running", "failed">>}

EventForTransition(to) ==
    CASE to = "running"   -> "TaskStarted"
      [] to = "completed" -> "TaskCompleted"
      [] to = "failed"    -> "TaskFailed"
      [] OTHER            -> "TaskAccepted"

\* normalize_legacy_transition: (status, legacy event, new status).
LegacyTransitions ==
    {<<"pending", "TaskLeased", "running">>, <<"pending", "TaskStarted", "running">>,
     <<"running", "TaskCompleted", "completed">>,
     <<"running", "TaskFailed", "failed">>, <<"running", "TaskCanceled", "failed">>,
     <<"running", "TaskTimedOut", "failed">>, <<"running", "TaskDeadLettered", "failed">>,
     <<"pending", "TaskApprovalDenied", "failed">>}

\* is_valid_operational_legacy: (status, legacy event) appended as it is.
OperationalLegacy ==
    {<<"pending", "TaskQueued">>, <<"pending", "TaskApprovalRequested">>,
     <<"pending", "TaskApprovalGranted">>, <<"running", "TaskAwaitingInput">>}

\* What recovery makes of a status.
Recovered(s) == IF s = "running" THEN "pending" ELSE s

\* One round of the loop of replay_task_from_snapshot_and_events: event e is
\* consistent with the status cur reached so far.  Every accepted event leaves
\* the loop in the status e.to.
ReplayStep(e, cur) ==
    /\ e.from = cur
    /\ \/ /\ e.type \in {"TaskStarted", "TaskCompleted", "TaskFailed"}
          /\ LegalTransition(cur, e.to)
          /\ EventForTransition(e.to) = e.type
       \/ e.type \in {"TaskCanceled", "TaskTimedOut"} /\ cur \in Live /\ e.to = "failed"
       \/ /\ e.type \in {"TaskLeased", "TaskDeadLettered", "TaskApprovalDenied"}
          /\ <<cur, e.type, e.to>> \in LegacyTransitions
       \/ e.type = "RecoveryAction" /\ e.to = Recovered(cur)
       \/ e.type \in OperationalEvents /\ e.to = cur

Accepted == Event("TaskAccepted", "absent", "pending")

\* The whole replay accepts log for a snapshot (s, dl, rc).
Replays(log, s, dl, rc) ==
    /\ Len(log) > 0
    /\ log[1] = Accepted
    /\ \A i \in 2..Len(log) : ReplayStep(log[i], log[i - 1].to)
    /\ log[Len(log)].to = s
    /\ dl <=> \E i \in 2..Len(log) : log[i].type = "TaskDeadLettered"
    /\ ~(dl /\ rc = 0)

\* Fault: off by one.
FaultyShouldRetryAfterFailure(max, count) == max > 0 /\ count <= max

ShouldRetryAfterFailure(max, count) == max > 0 /\ count + 1 <= max

\* ORDER BY at ASC, task_id ASC LIMIT limit.
OldestFirst(S, at, limit) ==
    {t \in S : Cardinality({u \in S : at[u] < at[t] \/ (at[u] = at[t] /\ u < t)}) < limit}
==============================================================================
