----------------------------- MODULE MCTaskStore -----------------------------
(* Small instances of TaskStore.                                             *)
EXTENDS TaskStoreDouble

CONSTANTS w1, w2, k1

\* One representative of each row of the two legacy tables, without
\* TaskApprovalDenied, whose stored form the replay rejects.
ReplayableLegacy ==
    {"TaskQueued", "TaskAwaitingInput", "TaskLeased", "TaskCompleted",
     "TaskTimedOut", "TaskDeadLettered"}
=============================================================================
