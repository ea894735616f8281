------------------------------ MODULE Lifecycle ------------------------------
(* What the durable task runtime promises of every task, with nothing of how *)
(* it keeps the promise: the four statuses of keryx-core's TaskStatus, the   *)
(* one worker that may be executing the task, the failure counter and the    *)
(* dead-letter mark.  A step of the runtime may move several tasks at once   *)
(* (the recovery and the deadline loops do), so a step is described task by  *)
(* task.  TaskStore is shown to implement this module.                       *)
EXTENDS Naturals

CONSTANTS Tasks,    \* task identifiers
          Workers,  \* agent identifiers that can hold a lease
          NoWorker  \* "nobody is executing the task"

VARIABLES state,    \* [Tasks -> "absent" or a TaskStatus]
          holder,   \* [Tasks -> the worker with execution rights, or NoWorker]
          retries,  \* [Tasks -> failures counted so far]
          dead      \* [Tasks -> the task was dead-lettered]

vars == <<state, holder, retries, dead>>

Init == /\ state = [t \in Tasks |-> "absent"]
        /\ holder = [t \in Tasks |-> NoWorker]
        /\ retries = [t \in Tasks |-> 0]
        /\ dead = [t \in Tasks |-> FALSE]

Same(t) == /\ state'[t] = state[t]
           /\ holder'[t] = holder[t]
           /\ retries'[t] = retries[t]
           /\ dead'[t] = dead[t]

Accept(t) == /\ state[t] = "absent"
             /\ state'[t] = "pending"
             /\ holder'[t] = NoWorker
             /\ retries'[t] = retries[t]
             /\ dead'[t] = dead[t]

\* Execution starts, in the hands of one worker or (records started by hand or
\* by a legacy event) of nobody the runtime knows.
Start(t) == /\ state[t] = "pending"
            /\ holder[t] = NoWorker
            /\ state'[t] = "running"
            /\ holder'[t] \in Workers \cup {NoWorker}
            /\ retries'[t] = retries[t]
            /\ dead'[t] = dead[t]

\* The task goes back to the queue: its worker failed it (counted) or vanished.
Requeue(t) == /\ state[t] = "running"
              /\ holder[t] # NoWorker
              /\ state'[t] = "pending"
              /\ holder'[t] = NoWorker
              /\ retries'[t] \in {retries[t], retries[t] + 1}
              /\ dead'[t] = dead[t]

\* A live task becomes terminal and nobody holds it any more.  Only a counted
\* failure of the worker that holds the task dead-letters it.
Settle(t) == /\ state[t] \in {"pending", "running"}
             /\ state'[t] \in {"completed", "failed"}
             /\ holder'[t] = NoWorker
             /\ \/ retries'[t] = retries[t] /\ dead'[t] = dead[t]
                \/ /\ holder[t] # NoWorker
                   /\ state'[t] = "failed"
                   /\ retries'[t] = retries[t] + 1
                   /\ dead'[t] = TRUE

Step(t) == Same(t) \/ Accept(t) \/ Start(t) \/ Requeue(t) \/ Settle(t)

Next == \A t \in Tasks : Step(t)

Spec == Init /\ [][Next]_vars
=============================================================================
