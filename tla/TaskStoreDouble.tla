--------------------------- MODULE TaskStoreDouble ---------------------------
(* SqliteStore beside InMemoryStore, the double the daemon's tests run on.   *)
EXTENDS TaskStore

\* The maps of InMemoryStore that hold the same tasks.
Mem == INSTANCE InMemoryStore WITH
        tasks <- [t \in {u \in Tasks : Exists(u)} |->
                    [status |-> status[t], retry_count |-> retry_count[t],
                     dead_lettered |-> dead_lettered[t], deadline_ms |-> deadline_ms[t],
                     idempotency_key |-> key[t]]],
        events <- [t \in {u \in Tasks : Exists(u)} |-> task_events[t]],
        idempotency <- [k \in {key[t] : t \in Tasks} \ {NoKey} |->
                          CHOOSE t \in Tasks : key[t] = k],
        leases <- [t \in {u \in Tasks : lease[u].active} |->
                     [worker |-> lease[t].worker, leased_at |-> lease[t].leased_at,
                      expires_at |-> lease[t].expires_at]],
        transport_contexts <- [t \in {u \in Tasks : route[u] # "local"} |-> route[t]],
        terminal_results <- <<>>,
        result_outbox <- <<>>,
        Times <- 0..MaxTime

\* What unit tests see of InMemoryStore holds of SqliteStore: whatever the
\* durable store does, the double used in its place could have done, to the
\* same tasks, events, leases and keys.  (Only the durable store ingests remote
\* results.)
BehavesLikeInMemory ==
    /\ Mem!MemInit
    /\ [][\/ Mem!MemNext
         \/ \E t \in Tasks, to \in Terminal : ApplyRemoteResult(t, to)
         \/ UNCHANGED Mem!memVars]_vars
==============================================================================
