-------------------------- MODULE ResultStoreDouble --------------------------
(* The store as the daemon drives it beside InMemoryStore, the double the    *)
(* daemon's tests run on.                                                    *)
EXTENDS ResultStore

\* InMemoryStore's maps, with the results and the deliveries created.
MemResults == INSTANCE InMemoryStore WITH
        tasks <- [t \in {u \in Tasks : Exists(u)} |->
                    [status |-> status[t], retry_count |-> retry_count[t],
                     dead_lettered |-> dead_lettered[t], deadline_ms |-> deadline_ms[t],
                     idempotency_key |-> key[t]]],
        events <- [t \in {u \in Tasks : Exists(u)} |-> task_events[t]],
        idempotency <- [k \in {key[t] : t \in Tasks} \ {NoKey} |->
                          CHOOSE t \in Tasks : key[t] = k],
        leases <- [t \in {u \in Tasks : lease[u].active} |->
                     [worker |-> lease[t].worker, leased_at |-> lease[t].leased_at,
                      expires_at |-> lease[t].expires_at]],
        transport_contexts <- [t \in {u \in Tasks : route[u] # "local"} |-> route[t]],
        terminal_results <- [t \in {u \in Tasks : result[u] # "none"} |-> result[t]],
        result_outbox <- [t \in {u \in Tasks : outbox[u].state # "none"} |->
                            outbox[t].created_at],
        Times <- 0..MaxTime

\* The settlements with a result agree as well: each of the durable store's is
\* one the in-memory double could have made, with the same result and the same
\* new delivery.  (The double neither ingests remote results nor delivers.)
ResultsLikeInMemory ==
    [][MemResults!MemNext \/ Ingesting \/ UNCHANGED MemResults!memVars]_rvars
==============================================================================
