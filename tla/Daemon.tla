------------------------------- MODULE Daemon -------------------------------
(* The daemon process (keryxd): RPC handlers that run concurrently over one  *)
(* store, the long poll of claim_next_task, the lock that makes admission    *)
(* control one step with the insertion, routing to other nodes, the          *)
(* background loops, and shutdown, crash and startup.                        *)
(*                                                                           *)
(* A handler is a sequence of steps with an await between any two; each step *)
(* uses the store at most once, by an operation of ResultStore.  Arguments   *)
(* of a call are chosen at the step that first looks at them.  A request     *)
(* that is refused returns with nothing changed.                             *)
EXTENDS ResultStore

CONSTANTS Clients,      \* callers of every operation but claim_next_task
          Pollers,      \* callers of claim_next_task
          Ops,          \* operations clients call
          MaxPending,   \* limits.max_pending_tasks
          MaxEnvelopes, \* limits.max_retained_envelope_bytes, in envelopes
          Stoppable,    \* bound: whether the process is ever stopped
          MaxRestarts   \* bound: times it is started again

Callers == Clients \cup Pollers
NoOne == "no one"
NoEnvelope == MaxMs + 1

ClientOps == {"submit", "remote", "incoming", "sendLocal", "sendRemote", "claim",
              "complete", "fail", "cancel", "ingest"}

ASSUME DaemonAssumption ==
    /\ IsFiniteSet(Callers) /\ NoOne \notin Callers
    /\ Ops \subseteq ClientOps
    /\ MaxPending \in Nat \ {0}
    /\ MaxEnvelopes \in Nat \ {0}
    /\ Stoppable \in BOOLEAN
    /\ MaxRestarts \in Nat
    /\ MaxEvents > 1      \* a new task can be claimed

VARIABLES envelope,   \* task_envelopes: received_at_ms, or NoEnvelope
          granted,    \* leases answered to workers: <<task, lease id, worker>>
          published,  \* tasks the relay took a frame for
          receipts,   \* tasks whose relay_frame_id is recorded
          phase,      \* of the process
          timed_out,  \* the drain of the shutdown ran out of time
          in_flight,  \* in_flight_rpcs
          lock,       \* holder of submit_backpressure_lock
          rpc,        \* the call each caller has in progress
          restarts

relay == <<published, receipts>>
process == <<phase, timed_out, restarts>>
dvars == <<rvars, envelope, granted, relay, process, in_flight, lock, rpc>>

LockOps == {"submit", "remote", "incoming", "sendLocal"}
Phases == {"up", "stopping", "draining", "closing", "closed", "down"}
Points == {"idle", "admitted", "counted", "inside", "locked", "checked", "stored",
           "dispatching", "listening", "expired", "trying", "waiting", "looked",
           "publishing", "accepted"}
Polling == {"listening", "expired", "trying", "waiting"}

Idle == [pc |-> "idle", op |-> "none", task |-> 0, candidates |-> <<>>,
         notified |-> FALSE, peer |-> FALSE]

DaemonTypeOK ==
    /\ ResultTypeOK
    /\ envelope \in [Tasks -> Nat]
    /\ granted \subseteq Tasks \X Nat \X Workers
    /\ published \subseteq Tasks /\ receipts \subseteq Tasks
    /\ phase \in Phases /\ timed_out \in BOOLEAN
    /\ restarts \in 0..MaxRestarts
    /\ in_flight = Cardinality({c \in Callers :
                      rpc[c].pc \notin {"idle", "admitted"} /\ rpc[c].op # "incoming"})
    /\ lock \in Callers \cup {NoOne}
    /\ \A c \in Callers :
          /\ rpc[c].pc \in Points /\ rpc[c].op \in Ops \cup {"none", "claimNext"}
          /\ rpc[c].task \in Tasks \cup {0} /\ rpc[c].candidates \in Seq(Tasks)
          /\ lock = c <=> rpc[c].pc \in {"locked", "checked", "stored"}

DaemonInit ==
    /\ ResultInit
    /\ envelope = [t \in Tasks |-> NoEnvelope]
    /\ granted = {} /\ published = {} /\ receipts = {}
    /\ phase = "up" /\ timed_out = FALSE /\ restarts = 0
    /\ in_flight = 0 /\ lock = NoOne
    /\ rpc = [c \in Callers |-> Idle]
------------------------------------------------------------------------------
(* Entering and leaving a handler.                                           *)

At(c, pc) == rpc[c].pc = pc
Serving(c, pc, op) == At(c, pc) /\ rpc[c].op = op
Go(c, pc) == rpc' = [rpc EXCEPT ![c].pc = pc] /\ UNCHANGED <<in_flight, lock>>

Alive == phase # "down"
StoreOpen == phase \notin {"closed", "down"}
ShuttingDown == phase \notin {"up", "stopping"}

\* The response is sent and the guards of the handler are dropped.
Return(c) ==
    /\ rpc' = [rpc EXCEPT ![c] = Idle]
    /\ in_flight' = IF rpc[c].op = "incoming" THEN in_flight ELSE in_flight - 1
    /\ lock' = IF lock = c THEN NoOne ELSE lock

\* Fault: a handler that fails leaves the lock behind.
LeakingLeave(c) ==
    /\ rpc' = [rpc EXCEPT ![c] = Idle]
    /\ in_flight' = IF rpc[c].op = "incoming" THEN in_flight ELSE in_flight - 1
    /\ UNCHANGED <<lock, rvars, envelope, granted, relay, process>>

\* Leaving with nothing written.
Leave(c) == Return(c) /\ UNCHANGED <<rvars, envelope, granted, relay, process>>

Step(c, pc) == Go(c, pc) /\ UNCHANGED <<rvars, envelope, granted, relay, process>>

\* The first look of RpcInFlightGuard::enter.  handle_incoming_task only takes
\* this look and is never counted.
EnterCheck(c, op) ==
    /\ At(c, "idle")
    /\ Alive /\ ~ShuttingDown
    /\ rpc' = [rpc EXCEPT ![c].op = op,
                          ![c].pc = IF op = "incoming" THEN "inside" ELSE "admitted"]
    /\ UNCHANGED <<rvars, envelope, granted, relay, process, in_flight, lock>>

EnterCount(c) ==
    /\ At(c, "admitted")
    /\ in_flight' = in_flight + 1
    /\ rpc' = [rpc EXCEPT ![c].pc = "counted"]
    /\ UNCHANGED <<rvars, envelope, granted, relay, process, lock>>

\* Fault: the flag is not looked at again.
HastyEnterRecheck(c) == At(c, "counted") /\ Step(c, "inside")

EnterRecheck(c) ==
    /\ At(c, "counted")
    /\ IF ShuttingDown THEN Leave(c) ELSE Step(c, "inside")

\* authorize_daemon_request and the parsers refuse a request before the first
\* await.  A worker's poll carries a valid token and worker id.
Unauthorized(c) == At(c, "counted") /\ rpc[c].op # "claimNext"

\* The routing policy denies a SendTask or leaves it awaiting an approval, which
\* stores nothing either; or no route leads to the destination.
PolicyHolds(c) == Serving(c, "checked", "sendLocal") \/ Serving(c, "inside", "sendRemote")

\* The store refuses to settle a task, or to take a result.
StoreRefuses(c) == \/ At(c, "inside") /\ rpc[c].op \in {"complete", "fail", "cancel", "ingest"}
                   \/ At(c, "looked")

Refuse(c) == (Unauthorized(c) \/ PolicyHolds(c) \/ StoreRefuses(c)) /\ Leave(c)

\* The store was closed, because the drain timed out, under a running handler.
StoreGone(c) ==
    /\ phase = "closed"
    /\ \/ rpc[c].pc \in {"locked", "checked", "listening", "expired", "trying", "looked", "accepted"}
       \/ At(c, "inside") /\ rpc[c].op \notin LockOps
    /\ Leave(c)
------------------------------------------------------------------------------
(* Admission: SubmitTask, SubmitRemoteTask, an incoming frame, SendTask here. *)

Pending == {t \in Tasks : status[t] = "pending"}
Enveloped == {t \in Tasks : envelope[t] # NoEnvelope}

\* Fault: the lock is not awaited.
FaultyTakeLock(c) ==
    /\ At(c, "inside") /\ rpc[c].op \in LockOps
    /\ lock' = c
    /\ rpc' = [rpc EXCEPT ![c].pc = "locked"]
    /\ UNCHANGED <<rvars, envelope, granted, relay, process, in_flight>>

TakeLock(c) ==
    /\ At(c, "inside") /\ rpc[c].op \in LockOps
    /\ lock = NoOne
    /\ lock' = c
    /\ rpc' = [rpc EXCEPT ![c].pc = "locked"]
    /\ UNCHANGED <<rvars, envelope, granted, relay, process, in_flight>>

\* check_pending_tasks and check_retained_envelope_bytes; a task sent to this
\* node by its own daemon leaves no envelope.
WithinLimits(op) ==
    /\ Cardinality(Pending) < MaxPending
    /\ op # "sendLocal" => Cardinality(Enveloped) < MaxEnvelopes

\* A frame of a task that exists passes no limit: accepting it again changes
\* nothing, whether it is the same (an incoming one is then dispatched) or not.
Redelivered(c, t) == rpc[c].op \in {"remote", "incoming"} /\ Exists(t)

AcceptAgain(c) ==
    /\ At(c, "locked") /\ StoreOpen
    /\ \E t \in Tasks :
          /\ Redelivered(c, t)
          /\ \/ Leave(c)
             \/ /\ rpc[c].op = "incoming"
                /\ rpc' = [rpc EXCEPT ![c].pc = "dispatching", ![c].task = t]
                /\ lock' = NoOne
                /\ UNCHANGED <<rvars, envelope, granted, relay, process, in_flight>>

CheckLimits(c) ==
    /\ At(c, "locked") /\ StoreOpen
    /\ \E t \in Tasks :
          /\ ~Redelivered(c, t)
          /\ IF WithinLimits(rpc[c].op)
             THEN /\ rpc' = [rpc EXCEPT ![c].pc = "checked", ![c].task = t]
                  /\ UNCHANGED <<rvars, envelope, granted, relay, process, in_flight, lock>>
             ELSE Leave(c)

RouteOf(op) == IF op \in {"remote", "incoming"} THEN "inbound"
               ELSE IF op = "sendRemote" THEN "outbound" ELSE "local"

\* accept_task of a local SendTask writes no envelope and wakes no one.
Accept(c) ==
    LET t == rpc[c].task IN
    /\ At(c, "checked") /\ StoreOpen
    /\ \E k \in Keys \cup {NoKey}, d \in Deadlines \cup {NoDeadline}, at \in ReadTimes :
          /\ InsertTask(t, k, d, RouteOf(rpc[c].op))
          /\ IF rpc[c].op = "sendLocal"
             THEN Return(c) /\ UNCHANGED envelope
             ELSE Go(c, "stored") /\ envelope' = [envelope EXCEPT ![t] = at]
    /\ UNCHANGED <<result, outbox, granted, relay, process>>

\* The same submission again, or one in conflict with a stored task or key.
AcceptNothing(c) ==
    /\ At(c, "checked") /\ StoreOpen
    /\ \/ Exists(rpc[c].task)
       \/ \E k \in Keys : ~KeyIsFree(k)
    /\ Leave(c) \/ (rpc[c].op # "sendLocal" /\ Step(c, "stored"))

\* notify_waiters wakes every poll that holds a Notified, also one that is not
\* waiting yet.  Then the lock is dropped.
Notify(c) ==
    /\ At(c, "stored")
    /\ rpc' = [b \in Callers |->
                 IF b = c
                 THEN IF rpc[c].op = "incoming" THEN [rpc[c] EXCEPT !.pc = "dispatching"] ELSE Idle
                 ELSE IF rpc[b].pc \in Polling THEN [rpc[b] EXCEPT !.notified = TRUE] ELSE rpc[b]]
    /\ in_flight' = IF rpc[c].op = "incoming" THEN in_flight ELSE in_flight - 1
    /\ lock' = NoOne
    /\ UNCHANGED <<rvars, envelope, granted, relay, process>>
------------------------------------------------------------------------------
(* Claims.                                                                   *)

CanLease(t, now) ==
    /\ LogRoom(t) /\ Leasable(t)
    /\ ~DeadlinePassed(t, now)
    /\ LegalTransition(status[t], "running")

TooLate(t, now) == Leasable(t) /\ DeadlinePassed(t, now) /\ status[t] \in Live

\* lease_task_for_peer of a claim or of the incoming dispatch: the lease, or
\* the task failed because its time is up.
LeaseFor(t, now) ==
    \/ \E w \in Workers, dur \in Durations :
          LeaseTask(t, w, now, dur) /\ granted' = granted \cup {<<t, now, w>>}
    \/ LeaseTaskTooLate(t, now) /\ UNCHANGED granted

Dispatch(c) ==
    /\ At(c, "dispatching")
    /\ \/ /\ StoreOpen
          /\ \E now \in ReadTimes : LeaseFor(rpc[c].task, now)
          /\ Return(c)
          /\ UNCHANGED <<result, outbox, envelope, relay, process>>
       \/ Leave(c)

\* task_available.notified() is taken before the store is looked at.
Listen(c) ==
    /\ Serving(c, "inside", "claimNext")
    /\ rpc' = [rpc EXCEPT ![c].pc = "listening", ![c].notified = FALSE]
    /\ UNCHANGED <<rvars, envelope, granted, relay, process, in_flight, lock>>

\* Every claim first fails the tasks whose deadline has passed.
ExpireFirst(c) ==
    /\ At(c, "listening") \/ Serving(c, "inside", "claim")
    /\ StoreOpen
    /\ \E now \in ReadTimes :
          IF ExpiredDeadlines(now) = {} THEN UNCHANGED vars
          ELSE FailExpiredDeadlines(now, AllTasks)
    /\ Go(c, "expired")
    /\ UNCHANGED <<result, outbox, envelope, granted, relay, process>>

ClaimTask(c) ==
    /\ Serving(c, "expired", "claim")
    /\ \/ /\ StoreOpen
          /\ \E t \in Tasks, now \in ReadTimes : LeaseFor(t, now)
          /\ Return(c)
          /\ UNCHANGED <<result, outbox, envelope, relay, process>>
       \/ Leave(c)

\* Fault: a task without an expected executor is not a candidate.
FaultyClaimable(t) == t \in Pending \cap Enveloped /\ route[t] = "local"

\* claimable_pending_task_envelopes, in the order of received_at and task id.
\* A task whose log is full (MaxEvents) is left aside.
Claimable(t) == t \in Pending \cap Enveloped /\ route[t] # "outbound"

Scan(c) ==
    LET found == {t \in Tasks : Claimable(t) /\ LogRoom(t)}
        Before(t, u) == envelope[t] < envelope[u] \/ (envelope[t] = envelope[u] /\ t < u)
    IN
    /\ Serving(c, "expired", "claimNext") /\ StoreOpen
    /\ \E q \in [1..Cardinality(found) -> found] :
          /\ \A t \in found : \E i \in DOMAIN q : q[i] = t
          /\ \A i, j \in DOMAIN q : i < j => Before(q[i], q[j])
          /\ rpc' = [rpc EXCEPT ![c].pc = "trying", ![c].candidates = q]
    /\ UNCHANGED <<rvars, envelope, granted, relay, process, in_flight, lock>>

\* The first candidate that can be leased is the answer.  One that ran out of
\* time since the scan fails the whole call; one that is gone is passed over.
TryLease(c) ==
    LET t == Head(rpc[c].candidates) IN
    /\ At(c, "trying") /\ StoreOpen
    /\ rpc[c].candidates # <<>>
    /\ \E now \in ReadTimes :
          \/ /\ LeaseFor(t, now)
             /\ Return(c)
             /\ UNCHANGED <<result, outbox, envelope, relay, process>>
          \/ /\ ~CanLease(t, now) /\ ~TooLate(t, now)
             /\ rpc' = [rpc EXCEPT ![c].candidates = Tail(@)]
             /\ UNCHANGED <<rvars, envelope, granted, relay, process, in_flight, lock>>

NothingFound(c) == At(c, "trying") /\ rpc[c].candidates = <<>>

\* Fault: the Notified is taken only now.
LateWait(c) ==
    /\ NothingFound(c)
    /\ rpc' = [rpc EXCEPT ![c].pc = "waiting", ![c].notified = FALSE]
    /\ UNCHANGED <<rvars, envelope, granted, relay, process, in_flight, lock>>

Wait(c) == NothingFound(c) /\ Step(c, "waiting")

\* The wait is over before it begins, at its deadline, or by the shutdown.
GiveUp(c) == (NothingFound(c) \/ At(c, "waiting")) /\ Leave(c)

\* A notification starts the loop again, with a new Notified.
Wake(c) ==
    /\ At(c, "waiting") /\ rpc[c].notified
    /\ rpc' = [rpc EXCEPT ![c].pc = "listening", ![c].notified = FALSE]
    /\ UNCHANGED <<rvars, envelope, granted, relay, process, in_flight, lock>>
------------------------------------------------------------------------------
(* Settling a task: CompleteTask, FailTask, CancelTask.                       *)

\* Fault: a context that cannot be read counts as no sender.
ForgetfulReturnPeer(t) == FALSE

\* return_peer_for_task: the sender in the transport context, which for a task
\* sent from here is this node itself.
ReturnPeer(t) == Exists(t) /\ route[t] # "local"

\* What the three settling handlers read before their transaction.  CancelTask
\* refuses here a task another node executes, and answers for one that is
\* cancelled already.
Look(c) ==
    /\ At(c, "inside") /\ rpc[c].op \in {"complete", "fail", "cancel"} /\ StoreOpen
    /\ \E t \in Tasks :
          /\ rpc[c].op = "cancel" => /\ Exists(t) => route[t] # "outbound"
                                    /\ result[t] # "canceled"
          /\ rpc[c].op # "cancel" => \E g \in granted : g[1] = t
          /\ rpc' = [rpc EXCEPT ![c].pc = "looked", ![c].task = t, ![c].peer = ReturnPeer(t)]
    /\ UNCHANGED <<rvars, envelope, granted, relay, process, in_flight, lock>>

\* make_outbox puts a result with a return peer in the outbox.
StoreResult(t, outcome, at, peer) ==
    /\ result' = [result EXCEPT ![t] = outcome]
    /\ outbox' = IF peer
                 THEN [outbox EXCEPT ![t] = [NoDelivery EXCEPT !.state = "pending",
                                                               !.created_at = at,
                                                               !.next_at = at]]
                 ELSE outbox

Complete(c) ==
    LET t == rpc[c].task IN
    /\ Serving(c, "looked", "complete") /\ StoreOpen
    /\ result[t] = "none"
    /\ \E g \in granted, at \in ReadTimes :
          /\ g[1] = t /\ CompleteTask(t, g[2], g[3])
          /\ StoreResult(t, "completed", at, rpc[c].peer)
    /\ Return(c)
    /\ UNCHANGED <<envelope, granted, relay, process>>

Fail(c) ==
    LET t == rpc[c].task IN
    /\ Serving(c, "looked", "fail") /\ StoreOpen
    /\ result[t] = "none"
    /\ \E g \in granted, max \in RetryLimits, at \in ReadTimes :
          /\ g[1] = t /\ FailTask(t, g[2], g[3], max)
          /\ IF status'[t] = "failed"
             THEN StoreResult(t, "failed", at, rpc[c].peer)
             ELSE UNCHANGED <<result, outbox>>
    /\ Return(c)
    /\ UNCHANGED <<envelope, granted, relay, process>>

\* A running task is cancelled by the worker that holds its lease.
CancelNow(c) ==
    LET t == rpc[c].task IN
    /\ Serving(c, "looked", "cancel") /\ StoreOpen
    /\ result[t] = "none"
    /\ status[t] = "running" => <<t, lease[t].leased_at, lease[t].worker>> \in granted
    /\ \E now \in ReadTimes :
          CancelTask(t, now) /\ StoreResult(t, "canceled", now, rpc[c].peer)
    /\ Return(c)
    /\ UNCHANGED <<envelope, granted, relay, process>>
------------------------------------------------------------------------------
(* Sending a task to another node, and its result coming back.               *)

\* The stored row is the record a resend builds afresh.
StoredIntent(t) == route[t] = "outbound" /\ status[t] = "pending" /\ retry_count[t] = 0

\* Fault: the relay is asked first.
FaultyRecordIntent(c) ==
    /\ Serving(c, "inside", "sendRemote") /\ StoreOpen
    /\ \E t \in Tasks : rpc' = [rpc EXCEPT ![c].pc = "publishing", ![c].task = t]
    /\ UNCHANGED <<rvars, envelope, granted, relay, process, in_flight, lock>>

\* TaskRouter::send_task stores the task, or finds it stored, before it publishes.
RecordIntent(c) ==
    /\ Serving(c, "inside", "sendRemote") /\ StoreOpen
    /\ \E t \in Tasks :
          /\ rpc' = [rpc EXCEPT ![c].pc = "publishing", ![c].task = t]
          /\ \/ StoredIntent(t) /\ UNCHANGED <<vars, envelope>>
             \/ \E k \in Keys \cup {NoKey}, d \in Deadlines \cup {NoDeadline}, at \in ReadTimes :
                   /\ InsertTask(t, k, d, "outbound")
                   /\ envelope' = [envelope EXCEPT ![t] = at]
    /\ UNCHANGED <<result, outbox, granted, relay, process, in_flight, lock>>

\* deliver_task, under a timeout: the relay takes the frame and its receipt
\* arrives, or an error or the timeout does, with or without a frame taken.
Publish(c) ==
    /\ At(c, "publishing")
    /\ published' = published \cup {rpc[c].task}
    /\ Go(c, "accepted") \/ Return(c)
    /\ UNCHANGED <<rvars, envelope, granted, receipts, process>>

PublishFails(c) == At(c, "publishing") /\ Leave(c)

RecordReceipt(c) ==
    /\ At(c, "accepted") /\ StoreOpen
    /\ receipts' = receipts \cup {rpc[c].task}
    /\ Return(c)
    /\ UNCHANGED <<rvars, envelope, granted, published, process>>

\* IngestRemoteResult of a task the relay carried.
Ingest(c) ==
    /\ Serving(c, "inside", "ingest") /\ StoreOpen
    /\ \E t \in published, outcome \in Outcomes : IngestRemoteResult(t, outcome)
    /\ Return(c)
    /\ UNCHANGED <<envelope, granted, relay, process>>
------------------------------------------------------------------------------
(* The process.                                                              *)

\* A tick of the lease recovery loop or of the health probe, which recovers
\* leases too, or of the deadline loop.
LoopTick ==
    /\ phase = "up"
    /\ Scanning
    /\ UNCHANGED <<result, outbox, envelope, granted, relay, process, in_flight, lock, rpc>>

PhaseStep(from, to) ==
    /\ phase = from /\ phase' = to
    /\ UNCHANGED <<rvars, envelope, granted, relay, in_flight, lock, rpc, restarts>>

\* main on ctrl-c: the loops are stopped first, then the runtime.
StopLoops == Stoppable /\ PhaseStep("up", "stopping") /\ UNCHANGED timed_out
InitiateShutdown == PhaseStep("stopping", "draining") /\ UNCHANGED timed_out

\* The poll of shutdown: no RPC in flight, or the drain timeout.
Drained ==
    /\ PhaseStep("draining", "closing")
    /\ \/ in_flight = 0 /\ UNCHANGED timed_out
       \/ in_flight # 0 /\ timed_out' = TRUE

CloseStore == PhaseStep("closing", "closed") /\ UNCHANGED timed_out

\* The process ends, by itself or killed: every call in progress is cut off.
Die ==
    /\ Alive /\ restarts < MaxRestarts
    /\ phase' = "down" /\ timed_out' = FALSE
    /\ in_flight' = 0 /\ lock' = NoOne
    /\ rpc' = [c \in Callers |-> Idle]
    /\ UNCHANGED <<rvars, envelope, granted, relay, restarts>>

\* startup recovers every stale lease before the listener is opened.
Startup ==
    /\ phase = "down" /\ restarts < MaxRestarts
    /\ phase' = "up" /\ restarts' = restarts + 1
    /\ IF StaleLeases(clock) = {} THEN UNCHANGED vars ELSE RecoverStaleLeases(clock, AllTasks)
    /\ UNCHANGED <<result, outbox, envelope, granted, relay, timed_out, in_flight, lock, rpc>>

TimePasses == Tick /\ UNCHANGED <<result, outbox, envelope, granted, relay, process,
                                  in_flight, lock, rpc>>

Entering(c) == EnterCount(c) \/ EnterRecheck(c) \/ Refuse(c) \/ StoreGone(c)
Submitting(c) == AcceptAgain(c) \/ CheckLimits(c) \/ Accept(c) \/ AcceptNothing(c) \/ Notify(c)
Claiming(c) == \/ Dispatch(c) \/ Listen(c) \/ ExpireFirst(c) \/ ClaimTask(c) \/ Scan(c)
               \/ TryLease(c) \/ Wait(c) \/ GiveUp(c) \/ Wake(c)
Working(c) == Look(c) \/ Complete(c) \/ Fail(c) \/ CancelNow(c)
Sending(c) == RecordIntent(c) \/ Publish(c) \/ PublishFails(c) \/ RecordReceipt(c) \/ Ingest(c)

\* The steps of a call in progress other than taking the lock.
Running(c) == Entering(c) \/ Submitting(c) \/ Claiming(c) \/ Working(c) \/ Sending(c)

Calling ==
    \/ \E c \in Clients, op \in Ops : EnterCheck(c, op)
    \/ \E c \in Pollers : EnterCheck(c, "claimNext")

DaemonNext ==
    \/ Calling
    \/ \E c \in Callers : TakeLock(c) \/ Running(c)
    \/ LoopTick \/ StopLoops \/ InitiateShutdown \/ Drained \/ CloseStore
    \/ Die \/ Startup \/ TimePasses

DaemonSpec == DaemonInit /\ [][DaemonNext]_dvars

\* Handlers are tasks of a multi-threaded runtime and always run on; the lock
\* is tokio's Mutex, which is handed over in the order of arrival; a poll ends
\* at its deadline however often it is woken; workers poll in a loop; a
\* shutdown once begun goes on.
DaemonFairSpec ==
    /\ DaemonSpec
    /\ \A c \in Clients : WF_dvars(Running(c)) /\ SF_dvars(TakeLock(c))
    /\ \A c \in Pollers :
          WF_dvars(Running(c) \/ EnterCheck(c, "claimNext")) /\ SF_dvars(GiveUp(c))
    /\ WF_dvars(InitiateShutdown \/ Drained \/ CloseStore)
------------------------------------------------------------------------------
(* Properties.                                                               *)

\* Unless its drain timed out, the shutdown never closes the store under a
\* handler: a caller that slipped past the first look of RpcInFlightGuard is
\* turned away by the second one, however the flag, the counter and the poll of
\* shutdown interleave (and every call, counter and lock stays in its type).
StoreOpenWhileServing ==
    /\ DaemonTypeOK
    /\ phase \in {"closing", "closed"} /\ ~timed_out =>
          \A c \in Callers :
              rpc[c].pc \in {"idle", "admitted", "counted"} \/ rpc[c].op = "incoming"

\* Tasks accepted for execution here and not started yet.
Fresh(t) == status[t] = "pending" /\ route[t] # "outbound" /\ Len(task_events[t]) = 1

\* Admission control holds under concurrent submissions: no interleaving of
\* SubmitTask, SubmitRemoteTask, incoming frames and local SendTask lets more
\* tasks in than max_pending_tasks (submit_backpressure_lock spans the count and
\* the insertion).
PendingBounded == Cardinality({t \in Tasks : Fresh(t)}) <= MaxPending

\* No wake-up is lost: while a poll waits un-notified, every submitted task it
\* could have claimed is gone or its submitter is still about to notify
\* (claim_next_task takes its Notified before it scans).
NoLostWakeup ==
    \A c \in Callers, t \in Tasks :
        At(c, "waiting") /\ ~rpc[c].notified /\ Fresh(t) /\ t \in Enveloped =>
            \E b \in Callers : At(b, "stored") /\ rpc[b].task = t

\* A task goes to the relay only once it is durable as this node's intent, and a
\* receipt is recorded only for what the relay took (TaskRouter::send_task),
\* through retries, timeouts and restarts between the three steps.
SentIsRecorded ==
    /\ \A t \in published : Exists(t) /\ route[t] = "outbound"
    /\ receipts \subseteq published

\* The result of a worker is owed to the sender: a received task that was
\* completed or failed has its outbox row, although the return peer is read
\* outside the settling transaction; a task sent from here never has one,
\* short of a cancellation that looked before the task was stored.
WorkerResultReturned ==
    \A t \in Tasks :
        /\ route[t] = "inbound" /\ result[t] \in {"completed", "failed"} => outbox[t].state # "none"
        /\ outbox[t].state # "none" /\ route[t] # "inbound" => result[t] = "canceled"

\* Every call is answered: no handler waits for ever on the lock, a
\* notification, the relay or the store, in whatever phase the process is.
CallsReturn == \A c \in Callers : ~At(c, "idle") ~> At(c, "idle")

\* A shutdown that began closes the store, even under calls that never end.
ShutdownCompletes == phase = "draining" ~> phase \in {"closed", "down"}

\* Nothing hangs: neither a call nor the shutdown that waits for the calls
\* (RpcInFlightGuard, submit_backpressure_lock, task_available, shutdown).
NothingHangs == CallsReturn /\ ShutdownCompletes

\* A submitted task does not stay untouched while workers poll, whatever
\* deadlines, conflicts and cut-off calls get in the way.
FreshTaskTaken ==
    \A t \in Tasks :
        Fresh(t) /\ t \in Enveloped ~> ~Fresh(t) \/ phase # "up"
=============================================================================
