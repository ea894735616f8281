------------------------------ MODULE RoundTrip ------------------------------
(* A task's round trip between two nodes: the origin's daemon sends it       *)
(* through the relay, the executor's daemon stores it, a worker built with   *)
(* the Python SDK claims and settles it, the executor's edge node delivers   *)
(* the result, the origin's daemon ingests it and the caller's TaskHandle    *)
(* sees it.  Each daemon's store is a ResultStore: the executor's under its  *)
(* own names, the origin's under o_ names.  The relay is taken at what       *)
(* Mailbox says of it, one stream per node: frames in order, kept until they *)
(* are acknowledged or withdrawn, sent again on every new stream, all        *)
(* forgotten when the relay restarts.                                        *)
EXTENDS ResultStore, Queues

CONSTANTS Slots,     \* the worker loops of one SDK node, which share its id
          WorkerId,  \* that id
          MaxSends,  \* bound: frames made for one task
          MaxFaults  \* bound: lost answers, broken streams, crashes, restarts

NoFrame == [kind |-> "none", task |-> 0, try |-> 0, outcome |-> "none"]
TaskFrame(t, n) == [kind |-> "task", task |-> t, try |-> n, outcome |-> "none"]
Ends == {"origin", "executor"}

ASSUME RoundTripAssumption ==
    /\ Slots # {}
    /\ WorkerId \in Workers
    /\ MaxSends \in Nat
    /\ MaxFaults \in Nat

VARIABLES o_status, o_deadline, o_route, o_events, o_result, \* the origin's store
          sends,     \* frames made for each task so far
          retained,  \* tasks whose publication the relay remembers
          owed,      \* frames the relay owes
          stream,    \* [Ends -> frames on their way to the node]
          hand,      \* [Ends -> the frame the edge node has taken, or NoFrame]
          handled,   \* edge nodes whose daemon has taken the frame in hand
          slot,      \* [Slots -> what the worker loop is doing]
          late,      \* CompleteTask requests their callers gave up on
          grants,    \* claims answered by the executor's daemon, by task
          settledBy, \* the grant whose worker settled the task, or 0
          sender,    \* the result delivery loop of the executor's edge node
          handle,    \* the caller's TaskHandle, by task
          faults

originVars == <<o_status, o_deadline, o_route, o_events, o_result>>
relayVars == <<sends, retained, owed, stream>>
edgeVars == <<hand, handled>>
workVars == <<slot, late, grants, settledBy>>
tvars == <<rvars, originVars, relayVars, edgeVars, workVars, sender, handle, faults>>

Origin == INSTANCE ResultStore WITH
            status <- o_status, deadline_ms <- o_deadline, route <- o_route,
            task_events <- o_events, result <- o_result,
            retry_count <- [t \in Tasks |-> 0], dead_lettered <- [t \in Tasks |-> FALSE],
            key <- [t \in Tasks |-> NoKey], lease <- [t \in Tasks |-> NoLease],
            outbox <- [t \in Tasks |-> NoDelivery]

Resting == [pc |-> "idle", task |-> 0, lease |-> 0, grant |-> 0, beating |-> FALSE]
NotSending == [pc |-> "idle", task |-> 0, expires |-> 0, frame |-> NoFrame]
Unread == [pc |-> "idle", seen |-> "absent", verdict |-> "none"]

TripInit ==
    /\ ResultInit
    /\ Origin!ResultInit
    /\ sends = [t \in Tasks |-> 0] /\ retained = {}
    /\ owed = {} /\ stream = [e \in Ends |-> <<>>]
    /\ hand = [e \in Ends |-> NoFrame] /\ handled = {}
    /\ slot = [s \in Slots |-> Resting] /\ late = {}
    /\ grants = [t \in Tasks |-> 0] /\ settledBy = [t \in Tasks |-> 0]
    /\ sender = NotSending
    /\ handle = [t \in Tasks |-> Unread]
    /\ faults = 0

Fault == faults < MaxFaults /\ faults' = faults + 1
NoFault == UNCHANGED faults
------------------------------------------------------------------------------
(* The origin sends the task.                                                *)

\* A publication whose identity the relay retains only gets the receipt again.
Publish(t) ==
    IF t \in retained
    THEN UNCHANGED relayVars
    ELSE LET f == TaskFrame(t, sends[t] + 1) IN
         /\ sends[t] < MaxSends
         /\ sends' = [sends EXCEPT ![t] = @ + 1]
         /\ retained' = retained \cup {t}
         /\ owed' = owed \cup {f}
         /\ stream' = [stream EXCEPT !["executor"] = Append(@, f)]

\* SendTask: the intent is stored, or found stored by a caller that asks again
\* while the task is pending, and the frame is published.
SendTask(t) ==
    /\ \/ \E d \in Deadlines \cup {NoDeadline} : Origin!InsertTask(t, NoKey, d, "outbound")
       \/ o_status[t] = "pending" /\ UNCHANGED originVars
    /\ Publish(t)
    /\ NoFault
    /\ UNCHANGED <<rvars, o_result, edgeVars, workVars, sender, handle>>
------------------------------------------------------------------------------
(* The edge nodes.                                                           *)

TakeFrame(e) ==
    /\ hand[e] = NoFrame /\ stream[e] # <<>>
    /\ hand' = [hand EXCEPT ![e] = Head(stream[e])]
    /\ stream' = [stream EXCEPT ![e] = Tail(@)]
    /\ NoFault
    /\ UNCHANGED <<rvars, originVars, sends, retained, owed, handled, workVars, sender, handle>>

\* Fault: a new stream starts behind the frame that failed.
SkippingStreamRestarts(e) ==
    /\ hand' = [hand EXCEPT ![e] = NoFrame]
    /\ handled' = handled \ {e}
    /\ stream' = [stream EXCEPT ![e] = Retain(@, owed)]
    /\ UNCHANGED <<rvars, originVars, sends, retained, owed, workVars, sender, handle>>

\* Any error ends the stream: the frame in hand is dropped, and a new stream
\* brings every frame still owed, in the old order.
StreamRestarts(e) ==
    /\ hand' = [hand EXCEPT ![e] = NoFrame]
    /\ handled' = handled \ {e}
    /\ stream' = [stream EXCEPT ![e] = Retain(<<hand[e]>> \o @, owed)]
    /\ UNCHANGED <<rvars, originVars, sends, retained, owed, workVars, sender, handle>>

HandlingFrame(e) == hand[e] # NoFrame /\ e \notin handled

\* The stored record is the one this frame makes: never started, no failure.
SameDelivery(t) == route[t] = "inbound" /\ status[t] = "pending" /\ retry_count[t] = 0

\* SubmitRemoteTask.  The frame carries the deadline the origin gave the task.
SubmitRemoteTask(t) ==
    /\ HandlingFrame("executor") /\ hand["executor"].task = t
    /\ \/ InsertTask(t, NoKey, o_deadline[t], "inbound") /\ UNCHANGED <<result, outbox>>
       \/ SameDelivery(t) /\ UNCHANGED rvars
    /\ handled' = handled \cup {"executor"}
    /\ NoFault
    /\ UNCHANGED <<originVars, relayVars, hand, workVars, sender, handle>>

\* TransportContextConflict.
RefuseRemoteTask(t) ==
    /\ HandlingFrame("executor") /\ hand["executor"].task = t
    /\ Exists(t) /\ ~SameDelivery(t)
    /\ StreamRestarts("executor")
    /\ NoFault

\* ingest_remote_result_with_artifacts: applied, a duplicate of the stored
\* result, or a late result for a task that ran out of time.
Ingest(f) ==
    \/ Origin!IngestRemoteResult(f.task, f.outcome) /\ UNCHANGED rvars
    \/ o_result[f.task] = f.outcome /\ UNCHANGED <<rvars, originVars>>
    \/ /\ o_result[f.task] = "none" /\ o_status[f.task] \in Terminal
       /\ UNCHANGED <<rvars, originVars>>

IngestRemoteResultFrame ==
    /\ HandlingFrame("origin")
    /\ Ingest(hand["origin"])
    /\ handled' = handled \cup {"origin"}
    /\ NoFault
    /\ UNCHANGED <<relayVars, hand, workVars, sender, handle>>

\* Fault: a frame is acknowledged before the daemon has it.
HastyReadyToAck(e) == hand[e] # NoFrame

ReadyToAck(e) == e \in handled

\* AckFrame; a frame the relay no longer owes is answered all the same.  The
\* publisher of a result waits for this.
AckFrame(e) ==
    /\ ReadyToAck(e)
    /\ owed' = owed \ {hand[e]}
    /\ sender' = IF sender.pc = "publishing" /\ sender.frame = hand[e] /\ hand[e] \in owed
                 THEN [sender EXCEPT !.pc = "published"] ELSE sender
    /\ hand' = [hand EXCEPT ![e] = NoFrame]
    /\ handled' = handled \ {e}
    /\ NoFault
    /\ UNCHANGED <<rvars, originVars, sends, retained, stream, workVars, handle>>

BreakStream(e) == Fault /\ StreamRestarts(e)

\* The relay process restarts: mailboxes, records and waiting calls are gone.
RestartRelay ==
    /\ Fault
    /\ retained' = {} /\ owed' = {}
    /\ stream' = [e \in Ends |-> <<>>]
    /\ hand' = [e \in Ends |-> NoFrame] /\ handled' = {}
    /\ sender' = IF sender.pc = "publishing" THEN [sender EXCEPT !.pc = "failed"] ELSE sender
    /\ UNCHANGED <<rvars, originVars, sends, workVars, handle>>
------------------------------------------------------------------------------
(* The worker loops of the SDK.                                              *)

others == <<originVars, relayVars, edgeVars, sender, handle>>

\* The claim is answered, or its answer is lost and the lease left to expire.
ClaimNext(s, t) ==
    /\ slot[s].pc = "idle"
    /\ \E dur \in Durations : LeaseTask(t, WorkerId, clock, dur)
    /\ grants' = [grants EXCEPT ![t] = @ + 1]
    /\ \/ /\ slot' = [slot EXCEPT ![s] = [pc |-> "handling", task |-> t, lease |-> clock,
                                          grant |-> grants[t] + 1, beating |-> TRUE]]
          /\ NoFault
       \/ Fault /\ UNCHANGED slot
    /\ UNCHANGED <<result, outbox, late, settledBy, others>>

\* _heartbeat_claim runs beside the handlers and ends with its first error, of
\* which nobody hears before the handlers are done.
Heartbeat(s) ==
    LET t == slot[s].task IN
    /\ slot[s].pc \in {"handling", "parked", "failing"} /\ slot[s].beating
    /\ \/ /\ \E dur \in Durations : RenewLease(t, slot[s].lease, WorkerId, clock, dur)
          /\ NoFault /\ UNCHANGED slot
       \/ /\ ~lease[t].active \/ lease[t].leased_at # slot[s].lease
          /\ slot' = [slot EXCEPT ![s].beating = FALSE]
          /\ NoFault /\ UNCHANGED vars
       \/ Fault /\ slot' = [slot EXCEPT ![s].beating = FALSE] /\ UNCHANGED vars
    /\ UNCHANGED <<result, outbox, late, grants, settledBy, others>>

\* A handler raises, or returns without having settled the task.
HandlerEnds(s) ==
    /\ slot[s].pc = "handling"
    /\ \E pc \in {"failing", "parked"} : slot' = [slot EXCEPT ![s].pc = pc]
    /\ NoFault
    /\ UNCHANGED <<rvars, late, grants, settledBy, others>>

\* _process_claimed_task returns, or the worker is stopped or killed: nothing
\* is told to the daemon.
Abandon(s) ==
    /\ \/ slot[s].pc = "parked" /\ ~slot[s].beating /\ NoFault
       \/ slot[s].pc # "idle" /\ Fault
    /\ slot' = [slot EXCEPT ![s] = Resting]
    /\ UNCHANGED <<rvars, late, grants, settledBy, others>>

Request(s) == [task |-> slot[s].task, lease |-> slot[s].lease, grant |-> slot[s].grant]

\* CompleteTask reaches the store.
Completed(r) ==
    /\ CompleteTaskWithResult(r.task, r.lease, WorkerId, clock)
    /\ settledBy' = [settledBy EXCEPT ![r.task] = r.grant]

Refused(r) ==
    /\ result[r.task] # "none" \/ ~PresentsLease(r.task, r.lease, WorkerId)
    /\ UNCHANGED <<rvars, settledBy>>

\* IncomingTask.complete from a handler.  An error of the call, a lost answer
\* included, is an exception of the handler; a request given up may still be
\* on its way.
CompleteCall(s) ==
    /\ slot[s].pc \in {"handling", "parked"}
    /\ \/ Completed(Request(s)) /\ NoFault
          /\ slot' = [slot EXCEPT ![s] = Resting] /\ UNCHANGED late
       \/ Completed(Request(s)) /\ Fault
          /\ slot' = [slot EXCEPT ![s].pc = "failing"] /\ UNCHANGED late
       \/ Refused(Request(s)) /\ NoFault
          /\ slot' = [slot EXCEPT ![s].pc = "failing"] /\ UNCHANGED late
       \/ Fault /\ late' = late \cup {Request(s)} /\ UNCHANGED <<rvars, settledBy>>
          /\ slot' = [slot EXCEPT ![s].pc = "failing"]
    /\ UNCHANGED <<grants, others>>

LateComplete(r) ==
    /\ r \in late
    /\ late' = late \ {r}
    /\ Completed(r) \/ Refused(r)
    /\ NoFault
    /\ UNCHANGED <<slot, grants, others>>

\* IncomingTask.fail after an exception; its own failure is only logged.
FailCall(s) ==
    LET r == Request(s) IN
    /\ slot[s].pc = "failing"
    /\ slot' = [slot EXCEPT ![s] = Resting]
    /\ \/ /\ NoFault
          /\ \/ /\ \E max \in RetryLimits : FailTaskWithResult(r.task, r.lease, WorkerId, max, clock)
                /\ settledBy' = IF result'[r.task] = "none" THEN settledBy
                                ELSE [settledBy EXCEPT ![r.task] = r.grant]
             \/ Refused(r)
       \/ Fault /\ UNCHANGED <<rvars, settledBy>>
    /\ UNCHANGED <<late, grants, others>>
------------------------------------------------------------------------------
(* The result delivery loop: claim a row, publish the result and wait for    *)
(* the destination's acknowledgement, then report how it went.               *)

ClaimDelivery ==
    /\ sender.pc = "idle"
    /\ \E dw \in DeliveryWorkers, dur \in DeliveryDurations :
          ClaimNextResultDelivery(dw, clock, dur)
    /\ outbox' # outbox
    /\ \/ \E t \in Tasks :
            /\ outbox'[t].state = "leased" /\ outbox'[t] # outbox[t]
            /\ sender' = [pc |-> "claimed", task |-> t, expires |-> outbox'[t].expires_at,
                          frame |-> [kind |-> "result", task |-> t, try |-> outbox'[t].attempts,
                                     outcome |-> result[t]]]
       \/ /\ \A t \in Tasks : outbox'[t].state = "leased" => outbox'[t] = outbox[t]
          /\ UNCHANGED sender
    /\ NoFault
    /\ UNCHANGED <<originVars, relayVars, edgeVars, workVars, handle>>

PublishResult ==
    /\ sender.pc = "claimed"
    /\ sender' = [sender EXCEPT !.pc = "publishing"]
    /\ owed' = owed \cup {sender.frame}
    /\ stream' = [stream EXCEPT !["origin"] = Append(@, sender.frame)]
    /\ NoFault
    /\ UNCHANGED <<rvars, originVars, sends, retained, edgeVars, workVars, handle>>

\* The call fails or times out, and the relay withdraws the frame: a copy may
\* be on the stream, in the destination's hand, or past it.
PublishFails ==
    /\ Fault
    /\ sender.pc \in {"claimed", "publishing", "published"}
    /\ sender' = [sender EXCEPT !.pc = "failed"]
    /\ owed' = owed \ {sender.frame}
    /\ UNCHANGED <<rvars, originVars, sends, retained, stream, edgeVars, workVars, handle>>

\* The report is accepted, or refused because the claim ran out; a refusal ends
\* the loop, which starts again.
Report ==
    /\ sender.pc \in {"published", "failed"}
    /\ \E dw \in DeliveryWorkers :
         \/ /\ sender.pc = "published"
            /\ AckResultDelivery(sender.task, dw, sender.expires, clock)
         \/ /\ sender.pc = "failed"
            /\ \E delay \in RetryDelays, permanent \in BOOLEAN :
                  FailResultDelivery(sender.task, dw, sender.expires, clock, delay, permanent)
         \/ ~HoldsDelivery(sender.task, dw, sender.expires, clock) /\ UNCHANGED rvars
    /\ sender' = NotSending
    /\ NoFault
    /\ UNCHANGED <<originVars, relayVars, edgeVars, workVars, handle>>

SenderCrashes ==
    /\ Fault
    /\ sender.pc # "idle"
    /\ sender' = NotSending
    /\ owed' = owed \ {sender.frame}
    /\ UNCHANGED <<rvars, originVars, sends, retained, stream, edgeVars, workVars, handle>>
------------------------------------------------------------------------------
(* The caller's TaskHandle.                                                  *)

Judged(seen, res) ==
    IF res # "none" THEN res ELSE IF seen \in Terminal THEN "unavailable" ELSE "none"

\* GetTaskResult reads the task, then its result, in two transactions.
ReadTask(t) ==
    /\ handle[t].pc = "idle" /\ handle[t].verdict = "none" /\ o_status[t] # "absent"
    /\ handle' = [handle EXCEPT ![t].pc = "read", ![t].seen = o_status[t]]
    /\ NoFault
    /\ UNCHANGED <<rvars, originVars, relayVars, edgeVars, workVars, sender>>

\* Fault: the task is read after its result.
SwappedReadResult(t) ==
    /\ handle[t].pc = "read"
    /\ handle' = [handle EXCEPT ![t] =
                    [Unread EXCEPT !.verdict =
                       Judged(o_status[t], IF handle[t].seen \in Terminal THEN o_result[t] ELSE "none")]]
    /\ NoFault
    /\ UNCHANGED <<rvars, originVars, relayVars, edgeVars, workVars, sender>>

\* A terminal answer, with a result or without, is kept for good.
ReadResult(t) ==
    /\ handle[t].pc = "read"
    /\ handle' = [handle EXCEPT ![t] =
                    [Unread EXCEPT !.verdict = Judged(handle[t].seen, o_result[t])]]
    /\ NoFault
    /\ UNCHANGED <<rvars, originVars, relayVars, edgeVars, workVars, sender>>
------------------------------------------------------------------------------
(* The loops of the two daemons, and time.                                   *)

ExecutorLoops ==
    /\ RecoverStaleLeases(clock, AllTasks) \/ FailExpiredDeadlines(clock, AllTasks)
    /\ NoFault
    /\ UNCHANGED <<result, outbox, workVars, others>>

OriginLoops ==
    /\ Origin!FailExpiredDeadlines(clock, AllTasks)
    /\ NoFault
    /\ UNCHANGED <<rvars, o_result, relayVars, edgeVars, workVars, sender, handle>>

TimePasses == Tick /\ NoFault /\ UNCHANGED <<result, outbox, workVars, others>>
------------------------------------------------------------------------------
Edge(e) == \/ TakeFrame(e)
           \/ AckFrame(e)
           \/ e = "executor" /\ \E t \in Tasks : SubmitRemoteTask(t) \/ RefuseRemoteTask(t)
           \/ e = "origin" /\ IngestRemoteResultFrame

Worker(s) == \/ \E t \in Tasks : ClaimNext(s, t)
             \/ HandlerEnds(s) \/ Abandon(s) \/ CompleteCall(s) \/ FailCall(s)

Delivery == ClaimDelivery \/ PublishResult \/ Report

Observe(t) == ReadTask(t) \/ ReadResult(t)

TripNext ==
    \/ \E t \in Tasks : SendTask(t) \/ Observe(t)
    \/ \E e \in Ends : Edge(e) \/ BreakStream(e)
    \/ \E s \in Slots : Worker(s) \/ Heartbeat(s)
    \/ \E r \in late : LateComplete(r)
    \/ Delivery \/ PublishFails \/ SenderCrashes
    \/ RestartRelay
    \/ ExecutorLoops \/ OriginLoops \/ TimePasses

TripSpec == TripInit /\ [][TripNext]_tvars

\* Every process keeps running: edge nodes read and reconnect, worker loops
\* claim and finish what they handle, the delivery loop, the daemons' loops.
\* Nothing is assumed of the faults, of heartbeats, or of requests given up.
TripFairSpec ==
    /\ TripSpec
    /\ \A e \in Ends : WF_tvars(Edge(e))
    /\ WF_tvars((\E s \in Slots : Worker(s)) \/ Delivery)
    /\ WF_tvars(ExecutorLoops \/ OriginLoops \/ TimePasses)
    /\ \A t \in Tasks : WF_tvars(Observe(t))
------------------------------------------------------------------------------
(* Properties.                                                               *)

\* The origin never holds an outcome its executor does not hold: whatever is
\* lost, repeated or late between the two stores, a result ingested at the
\* origin is the one and only result of the executor.
SameOutcome ==
    \A t \in Tasks : o_result[t] # "none" => result[t] = o_result[t]

\* "delivered" is true: the executor stops sending a result only when the task
\* is settled at the origin, by this result or by the deadline before it
\* (ack_result_delivery comes after PublishResult, which comes after the
\* origin's edge node acknowledged, which comes after the ingestion).
DeliveredMeansSettled ==
    \A t \in Tasks :
        outbox[t].state = "delivered" =>
            /\ o_status[t] \in Terminal
            /\ o_result[t] \in {result[t], "none"}

\* The two ends agree: on the outcome, and on whether it has arrived.
OutcomesAgree == SameOutcome /\ DeliveredMeansSettled

\* What a TaskHandle reports is final.  An outcome is the one stored; and a
\* caller told that no result will come is never contradicted by one, although
\* the task and its result are read in two steps while results arrive.
HandleNeverLies ==
    \A t \in Tasks :
        /\ handle[t].verdict \in Outcomes => o_result[t] = handle[t].verdict
        /\ handle[t].verdict = "unavailable" => o_result[t] = "none" /\ o_status[t] \in Terminal

\* A worker whose claim was superseded cannot settle the task, although all
\* loops of a node share a worker id and lease ids are only clock values: two
\* grants have the same id only if a counted failure returned the task within
\* one millisecond (new_lease_id).
StaleWorkerFenced ==
    \A t \in Tasks :
        settledBy[t] # 0 /\ settledBy[t] # grants[t] => retry_count[t] > 0

\* Beyond the last millisecond explored: a lease no loop works on, a delivery
\* due later, a task whose log is full.
BeyondHorizon(t) ==
    \/ /\ lease[t].active /\ lease[t].expires_at > MaxTime
       /\ \A s \in Slots : slot[s].task # t \/ slot[s].pc = "parked"
    \/ outbox[t].state \in {"pending", "leased"} /\ DueAt(t) > MaxTime
    \/ status[t] = "pending" /\ ~LogRoom(t)

\* Every task the executor's daemon has stored comes back: the origin's task is
\* settled, unless its result was given up by the delivery loop.  Broken
\* streams, a restarted relay, lost answers and workers that vanish delay this
\* but do not prevent it.  And once the task is settled, the caller learns how.
RoundTripEnds ==
    \A t \in Tasks :
        /\ Exists(t) ~> \/ o_status[t] \in Terminal
                        \/ outbox[t].state = "dead_lettered"
                        \/ BeyondHorizon(t)
        /\ o_status[t] \in Terminal ~> handle[t].verdict # "none"

\* docs/cross-node-delivery.md: "Exact frame replay is idempotent."  So a frame
\* the executor's edge node takes is in the end acknowledged, or lost with the
\* relay.
TaskFrameSettles ==
    \A t \in Tasks, n \in 1..MaxSends : TaskFrame(t, n) \in owed ~> TaskFrame(t, n) \notin owed
==============================================================================
