------------------------ MODULE RoundTripStepProofs --------------------------
(* The steps of RoundTrip one by one: the inductive invariant, and what each *)
(* step does to the claims of the workers, to the origin, to the delivery    *)
(* loop and to the handle. What the steps need of the executor's store is    *)
(* assumed here and shown in RoundTripProofs.                                *)
EXTENDS RoundTrip, TLAPS
------------------------------------------------------------------------------
(* The inductive invariant.                                                  *)

\* The claims somebody still holds: a worker loop, or a request on its way.
HeldClaims == {Request(s) : s \in {x \in Slots : slot[x].pc # "idle"}} \cup late

SlotRecord == [pc : {"idle", "handling", "parked", "failing"}, task : Nat, lease : Nat,
               grant : Nat, beating : BOOLEAN]

\* Claims are for known tasks, and numbered and dated in the past.
ClaimsTyped ==
    /\ clock \in 0..MaxTime
    /\ slot \in [Slots -> SlotRecord]
    /\ grants \in [Tasks -> Nat] /\ settledBy \in [Tasks -> Nat]
    /\ \A p \in HeldClaims : /\ p.task \in Tasks /\ p.lease \in 0..clock
                             /\ p.grant \in 1..grants[p.task]

\* Unless a failure was counted, a claim with the id of the active lease is the
\* latest one, and a task that waits was never claimed in this millisecond.
ClaimFenced(p) ==
    retry_count[p.task] = 0 =>
        /\ status[p.task] = "pending" => p.lease < clock
        /\ lease[p.task].active =>
             /\ p.lease <= lease[p.task].leased_at
             /\ p.lease = lease[p.task].leased_at => p.grant = grants[p.task]

TaskFenced(t) ==
    /\ status[t] = "absent" => grants[t] = 0
    /\ lease[t].active => lease[t].leased_at < lease[t].expires_at
    /\ settledBy[t] # 0 =>
         /\ result[t] # "none"
         /\ settledBy[t] = grants[t] \/ retry_count[t] > 0

Fenced == /\ \A p \in HeldClaims : ClaimFenced(p)
          /\ \A t \in Tasks : TaskFenced(t)

FrameRecord == [kind : {"none", "task", "result"}, task : Nat, try : Nat,
                outcome : Outcomes \cup {"none"}]

\* The result frames that say what the executor's store says.
TrueFrames == {f \in FrameRecord : /\ f.kind = "result" /\ f.task \in Tasks
                                   /\ f.outcome # "none" /\ f.outcome = result[f.task]}
TaskFrames == {f \in FrameRecord : f.kind = "task"}

\* Only true results travel to the origin and only tasks to the executor, and a
\* result that was handled is settled.
StreamsTrue ==
    /\ DOMAIN stream = Ends /\ DOMAIN hand = Ends /\ handled \subseteq Ends
    /\ sends \in [Tasks -> Nat] /\ NoFrame \notin owed
    /\ stream["origin"] \in Seq(TrueFrames)
    /\ stream["executor"] \in Seq(TaskFrames)
    /\ hand["origin"] \in TrueFrames \cup {NoFrame}
    /\ hand["executor"] \in TaskFrames \cup {NoFrame}
    /\ "origin" \in handled => /\ hand["origin"] \in TrueFrames
                                /\ o_status[hand["origin"].task] \in Terminal

SenderRecord == [pc : {"idle", "claimed", "publishing", "published", "failed"}, task : Nat,
                 expires : Nat, frame : FrameRecord]

\* The delivery loop carries a true result, and what it calls published is
\* settled.
SenderTrue ==
    /\ sender \in SenderRecord
    /\ sender.pc # "idle" => /\ sender.frame \in TrueFrames
                             /\ sender.frame.task = sender.task
    /\ sender.pc = "published" => o_status[sender.task] \in Terminal

OriginTyped == /\ o_status \in [Tasks -> Statuses]
               /\ o_deadline \in [Tasks -> Deadlines \cup {NoDeadline}]
               /\ o_result \in [Tasks -> Outcomes \cup {"none"}]

\* A result at the origin is the executor's and has settled the task; a
\* delivery is called done only after that.
OriginTrue ==
    \A t \in Tasks :
        /\ o_result[t] # "none" => o_result[t] = result[t] /\ o_status[t] \in Terminal
        /\ outbox[t].state = "delivered" => o_status[t] \in Terminal

HandleRecord == [pc : {"idle", "read"}, seen : Statuses,
                 verdict : Outcomes \cup {"none", "unavailable"}]

\* The handle's first read is still true at the second one.
HandleTrue ==
    /\ handle \in [Tasks -> HandleRecord]
    /\ \A t \in Tasks :
        /\ handle[t].seen \in Terminal => o_status[t] \in Terminal
        /\ handle[t].verdict \in Outcomes => o_result[t] = handle[t].verdict
        /\ handle[t].verdict = "unavailable" => o_result[t] = "none" /\ o_status[t] \in Terminal

\* Claims on outbox rows end within the range of the clock's type.
DeliveriesTimed == \A t \in Tasks : outbox[t].expires_at \in 0..MaxMs

StoreInv == TypeOK /\ ActiveLeaseOwnsTask /\ OutboxInv
FlowInv == StreamsTrue /\ SenderTrue /\ OriginTyped /\ OriginTrue
TripInv == StoreInv /\ DeliveriesTimed /\ ClaimsTyped /\ FlowInv
------------------------------------------------------------------------------
(* The executor's daemon only does what ResultStore does.                    *)

\* A step that calls no delivery done.
NoneDelivered ==
    \A t \in Tasks : outbox'[t].state = "delivered" => outbox[t].state = "delivered"

\* A new outbox row is neither claimed nor delivered.
LEMMA FilingTimed ==
  ASSUME RowsTyped, DeliveriesTimed, NEW t \in Tasks, NEW o, NEW at,
         InsertResultAndOutbox(t, o, at)
  PROVE  DeliveriesTimed' /\ NoneDelivered
<1> DEFINE row == [NoDelivery EXCEPT !.state = "pending", !.created_at = at, !.next_at = at]
<1>1. row.state = "pending" /\ row.expires_at = 0
  BY DEF NoDelivery
<1>2. outbox' = IF route[t] = "inbound" THEN [outbox EXCEPT ![t] = row] ELSE outbox
  BY DEF InsertResultAndOutbox
<1> HIDE DEF row
<1>3. 0 \in 0..MaxMs
  BY TimesAssumption
<1> QED
  BY <1>1, <1>2, <1>3 DEF RowsTyped, DeliveriesTimed, NoneDelivered

\* Claiming a delivery, and taking expired claims back, delivers nothing.
LEMMA ClaimingTimed ==
  ASSUME RowsTyped, DeliveriesTimed, clock \in Nat, NEW dw, NEW dur \in DeliveryDurations,
         ClaimNextResultDelivery(dw, clock, dur)
  PROVE  DeliveriesTimed' /\ NoneDelivered
<1> DEFINE rows == ReclaimExpired(clock)
           due == {t \in Tasks : rows[t].state = "pending" /\ rows[t].next_at <= clock}
           next == {t \in due : \A u \in due : ~Earlier(rows, u, t)}
           until == SaturatingAdd(clock, dur)
<1>1. until \in 0..MaxMs /\ 0 \in 0..MaxMs
  BY DeliveryAssumption, TimesAssumption DEF SaturatingAdd
<1>2. outbox' = [t \in Tasks |->
        IF t \in next
        THEN [rows[t] EXCEPT !.state = "leased", !.owner = dw, !.expires_at = until]
        ELSE rows[t]]
  BY DEF ClaimNextResultDelivery
<1>3. ASSUME NEW t \in Tasks
      PROVE  /\ rows[t] \in OutboxRecord
             /\ rows[t].expires_at \in 0..MaxMs
             /\ rows[t].state = "delivered" => outbox[t].state = "delivered"
  <2>1. outbox[t] \in OutboxRecord /\ outbox[t].expires_at \in 0..MaxMs
    BY DEF RowsTyped, DeliveriesTimed
  <2>2. CASE outbox[t].state = "leased" /\ outbox[t].expires_at <= clock
    <3>1. rows[t] = Attempted(outbox[t], clock, FALSE)
      BY <2>2 DEF ReclaimExpired
    <3> DEFINE last == outbox[t].attempts >= MaxDeliveryAttempts - 1
               state == IF last THEN "dead_lettered" ELSE "pending"
               attempts == IF last THEN MaxDeliveryAttempts ELSE outbox[t].attempts + 1
    <3>2. /\ state \in {"pending", "dead_lettered"} /\ attempts \in Nat
          /\ outbox[t].created_at \in Nat
      BY <2>1, DeliveryAssumption DEF OutboxRecord
    <3>3. rows[t] = [state |-> state, attempts |-> attempts, created_at |-> outbox[t].created_at,
                     next_at |-> clock, owner |-> NoWorker, expires_at |-> 0]
      BY <3>1 DEF Attempted
    <3> HIDE DEF rows, state, attempts
    <3> QED
      BY <1>1, <3>2, <3>3 DEF OutboxRecord
  <2>3. CASE ~(outbox[t].state = "leased" /\ outbox[t].expires_at <= clock)
    BY <2>1, <2>3 DEF ReclaimExpired
  <2> QED
    BY <2>2, <2>3
<1> HIDE DEF rows, due, next, until
<1>4. ASSUME NEW t \in Tasks
      PROVE  /\ outbox'[t].expires_at \in 0..MaxMs
             /\ outbox'[t].state = "delivered" => outbox[t].state = "delivered"
  <2>1. CASE t \in next
    <3>1. outbox'[t].state = "leased" /\ outbox'[t].expires_at = until
      BY <1>2, <1>3, <2>1 DEF OutboxRecord
    <3> QED
      BY <1>1, <3>1
  <2>2. CASE t \notin next
    BY <1>2, <1>3, <2>2
  <2> QED
    BY <2>1, <2>2
<1> QED
  BY <1>4 DEF DeliveriesTimed, NoneDelivered

\* A failed attempt releases the claim; an acknowledged one delivers its row.
LEMMA ReportTimed ==
  ASSUME RowsTyped, DeliveriesTimed, clock \in Nat, NEW t \in Tasks, NEW dw, NEW exp
  PROVE  /\ AckResultDelivery(t, dw, exp, clock) =>
              /\ DeliveriesTimed'
              /\ \A u \in Tasks \ {t} : outbox'[u] = outbox[u]
         /\ \A delay \in RetryDelays, giveUp \in BOOLEAN :
              FailResultDelivery(t, dw, exp, clock, delay, giveUp)
                => DeliveriesTimed' /\ NoneDelivered
<1>1. 0 \in 0..MaxMs /\ outbox[t] \in OutboxRecord
  BY TimesAssumption DEF RowsTyped
<1>2. ASSUME AckResultDelivery(t, dw, exp, clock)
      PROVE  DeliveriesTimed' /\ \A u \in Tasks \ {t} : outbox'[u] = outbox[u]
  <2> DEFINE row == [outbox[t] EXCEPT !.state = "delivered", !.owner = NoWorker,
                                      !.expires_at = 0]
  <2>1. outbox' = [outbox EXCEPT ![t] = row]
    BY <1>2 DEF AckResultDelivery
  <2>2. row.expires_at = 0
    BY <1>1 DEF OutboxRecord
  <2> HIDE DEF row
  <2> QED
    BY <1>1, <2>1, <2>2 DEF RowsTyped, DeliveriesTimed
<1>3. ASSUME NEW delay \in RetryDelays, NEW giveUp \in BOOLEAN,
             FailResultDelivery(t, dw, exp, clock, delay, giveUp)
      PROVE  DeliveriesTimed' /\ NoneDelivered
  <2> DEFINE row == Attempted(outbox[t], SaturatingAdd(clock, delay), giveUp)
  <2>1. outbox' = [outbox EXCEPT ![t] = row]
    BY <1>3 DEF FailResultDelivery
  <2>2. row.expires_at = 0 /\ row.state # "delivered"
    BY DEF Attempted
  <2> HIDE DEF row
  <2> QED
    BY <1>1, <2>1, <2>2 DEF RowsTyped, DeliveriesTimed, NoneDelivered
<1> QED
  BY <1>2, <1>3

\* The claim of a request is one the store's interface accepts.
LEMMA RequestHeld ==
  ASSUME ClaimsTyped, NEW r \in HeldClaims
  PROVE  r.task \in Tasks /\ r.lease \in 0..MaxTime /\ clock \in ReadTimes /\ clock \in Nat
<1>1. clock \in 0..MaxTime /\ r.task \in Tasks /\ r.lease \in 0..clock
  BY DEF ClaimsTyped
<1> QED
  BY <1>1, TimesAssumption DEF ReadTimes

\* CompleteTask, from its caller or late, and FailTask are settlements of
\* ResultStore; a refused request changes nothing.
LEMMA RequestsSettle ==
  ASSUME ClaimsTyped, NEW r \in HeldClaims
  PROVE  /\ Completed(r) => SettlingWithResult
         /\ \A max \in RetryLimits :
              FailTaskWithResult(r.task, r.lease, WorkerId, max, clock) => SettlingWithResult
<1>1. r.task \in Tasks /\ r.lease \in 0..MaxTime /\ clock \in ReadTimes /\ WorkerId \in Workers
  BY RequestHeld, RoundTripAssumption
<1> QED
  BY <1>1 DEF Completed, SettlingWithResult

\* The claims a worker loop holds.
LEMMA SlotHolds ==
  ASSUME NEW s \in Slots, slot[s].pc # "idle"
  PROVE  Request(s) \in HeldClaims
BY DEF HeldClaims

\* The steps of the worker loops and of the executor's daemon on its own.
Working == \/ \E s \in Slots : \/ \E t \in Tasks : ClaimNext(s, t)
                             \/ Heartbeat(s) \/ HandlerEnds(s) \/ Abandon(s)
                             \/ CompleteCall(s) \/ FailCall(s)
           \/ \E r \in late : LateComplete(r)
           \/ ExecutorLoops \/ TimePasses

\* The steps in which frames travel and are handled.
Travelling == \/ \E t \in Tasks : SendTask(t) \/ SubmitRemoteTask(t) \/ RefuseRemoteTask(t)
              \/ \E e \in Ends : TakeFrame(e) \/ AckFrame(e) \/ BreakStream(e)
              \/ IngestRemoteResultFrame \/ RestartRelay

\* The steps of the delivery loop.
Sending == ClaimDelivery \/ PublishResult \/ Report \/ PublishFails \/ SenderCrashes

\* The steps of the caller and of the origin's daemon on its own.
Waiting == (\E t \in Tasks : ReadTask(t) \/ ReadResult(t)) \/ OriginLoops

\* There are no other steps.
LEMMA TripCases == TripNext => Working \/ Travelling \/ Sending \/ Waiting
  BY DEF TripNext, Working, Travelling, Sending, Waiting, Observe, Edge, Worker, Delivery

\* Every step of the round trip is a step of the executor's store, or leaves it
\* alone.
LEMMA ExecutorSteps ==
    ClaimsTyped /\ OriginTyped /\ SenderTrue /\ DeliveriesTimed /\ [TripNext]_tvars
        => [ResultNext]_rvars
<1> SUFFICES ASSUME ClaimsTyped, OriginTyped, SenderTrue, DeliveriesTimed, [TripNext]_tvars
             PROVE  ResultNext \/ UNCHANGED rvars
  OBVIOUS
<1>1. clock \in ReadTimes /\ clock \in 0..MaxTime
  BY TimesAssumption DEF ClaimsTyped, ReadTimes
<1>2. ASSUME NEW t \in Tasks, SubmitRemoteTask(t) PROVE ResultNext \/ UNCHANGED rvars
  <2>1. o_deadline[t] \in Deadlines \cup {NoDeadline} /\ NoKey \in Keys \cup {NoKey}
    BY DEF OriginTyped
  <2>2. CASE InsertTask(t, NoKey, o_deadline[t], "inbound") /\ UNCHANGED <<result, outbox>>
    <3>1. Accepting
      BY <2>1, <2>2 DEF Accepting, AcceptTaskWithContext
    <3> QED
      BY <2>2, <3>1 DEF ResultNext, StoreStep
  <2> QED
    BY <1>2, <2>2 DEF SubmitRemoteTask
<1>3. ASSUME NEW s \in Slots, NEW t \in Tasks, ClaimNext(s, t) PROVE ResultNext
  <2>1. Leasing /\ UNCHANGED <<result, outbox>>
    BY <1>1, <1>3, RoundTripAssumption DEF ClaimNext, Leasing
  <2> QED
    BY <2>1 DEF ResultNext, StoreStep
<1>4. ASSUME NEW s \in Slots, Heartbeat(s) PROVE ResultNext \/ UNCHANGED rvars
  <2>1. /\ slot[s].pc # "idle" /\ UNCHANGED <<result, outbox>>
        /\ \/ \E dur \in Durations : RenewLease(slot[s].task, slot[s].lease, WorkerId, clock, dur)
           \/ UNCHANGED vars
    BY <1>4 DEF Heartbeat
  <2>2. slot[s].task \in Tasks /\ slot[s].lease \in 0..MaxTime
    <3>1. Request(s).task \in Tasks /\ Request(s).lease \in 0..MaxTime
      BY <2>1, SlotHolds, RequestHeld
    <3> QED
      BY <3>1 DEF Request
  <2>3. Leasing \/ UNCHANGED vars
    BY <1>1, <2>1, <2>2, RoundTripAssumption DEF Leasing
  <2> QED
    BY <2>1, <2>3 DEF ResultNext, StoreStep, rvars
<1>5. ASSUME NEW s \in Slots, CompleteCall(s) PROVE ResultNext \/ UNCHANGED rvars
  <2>1. /\ slot[s].pc # "idle"
        /\ Completed(Request(s)) \/ UNCHANGED rvars
    BY <1>5 DEF CompleteCall, Refused
  <2> QED
    BY <2>1, SlotHolds, RequestsSettle DEF ResultNext
<1>6. ASSUME NEW s \in Slots, FailCall(s) PROVE ResultNext \/ UNCHANGED rvars
  <2> DEFINE r == Request(s)
  <2>1. /\ slot[s].pc # "idle"
        /\ \/ \E max \in RetryLimits : FailTaskWithResult(r.task, r.lease, WorkerId, max, clock)
           \/ UNCHANGED rvars
    BY <1>6 DEF FailCall, Refused
  <2> HIDE DEF r
  <2>2. r \in HeldClaims
    BY <2>1, SlotHolds DEF r
  <2> QED
    BY <2>1, <2>2, RequestsSettle DEF ResultNext
<1>7. ASSUME NEW r \in late, LateComplete(r) PROVE ResultNext \/ UNCHANGED rvars
  <2>1. r \in HeldClaims /\ (Completed(r) \/ UNCHANGED rvars)
    BY <1>7 DEF LateComplete, Refused, HeldClaims
  <2> QED
    BY <2>1, RequestsSettle DEF ResultNext
<1>8. ASSUME ClaimDelivery PROVE ResultNext
  BY <1>1, <1>8 DEF ClaimDelivery, ResultNext, Delivering
<1>9. ASSUME Report PROVE ResultNext \/ UNCHANGED rvars
  <2>1. sender.task \in Tasks
    BY <1>9 DEF Report, SenderTrue, TrueFrames
  <2>2. PICK dw \in DeliveryWorkers :
          \/ AckResultDelivery(sender.task, dw, sender.expires, clock)
          \/ \E delay \in RetryDelays, permanent \in BOOLEAN :
                FailResultDelivery(sender.task, dw, sender.expires, clock, delay, permanent)
          \/ UNCHANGED rvars
    BY <1>9 DEF Report
  <2>3. \/ sender.expires = outbox[sender.task].expires_at
        \/ UNCHANGED rvars
    BY <2>2 DEF AckResultDelivery, FailResultDelivery, HoldsDelivery
  <2>4. sender.expires \in 0..MaxMs \/ UNCHANGED rvars
    BY <2>1, <2>3 DEF DeliveriesTimed
  <2> QED
    BY <1>1, <2>1, <2>2, <2>4 DEF ResultNext, Delivering
<1>10. ASSUME ExecutorLoops PROVE ResultNext
  <2>1. Scanning /\ UNCHANGED <<result, outbox>>
    BY <1>1, <1>10 DEF ExecutorLoops, Scanning
  <2> QED
    BY <2>1 DEF ResultNext, StoreStep
<1>11. ASSUME TimePasses PROVE ResultNext
  BY <1>11 DEF TimePasses, ResultNext, StoreStep
<1> QED
  <2>1. CASE Working
    <3>1. ASSUME NEW s \in Slots, HandlerEnds(s) \/ Abandon(s) PROVE UNCHANGED rvars
      BY <3>1 DEF HandlerEnds, Abandon
    <3> QED
      BY <2>1, <3>1, <1>3, <1>4, <1>5, <1>6, <1>7, <1>10, <1>11 DEF Working
  <2>2. CASE Travelling
    <3>1. \/ \E t \in Tasks : SubmitRemoteTask(t)
          \/ UNCHANGED rvars
      BY <2>2 DEF Travelling, SendTask, RefuseRemoteTask, TakeFrame, AckFrame, BreakStream,
                  StreamRestarts, IngestRemoteResultFrame, Ingest, RestartRelay
    <3> QED
      BY <1>2, <3>1
  <2>3. CASE Sending
    BY <1>8, <1>9, <2>3 DEF Sending, PublishResult, PublishFails, SenderCrashes
  <2>4. CASE Waiting
    BY <2>4 DEF Waiting, ReadTask, ReadResult, OriginLoops
  <2>5. CASE UNCHANGED tvars
    BY <2>5 DEF tvars
  <2> QED
    BY <2>1, <2>2, <2>3, <2>4, <2>5, TripCases
------------------------------------------------------------------------------
(* Workers and their claims.                                                 *)

\* A worker loop that goes on, gives up or rests makes no new claim.
LEMMA SlotMoves ==
  ASSUME slot \in [Slots -> SlotRecord], NEW s \in Slots, slot[s].pc # "idle",
         \/ \E pc \in {"failing", "parked"} : slot' = [slot EXCEPT ![s].pc = pc]
         \/ slot' = [slot EXCEPT ![s].beating = FALSE]
         \/ slot' = [slot EXCEPT ![s] = Resting]
         \/ slot' = slot,
         late' \subseteq HeldClaims
  PROVE  slot' \in [Slots -> SlotRecord] /\ HeldClaims' \subseteq HeldClaims
<1>1. slot[s] \in SlotRecord /\ Resting \in SlotRecord /\ Resting.pc = "idle"
  BY DEF SlotRecord, Resting
<1>2. \/ slot' = slot
      \/ slot' = [slot EXCEPT ![s] = Resting]
      \/ \E v \in SlotRecord :
           /\ slot' = [slot EXCEPT ![s] = v]
           /\ v.task = slot[s].task /\ v.lease = slot[s].lease /\ v.grant = slot[s].grant
  <2>1. ASSUME NEW pc \in {"failing", "parked"}, slot' = [slot EXCEPT ![s].pc = pc]
        PROVE  \E v \in SlotRecord :
                 /\ slot' = [slot EXCEPT ![s] = v]
                 /\ v.task = slot[s].task /\ v.lease = slot[s].lease /\ v.grant = slot[s].grant
    <3> DEFINE v == [slot[s] EXCEPT !.pc = pc]
    <3>1. /\ v \in SlotRecord
          /\ v.task = slot[s].task /\ v.lease = slot[s].lease /\ v.grant = slot[s].grant
      BY <1>1 DEF SlotRecord
    <3> QED
      BY <2>1, <3>1
  <2>2. ASSUME slot' = [slot EXCEPT ![s].beating = FALSE]
        PROVE  \E v \in SlotRecord :
                 /\ slot' = [slot EXCEPT ![s] = v]
                 /\ v.task = slot[s].task /\ v.lease = slot[s].lease /\ v.grant = slot[s].grant
    <3> DEFINE v == [slot[s] EXCEPT !.beating = FALSE]
    <3>1. /\ v \in SlotRecord
          /\ v.task = slot[s].task /\ v.lease = slot[s].lease /\ v.grant = slot[s].grant
      BY <1>1 DEF SlotRecord
    <3> QED
      BY <2>2, <3>1
  <2> QED
    BY <2>1, <2>2
<1>3. slot' \in [Slots -> SlotRecord]
  BY <1>1, <1>2
<1>4. \A x \in Slots : slot'[x].pc # "idle" =>
        /\ slot[x].pc # "idle"
        /\ slot'[x].task = slot[x].task /\ slot'[x].lease = slot[x].lease
        /\ slot'[x].grant = slot[x].grant
  BY <1>1, <1>2
<1>5. HeldClaims' \subseteq HeldClaims
  BY <1>4 DEF HeldClaims, Request
<1> QED
  BY <1>3, <1>5

\* A step in which nobody gets a claim.
NoClaim == /\ slot' \in [Slots -> SlotRecord]
           /\ HeldClaims' \subseteq HeldClaims
           /\ UNCHANGED grants
           /\ clock' \in clock..MaxTime
           /\ settledBy' \in [Tasks -> Nat]

\* A step that leaves the workers alone.
LEMMA IdleClaims ==
  ASSUME ClaimsTyped, UNCHANGED workVars, clock' \in clock..MaxTime
  PROVE  NoClaim
<1>1. HeldClaims' = HeldClaims
  BY DEF workVars, HeldClaims, Request
<1> QED
  BY <1>1 DEF workVars, NoClaim, ClaimsTyped

\* A request settles its task under its own claim, or nothing.
LEMMA RequestRecords ==
  ASSUME ClaimsTyped, NEW r \in HeldClaims,
         \/ settledBy' = settledBy
         \/ settledBy' = [settledBy EXCEPT ![r.task] = r.grant]
  PROVE  settledBy' \in [Tasks -> Nat]
<1>1. r.grant \in 1..grants[r.task] /\ r.task \in Tasks /\ grants \in [Tasks -> Nat]
  BY DEF ClaimsTyped
<1>2. r.grant \in Nat
  BY <1>1
<1> QED
  BY <1>2 DEF ClaimsTyped

\* Only ClaimNext hands out claims.
LEMMA OnlyClaims ==
  ASSUME ClaimsTyped, [TripNext]_tvars,
         ~\E s \in Slots, t \in Tasks : ClaimNext(s, t)
  PROVE  NoClaim
<1>1. /\ slot \in [Slots -> SlotRecord] /\ settledBy \in [Tasks -> Nat]
      /\ late \subseteq HeldClaims
  BY DEF ClaimsTyped, HeldClaims
<1>2. clock' = clock => clock' \in clock..MaxTime
  BY TimesAssumption DEF ClaimsTyped
<1>3. ASSUME NEW s \in Slots,
             Heartbeat(s) \/ HandlerEnds(s) \/ Abandon(s) \/ CompleteCall(s) \/ FailCall(s)
      PROVE  NoClaim
  <2>1. slot[s].pc # "idle" /\ UNCHANGED grants
    BY <1>3 DEF Heartbeat, HandlerEnds, Abandon, CompleteCall, FailCall
  <2>2. \/ \E pc \in {"failing", "parked"} : slot' = [slot EXCEPT ![s].pc = pc]
        \/ slot' = [slot EXCEPT ![s].beating = FALSE]
        \/ slot' = [slot EXCEPT ![s] = Resting]
        \/ slot' = slot
    BY <1>3 DEF Heartbeat, HandlerEnds, Abandon, CompleteCall, FailCall
  <2>3. late' = late \/ late' = late \cup {Request(s)}
    BY <1>3 DEF Heartbeat, HandlerEnds, Abandon, CompleteCall, FailCall
  <2>4. late' \subseteq HeldClaims
    BY <1>1, <2>1, <2>3, SlotHolds
  <2>5. clock' = clock
    BY <1>3 DEF Heartbeat, HandlerEnds, Abandon, CompleteCall, FailCall, Completed, Refused,
                RenewLease, CompleteTaskWithResult, CompleteTask, FailTaskWithResult, FailTask,
                FinishTaskInTx, RetryTaskInTx, DeadLetterTaskInTx, rvars, vars
  <2>6. \/ settledBy' = settledBy
        \/ settledBy' = [settledBy EXCEPT ![Request(s).task] = Request(s).grant]
    BY <1>3 DEF Heartbeat, HandlerEnds, Abandon, CompleteCall, FailCall, Completed, Refused
  <2>7. settledBy' \in [Tasks -> Nat]
    BY <2>1, <2>6, SlotHolds, RequestRecords
  <2> QED
    BY <1>1, <1>2, <2>1, <2>2, <2>4, <2>5, <2>7, SlotMoves DEF NoClaim
<1>4. ASSUME NEW r \in late, LateComplete(r) PROVE NoClaim
  <2>1. slot' = slot /\ grants' = grants /\ late' \subseteq late
    BY <1>4 DEF LateComplete
  <2>2. HeldClaims' \subseteq HeldClaims
    BY <2>1 DEF HeldClaims, Request
  <2>3. clock' = clock
    BY <1>4 DEF LateComplete, Completed, Refused, CompleteTaskWithResult, CompleteTask,
                FinishTaskInTx, rvars, vars
  <2>4. \/ settledBy' = settledBy
        \/ settledBy' = [settledBy EXCEPT ![r.task] = r.grant]
    BY <1>4 DEF LateComplete, Completed, Refused
  <2>5. settledBy' \in [Tasks -> Nat]
    BY <1>1, <2>4, RequestRecords
  <2> QED
    BY <1>1, <1>2, <2>1, <2>2, <2>3, <2>5 DEF NoClaim
<1>5. ASSUME TimePasses PROVE NoClaim
  <2>1. UNCHANGED workVars /\ clock < MaxTime /\ clock' = clock + 1
    BY <1>5 DEF TimePasses, Tick
  <2>2. clock' \in clock..MaxTime
    BY <2>1, TimesAssumption DEF ClaimsTyped
  <2> QED
    BY <2>1, <2>2, IdleClaims
<1>6. \/ \E s \in Slots : Heartbeat(s) \/ HandlerEnds(s) \/ Abandon(s) \/ CompleteCall(s)
                        \/ FailCall(s)
      \/ \E r \in late : LateComplete(r)
      \/ TimePasses
      \/ UNCHANGED workVars /\ clock' = clock
  <2>1. CASE Working
    <3>1. ASSUME ExecutorLoops PROVE UNCHANGED workVars /\ clock' = clock
      BY <3>1 DEF ExecutorLoops, RecoverStaleLeases, FailExpiredDeadlines
    <3> QED
      BY <2>1, <3>1 DEF Working
  <2>2. CASE Travelling
    <3>1. /\ UNCHANGED workVars
          /\ UNCHANGED rvars \/ \E t \in Tasks : InsertTask(t, NoKey, o_deadline[t], "inbound")
      BY <2>2 DEF Travelling, SendTask, SubmitRemoteTask, RefuseRemoteTask, TakeFrame, AckFrame,
                  BreakStream, StreamRestarts, IngestRemoteResultFrame, Ingest, RestartRelay
    <3> QED
      BY <3>1 DEF InsertTask, rvars, vars
  <2>3. CASE Sending
    BY <2>3 DEF Sending, ClaimDelivery, PublishResult, Report, PublishFails, SenderCrashes,
                ClaimNextResultDelivery, AckResultDelivery, FailResultDelivery, rvars, vars
  <2>4. CASE Waiting
    BY <2>4 DEF Waiting, ReadTask, ReadResult, OriginLoops, rvars, vars
  <2>5. CASE UNCHANGED tvars
    BY <2>5 DEF tvars, rvars, vars
  <2> QED
    BY <2>1, <2>2, <2>3, <2>4, <2>5, TripCases
<1> QED
  BY <1>2, <1>3, <1>4, <1>5, <1>6, IdleClaims

\* The clock never goes back, and the worker that settles a task is on record.
LEMMA ClaimsKept ==
  ASSUME ClaimsTyped, NoClaim
  PROVE  ClaimsTyped'
<1>1. \A p \in HeldClaims' : p \in HeldClaims
  BY DEF NoClaim
<1>2. clock \in 0..MaxTime /\ clock' \in 0..MaxTime /\ clock <= clock'
  BY TimesAssumption DEF ClaimsTyped, NoClaim
<1>3. \A p \in HeldClaims' : /\ p.task \in Tasks /\ p.lease \in 0..clock'
                             /\ p.grant \in 1..grants'[p.task]
  BY <1>1, <1>2 DEF ClaimsTyped, NoClaim
<1> QED
  BY <1>2, <1>3 DEF ClaimsTyped, NoClaim
------------------------------------------------------------------------------
(* Leases and the milliseconds in their names.                               *)

\* A step that claims nothing leaves a lease the name it has, and without
\* counting a failure it returns a task to the queue only after the millisecond
\* in which it was claimed.
Calm(t) ==
    /\ retry_count'[t] \in Nat /\ retry_count[t] <= retry_count'[t]
    /\ status'[t] = "absent" => status[t] = "absent"
    /\ lease'[t].active => /\ lease[t].active
                           /\ lease'[t].leased_at = lease[t].leased_at
                           /\ lease'[t].leased_at < lease'[t].expires_at
    /\ status'[t] = "pending" /\ retry_count'[t] = 0 =>
         \/ status[t] \in {"absent", "pending"}
         \/ lease[t].active /\ lease[t].leased_at < clock

\* A task nothing happens to stays as it is.
LEMMA Unmoved ==
  ASSUME TypeOK, NEW t \in Tasks, TaskFenced(t), status'[t] = status[t],
         retry_count'[t] = retry_count[t], lease'[t] = lease[t]
  PROVE  Calm(t)
<1>1. retry_count[t] \in Nat
  BY DEF TypeOK
<1> QED
  BY <1>1 DEF Calm, TaskFenced

\* Accepting a task.
LEMMA InsertCalm ==
  ASSUME TypeOK, NEW u \in Tasks, NEW k, NEW d, NEW r, InsertTask(u, k, d, r),
         NEW t \in Tasks, TaskFenced(t)
  PROVE  Calm(t)
<1>1. /\ status[u] = "absent" /\ status' = [status EXCEPT ![u] = "pending"]
      /\ retry_count' = retry_count /\ lease' = lease
  BY DEF InsertTask, counters
<1>2. retry_count[t] \in Nat
  BY DEF TypeOK
<1>3. CASE t = u
  <2>1. status'[t] = "pending" /\ status[t] = "absent"
    BY <1>1, <1>3 DEF TypeOK
  <2> QED
    BY <1>1, <1>2, <2>1 DEF Calm, TaskFenced
<1>4. CASE t # u
  <2>1. status'[t] = status[t]
    BY <1>1, <1>4 DEF TypeOK
  <2> QED
    BY <1>1, <2>1, Unmoved
<1> QED
  BY <1>3, <1>4

\* A renewal keeps the name of the lease and ends it later.
LEMMA RenewCalm ==
  ASSUME TypeOK, NEW u \in Tasks, NEW id, NEW w, NEW dur \in Durations,
         RenewLease(u, id, w, clock, dur), NEW t \in Tasks, TaskFenced(t)
  PROVE  Calm(t)
<1> DEFINE until == SaturatingAdd(clock, dur)
<1>1. /\ status' = status /\ retry_count' = retry_count
      /\ lease[u].active /\ until > lease[u].expires_at
      /\ lease' = [lease EXCEPT ![u].expires_at = until]
  BY DEF RenewLease, counters, PresentsLease, ValidLeaseExpiry
<1>2. until \in Nat
  BY TimesAssumption DEF TypeOK, SaturatingAdd
<1> HIDE DEF until
<1>3. CASE t = u
  <2>1. lease[t] \in LeaseRecord
    BY DEF TypeOK
  <2>2. lease'[t].leased_at = lease[t].leased_at /\ lease'[t].expires_at = until
    BY <1>1, <1>3, <2>1 DEF TypeOK, LeaseRecord
  <2>3. lease[t].leased_at \in Nat /\ lease[t].expires_at \in Nat /\ retry_count[t] \in Nat
    BY <2>1 DEF LeaseRecord, TypeOK
  <2>4. lease[t].leased_at < until
    BY <1>1, <1>2, <1>3, <2>3 DEF TaskFenced
  <2> QED
    BY <1>1, <1>3, <2>2, <2>3, <2>4 DEF Calm, TaskFenced
<1>4. CASE t # u
  BY <1>1, <1>4, Unmoved DEF TypeOK
<1> QED
  BY <1>3, <1>4

\* A settled task, or one that is retried, has no lease; a retry counts.
LEMMA SettleCalm ==
  ASSUME TypeOK, NEW u \in Tasks, NEW id, NEW w,
         CompleteTask(u, id, w) \/ \E max \in RetryLimits : FailTask(u, id, w, max),
         NEW t \in Tasks, TaskFenced(t)
  PROVE  Calm(t)
<1> DEFINE n == retry_count[u]
<1>1. \E rc, to :
        /\ status' = [status EXCEPT ![u] = to]
        /\ retry_count' = [retry_count EXCEPT ![u] = rc]
        /\ lease' = [lease EXCEPT ![u] = NoLease]
        /\ \/ to \in {"completed", "failed"} /\ rc \in {n, n + 1}
           \/ to = "pending" /\ rc = n + 1
  BY DEF CompleteTask, FailTask, FinishTaskInTx, RetryTaskInTx, DeadLetterTaskInTx, Deactivate,
         Record
<1>2. n \in Nat /\ ~NoLease.active
  BY DEF TypeOK, NoLease
<1>3. CASE t = u
  <2>1. ~lease'[t].active
    BY <1>1, <1>2, <1>3 DEF TypeOK
  <2>2. /\ retry_count'[t] \in {n, n + 1} /\ status'[t] # "absent"
        /\ status'[t] = "pending" => retry_count'[t] = n + 1
    BY <1>1, <1>3 DEF TypeOK
  <2> HIDE DEF n
  <2>3. retry_count'[t] \in Nat /\ n <= retry_count'[t] /\ n + 1 # 0
    BY <1>2, <2>2
  <2>4. status'[t] = "pending" => retry_count'[t] # 0
    BY <2>2, <2>3
  <2> QED
    BY <1>3, <2>1, <2>2, <2>3, <2>4 DEF Calm, n
<1>4. CASE t # u
  BY <1>1, <1>4, Unmoved DEF TypeOK
<1> QED
  BY <1>3, <1>4

\* recover_stale_leases returns a task whose lease has expired, and a lease
\* lasts at least a millisecond; fail_expired_deadlines returns none.
LEMMA ScanCalm ==
  ASSUME TypeOK, ActiveLeaseOwnsTask, NEW l,
         RecoverStaleLeases(clock, l) \/ FailExpiredDeadlines(clock, l),
         NEW t \in Tasks, TaskFenced(t)
  PROVE  Calm(t)
<1>0. retry_count' = retry_count /\ retry_count[t] \in Nat /\ ~NoLease.active
  BY DEF RecoverStaleLeases, FailExpiredDeadlines, counters, TypeOK, NoLease
<1>1. CASE RecoverStaleLeases(clock, l)
  <2> DEFINE batch == OldestFirst(StaleLeases(clock), [v \in Tasks |-> lease[v].expires_at], l)
  <2>1. /\ status'[t] = IF t \in batch THEN Recovered(status[t]) ELSE status[t]
        /\ lease'[t] = IF t \in batch THEN NoLease ELSE lease[t]
    BY <1>1 DEF RecoverStaleLeases
  <2>2. batch \subseteq StaleLeases(clock)
    BY DEF OldestFirst
  <2> HIDE DEF batch
  <2>3. CASE t \in batch
    <3>1. lease[t].active /\ lease[t].expires_at <= clock
      BY <2>2, <2>3 DEF StaleLeases
    <3>2. lease[t].leased_at \in Nat /\ lease[t].expires_at \in Nat /\ clock \in Nat
      BY DEF TypeOK, LeaseRecord
    <3>3. lease[t].leased_at < clock
      BY <3>1, <3>2 DEF TaskFenced
    <3>4. status'[t] # "absent" \/ status[t] = "absent"
      BY <2>1, <2>3 DEF Recovered
    <3> QED
      BY <1>0, <2>1, <2>3, <3>1, <3>3, <3>4 DEF Calm
  <2>4. CASE t \notin batch
    BY <1>0, <2>1, <2>4, Unmoved
  <2> QED
    BY <2>3, <2>4
<1>2. CASE FailExpiredDeadlines(clock, l)
  <2>1. \/ status'[t] = "failed" /\ lease'[t] = NoLease
        \/ status'[t] = status[t] /\ lease'[t] = lease[t]
    BY <1>2 DEF FailExpiredDeadlines
  <2>2. CASE status'[t] = "failed" /\ lease'[t] = NoLease
    <3>1. ~lease'[t].active
      BY <1>0, <2>2
    <3>2. retry_count'[t] = retry_count[t]
      BY <1>0
    <3> QED
      BY <1>0, <2>2, <3>1, <3>2 DEF Calm
  <2>3. CASE status'[t] = status[t] /\ lease'[t] = lease[t]
    BY <1>0, <2>3, Unmoved
  <2> QED
    BY <2>1, <2>2, <2>3
<1> QED
  BY <1>1, <1>2
------------------------------------------------------------------------------
(* StaleWorkerFenced.                                                        *)

\* The task was settled by a worker that presented its lease, or not settled.
Settles(t) ==
    \/ settledBy'[t] = settledBy[t]
    \/ \E p \in HeldClaims : /\ p.task = t /\ PresentsLease(t, p.lease, WorkerId)
                             /\ settledBy'[t] = p.grant /\ result'[t] # "none"

\* What every step but a claim does to leases and settlements.
Claimless == \A t \in Tasks : Calm(t) /\ Settles(t)

\* A request that reaches the store: CompleteTask or FailTask.
LEMMA RequestSettles ==
  ASSUME TypeOK, ClaimsTyped, RowsTyped, NEW r \in HeldClaims,
         \/ Completed(r) \/ Refused(r) \/ UNCHANGED <<rvars, settledBy>>
         \/ /\ \E max \in RetryLimits : FailTaskWithResult(r.task, r.lease, WorkerId, max, clock)
            /\ settledBy' = IF result'[r.task] = "none" THEN settledBy
                            ELSE [settledBy EXCEPT ![r.task] = r.grant],
         \A t \in Tasks : TaskFenced(t)
  PROVE  Claimless
<1>1. r.task \in Tasks /\ settledBy \in [Tasks -> Nat]
  BY DEF ClaimsTyped
<1>2. CASE UNCHANGED <<rvars, settledBy>>
  <2>1. /\ status' = status /\ retry_count' = retry_count /\ lease' = lease
        /\ settledBy' = settledBy
    BY <1>2 DEF rvars, vars
  <2> QED
    BY <2>1, Unmoved DEF Settles, Claimless
<1>3. CASE Completed(r)
  <2>1. CompleteTask(r.task, r.lease, WorkerId) /\ PresentsLease(r.task, r.lease, WorkerId)
    BY <1>3 DEF Completed, CompleteTaskWithResult, CompleteTask, FinishTaskInTx
  <2>2. settledBy' = [settledBy EXCEPT ![r.task] = r.grant] /\ result'[r.task] = "completed"
    BY <1>1, <1>3 DEF Completed, CompleteTaskWithResult, InsertResultAndOutbox, RowsTyped
  <2>3. \A t \in Tasks : Calm(t)
    BY <1>1, <2>1, SettleCalm
  <2>4. \A t \in Tasks : Settles(t)
    BY <1>1, <2>1, <2>2 DEF Settles
  <2> QED
    BY <2>3, <2>4 DEF Claimless
<1>4. CASE /\ \E max \in RetryLimits : FailTaskWithResult(r.task, r.lease, WorkerId, max, clock)
           /\ settledBy' = IF result'[r.task] = "none" THEN settledBy
                           ELSE [settledBy EXCEPT ![r.task] = r.grant]
  <2>1. PICK max \in RetryLimits : FailTask(r.task, r.lease, WorkerId, max)
    BY <1>4 DEF FailTaskWithResult
  <2>2. PresentsLease(r.task, r.lease, WorkerId)
    BY <2>1 DEF FailTask
  <2>3. \A t \in Tasks : Calm(t)
    BY <1>1, <2>1, SettleCalm
  <2>4. \A t \in Tasks : Settles(t)
    BY <1>1, <1>4, <2>2 DEF Settles
  <2> QED
    BY <2>3, <2>4 DEF Claimless
<1> QED
  BY <1>2, <1>3, <1>4 DEF Refused

\* Every step but a claim.
LEMMA OtherSteps ==
  ASSUME StoreInv, ClaimsTyped, Fenced, [TripNext]_tvars,
         ~\E s \in Slots, t \in Tasks : ClaimNext(s, t)
  PROVE  Claimless
<1>1. /\ TypeOK /\ RowsTyped /\ ActiveLeaseOwnsTask
      /\ \A t \in Tasks : TaskFenced(t)
  BY DEF StoreInv, OutboxInv, Fenced
<1>2. ASSUME UNCHANGED <<status, retry_count, lease, settledBy>> PROVE Claimless
  <2>1. /\ status' = status /\ retry_count' = retry_count /\ lease' = lease
        /\ settledBy' = settledBy
    BY <1>2
  <2> QED
    BY <1>1, <2>1, Unmoved DEF Claimless, Settles
<1>3. ASSUME settledBy' = settledBy, \A t \in Tasks : Calm(t) PROVE Claimless
  BY <1>3 DEF Claimless, Settles
<1>4. CASE Working
  <2>1. ASSUME NEW s \in Slots, Heartbeat(s) PROVE Claimless
    <3>1. /\ slot[s].pc # "idle" /\ settledBy' = settledBy
          /\ \/ \E dur \in Durations : RenewLease(slot[s].task, slot[s].lease, WorkerId, clock, dur)
             \/ UNCHANGED vars
      BY <2>1 DEF Heartbeat
    <3>2. slot[s].task \in Tasks
      BY <3>1, SlotHolds, RequestHeld DEF Request
    <3>3. CASE UNCHANGED vars
      BY <1>2, <3>1, <3>3 DEF vars
    <3> QED
      BY <1>1, <1>3, <3>1, <3>2, <3>3, RenewCalm
  <2>2. ASSUME NEW s \in Slots, HandlerEnds(s) \/ Abandon(s) \/ CompleteCall(s) \/ FailCall(s)
        PROVE  Claimless
    <3> DEFINE r == Request(s)
    <3>1. slot[s].pc # "idle"
      BY <2>2 DEF HandlerEnds, Abandon, CompleteCall, FailCall
    <3>2. r \in HeldClaims
      BY <3>1, SlotHolds
    <3>3. \/ Completed(r) \/ Refused(r) \/ UNCHANGED <<rvars, settledBy>>
          \/ /\ \E max \in RetryLimits : FailTaskWithResult(r.task, r.lease, WorkerId, max, clock)
             /\ settledBy' = IF result'[r.task] = "none" THEN settledBy
                             ELSE [settledBy EXCEPT ![r.task] = r.grant]
      BY <2>2 DEF HandlerEnds, Abandon, CompleteCall, FailCall
    <3> HIDE DEF r
    <3> QED
      BY <1>1, <3>2, <3>3, RequestSettles
  <2>3. ASSUME NEW r \in late, LateComplete(r) PROVE Claimless
    <3>1. r \in HeldClaims /\ (Completed(r) \/ Refused(r))
      BY <2>3 DEF LateComplete, HeldClaims
    <3> QED
      BY <1>1, <3>1, RequestSettles
  <2>4. ASSUME ExecutorLoops PROVE Claimless
    <3>1. settledBy' = settledBy
      BY <2>4 DEF ExecutorLoops, workVars
    <3> QED
      BY <1>1, <1>3, <2>4, <3>1, ScanCalm DEF ExecutorLoops
  <2>5. ASSUME TimePasses PROVE Claimless
    BY <1>2, <2>5 DEF TimePasses, Tick, counters, workVars
  <2> QED
    BY <1>4, <2>1, <2>2, <2>3, <2>4, <2>5 DEF Working
<1>5. CASE Travelling
  <2>1. /\ UNCHANGED workVars
        /\ UNCHANGED rvars \/ \E t \in Tasks : InsertTask(t, NoKey, o_deadline[t], "inbound")
    BY <1>5 DEF Travelling, SendTask, SubmitRemoteTask, RefuseRemoteTask, TakeFrame, AckFrame,
                BreakStream, StreamRestarts, IngestRemoteResultFrame, Ingest, RestartRelay
  <2>2. settledBy' = settledBy
    BY <2>1 DEF workVars
  <2>3. CASE UNCHANGED rvars
    BY <1>2, <2>2, <2>3 DEF rvars, vars
  <2> QED
    BY <1>1, <1>3, <2>1, <2>2, <2>3, InsertCalm
<1>6. CASE Sending \/ Waiting \/ UNCHANGED tvars
  <2>1. UNCHANGED vars /\ UNCHANGED workVars
    BY <1>6 DEF Sending, ClaimDelivery, PublishResult, Report, PublishFails, SenderCrashes,
                ClaimNextResultDelivery, AckResultDelivery, FailResultDelivery, rvars,
                Waiting, ReadTask, ReadResult, OriginLoops, tvars
  <2> QED
    BY <1>2, <2>1 DEF vars, workVars
<1> QED
  BY <1>4, <1>5, <1>6, TripCases

\* Claims stay fenced when nobody claims.
LEMMA ClaimlessStep ==
  ASSUME TypeOK, ClaimsTyped, Fenced, NoClaim, Claimless,
         \A t \in Tasks : result[t] # "none" => result'[t] # "none"
  PROVE  Fenced'
<1>2. ASSUME NEW t \in Tasks
      PROVE  /\ retry_count[t] \in Nat /\ retry_count'[t] \in Nat
             /\ retry_count'[t] = 0 => retry_count[t] = 0
             /\ retry_count[t] > 0 => retry_count'[t] > 0
  <2>1. retry_count[t] \in Nat /\ retry_count'[t] \in Nat /\ retry_count[t] <= retry_count'[t]
    BY DEF TypeOK, Claimless, Calm
  <2> QED
    BY <2>1
<1>3. clock \in Nat /\ clock' \in Nat /\ clock <= clock'
  BY TimesAssumption DEF ClaimsTyped, NoClaim
<1>4. ASSUME NEW p \in HeldClaims' PROVE ClaimFenced(p)'
  <2>1. p \in HeldClaims /\ p.task \in Tasks /\ grants' = grants
    BY DEF NoClaim, ClaimsTyped
  <2>2. /\ ClaimFenced(p) /\ TaskFenced(p.task) /\ Calm(p.task)
        /\ p.lease \in Nat /\ p.grant \in 1..grants[p.task] /\ grants[p.task] \in Nat
    BY <1>3, <2>1 DEF Fenced, Claimless, ClaimsTyped
  <2>3. lease[p.task].leased_at \in Nat
    BY <2>1 DEF TypeOK, LeaseRecord
  <2>4. ASSUME retry_count'[p.task] = 0, status'[p.task] = "pending" PROVE p.lease < clock'
    <3>1. retry_count[p.task] = 0
      BY <1>2, <2>1, <2>4
    <3>2. CASE status[p.task] = "absent"
      <4>1. grants[p.task] = 0
        BY <2>2, <3>2 DEF TaskFenced
      <4> QED
        BY <2>2, <4>1
    <3>3. CASE status[p.task] = "pending"
      <4>1. p.lease < clock
        BY <2>2, <3>1, <3>3 DEF ClaimFenced
      <4> QED
        BY <1>3, <2>2, <4>1
    <3>4. CASE lease[p.task].active /\ lease[p.task].leased_at < clock
      <4>1. p.lease <= lease[p.task].leased_at
        BY <2>2, <3>1, <3>4 DEF ClaimFenced
      <4> QED
        BY <1>3, <2>2, <2>3, <3>4, <4>1
    <3> QED
      BY <2>2, <2>4, <3>2, <3>3, <3>4 DEF Calm
  <2>5. ASSUME retry_count'[p.task] = 0, lease'[p.task].active
        PROVE  /\ p.lease <= lease'[p.task].leased_at
               /\ p.lease = lease'[p.task].leased_at => p.grant = grants[p.task]
    <3>1. lease[p.task].active /\ lease'[p.task].leased_at = lease[p.task].leased_at
      BY <2>2, <2>5 DEF Calm
    <3>2. retry_count[p.task] = 0
      BY <1>2, <2>1, <2>5
    <3> QED
      BY <2>2, <3>1, <3>2 DEF ClaimFenced
  <2> QED
    BY <2>1, <2>4, <2>5 DEF ClaimFenced
<1>5. ASSUME NEW t \in Tasks PROVE TaskFenced(t)'
  <2>1. TaskFenced(t) /\ Calm(t) /\ Settles(t) /\ grants' = grants
    BY DEF Fenced, Claimless, NoClaim
  <2>2. ASSUME settledBy'[t] # 0
        PROVE  result'[t] # "none" /\ (settledBy'[t] = grants[t] \/ retry_count'[t] > 0)
    <3>1. CASE settledBy'[t] = settledBy[t]
      BY <1>2, <2>1, <2>2, <3>1 DEF TaskFenced
    <3>2. CASE settledBy'[t] # settledBy[t]
      <4>1. PICK p \in HeldClaims :
              /\ p.task = t /\ PresentsLease(t, p.lease, WorkerId)
              /\ settledBy'[t] = p.grant /\ result'[t] # "none"
        BY <2>1, <3>2 DEF Settles
      <4>2. retry_count[t] = 0 => p.grant = grants[t]
        BY <4>1 DEF Fenced, ClaimFenced, PresentsLease
      <4>3. retry_count[t] # 0 => retry_count[t] > 0
        BY <1>2
      <4> QED
        BY <1>2, <4>1, <4>2, <4>3
    <3> QED
      BY <3>1, <3>2
  <2> QED
    BY <2>1, <2>2 DEF TaskFenced, Calm
<1> QED
  BY <1>4, <1>5 DEF Fenced

\* The claims after ClaimNext: the old ones, and the one it hands out.
LEMMA ClaimAdds ==
  ASSUME ClaimsTyped, NEW s \in Slots, NEW t \in Tasks, ClaimNext(s, t)
  PROVE  /\ slot' \in [Slots -> SlotRecord]
         /\ HeldClaims' \subseteq
              HeldClaims \cup {[task |-> t, lease |-> clock, grant |-> grants[t] + 1]}
<1> DEFINE v == [pc |-> "handling", task |-> t, lease |-> clock,
                 grant |-> grants[t] + 1, beating |-> TRUE]
<1>1. /\ slot' = slot \/ slot' = [slot EXCEPT ![s] = v]
      /\ late' = late
  BY DEF ClaimNext
<1>2. /\ v \in SlotRecord /\ v.task = t /\ v.lease = clock /\ v.grant = grants[t] + 1
      /\ slot \in [Slots -> SlotRecord]
  BY TasksAssumption, TimesAssumption DEF ClaimsTyped, SlotRecord
<1> HIDE DEF v
<1>3. ASSUME NEW x \in Slots, slot'[x].pc # "idle"
      PROVE  Request(x)' \in HeldClaims \cup {[task |-> t, lease |-> clock, grant |-> grants[t] + 1]}
  <2>1. CASE slot'[x] = slot[x]
    BY <1>3, <2>1, SlotHolds DEF Request
  <2>2. CASE slot'[x] = v
    BY <1>2, <2>2 DEF Request
  <2> QED
    BY <1>1, <1>2, <2>1, <2>2
<1> QED
  BY <1>1, <1>2, <1>3 DEF HeldClaims

\* A claim is for a known task, numbered and dated.
LEMMA ClaimTyped ==
  ASSUME ClaimsTyped, NEW s \in Slots, NEW t \in Tasks, ClaimNext(s, t)
  PROVE  ClaimsTyped'
<1> DEFINE new == [task |-> t, lease |-> clock, grant |-> grants[t] + 1]
<1>1. /\ clock' = clock /\ settledBy' = settledBy
      /\ grants' = [grants EXCEPT ![t] = @ + 1]
  BY DEF ClaimNext, LeaseTask
<1>2. slot' \in [Slots -> SlotRecord] /\ HeldClaims' \subseteq HeldClaims \cup {new}
  BY ClaimAdds
<1>3. /\ new.task = t /\ new.lease = clock /\ new.grant = grants[t] + 1
      /\ grants \in [Tasks -> Nat] /\ settledBy \in [Tasks -> Nat] /\ clock \in 0..MaxTime
  BY DEF ClaimsTyped
<1> HIDE DEF new
<1>4. grants' \in [Tasks -> Nat] /\ \A u \in Tasks : grants[u] <= grants'[u]
  BY <1>1, <1>3
<1>5. ASSUME NEW p \in HeldClaims'
      PROVE  p.task \in Tasks /\ p.lease \in 0..clock' /\ p.grant \in 1..grants'[p.task]
  <2>1. CASE p = new
    BY <1>1, <1>3, <2>1, TimesAssumption
  <2>2. CASE p \in HeldClaims
    <3>1. p.task \in Tasks /\ p.lease \in 0..clock /\ p.grant \in 1..grants[p.task]
      BY <2>2 DEF ClaimsTyped
    <3>2. grants[p.task] \in Nat /\ grants'[p.task] \in Nat /\ grants[p.task] <= grants'[p.task]
      BY <1>3, <1>4, <3>1
    <3> QED
      BY <1>1, <3>1, <3>2
  <2> QED
    BY <1>2, <2>1, <2>2
<1> QED
  BY <1>1, <1>2, <1>3, <1>4, <1>5 DEF ClaimsTyped

\* A claim is newer than every claim before it: the task waited, so no failure
\* but a counted one returned it within this millisecond.
LEMMA ClaimFences ==
  ASSUME MaxTime < MaxMs, TypeOK, SettledOnly, ClaimsTyped, Fenced,
         NEW s \in Slots, NEW t \in Tasks, ClaimNext(s, t)
  PROVE  Fenced'
<1> DEFINE new == [task |-> t, lease |-> clock, grant |-> grants[t] + 1]
<1>1. PICK dur \in Durations : LeaseTask(t, WorkerId, clock, dur)
  BY DEF ClaimNext
<1> DEFINE until == SaturatingAdd(clock, dur)
           l == [active |-> TRUE, worker |-> WorkerId, leased_at |-> clock, expires_at |-> until]
<1>2. /\ clock' = clock /\ retry_count' = retry_count /\ result' = result
      /\ settledBy' = settledBy
      /\ lease' = [lease EXCEPT ![t] = l]
      /\ status' = [status EXCEPT ![t] = "running"]
      /\ status[t] \in Live /\ status[t] # "running" /\ ~lease[t].active
      /\ grants' = [grants EXCEPT ![t] = @ + 1]
  BY <1>1 DEF ClaimNext, LeaseTask, Record, counters, LegalTransition, Leasable, Live
<1>3. clock \in 0..MaxTime /\ until \in Nat /\ clock < until /\ MaxTime \in Nat
  BY TimesAssumption DEF ClaimsTyped, SaturatingAdd
<1>4. l.active /\ l.leased_at = clock /\ l.expires_at = until
  OBVIOUS
<1> HIDE DEF l, until
<1>5. HeldClaims' \subseteq HeldClaims \cup {new}
  BY ClaimAdds
<1>6. /\ new.task = t /\ new.lease = clock /\ new.grant = grants[t] + 1
      /\ grants \in [Tasks -> Nat] /\ settledBy \in [Tasks -> Nat]
  BY DEF ClaimsTyped
<1> HIDE DEF new
<1>7. ASSUME NEW p \in HeldClaims' PROVE ClaimFenced(p)'
  <2>1. CASE p = new
    BY <1>2, <1>3, <1>4, <1>6, <2>1 DEF TypeOK, ClaimFenced
  <2>2. CASE p \in HeldClaims /\ p.task # t
    <3>1. p.task \in Tasks /\ ClaimFenced(p)
      BY <2>2 DEF ClaimsTyped, Fenced
    <3> QED
      BY <1>2, <1>6, <2>2, <3>1 DEF TypeOK, ClaimFenced
  <2>3. CASE p \in HeldClaims /\ p.task = t
    <3>1. ClaimFenced(p) /\ p.lease \in Nat
      BY <1>3, <2>3 DEF ClaimsTyped, Fenced
    <3>2. status[t] = "pending"
      BY <1>2 DEF Live
    <3>3. retry_count[t] = 0 => p.lease < clock
      BY <2>3, <3>1, <3>2 DEF ClaimFenced
    <3>4. lease'[t].leased_at = clock /\ status'[t] = "running"
      BY <1>2, <1>4 DEF TypeOK
    <3>5. retry_count'[t] = 0 => /\ p.lease < clock /\ p.lease <= lease'[t].leased_at
                                 /\ p.lease # lease'[t].leased_at
      BY <1>2, <1>3, <3>1, <3>3, <3>4
    <3> QED
      BY <2>3, <3>4, <3>5 DEF ClaimFenced
  <2> QED
    BY <1>5, <2>1, <2>2, <2>3
<1>8. ASSUME NEW u \in Tasks PROVE TaskFenced(u)'
  <2>1. TaskFenced(u)
    BY DEF Fenced
  <2>2. CASE u = t
    <3>1. result[t] = "none"
      BY <1>2 DEF SettledOnly, Live, Terminal
    <3>2. settledBy'[t] = 0
      BY <1>2, <2>1, <2>2, <3>1 DEF TaskFenced
    <3>3. lease'[t] = l /\ status'[t] = "running"
      BY <1>2 DEF TypeOK
    <3> QED
      BY <1>3, <1>4, <2>2, <3>2, <3>3 DEF TaskFenced
  <2>3. CASE u # t
    BY <1>2, <1>6, <2>1, <2>3 DEF TypeOK, TaskFenced
  <2> QED
    BY <2>2, <2>3
<1> QED
  BY <1>7, <1>8 DEF Fenced
------------------------------------------------------------------------------
(* Frames, the delivery loop and the origin.                                 *)

\* A result once stored is never replaced.
ResultsStay == /\ \A t \in Tasks : result[t] # "none" => result'[t] = result[t]
               /\ result' \in [Tasks -> Outcomes \cup {"none"}]

\* A true frame stays true.
LEMMA FramesStayTrue ==
  ASSUME ResultsStay
  PROVE  TrueFrames \subseteq TrueFrames'
BY DEF ResultsStay, TrueFrames

\* A stream of frames of one sort is one of any wider sort.
LEMMA SeqWidens ==
  ASSUME NEW A, NEW B, A \subseteq B, NEW s \in Seq(A)
  PROVE  s \in Seq(B)
<1>1. \A i \in 1..Len(s) : s[i] \in B
  OBVIOUS
<1> QED
  BY <1>1

\* What a step may do to a task at the origin: a settled task stays as it is, and
\* a result that appears there is the executor's and settles the task.
OriginMoves(t) ==
    /\ o_status[t] \in Terminal => o_status'[t] \in Terminal /\ o_result'[t] = o_result[t]
    /\ o_result'[t] # o_result[t] => /\ o_result'[t] = result[t] /\ o_result'[t] # "none"
                                     /\ o_status'[t] \in Terminal

OriginStep == OriginTyped' /\ \A t \in Tasks : OriginMoves(t)

\* The origin's daemon.
LEMMA OriginSteps ==
  ASSUME FlowInv, [TripNext]_tvars
  PROVE  OriginStep
<1>0. OriginTyped /\ StreamsTrue
  BY DEF FlowInv
<1>1. ASSUME UNCHANGED originVars PROVE OriginStep
  BY <1>0, <1>1 DEF originVars, OriginStep, OriginTyped, OriginMoves
<1>2. ASSUME NEW t \in Tasks, SendTask(t) PROVE OriginStep
  <2>1. CASE UNCHANGED originVars
    BY <1>1, <2>1
  <2>2. CASE \E d \in Deadlines \cup {NoDeadline} : Origin!InsertTask(t, NoKey, d, "outbound")
    <3>1. PICK d \in Deadlines \cup {NoDeadline} :
            /\ o_status[t] = "absent"
            /\ o_status' = [o_status EXCEPT ![t] = "pending"]
            /\ o_deadline' = [o_deadline EXCEPT ![t] = d]
      BY <2>2 DEF Origin!InsertTask
    <3>2. o_result' = o_result
      BY <1>2 DEF SendTask
    <3>3. "pending" \in Statuses /\ "absent" \notin Terminal
      BY DEF Statuses, Terminal, Live
    <3> QED
      BY <1>0, <3>1, <3>2, <3>3 DEF OriginStep, OriginTyped, OriginMoves
  <2> QED
    BY <1>2, <2>1, <2>2 DEF SendTask
<1>3. ASSUME IngestRemoteResultFrame PROVE OriginStep
  <2> DEFINE f == hand["origin"]
  <2>1. f \in TrueFrames
    BY <1>0, <1>3 DEF StreamsTrue, IngestRemoteResultFrame, HandlingFrame
  <2>2. f.task \in Tasks /\ f.outcome \in Outcomes /\ f.outcome = result[f.task]
    BY <2>1 DEF TrueFrames, FrameRecord
  <2>3. Ingest(f)
    BY <1>3 DEF IngestRemoteResultFrame
  <2> HIDE DEF f
  <2>4. CASE UNCHANGED originVars
    BY <1>1, <2>4
  <2>5. CASE Origin!IngestRemoteResult(f.task, f.outcome)
    <3>1. /\ o_result[f.task] = "none" /\ o_status[f.task] \in Live
          /\ o_status' = [o_status EXCEPT ![f.task] = StatusOf(f.outcome)]
          /\ o_result' = [o_result EXCEPT ![f.task] = f.outcome]
          /\ o_deadline' = o_deadline
      BY <2>5 DEF Origin!IngestRemoteResult, Origin!ApplyRemoteResult, Origin!StatusOf, StatusOf,
                  Origin!fixed, Origin!Live, Live
    <3>2. /\ StatusOf(f.outcome) \in Statuses \cap Terminal /\ f.outcome # "none"
          /\ Live \cap Terminal = {}
      BY <2>2 DEF StatusOf, Statuses, Terminal, Live, Outcomes
    <3> QED
      BY <1>0, <2>2, <3>1, <3>2 DEF OriginStep, OriginTyped, OriginMoves
  <2> QED
    BY <2>3, <2>4, <2>5 DEF Ingest
<1>4. ASSUME OriginLoops PROVE OriginStep
  <2>1. /\ \A t \in Tasks : o_status'[t] \in {"failed", o_status[t]}
        /\ DOMAIN o_status' = Tasks
        /\ o_status' = [t \in Tasks |-> o_status'[t]]
        /\ o_deadline' = o_deadline /\ o_result' = o_result
    BY <1>4 DEF OriginLoops, Origin!FailExpiredDeadlines, Origin!fixed
  <2>2. "failed" \in Statuses \cap Terminal
    BY DEF Statuses, Terminal, Live
  <2> QED
    BY <1>0, <2>1, <2>2 DEF OriginStep, OriginTyped, OriginMoves
<1>5. CASE Working
  <2>1. UNCHANGED others
    BY <1>5 DEF Working, ClaimNext, Heartbeat, HandlerEnds, Abandon, CompleteCall, FailCall,
                LateComplete, ExecutorLoops, TimePasses
  <2> QED
    BY <1>1, <2>1 DEF others
<1>6. CASE Travelling
  <2>1. \/ \E t \in Tasks : SendTask(t)
        \/ IngestRemoteResultFrame
        \/ UNCHANGED originVars
    BY <1>6 DEF Travelling, SubmitRemoteTask, RefuseRemoteTask, TakeFrame, AckFrame, BreakStream,
                StreamRestarts, RestartRelay
  <2> QED
    BY <1>1, <1>2, <1>3, <2>1
<1>7. CASE Sending
  <2>1. UNCHANGED originVars
    BY <1>7 DEF Sending, ClaimDelivery, PublishResult, Report, PublishFails, SenderCrashes
  <2> QED
    BY <1>1, <2>1
<1>8. CASE Waiting
  <2>1. OriginLoops \/ UNCHANGED originVars
    BY <1>8 DEF Waiting, ReadTask, ReadResult
  <2> QED
    BY <1>1, <1>4, <2>1
<1>9. CASE UNCHANGED tvars
  BY <1>1, <1>9 DEF tvars
<1> QED
  BY <1>5, <1>6, <1>7, <1>8, <1>9, TripCases

\* Nothing new for the delivery loop: its frame stays true.
LEMMA SenderStays ==
  ASSUME SenderTrue, ResultsStay, OriginStep, sender' = sender
  PROVE  SenderTrue'
<1>1. TrueFrames \subseteq TrueFrames'
  BY FramesStayTrue
<1>2. sender.pc # "idle" => sender.task \in Tasks
  BY DEF SenderTrue, TrueFrames
<1>3. sender.pc = "published" => o_status'[sender.task] \in Terminal
  BY <1>2 DEF SenderTrue, OriginStep, OriginMoves
<1> QED
  BY <1>1, <1>3 DEF SenderTrue

\* The delivery loop goes on with the same frame, and says published only when
\* the task is settled at the origin.
LEMMA SenderMoves ==
  ASSUME SenderTrue, ResultsStay, sender.pc # "idle",
         NEW pc \in {"publishing", "published", "failed"},
         sender' = [sender EXCEPT !.pc = pc],
         pc = "published" => o_status'[sender.task] \in Terminal
  PROVE  SenderTrue'
<1>1. TrueFrames \subseteq TrueFrames'
  BY FramesStayTrue
<1>2. /\ sender' \in SenderRecord
      /\ sender'.pc = pc /\ sender'.task = sender.task /\ sender'.frame = sender.frame
  BY DEF SenderTrue, SenderRecord
<1> QED
  BY <1>1, <1>2 DEF SenderTrue

\* A delivery loop that rests.
LEMMA SenderRests ==
  ASSUME sender' = NotSending
  PROVE  SenderTrue'
<1>1. NoFrame \in FrameRecord
  BY DEF NoFrame, FrameRecord
<1>2. NotSending \in SenderRecord /\ NotSending.pc = "idle"
  BY <1>1 DEF NotSending, SenderRecord
<1> QED
  BY <1>2 DEF SenderTrue

\* The delivery loop: the row it claims has a result, and an acknowledged frame
\* was handled by the origin's daemon.
LEMMA SenderSteps ==
  ASSUME FlowInv, ResultsStay, OriginStep, RowsTyped', OutboxServesSenders', [TripNext]_tvars
  PROVE  SenderTrue'
<1>0. SenderTrue /\ StreamsTrue
  BY DEF FlowInv
<1>1. ASSUME sender' = sender PROVE SenderTrue'
  BY <1>0, <1>1, SenderStays
<1>2. ASSUME NEW e \in Ends, AckFrame(e) PROVE SenderTrue'
  <2>1. CASE sender' = sender
    BY <1>1, <2>1
  <2>2. CASE /\ sender.pc = "publishing" /\ sender.frame = hand[e]
             /\ sender' = [sender EXCEPT !.pc = "published"]
    <3>1. sender.frame \in TrueFrames /\ sender.frame.task = sender.task
      BY <1>0, <2>2 DEF SenderTrue
    <3>2. e = "origin"
      <4>1. \A f \in TaskFrames \cup {NoFrame} : f \notin TrueFrames
        BY DEF TaskFrames, TrueFrames, NoFrame
      <4>2. e # "executor"
        BY <1>0, <2>2, <3>1, <4>1 DEF StreamsTrue
      <4> QED
        BY <4>2 DEF Ends
    <3>3. o_status[sender.task] \in Terminal /\ sender.task \in Tasks
      BY <1>0, <1>2, <2>2, <3>1, <3>2 DEF AckFrame, ReadyToAck, StreamsTrue, TrueFrames
    <3>4. o_status'[sender.task] \in Terminal
      BY <3>3 DEF OriginStep, OriginMoves
    <3> QED
      BY <1>0, <2>2, <3>4, SenderMoves
  <2> QED
    BY <1>2, <2>1, <2>2 DEF AckFrame
<1>3. ASSUME RestartRelay PROVE SenderTrue'
  BY <1>0, <1>1, <1>3, SenderMoves DEF RestartRelay
<1>4. ASSUME ClaimDelivery PROVE SenderTrue'
  <2>1. CASE sender' = sender
    BY <1>1, <2>1
  <2>2. CASE sender' # sender
    <3>1. PICK t \in Tasks :
            /\ outbox'[t].state = "leased"
            /\ sender' = [pc |-> "claimed", task |-> t, expires |-> outbox'[t].expires_at,
                          frame |-> [kind |-> "result", task |-> t, try |-> outbox'[t].attempts,
                                     outcome |-> result[t]]]
      BY <1>4, <2>2 DEF ClaimDelivery
    <3>2. result' = result
      BY <1>4 DEF ClaimDelivery, ClaimNextResultDelivery
    <3>3. /\ outbox'[t].expires_at \in Nat /\ outbox'[t].attempts \in Nat /\ t \in Nat
          /\ result'[t] \in Outcomes
      BY <3>1, TasksAssumption DEF RowsTyped, OutboxRecord, OutboxServesSenders
    <3> DEFINE f == [kind |-> "result", task |-> t, try |-> outbox'[t].attempts,
                     outcome |-> result[t]]
    <3>4. f \in TrueFrames' /\ f.task = t /\ f \in FrameRecord
      <4>1. f \in FrameRecord
        BY <3>2, <3>3 DEF FrameRecord
      <4>2. f.outcome # "none"
        BY <3>2, <3>3 DEF Outcomes
      <4> QED
        BY <3>2, <4>1, <4>2 DEF TrueFrames
    <3>5. sender' = [pc |-> "claimed", task |-> t, expires |-> outbox'[t].expires_at, frame |-> f]
      BY <3>1
    <3> HIDE DEF f
    <3>6. /\ sender' \in SenderRecord
          /\ sender'.pc = "claimed" /\ sender'.task = t /\ sender'.frame = f
      BY <3>3, <3>4, <3>5 DEF SenderRecord
    <3> QED
      BY <3>4, <3>6 DEF SenderTrue
  <2> QED
    BY <2>1, <2>2
<1>5. ASSUME PublishResult PROVE SenderTrue'
  BY <1>0, <1>5, SenderMoves DEF PublishResult
<1>6. ASSUME PublishFails PROVE SenderTrue'
  BY <1>0, <1>6, SenderMoves DEF PublishFails
<1>7. ASSUME Report \/ SenderCrashes PROVE SenderTrue'
  BY <1>7, SenderRests DEF Report, SenderCrashes
<1>8. CASE Working
  <2>1. UNCHANGED others
    BY <1>8 DEF Working, ClaimNext, Heartbeat, HandlerEnds, Abandon, CompleteCall, FailCall,
                LateComplete, ExecutorLoops, TimePasses
  <2> QED
    BY <1>1, <2>1 DEF others
<1>9. CASE Travelling
  <2>1. \/ \E e \in Ends : AckFrame(e)
        \/ RestartRelay
        \/ sender' = sender
    BY <1>9 DEF Travelling, SendTask, SubmitRemoteTask, RefuseRemoteTask, TakeFrame, BreakStream,
                StreamRestarts, IngestRemoteResultFrame
  <2> QED
    BY <1>1, <1>2, <1>3, <2>1
<1>10. CASE Sending
  BY <1>4, <1>5, <1>6, <1>7, <1>10 DEF Sending
<1>11. CASE Waiting
  <2>1. sender' = sender
    BY <1>11 DEF Waiting, ReadTask, ReadResult, OriginLoops
  <2> QED
    BY <1>1, <2>1
<1>12. CASE UNCHANGED tvars
  BY <1>1, <1>12 DEF tvars
<1> QED
  BY <1>8, <1>9, <1>10, <1>11, <1>12, TripCases

\* A delivery is called done only after a report of a published result.
LEMMA DeliverySteps ==
  ASSUME TripInv, [TripNext]_tvars
  PROVE  /\ DeliveriesTimed'
         /\ \A t \in Tasks : outbox'[t].state = "delivered" =>
              outbox[t].state = "delivered" \/ o_status[t] \in Terminal
<1> DEFINE Goal == /\ DeliveriesTimed'
                   /\ \A t \in Tasks : outbox'[t].state = "delivered" =>
                        outbox[t].state = "delivered" \/ o_status[t] \in Terminal
<1> SUFFICES Goal
  OBVIOUS
<1>0. RowsTyped /\ DeliveriesTimed /\ clock \in Nat /\ SenderTrue
  BY DEF TripInv, StoreInv, OutboxInv, FlowInv, TypeOK
<1>1. ASSUME outbox' = outbox PROVE Goal
  BY <1>0, <1>1 DEF DeliveriesTimed
<1>2. ASSUME DeliveriesTimed', NoneDelivered PROVE Goal
  BY <1>2 DEF NoneDelivered
<1>3. ASSUME NEW r \in HeldClaims,
             \/ Completed(r) \/ UNCHANGED rvars
             \/ \E max \in RetryLimits : FailTaskWithResult(r.task, r.lease, WorkerId, max, clock)
      PROVE  Goal
  <2>1. r.task \in Tasks
    BY DEF TripInv, ClaimsTyped
  <2>2. \/ \E o \in Outcomes : InsertResultAndOutbox(r.task, o, clock)
        \/ outbox' = outbox
    BY <1>3 DEF Completed, CompleteTaskWithResult, FailTaskWithResult, rvars, Outcomes
  <2> QED
    BY <1>0, <1>1, <1>2, <2>1, <2>2, FilingTimed
<1>4. CASE Working
  <2>1. ASSUME NEW s \in Slots, CompleteCall(s) \/ FailCall(s) PROVE Goal
    <3> DEFINE r == Request(s)
    <3>1. slot[s].pc # "idle"
      BY <2>1 DEF CompleteCall, FailCall
    <3>2. \/ Completed(r) \/ UNCHANGED rvars
          \/ \E max \in RetryLimits : FailTaskWithResult(r.task, r.lease, WorkerId, max, clock)
      BY <2>1 DEF CompleteCall, FailCall, Refused
    <3>3. r \in HeldClaims
      BY <3>1, SlotHolds
    <3> HIDE DEF r, Goal
    <3> QED
      BY <1>3, <3>2, <3>3
  <2>2. ASSUME NEW r \in late, LateComplete(r) PROVE Goal
    <3>1. r \in HeldClaims /\ (Completed(r) \/ UNCHANGED rvars)
      BY <2>2 DEF LateComplete, Refused, HeldClaims
    <3> HIDE DEF Goal
    <3> QED
      BY <1>3, <3>1
  <2>3. ASSUME \/ \E s \in Slots : \/ \E t \in Tasks : ClaimNext(s, t)
                                   \/ Heartbeat(s) \/ HandlerEnds(s) \/ Abandon(s)
               \/ ExecutorLoops \/ TimePasses
        PROVE  outbox' = outbox
    BY <2>3 DEF ClaimNext, Heartbeat, HandlerEnds, Abandon, ExecutorLoops, TimePasses, rvars
  <2> HIDE DEF Goal
  <2> QED
    BY <1>1, <1>4, <2>1, <2>2, <2>3 DEF Working
<1>5. CASE Travelling
  <2>1. outbox' = outbox
    BY <1>5 DEF Travelling, SendTask, SubmitRemoteTask, RefuseRemoteTask, TakeFrame, AckFrame,
                BreakStream, StreamRestarts, IngestRemoteResultFrame, Ingest, RestartRelay, rvars
  <2> QED
    BY <1>1, <2>1
<1>6. ASSUME ClaimDelivery PROVE Goal
  <2>1. PICK dw \in DeliveryWorkers, dur \in DeliveryDurations :
          ClaimNextResultDelivery(dw, clock, dur)
    BY <1>6 DEF ClaimDelivery
  <2> QED
    BY <1>0, <1>2, <2>1, ClaimingTimed
<1>7. ASSUME Report PROVE Goal
  <2>1. PICK dw \in DeliveryWorkers :
         \/ /\ sender.pc = "published"
            /\ AckResultDelivery(sender.task, dw, sender.expires, clock)
         \/ \E delay \in RetryDelays, permanent \in BOOLEAN :
               FailResultDelivery(sender.task, dw, sender.expires, clock, delay, permanent)
         \/ UNCHANGED rvars
    BY <1>7 DEF Report
  <2>2. sender.task \in Tasks
    BY <1>0, <1>7 DEF Report, SenderTrue, TrueFrames
  <2>3. CASE sender.pc = "published" /\ AckResultDelivery(sender.task, dw, sender.expires, clock)
    <3>1. DeliveriesTimed' /\ \A u \in Tasks \ {sender.task} : outbox'[u] = outbox[u]
      BY <1>0, <2>2, <2>3, ReportTimed
    <3>2. o_status[sender.task] \in Terminal
      BY <1>0, <2>3 DEF SenderTrue
    <3> QED
      BY <3>1, <3>2
  <2>4. CASE \E delay \in RetryDelays, permanent \in BOOLEAN :
               FailResultDelivery(sender.task, dw, sender.expires, clock, delay, permanent)
    <3>1. DeliveriesTimed' /\ NoneDelivered
      BY <1>0, <2>2, <2>4, ReportTimed
    <3> QED
      BY <1>2, <3>1
  <2>5. CASE UNCHANGED rvars
    BY <1>1, <2>5 DEF rvars
  <2> QED
    BY <2>1, <2>3, <2>4, <2>5
<1>8. CASE Sending
  <2>1. ClaimDelivery \/ Report \/ UNCHANGED rvars
    BY <1>8 DEF Sending, PublishResult, PublishFails, SenderCrashes
  <2> QED
    BY <1>1, <1>6, <1>7, <2>1 DEF rvars
<1>9. CASE Waiting \/ UNCHANGED tvars
  <2>1. outbox' = outbox
    BY <1>9 DEF Waiting, ReadTask, ReadResult, OriginLoops, rvars, tvars
  <2> QED
    BY <1>1, <2>1
<1> HIDE DEF Goal
<1> QED
  BY <1>4, <1>5, <1>8, <1>9, TripCases

\* The handle stays true: what it has read cannot be undone, and when it judges
\* the result to be missing the task was settled before the result was looked up.
LEMMA HandleStep == TripInv /\ HandleTrue /\ [TripNext]_tvars => HandleTrue'
<1> SUFFICES ASSUME TripInv, HandleTrue, [TripNext]_tvars PROVE HandleTrue'
  OBVIOUS
<1>1. OriginStep
  BY OriginSteps DEF TripInv
<1>2. ASSUME NEW t \in Tasks, handle'[t] = handle[t]
      PROVE  /\ handle'[t].seen \in Terminal => o_status'[t] \in Terminal
             /\ handle'[t].verdict \in Outcomes => o_result'[t] = handle'[t].verdict
             /\ handle'[t].verdict = "unavailable" =>
                  o_result'[t] = "none" /\ o_status'[t] \in Terminal
  <2>1. OriginMoves(t) /\ (o_result[t] # "none" => o_status[t] \in Terminal)
    BY <1>1 DEF OriginStep, TripInv, FlowInv, OriginTrue
  <2>2. "none" \notin Outcomes
    BY DEF Outcomes
  <2> QED
    BY <1>2, <2>1, <2>2 DEF HandleTrue, OriginMoves
<1>3. ASSUME handle' = handle PROVE HandleTrue'
  BY <1>2, <1>3 DEF HandleTrue
<1>4. ASSUME NEW t \in Tasks, ReadTask(t) PROVE HandleTrue'
  <2>1. /\ handle' = [handle EXCEPT ![t].pc = "read", ![t].seen = o_status[t]]
        /\ handle[t].verdict = "none" /\ UNCHANGED originVars
    BY <1>4 DEF ReadTask
  <2>2. handle[t] \in HandleRecord /\ o_status[t] \in Statuses /\ "none" \notin Outcomes
    BY DEF HandleTrue, TripInv, FlowInv, OriginTyped, Outcomes
  <2> DEFINE v == [handle[t] EXCEPT !.pc = "read", !.seen = o_status[t]]
  <2>3. v \in HandleRecord /\ v.seen = o_status[t] /\ v.verdict = "none"
    BY <2>1, <2>2 DEF HandleRecord
  <2>4. handle' = [handle EXCEPT ![t] = v]
    BY <2>1
  <2> HIDE DEF v
  <2>5. handle' \in [Tasks -> HandleRecord] /\ handle'[t] = v
    BY <2>3, <2>4 DEF HandleTrue
  <2>6. \A u \in Tasks \ {t} : handle'[u] = handle[u]
    BY <2>4 DEF HandleTrue
  <2>7. o_status' = o_status
    BY <2>1 DEF originVars
  <2> QED
    BY <1>2, <2>2, <2>3, <2>5, <2>6, <2>7 DEF HandleTrue
<1>5. ASSUME NEW t \in Tasks, ReadResult(t) PROVE HandleTrue'
  <2> DEFINE w == Judged(handle[t].seen, o_result[t])
             v == [Unread EXCEPT !.verdict = w]
  <2>1. handle' = [handle EXCEPT ![t] = v] /\ UNCHANGED originVars
    BY <1>5 DEF ReadResult
  <2>2. /\ handle[t] \in HandleRecord /\ o_result[t] \in Outcomes \cup {"none"}
        /\ "none" \notin Outcomes /\ "unavailable" \notin Outcomes
    BY DEF HandleTrue, TripInv, FlowInv, OriginTyped, Outcomes
  <2>3. /\ w \in Outcomes \cup {"none", "unavailable"}
        /\ w \in Outcomes => o_result[t] = w
        /\ w = "unavailable" => o_result[t] = "none" /\ o_status[t] \in Terminal
    BY <2>2 DEF Judged, HandleTrue
  <2> HIDE DEF w
  <2>4. v \in HandleRecord /\ v.seen = "absent" /\ v.verdict = w
    BY <2>3 DEF Unread, HandleRecord, Statuses
  <2> HIDE DEF v
  <2>5. handle' \in [Tasks -> HandleRecord] /\ handle'[t] = v
    BY <2>1, <2>4 DEF HandleTrue
  <2>6. \A u \in Tasks \ {t} : handle'[u] = handle[u]
    BY <2>1 DEF HandleTrue
  <2>7. o_status' = o_status /\ o_result' = o_result /\ "absent" \notin Terminal
    BY <2>1 DEF originVars, Terminal
  <2> QED
    BY <1>2, <2>3, <2>4, <2>5, <2>6, <2>7 DEF HandleTrue
<1>6. (\E t \in Tasks : ReadTask(t) \/ ReadResult(t)) \/ handle' = handle
  <2>1. CASE Working
    <3>1. UNCHANGED others
      BY <2>1 DEF Working, ClaimNext, Heartbeat, HandlerEnds, Abandon, CompleteCall, FailCall,
                  LateComplete, ExecutorLoops, TimePasses
    <3> QED
      BY <3>1 DEF others
  <2>2. CASE Travelling
    BY <2>2 DEF Travelling, SendTask, SubmitRemoteTask, RefuseRemoteTask, TakeFrame, AckFrame,
                BreakStream, StreamRestarts, IngestRemoteResultFrame, RestartRelay
  <2>3. CASE Sending
    BY <2>3 DEF Sending, ClaimDelivery, PublishResult, Report, PublishFails, SenderCrashes
  <2>4. CASE Waiting
    BY <2>4 DEF Waiting, OriginLoops
  <2>5. CASE UNCHANGED tvars
    BY <2>5 DEF tvars
  <2> QED
    BY <2>1, <2>2, <2>3, <2>4, <2>5, TripCases
<1> QED
  BY <1>3, <1>4, <1>5, <1>6
==============================================================================
