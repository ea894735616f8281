------------------------- MODULE DaemonSubmitProofs --------------------------
(* Proofs about Daemon, on top of those about the store it drives: the       *)
(* inductive invariant, what keeps it, and the steps that enter a handler    *)
(* and submit a task.                                                        *)
EXTENDS Daemon, ResultStoreProofs, FiniteSetTheorems
------------------------------------------------------------------------------
(* The order in which the daemon drains its queues.                          *)

\* The batch of a scan cut off by its limit is closed downwards: an entry that
\* is older than one in the batch is in the batch.
LEMMA OldestFirstClosed ==
    ASSUME NEW S, S \subseteq Tasks, NEW at \in [Tasks -> Int], NEW limit \in Nat,
           NEW t \in OldestFirst(S, at, limit), NEW u \in S, at[u] < at[t]
    PROVE  u \in OldestFirst(S, at, limit)
<1> DEFINE Before(x) == {v \in S : at[v] < at[x] \/ (at[v] = at[x] /\ v < x)}
<1>1. t \in S /\ t \in Tasks /\ u \in Tasks
  BY DEF OldestFirst
<1>2. Cardinality(Before(t)) < limit
  BY DEF OldestFirst
<1>3. IsFiniteSet(Before(t))
  <2>1. Before(t) \in SUBSET Tasks
    OBVIOUS
  <2> QED
    BY <2>1, TasksAssumption, FS_Subset
<1>4. Before(u) \in SUBSET Before(t)
  <2> SUFFICES ASSUME NEW v \in S, v \in Tasks, at[v] < at[u] \/ (at[v] = at[u] /\ v < u)
               PROVE  at[v] < at[t]
    OBVIOUS
  <2>1. at[v] \in Int /\ at[u] \in Int /\ at[t] \in Int
    BY <1>1
  <2> QED
    BY <2>1
<1>5. /\ Cardinality(Before(u)) <= Cardinality(Before(t))
      /\ Cardinality(Before(u)) \in Nat /\ Cardinality(Before(t)) \in Nat
  BY <1>3, <1>4, FS_Subset, FS_CardinalityType
<1>6. Cardinality(Before(u)) < limit
  BY <1>2, <1>5
<1> QED
  BY <1>6 DEF OldestFirst

\* A recovery scan takes back the leases that expired first, for every number
\* of tasks and every limit.
THEOREM LeasesReturnOldestFirst == Spec => OldestLeaseFirst
<1> DEFINE A == \A t, u \in Tasks :
                  /\ lease[t].active /\ status'[t] = "pending" /\ retry_count'[t] = retry_count[t]
                  /\ lease'[u].active
                  => lease[t].expires_at <= lease[u].expires_at
<1>1. TypeOK /\ ActiveLeaseOwnsTask /\ [Next]_vars => [A]_vars
  <2> SUFFICES ASSUME TypeOK, ActiveLeaseOwnsTask, [Next]_vars,
                      NEW t \in Tasks, NEW u \in Tasks,
                      lease[t].active, status'[t] = "pending",
                      retry_count'[t] = retry_count[t], lease'[u].active
               PROVE  lease[t].expires_at <= lease[u].expires_at
    OBVIOUS
  <2>1. /\ status[t] = "running" /\ retry_count[t] \in Nat
        /\ lease[t].expires_at \in Nat /\ lease[u].expires_at \in Nat
    BY DEF TypeOK, ActiveLeaseOwnsTask, LeaseRecord
  <2>2. ASSUME NEW now \in ReadTimes, NEW limit \in Nat, RecoverStaleLeases(now, limit)
        PROVE  lease[t].expires_at <= lease[u].expires_at
    <3> DEFINE at == [v \in Tasks |-> lease[v].expires_at]
               batch == OldestFirst(StaleLeases(now), at, limit)
    <3>1. t \in batch /\ u \notin batch
      BY <2>1, <2>2 DEF RecoverStaleLeases, NoLease
    <3>2. at \in [Tasks -> Int] /\ StaleLeases(now) \subseteq Tasks
      BY DEF TypeOK, LeaseRecord, StaleLeases
    <3>3. CASE u \in StaleLeases(now)
      <4>1. ~(at[u] < at[t])
        BY <3>1, <3>2, <3>3, OldestFirstClosed
      <4> QED
        BY <2>1, <4>1
    <3>4. CASE u \notin StaleLeases(now)
      <4>1. t \in StaleLeases(now)
        BY <3>1 DEF OldestFirst
      <4>2. lease[u].active
        BY <2>2, <3>1 DEF RecoverStaleLeases
      <4>3. now \in Nat
        BY DEF ReadTimes, TypeOK
      <4> QED
        BY <2>1, <3>4, <4>1, <4>2, <4>3 DEF StaleLeases
    <3> QED
      BY <3>3, <3>4
  <2>3. ASSUME ~\E now \in ReadTimes, limit \in Limits \cup {AllTasks} : RecoverStaleLeases(now, limit)
        PROVE  FALSE
    <3>1. ASSUME NEW v \in Tasks, NEW k, NEW d, NEW r, InsertTask(v, k, d, r) PROVE FALSE
      BY <2>1, <3>1 DEF InsertTask, TypeOK
    <3>2. ASSUME NEW v \in Tasks, NEW type, NEW to, Record(v, type, to), to # "pending" PROVE FALSE
      BY <2>1, <3>2 DEF Record, TypeOK
    <3>3. ASSUME NEW v \in Tasks, RetryTaskInTx(v) PROVE FALSE
      BY <2>1, <3>3 DEF RetryTaskInTx, Record, TypeOK
    <3>4. ASSUME NEW now, NEW limit, FailExpiredDeadlines(now, limit) PROVE FALSE
      BY <2>1, <3>4 DEF FailExpiredDeadlines
    <3>5. ASSUME status' = status PROVE FALSE
      BY <2>1, <3>5
    <3>6. CASE Accepting
      BY <3>1, <3>6 DEF Accepting, AcceptTask, AcceptTaskWithContext
    <3>7. CASE Leasing
      BY <3>2, <3>5, <3>7 DEF Leasing, LeaseTaskTooLate, LeaseTask, RenewLease
    <3>8. CASE Settling
      BY <3>2, <3>3, <3>8 DEF Settling, CompleteTask, FailTask, RetryTask, DeadLetterTask,
                              FinishTaskInTx, DeadLetterTaskInTx
    <3>9. CASE Scanning
      BY <2>3, <3>4, <3>9 DEF Scanning
    <3>10. CASE Maintaining
      <4>1. ASSUME NEW v \in Tasks, NEW to, NEW legacy,
                   \/ TransitionTask(v, to) \/ AcceptLegacyLifecycleEvent(v, legacy, to)
            PROVE  FALSE
        BY <3>2, <4>1 DEF TransitionTask, AcceptLegacyLifecycleEvent, LegalTransition,
                          LegacyTransitions
      <4>2. ASSUME NEW v \in Tasks, NEW legacy, AcceptLegacyOperationalEvent(v, legacy)
            PROVE  FALSE
        BY <2>1, <4>2 DEF AcceptLegacyOperationalEvent, Record, TypeOK
      <4>3. ASSUME NEW v \in Tasks, NEW to \in Terminal, ApplyRemoteResult(v, to)
            PROVE  FALSE
        BY <2>1, <4>3 DEF ApplyRemoteResult, TypeOK, Terminal
      <4>4. ASSUME NEW v \in Tasks, NEW now, CancelTask(v, now)
            PROVE  FALSE
        BY <3>2, <4>4 DEF CancelTask
      <4> QED
        BY <3>10, <4>1, <4>2, <4>3, <4>4 DEF Maintaining
    <3> QED
      BY <3>5, <3>6, <3>7, <3>8, <3>9, <3>10 DEF Next, vars, Tick
  <2>4. Limits \cup {AllTasks} \subseteq Nat
    BY LimitsAssumption, TasksAssumption, FS_CardinalityType DEF AllTasks
  <2> QED
    BY <2>2, <2>3, <2>4
<1> QED
  BY <1>1, TypeCorrect, LeasesOwnTasks, PTL DEF Spec, OldestLeaseFirst

\* Neither queue of the daemon lets a younger entry overtake an older one.
THEOREM NothingOvertakes == ResultSpec => NoOvertaking
  BY LeasesReturnOldestFirst, DeliveriesGoEarliestFirst, ResultImplementsStore, PTL
     DEF NoOvertaking, ImplementsTaskStore
------------------------------------------------------------------------------
(* The inductive invariant.                                                  *)

CallRecord == [pc : Points, op : Ops \cup {"none", "claimNext"}, task : Tasks \cup {0},
               candidates : Seq(Tasks), notified : BOOLEAN, peer : BOOLEAN]

\* The calls in_flight_rpcs counts.
Counts(r) == r.pc \notin {"idle", "admitted"} /\ r.op # "incoming"
Counted == {c \in Callers : Counts(rpc[c])}

Holding == {"locked", "checked", "stored"}

\* A call that does not use the store, as far as shutdown can tell.
Outside(r) == r.pc \in {"idle", "admitted", "counted"} \/ r.op = "incoming"

\* A shutdown that did not time out finds no call past the second look.
ProcessOK ==
    /\ phase \in Phases /\ timed_out \in BOOLEAN /\ restarts \in 0..MaxRestarts
    /\ rpc \in [Callers -> CallRecord]
    /\ in_flight = Cardinality(Counted)
    /\ lock \in Callers \cup {NoOne}
    /\ \A c \in Callers : /\ lock = c <=> rpc[c].pc \in Holding
                          /\ rpc[c].pc = "admitted" => rpc[c].op # "incoming"
    /\ phase \in {"closing", "closed"} /\ ~timed_out => \A c \in Callers : Outside(rpc[c])

\* The tables, and what was told to workers and to the relay about them.
TablesOK ==
    /\ TypeOK /\ ActiveLeaseOwnsTask /\ RowsTyped
    /\ clock <= MaxTime
    /\ envelope \in [Tasks -> Nat]
    /\ \A t \in Tasks :
          /\ Exists(t) => Len(task_events[t]) >= 1
          /\ ~Exists(t) => result[t] = "none" /\ envelope[t] = NoEnvelope
          /\ outbox[t].state # "none" => result[t] # "none"
    /\ granted \subseteq Tasks \X (0..MaxTime) \X Workers
    /\ \A g \in granted : Exists(g[1]) /\ route[g[1]] # "outbound"
    /\ published \subseteq Tasks /\ receipts \subseteq Tasks

FreshTasks == {t \in Tasks : Fresh(t)}

WithTask == {"checked", "stored", "dispatching", "looked", "publishing", "accepted"}

\* Where a call stands, it may rely on what it found out on the way there.
Relies(r) ==
    /\ r.pc \in WithTask => r.task \in Tasks
    /\ r.pc = "checked" => Cardinality(FreshTasks) < MaxPending
    /\ r.pc \in {"publishing", "accepted"} => Exists(r.task) /\ route[r.task] = "outbound"
    /\ r.pc = "accepted" => r.task \in published
    /\ r.pc = "looked" /\ r.op \in {"complete", "fail"} =>
          /\ Exists(r.task) /\ route[r.task] # "outbound"
          /\ r.peer = (route[r.task] # "local")
    /\ r.pc = "waiting" => r.candidates = <<>>

\* A poll past its scan that was not notified has in its hands every task it
\* could claim, but for those whose submitter is about to notify.
Sees(r) ==
    r.pc \in {"trying", "waiting"} /\ ~r.notified =>
        \A t \in FreshTasks \cap Enveloped :
            \/ \E i \in 1..Len(r.candidates) : r.candidates[i] = t
            \/ \E b \in Callers : rpc[b].pc = "stored" /\ rpc[b].task = t

CallOK(c) == Relies(rpc[c]) /\ Sees(rpc[c])

DaemonInv ==
    /\ ProcessOK /\ TablesOK
    /\ \A c \in Callers : CallOK(c)
    /\ PendingBounded /\ SentIsRecorded /\ WorkerResultReturned

\* The clock a handler reads is a time, and the current one is among them.
LEMMA ClockReads ==
    ASSUME TablesOK
    PROVE  clock \in ReadTimes /\ ReadTimes \subseteq 0..MaxTime /\ ReadTimes \subseteq Nat
<1>1. clock \in 0..MaxTime
  BY DEF TablesOK, TypeOK
<1> QED
  BY <1>1, TimesAssumption DEF ReadTimes
------------------------------------------------------------------------------
(* A call moves: the counter, the lock and a finished drain stay in step.    *)

\* Only c's call changes.
Only(c) == \A b \in Callers \ {c} : rpc'[b] = rpc[b]

\* c's call becomes r.
Moves(c, r) ==
    /\ r \in CallRecord /\ rpc' = [rpc EXCEPT ![c] = r]
    /\ in_flight' = IF Counts(r) THEN IF Counts(rpc[c]) THEN in_flight ELSE in_flight + 1
                                 ELSE IF Counts(rpc[c]) THEN in_flight - 1 ELSE in_flight
    /\ lock' = IF r.pc \in Holding THEN c ELSE IF lock = c THEN NoOne ELSE lock
    /\ r.pc \in Holding => lock \in {c, NoOne}
    /\ r.pc = "admitted" => r.op # "incoming"
    /\ Outside(rpc[c]) /\ ShuttingDown => Outside(r)
    /\ UNCHANGED process

\* The number of counted calls is a number, and none is counted at zero.
LEMMA CountingCalls ==
    ASSUME NEW S \in SUBSET Callers
    PROVE  /\ IsFiniteSet(S) /\ Cardinality(S) \in Nat
           /\ Cardinality(S) = 0 => S = {}
           /\ \A c \in S : Cardinality(S \ {c}) = Cardinality(S) - 1
           /\ \A c \in Callers \ S : Cardinality(S \cup {c}) = Cardinality(S) + 1
<1>1. IsFiniteSet(S)
  BY DaemonAssumption, FS_Subset
<1> QED
  BY <1>1, FS_CardinalityType, FS_EmptySet, FS_RemoveElement, FS_AddElement

\* RpcInFlightGuard and submit_backpressure_lock.
LEMMA Moving ==
    ASSUME ProcessOK, NEW c \in Callers, NEW r, Moves(c, r)
    PROVE  ProcessOK' /\ Only(c) /\ rpc'[c] = r
<1>1. rpc' \in [Callers -> CallRecord] /\ Only(c) /\ rpc'[c] = r
  BY DEF ProcessOK, Moves, Only
<1>2. in_flight' = Cardinality(Counted')
  <2>1. /\ Counted \in SUBSET Callers /\ in_flight = Cardinality(Counted)
        /\ c \in Counted <=> Counts(rpc[c])
        /\ Counted' = IF Counts(r) THEN Counted \cup {c} ELSE Counted \ {c}
    BY <1>1 DEF ProcessOK, Counted, Counts, Only
  <2>2. CASE Counts(r) <=> Counts(rpc[c])
    <3>1. Counted' = Counted
      BY <2>1, <2>2
    <3> QED BY <2>1, <2>2, <3>1 DEF Moves
  <2>3. CASE Counts(r) /\ ~Counts(rpc[c])
    BY <2>1, <2>3, CountingCalls DEF Moves
  <2>4. CASE ~Counts(r) /\ Counts(rpc[c])
    BY <2>1, <2>4, CountingCalls DEF Moves
  <2> QED BY <2>2, <2>3, <2>4
<1>3. /\ lock' \in Callers \cup {NoOne}
      /\ \A b \in Callers : /\ lock' = b <=> rpc'[b].pc \in Holding
                            /\ rpc'[b].pc = "admitted" => rpc'[b].op # "incoming"
  BY <1>1, DaemonAssumption DEF ProcessOK, Moves, Only
<1>4. phase' \in {"closing", "closed"} /\ ~timed_out' => \A b \in Callers : Outside(rpc'[b])
  BY <1>1 DEF ProcessOK, Moves, Only, process, ShuttingDown
<1> QED
  BY <1>1, <1>2, <1>3, <1>4 DEF ProcessOK, Moves, process

\* Idle relies on nothing.
LEMMA IdleCall ==
    /\ Idle \in CallRecord /\ Idle.pc = "idle" /\ Idle.op = "none"
    /\ ~Counts(Idle) /\ Outside(Idle) /\ Idle.pc \notin Holding
BY DEF Idle, CallRecord, Points, Counts, Outside, Holding

\* The answer is sent and the guards are dropped.
LEMMA Returning ==
    ASSUME ProcessOK, NEW c \in Callers, Return(c), rpc[c].pc \notin {"idle", "admitted"},
           UNCHANGED process
    PROVE  Moves(c, Idle)
BY IdleCall DEF Return, Moves, Counts

\* c goes on to the point pc of its handler.
To(c, pc) == [rpc[c] EXCEPT !.pc = pc]

\* A call that goes on keeps its counter, its lock and what it holds.
LEMMA Going ==
    ASSUME ProcessOK, NEW c \in Callers, NEW pc \in Points, Go(c, pc), UNCHANGED process,
           rpc[c].pc \notin {"idle", "admitted"}, pc \notin {"idle", "admitted", "counted"},
           rpc[c].pc \in Holding <=> pc \in Holding,
           rpc[c].pc = "counted" => ~ShuttingDown
    PROVE  /\ Moves(c, To(c, pc)) /\ To(c, pc).pc = pc /\ To(c, pc).task = rpc[c].task
           /\ To(c, pc).candidates = rpc[c].candidates
           /\ To(c, pc).notified = rpc[c].notified
<1> DEFINE r == [rpc[c] EXCEPT !.pc = pc]
<1>1. rpc \in [Callers -> CallRecord] /\ rpc[c] \in CallRecord
  BY DEF ProcessOK
<1>2. /\ r \in CallRecord /\ r.pc = pc /\ r.op = rpc[c].op /\ r.task = rpc[c].task
      /\ r.candidates = rpc[c].candidates /\ r.notified = rpc[c].notified
      /\ rpc' = [rpc EXCEPT ![c] = r] /\ To(c, pc) = r
  BY <1>1 DEF CallRecord, Go, To
<1> HIDE DEF r
<1>3. lock = c <=> rpc[c].pc \in Holding
  BY DEF ProcessOK
<1>4. Moves(c, r)
  BY <1>2, <1>3 DEF Moves, Go, Counts, Outside
<1> QED
  BY <1>2, <1>4
------------------------------------------------------------------------------
(* The store.                                                                *)

\* An operation of the store that accepts no task.
Later ==
    \/ Leasing \/ Settling \/ Scanning \/ Tick
    \/ \E t \in Tasks, now \in ReadTimes : CancelTask(t, now)
    \/ \E t \in Tasks, to \in Terminal : ApplyRemoteResult(t, to)
    \/ UNCHANGED vars

\* No row is lost, no row changes hands, and an untouched task stays one only
\* if it was one or is new.
Grows ==
    \A t \in Tasks :
        /\ Exists(t) => Exists(t)' /\ route'[t] = route[t]
        /\ Exists(t)' => Len(task_events'[t]) >= 1
        /\ Fresh(t)' => Fresh(t) \/ ~Exists(t)

\* Such an operation is one of TaskStore.
LEMMA LaterIsStoreStep == Later => [Next]_vars
BY DEF Later, Next, Maintaining

\* The rows of a task after any operation of the store.
LEMMA StoreGrows ==
    ASSUME TablesOK, [Next]_vars
    PROVE  TypeOK' /\ ActiveLeaseOwnsTask' /\ Grows
<1>1. TypeOK' /\ ActiveLeaseOwnsTask'
  BY TypeStep, LeaseStep DEF TablesOK
<1>2. ASSUME NEW t \in Tasks
      PROVE  /\ Exists(t) => Exists(t)' /\ route'[t] = route[t]
             /\ Exists(t)' => Len(task_events'[t]) >= 1
             /\ Fresh(t)' => Fresh(t) \/ ~Exists(t)
  <2>1. RowStep(t)
    BY RowSteps DEF TablesOK
  <2>2. /\ task_events[t] \in Seq(EventRecord) /\ Len(task_events[t]) \in Nat
        /\ Exists(t) => Len(task_events[t]) >= 1
        /\ lease[t].active => status[t] = "running"
        /\ \A e : Len(Append(task_events[t], e)) = Len(task_events[t]) + 1
    BY DEF TablesOK, TypeOK, ActiveLeaseOwnsTask
  <2>3. CASE RowIdle(t) \/ RowRenewed(t)
    BY <2>2, <2>3 DEF RowIdle, RowRenewed, SameTask, Exists, Fresh
  <2>4. CASE RowAccepted(t)
    BY <2>2, <2>4 DEF RowAccepted, Exists
  <2>5. ASSUME NEW e, Logged(t, e), Exists(t), status'[t] # "absent", route'[t] = route[t]
        PROVE  /\ Exists(t)' /\ Len(task_events'[t]) >= 1 /\ ~Fresh(t)'
    BY <2>2, <2>5 DEF Logged, Exists, Fresh
  <2>6. CASE RowClaimed(t)
    BY <2>5, <2>6 DEF RowClaimed, SameTask, Exists
  <2>7. CASE \E type \in EventTypes, to \in Statuses : RowMoved(t, type, to)
    BY <2>5, <2>7 DEF RowMoved, SameTask, Exists, Live, Terminal
  <2>8. CASE \E type \in EventTypes : RowNoted(t, type)
    BY <2>5, <2>8 DEF RowNoted, SameTask, Exists, Live
  <2>9. CASE \E to \in Terminal : RowReported(t, to)
    <3>1. PICK to \in Terminal : RowReported(t, to)
      BY <2>9
    <3>2. Exists(t) /\ status'[t] \in Terminal /\ route'[t] = route[t]
      BY <3>1 DEF RowReported, SameTask, Exists, Live
    <3>3. Len(task_events'[t]) >= 1
      <4> DEFINE log == IF status[t] = "pending"
                        THEN Append(task_events[t], Event("TaskStarted", "pending", "running"))
                        ELSE task_events[t]
      <4>1. log \in Seq(EventRecord)
        <5>1. Event("TaskStarted", "pending", "running") \in EventRecord
          BY DEF Event, EventRecord, EventTypes, Statuses, Live
        <5> QED BY <2>2, <5>1
      <4>2. task_events'[t] = Append(log, Event(EventForTransition(to), "running", to))
        BY <3>1 DEF RowReported
      <4> HIDE DEF log
      <4> QED BY <4>1, <4>2
    <3> QED BY <3>2, <3>3 DEF Exists, Fresh, Terminal
  <2> QED BY <2>1, <2>3, <2>4, <2>6, <2>7, <2>8, <2>9 DEF RowStep
<1> QED
  BY <1>1, <1>2 DEF Grows

\* Only an acceptance makes a row, and only time passes.
LEMMA LaterKeeps ==
    ASSUME TypeOK, ActiveLeaseOwnsTask, clock <= MaxTime, Later
    PROVE  clock' <= MaxTime /\ \A u \in Tasks : ~Exists(u) => ~Exists(u)'
<1> SUFFICES ASSUME NEW u
             PROVE  clock' <= MaxTime /\ (u \in Tasks /\ status[u] = "absent" => status'[u] = "absent")
  BY DEF Exists
<1>a. /\ status \in [Tasks -> Statuses] /\ clock \in Nat /\ MaxTime \in Nat
      /\ u \in Tasks /\ status[u] = "absent" =>
             ~lease[u].active /\ status[u] \notin Live /\ \A to : ~LegalTransition(status[u], to)
  BY TimesAssumption DEF TypeOK, ActiveLeaseOwnsTask, Live, LegalTransition
<1>1. CASE Leasing
  BY <1>1, <1>a DEF Leasing, LeaseTaskTooLate, LeaseTask, RenewLease, Leasable, Record, Exists
<1>2. CASE Settling
  <2>1. PICK t \in Tasks, id \in 0..MaxTime, w \in Workers :
            /\ PresentsLease(t, id, w) /\ \E type, to : Record(t, type, to)
            /\ clock' = clock
    BY <1>2 DEF Settling, CompleteTask, FailTask, RetryTask, DeadLetterTask, FinishTaskInTx,
                RetryTaskInTx, DeadLetterTaskInTx
  <2> QED BY <2>1, <1>a DEF PresentsLease, Record
<1>3. CASE Scanning
  BY <1>3, <1>a DEF Scanning, FailExpiredDeadlines, RecoverStaleLeases, OldestFirst,
                    ExpiredDeadlines, StaleLeases
<1>4. CASE Tick \/ UNCHANGED vars
  BY <1>4, <1>a DEF Tick, vars
<1>5. CASE \E t \in Tasks, now \in ReadTimes : CancelTask(t, now)
  BY <1>5, <1>a DEF CancelTask, Record
<1>6. CASE \E t \in Tasks, to \in Terminal : ApplyRemoteResult(t, to)
  BY <1>6, <1>a DEF ApplyRemoteResult
<1> QED
  BY <1>1, <1>2, <1>3, <1>4, <1>5, <1>6 DEF Later

\* What a step of the daemon that accepts no task does to the tables: leases
\* are answered for tasks that may run here; results are filed for tasks that
\* exist; an outbox row comes with a result.
StoreMove ==
    /\ Later /\ UNCHANGED envelope
    /\ \A g \in granted' :
          \/ g \in granted
          \/ /\ g \in Tasks \X (0..MaxTime) \X Workers
             /\ Exists(g[1]) /\ route[g[1]] # "outbound"
    /\ RowsTyped'
    /\ \A t \in Tasks : /\ ~Exists(t) => result'[t] = "none"
                        /\ outbox'[t].state # "none" => result'[t] # "none"
    /\ published \subseteq published' /\ published' \subseteq Tasks /\ receipts' \subseteq Tasks

\* No task becomes untouched work that was not.
NoNewWork ==
    /\ FreshTasks' \subseteq FreshTasks
    /\ FreshTasks' \cap Enveloped' \subseteq Enveloped

\* Such a step keeps the tables and makes no new work.
LEMMA TablesAfter ==
    ASSUME TablesOK, StoreMove
    PROVE  TablesOK' /\ Grows /\ NoNewWork
<1>1. TypeOK' /\ ActiveLeaseOwnsTask' /\ Grows
  BY LaterIsStoreStep, StoreGrows DEF StoreMove
<1>2. clock' <= MaxTime /\ \A t \in Tasks : ~Exists(t) => ~Exists(t)'
  BY LaterKeeps DEF TablesOK, StoreMove
<1>3. \A t \in Tasks :
          /\ Exists(t)' => Len(task_events'[t]) >= 1
          /\ ~Exists(t)' => result'[t] = "none" /\ envelope'[t] = NoEnvelope
          /\ outbox'[t].state # "none" => result'[t] # "none"
  BY <1>1 DEF Grows, StoreMove, TablesOK
<1>4. ASSUME NEW g \in granted'
      PROVE  /\ g \in Tasks \X (0..MaxTime) \X Workers
             /\ Exists(g[1])' /\ route'[g[1]] # "outbound"
  <2>1. /\ g \in Tasks \X (0..MaxTime) \X Workers /\ g[1] \in Tasks
        /\ Exists(g[1]) /\ route[g[1]] # "outbound"
    BY DEF StoreMove, TablesOK
  <2> QED BY <1>1, <2>1 DEF Grows
<1>5. TablesOK'
  BY <1>1, <1>2, <1>3, <1>4 DEF TablesOK, StoreMove
<1>6. NoNewWork
  BY <1>1, <1>2 DEF Grows, Fresh, FreshTasks, Exists, NoNewWork, Enveloped, StoreMove
<1> QED
  BY <1>1, <1>5, <1>6

\* The untouched tasks are finitely many, and no more of them makes no more.
LEMMA FreshBounds ==
    ASSUME NEW S \in SUBSET Tasks, NEW T \in SUBSET S
    PROVE  /\ IsFiniteSet(S) /\ Cardinality(T) <= Cardinality(S)
           /\ Cardinality(S) \in Nat /\ Cardinality(T) \in Nat
<1>1. IsFiniteSet(S)
  BY TasksAssumption, FS_Subset
<1>2. IsFiniteSet(T)
  BY <1>1, FS_Subset
<1> QED
  BY <1>1, <1>2, FS_Subset, FS_CardinalityType
------------------------------------------------------------------------------
(* What the other calls rely on.                                             *)

\* A step of c keeps what the other calls rely on, as long as it makes no new
\* work and c is not the one about to notify.
LEMMA OthersRely ==
    ASSUME DaemonInv, NEW c, Only(c), Grows, NoNewWork, published \subseteq published',
           c \in Callers => rpc[c].pc # "stored"
    PROVE  /\ PendingBounded'
           /\ \A b \in Callers \ {c} : CallOK(b)'
<1>1. /\ Cardinality(FreshTasks') <= Cardinality(FreshTasks)
      /\ Cardinality(FreshTasks') \in Nat /\ Cardinality(FreshTasks) \in Nat /\ MaxPending \in Nat
  <2>1. FreshTasks' \in SUBSET FreshTasks /\ FreshTasks \in SUBSET Tasks
    BY DEF FreshTasks, NoNewWork
  <2> QED BY <2>1, FreshBounds, DaemonAssumption
<1>2. PendingBounded'
  <2>1. Cardinality(FreshTasks') <= MaxPending
    BY <1>1 DEF DaemonInv, PendingBounded, FreshTasks
  <2> QED BY <2>1 DEF PendingBounded, FreshTasks
<1>3. ASSUME NEW b \in Callers \ {c} PROVE CallOK(b)'
  <2>1. rpc'[b] = rpc[b] /\ Relies(rpc[b]) /\ Sees(rpc[b])
    BY DEF Only, DaemonInv, CallOK
  <2>2. Relies(rpc[b])'
    <3>1. rpc[b].pc = "checked" => Cardinality(FreshTasks') < MaxPending
      BY <1>1, <2>1 DEF Relies
    <3>2. /\ rpc[b].pc \in WithTask => rpc[b].task \in Tasks
          /\ rpc[b].pc \in {"publishing", "accepted", "looked"} => rpc[b].pc \in WithTask
      BY <2>1 DEF Relies, WithTask
    <3>3. rpc[b].pc \in WithTask /\ Exists(rpc[b].task) =>
            status'[rpc[b].task] # "absent" /\ route'[rpc[b].task] = route[rpc[b].task]
      BY <3>2 DEF Grows, Exists
    <3> QED
      BY <2>1, <3>1, <3>2, <3>3 DEF Relies, Exists
  <2>3. Sees(rpc[b])'
    <3>1. \A a \in Callers : rpc[a].pc = "stored" => rpc'[a] = rpc[a]
      BY DEF Only
    <3> QED BY <2>1, <3>1 DEF Sees, NoNewWork
  <2> QED BY <2>2, <2>3 DEF CallOK
<1> QED
  BY <1>2, <1>3

\* Published tasks stay recorded, and results stay returned.
LEMMA Unsent ==
    ASSUME DaemonInv, Grows, UNCHANGED relay
    PROVE  SentIsRecorded'
BY DEF DaemonInv, TablesOK, SentIsRecorded, Grows, relay

\* Results stay returned over a step that files nothing.
LEMMA Unsettled ==
    ASSUME DaemonInv, Grows, UNCHANGED <<result, outbox>>
    PROVE  WorkerResultReturned'
<1> SUFFICES ASSUME NEW t \in Tasks
             PROVE  /\ route'[t] = "inbound" /\ result'[t] \in {"completed", "failed"} =>
                          outbox'[t].state # "none"
                    /\ outbox'[t].state # "none" /\ route'[t] # "inbound" =>
                          result'[t] = "canceled"
  BY DEF WorkerResultReturned
<1>1. CASE Exists(t)
  BY <1>1 DEF DaemonInv, WorkerResultReturned, Grows
<1>2. CASE ~Exists(t)
  BY <1>2 DEF DaemonInv, TablesOK
<1> QED
  BY <1>1, <1>2

\* The store, what was granted and what was sent are left alone.
Quiet == UNCHANGED <<rvars, envelope, granted, relay>>

\* A step that leaves them alone adds no work and no result.
LEMMA QuietMove ==
    ASSUME DaemonInv, Quiet
    PROVE  StoreMove /\ TablesOK' /\ Grows /\ NoNewWork /\ SentIsRecorded' /\ WorkerResultReturned'
<1>1. StoreMove /\ UNCHANGED <<result, outbox, relay>>
  BY DEF StoreMove, Later, Quiet, DaemonInv, TablesOK, RowsTyped, rvars, relay
<1> QED
  BY <1>1, TablesAfter, Unsent, Unsettled DEF DaemonInv

\* Points where a call has found out nothing yet.
Aimless == {"idle", "admitted", "counted", "inside", "locked", "listening", "expired"}

\* A call moves, and relies on nothing any more, while the store takes a step
\* that accepts no task.
LEMMA MoveAfter ==
    ASSUME DaemonInv, NEW c \in Callers, NEW r, Moves(c, r), rpc[c].pc # "stored",
           r.pc \in Aimless, StoreMove, Grows => SentIsRecorded' /\ WorkerResultReturned'
    PROVE  DaemonInv'
<1>1. ProcessOK' /\ Only(c) /\ rpc'[c] = r
  BY Moving DEF DaemonInv
<1>2. TablesOK' /\ Grows /\ NoNewWork
  BY TablesAfter DEF DaemonInv
<1>3. PendingBounded' /\ \A b \in Callers \ {c} : CallOK(b)'
  BY <1>1, <1>2, OthersRely DEF StoreMove
<1>4. CallOK(c)'
  BY <1>1 DEF CallOK, Relies, Sees, Aimless, WithTask
<1> QED
  BY <1>1, <1>2, <1>3, <1>4 DEF DaemonInv

\* A call moves and nothing else happens.
LEMMA MoveOnly ==
    ASSUME DaemonInv, NEW c \in Callers, NEW r, Moves(c, r), Quiet, rpc[c].pc # "stored",
           Relies(r), Sees(r)
    PROVE  DaemonInv'
<1>1. ProcessOK' /\ Only(c) /\ rpc'[c] = r
  BY Moving DEF DaemonInv
<1>2. StoreMove /\ TablesOK' /\ Grows /\ NoNewWork /\ SentIsRecorded' /\ WorkerResultReturned'
  BY QuietMove
<1>3. PendingBounded' /\ \A b \in Callers \ {c} : CallOK(b)'
  BY <1>1, <1>2, OthersRely DEF StoreMove
<1>4. FreshTasks' = FreshTasks /\ UNCHANGED <<status, route, published, envelope>>
  BY DEF Quiet, FreshTasks, Fresh, rvars, vars, relay
<1>5. Relies(rpc[c])'
  BY <1>1, <1>4 DEF Relies, Exists
<1>6. Sees(rpc[c])'
  <2>1. \A a \in Callers : rpc[a].pc = "stored" => rpc'[a] = rpc[a]
    BY <1>1 DEF Only
  <2>2. (FreshTasks \cap Enveloped)' \subseteq FreshTasks \cap Enveloped
    BY <1>2 DEF NoNewWork
  <2>3. ASSUME NEW t \in (FreshTasks \cap Enveloped)', r.pc \in {"trying", "waiting"}, ~r.notified
        PROVE  \/ \E i \in 1..Len(r.candidates) : r.candidates[i] = t
               \/ \E b \in Callers : rpc'[b].pc = "stored" /\ rpc'[b].task = t
    <3>1. t \in FreshTasks \cap Enveloped
      BY <2>2
    <3>2. \/ \E i \in 1..Len(r.candidates) : r.candidates[i] = t
          \/ \E b \in Callers : rpc[b].pc = "stored" /\ rpc[b].task = t
      BY <2>3, <3>1, Zenon DEF Sees
    <3>3. ASSUME NEW b \in Callers, rpc[b].pc = "stored", rpc[b].task = t
          PROVE  rpc'[b].pc = "stored" /\ rpc'[b].task = t
      BY <2>1, <3>3
    <3> QED
      BY <3>2, <3>3, Zenon
  <2> QED
    BY <1>1, <2>3, Zenon DEF Sees
<1>7. CallOK(c)'
  BY <1>5, <1>6 DEF CallOK
<1> QED
  BY <1>1, <1>2, <1>3, <1>7 DEF DaemonInv

\* c leaves its handler with nothing written.
LEMMA Leaving ==
    ASSUME DaemonInv, NEW c \in Callers, Leave(c), rpc[c].pc \notin {"idle", "admitted", "stored"}
    PROVE  DaemonInv'
<1>1. Moves(c, Idle) /\ Quiet
  BY Returning DEF DaemonInv, Leave, Quiet
<1>2. Relies(Idle) /\ Sees(Idle)
  BY IdleCall DEF Relies, Sees, WithTask
<1> QED
  BY <1>1, <1>2, MoveOnly
------------------------------------------------------------------------------
(* Entering a handler.                                                       *)

\* The first look of RpcInFlightGuard::enter.
LEMMA EnterCheckStep ==
    ASSUME DaemonInv, NEW c \in Callers, NEW op \in Ops \cup {"claimNext"}, EnterCheck(c, op)
    PROVE  DaemonInv'
<1> DEFINE pc == IF op = "incoming" THEN "inside" ELSE "admitted"
           r == [rpc[c] EXCEPT !.op = op, !.pc = pc]
<1>1. rpc[c] \in CallRecord /\ rpc[c].pc = "idle" /\ lock # c
  BY DEF DaemonInv, ProcessOK, EnterCheck, At, Holding
<1>2. r \in CallRecord /\ r.op = op /\ r.pc = pc /\ rpc' = [rpc EXCEPT ![c] = r]
  BY <1>1 DEF CallRecord, Points, EnterCheck, DaemonInv, ProcessOK
<1> HIDE DEF r
<1>3. Moves(c, r) /\ Quiet /\ Relies(r) /\ Sees(r)
  BY <1>1, <1>2 DEF Moves, Quiet, EnterCheck, Counts, Outside, Holding, Relies, Sees, WithTask
<1> QED
  BY <1>1, <1>3, MoveOnly

\* The count, the second look, and the early returns.
LEMMA EnteringStep ==
    ASSUME DaemonInv, NEW c \in Callers, Entering(c)
    PROVE  DaemonInv'
<1>1. CASE EnterCount(c)
  <2> DEFINE r == [rpc[c] EXCEPT !.pc = "counted"]
  <2>1. rpc[c] \in CallRecord /\ rpc[c].pc = "admitted" /\ rpc[c].op # "incoming" /\ lock # c
    BY <1>1 DEF DaemonInv, ProcessOK, EnterCount, At, Holding
  <2>2. r \in CallRecord /\ r.op = rpc[c].op /\ r.pc = "counted" /\ rpc' = [rpc EXCEPT ![c] = r]
    BY <1>1, <2>1 DEF CallRecord, Points, EnterCount, DaemonInv, ProcessOK
  <2> HIDE DEF r
  <2>3. Moves(c, r) /\ Quiet /\ Relies(r) /\ Sees(r)
    BY <1>1, <2>1, <2>2 DEF Moves, Quiet, EnterCount, Counts, Outside, Holding, Relies, Sees, WithTask
  <2> QED BY <2>1, <2>3, MoveOnly
<1>2. CASE EnterRecheck(c) /\ ~ShuttingDown
  <2>1. rpc[c].pc = "counted" /\ Step(c, "inside") /\ "inside" \in Points
    BY <1>2 DEF EnterRecheck, At, Points
  <2>2. Moves(c, To(c, "inside")) /\ To(c, "inside").pc = "inside" /\ Quiet
    BY <1>2, <2>1, Going DEF DaemonInv, Step, Holding, Quiet
  <2> QED BY <2>1, <2>2, MoveOnly DEF Relies, Sees, WithTask
<1>3. CASE (EnterRecheck(c) /\ ShuttingDown) \/ Refuse(c) \/ StoreGone(c)
  <2>1. Leave(c) /\ rpc[c].pc \notin {"idle", "admitted", "stored"}
    BY <1>3 DEF EnterRecheck, Refuse, Unauthorized, PolicyHolds, StoreRefuses, StoreGone, Serving, At
  <2> QED BY <2>1, Leaving
<1> QED
  BY <1>1, <1>2, <1>3 DEF Entering
------------------------------------------------------------------------------
(* Admission.                                                                *)

\* submit_backpressure_lock is taken.
LEMMA TakeLockStep ==
    ASSUME DaemonInv, NEW c \in Callers, TakeLock(c)
    PROVE  DaemonInv'
<1> DEFINE r == [rpc[c] EXCEPT !.pc = "locked"]
<1>1. rpc[c] \in CallRecord /\ rpc[c].pc = "inside"
  BY DEF DaemonInv, ProcessOK, TakeLock, At
<1>2. r \in CallRecord /\ r.op = rpc[c].op /\ r.pc = "locked" /\ rpc' = [rpc EXCEPT ![c] = r]
  BY <1>1 DEF CallRecord, Points, TakeLock, DaemonInv, ProcessOK
<1> HIDE DEF r
<1>3. Moves(c, r) /\ Quiet /\ Relies(r) /\ Sees(r)
  BY <1>1, <1>2 DEF Moves, Quiet, TakeLock, Counts, Outside, Holding, Relies, Sees, WithTask
<1> QED
  BY <1>1, <1>3, MoveOnly

\* A frame delivered again.
LEMMA AcceptAgainStep ==
    ASSUME DaemonInv, NEW c \in Callers, AcceptAgain(c)
    PROVE  DaemonInv'
<1>1. rpc[c] \in CallRecord /\ rpc[c].pc = "locked" /\ lock = c
  BY DEF DaemonInv, ProcessOK, AcceptAgain, At, Holding
<1>2. CASE Leave(c)
  BY <1>1, <1>2, Leaving
<1>3. CASE ~Leave(c)
  <2>1. PICK t \in Tasks :
            /\ rpc' = [rpc EXCEPT ![c].pc = "dispatching", ![c].task = t] /\ lock' = NoOne
            /\ UNCHANGED <<rvars, envelope, granted, relay, process, in_flight>>
    BY <1>3 DEF AcceptAgain
  <2> DEFINE r == [rpc[c] EXCEPT !.pc = "dispatching", !.task = t]
  <2>2. /\ r \in CallRecord /\ r.pc = "dispatching" /\ r.task = t /\ r.op = rpc[c].op
        /\ rpc' = [rpc EXCEPT ![c] = r]
    BY <1>1, <2>1 DEF CallRecord, Points, DaemonInv, ProcessOK
  <2> HIDE DEF r
  <2>3. Moves(c, r) /\ Quiet /\ Relies(r) /\ Sees(r)
    BY <1>1, <2>1, <2>2 DEF Moves, Quiet, Counts, Outside, Holding, Relies, Sees, WithTask
  <2> QED BY <1>1, <2>3, MoveOnly
<1> QED
  BY <1>2, <1>3

\* check_pending_tasks under the lock.
LEMMA CheckLimitsStep ==
    ASSUME DaemonInv, NEW c \in Callers, CheckLimits(c)
    PROVE  DaemonInv'
<1>1. rpc[c] \in CallRecord /\ rpc[c].pc = "locked" /\ lock = c
  BY DEF DaemonInv, ProcessOK, CheckLimits, At, Holding
<1>2. CASE Leave(c)
  BY <1>1, <1>2, Leaving
<1>3. CASE ~Leave(c)
  <2>1. PICK t \in Tasks :
            /\ WithinLimits(rpc[c].op)
            /\ rpc' = [rpc EXCEPT ![c].pc = "checked", ![c].task = t]
            /\ UNCHANGED <<rvars, envelope, granted, relay, process, in_flight, lock>>
    BY <1>3 DEF CheckLimits
  <2> DEFINE r == [rpc[c] EXCEPT !.pc = "checked", !.task = t]
  <2>2. /\ r \in CallRecord /\ r.pc = "checked" /\ r.task = t /\ r.op = rpc[c].op
        /\ rpc' = [rpc EXCEPT ![c] = r]
    BY <1>1, <2>1 DEF CallRecord, Points, DaemonInv, ProcessOK
  <2> HIDE DEF r
  <2>3. Cardinality(FreshTasks) < MaxPending
    <3>1. FreshTasks \in SUBSET Pending /\ Pending \in SUBSET Tasks
      BY DEF FreshTasks, Fresh, Pending
    <3> QED BY <2>1, <3>1, FreshBounds, DaemonAssumption DEF WithinLimits
  <2>4. Moves(c, r) /\ Quiet /\ Relies(r) /\ Sees(r)
    BY <1>1, <2>1, <2>2, <2>3 DEF Moves, Quiet, Counts, Outside, Holding, Relies, Sees, WithTask
  <2> QED BY <1>1, <2>4, MoveOnly
<1> QED
  BY <1>2, <1>3

\* A submission that stores nothing.
LEMMA AcceptNothingStep ==
    ASSUME DaemonInv, NEW c \in Callers, AcceptNothing(c)
    PROVE  DaemonInv'
<1>1. rpc[c].pc = "checked" /\ rpc[c].task \in Tasks /\ "stored" \in Points
  BY DEF AcceptNothing, At, DaemonInv, CallOK, Relies, WithTask, Points
<1>2. CASE Leave(c)
  BY <1>1, <1>2, Leaving
<1>3. CASE Step(c, "stored")
  <2>1. /\ Moves(c, To(c, "stored")) /\ To(c, "stored").pc = "stored" /\ Quiet
        /\ To(c, "stored").task = rpc[c].task
    BY <1>1, <1>3, Going DEF DaemonInv, Step, Holding, Quiet
  <2> QED BY <1>1, <2>1, MoveOnly DEF Relies, Sees, WithTask
<1> QED
  BY <1>2, <1>3 DEF AcceptNothing

\* notify_waiters reaches every poll that holds a Notified, so none is left
\* that misses the task; then the lock is dropped.
LEMMA NotifyStep ==
    ASSUME DaemonInv, NEW c \in Callers, Notify(c)
    PROVE  DaemonInv'
<1>1. /\ rpc \in [Callers -> CallRecord] /\ rpc[c].pc = "stored" /\ lock = c
      /\ lock' = NoOne /\ Quiet /\ UNCHANGED process /\ rpc[c].task \in Tasks
  BY DEF DaemonInv, ProcessOK, Notify, At, Holding, CallOK, Relies, WithTask, Quiet
<1>2. ASSUME NEW b \in Callers
      PROVE  /\ rpc'[b] \in CallRecord
             /\ b # c => /\ rpc'[b].pc = rpc[b].pc /\ rpc'[b].op = rpc[b].op
                         /\ rpc'[b].task = rpc[b].task /\ rpc'[b].peer = rpc[b].peer
                         /\ rpc'[b].candidates = rpc[b].candidates
                         /\ rpc[b].pc \in Polling => rpc'[b].notified
             /\ b = c => /\ rpc'[c].pc = IF rpc[c].op = "incoming" THEN "dispatching" ELSE "idle"
                         /\ rpc'[c].op = IF rpc[c].op = "incoming" THEN "incoming" ELSE "none"
                         /\ rpc[c].op = "incoming" => rpc'[c].task = rpc[c].task
  <2>1. rpc[b] \in CallRecord
    BY <1>1
  <2>2. rpc'[b] = IF b = c
                  THEN IF rpc[c].op = "incoming" THEN [rpc[c] EXCEPT !.pc = "dispatching"] ELSE Idle
                  ELSE IF rpc[b].pc \in Polling THEN [rpc[b] EXCEPT !.notified = TRUE] ELSE rpc[b]
    BY DEF Notify
  <2>3. CASE b = c
    BY <2>1, <2>2, <2>3, IdleCall DEF CallRecord, Points
  <2>4. CASE b # c
    BY <2>1, <2>2, <2>4 DEF CallRecord
  <2> QED BY <2>3, <2>4
<1>3. rpc' \in [Callers -> CallRecord]
  <2>1. rpc' = [b \in Callers |-> rpc'[b]]
    BY DEF Notify
  <2> QED BY <1>2, <2>1
<1>4. ProcessOK'
  <2>1. /\ Counted \in SUBSET Callers /\ in_flight = Cardinality(Counted)
        /\ c \in Counted <=> rpc[c].op # "incoming"
        /\ in_flight' = IF rpc[c].op = "incoming" THEN in_flight ELSE in_flight - 1
    BY <1>1 DEF DaemonInv, ProcessOK, Counted, Counts, Notify
  <2>a. Counted' = Counted \ {c}
    BY <1>2 DEF Counted, Counts
  <2>2. in_flight' = Cardinality(Counted')
    <3>1. CASE rpc[c].op = "incoming"
      <4>1. Counted' = Counted
        BY <2>1, <2>a, <3>1
      <4> QED BY <2>1, <3>1, <4>1
    <3>2. CASE rpc[c].op # "incoming"
      BY <2>1, <2>a, <3>2, CountingCalls
    <3> QED BY <3>1, <3>2
  <2>3. \A b \in Callers : /\ lock' = b <=> rpc'[b].pc \in Holding
                           /\ rpc'[b].pc = "admitted" => rpc'[b].op # "incoming"
                           /\ Outside(rpc[b]) => Outside(rpc'[b])
    BY <1>1, <1>2, DaemonAssumption DEF DaemonInv, ProcessOK, Holding, Outside
  <2> QED BY <1>1, <1>3, <2>2, <2>3 DEF DaemonInv, ProcessOK, process
<1>5. TablesOK' /\ SentIsRecorded' /\ WorkerResultReturned'
  BY <1>1, QuietMove
<1>6. /\ FreshTasks' = FreshTasks /\ UNCHANGED <<published, route, status>>
      /\ \A t : Exists(t)' <=> Exists(t)
  BY <1>1 DEF FreshTasks, Fresh, Exists, rvars, vars, relay, Quiet
<1>7. ASSUME NEW b \in Callers PROVE CallOK(b)'
  <2>1. CASE b = c
    BY <1>1, <1>2, <2>1 DEF CallOK, Relies, Sees, WithTask
  <2>2. CASE b # c
    <3>1. Relies(rpc[b])
      BY DEF DaemonInv, CallOK
    <3>2. /\ rpc'[b].pc = rpc[b].pc /\ rpc'[b].op = rpc[b].op /\ rpc'[b].task = rpc[b].task
          /\ rpc'[b].peer = rpc[b].peer /\ rpc'[b].candidates = rpc[b].candidates
          /\ rpc[b].pc \in Polling => rpc'[b].notified
      BY <1>2, <2>2
    <3>3. Relies(rpc[b])'
      BY <1>6, <3>1, <3>2, Zenon DEF Relies
    <3> QED BY <3>2, <3>3 DEF CallOK, Sees, Polling
  <2> QED BY <2>1, <2>2
<1> QED
  BY <1>4, <1>5, <1>6, <1>7 DEF DaemonInv, PendingBounded, FreshTasks

\* A row for t is new; nothing else is.
NewRow(t, r) ==
    /\ Exists(t)' /\ route'[t] = r /\ t \notin Enveloped
    /\ FreshTasks' \subseteq FreshTasks \cup (IF r = "outbound" THEN {} ELSE {t})
    /\ Enveloped' \subseteq Enveloped \cup {t}

\* The tables after a task was accepted, with or without its envelope.
LEMMA Inserted ==
    ASSUME DaemonInv, NEW t \in Tasks, NEW k \in Keys \cup {NoKey},
           NEW d \in Deadlines \cup {NoDeadline}, NEW r \in {"local", "inbound", "outbound"},
           NEW at \in ReadTimes, InsertTask(t, k, d, r),
           UNCHANGED <<result, outbox, granted, relay>>,
           envelope' = envelope \/ envelope' = [envelope EXCEPT ![t] = at]
    PROVE  TablesOK' /\ Grows /\ NewRow(t, r) /\ SentIsRecorded' /\ WorkerResultReturned'
<1>1. TypeOK' /\ ActiveLeaseOwnsTask' /\ Grows
  <2>1. [Next]_vars
    BY DEF Next, Accepting, AcceptTask, AcceptTaskWithContext
  <2> QED BY <2>1, StoreGrows DEF DaemonInv
<1>2. /\ TablesOK /\ clock' = clock /\ ~Exists(t) /\ Exists(t)' /\ route'[t] = r
      /\ \A u \in Tasks \ {t} : status'[u] = status[u]
  BY DEF DaemonInv, TablesOK, TypeOK, InsertTask, Exists
<1>3. /\ envelope' \in [Tasks -> Nat] /\ t \notin Enveloped
      /\ \A u \in Tasks \ {t} : envelope'[u] = envelope[u]
  <2>1. at \in Nat
    BY <1>2, ClockReads
  <2> QED BY <1>2, <2>1 DEF TablesOK, Enveloped
<1>4. NewRow(t, r)
  <2>1. ASSUME NEW u \in Tasks, Fresh(u)' PROVE Fresh(u) \/ (u = t /\ r # "outbound")
    BY <1>1, <1>2, <2>1 DEF Grows, Exists, Fresh
  <2> QED BY <1>2, <1>3, <2>1 DEF NewRow, FreshTasks, Enveloped
<1>5. TablesOK'
  <2>1. \A u \in Tasks :
            /\ Exists(u)' => Len(task_events'[u]) >= 1
            /\ ~Exists(u)' => result'[u] = "none" /\ envelope'[u] = NoEnvelope
            /\ outbox'[u].state # "none" => result'[u] # "none"
    BY <1>1, <1>2, <1>3 DEF Grows, TablesOK, Exists
  <2>2. ASSUME NEW g \in granted PROVE Exists(g[1])' /\ route'[g[1]] # "outbound"
    <3>1. g[1] \in Tasks /\ Exists(g[1]) /\ route[g[1]] # "outbound"
      BY <1>2 DEF TablesOK
    <3> QED BY <1>1, <3>1 DEF Grows
  <2> QED BY <1>1, <1>2, <1>3, <2>1, <2>2 DEF TablesOK, RowsTyped, relay
<1> QED
  BY <1>1, <1>4, <1>5, Unsent, Unsettled

\* One more task at most.
LEMMA OneMore ==
    ASSUME NEW S \in SUBSET Tasks, NEW t \in Tasks, NEW T \in SUBSET (S \cup {t})
    PROVE  /\ Cardinality(S) \in Nat /\ Cardinality(T) \in Nat
           /\ Cardinality(T) <= Cardinality(S) + 1
<1>1. S \cup {t} \in SUBSET Tasks
  OBVIOUS
<1>2. /\ IsFiniteSet(S) /\ Cardinality(S) \in Nat /\ Cardinality(T) \in Nat
      /\ Cardinality(T) <= Cardinality(S \cup {t}) /\ Cardinality(S \cup {t}) \in Nat
  BY <1>1, FreshBounds
<1>3. Cardinality(S \cup {t}) = IF t \in S THEN Cardinality(S) ELSE Cardinality(S) + 1
  BY <1>2, FS_AddElement
<1> QED
  BY <1>2, <1>3

\* accept_task under the lock: the count that was within the limit still is the
\* count, so one more task is within it too.
LEMMA AcceptStep ==
    ASSUME DaemonInv, NEW c \in Callers, Accept(c)
    PROVE  DaemonInv'
<1> DEFINE t == rpc[c].task
           route_ == RouteOf(rpc[c].op)
<1>1. /\ rpc[c].pc = "checked" /\ Relies(rpc[c]) /\ t \in Tasks /\ lock = c
      /\ UNCHANGED <<result, outbox, granted, relay, process>>
      /\ route_ \in {"local", "inbound", "outbound"}
      /\ \A b \in Callers \ {c} : rpc[b].pc \notin {"checked", "stored"}
  BY DEF Accept, At, DaemonInv, CallOK, Relies, WithTask, ProcessOK, Holding, RouteOf
<1>2. PICK k \in Keys \cup {NoKey}, d \in Deadlines \cup {NoDeadline}, at \in ReadTimes :
          /\ InsertTask(t, k, d, route_)
          /\ \/ Return(c) /\ UNCHANGED envelope
             \/ Go(c, "stored") /\ envelope' = [envelope EXCEPT ![t] = at]
  BY DEF Accept
<1> HIDE DEF t, route_
<1>3. TablesOK' /\ Grows /\ NewRow(t, route_) /\ SentIsRecorded' /\ WorkerResultReturned'
  <2>1. envelope' = envelope \/ envelope' = [envelope EXCEPT ![t] = at]
    BY <1>2
  <2>2. InsertTask(t, k, d, route_) /\ UNCHANGED <<result, outbox, granted, relay>>
    BY <1>1, <1>2
  <2>3. t \in Tasks /\ route_ \in {"local", "inbound", "outbound"}
    BY <1>1
  <2> QED
    BY <2>1, <2>2, <2>3, Inserted
<1>4. /\ t \notin Enveloped /\ FreshTasks' \subseteq FreshTasks \cup {t}
      /\ Enveloped' \subseteq Enveloped \cup {t}
  BY <1>3 DEF NewRow
<1>5. PendingBounded'
  <2>1. FreshTasks \in SUBSET Tasks /\ FreshTasks' \in SUBSET (FreshTasks \cup {t})
    BY <1>4 DEF FreshTasks
  <2>2. Cardinality(FreshTasks) < MaxPending
    BY <1>1 DEF Relies
  <2>3. /\ Cardinality(FreshTasks) \in Nat /\ Cardinality(FreshTasks') \in Nat
        /\ Cardinality(FreshTasks') <= Cardinality(FreshTasks) + 1
    BY <1>1, <2>1, OneMore
  <2>4. Cardinality(FreshTasks') <= MaxPending
    BY <2>2, <2>3, DaemonAssumption
  <2> QED BY <2>4 DEF PendingBounded, FreshTasks
<1>6. /\ ProcessOK' /\ Only(c) /\ CallOK(c)'
      /\ t \in Enveloped' => rpc'[c].pc = "stored" /\ rpc'[c].task = t
  <2>1. CASE Return(c) /\ UNCHANGED envelope
    <3>1. Moves(c, Idle)
      BY <1>1, <2>1, Returning DEF DaemonInv
    <3>2. ProcessOK' /\ Only(c) /\ rpc'[c] = Idle
      BY <3>1, Moving DEF DaemonInv
    <3> QED BY <1>4, <2>1, <3>2, IdleCall DEF CallOK, Relies, Sees, WithTask, Enveloped
  <2>2. CASE Go(c, "stored")
    <3>1. Moves(c, To(c, "stored")) /\ To(c, "stored").pc = "stored" /\ To(c, "stored").task = t
      <4>1. "stored" \in Points /\ "checked" \in Holding /\ "stored" \in Holding
        BY DEF Points, Holding
      <4> QED BY <1>1, <2>2, <4>1, Going DEF DaemonInv, t
    <3>2. ProcessOK' /\ Only(c) /\ rpc'[c] = To(c, "stored")
      BY <3>1, Moving DEF DaemonInv
    <3> QED BY <1>1, <3>1, <3>2 DEF CallOK, Relies, Sees, WithTask
  <2> QED BY <1>2, <2>1, <2>2
<1>7. ASSUME NEW b \in Callers \ {c} PROVE CallOK(b)'
  <2>1. /\ rpc'[b] = rpc[b] /\ Relies(rpc[b]) /\ Sees(rpc[b])
        /\ rpc[b].pc \notin {"checked", "stored"} /\ published' = published
    BY <1>1, <1>6 DEF Only, DaemonInv, CallOK, relay
  <2>2. Relies(rpc[b])'
    BY <1>3, <2>1 DEF Relies, Grows, WithTask
  <2>3. Sees(rpc[b])'
    <3>1. \A a \in Callers : rpc[a].pc # "stored"
      BY <1>1
    <3>2. \A u \in (FreshTasks \cap Enveloped)' : u = t \/ u \in FreshTasks \cap Enveloped
      BY <1>4
    <3> QED BY <1>6, <2>1, <3>1, <3>2 DEF Sees
  <2> QED BY <2>2, <2>3 DEF CallOK
<1> QED
  BY <1>3, <1>5, <1>6, <1>7 DEF DaemonInv

\* Every step of a submission.
LEMMA SubmittingStep ==
    ASSUME DaemonInv, NEW c \in Callers, Submitting(c)
    PROVE  DaemonInv'
BY AcceptAgainStep, CheckLimitsStep, AcceptStep, AcceptNothingStep, NotifyStep DEF Submitting
==============================================================================
