---------------------------- MODULE DaemonProofs -----------------------------
(* Proofs about Daemon: the steps of the other handlers and of the process,  *)
(* and the theorems, for any number of tasks, workers, concurrent callers    *)
(* and restarts, and for all limits.                                         *)
EXTENDS DaemonSubmitProofs
------------------------------------------------------------------------------
(* Claims.                                                                   *)

\* A handler answers, after an operation of the store that accepts no task.
LEMMA Answering ==
    ASSUME DaemonInv, NEW c \in Callers, Return(c), rpc[c].pc \notin {"idle", "admitted", "stored"},
           UNCHANGED process, StoreMove, Grows => SentIsRecorded' /\ WorkerResultReturned'
    PROVE  DaemonInv'
BY Returning, IdleCall, MoveAfter DEF DaemonInv, Aimless

\* An operation of the store that accepts no task and files no result.
LEMMA NothingFiled ==
    ASSUME DaemonInv, Later, UNCHANGED <<result, outbox, envelope, relay>>,
           \A g \in granted' : \/ g \in granted
                               \/ /\ g \in Tasks \X (0..MaxTime) \X Workers
                                  /\ Exists(g[1]) /\ route[g[1]] # "outbound"
    PROVE  StoreMove /\ (Grows => SentIsRecorded' /\ WorkerResultReturned')
<1>1. StoreMove
  BY DEF StoreMove, DaemonInv, TablesOK, RowsTyped, relay
<1> QED
  BY <1>1, Unsent, Unsettled

\* The lease of a claim, and the answer to it.
LEMMA LeaseForStep ==
    ASSUME DaemonInv, NEW t \in Tasks, NEW now \in ReadTimes, LeaseFor(t, now),
           UNCHANGED <<result, outbox, envelope, relay, process>>,
           NEW c \in Callers, Return(c), rpc[c].pc \notin {"idle", "admitted", "stored"}
    PROVE  DaemonInv'
<1>1. now \in 0..MaxTime
  BY ClockReads DEF DaemonInv
<1>2. Later
  BY DEF Later, Leasing, LeaseFor
<1>3. \A g \in granted' : \/ g \in granted
                          \/ /\ g \in Tasks \X (0..MaxTime) \X Workers
                             /\ Exists(g[1]) /\ route[g[1]] # "outbound"
  BY <1>1 DEF LeaseFor, LeaseTask, Leasable
<1> QED
  BY <1>2, <1>3, NothingFiled, Answering

\* fail_expired_deadlines of a claim.
LEMMA ExpireFirstStep ==
    ASSUME DaemonInv, NEW c \in Callers, ExpireFirst(c)
    PROVE  DaemonInv'
<1>1. /\ rpc[c].pc \in {"listening", "inside"} /\ Go(c, "expired") /\ "expired" \in Points
      /\ UNCHANGED <<result, outbox, envelope, granted, relay, process>>
  BY DEF ExpireFirst, At, Serving, Points
<1>2. Later
  BY DEF ExpireFirst, Later, Scanning
<1>3. Moves(c, To(c, "expired")) /\ To(c, "expired").pc = "expired"
  BY <1>1, Going DEF DaemonInv, Holding
<1>4. StoreMove /\ (Grows => SentIsRecorded' /\ WorkerResultReturned')
  BY <1>1, <1>2, NothingFiled
<1> QED
  BY <1>1, <1>3, <1>4, MoveAfter DEF Aimless

\* A poll takes a new Notified.
LEMMA ListenStep ==
    ASSUME DaemonInv, NEW c \in Callers, Listen(c) \/ Wake(c)
    PROVE  DaemonInv'
<1> DEFINE r == [rpc[c] EXCEPT !.pc = "listening", !.notified = FALSE]
<1>1. rpc[c] \in CallRecord /\ rpc[c].pc \in {"inside", "waiting"} /\ lock # c
  BY DEF DaemonInv, ProcessOK, Listen, Wake, Serving, At, Holding
<1>2. /\ UNCHANGED <<rvars, envelope, granted, relay, process, in_flight, lock>>
      /\ r \in CallRecord /\ r.pc = "listening" /\ r.op = rpc[c].op /\ rpc' = [rpc EXCEPT ![c] = r]
  BY <1>1 DEF CallRecord, Points, Listen, Wake, DaemonInv, ProcessOK
<1> HIDE DEF r
<1>3. Moves(c, r) /\ Quiet /\ Relies(r) /\ Sees(r)
  BY <1>1, <1>2 DEF Moves, Quiet, Counts, Outside, Holding, Relies, Sees, WithTask
<1> QED
  BY <1>1, <1>3, MoveOnly

\* A task that nobody touched can be claimed or has run out of time.
LEMMA FreshCanBeTaken ==
    ASSUME DaemonInv, NEW t \in Tasks, Fresh(t), NEW now
    PROVE  LogRoom(t) /\ (CanLease(t, now) \/ TooLate(t, now))
<1>1. LogRoom(t) /\ LegalTransition(status[t], "running") /\ status[t] \in Live
  BY DaemonAssumption DEF Fresh, LogRoom, LegalTransition, Live
<1>2. Leasable(t)
  BY DEF Fresh, Leasable, Exists, DaemonInv, TablesOK, ActiveLeaseOwnsTask
<1> QED
  BY <1>1, <1>2 DEF CanLease, TooLate

\* The scan comes back with every task that nobody touched.
LEMMA ScanStep ==
    ASSUME DaemonInv, NEW c \in Callers, Scan(c)
    PROVE  DaemonInv'
<1> DEFINE found == {t \in Tasks : Claimable(t) /\ LogRoom(t)}
<1>1. PICK q \in [1..Cardinality(found) -> found] :
          /\ \A t \in found : \E i \in DOMAIN q : q[i] = t
          /\ rpc' = [rpc EXCEPT ![c].pc = "trying", ![c].candidates = q]
  BY DEF Scan
<1>2. /\ rpc[c] \in CallRecord /\ rpc[c].pc = "expired" /\ lock # c
      /\ UNCHANGED <<rvars, envelope, granted, relay, process, in_flight, lock>>
  BY DEF DaemonInv, ProcessOK, Scan, Serving, At, Holding
<1>3. q \in Seq(Tasks) /\ DOMAIN q = 1..Len(q)
  <2> DEFINE n == Cardinality(found)
  <2>1. found \subseteq Tasks /\ q \in [1..n -> found]
    OBVIOUS
  <2>2. n \in Nat
    BY <2>1, FreshBounds
  <2> HIDE DEF n, found
  <2> QED BY <2>1, <2>2
<1>4. \A t \in FreshTasks \cap Enveloped : \E i \in 1..Len(q) : q[i] = t
  <2>1. FreshTasks \cap Enveloped \subseteq found
    BY FreshCanBeTaken DEF FreshTasks, Claimable, Pending, Fresh, Enveloped
  <2> QED BY <1>1, <1>3, <2>1
<1> DEFINE r == [rpc[c] EXCEPT !.pc = "trying", !.candidates = q]
<1>5. /\ r \in CallRecord /\ r.pc = "trying" /\ r.op = rpc[c].op /\ r.candidates = q
      /\ rpc' = [rpc EXCEPT ![c] = r]
  BY <1>1, <1>2, <1>3 DEF CallRecord, Points, DaemonInv, ProcessOK
<1> HIDE DEF r, found
<1>6. Moves(c, r) /\ Quiet /\ Relies(r) /\ Sees(r)
  BY <1>2, <1>4, <1>5 DEF Moves, Quiet, Counts, Outside, Holding, Relies, Sees, WithTask
<1> QED
  BY <1>2, <1>6, MoveOnly

\* A candidate is passed over only if it is no longer untouched.
LEMMA TryLeaseStep ==
    ASSUME DaemonInv, NEW c \in Callers, TryLease(c)
    PROVE  DaemonInv'
<1> DEFINE cs == rpc[c].candidates
<1>1. /\ rpc[c] \in CallRecord /\ rpc[c].pc = "trying" /\ lock # c
      /\ cs \in Seq(Tasks) /\ cs # <<>>
  BY DEF DaemonInv, ProcessOK, TryLease, At, CallRecord, Holding
<1>2. /\ Head(cs) \in Tasks /\ Tail(cs) \in Seq(Tasks) /\ Len(Tail(cs)) = Len(cs) - 1
      /\ Head(cs) = cs[1] /\ \A i \in 1..Len(Tail(cs)) : Tail(cs)[i] = cs[i + 1]
  BY <1>1
<1>3. PICK now \in ReadTimes :
          \/ /\ LeaseFor(Head(cs), now)
             /\ Return(c)
             /\ UNCHANGED <<result, outbox, envelope, relay, process>>
          \/ /\ ~CanLease(Head(cs), now) /\ ~TooLate(Head(cs), now)
             /\ rpc' = [rpc EXCEPT ![c].candidates = Tail(cs)]
             /\ UNCHANGED <<rvars, envelope, granted, relay, process, in_flight, lock>>
  BY DEF TryLease
<1>4. CASE LeaseFor(Head(cs), now) /\ Return(c)
           /\ UNCHANGED <<result, outbox, envelope, relay, process>>
  BY <1>1, <1>2, <1>4, LeaseForStep
<1>5. CASE /\ ~CanLease(Head(cs), now) /\ ~TooLate(Head(cs), now)
           /\ rpc' = [rpc EXCEPT ![c].candidates = Tail(cs)]
           /\ UNCHANGED <<rvars, envelope, granted, relay, process, in_flight, lock>>
  <2> DEFINE r == [rpc[c] EXCEPT !.candidates = Tail(cs)]
  <2>1. /\ r \in CallRecord /\ r.pc = "trying" /\ r.op = rpc[c].op /\ r.candidates = Tail(cs)
        /\ r.notified = rpc[c].notified /\ rpc' = [rpc EXCEPT ![c] = r]
    BY <1>1, <1>2, <1>5 DEF CallRecord, DaemonInv, ProcessOK
  <2> HIDE DEF r
  <2>2. ASSUME ~r.notified, NEW t \in FreshTasks \cap Enveloped
        PROVE  \/ \E i \in 1..Len(r.candidates) : r.candidates[i] = t
               \/ \E b \in Callers : rpc[b].pc = "stored" /\ rpc[b].task = t
    <3>1. t # Head(cs)
      BY <1>5, FreshCanBeTaken DEF FreshTasks
    <3>2. \/ \E i \in 1..Len(cs) : cs[i] = t
          \/ \E b \in Callers : rpc[b].pc = "stored" /\ rpc[b].task = t
      BY <1>1, <2>1, <2>2 DEF DaemonInv, CallOK, Sees
    <3>3. ASSUME NEW i \in 1..Len(cs), cs[i] = t
          PROVE  \E j \in 1..Len(Tail(cs)) : Tail(cs)[j] = t
      <4>1. i - 1 \in 1..Len(Tail(cs)) /\ (i - 1) + 1 = i
        BY <1>1, <1>2, <3>1, <3>3
      <4> QED BY <1>2, <3>3, <4>1
    <3> QED BY <2>1, <3>2, <3>3
  <2>3. Moves(c, r) /\ Quiet /\ Relies(r) /\ Sees(r)
    BY <1>1, <1>5, <2>1, <2>2 DEF Moves, Quiet, Counts, Outside, Holding, Relies, Sees, WithTask
  <2> QED BY <1>1, <2>3, MoveOnly
<1> QED
  BY <1>3, <1>4, <1>5

\* A poll begins to wait with nothing left to try.
LEMMA WaitStep ==
    ASSUME DaemonInv, NEW c \in Callers, Wait(c)
    PROVE  DaemonInv'
<1>1. /\ rpc[c].pc = "trying" /\ rpc[c].candidates = <<>> /\ Sees(rpc[c])
      /\ Step(c, "waiting") /\ "waiting" \in Points
  BY DEF Wait, NothingFound, At, DaemonInv, CallOK, Points
<1> DEFINE r == To(c, "waiting")
<1>2. /\ Moves(c, r) /\ Quiet /\ r.pc = "waiting" /\ r.candidates = rpc[c].candidates
      /\ r.notified = rpc[c].notified
  BY <1>1, Going DEF DaemonInv, Step, Holding, Quiet
<1> HIDE DEF r
<1>3. Relies(r) /\ Sees(r)
  BY <1>1, <1>2 DEF Relies, Sees, WithTask
<1> QED
  BY <1>1, <1>2, <1>3, MoveOnly

\* Every step of a claim.
LEMMA ClaimingStep ==
    ASSUME DaemonInv, NEW c \in Callers, Claiming(c)
    PROVE  DaemonInv'
<1>1. CASE Dispatch(c)
  <2>1. rpc[c].pc = "dispatching" /\ rpc[c].task \in Tasks
    BY <1>1 DEF Dispatch, At, DaemonInv, CallOK, Relies, WithTask
  <2> QED BY <1>1, <2>1, LeaseForStep, Leaving DEF Dispatch
<1>2. CASE ClaimTask(c)
  BY <1>2, LeaseForStep, Leaving DEF ClaimTask, Serving, At
<1>3. CASE GiveUp(c)
  BY <1>3, Leaving DEF GiveUp, NothingFound, At
<1> QED
  BY <1>1, <1>2, <1>3, ListenStep, ExpireFirstStep, ScanStep, TryLeaseStep, WaitStep DEF Claiming
------------------------------------------------------------------------------
(* Settling.                                                                 *)

\* What a settling handler reads before its transaction.
LEMMA LookStep ==
    ASSUME DaemonInv, NEW c \in Callers, Look(c)
    PROVE  DaemonInv'
<1>1. PICK t \in Tasks :
          /\ rpc[c].op # "cancel" => \E g \in granted : g[1] = t
          /\ rpc' = [rpc EXCEPT ![c].pc = "looked", ![c].task = t, ![c].peer = ReturnPeer(t)]
  BY DEF Look
<1>2. /\ rpc[c] \in CallRecord /\ rpc[c].pc = "inside" /\ lock # c
      /\ UNCHANGED <<rvars, envelope, granted, relay, process, in_flight, lock>>
  BY DEF DaemonInv, ProcessOK, Look, At, Holding
<1> DEFINE p == ReturnPeer(t)
           r == [rpc[c] EXCEPT !.pc = "looked", !.task = t, !.peer = p]
<1>3. p \in BOOLEAN /\ (Exists(t) => p = (route[t] # "local"))
  BY DEF ReturnPeer
<1> HIDE DEF p
<1>4. /\ r \in CallRecord /\ r.pc = "looked" /\ r.op = rpc[c].op /\ r.task = t /\ r.peer = p
      /\ rpc' = [rpc EXCEPT ![c] = r]
  BY <1>1, <1>2, <1>3 DEF CallRecord, Points, p, DaemonInv, ProcessOK
<1> HIDE DEF r
<1>5. Relies(r)
  <2>1. rpc[c].op \in {"complete", "fail"} => Exists(t) /\ route[t] # "outbound"
    BY <1>1 DEF DaemonInv, TablesOK
  <2>2. r.op \in {"complete", "fail"} =>
            Exists(r.task) /\ route[r.task] # "outbound" /\ r.peer = (route[r.task] # "local")
    BY <1>3, <1>4, <2>1, Zenon
  <2> QED BY <1>4, <2>2 DEF Relies, WithTask
<1>6. Moves(c, r) /\ Quiet /\ Sees(r)
  BY <1>2, <1>4 DEF Moves, Quiet, Counts, Outside, Holding, Sees
<1> QED
  BY <1>2, <1>5, <1>6, MoveOnly

\* A result is filed for t and only for t, and goes to the outbox if it is owed.
FiledOnly(t, outcome) ==
    /\ Exists(t) /\ outcome \in Outcomes /\ result[t] = "none"
    /\ result' = [result EXCEPT ![t] = outcome]
    /\ outbox' \in [Tasks -> OutboxRecord] /\ \A u \in Tasks \ {t} : outbox'[u] = outbox[u]
    /\ outcome \in {"completed", "failed"} => (outbox'[t].state # "none" <=> route[t] = "inbound")

\* The tables after a result is filed.
LEMMA Filing ==
    ASSUME DaemonInv, NEW t \in Tasks, NEW outcome, FiledOnly(t, outcome), Later,
           UNCHANGED <<envelope, granted, relay>>
    PROVE  StoreMove /\ (Grows => SentIsRecorded' /\ WorkerResultReturned')
<1>1. /\ result'[t] = outcome /\ outcome \in {"completed", "failed", "canceled"} /\ outcome # "none"
      /\ \A u \in Tasks \ {t} : result'[u] = result[u] /\ outbox'[u] = outbox[u]
      /\ RowsTyped'
  BY DEF DaemonInv, TablesOK, RowsTyped, FiledOnly, Outcomes
<1>2. StoreMove
  <2>1. \A u \in Tasks : /\ ~Exists(u) => result'[u] = "none"
                         /\ outbox'[u].state # "none" => result'[u] # "none"
    BY <1>1 DEF DaemonInv, TablesOK, FiledOnly
  <2> QED BY <1>1, <2>1 DEF StoreMove, DaemonInv, TablesOK, relay
<1>3. ASSUME Grows, NEW u \in Tasks
      PROVE  /\ route'[u] = "inbound" /\ result'[u] \in {"completed", "failed"} =>
                   outbox'[u].state # "none"
             /\ outbox'[u].state # "none" /\ route'[u] # "inbound" => result'[u] = "canceled"
  <2>1. CASE u = t
    BY <1>1, <1>3, <2>1 DEF Grows, FiledOnly
  <2>2. CASE u # t /\ Exists(u)
    BY <1>1, <1>3, <2>2 DEF Grows, DaemonInv, WorkerResultReturned
  <2>3. CASE u # t /\ ~Exists(u)
    BY <1>1, <2>3 DEF DaemonInv, TablesOK
  <2> QED BY <2>1, <2>2, <2>3
<1>4. Grows => WorkerResultReturned'
  BY <1>3 DEF WorkerResultReturned
<1> QED
  BY <1>2, <1>4, Unsent

\* make_outbox, with the return peer read earlier.
LEMMA Storing ==
    ASSUME DaemonInv, NEW c \in Callers, rpc[c].pc = "looked", result[rpc[c].task] = "none",
           Exists(rpc[c].task), NEW outcome \in Outcomes, NEW at \in ReadTimes,
           StoreResult(rpc[c].task, outcome, at, rpc[c].peer),
           rpc[c].op \in {"complete", "fail"} \/ outcome = "canceled"
    PROVE  FiledOnly(rpc[c].task, outcome)
<1> DEFINE t == rpc[c].task
           row == [NoDelivery EXCEPT !.state = "pending", !.created_at = at, !.next_at = at]
<1>1. t \in Tasks /\ rpc[c].peer \in BOOLEAN /\ route[t] \in Routes /\ at \in Nat
  <2>1. t \in Tasks /\ rpc[c].peer \in BOOLEAN
    BY DEF DaemonInv, CallOK, Relies, WithTask, ProcessOK, CallRecord
  <2>2. route \in [Tasks -> Routes] /\ at \in Nat
    BY ClockReads DEF DaemonInv, TablesOK, TypeOK
  <2> QED BY <2>1, <2>2
<1>2. row \in OutboxRecord /\ row.state = "pending"
  BY <1>1 DEF NoDelivery, OutboxRecord
<1>3. /\ outbox \in [Tasks -> OutboxRecord] /\ outbox[t].state = "none"
      /\ rpc[c].op \in {"complete", "fail"} =>
            route[t] # "outbound" /\ rpc[c].peer = (route[t] # "local")
  BY <1>1 DEF DaemonInv, TablesOK, RowsTyped, CallOK, Relies
<1>4. /\ result' = [result EXCEPT ![t] = outcome]
      /\ rpc[c].peer => outbox' = [outbox EXCEPT ![t] = row]
      /\ ~rpc[c].peer => outbox' = outbox
  BY DEF StoreResult
<1> HIDE DEF row, t
<1>5. /\ outbox' \in [Tasks -> OutboxRecord] /\ \A u \in Tasks \ {t} : outbox'[u] = outbox[u]
      /\ rpc[c].peer => outbox'[t].state # "none"
      /\ ~rpc[c].peer => outbox'[t].state = "none"
  BY <1>1, <1>2, <1>3, <1>4
<1>6. route[t] # "outbound" => (route[t] # "local" <=> route[t] = "inbound")
  BY <1>1 DEF Routes
<1>7. outcome \in {"completed", "failed"} => (outbox'[t].state # "none" <=> route[t] = "inbound")
  BY <1>1, <1>3, <1>5, <1>6
<1> QED
  BY <1>4, <1>5, <1>7 DEF FiledOnly, t

\* Every step of CompleteTask, FailTask and CancelTask.
LEMMA WorkingStep ==
    ASSUME DaemonInv, NEW c \in Callers, Working(c)
    PROVE  DaemonInv'
<1> DEFINE t == rpc[c].task
<1>1. CASE Look(c)
  BY <1>1, LookStep
<1>2. ASSUME Complete(c) \/ Fail(c) \/ CancelNow(c)
      PROVE  /\ rpc[c].pc = "looked" /\ Return(c) /\ result[t] = "none" /\ t \in Tasks
             /\ UNCHANGED <<envelope, granted, relay, process>>
             /\ \A g \in granted : g[2] \in 0..MaxTime /\ g[3] \in Workers
  <2>1. /\ rpc[c].pc = "looked" /\ Return(c) /\ result[t] = "none"
        /\ UNCHANGED <<envelope, granted, relay, process>>
    BY <1>2 DEF Complete, Fail, CancelNow, Serving, At
  <2> QED BY <2>1 DEF DaemonInv, CallOK, Relies, WithTask, TablesOK
<1>3. CASE Complete(c)
  <2>1. PICK g \in granted, at \in ReadTimes :
            CompleteTask(t, g[2], g[3]) /\ StoreResult(t, "completed", at, rpc[c].peer)
    BY <1>3 DEF Complete
  <2>2. Later /\ "completed" \in Outcomes /\ rpc[c].op = "complete" /\ Exists(t)
    BY <1>2, <1>3, <2>1 DEF Later, Settling, Outcomes, Complete, Serving, DaemonInv, CallOK, Relies
  <2>3. FiledOnly(t, "completed")
    BY <1>2, <1>3, <2>1, <2>2, Storing
  <2> QED BY <1>2, <1>3, <2>2, <2>3, Filing, Answering
<1>4. CASE Fail(c)
  <2>1. PICK g \in granted, max \in RetryLimits, at \in ReadTimes :
            /\ FailTask(t, g[2], g[3], max)
            /\ StoreResult(t, "failed", at, rpc[c].peer) \/ UNCHANGED <<result, outbox>>
    BY <1>4 DEF Fail
  <2>2. Later /\ "failed" \in Outcomes /\ rpc[c].op = "fail" /\ Exists(t)
    BY <1>2, <1>4, <2>1 DEF Later, Settling, Outcomes, Fail, Serving, DaemonInv, CallOK, Relies
  <2>3. CASE StoreResult(t, "failed", at, rpc[c].peer)
    <3>1. FiledOnly(t, "failed")
      BY <1>2, <1>4, <2>2, <2>3, Storing
    <3> QED BY <1>2, <1>4, <2>2, <3>1, Filing, Answering
  <2>4. CASE UNCHANGED <<result, outbox>>
    BY <1>2, <1>4, <2>2, <2>4, NothingFiled, Answering
  <2> QED BY <2>1, <2>3, <2>4
<1>5. CASE CancelNow(c)
  <2>1. PICK now \in ReadTimes :
            CancelTask(t, now) /\ StoreResult(t, "canceled", now, rpc[c].peer)
    BY <1>5 DEF CancelNow
  <2>2. Later /\ "canceled" \in Outcomes /\ Exists(t)
    BY <1>2, <1>5, <2>1 DEF Later, CancelTask, Exists, Live, Outcomes
  <2>3. FiledOnly(t, "canceled")
    BY <1>2, <1>5, <2>1, <2>2, Storing
  <2> QED BY <1>2, <1>5, <2>2, <2>3, Filing, Answering
<1> QED
  BY <1>1, <1>3, <1>4, <1>5 DEF Working
------------------------------------------------------------------------------
(* Sending.                                                                  *)

\* The intent is stored, or found stored, before anything is published.
LEMMA RecordIntentStep ==
    ASSUME DaemonInv, NEW c \in Callers, RecordIntent(c)
    PROVE  DaemonInv'
<1>1. PICK t \in Tasks :
          /\ rpc' = [rpc EXCEPT ![c].pc = "publishing", ![c].task = t]
          /\ \/ StoredIntent(t) /\ UNCHANGED <<vars, envelope>>
             \/ \E k \in Keys \cup {NoKey}, d \in Deadlines \cup {NoDeadline}, at \in ReadTimes :
                   /\ InsertTask(t, k, d, "outbound")
                   /\ envelope' = [envelope EXCEPT ![t] = at]
  BY DEF RecordIntent
<1>2. /\ rpc[c] \in CallRecord /\ rpc[c].pc = "inside" /\ lock # c
      /\ UNCHANGED <<result, outbox, granted, relay, process, in_flight, lock>>
  BY DEF DaemonInv, ProcessOK, RecordIntent, Serving, At, Holding
<1> DEFINE r == [rpc[c] EXCEPT !.pc = "publishing", !.task = t]
<1>3. /\ r \in CallRecord /\ r.pc = "publishing" /\ r.op = rpc[c].op /\ r.task = t
      /\ rpc' = [rpc EXCEPT ![c] = r]
  BY <1>1, <1>2 DEF CallRecord, Points, DaemonInv, ProcessOK
<1> HIDE DEF r
<1>4. Moves(c, r)
  BY <1>2, <1>3 DEF Moves, Counts, Outside, Holding
<1>5. CASE StoredIntent(t) /\ UNCHANGED <<vars, envelope>>
  <2>1. Quiet /\ Relies(r) /\ Sees(r)
    BY <1>2, <1>3, <1>5 DEF Quiet, rvars, StoredIntent, Relies, Sees, WithTask, Exists
  <2> QED BY <1>2, <1>4, <2>1, MoveOnly
<1>6. ASSUME NEW k \in Keys \cup {NoKey}, NEW d \in Deadlines \cup {NoDeadline},
             NEW at \in ReadTimes, InsertTask(t, k, d, "outbound"),
             envelope' = [envelope EXCEPT ![t] = at]
      PROVE  DaemonInv'
  <2>1. TablesOK' /\ Grows /\ NewRow(t, "outbound") /\ SentIsRecorded' /\ WorkerResultReturned'
    BY <1>2, <1>6, Inserted
  <2>2. ProcessOK' /\ Only(c) /\ rpc'[c] = r
    BY <1>4, Moving DEF DaemonInv
  <2>3. NoNewWork /\ published \subseteq published'
    <3>1. t \notin FreshTasks
      BY <1>6 DEF FreshTasks, Fresh, InsertTask, Exists
    <3> QED BY <1>2, <2>1, <3>1 DEF NewRow, NoNewWork, relay
  <2>4. CallOK(c)'
    BY <1>3, <2>1, <2>2 DEF NewRow, CallOK, Relies, Sees, WithTask
  <2>5. PendingBounded' /\ \A b \in Callers \ {c} : CallOK(b)'
    BY <1>2, <2>1, <2>2, <2>3, OthersRely
  <2> QED BY <2>1, <2>2, <2>4, <2>5 DEF DaemonInv
<1> QED
  BY <1>1, <1>5, <1>6

\* deliver_task: the relay takes the frame of a stored task.
LEMMA PublishStep ==
    ASSUME DaemonInv, NEW c \in Callers, Publish(c)
    PROVE  DaemonInv'
<1> DEFINE t == rpc[c].task
<1>1. /\ rpc[c].pc = "publishing" /\ t \in Tasks /\ Exists(t) /\ route[t] = "outbound"
      /\ published' = published \cup {t} /\ UNCHANGED <<receipts, process>>
      /\ UNCHANGED <<vars, result, outbox, envelope, granted, status, route>>
      /\ Go(c, "accepted") \/ Return(c)
  BY DEF Publish, At, DaemonInv, CallOK, Relies, WithTask, rvars, vars
<1>2. StoreMove /\ SentIsRecorded'
  BY <1>1 DEF StoreMove, Later, DaemonInv, TablesOK, RowsTyped, SentIsRecorded, Exists
<1>3. CASE Return(c)
  BY <1>1, <1>2, <1>3, Answering, Unsettled
<1>4. CASE Go(c, "accepted")
  <2>1. Moves(c, To(c, "accepted")) /\ To(c, "accepted").pc = "accepted" /\ To(c, "accepted").task = t
    BY <1>1, <1>4, Going DEF DaemonInv, Points, Holding
  <2>2. ProcessOK' /\ Only(c) /\ rpc'[c] = To(c, "accepted")
    BY <2>1, Moving DEF DaemonInv
  <2>3. TablesOK' /\ Grows /\ NoNewWork
    BY <1>2, TablesAfter DEF DaemonInv
  <2>4. CallOK(c)'
    BY <1>1, <2>1, <2>2 DEF CallOK, Relies, Sees, WithTask, Exists
  <2>5. PendingBounded' /\ \A b \in Callers \ {c} : CallOK(b)'
    BY <1>1, <2>2, <2>3, OthersRely
  <2>6. WorkerResultReturned'
    BY <1>1, <2>3, Unsettled
  <2> QED BY <1>2, <2>2, <2>3, <2>4, <2>5, <2>6 DEF DaemonInv
<1> QED
  BY <1>1, <1>3, <1>4

\* Every step of a SendTask to another node, and of the result coming back.
LEMMA SendingStep ==
    ASSUME DaemonInv, NEW c \in Callers, Sending(c)
    PROVE  DaemonInv'
<1>1. CASE PublishFails(c)
  BY <1>1, Leaving DEF PublishFails, At
<1>2. CASE RecordReceipt(c)
  <2>1. /\ rpc[c].pc = "accepted" /\ Return(c) /\ rpc[c].task \in published
        /\ receipts' = receipts \cup {rpc[c].task}
        /\ UNCHANGED <<vars, result, outbox, status, route, envelope, granted, published, process>>
    BY <1>2 DEF RecordReceipt, At, DaemonInv, CallOK, Relies, rvars, vars
  <2>2. StoreMove /\ SentIsRecorded'
    BY <2>1 DEF StoreMove, Later, DaemonInv, TablesOK, RowsTyped, SentIsRecorded, Exists
  <2> QED BY <2>1, <2>2, Answering, Unsettled
<1>3. CASE Ingest(c)
  <2>1. /\ rpc[c].pc = "inside" /\ Return(c) /\ UNCHANGED <<envelope, granted, relay, process>>
    BY <1>3 DEF Ingest, Serving, At
  <2>2. PICK t \in published, outcome \in Outcomes : IngestRemoteResult(t, outcome)
    BY <1>3 DEF Ingest
  <2>3. /\ t \in Tasks /\ ApplyRemoteResult(t, StatusOf(outcome)) /\ StatusOf(outcome) \in Terminal
        /\ route[t] = "outbound" /\ Exists(t) /\ result[t] = "none" /\ outbox' = outbox
        /\ result' = [result EXCEPT ![t] = outcome]
    BY <2>2 DEF DaemonInv, TablesOK, IngestRemoteResult, ApplyRemoteResult, StatusOf, Terminal,
                Exists, Live
  <2>4. Later /\ FiledOnly(t, outcome)
    BY <2>3 DEF Later, FiledOnly, DaemonInv, TablesOK, RowsTyped
  <2> QED BY <2>1, <2>3, <2>4, Filing, Answering
<1> QED
  BY <1>1, <1>2, <1>3, RecordIntentStep, PublishStep DEF Sending
------------------------------------------------------------------------------
(* The process.                                                              *)

\* A step of the process, or of time, over which no call moves.
LEMMA Background ==
    ASSUME DaemonInv, Later, UNCHANGED <<result, outbox, envelope, granted, relay, rpc>>, ProcessOK'
    PROVE  DaemonInv'
<1>1. NoOne \notin Callers /\ Only(NoOne)
  BY DaemonAssumption DEF Only
<1>2. StoreMove /\ (Grows => SentIsRecorded' /\ WorkerResultReturned')
  BY NothingFiled
<1>3. TablesOK' /\ Grows /\ NoNewWork
  BY <1>2, TablesAfter DEF DaemonInv
<1>4. PendingBounded' /\ \A b \in Callers \ {NoOne} : CallOK(b)'
  BY <1>1, <1>2, <1>3, OthersRely DEF StoreMove
<1> QED
  BY <1>1, <1>2, <1>3, <1>4 DEF DaemonInv

\* A process with no call in progress.
Resting ==
    /\ rpc = [c \in Callers |-> Idle] /\ in_flight = 0 /\ lock = NoOne
    /\ phase \in {"up", "down"} /\ timed_out = FALSE /\ restarts \in 0..MaxRestarts

CallsOK == ProcessOK /\ \A c \in Callers : CallOK(c)

\* It is in order.
LEMMA AllIdle == Resting => CallsOK
<1> SUFFICES ASSUME Resting PROVE CallsOK
  OBVIOUS
<1> USE DEF Resting
<1>1. rpc \in [Callers -> CallRecord] /\ \A c \in Callers : rpc[c].pc = "idle"
  BY IdleCall
<1>2. in_flight = Cardinality(Counted)
  <2>1. Counted = {}
    BY <1>1 DEF Counted, Counts
  <2> QED BY <2>1, FS_EmptySet
<1>3. ProcessOK
  BY <1>1, <1>2, DaemonAssumption DEF ProcessOK, Phases, Holding
<1> QED
  BY <1>1, <1>3 DEF CallsOK, CallOK, Relies, Sees, WithTask

\* The process is cut off with every call in progress.
LEMMA DieStep ==
    ASSUME DaemonInv, Die
    PROVE  DaemonInv'
<1>1. Resting' /\ Quiet
  BY DEF Die, DaemonInv, ProcessOK, Quiet, Resting
<1>2. CallsOK'
  BY <1>1, AllIdle, PTL
<1>3. TablesOK' /\ SentIsRecorded' /\ WorkerResultReturned'
  BY <1>1, QuietMove
<1>4. PendingBounded'
  BY <1>1 DEF DaemonInv, PendingBounded, Fresh, Quiet, rvars, vars
<1> QED
  BY <1>2, <1>3, <1>4 DEF DaemonInv, CallsOK

\* The background loops, shutdown, startup and time.
LEMMA ProcessSteps ==
    ASSUME DaemonInv,
           LoopTick \/ StopLoops \/ InitiateShutdown \/ Drained \/ CloseStore \/ Startup \/ TimePasses
    PROVE  DaemonInv'
<1>1. Later /\ UNCHANGED <<result, outbox, envelope, granted, relay, in_flight, lock, rpc>>
  <2>1. CASE Startup
    <3>1. clock \in ReadTimes
      BY ClockReads DEF DaemonInv
    <3> QED BY <2>1, <3>1 DEF Startup, Later, Scanning
  <2>2. CASE ~Startup
    BY <2>2 DEF LoopTick, TimePasses, StopLoops, InitiateShutdown, Drained, CloseStore, PhaseStep,
                Later, rvars
  <2> QED BY <2>1, <2>2
<1>2. phase' \in Phases /\ timed_out' \in BOOLEAN /\ restarts' \in 0..MaxRestarts
  <2>1. CASE Startup
    <3>1. restarts' \in 0..MaxRestarts /\ timed_out' \in BOOLEAN
      BY <2>1, DaemonAssumption DEF Startup, DaemonInv, ProcessOK
    <3> QED BY <2>1, <3>1 DEF Startup, Phases
  <2>2. CASE ~Startup
    BY <2>2 DEF LoopTick, TimePasses, StopLoops, InitiateShutdown, Drained, CloseStore, PhaseStep,
                Phases, process, DaemonInv, ProcessOK
  <2> QED BY <2>1, <2>2
<1>3. phase' \in {"closing", "closed"} /\ ~timed_out' => \A c \in Callers : Outside(rpc[c])
  <2>1. CASE Drained /\ in_flight = 0
    <3>1. Counted \in SUBSET Callers /\ Cardinality(Counted) = 0
      BY <2>1 DEF Counted, DaemonInv, ProcessOK
    <3>2. Counted = {}
      BY <3>1, CountingCalls
    <3> QED BY <3>2 DEF Counted, Counts, Outside
  <2>2. CASE ~(Drained /\ in_flight = 0)
    BY <2>2 DEF LoopTick, TimePasses, StopLoops, InitiateShutdown, Drained, CloseStore, PhaseStep,
                Startup, process, DaemonInv, ProcessOK
  <2> QED BY <2>1, <2>2
<1>4. ProcessOK'
  <2>1. Counted' = Counted
    BY <1>1 DEF Counted
  <2> QED BY <1>1, <1>2, <1>3, <2>1 DEF DaemonInv, ProcessOK
<1> QED
  BY <1>1, <1>4, Background

\* The daemon starts in order.
LEMMA DaemonStart == DaemonInit => DaemonInv
<1> SUFFICES ASSUME DaemonInit PROVE DaemonInv
  OBVIOUS
<1>1. /\ Init /\ result = [t \in Tasks |-> "none"] /\ outbox = [t \in Tasks |-> NoDelivery]
      /\ envelope = [t \in Tasks |-> NoEnvelope]
      /\ granted = {} /\ published = {} /\ receipts = {}
      /\ phase = "up" /\ timed_out = FALSE /\ restarts = 0 /\ in_flight = 0 /\ lock = NoOne
      /\ rpc = [c \in Callers |-> Idle]
  BY DEF DaemonInit, ResultInit
<1>2. TablesOK
  <2>1. TypeOK /\ ActiveLeaseOwnsTask
    <3>1. NoLease \in LeaseRecord
      BY DEF NoLease, LeaseRecord
    <3>2. TypeOK
      BY <1>1, <3>1 DEF Init, TypeOK, Statuses, Routes
    <3>3. ActiveLeaseOwnsTask
      BY <1>1 DEF Init, ActiveLeaseOwnsTask, NoLease
    <3> QED BY <3>2, <3>3
  <2>2. NoDelivery \in OutboxRecord /\ NoDelivery.state = "none" /\ NoEnvelope \in Nat
    BY TimesAssumption DEF NoDelivery, OutboxRecord, NoEnvelope
  <2>3. RowsTyped
    BY <1>1, <2>2 DEF RowsTyped
  <2>4. clock <= MaxTime /\ \A t \in Tasks : ~Exists(t)
    BY <1>1, TimesAssumption DEF Init, Exists
  <2> QED BY <1>1, <2>1, <2>2, <2>3, <2>4 DEF TablesOK
<1>3. CallsOK
  <2>1. Resting
    BY <1>1, DaemonAssumption DEF Resting
  <2> QED BY <2>1, AllIdle
<1>4. PendingBounded
  <2>1. {t \in Tasks : Fresh(t)} = {}
    BY <1>1 DEF Init, Fresh
  <2> QED BY <2>1, FS_EmptySet, DaemonAssumption DEF PendingBounded
<1>5. SentIsRecorded /\ WorkerResultReturned
  BY <1>1 DEF SentIsRecorded, WorkerResultReturned, NoDelivery
<1> QED
  BY <1>2, <1>3, <1>4, <1>5 DEF DaemonInv, CallsOK

\* Every step keeps it in order.
LEMMA DaemonStep == DaemonInv /\ [DaemonNext]_dvars => DaemonInv'
<1> SUFFICES ASSUME DaemonInv, [DaemonNext]_dvars PROVE DaemonInv'
  OBVIOUS
<1>1. CASE Calling
  BY <1>1, EnterCheckStep DEF Calling, Callers
<1>2. ASSUME NEW c \in Callers, TakeLock(c) \/ Running(c) PROVE DaemonInv'
  BY <1>2, TakeLockStep, EnteringStep, SubmittingStep, ClaimingStep, WorkingStep, SendingStep
     DEF Running
<1>3. CASE Die
  BY <1>3, DieStep
<1>4. CASE LoopTick \/ StopLoops \/ InitiateShutdown \/ Drained \/ CloseStore \/ Startup \/ TimePasses
  BY <1>4, ProcessSteps
<1>5. CASE UNCHANGED dvars
  <2>1. Later /\ UNCHANGED <<result, outbox, envelope, granted, relay, rpc>>
    BY <1>5 DEF dvars, Later, rvars
  <2>2. UNCHANGED <<phase, timed_out, restarts, in_flight, lock, rpc>>
    BY <1>5 DEF dvars, process
  <2>3. ProcessOK'
    BY <2>2 DEF DaemonInv, ProcessOK, Counted
  <2> QED BY <2>1, <2>3, Background
<1> QED
  BY <1>1, <1>2, <1>3, <1>4, <1>5 DEF DaemonNext

\* The inductive invariant holds in every state the daemon reaches, through any
\* interleaving of its handlers, background loops, shutdowns, crashes and
\* startups.
THEOREM DaemonInvariant == DaemonSpec => []DaemonInv
BY DaemonStart, DaemonStep, PTL DEF DaemonSpec

\* Admission control holds for any number of concurrent submitters and any
\* limit: submit_backpressure_lock spans the count and the insertion in
\* submit_task, submit_remote_task, handle_incoming_task and a local send_task.
THEOREM AdmissionHolds == DaemonSpec => []PendingBounded
<1>1. DaemonInv => PendingBounded
  BY DEF DaemonInv
<1> QED
  BY <1>1, DaemonInvariant, PTL

\* No wake-up is lost, for any number of pollers and submitters:
\* claim_next_task takes its Notified before it scans.
THEOREM WakeupsAreKept == DaemonSpec => []NoLostWakeup
<1>1. DaemonInv => NoLostWakeup
  <2> SUFFICES ASSUME DaemonInv, NEW c \in Callers, NEW t \in Tasks,
                      rpc[c].pc = "waiting", ~rpc[c].notified, Fresh(t), t \in Enveloped
               PROVE  \E b \in Callers : rpc[b].pc = "stored" /\ rpc[b].task = t
    BY DEF NoLostWakeup, At
  <2>1. rpc[c].candidates = <<>> /\ Sees(rpc[c])
    BY DEF DaemonInv, CallOK, Relies
  <2>2. \/ \E i \in 1..Len(rpc[c].candidates) : rpc[c].candidates[i] = t
        \/ \E b \in Callers : rpc[b].pc = "stored" /\ rpc[b].task = t
    BY <2>1 DEF Sees, FreshTasks
  <2>3. ~ \E i \in 1..Len(rpc[c].candidates) : rpc[c].candidates[i] = t
    BY <2>1
  <2> QED BY <2>2, <2>3
<1> QED
  BY <1>1, DaemonInvariant, PTL

\* A shutdown whose drain did not time out never closes the store under a
\* handler, for any number of callers: RpcInFlightGuard::enter looks at the flag
\* again after it has counted itself, and shutdown looks at the counter after it
\* has set the flag.
THEOREM ShutdownWaitsForHandlers == DaemonSpec => []StoreOpenWhileServing
<1>1. DaemonInv => StoreOpenWhileServing
  <2> SUFFICES ASSUME DaemonInv PROVE StoreOpenWhileServing
    OBVIOUS
  <2>1. ResultTypeOK
    BY DEF DaemonInv, TablesOK, RowsTyped, ResultTypeOK
  <2>2. granted \subseteq Tasks \X Nat \X Workers
    BY DEF DaemonInv, TablesOK
  <2>3. envelope \in [Tasks -> Nat] /\ published \subseteq Tasks /\ receipts \subseteq Tasks
    BY DEF DaemonInv, TablesOK
  <2>4. in_flight = Cardinality({c \in Callers :
                      rpc[c].pc \notin {"idle", "admitted"} /\ rpc[c].op # "incoming"})
    BY DEF DaemonInv, ProcessOK, Counted, Counts
  <2>5. ASSUME NEW c \in Callers
        PROVE  /\ rpc[c].pc \in Points /\ rpc[c].op \in Ops \cup {"none", "claimNext"}
               /\ rpc[c].task \in Tasks \cup {0} /\ rpc[c].candidates \in Seq(Tasks)
               /\ lock = c <=> rpc[c].pc \in {"locked", "checked", "stored"}
    <3>1. rpc[c] \in CallRecord
      BY DEF DaemonInv, ProcessOK
    <3>2. lock = c <=> rpc[c].pc \in {"locked", "checked", "stored"}
      BY DEF DaemonInv, ProcessOK, Holding
    <3> QED BY <3>1, <3>2 DEF CallRecord
  <2>6. DaemonTypeOK
    BY <2>1, <2>2, <2>3, <2>4, <2>5 DEF DaemonTypeOK, DaemonInv, ProcessOK
  <2> QED BY <2>6 DEF StoreOpenWhileServing, DaemonInv, ProcessOK, Outside
<1> QED
  BY <1>1, DaemonInvariant, PTL

\* What the relay took is durable here as this node's intent, and what has a
\* receipt was taken, through timeouts, retries and restarts between the steps
\* of TaskRouter::send_task.
THEOREM IntentPrecedesSend == DaemonSpec => []SentIsRecorded
<1>1. DaemonInv => SentIsRecorded
  BY DEF DaemonInv
<1> QED
  BY <1>1, DaemonInvariant, PTL

\* The result of a worker is owed to the node that sent the task, although
\* return_peer_for_task is read outside the settling transaction.
THEOREM ResultsAreOwed == DaemonSpec => []WorkerResultReturned
<1>1. DaemonInv => WorkerResultReturned
  BY DEF DaemonInv
<1> QED
  BY <1>1, DaemonInvariant, PTL
------------------------------------------------------------------------------
(* The daemon drives the store of TaskStore.                                 *)

\* The steps of a call that leave the store alone.
LEMMA QuietSteps ==
    ASSUME NEW c, \/ TakeLock(c) \/ Entering(c) \/ AcceptAgain(c) \/ CheckLimits(c)
                  \/ AcceptNothing(c) \/ Notify(c) \/ Listen(c) \/ Scan(c) \/ Wait(c) \/ GiveUp(c)
                  \/ Wake(c) \/ Look(c) \/ Publish(c) \/ PublishFails(c) \/ RecordReceipt(c)
    PROVE  UNCHANGED vars
<1>1. CASE TakeLock(c) \/ Entering(c)
  BY <1>1 DEF TakeLock, Entering, EnterCount, EnterRecheck, Refuse, StoreGone, Leave, Step, rvars
<1>2. CASE AcceptAgain(c) \/ CheckLimits(c) \/ AcceptNothing(c) \/ Notify(c)
  BY <1>2 DEF AcceptAgain, CheckLimits, AcceptNothing, Notify, Leave, Step, rvars
<1>3. CASE Listen(c) \/ Scan(c) \/ Wait(c) \/ GiveUp(c) \/ Wake(c) \/ Look(c)
  BY <1>3 DEF Listen, Scan, Wait, GiveUp, Wake, Look, Leave, Step, rvars
<1>4. CASE Publish(c) \/ PublishFails(c) \/ RecordReceipt(c)
  BY <1>4 DEF Publish, PublishFails, RecordReceipt, Leave, rvars
<1> QED
  BY <1>1, <1>2, <1>3, <1>4

\* The steps of a call that use the store use it once, by an operation of it.
LEMMA StoringSteps ==
    ASSUME DaemonInv, NEW c \in Callers,
           \/ Accept(c) \/ Dispatch(c) \/ ExpireFirst(c) \/ ClaimTask(c) \/ TryLease(c)
           \/ Complete(c) \/ Fail(c) \/ CancelNow(c) \/ RecordIntent(c) \/ Ingest(c)
    PROVE  [Next]_vars
<1>1. ASSUME NEW t \in Tasks, NEW k \in Keys \cup {NoKey}, NEW d \in Deadlines \cup {NoDeadline},
             NEW r \in {"local", "inbound", "outbound"}, InsertTask(t, k, d, r)
      PROVE  [Next]_vars
  BY <1>1 DEF Next, Accepting, AcceptTask, AcceptTaskWithContext
<1>2. ASSUME NEW t \in Tasks, NEW now \in ReadTimes, LeaseFor(t, now) PROVE [Next]_vars
  BY <1>2 DEF Next, Leasing, LeaseFor
<1>3. ASSUME Leave(c) PROVE [Next]_vars
  BY <1>3 DEF Leave, rvars
<1>4. \A g \in granted : g[2] \in 0..MaxTime /\ g[3] \in Workers
  BY DEF DaemonInv, TablesOK
<1>5. rpc[c].pc \in WithTask => rpc[c].task \in Tasks
  BY DEF DaemonInv, CallOK, Relies
<1>6. CASE Accept(c)
  <2>1. rpc[c].task \in Tasks /\ RouteOf(rpc[c].op) \in {"local", "inbound", "outbound"}
    BY <1>5, <1>6 DEF Accept, At, WithTask, RouteOf
  <2> QED BY <1>1, <1>6, <2>1 DEF Accept
<1>7. CASE Dispatch(c)
  BY <1>2, <1>3, <1>5, <1>7 DEF Dispatch, At, WithTask
<1>8. CASE ExpireFirst(c)
  BY <1>8 DEF ExpireFirst, Next, Scanning
<1>9. CASE ClaimTask(c)
  BY <1>2, <1>3, <1>9 DEF ClaimTask
<1>10. CASE TryLease(c)
  <2>1. Head(rpc[c].candidates) \in Tasks
    <3>1. rpc[c].candidates \in Seq(Tasks) /\ rpc[c].candidates # <<>>
      BY <1>10 DEF DaemonInv, ProcessOK, CallRecord, TryLease
    <3> QED BY <3>1
  <2>2. \E now \in ReadTimes : LeaseFor(Head(rpc[c].candidates), now) \/ UNCHANGED vars
    BY <1>10 DEF TryLease, rvars
  <2> QED BY <1>2, <2>1, <2>2
<1>11. CASE Complete(c)
  BY <1>4, <1>5, <1>11 DEF Complete, Serving, At, WithTask, Next, Settling
<1>12. CASE Fail(c)
  BY <1>4, <1>5, <1>12 DEF Fail, Serving, At, WithTask, Next, Settling
<1>13. CASE CancelNow(c)
  BY <1>5, <1>13 DEF CancelNow, Serving, At, WithTask, Next, Maintaining
<1>14. CASE RecordIntent(c)
  BY <1>1, <1>14 DEF RecordIntent
<1>15. CASE Ingest(c)
  <2>1. PICK t \in Tasks, to \in Terminal : ApplyRemoteResult(t, to)
    BY <1>15 DEF Ingest, IngestRemoteResult, StatusOf, Terminal, DaemonInv, TablesOK
  <2> QED BY <2>1 DEF Next, Maintaining
<1> QED
  BY <1>6, <1>7, <1>8, <1>9, <1>10, <1>11, <1>12, <1>13, <1>14, <1>15

\* Every step of the daemon is a step of the store or leaves it alone.
LEMMA DaemonStepIsStoreStep == DaemonInv /\ [DaemonNext]_dvars => [Next]_vars
<1> SUFFICES ASSUME DaemonInv, [DaemonNext]_dvars PROVE [Next]_vars
  OBVIOUS
<1>1. CASE Calling
  BY <1>1 DEF Calling, EnterCheck, rvars
<1>2. ASSUME NEW c \in Callers, TakeLock(c) \/ Running(c) PROVE [Next]_vars
  BY <1>2, QuietSteps, StoringSteps DEF Running, Submitting, Claiming, Working, Sending
<1>3. CASE StopLoops \/ InitiateShutdown \/ Drained \/ CloseStore \/ Die
  BY <1>3 DEF StopLoops, InitiateShutdown, Drained, CloseStore, PhaseStep, Die, rvars
<1>4. CASE LoopTick \/ TimePasses
  BY <1>4 DEF LoopTick, TimePasses, Next
<1>5. CASE Startup
  <2>1. clock \in ReadTimes
    BY ClockReads DEF DaemonInv
  <2> QED BY <1>5, <2>1 DEF Startup, Next, Scanning
<1>6. CASE UNCHANGED dvars
  BY <1>6 DEF dvars, rvars
<1> QED
  BY <1>1, <1>2, <1>3, <1>4, <1>5, <1>6 DEF DaemonNext

\* Every behaviour of the daemon is one of the store: what is proved of TaskStore
\* under any sequence of its operations holds of the store while concurrent
\* handlers, loops, crashes and startups drive it.
THEOREM DaemonImplementsStore == DaemonSpec => ImplementsTaskStore
<1>1. DaemonInit => Init
  BY DEF DaemonInit, ResultInit
<1> QED
  BY <1>1, DaemonStepIsStoreStep, DaemonInvariant, PTL DEF DaemonSpec, Spec, ImplementsTaskStore

\* So a task has one owner at a time in the daemon, an expired lease is never
\* revived, and every task goes through the lifecycle of TaskLifecycle.
THEOREM DaemonKeepsLeases ==
    DaemonSpec => []ActiveLeaseOwnsTask /\ LeaseNeverRevived /\ ImplementsLifecycle
BY DaemonImplementsStore, LeasesOwnTasks, ExpiredLeasesStayExpired, StoreImplementsLifecycle, PTL
   DEF ImplementsTaskStore
=============================================================================
