--------------------------- MODULE RoundTripProofs ---------------------------
(* Proofs about RoundTrip: for any number of tasks, worker loops and faults, *)
(* the two stores agree, what the caller is told is final, and a worker      *)
(* whose claim was superseded cannot settle the task.                        *)
EXTENDS RoundTripStepProofs, ResultStoreProofs, WellFoundedInduction

\* Induction over the natural numbers in the form the provers can use: a
\* non-empty set of them has a least element.
LEMMA LeastElement ==
  ASSUME NEW T, T \subseteq Nat, T # {}
  PROVE  \E n \in T : \A m \in T : n <= m
<1> DEFINE R == {ss \in Nat \X Nat : ss[1] < ss[2]}
<1>1. IsWellFoundedOn(R, Nat)
  BY NatLessThanWellFounded DEF OpToRel
<1>2. ASSUME NEW m \in Nat, NEW n \in Nat, m < n PROVE <<m, n>> \in R
  BY <1>2
<1> HIDE DEF R
<1>3. PICK n \in T : \A m \in T : ~(<<m, n>> \in R)
  BY <1>1, WFMin
<1>4. ASSUME NEW m \in T PROVE n <= m
  <2>1. m \in Nat /\ n \in Nat
    OBVIOUS
  <2>2. ~(m < n)
    BY <1>2, <1>3, <2>1
  <2> QED
    BY <2>1, <2>2
<1> QED
  BY <1>4

\* The recursion of Retain, one element further.
KeptAt(s, S, g, i) ==
    IF i = 0 THEN <<>> ELSE IF s[i] \in S THEN Append(g[i - 1], s[i]) ELSE g[i - 1]

LEMMA RetainRecursion ==
  ASSUME NEW U, NEW s \in Seq(U), NEW S
  PROVE  \E g : /\ Retain(s, S) = g[Len(s)]
                /\ \A i \in 0..Len(s) : g[i] = KeptAt(s, S, g, i)
<1> DEFINE G(m) == \E g : g = [i \in 0..m |-> KeptAt(s, S, g, i)]
           T == {m \in 0..Len(s) : ~G(m)}
<1>1. T \subseteq Nat /\ Len(s) \in Nat
  OBVIOUS
<1>2. ASSUME NEW m \in T, \A k \in T : m <= k PROVE FALSE
  <2>1. CASE m = 0
    <3> DEFINE g == [i \in 0..m |-> <<>>]
    <3>1. g = [i \in 0..m |-> KeptAt(s, S, g, i)]
      BY <2>1 DEF KeptAt
    <3> QED
      BY <3>1
  <2>2. CASE m # 0
    <3>1. m - 1 \in 0..Len(s) /\ m \in 1..Len(s) /\ ~(m <= m - 1) /\ m \in Nat
      BY <1>1, <2>2
    <3>2. PICK g : g = [i \in 0..(m - 1) |-> KeptAt(s, S, g, i)]
      BY <1>2, <3>1
    <3> DEFINE h == [i \in 0..m |-> IF i = m THEN KeptAt(s, S, g, m) ELSE g[i]]
    <3>3. ASSUME NEW i \in 0..m PROVE h[i] = KeptAt(s, S, h, i)
      <4>1. i # 0 => i - 1 \in 0..m /\ h[i - 1] = g[i - 1]
        BY <3>1
      <4>2. h[i] = KeptAt(s, S, g, i)
        BY <3>1, <3>2
      <4> QED
        BY <4>1, <4>2 DEF KeptAt
    <3>4. h = [i \in 0..m |-> KeptAt(s, S, h, i)]
      BY <3>3
    <3> QED
      BY <3>4
  <2> QED
    BY <2>1, <2>2
<1>3. T = {}
  BY <1>1, <1>2, LeastElement
<1>4. G(Len(s))
  BY <1>1, <1>3
<1> DEFINE D(g) == [i \in 0..Len(s) |->
                      IF i = 0 THEN <<>>
                      ELSE IF s[i] \in S THEN Append(g[i - 1], s[i]) ELSE g[i - 1]]
           kept == CHOOSE g : g = D(g)
<1>5. Retain(s, S) = kept[Len(s)]
  BY DEF Retain
<1>6. \E g : g = D(g)
  BY <1>4 DEF KeptAt
<1>7. kept = D(kept)
  BY <1>6
<1>8. \A i \in 0..Len(s) : kept[i] = KeptAt(s, S, kept, i)
  BY <1>7 DEF KeptAt
<1> QED
  BY <1>5, <1>8


\* retain makes no frames: what it leaves of a stream was in the stream, and is
\* kept.
LEMMA RetainType ==
  ASSUME NEW U, NEW s \in Seq(U), NEW S
  PROVE  Retain(s, S) \in Seq(U \cap S)
<1>1. PICK g : /\ Retain(s, S) = g[Len(s)]
               /\ \A i \in 0..Len(s) : g[i] = KeptAt(s, S, g, i)
  BY RetainRecursion
<1> DEFINE T == {m \in 0..Len(s) : g[m] \notin Seq(U \cap S)}
<1>2. T \subseteq Nat /\ Len(s) \in Nat
  OBVIOUS
<1>3. ASSUME NEW m \in T, \A k \in T : m <= k PROVE FALSE
  <2>1. CASE m = 0
    <3>1. g[m] = <<>>
      BY <1>1, <1>2, <2>1 DEF KeptAt
    <3>2. g[m] \in Seq(U \cap S)
      BY <3>1
    <3> QED
      BY <3>2
  <2>2. CASE m # 0
    <3>1. m - 1 \in 0..Len(s) /\ m \in 1..Len(s) /\ ~(m <= m - 1) /\ m \in 0..Len(s)
      BY <1>2, <2>2
    <3>2. g[m - 1] \in Seq(U \cap S) /\ s[m] \in U
      BY <1>3, <3>1
    <3>3. g[m] = IF s[m] \in S THEN Append(g[m - 1], s[m]) ELSE g[m - 1]
      BY <1>1, <2>2, <3>1 DEF KeptAt
    <3>4. g[m] \in Seq(U \cap S)
      BY <3>2, <3>3
    <3> QED
      BY <3>4
  <2> QED
    BY <2>1, <2>2
<1>4. T = {}
  BY <1>2, <1>3, LeastElement
<1> QED
  BY <1>1, <1>2, <1>4
------------------------------------------------------------------------------
(* What travels between the nodes.                                          *)

\* The streams as they will be, in terms of the results as they are.
StreamsFit ==
    /\ DOMAIN stream' = Ends /\ DOMAIN hand' = Ends /\ handled' \subseteq Ends
    /\ sends' \in [Tasks -> Nat] /\ NoFrame \notin owed'
    /\ stream'["origin"] \in Seq(TrueFrames)
    /\ stream'["executor"] \in Seq(TaskFrames)
    /\ hand'["origin"] \in TrueFrames \cup {NoFrame}
    /\ hand'["executor"] \in TaskFrames \cup {NoFrame}
    /\ "origin" \in handled' => /\ hand'["origin"] \in TrueFrames
                                 /\ o_status'[hand'["origin"].task] \in Terminal

\* Results stay, so frames stay true.
LEMMA FitIsTrue ==
  ASSUME StreamsFit, ResultsStay
  PROVE  StreamsTrue'
<1>1. TrueFrames \subseteq TrueFrames'
  BY FramesStayTrue
<1>2. stream'["origin"] \in Seq(TrueFrames')
  BY <1>1, SeqWidens DEF StreamsFit
<1>3. TaskFrames' = TaskFrames
  BY DEF TaskFrames
<1> QED
  BY <1>1, <1>2, <1>3 DEF StreamsFit, StreamsTrue

\* A frame handled at the origin stays handled.
LEMMA HandledStays ==
  ASSUME StreamsTrue, OriginStep, "origin" \in handled, hand'["origin"] = hand["origin"]
  PROVE  hand'["origin"] \in TrueFrames /\ o_status'[hand'["origin"].task] \in Terminal
<1>1. /\ hand["origin"] \in TrueFrames /\ hand["origin"].task \in Tasks
      /\ o_status[hand["origin"].task] \in Terminal
  BY DEF StreamsTrue, TrueFrames
<1> QED
  BY <1>1 DEF OriginStep, OriginMoves

\* A new stream brings owed frames of the old one, and so frames of its sort.
LEMMA RestartFits ==
  ASSUME StreamsTrue, OriginStep, NEW e \in Ends, StreamRestarts(e)
  PROVE  StreamsFit
<1>1. ASSUME NEW U, stream[e] \in Seq(U), hand[e] \in U \cup {NoFrame}
      PROVE  stream'[e] \in Seq(U)
  <2>1. stream'[e] = Retain(<<hand[e]>> \o stream[e], owed)
    BY DEF StreamRestarts, StreamsTrue
  <2>2. <<hand[e]>> \o stream[e] \in Seq(U \cup {NoFrame})
    <3>1. stream[e] \in Seq(U \cup {NoFrame})
      BY <1>1, SeqWidens
    <3>2. <<hand[e]>> \in Seq(U \cup {NoFrame})
      BY <1>1
    <3> QED
      BY <3>1, <3>2
  <2>3. stream'[e] \in Seq((U \cup {NoFrame}) \cap owed)
    BY <2>1, <2>2, RetainType
  <2>4. (U \cup {NoFrame}) \cap owed \subseteq U
    BY DEF StreamsTrue
  <2> QED
    BY <2>3, <2>4, SeqWidens
<1>2. stream'["origin"] \in Seq(TrueFrames) /\ stream'["executor"] \in Seq(TaskFrames)
  <2>1. \A x \in Ends \ {e} : stream'[x] = stream[x]
    BY DEF StreamRestarts, StreamsTrue
  <2> QED
    BY <1>1, <2>1 DEF StreamsTrue, Ends
<1>3. /\ DOMAIN stream' = Ends /\ DOMAIN hand' = Ends /\ handled' \subseteq handled
      /\ sends' = sends /\ owed' = owed /\ e \notin handled' /\ hand'[e] = NoFrame
      /\ \A x \in Ends \ {e} : hand'[x] = hand[x]
  BY DEF StreamRestarts, StreamsTrue
<1>4. "origin" \in handled' => /\ hand'["origin"] \in TrueFrames
                               /\ o_status'[hand'["origin"].task] \in Terminal
  BY <1>3, HandledStays DEF Ends
<1> QED
  BY <1>2, <1>3, <1>4 DEF StreamsFit, StreamsTrue, Ends

\* Sending, taking, handling and acknowledging frames.
LEMMA StreamSteps ==
  ASSUME FlowInv, OriginStep, [TripNext]_tvars
  PROVE  StreamsFit
<1>0. StreamsTrue /\ SenderTrue
  BY DEF FlowInv
<1>1. ASSUME UNCHANGED <<sends, stream, hand, handled>>, NoFrame \notin owed' PROVE StreamsFit
  BY <1>0, <1>1, HandledStays DEF StreamsTrue, StreamsFit
<1>2. ASSUME NEW t \in Tasks, SendTask(t) PROVE StreamsFit
  <2>1. UNCHANGED edgeVars /\ Publish(t)
    BY <1>2 DEF SendTask
  <2>2. CASE UNCHANGED relayVars
    BY <1>0, <1>1, <2>1, <2>2 DEF relayVars, edgeVars, StreamsTrue
  <2>3. CASE ~UNCHANGED relayVars
    <3> DEFINE f == TaskFrame(t, sends[t] + 1)
    <3>1. /\ sends' = [sends EXCEPT ![t] = @ + 1]
          /\ owed' = owed \cup {f}
          /\ stream' = [stream EXCEPT !["executor"] = Append(@, f)]
      BY <2>1, <2>3 DEF Publish
    <3>2. f \in TaskFrames /\ f # NoFrame
      BY <1>0, TasksAssumption DEF TaskFrame, TaskFrames, FrameRecord, NoFrame, StreamsTrue
    <3> HIDE DEF f
    <3>3. /\ DOMAIN stream' = Ends /\ stream'["origin"] = stream["origin"]
          /\ stream'["executor"] \in Seq(TaskFrames)
          /\ sends' \in [Tasks -> Nat]
      BY <1>0, <3>1, <3>2 DEF StreamsTrue, Ends
    <3> QED
      BY <1>0, <2>1, <3>1, <3>2, <3>3, HandledStays DEF StreamsFit, StreamsTrue, edgeVars
  <2> QED
    BY <2>2, <2>3
<1>3. ASSUME NEW e \in Ends, TakeFrame(e) PROVE StreamsFit
  <2>1. /\ hand[e] = NoFrame /\ stream[e] # <<>>
        /\ hand' = [hand EXCEPT ![e] = Head(stream[e])]
        /\ stream' = [stream EXCEPT ![e] = Tail(@)]
        /\ sends' = sends /\ owed' = owed /\ handled' = handled
    BY <1>3 DEF TakeFrame
  <2>2. ASSUME NEW U, stream[e] \in Seq(U) PROVE hand'[e] \in U /\ stream'[e] \in Seq(U)
    BY <1>0, <2>1, <2>2 DEF StreamsTrue
  <2>3. \A x \in Ends \ {e} : hand'[x] = hand[x] /\ stream'[x] = stream[x]
    BY <1>0, <2>1 DEF StreamsTrue
  <2>4. /\ stream'["origin"] \in Seq(TrueFrames) /\ stream'["executor"] \in Seq(TaskFrames)
        /\ hand'["origin"] \in TrueFrames \cup {NoFrame}
        /\ hand'["executor"] \in TaskFrames \cup {NoFrame}
    BY <1>0, <2>2, <2>3 DEF StreamsTrue, Ends
  <2>5. "origin" \in handled => e # "origin"
    BY <1>0, <2>1 DEF StreamsTrue, TrueFrames, NoFrame
  <2>6. "origin" \in handled' => /\ hand'["origin"] \in TrueFrames
                                 /\ o_status'[hand'["origin"].task] \in Terminal
    BY <1>0, <2>1, <2>3, <2>5, HandledStays DEF Ends
  <2>7. DOMAIN stream' = Ends /\ DOMAIN hand' = Ends
    BY <1>0, <2>1 DEF StreamsTrue
  <2> QED
    BY <1>0, <2>1, <2>4, <2>6, <2>7 DEF StreamsFit, StreamsTrue
<1>4. ASSUME NEW t \in Tasks, SubmitRemoteTask(t) PROVE StreamsFit
  <2>1. UNCHANGED <<relayVars, hand>> /\ handled' = handled \cup {"executor"}
    BY <1>4 DEF SubmitRemoteTask
  <2> QED
    BY <1>0, <2>1, HandledStays DEF StreamsFit, StreamsTrue, relayVars, Ends
<1>5. ASSUME IngestRemoteResultFrame PROVE StreamsFit
  <2> DEFINE f == hand["origin"]
  <2>1. UNCHANGED <<relayVars, hand>> /\ handled' = handled \cup {"origin"}
    BY <1>5 DEF IngestRemoteResultFrame
  <2>2. f \in TrueFrames /\ f.task \in Tasks /\ f.outcome \in Outcomes
    BY <1>0, <1>5 DEF StreamsTrue, IngestRemoteResultFrame, HandlingFrame, TrueFrames, FrameRecord
  <2>3. Ingest(f)
    BY <1>5 DEF IngestRemoteResultFrame
  <2>4. o_status'[f.task] \in Terminal
    <3> HIDE DEF f
    <3>1. CASE Origin!IngestRemoteResult(f.task, f.outcome)
      <4>1. o_result[f.task] = "none" /\ o_result' = [o_result EXCEPT ![f.task] = f.outcome]
        BY <3>1 DEF Origin!IngestRemoteResult
      <4>2. o_result'[f.task] # o_result[f.task]
        BY <2>2, <4>1 DEF FlowInv, OriginTyped, Outcomes
      <4> QED
        BY <2>2, <4>2 DEF OriginStep, OriginMoves
    <3>2. CASE o_result[f.task] = f.outcome
      <4>1. o_result[f.task] # "none"
        BY <2>2, <3>2 DEF Outcomes
      <4>2. o_status[f.task] \in Terminal
        BY <2>2, <4>1 DEF FlowInv, OriginTrue
      <4> QED
        BY <2>2, <4>2 DEF OriginStep, OriginMoves
    <3>3. CASE o_status[f.task] \in Terminal
      BY <2>2, <3>3 DEF OriginStep, OriginMoves
    <3> QED
      BY <2>3, <3>1, <3>2, <3>3 DEF Ingest
  <2> QED
    BY <1>0, <2>1, <2>2, <2>4 DEF StreamsFit, StreamsTrue, relayVars, Ends
<1>6. ASSUME NEW e \in Ends, AckFrame(e) PROVE StreamsFit
  <2>1. /\ hand' = [hand EXCEPT ![e] = NoFrame] /\ handled' = handled \ {e}
        /\ sends' = sends /\ stream' = stream /\ owed' = owed \ {hand[e]}
    BY <1>6 DEF AckFrame
  <2>2. /\ DOMAIN hand' = Ends /\ hand'[e] = NoFrame
        /\ \A x \in Ends \ {e} : hand'[x] = hand[x]
    BY <1>0, <2>1 DEF StreamsTrue
  <2>3. "origin" \in handled' => /\ hand'["origin"] \in TrueFrames
                                 /\ o_status'[hand'["origin"].task] \in Terminal
    BY <1>0, <2>1, <2>2, HandledStays DEF Ends
  <2> QED
    BY <1>0, <2>1, <2>2, <2>3 DEF StreamsFit, StreamsTrue, Ends
<1>7. ASSUME RestartRelay PROVE StreamsFit
  <2>1. /\ owed' = {} /\ stream' = [e \in Ends |-> <<>>] /\ hand' = [e \in Ends |-> NoFrame]
        /\ handled' = {} /\ sends' = sends
    BY <1>7 DEF RestartRelay
  <2>2. \A U : <<>> \in Seq(U)
    OBVIOUS
  <2> QED
    BY <1>0, <2>1, <2>2 DEF StreamsFit, StreamsTrue, Ends
<1>8. ASSUME PublishResult PROVE StreamsFit
  <2> DEFINE f == sender.frame
  <2>1. f \in TrueFrames /\ f # NoFrame
    BY <1>0, <1>8 DEF PublishResult, SenderTrue, TrueFrames, NoFrame
  <2>2. /\ owed' = owed \cup {f} /\ stream' = [stream EXCEPT !["origin"] = Append(@, f)]
        /\ sends' = sends /\ UNCHANGED edgeVars
    BY <1>8 DEF PublishResult
  <2> HIDE DEF f
  <2>3. /\ DOMAIN stream' = Ends /\ stream'["executor"] = stream["executor"]
        /\ stream'["origin"] \in Seq(TrueFrames)
    BY <1>0, <2>1, <2>2 DEF StreamsTrue, Ends
  <2> QED
    BY <1>0, <2>1, <2>2, <2>3, HandledStays DEF StreamsFit, StreamsTrue, edgeVars
<1>9. CASE Working
  <2>1. UNCHANGED others
    BY <1>9 DEF Working, ClaimNext, Heartbeat, HandlerEnds, Abandon, CompleteCall, FailCall,
                LateComplete, ExecutorLoops, TimePasses
  <2> QED
    BY <1>0, <1>1, <2>1 DEF others, relayVars, edgeVars, StreamsTrue
<1>10. CASE Travelling
  <2>1. \A t \in Tasks : RefuseRemoteTask(t) => StreamRestarts("executor")
    BY DEF RefuseRemoteTask
  <2>2. \A e \in Ends : BreakStream(e) => StreamRestarts(e)
    BY DEF BreakStream
  <2> QED
    BY <1>0, <1>2, <1>3, <1>4, <1>5, <1>6, <1>7, <1>10, <2>1, <2>2, RestartFits
       DEF Travelling, Ends
<1>11. CASE Sending
  <2>1. \/ PublishResult
        \/ UNCHANGED <<relayVars, edgeVars>>
        \/ UNCHANGED <<sends, stream, edgeVars>> /\ owed' = owed \ {sender.frame}
    BY <1>11 DEF Sending, ClaimDelivery, Report, PublishFails, SenderCrashes
  <2>2. \/ PublishResult
        \/ UNCHANGED <<sends, stream, hand, handled>> /\ owed' \subseteq owed
    BY <2>1 DEF relayVars, edgeVars
  <2> QED
    BY <1>0, <1>1, <1>8, <2>2 DEF StreamsTrue
<1>12. CASE Waiting
  <2>1. UNCHANGED relayVars /\ UNCHANGED edgeVars
    BY <1>12 DEF Waiting, ReadTask, ReadResult, OriginLoops
  <2> QED
    BY <1>0, <1>1, <2>1 DEF relayVars, edgeVars, StreamsTrue
<1>13. CASE UNCHANGED tvars
  BY <1>0, <1>1, <1>13 DEF tvars, relayVars, edgeVars, StreamsTrue
<1> QED
  BY <1>9, <1>10, <1>11, <1>12, <1>13, TripCases
------------------------------------------------------------------------------
(* The invariant holds.                                                      *)

\* The executor's store goes on as ResultStore says.
LEMMA ExecutorStep ==
  ASSUME TripInv, [TripNext]_tvars
  PROVE  [ResultNext]_rvars /\ StoreInv' /\ ResultsStay
<1>1. [ResultNext]_rvars
  BY ExecutorSteps DEF TripInv, FlowInv
<1>2. TypeOK /\ ActiveLeaseOwnsTask /\ OutboxInv /\ RowsTyped
  BY DEF TripInv, StoreInv, OutboxInv
<1>3. [Next]_vars
  BY <1>1, ResultStepIsStoreStep
<1>4. TypeOK' /\ ActiveLeaseOwnsTask'
  BY <1>2, <1>3, TypeStep, LeaseStep
<1>5. OutboxInv'
  BY <1>1, <1>2, OutboxStep
<1>6. ResultsStay
  <2>1. \A u \in Tasks : Unfiled(u) \/ Worked(u) \/ \E o \in Outcomes : Filed(u, o)
    BY <1>1, <1>2, DeliveryRows
  <2>2. \A u \in Tasks : result[u] # "none" => result'[u] = result[u]
    BY <2>1 DEF Unfiled, Worked, Filed
  <2> QED
    BY <1>5, <2>2 DEF ResultsStay, OutboxInv, RowsTyped
<1> QED
  BY <1>1, <1>4, <1>5, <1>6 DEF StoreInv

\* TripInv is inductive.
LEMMA TripStep == TripInv /\ [TripNext]_tvars => TripInv'
<1> SUFFICES ASSUME TripInv, [TripNext]_tvars PROVE TripInv'
  OBVIOUS
<1>0. FlowInv /\ ClaimsTyped
  BY DEF TripInv
<1>1. StoreInv' /\ ResultsStay
  BY ExecutorStep
<1>2. OriginStep
  BY <1>0, OriginSteps
<1>3. ClaimsTyped'
  BY <1>0, OnlyClaims, ClaimsKept, ClaimTyped
<1>4. StreamsTrue'
  BY <1>0, <1>1, <1>2, StreamSteps, FitIsTrue
<1>5. SenderTrue'
  BY <1>0, <1>1, <1>2, SenderSteps DEF StoreInv, OutboxInv
<1>6. /\ DeliveriesTimed'
      /\ \A t \in Tasks : outbox'[t].state = "delivered" =>
           outbox[t].state = "delivered" \/ o_status[t] \in Terminal
  BY DeliverySteps
<1>7. OriginTrue'
  <2>1. ASSUME NEW t \in Tasks, o_result'[t] # "none"
        PROVE  o_result'[t] = result'[t] /\ o_status'[t] \in Terminal
    <3>1. OriginMoves(t)
      BY <1>2 DEF OriginStep
    <3>2. CASE o_result'[t] = o_result[t]
      BY <1>0, <1>1, <2>1, <3>1, <3>2 DEF FlowInv, OriginTrue, OriginMoves, ResultsStay
    <3>3. CASE o_result'[t] # o_result[t]
      BY <1>1, <2>1, <3>1, <3>3 DEF OriginMoves, ResultsStay
    <3> QED
      BY <3>2, <3>3
  <2>2. ASSUME NEW t \in Tasks, outbox'[t].state = "delivered" PROVE o_status'[t] \in Terminal
    <3>1. o_status[t] \in Terminal
      BY <1>0, <1>6, <2>2 DEF FlowInv, OriginTrue
    <3> QED
      BY <1>2, <3>1 DEF OriginStep, OriginMoves
  <2> QED
    BY <2>1, <2>2 DEF OriginTrue
<1> QED
  BY <1>1, <1>2, <1>3, <1>4, <1>5, <1>6, <1>7 DEF TripInv, FlowInv, OriginStep

\* Before anything happens.
LEMMA TripStart == TripInit => TripInv /\ Fenced /\ HandleTrue
<1> SUFFICES ASSUME TripInit PROVE TripInv /\ Fenced /\ HandleTrue
  OBVIOUS
<1>1. Init /\ ResultInit
  BY DEF TripInit, ResultInit
<1>2. TypeOK
  <2>1. NoLease \in LeaseRecord
    BY DEF NoLease, LeaseRecord
  <2> QED
    BY <1>1, <2>1 DEF Init, TypeOK, Statuses, Routes
<1>3. ActiveLeaseOwnsTask
  BY <1>1 DEF Init, ActiveLeaseOwnsTask, NoLease
<1>4. OutboxInv /\ DeliveriesTimed
  BY <1>1, DeliveryAssumption, TimesAssumption
     DEF ResultInit, Init, OutboxInv, RowsTyped, SettledOnly, OutboxServesSenders,
         DeliveryBudget, NoDelivery, OutboxRecord, DeliveriesTimed
<1>5. HeldClaims = {} /\ slot \in [Slots -> SlotRecord]
  BY DEF TripInit, HeldClaims, Resting, SlotRecord
<1>6. ClaimsTyped
  BY <1>1, <1>5, TimesAssumption DEF TripInit, Init, ClaimsTyped
<1>7. NoFrame \in FrameRecord /\ NotSending \in SenderRecord /\ NotSending.pc = "idle"
  <2>1. NoFrame \in FrameRecord
    BY DEF NoFrame, FrameRecord
  <2> QED
    BY <2>1 DEF NotSending, SenderRecord
<1>8. SenderTrue
  BY <1>7 DEF TripInit, SenderTrue
<1>9. /\ o_status = [t \in Tasks |-> "absent"] /\ o_deadline = [t \in Tasks |-> NoDeadline]
      /\ o_result = [t \in Tasks |-> "none"]
  BY DEF TripInit, Origin!ResultInit, Origin!Init, Origin!NoDeadline, NoDeadline
<1>10. OriginTyped /\ OriginTrue
  BY <1>1, <1>9 DEF OriginTyped, OriginTrue, Statuses, ResultInit, NoDelivery
<1>11. StreamsTrue
  <2>1. \A U : <<>> \in Seq(U)
    OBVIOUS
  <2> QED
    BY <2>1 DEF TripInit, StreamsTrue, Ends
<1>12. Fenced
  BY <1>1, <1>5 DEF Fenced, TaskFenced, TripInit, Init, NoLease
<1>13. HandleTrue
  <2>1. Unread \in HandleRecord /\ Unread.seen = "absent" /\ Unread.verdict = "none"
    BY DEF Unread, HandleRecord, Statuses
  <2> QED
    BY <2>1 DEF HandleTrue, TripInit, Terminal, Outcomes
<1> QED
  BY <1>2, <1>3, <1>4, <1>6, <1>8, <1>10, <1>11, <1>12, <1>13 DEF TripInv, StoreInv, FlowInv

\* TripInv holds throughout.
LEMMA TripInvariant == TripSpec => []TripInv
  BY TripStart, TripStep, PTL DEF TripSpec

\* Fenced is inductive on top of it, if clock values can still grow when the
\* last one explored is reached.
LEMMA FencedStep == MaxTime < MaxMs /\ TripInv /\ Fenced /\ [TripNext]_tvars => Fenced'
<1> SUFFICES ASSUME MaxTime < MaxMs, TripInv, Fenced, [TripNext]_tvars PROVE Fenced'
  OBVIOUS
<1>1. StoreInv /\ ClaimsTyped /\ TypeOK /\ SettledOnly
  BY DEF TripInv, StoreInv, OutboxInv
<1>2. CASE \E s \in Slots, t \in Tasks : ClaimNext(s, t)
  BY <1>1, <1>2, ClaimFences
<1>3. CASE ~\E s \in Slots, t \in Tasks : ClaimNext(s, t)
  <2>1. \A t \in Tasks : result[t] # "none" => result'[t] # "none"
    BY ExecutorStep DEF ResultsStay
  <2>2. NoClaim /\ Claimless
    BY <1>1, <1>3, OnlyClaims, OtherSteps
  <2> QED
    BY <1>1, <2>1, <2>2, ClaimlessStep
<1> QED
  BY <1>2, <1>3
------------------------------------------------------------------------------
(* The theorems.                                                             *)

\* The two stores agree: a result the origin holds is the executor's, and a
\* delivery is called done only when the task is settled at the origin, whatever
\* breaks between them and however often frames are sent.
THEOREM StoresAgree == TripSpec => []OutcomesAgree
<1>1. TripInv => OutcomesAgree
  BY DEF TripInv, FlowInv, OriginTrue, OutcomesAgree, SameOutcome, DeliveredMeansSettled
<1> QED
  BY <1>1, TripInvariant, PTL

\* What a TaskHandle reports is never contradicted.
THEOREM HandlesAreFinal == TripSpec => []HandleNeverLies
<1>1. HandleTrue => HandleNeverLies
  BY DEF HandleTrue, HandleNeverLies
<1> QED
  BY <1>1, TripInvariant, TripStart, HandleStep, PTL DEF TripSpec

\* A worker whose claim was superseded settles nothing, unless a failure was
\* counted in between.  The assumption says that the clock has not reached the
\* end of its type, where leases would last no time.
THEOREM StaleWorkersSettleNothing == MaxTime < MaxMs => (TripSpec => []StaleWorkerFenced)
<1> SUFFICES ASSUME MaxTime < MaxMs PROVE TripSpec => []StaleWorkerFenced
  OBVIOUS
<1>1. Fenced => StaleWorkerFenced
  BY DEF Fenced, TaskFenced, StaleWorkerFenced
<1>2. TripInv /\ Fenced /\ [TripNext]_tvars => Fenced'
  BY FencedStep
<1> QED
  BY <1>1, <1>2, TripInvariant, TripStart, PTL DEF TripSpec
------------------------------------------------------------------------------
(* Both stores are ResultStores.                                             *)

\* What OriginMoves leaves out: each step of the origin's daemon is an operation
\* of its store.  The origin's tasks have no key, are executed elsewhere, and
\* have neither leases nor outbox rows.
LEMMA OriginStoreSteps ==
    TripInv /\ [TripNext]_tvars => [Origin!ResultNext]_(Origin!rvars)
<1> SUFFICES ASSUME TripInv, [TripNext]_tvars
             PROVE  Origin!ResultNext \/ UNCHANGED Origin!rvars
  OBVIOUS
<1>0. clock \in Origin!ReadTimes /\ clock \in 0..MaxTime
  BY TimesAssumption DEF TripInv, ClaimsTyped, Origin!ReadTimes
<1>1. ASSUME UNCHANGED <<clock, originVars>> PROVE UNCHANGED Origin!rvars
  BY <1>1 DEF originVars, Origin!rvars, Origin!vars
<1>2. ASSUME NEW t \in Tasks, SendTask(t) PROVE Origin!ResultNext \/ UNCHANGED Origin!rvars
  <2>1. clock' = clock /\ o_result' = o_result
    BY <1>2 DEF SendTask, rvars, vars
  <2>2. CASE UNCHANGED originVars
    BY <1>1, <2>1, <2>2
  <2>3. CASE \E d \in Deadlines \cup {NoDeadline} : Origin!InsertTask(t, NoKey, d, "outbound")
    <3>1. NoKey = Origin!NoKey /\ NoDeadline = Origin!NoDeadline
      BY DEF NoKey, Origin!NoKey, NoDeadline, Origin!NoDeadline
    <3>2. Origin!Accepting
      BY <2>3, <3>1 DEF Origin!Accepting, Origin!AcceptTaskWithContext
    <3> QED
      BY <2>1, <3>2 DEF Origin!ResultNext, Origin!StoreStep
  <2> QED
    BY <1>2, <2>2, <2>3 DEF SendTask
<1>3. ASSUME IngestRemoteResultFrame PROVE Origin!ResultNext \/ UNCHANGED Origin!rvars
  <2> DEFINE f == hand["origin"]
  <2>1. f.task \in Tasks /\ f.outcome \in Outcomes
    BY <1>3 DEF TripInv, FlowInv, StreamsTrue, IngestRemoteResultFrame, HandlingFrame, TrueFrames,
                FrameRecord
  <2>2. Ingest(f)
    BY <1>3 DEF IngestRemoteResultFrame
  <2> HIDE DEF f
  <2>3. CASE UNCHANGED <<rvars, originVars>>
    BY <1>1, <2>3 DEF rvars, vars
  <2>4. CASE Origin!IngestRemoteResult(f.task, f.outcome)
    <3>1. Outcomes = Origin!Outcomes
      BY DEF Outcomes, Origin!Outcomes
    <3> QED
      BY <2>1, <2>4, <3>1 DEF Origin!ResultNext, Origin!Ingesting
  <2> QED
    BY <2>2, <2>3, <2>4 DEF Ingest
<1>4. ASSUME OriginLoops PROVE Origin!ResultNext
  <2>1. Origin!FailExpiredDeadlines(clock, AllTasks) /\ o_result' = o_result
    BY <1>4 DEF OriginLoops
  <2>2. Origin!AllTasks = AllTasks
    BY DEF Origin!AllTasks, AllTasks, Origin!Cardinality, Cardinality
  <2>3. Origin!Scanning
    BY <1>0, <2>1, <2>2 DEF Origin!Scanning
  <2> QED
    BY <2>1, <2>3 DEF Origin!ResultNext, Origin!StoreStep
<1>5. ASSUME TimePasses PROVE Origin!ResultNext
  <2>1. clock < MaxTime /\ clock' = clock + 1 /\ UNCHANGED originVars
    BY <1>5 DEF TimePasses, Tick, others
  <2>2. Origin!Tick
    BY <2>1 DEF Origin!Tick, Origin!counters, Origin!fixed, originVars
  <2> QED
    BY <2>1, <2>2 DEF Origin!ResultNext, Origin!StoreStep, originVars
<1>6. \/ \E t \in Tasks : SendTask(t)
      \/ IngestRemoteResultFrame \/ OriginLoops \/ TimePasses
      \/ UNCHANGED <<clock, originVars>>
  <2>1. CASE \E s \in Slots, t \in Tasks : ClaimNext(s, t)
    BY <2>1 DEF ClaimNext, LeaseTask, others
  <2>2. CASE ~\E s \in Slots, t \in Tasks : ClaimNext(s, t)
    <3>1. ASSUME Working, ~TimePasses PROVE UNCHANGED <<clock, originVars>>
      <4>1. UNCHANGED others
        BY <3>1 DEF Working, ClaimNext, Heartbeat, HandlerEnds, Abandon, CompleteCall, FailCall,
                    LateComplete, ExecutorLoops, TimePasses
      <4>2. clock' = clock
        <5>1. ASSUME NEW s \in Slots,
                     \/ Heartbeat(s) \/ HandlerEnds(s) \/ Abandon(s) \/ CompleteCall(s)
                     \/ FailCall(s)
              PROVE  clock' = clock
          BY <5>1 DEF Heartbeat, HandlerEnds, Abandon, CompleteCall, FailCall, Completed, Refused,
                      RenewLease, CompleteTaskWithResult, CompleteTask, FailTaskWithResult, FailTask,
                      FinishTaskInTx, RetryTaskInTx, DeadLetterTaskInTx, rvars, vars
        <5>2. ASSUME NEW r \in late, LateComplete(r) PROVE clock' = clock
          BY <5>2 DEF LateComplete, Completed, Refused, CompleteTaskWithResult, CompleteTask,
                      FinishTaskInTx, rvars, vars
        <5>3. ASSUME ExecutorLoops PROVE clock' = clock
          BY <5>3 DEF ExecutorLoops, RecoverStaleLeases, FailExpiredDeadlines
        <5> QED
          BY <2>2, <3>1, <5>1, <5>2, <5>3 DEF Working
      <4> QED
        BY <4>1, <4>2 DEF others
    <3>2. ASSUME Travelling, ~IngestRemoteResultFrame, ~\E t \in Tasks : SendTask(t)
          PROVE  UNCHANGED <<clock, originVars>>
      BY <3>2 DEF Travelling, SubmitRemoteTask, RefuseRemoteTask, TakeFrame, AckFrame, BreakStream,
                  StreamRestarts, RestartRelay, InsertTask, rvars, vars
    <3>3. ASSUME Sending PROVE UNCHANGED <<clock, originVars>>
      BY <3>3 DEF Sending, ClaimDelivery, PublishResult, Report, PublishFails, SenderCrashes,
                  ClaimNextResultDelivery, AckResultDelivery, FailResultDelivery, rvars, vars
    <3>4. ASSUME Waiting, ~OriginLoops PROVE UNCHANGED <<clock, originVars>>
      BY <3>4 DEF Waiting, ReadTask, ReadResult, rvars, vars
    <3>5. ASSUME UNCHANGED tvars PROVE UNCHANGED <<clock, originVars>>
      BY <3>5 DEF tvars, rvars, vars
    <3> QED
      BY <3>1, <3>2, <3>3, <3>4, <3>5, TripCases
  <2> QED
    BY <2>1, <2>2
<1> QED
  BY <1>1, <1>2, <1>3, <1>4, <1>5, <1>6

\* The round trip drives two ResultStores: whatever is proved of ResultStore
\* holds of the executor's store and of the origin's.
THEOREM BothAreResultStores == TripSpec => ResultSpec /\ Origin!ResultSpec
<1>1. TripInit => ResultInit /\ Origin!ResultInit
  BY DEF TripInit
<1>2. TripInv /\ [TripNext]_tvars => [ResultNext]_rvars
  BY ExecutorSteps DEF TripInv, FlowInv
<1> QED
  BY <1>1, <1>2, OriginStoreSteps, TripInvariant, PTL DEF TripSpec, ResultSpec, Origin!ResultSpec
==============================================================================
