--------------------------- MODULE RelayEdgeProofs ---------------------------
(* Proofs about Mailbox, for every set of nodes, frames and publications and *)
(* every limit, and about RelayEdge: with any number of nodes and frames the *)
(* relay in it is a relay of Mailbox, and what it calls settled its          *)
(* destination has.                                                          *)
EXTENDS RelayEdge, FiniteSetTheorems, TLAPS

\* Appending to a queue adds exactly the new element.
LEMMA AppendFacts ==
  ASSUME NEW S, NEW s \in Seq(S), NEW x \in S
  PROVE  /\ Append(s, x) \in Seq(S)
         /\ Range(Append(s, x)) = Range(s) \cup {x}
         /\ IsInjective(s) /\ x \notin Range(s) => IsInjective(Append(s, x))
<1>1. /\ Append(s, x) \in Seq(S)
      /\ DOMAIN s = 1..Len(s) /\ Len(s) \in Nat
      /\ DOMAIN Append(s, x) = 1..(Len(s) + 1)
      /\ \A i \in 1..Len(s) : Append(s, x)[i] = s[i]
      /\ Append(s, x)[Len(s) + 1] = x
  OBVIOUS
<1>2. \A i \in 1..(Len(s) + 1) : i \in 1..Len(s) \/ i = Len(s) + 1
  BY <1>1
<1>3. Range(Append(s, x)) = Range(s) \cup {x}
  BY <1>1, <1>2 DEF Range
<1>4. IsInjective(s) /\ x \notin Range(s) => IsInjective(Append(s, x))
  BY <1>1, <1>2 DEF Range, IsInjective
<1> QED
  BY <1>1, <1>3, <1>4

\* Popping the front of a queue without repetitions removes exactly its head.
LEMMA TailFacts ==
  ASSUME NEW S, NEW s \in Seq(S), s # <<>>
  PROVE  /\ Head(s) \in Range(s)
         /\ Tail(s) \in Seq(S)
         /\ IsInjective(s) => /\ Range(Tail(s)) = Range(s) \ {Head(s)}
                              /\ IsInjective(Tail(s))
<1>1. /\ Tail(s) \in Seq(S)
      /\ Len(s) \in Nat \ {0} /\ DOMAIN s = 1..Len(s)
      /\ Head(s) = s[1]
      /\ DOMAIN Tail(s) = 1..(Len(s) - 1)
      /\ \A i \in 1..(Len(s) - 1) : Tail(s)[i] = s[i + 1]
  OBVIOUS
<1>2. Head(s) \in Range(s)
  BY <1>1 DEF Range
<1>3. ASSUME IsInjective(s) PROVE Range(Tail(s)) = Range(s) \ {Head(s)}
  <2>1. ASSUME NEW y \in Range(Tail(s)) PROVE y \in Range(s) \ {Head(s)}
    <3>1. PICK i \in 1..(Len(s) - 1) : y = s[i + 1]
      BY <1>1, <2>1 DEF Range
    <3> QED
      BY <1>1, <1>3, <3>1 DEF Range, IsInjective
  <2>2. ASSUME NEW y \in Range(s) \ {Head(s)} PROVE y \in Range(Tail(s))
    <3>1. PICK i \in 1..Len(s) : y = s[i]
      BY <1>1, <2>2 DEF Range
    <3>2. i - 1 \in 1..(Len(s) - 1) /\ Tail(s)[i - 1] = y
      BY <1>1, <2>2, <3>1
    <3> QED
      BY <1>1, <3>2 DEF Range
  <2> QED
    BY <2>1, <2>2
<1>4. ASSUME IsInjective(s) PROVE IsInjective(Tail(s))
  BY <1>1, <1>4 DEF IsInjective
<1> QED
  BY <1>1, <1>2, <1>3, <1>4

\* Trimming a queue keeps elements of it only.
LEMMA SubSeqFacts ==
  ASSUME NEW S, NEW s \in Seq(S), NEW m \in Nat \ {0}, NEW n \in Nat, n <= Len(s)
  PROVE  /\ SubSeq(s, m, n) \in Seq(S)
         /\ Range(SubSeq(s, m, n)) \subseteq Range(s)
<1>1. /\ SubSeq(s, m, n) \in Seq(S)
      /\ DOMAIN s = 1..Len(s)
      /\ Len(s) \in Nat
  OBVIOUS
<1>2. ASSUME NEW y \in Range(SubSeq(s, m, n)) PROVE y \in Range(s)
  <2>1. PICK i \in DOMAIN SubSeq(s, m, n) : y = SubSeq(s, m, n)[i]
    BY <1>2 DEF Range
  <2>2. DOMAIN SubSeq(s, m, n) = 1..Len(SubSeq(s, m, n))
    BY <1>1
  <2>3. i \in Nat /\ m + i - 1 \in 1..Len(s) /\ SubSeq(s, m, n)[i] = s[m + i - 1]
    BY <1>1, <2>2
  <2> QED
    BY <1>1, <2>1, <2>3 DEF Range
<1> QED
  BY <1>1, <1>2
-----------------------------------------------------------------------------
(* Frames and the calls that wait for them.                                  *)

FrameTypes ==
    /\ frame \in [Frames -> {Unrouted} \cup [kind : Kinds, to : Nodes]]
    /\ frameDestinations \subseteq Frames
    /\ acknowledgedFrames \in Seq(Frames)
    /\ waiters \in [WaitKinds -> SUBSET Frames]
    /\ call \in [Frames -> CallStates]

\* The inductive core of WaitersBacked and AcknowledgedIsSettled: whatever is
\* owed or remembered was routed, only the waiting RPCs have a call, and an owed
\* frame of theirs still has its caller waiting.
CallInv ==
    /\ WaitersBacked
    /\ AcknowledgedIsSettled
    /\ \A f \in frameDestinations \cup Range(acknowledgedFrames) : frame[f] # Unrouted
    /\ \A f \in Frames :
         /\ call[f] = "none" <=> frame[f].kind \notin WaitKinds
         /\ f \in frameDestinations /\ frame[f].kind \in WaitKinds
              => call[f] = "waiting"

\* The relay starts with nothing owed and nobody waiting.
LEMMA CallStart == RelayInit => FrameTypes /\ CallInv
<1> SUFFICES ASSUME RelayInit PROVE FrameTypes /\ CallInv
  OBVIOUS
<1>1. Range(acknowledgedFrames) = {}
  BY DEF RelayInit, Range
<1>2. FrameTypes
  BY DEF RelayInit, FrameTypes, CallStates, Unrouted
<1>3. WaitersBacked /\ AcknowledgedIsSettled
  BY <1>1 DEF RelayInit, WaitersBacked, AcknowledgedIsSettled
<1>4. \A f \in Frames : frame[f].kind \notin WaitKinds /\ call[f] = "none"
  BY DEF RelayInit, Unrouted, WaitKinds
<1> QED
  BY <1>1, <1>2, <1>3, <1>4 DEF RelayInit, CallInv

\* What routing a frame does to the frame tables, whatever the stream does.
Routed(f, n, kind) ==
    /\ frame[f] = Unrouted
    /\ frame[f].kind = "unused"
    /\ f \notin frameDestinations
    /\ f \notin Range(acknowledgedFrames)
    /\ call[f] = "none"
    /\ frame' \in [Frames -> {Unrouted} \cup [kind : Kinds, to : Nodes]]
    /\ frame'[f] = [kind |-> kind, to |-> n]
    /\ frame'[f].kind = kind
    /\ frame'[f] # Unrouted
    /\ \A g \in Frames \ {f} : frame'[g] = frame[g]
    /\ frameDestinations' = frameDestinations \cup {f}

\* route_frame_locked takes a frame id nobody used and becomes its owner.
LEMMA RouteFacts ==
  ASSUME FrameTypes, CallInv, NEW f \in Frames, NEW n \in Nodes, NEW kind \in Kinds,
         RouteFrame(f, n, kind)
  PROVE  Routed(f, n, kind)
<1>1. /\ frame[f] = Unrouted
      /\ frame' = [frame EXCEPT ![f] = [kind |-> kind, to |-> n]]
      /\ frameDestinations' = frameDestinations \cup {f}
  BY DEF RouteFrame
<1>2. frame[f].kind = "unused" /\ "unused" \notin Kinds /\ "unused" \notin WaitKinds
  BY <1>1 DEF Unrouted, Kinds, WaitKinds
<1>3. [kind |-> kind, to |-> n] # Unrouted
  BY <1>2 DEF Unrouted
<1>4. f \notin frameDestinations /\ f \notin Range(acknowledgedFrames)
  BY <1>1 DEF CallInv
<1>5. call[f] = "none"
  BY <1>2 DEF CallInv
<1>6. [kind |-> kind, to |-> n] \in [kind : Kinds, to : Nodes]
  OBVIOUS
<1>7. /\ frame' \in [Frames -> {Unrouted} \cup [kind : Kinds, to : Nodes]]
      /\ frame'[f] = [kind |-> kind, to |-> n]
      /\ \A g \in Frames \ {f} : frame'[g] = frame[g]
  BY <1>1, <1>6 DEF FrameTypes
<1> QED
  BY <1>1, <1>2, <1>3, <1>4, <1>5, <1>7 DEF Routed

\* remember_acknowledgement keeps a part of the old history and the new entry.
LEMMA RememberFacts ==
  ASSUME FrameTypes, NEW f \in Frames, RememberAcknowledgement(f)
  PROVE  /\ acknowledgedFrames' \in Seq(Frames)
         /\ Range(acknowledgedFrames)' \subseteq Range(acknowledgedFrames) \cup {f}
<1> USE MailboxAssumption
<1> DEFINE order == Append(acknowledgedFrames, f)
           first == IF Len(order) > MaxRecentAcks
                      THEN Len(order) - MaxRecentAcks + 1 ELSE 1
<1>1. order \in Seq(Frames) /\ Range(order) = Range(acknowledgedFrames) \cup {f}
  BY AppendFacts DEF FrameTypes
<1>2. Len(order) \in Nat /\ first \in Nat \ {0}
  BY <1>1
<1>3. acknowledgedFrames' = SubSeq(order, first, Len(order))
  BY DEF RememberAcknowledgement
<1> HIDE DEF order, first
<1>4. /\ SubSeq(order, first, Len(order)) \in Seq(Frames)
      /\ Range(SubSeq(order, first, Len(order))) \subseteq Range(order)
  BY <1>1, <1>2, SubSeqFacts
<1>5. Range(acknowledgedFrames)' = Range(SubSeq(order, first, Len(order)))
  BY <1>3 DEF Range
<1> QED
  BY <1>1, <1>3, <1>4, <1>5

\* Every step of the relay preserves it: a waiter leaves its table together with
\* the ownership of its frame, and the caller learns of it in the same step.
LEMMA CallStep == FrameTypes /\ CallInv /\ [RelayNext]_relayVars => FrameTypes' /\ CallInv'
<1> SUFFICES ASSUME FrameTypes, CallInv, [RelayNext]_relayVars
             PROVE  FrameTypes' /\ CallInv'
  OBVIOUS
<1> USE MailboxAssumption
<1>u. ASSUME UNCHANGED <<frame, frameDestinations, acknowledgedFrames, waiters, call>>
      PROVE  FrameTypes' /\ CallInv'
  BY <1>u DEF FrameTypes, CallInv, WaitersBacked, AcknowledgedIsSettled, Range
<1>1. ASSUME NEW f \in Frames, NEW n \in Nodes, NEW kind \in CallKinds,
             PublishAndWait(f, n, kind)
      PROVE  FrameTypes' /\ CallInv'
  <2>1. kind \in WaitKinds /\ kind \in Kinds
    BY DEF Kinds
  <2>2. RouteFrame(f, n, kind)
    BY <1>1 DEF PublishAndWait
  <2>3. /\ waiters' = [waiters EXCEPT ![kind] = @ \cup {f}]
        /\ call' = [call EXCEPT ![f] = "waiting"]
        /\ acknowledgedFrames' = acknowledgedFrames
    BY <1>1 DEF PublishAndWait, ackVars
  <2>4. /\ waiters' \in [WaitKinds -> SUBSET Frames]
        /\ call' \in [Frames -> CallStates]
        /\ \A g \in Frames \ {f} : call'[g] = call[g]
        /\ call'[f] = "waiting"
        /\ \A k \in WaitKinds : waiters'[k] = IF k = kind THEN waiters[k] \cup {f}
                                                          ELSE waiters[k]
    BY <2>1, <2>3 DEF FrameTypes, CallStates
  <2>r. Routed(f, n, kind)
    BY <2>1, <2>2, RouteFacts
  <2>5. FrameTypes'
    BY <2>3, <2>4, <2>r DEF FrameTypes, Routed
  <2>6. \A k \in WaitKinds : f \notin waiters[k]
    BY <2>1, <2>r DEF CallInv, WaitersBacked, Routed
  <2>7. WaitersBacked'
    BY <2>1, <2>4, <2>6, <2>r DEF CallInv, WaitersBacked, Routed
  <2>8. Range(acknowledgedFrames)' = Range(acknowledgedFrames)
    BY <2>3 DEF Range
  <2>9. AcknowledgedIsSettled'
    BY <2>1, <2>8, <2>r DEF CallInv, AcknowledgedIsSettled, Routed
  <2>10. \A g \in Frames : /\ call'[g] = "none" <=> frame'[g].kind \notin WaitKinds
                           /\ g \in frameDestinations' /\ frame'[g].kind \in WaitKinds
                                => call'[g] = "waiting"
    BY <2>1, <2>4, <2>r DEF CallInv, Routed
  <2>11. Range(acknowledgedFrames) \subseteq Frames
    BY DEF FrameTypes, Range
  <2>12. \A g \in (frameDestinations \cup Range(acknowledgedFrames))' : frame'[g] # Unrouted
    BY <2>1, <2>8, <2>11, <2>r DEF CallInv, FrameTypes, Routed
  <2> QED
    BY <2>5, <2>7, <2>9, <2>10, <2>12 DEF CallInv, Unrouted
<1>2. ASSUME NEW f \in Frames, NEW k \in TaskKeys, PublishTask(f, k)
      PROVE  FrameTypes' /\ CallInv'
  <2>1. TaskDest[k] \in Nodes /\ "task" \in Kinds /\ "task" \notin WaitKinds
    BY DEF Kinds, WaitKinds
  <2>2. RouteFrame(f, TaskDest[k], "task")
    BY <1>2 DEF PublishTask
  <2>3. UNCHANGED <<waiters, call, acknowledgedFrames>>
    BY <1>2 DEF PublishTask, ackVars, callVars
  <2>r. Routed(f, TaskDest[k], "task")
    BY <2>1, <2>2, RouteFacts
  <2>5. FrameTypes'
    BY <2>3, <2>r DEF FrameTypes, Routed
  <2>7. WaitersBacked'
    BY <2>1, <2>3, <2>r DEF CallInv, WaitersBacked, Routed
  <2>8. Range(acknowledgedFrames)' = Range(acknowledgedFrames)
    BY <2>3 DEF Range
  <2>9. AcknowledgedIsSettled'
    BY <2>1, <2>8, <2>r DEF CallInv, AcknowledgedIsSettled, Routed
  <2>10. \A g \in Frames : /\ call'[g] = "none" <=> frame'[g].kind \notin WaitKinds
                           /\ g \in frameDestinations' /\ frame'[g].kind \in WaitKinds
                                => call'[g] = "waiting"
    BY <2>1, <2>3, <2>r DEF CallInv, Routed
  <2>11. Range(acknowledgedFrames) \subseteq Frames
    BY DEF FrameTypes, Range
  <2>12. \A g \in (frameDestinations \cup Range(acknowledgedFrames))' : frame'[g] # Unrouted
    BY <2>1, <2>8, <2>11, <2>r DEF CallInv, FrameTypes, Routed
  <2> QED
    BY <2>5, <2>7, <2>9, <2>10, <2>12 DEF CallInv, Unrouted
<1>3. ASSUME NEW n \in Nodes, NEW f \in Frames, AckFrame(n, f)
      PROVE  FrameTypes' /\ CallInv'
  <2>1. /\ Acknowledgeable(n, f)
        /\ frame' = frame
        /\ frameDestinations' = frameDestinations \ {f}
        /\ waiters' = [waiters EXCEPT !["result"] = @ \ {f}]
        /\ IF f \in waiters["result"] THEN call' = [call EXCEPT ![f] = "resolved"]
                                      ELSE call' = call
        /\ RememberAcknowledgement(f)
    BY <1>3 DEF AckFrame, Release, Resolve
  <2>2. /\ acknowledgedFrames' \in Seq(Frames)
        /\ Range(acknowledgedFrames)' \subseteq Range(acknowledgedFrames) \cup {f}
    BY <2>1, RememberFacts
  <2>3. f \in frameDestinations /\ frame[f] # Unrouted
    BY <2>1 DEF Acknowledgeable, CallInv
  <2>4. \A kind \in ControlKinds : f \notin waiters[kind]
    BY <2>1 DEF Acknowledgeable, AwaitsCompletion
  <2>5. f \in waiters["result"] \/ frame[f].kind \notin WaitKinds
    BY <2>3, <2>4 DEF CallInv, WaitersBacked, WaitKinds, ControlKinds
  <2>6. FrameTypes'
    BY <2>1, <2>2 DEF FrameTypes, CallStates, WaitKinds
  <2>7. WaitersBacked'
    BY <2>1, <2>3, <2>4, <2>5 DEF CallInv, WaitersBacked, FrameTypes, WaitKinds, ControlKinds
  <2>8. AcknowledgedIsSettled'
    BY <2>1, <2>2 DEF CallInv, AcknowledgedIsSettled
  <2>9. \A g \in Frames : /\ call'[g] = "none" <=> frame'[g].kind \notin WaitKinds
                          /\ g \in frameDestinations' /\ frame'[g].kind \in WaitKinds
                               => call'[g] = "waiting"
    BY <2>1, <2>5 DEF CallInv, WaitersBacked, FrameTypes, WaitKinds
  <2>10. \A g \in (frameDestinations \cup Range(acknowledgedFrames))' : frame'[g] # Unrouted
    BY <2>1, <2>2, <2>3 DEF CallInv
  <2> QED
    BY <2>6, <2>7, <2>8, <2>9, <2>10 DEF CallInv, Unrouted
<1>s. ASSUME UNCHANGED <<frame, acknowledgedFrames>>,
             frameDestinations' \subseteq frameDestinations,
             waiters' \in [WaitKinds -> SUBSET Frames],
             call' \in [Frames -> CallStates],
             \A g \in Frames :
               \/ /\ call'[g] = call[g]
                  /\ g \in frameDestinations' <=> g \in frameDestinations
                  /\ \A kind \in WaitKinds : g \in waiters'[kind] <=> g \in waiters[kind]
               \/ /\ call[g] # "none"
                  /\ call'[g] \notin {"none", "waiting"}
                  /\ g \notin frameDestinations'
                  /\ \A kind \in WaitKinds : g \notin waiters'[kind]
      PROVE  FrameTypes' /\ CallInv'
  <2>1. Range(acknowledgedFrames)' = Range(acknowledgedFrames)
    BY <1>s DEF Range
  <2>2. FrameTypes'
    BY <1>s DEF FrameTypes
  <2>3. WaitersBacked'
    BY <1>s DEF CallInv, WaitersBacked
  <2>4. AcknowledgedIsSettled'
    BY <1>s, <2>1 DEF CallInv, AcknowledgedIsSettled
  <2>5. \A g \in Frames : /\ call'[g] = "none" <=> frame'[g].kind \notin WaitKinds
                          /\ g \in frameDestinations' /\ frame'[g].kind \in WaitKinds
                               => call'[g] = "waiting"
    BY <1>s DEF CallInv
  <2>6. \A g \in (frameDestinations \cup Range(acknowledgedFrames))' : frame'[g] # Unrouted
    BY <1>s, <2>1 DEF CallInv
  <2> QED
    BY <2>2, <2>3, <2>4, <2>5, <2>6 DEF CallInv, Unrouted
<1>4. ASSUME NEW n \in Nodes, NEW f \in Frames, NEW kind \in ControlKinds,
             CompleteControl(n, f, kind)
      PROVE  FrameTypes' /\ CallInv'
  <2>1. kind \in WaitKinds
    BY DEF ControlKinds, WaitKinds
  <2>2. f \in waiters[kind]
    BY <1>4 DEF CompleteControl, Completable
  <2>3. call[f] = "waiting" /\ f \in frameDestinations
    BY <2>1, <2>2 DEF CallInv, WaitersBacked
  <2>4. \A k \in WaitKinds \ {kind} : f \notin waiters[k]
    BY <2>1, <2>2 DEF CallInv, WaitersBacked
  <2>5. /\ frame' = frame /\ acknowledgedFrames' = acknowledgedFrames
        /\ waiters' = [waiters EXCEPT ![kind] = @ \ {f}]
        /\ frameDestinations' = frameDestinations \ {f}
        /\ call' = [call EXCEPT ![f] = "resolved"]
    BY <1>4, <2>3 DEF CompleteControl, Release, Resolve, ackVars
  <2>6. /\ waiters' \in [WaitKinds -> SUBSET Frames]
        /\ call' \in [Frames -> CallStates]
    BY <2>1, <2>5 DEF FrameTypes, CallStates
  <2>7. \A k \in WaitKinds : f \notin waiters'[k]
    BY <2>1, <2>4, <2>5 DEF FrameTypes
  <2>8. \A g \in Frames \ {f} :
           /\ call'[g] = call[g]
           /\ g \in frameDestinations' <=> g \in frameDestinations
           /\ \A k \in WaitKinds : g \in waiters'[k] <=> g \in waiters[k]
    BY <2>1, <2>5 DEF FrameTypes
  <2>9. call'[f] = "resolved"
    BY <2>5 DEF FrameTypes
  <2> QED
    BY <1>s, <2>3, <2>5, <2>6, <2>7, <2>8, <2>9
<1>5. ASSUME NEW f \in Frames, Answer(f) PROVE FrameTypes' /\ CallInv'
  <2>1. /\ UNCHANGED <<frame, frameDestinations, acknowledgedFrames, waiters>>
        /\ call[f] = "resolved"
        /\ call' = [call EXCEPT ![f] = "ok"]
    BY <1>5 DEF Answer, frameVars, ackVars
  <2>2. frame[f].kind \in WaitKinds
    BY <2>1 DEF CallInv
  <2>3. f \notin frameDestinations /\ \A k \in WaitKinds : f \notin waiters[k]
    BY <2>1, <2>2 DEF CallInv, WaitersBacked
  <2>4. call' \in [Frames -> CallStates]
    BY <2>1 DEF FrameTypes, CallStates
  <2> QED
    BY <1>s, <2>1, <2>3, <2>4 DEF FrameTypes
<1>6. ASSUME NEW f \in Frames, GiveUp(f) PROVE FrameTypes' /\ CallInv'
  <2>1. /\ UNCHANGED <<frame, acknowledgedFrames>>
        /\ call[f] # "none"
        /\ call' = [call EXCEPT ![f] = "failed"]
        /\ frameDestinations' = frameDestinations \ {f}
        /\ waiters' = [kind \in WaitKinds |-> waiters[kind] \ {f}]
    BY <1>6 DEF GiveUp, Fail, Release, ackVars
  <2>2. /\ waiters' \in [WaitKinds -> SUBSET Frames]
        /\ call' \in [Frames -> CallStates]
    BY <2>1 DEF FrameTypes, CallStates
  <2> QED
    BY <1>s, <2>1, <2>2 DEF FrameTypes
<1>7. ASSUME NEW g \in Generations, StreamEnds(g) PROVE FrameTypes' /\ CallInv'
  <2> DEFINE n == streamNode[g]
             gone == FleetObservations(n)
  <2>1. CASE ~IsCurrent(n, g)
    BY <1>7, <1>u, <2>1 DEF StreamEnds, ackVars, callVars
  <2>2. CASE IsCurrent(n, g)
    <3>1. /\ UNCHANGED <<frame, acknowledgedFrames>>
          /\ waiters' = [waiters EXCEPT !["fleet"] = @ \ gone]
          /\ call' = [f \in Frames |-> IF f \in gone THEN "dropped" ELSE call[f]]
          /\ frameDestinations' = frameDestinations \ gone
      BY <1>7, <2>2 DEF StreamEnds, ackVars
    <3>2. gone \subseteq waiters["fleet"] /\ "fleet" \in WaitKinds
      BY DEF FleetObservations, WaitKinds
    <3> HIDE DEF gone, n
    <3>3. \A f \in gone : call[f] = "waiting" /\ \A k \in WaitKinds \ {"fleet"} : f \notin waiters[k]
      BY <3>2 DEF CallInv, WaitersBacked, FrameTypes
    <3>4. /\ waiters' \in [WaitKinds -> SUBSET Frames]
          /\ call' \in [Frames -> CallStates]
      BY <3>1, <3>2 DEF FrameTypes, CallStates
    <3>5. \A f \in Frames \cap gone :
             /\ call'[f] = "dropped"
             /\ f \notin frameDestinations'
             /\ \A k \in WaitKinds : f \notin waiters'[k]
      BY <3>1, <3>2, <3>3 DEF FrameTypes
    <3>6. \A f \in Frames \ gone :
             /\ call'[f] = call[f]
             /\ f \in frameDestinations' <=> f \in frameDestinations
             /\ \A k \in WaitKinds : f \in waiters'[k] <=> f \in waiters[k]
      BY <3>1, <3>2 DEF FrameTypes
    <3> QED
      BY <1>s, <3>1, <3>3, <3>4, <3>5, <3>6
  <2> QED
    BY <2>1, <2>2
<1>8. ASSUME Restart PROVE FrameTypes' /\ CallInv'
  <2>1. /\ frame' = frame /\ frameDestinations' = {} /\ acknowledgedFrames' = <<>>
        /\ waiters' = [kind \in WaitKinds |-> {}]
        /\ call' = [f \in Frames |->
                      IF call[f] \in {"waiting", "dropped", "resolved"}
                        THEN "failed" ELSE call[f]]
    BY <1>8 DEF Restart, EmptyPeerState
  <2>2. Range(acknowledgedFrames)' = {}
    BY <2>1 DEF Range
  <2>3. FrameTypes'
    BY <2>1 DEF FrameTypes, CallStates
  <2>4. WaitersBacked' /\ AcknowledgedIsSettled'
    BY <2>1 DEF WaitersBacked, AcknowledgedIsSettled
  <2>5. \A f \in Frames : call'[f] = "none" <=> frame'[f].kind \notin WaitKinds
    BY <2>1 DEF CallInv
  <2> QED
    BY <2>1, <2>2, <2>3, <2>4, <2>5 DEF CallInv
<1>9. ASSUME NEW n \in Nodes, Connect(n) PROVE FrameTypes' /\ CallInv'
  BY <1>9, <1>u DEF Connect, frameVars, ackVars, callVars
<1>10. ASSUME NEW g \in Generations, DropReceiver(g) \/ Receive(g)
       PROVE  FrameTypes' /\ CallInv'
  BY <1>10, <1>u DEF DropReceiver, Receive, frameVars, ackVars, callVars
<1>11. CASE UNCHANGED relayVars
  BY <1>11, <1>u DEF relayVars, frameVars, ackVars, callVars
<1> QED
  BY <1>1, <1>2, <1>3, <1>4, <1>5, <1>6, <1>7, <1>8, <1>9, <1>10, <1>11 DEF RelayNext

\* WaitersBacked holds of every relay: a publishing RPC that is still waiting in
\* health_server.rs has its oneshot sender in the table of its kind and its frame
\* in frame_destinations, and the tables hold nothing else.
THEOREM WaitersAlwaysBacked == RelaySpec => []WaitersBacked
<1>1. FrameTypes /\ CallInv => WaitersBacked
  BY DEF CallInv
<1> QED
  BY <1>1, CallStart, CallStep, PTL DEF RelaySpec

\* AcknowledgedIsSettled holds of every relay: whatever ack_frame remembers has
\* left frame_destinations, so the filter of connect_node_fenced drops nothing.
THEOREM AcknowledgedAlwaysSettled == RelaySpec => []AcknowledgedIsSettled
<1>1. FrameTypes /\ CallInv => AcknowledgedIsSettled
  BY DEF CallInv
<1> QED
  BY <1>1, CallStart, CallStep, PTL DEF RelaySpec
-----------------------------------------------------------------------------
(* The retained publications.                                                *)

TaskTypes ==
    /\ publishedTasks \in [TaskKeys -> Records \cup {NoTask}]
    /\ publishedFrameIndex \in [Frames -> TaskKeys \cup {NoTask}]
    /\ acknowledgedPublishedTaskOrder \in Seq(TaskKeys)

\* The tables with a limit are finite and within it.
BoundInv ==
    /\ IsFiniteSet(frameDestinations)
    /\ IsFiniteSet(Retained)
    /\ TablesBounded
    /\ restarts \in Nat

\* The inductive core of ReceiptBacked, OneFramePerTask and EvictionOrder: every
\* retained record, acknowledged or not, names a task frame of its destination.
TaskInv ==
    /\ ReceiptBacked
    /\ OneFramePerTask
    /\ EvictionOrder
    /\ \A k \in Retained :
         frame[publishedTasks[k].frame] = [kind |-> "task", to |-> TaskDest[k]]

RelayInv == FrameTypes /\ CallInv /\ TaskTypes /\ BoundInv /\ TaskInv

\* A relay starts with no publication.
LEMMA TaskStart == RelayInit => TaskTypes /\ BoundInv /\ TaskInv
<1> SUFFICES ASSUME RelayInit PROVE TaskTypes /\ BoundInv /\ TaskInv
  OBVIOUS
<1> USE MailboxAssumption
<1>1. TaskTypes
  BY DEF RelayInit, TaskTypes
<1>2. Retained = {} /\ frameDestinations = {} /\ acknowledgedFrames = <<>>
  BY DEF RelayInit, Retained
<1>3. BoundInv
  <2>1. Len(acknowledgedFrames) = 0
    BY <1>2
  <2> QED
    BY <1>2, <2>1, FS_EmptySet DEF BoundInv, TablesBounded, RelayInit
<1>4. EvictionOrder
  <2>1. IsInjective(<<>>) /\ Range(<<>>) = {}
    BY DEF IsInjective, Range
  <2>2. \A k \in TaskKeys, f \in Frames : publishedFrameIndex[f] # k /\ publishedTasks[k] = NoTask
    BY DEF RelayInit
  <2> QED
    BY <1>2, <2>1, <2>2 DEF RelayInit, EvictionOrder
<1> QED
  BY <1>1, <1>2, <1>3, <1>4 DEF TaskInv, ReceiptBacked, OneFramePerTask

\* publish_task_frame has room: nothing is evicted below the limit, and at the
\* limit the head of the eviction order is.
LEMMA RoomFacts ==
  ASSUME IsFiniteSet(Retained), RoomForRecord
  PROVE  \/ Evicted = {} /\ Cardinality(Retained) < MaxRetained
         \/ /\ acknowledgedPublishedTaskOrder # <<>>
            /\ Evicted = {Head(acknowledgedPublishedTaskOrder)}
<1>1. Cardinality(Retained) \in Nat /\ MaxRetained \in Nat
  BY FS_CardinalityType, MailboxAssumption
<1> QED
  BY <1>1 DEF RoomForRecord, Evicted

\* A retained record names a task frame.
LEMMA RetainedAreTasks ==
  ASSUME TaskInv, NEW k \in Retained
  PROVE  frame[publishedTasks[k].frame].kind = "task"
<1>1. frame[publishedTasks[k].frame] = [kind |-> "task", to |-> TaskDest[k]]
  BY DEF TaskInv
<1> QED
  BY ONLY <1>1

\* The publication step: the new record and its frame appear together, and the
\* record that makes room for it is an acknowledged one.
LEMMA PublishTaskStep ==
  ASSUME RelayInv, NEW f \in Frames, NEW k \in TaskKeys, PublishTask(f, k)
  PROVE  TaskTypes' /\ TaskInv'
<1> USE MailboxAssumption
<1> DEFINE order == acknowledgedPublishedTaskOrder
           record == [frame |-> f, acknowledged |-> FALSE]
<1>1. TaskDest[k] \in Nodes /\ "task" \in Kinds /\ "task" \notin WaitKinds
  BY DEF Kinds, WaitKinds
<1>r. Routed(f, TaskDest[k], "task")
  BY <1>1, RouteFacts DEF PublishTask, RelayInv
<1>2. /\ publishedTasks[k] = NoTask
      /\ publishedTasks' = [j \in TaskKeys |->
                              IF j = k THEN record
                              ELSE IF j \in Evicted THEN NoTask ELSE publishedTasks[j]]
      /\ publishedFrameIndex' =
           [g \in Frames |->
              IF g = f THEN k
              ELSE IF \E j \in Evicted : publishedTasks[j] # NoTask
                                         /\ publishedTasks[j].frame = g
                     THEN NoTask ELSE publishedFrameIndex[g]]
      /\ order' = IF Evicted = {} THEN order ELSE Tail(order)
  BY DEF PublishTask, UnknownIdentity
<1>3. /\ order \in Seq(TaskKeys) /\ IsInjective(order)
      /\ Range(order) = {j \in Retained : publishedTasks[j].acknowledged}
  BY DEF RelayInv, TaskTypes, TaskInv, EvictionOrder
<1>4. /\ Evicted \subseteq Range(order)
      /\ order' \in Seq(TaskKeys)
      /\ IsInjective(order')
      /\ Range(order') = Range(order) \ Evicted
  <2>1. CASE Evicted = {}
    BY <1>2, <1>3, <2>1
  <2>2. CASE order # <<>> /\ Evicted = {Head(order)}
    <3>1. /\ Head(order) \in Range(order) /\ Tail(order) \in Seq(TaskKeys)
          /\ Range(Tail(order)) = Range(order) \ {Head(order)}
          /\ IsInjective(Tail(order))
      BY <1>3, <2>2, TailFacts
    <3>2. order' = Tail(order)
      BY <1>2, <2>2
    <3> HIDE DEF order
    <3> QED
      BY <2>2, <3>1, <3>2
  <2> QED
    BY <2>1, <2>2, RoomFacts DEF PublishTask, RelayInv, BoundInv
<1>5. Evicted \subseteq {j \in TaskKeys : publishedTasks[j] # NoTask
                                          /\ publishedTasks[j].acknowledged}
  BY <1>3, <1>4 DEF Retained
<1>6. record \in Records /\ record # NoTask /\ record.frame = f /\ ~record.acknowledged
  <2>1. record \in Records /\ record.frame = f /\ record.acknowledged = FALSE
    BY DEF Records
  <2> HIDE DEF record
  <2>2. record # NoTask
    BY <2>1
  <2> QED
    BY <2>1, <2>2
<1> HIDE DEF record
<1>7. TaskTypes'
  <2>1. publishedTasks' \in [TaskKeys -> Records \cup {NoTask}]
    BY <1>2, <1>6 DEF RelayInv, TaskTypes
  <2>2. publishedFrameIndex' \in [Frames -> TaskKeys \cup {NoTask}]
    BY <1>2 DEF RelayInv, TaskTypes
  <2> QED
    BY <1>4, <2>1, <2>2 DEF TaskTypes
<1>8. /\ publishedTasks'[k] = record
      /\ \A j \in TaskKeys \ {k} :
           publishedTasks'[j] = IF j \in Evicted THEN NoTask ELSE publishedTasks[j]
      /\ Retained' = (Retained \ Evicted) \cup {k}
  BY <1>2, <1>5, <1>6 DEF Retained
<1>9. \A j \in Retained : /\ publishedTasks[j] \in Records
                          /\ publishedTasks[j].frame \in Frames \ {f}
  <2>1. \A j \in Retained : publishedTasks[j] \in Records
    BY DEF RelayInv, TaskTypes, Retained
  <2>2. \A j \in Retained : publishedTasks[j].frame # f
    BY <1>r, RetainedAreTasks DEF RelayInv, Routed
  <2> QED
    BY <2>1, <2>2 DEF Records
<1>10. \A j \in Retained' :
          frame'[publishedTasks'[j].frame] = [kind |-> "task", to |-> TaskDest[j]]
  BY <1>6, <1>8, <1>9, <1>r DEF RelayInv, TaskInv, Retained, Routed
<1>11. ReceiptBacked'
  <2>1. \A j \in Retained' : ~publishedTasks'[j].acknowledged =>
                                publishedTasks'[j].frame \in frameDestinations'
    <3> SUFFICES ASSUME NEW j \in Retained', ~publishedTasks'[j].acknowledged
                 PROVE  publishedTasks'[j].frame \in frameDestinations'
      OBVIOUS
    <3>1. CASE j = k
      BY <1>6, <1>8, <1>r, <3>1 DEF Routed
    <3>2. CASE j # k
      <4>1. j \in Retained /\ publishedTasks'[j] = publishedTasks[j]
        BY <1>8, <3>2 DEF Retained
      <4> QED
        BY <1>r, <4>1 DEF RelayInv, TaskInv, ReceiptBacked, Routed
    <3> QED
      BY <3>1, <3>2
  <2> QED
    BY <1>10, <2>1 DEF ReceiptBacked
<1>12. \A g \in Frames \ {f}, j \in TaskKeys :
          publishedFrameIndex'[g] = j <=> publishedFrameIndex[g] = j /\ j \notin Evicted
  <2> SUFFICES ASSUME NEW g \in Frames \ {f}, NEW j \in TaskKeys
               PROVE  publishedFrameIndex'[g] = j
                        <=> publishedFrameIndex[g] = j /\ j \notin Evicted
    OBVIOUS
  <2>1. \A i \in TaskKeys : publishedFrameIndex[g] = i
                              <=> publishedTasks[i] # NoTask /\ publishedTasks[i].frame = g
    BY DEF RelayInv, TaskInv, EvictionOrder
  <2>2. CASE \E i \in Evicted : publishedTasks[i] # NoTask /\ publishedTasks[i].frame = g
    BY <1>2, <1>5, <2>1, <2>2
  <2>3. CASE ~\E i \in Evicted : publishedTasks[i] # NoTask /\ publishedTasks[i].frame = g
    BY <1>2, <1>5, <2>1, <2>3
  <2> QED
    BY <2>2, <2>3
<1>13. publishedFrameIndex'[f] = k
  BY <1>2
<1>14. OneFramePerTask'
  <2> SUFFICES ASSUME NEW g \in frameDestinations', frame'[g].kind = "task"
               PROVE  \E j \in Retained' : /\ publishedTasks'[j].frame = g
                                           /\ publishedFrameIndex'[g] = j
                                           /\ ~publishedTasks'[j].acknowledged
    BY DEF OneFramePerTask
  <2>1. CASE g = f
    BY <1>6, <1>8, <1>13, <2>1
  <2>2. CASE g # f
    <3>1. g \in frameDestinations /\ g \in Frames /\ frame[g].kind = "task"
      BY <1>r, <2>2 DEF RelayInv, FrameTypes, Routed
    <3>2. PICK j \in Retained : /\ publishedTasks[j].frame = g
                                /\ publishedFrameIndex[g] = j
                                /\ ~publishedTasks[j].acknowledged
      BY <3>1 DEF RelayInv, TaskInv, OneFramePerTask
    <3>3. j \in TaskKeys /\ j # k /\ j \notin Evicted
      BY <1>2, <1>5, <3>2 DEF Retained
    <3> QED
      BY <1>8, <1>12, <2>2, <3>1, <3>2, <3>3
  <2> QED
    BY <2>1, <2>2
<1>15. EvictionOrder'
  <2>1. Range(order)' = Range(order')
    BY DEF Range
  <2>2. Range(order') = {j \in Retained' : publishedTasks'[j].acknowledged}
    BY <1>2, <1>3, <1>4, <1>6, <1>8 DEF Retained
  <2>3. \A j \in TaskKeys, g \in Frames :
           publishedFrameIndex'[g] = j
             <=> publishedTasks'[j] # NoTask /\ publishedTasks'[j].frame = g
    <3> SUFFICES ASSUME NEW j \in TaskKeys, NEW g \in Frames
                 PROVE  publishedFrameIndex'[g] = j
                          <=> publishedTasks'[j] # NoTask /\ publishedTasks'[j].frame = g
      OBVIOUS
    <3>1. CASE g = f
      BY <1>6, <1>8, <1>9, <1>13, <3>1 DEF Retained
    <3>2. CASE g # f /\ j = k
      <4>1. publishedFrameIndex[g] # k
        BY <1>2 DEF RelayInv, TaskInv, EvictionOrder
      <4> QED
        BY <1>6, <1>8, <1>12, <3>2, <4>1
    <3>3. CASE g # f /\ j # k
      <4>1. publishedFrameIndex[g] = j
              <=> publishedTasks[j] # NoTask /\ publishedTasks[j].frame = g
        BY DEF RelayInv, TaskInv, EvictionOrder
      <4> QED
        BY <1>8, <1>12, <3>3, <4>1
    <3> QED
      BY <3>1, <3>2, <3>3
  <2>4. IsInjective(order)'
    BY <1>4 DEF IsInjective
  <2> QED
    BY <2>1, <2>2, <2>3, <2>4 DEF EvictionOrder
<1> QED
  BY <1>7, <1>10, <1>11, <1>14, <1>15 DEF TaskInv

\* The acknowledgement step: a task frame and the pending mark of its publication
\* go together, and the record joins the eviction order.
LEMMA AckFrameStep ==
  ASSUME RelayInv, NEW n \in Nodes, NEW f \in Frames, AckFrame(n, f)
  PROVE  /\ TaskTypes' /\ TaskInv'
         /\ Retained' = Retained
         /\ frame[f].kind = "task" => publishedTasks'[publishedFrameIndex[f]].acknowledged
         /\ \A j \in Retained :
              /\ publishedTasks'[j].frame = publishedTasks[j].frame
              /\ publishedTasks'[j].acknowledged
                   => publishedTasks[j].acknowledged \/ publishedTasks[j].frame = f
<1> USE MailboxAssumption
<1> DEFINE order == acknowledgedPublishedTaskOrder
           k == publishedFrameIndex[f]
<1>1. /\ f \in frameDestinations
      /\ frame' = frame
      /\ frameDestinations' = frameDestinations \ {f}
      /\ publishedFrameIndex' = publishedFrameIndex
      /\ MarkPublishedTaskAcknowledged(f)
  BY DEF AckFrame, Acknowledgeable, Release
<1>2. \A j \in TaskKeys, g \in Frames :
         publishedFrameIndex[g] = j
           <=> publishedTasks[j] # NoTask /\ publishedTasks[j].frame = g
  BY DEF RelayInv, TaskInv, EvictionOrder
<1>3. CASE frame[f].kind # "task"
  <2>1. k \notin Retained
    <3>1. ASSUME k \in Retained PROVE FALSE
      <4>1. publishedTasks[k].frame = f
        BY <1>2, <3>1 DEF Retained
      <4> QED
        BY <1>3, <3>1, <4>1, RetainedAreTasks DEF RelayInv
    <3> QED
      BY <3>1
  <2>2. ~(k # NoTask /\ publishedTasks[k] # NoTask /\ ~publishedTasks[k].acknowledged)
    BY <2>1 DEF RelayInv, TaskTypes, Retained
  <2>3. UNCHANGED <<publishedTasks, order>>
    BY <1>1, <2>2 DEF MarkPublishedTaskAcknowledged
  <2>4. TaskTypes' /\ Retained' = Retained
    BY <1>1, <2>3 DEF RelayInv, TaskTypes, Retained
  <2>5. \A j \in Retained : publishedTasks[j].frame # f
    BY <1>3, RetainedAreTasks DEF RelayInv
  <2>6. ReceiptBacked'
    BY <1>1, <2>3, <2>4, <2>5 DEF RelayInv, TaskInv, ReceiptBacked
  <2>7. OneFramePerTask'
    BY <1>1, <2>3, <2>4 DEF RelayInv, TaskInv, OneFramePerTask
  <2>8. EvictionOrder'
    BY <1>1, <2>3, <2>4 DEF RelayInv, TaskInv, EvictionOrder, Range, IsInjective
  <2>9. \A j \in Retained' :
           frame'[publishedTasks'[j].frame] = [kind |-> "task", to |-> TaskDest[j]]
    BY <1>1, <2>3, <2>4 DEF RelayInv, TaskInv
  <2> QED
    BY <1>3, <2>3, <2>4, <2>6, <2>7, <2>8, <2>9 DEF TaskInv
<1>4. CASE frame[f].kind = "task"
  <2>1. /\ k \in Retained /\ publishedTasks[k].frame = f
        /\ ~publishedTasks[k].acknowledged
    BY <1>1, <1>4 DEF RelayInv, TaskInv, OneFramePerTask
  <2>2. k \in TaskKeys /\ k # NoTask /\ publishedTasks[k] # NoTask
        /\ publishedTasks[k] \in Records
    BY <2>1 DEF RelayInv, TaskTypes, Retained
  <2> HIDE DEF k
  <2>3. /\ publishedTasks' = [publishedTasks EXCEPT ![k].acknowledged = TRUE]
        /\ order' = Append(order, k)
    BY <1>1, <2>1, <2>2 DEF MarkPublishedTaskAcknowledged, k
  <2>4. /\ publishedTasks' \in [TaskKeys -> Records \cup {NoTask}]
        /\ publishedTasks'[k] \in Records
        /\ publishedTasks'[k].frame = f
        /\ publishedTasks'[k].acknowledged = TRUE
        /\ \A j \in TaskKeys \ {k} : publishedTasks'[j] = publishedTasks[j]
    BY <2>1, <2>2, <2>3 DEF RelayInv, TaskTypes, Records
  <2>5. publishedTasks'[k] # NoTask
    BY <2>4
  <2>6. Retained' = Retained
    BY <2>1, <2>2, <2>4, <2>5 DEF Retained
  <2>7. \A j \in Retained : /\ j \in TaskKeys
                            /\ publishedTasks'[j].frame = publishedTasks[j].frame
    BY <2>1, <2>4 DEF Retained
  <2>8. /\ order \in Seq(TaskKeys) /\ IsInjective(order)
        /\ Range(order) = {j \in Retained : publishedTasks[j].acknowledged}
    BY DEF RelayInv, TaskTypes, TaskInv, EvictionOrder
  <2>9. /\ order' \in Seq(TaskKeys) /\ IsInjective(order')
        /\ Range(order') = Range(order) \cup {k}
    <3>1. k \notin Range(order)
      BY <2>1, <2>8
    <3> HIDE DEF order
    <3>2. /\ Append(order, k) \in Seq(TaskKeys) /\ IsInjective(Append(order, k))
          /\ Range(Append(order, k)) = Range(order) \cup {k}
      BY <2>2, <2>8, <3>1, AppendFacts
    <3> QED
      BY <2>3, <3>2
  <2>10. TaskTypes'
    BY <1>1, <2>4, <2>9 DEF RelayInv, TaskTypes
  <2>11. \A j \in Retained' :
            frame'[publishedTasks'[j].frame] = [kind |-> "task", to |-> TaskDest[j]]
    BY <1>1, <2>6, <2>7 DEF RelayInv, TaskInv
  <2>12. ReceiptBacked'
    <3> SUFFICES ASSUME NEW j \in Retained, ~publishedTasks'[j].acknowledged
                 PROVE  publishedTasks'[j].frame \in frameDestinations'
      BY <2>6, <2>11 DEF ReceiptBacked
    <3>1. j # k /\ j \in TaskKeys /\ publishedTasks'[j] = publishedTasks[j]
      BY <2>4, <2>7
    <3>2. publishedTasks[j].frame \in frameDestinations
      BY <3>1 DEF RelayInv, TaskInv, ReceiptBacked
    <3>3. publishedTasks[j].frame # f
      <4>1. publishedFrameIndex[f] = j <=> publishedTasks[j] # NoTask /\ publishedTasks[j].frame = f
        BY <1>2, <3>1
      <4>2. publishedTasks[j] # NoTask
        BY DEF Retained
      <4> QED
        BY <3>1, <4>1, <4>2 DEF k
    <3> QED
      BY <1>1, <3>1, <3>2, <3>3
  <2>13. OneFramePerTask'
    <3> SUFFICES ASSUME NEW g \in frameDestinations', frame'[g].kind = "task"
                 PROVE  \E j \in Retained : /\ publishedTasks'[j].frame = g
                                            /\ publishedFrameIndex'[g] = j
                                            /\ ~publishedTasks'[j].acknowledged
      BY <2>6 DEF OneFramePerTask
    <3>1. g \in frameDestinations /\ g # f /\ frame[g].kind = "task"
      BY <1>1
    <3>2. PICK j \in Retained : /\ publishedTasks[j].frame = g
                                /\ publishedFrameIndex[g] = j
                                /\ ~publishedTasks[j].acknowledged
      BY <3>1 DEF RelayInv, TaskInv, OneFramePerTask
    <3>3. j # k /\ j \in TaskKeys
      BY <2>1, <3>1, <3>2, <2>7
    <3> QED
      BY <1>1, <2>4, <3>2, <3>3
  <2>14. EvictionOrder'
    <3>1. Range(order)' = Range(order')
      BY DEF Range
    <3>2. Range(order') = {j \in Retained' : publishedTasks'[j].acknowledged}
      BY <2>1, <2>4, <2>6, <2>7, <2>8, <2>9
    <3>3. \A j \in TaskKeys, g \in Frames :
             publishedFrameIndex'[g] = j
               <=> publishedTasks'[j] # NoTask /\ publishedTasks'[j].frame = g
      <4> SUFFICES ASSUME NEW j \in TaskKeys, NEW g \in Frames
                   PROVE  publishedFrameIndex[g] = j
                            <=> publishedTasks'[j] # NoTask /\ publishedTasks'[j].frame = g
        BY <1>1
      <4>1. CASE j = k
        BY <1>2, <2>1, <2>2, <2>4, <2>5, <4>1
      <4>2. CASE j # k
        BY <1>2, <2>4, <4>2
      <4> QED
        BY <4>1, <4>2
    <3>4. IsInjective(order)'
      BY <2>9 DEF IsInjective
    <3> QED
      BY <3>1, <3>2, <3>3, <3>4 DEF EvictionOrder
  <2>15. \A j \in Retained : publishedTasks'[j].acknowledged
                                => publishedTasks[j].acknowledged \/ publishedTasks[j].frame = f
    BY <2>1, <2>4, <2>7
  <2> QED
    BY <2>4, <2>6, <2>7, <2>10, <2>11, <2>12, <2>13, <2>14, <2>15 DEF TaskInv, k
<1> QED
  BY <1>3, <1>4

\* The frames that stop being owed in a step that is not a restart.
SettledStep ==
    \A f \in frameDestinations \ frameDestinations' :
        \/ call'[f] \in {"resolved", "failed"}
        \/ frame[f].kind = "fleet" /\ call'[f] = "dropped"
        \/ /\ frame[f].kind = "task"
           /\ publishedTasks'[publishedFrameIndex[f]].acknowledged

\* No other step touches a publication or the frame of one.
LEMMA QuietStep ==
  ASSUME RelayInv,
         UNCHANGED taskVars,
         \A g \in Frames : frame[g] # Unrouted => frame'[g] = frame[g],
         \A g \in Frames : frame[g].kind = "task"
                             => (g \in frameDestinations <=> g \in frameDestinations'),
         frameDestinations' \subseteq Frames,
         \A g \in frameDestinations' : frame'[g].kind = "task" => frame[g].kind = "task"
  PROVE  TaskTypes' /\ TaskInv' /\ Retained' = Retained
<1>1. TaskTypes' /\ Retained' = Retained
  BY DEF RelayInv, TaskTypes, taskVars, Retained
<1>2. \A k \in Retained : /\ publishedTasks[k].frame \in Frames
                          /\ frame[publishedTasks[k].frame].kind = "task"
                          /\ frame'[publishedTasks[k].frame] = frame[publishedTasks[k].frame]
  <2>1. \A k \in Retained : publishedTasks[k].frame \in Frames
    BY DEF RelayInv, TaskTypes, Records, Retained
  <2>2. \A k \in Retained : frame[publishedTasks[k].frame].kind = "task"
    BY RetainedAreTasks DEF RelayInv
  <2>3. Unrouted.kind = "unused"
    BY DEF Unrouted
  <2> QED
    BY <2>1, <2>2, <2>3
<1>3. \A k \in Retained' :
         frame'[publishedTasks'[k].frame] = [kind |-> "task", to |-> TaskDest[k]]
  BY <1>1, <1>2 DEF RelayInv, TaskInv, taskVars
<1>4. ReceiptBacked'
  BY <1>1, <1>2, <1>3 DEF RelayInv, TaskInv, ReceiptBacked, taskVars
<1>5. OneFramePerTask'
  BY <1>1 DEF RelayInv, TaskInv, OneFramePerTask, taskVars
<1>6. EvictionOrder'
  BY <1>1 DEF RelayInv, TaskInv, EvictionOrder, taskVars, Range, IsInjective
<1> QED
  BY <1>1, <1>3, <1>4, <1>5, <1>6 DEF TaskInv

\* Every step of the relay keeps the publications, and lets go only of frames
\* that are settled.
LEMMA TaskStep ==
  RelayInv /\ [RelayNext]_relayVars
    => TaskTypes' /\ TaskInv' /\ (restarts' = restarts => SettledStep)
<1> SUFFICES ASSUME RelayInv, [RelayNext]_relayVars
             PROVE  TaskTypes' /\ TaskInv' /\ (restarts' = restarts => SettledStep)
  OBVIOUS
<1> USE MailboxAssumption
<1>t. /\ frameDestinations \subseteq Frames
      /\ call \in [Frames -> CallStates]
      /\ waiters \in [WaitKinds -> SUBSET Frames]
      /\ "task" \notin WaitKinds
  BY DEF RelayInv, FrameTypes, WaitKinds
<1>s. ASSUME UNCHANGED <<taskVars, frame>>,
             frameDestinations' \subseteq frameDestinations,
             \A g \in frameDestinations \ frameDestinations' : frame[g].kind \in WaitKinds
      PROVE  TaskTypes' /\ TaskInv'
  BY <1>s, <1>t, QuietStep
<1>u. ASSUME UNCHANGED <<taskVars, frame, frameDestinations>>
      PROVE  TaskTypes' /\ TaskInv' /\ SettledStep
  BY <1>u, <1>s DEF SettledStep
<1>1. ASSUME NEW f \in Frames, NEW n \in Nodes, NEW kind \in CallKinds,
             PublishAndWait(f, n, kind)
      PROVE  TaskTypes' /\ TaskInv' /\ SettledStep
  <2>1. kind \in Kinds /\ kind # "task"
    BY <1>t DEF Kinds
  <2>2. Routed(f, n, kind)
    BY <1>1, <2>1, RouteFacts DEF PublishAndWait, RelayInv
  <2>3. UNCHANGED taskVars
    BY <1>1 DEF PublishAndWait
  <2>4. SettledStep
    BY <2>2 DEF SettledStep, Routed
  <2>5. \A g \in Frames : /\ frame[g] # Unrouted => frame'[g] = frame[g]
                          /\ frame[g].kind = "task"
                               => (g \in frameDestinations <=> g \in frameDestinations')
    BY <2>2 DEF Routed
  <2>6. /\ frameDestinations' \subseteq Frames
        /\ \A g \in frameDestinations' : frame'[g].kind = "task" => frame[g].kind = "task"
    BY <1>t, <2>1, <2>2 DEF Routed
  <2> QED
    BY <2>3, <2>4, <2>5, <2>6, QuietStep
<1>2. ASSUME NEW f \in Frames, NEW k \in TaskKeys, PublishTask(f, k)
      PROVE  TaskTypes' /\ TaskInv' /\ SettledStep
  <2>1. frameDestinations \subseteq frameDestinations'
    BY <1>2 DEF PublishTask, RouteFrame
  <2> QED
    BY <1>2, <2>1, PublishTaskStep DEF SettledStep
<1>3. ASSUME NEW n \in Nodes, NEW f \in Frames, AckFrame(n, f)
      PROVE  TaskTypes' /\ TaskInv' /\ SettledStep
  <2>1. /\ frameDestinations' = frameDestinations \ {f}
        /\ f \in frameDestinations
        /\ \A kind \in ControlKinds : f \notin waiters[kind]
        /\ f \in waiters["result"] => call' = [call EXCEPT ![f] = "resolved"]
    BY <1>3 DEF AckFrame, Acknowledgeable, AwaitsCompletion, Release, Resolve
  <2>2. frame[f].kind = "task" \/ f \in waiters["result"]
    <3>1. frame[f] # Unrouted
      BY <2>1 DEF RelayInv, CallInv
    <3>2. frame[f].kind \in Kinds
      BY <3>1 DEF RelayInv, FrameTypes
    <3> QED
      BY <2>1, <3>2 DEF RelayInv, CallInv, WaitersBacked, Kinds, WaitKinds, ControlKinds
  <2>3. frame[f].kind = "task" => publishedTasks'[publishedFrameIndex[f]].acknowledged
    BY <1>3, AckFrameStep
  <2>4. SettledStep
    BY <1>t, <2>1, <2>2, <2>3 DEF SettledStep
  <2> QED
    BY <1>3, <2>4, AckFrameStep
<1>4. ASSUME NEW n \in Nodes, NEW f \in Frames, NEW kind \in ControlKinds,
             CompleteControl(n, f, kind)
      PROVE  TaskTypes' /\ TaskInv' /\ SettledStep
  <2>1. kind \in WaitKinds
    BY DEF ControlKinds, WaitKinds
  <2>2. f \in frameDestinations /\ frame[f].kind = kind
    BY <1>4, <2>1 DEF CompleteControl, Completable, RelayInv, CallInv, WaitersBacked
  <2>3. /\ UNCHANGED <<taskVars, frame>>
        /\ frameDestinations' = frameDestinations \ {f}
        /\ call' = [call EXCEPT ![f] = "resolved"]
    BY <1>4, <2>2 DEF CompleteControl, Release, Resolve
  <2>4. SettledStep
    BY <1>t, <2>3 DEF SettledStep
  <2> QED
    BY <1>s, <2>1, <2>2, <2>3, <2>4
<1>5. ASSUME NEW f \in Frames, Answer(f) PROVE TaskTypes' /\ TaskInv' /\ SettledStep
  BY <1>5, <1>u DEF Answer, frameVars
<1>6. ASSUME NEW f \in Frames, GiveUp(f) PROVE TaskTypes' /\ TaskInv' /\ SettledStep
  <2>1. /\ UNCHANGED <<taskVars, frame>>
        /\ frameDestinations' = frameDestinations \ {f}
        /\ call' = [call EXCEPT ![f] = "failed"]
        /\ call[f] # "none"
    BY <1>6 DEF GiveUp, Release, Fail
  <2>2. frame[f].kind \in WaitKinds
    BY <2>1 DEF RelayInv, CallInv
  <2>3. SettledStep
    BY <1>t, <2>1 DEF SettledStep
  <2> QED
    BY <1>s, <2>1, <2>2, <2>3
<1>7. ASSUME NEW g \in Generations, StreamEnds(g)
      PROVE  TaskTypes' /\ TaskInv' /\ SettledStep
  <2> DEFINE n == streamNode[g]
             gone == FleetObservations(n)
  <2>1. CASE ~IsCurrent(n, g)
    BY <1>7, <1>u, <2>1 DEF StreamEnds
  <2>2. CASE IsCurrent(n, g)
    <3>1. /\ UNCHANGED <<taskVars, frame>>
          /\ call' = [f \in Frames |-> IF f \in gone THEN "dropped" ELSE call[f]]
          /\ frameDestinations' = frameDestinations \ gone
      BY <1>7, <2>2 DEF StreamEnds
    <3>2. "fleet" \in WaitKinds /\ gone \subseteq waiters["fleet"]
      BY DEF FleetObservations, WaitKinds
    <3> HIDE DEF gone, n
    <3>b. WaitersBacked
      BY DEF RelayInv, CallInv
    <3>3. \A f \in gone : f \in Frames /\ frame[f].kind = "fleet"
      BY <1>t, <3>2, <3>b DEF WaitersBacked
    <3>4. SettledStep
      BY <1>t, <3>1, <3>3 DEF SettledStep
    <3> QED
      BY <1>s, <3>1, <3>2, <3>3, <3>4
  <2> QED
    BY <2>1, <2>2
<1>8. ASSUME Restart PROVE TaskTypes' /\ TaskInv' /\ restarts' # restarts
  <2>0. restarts' # restarts
    BY <1>8 DEF Restart, RelayInv, BoundInv
  <2>1. /\ frameDestinations' = {}
        /\ publishedTasks' = [k \in TaskKeys |-> NoTask]
        /\ publishedFrameIndex' = [f \in Frames |-> NoTask]
        /\ acknowledgedPublishedTaskOrder' = <<>>
    BY <1>8 DEF Restart, EmptyPeerState
  <2>2. TaskTypes' /\ Retained' = {}
    BY <2>1 DEF TaskTypes, Retained
  <2>3. EvictionOrder'
    <3>1. IsInjective(acknowledgedPublishedTaskOrder)'
          /\ Range(acknowledgedPublishedTaskOrder)' = {}
      BY <2>1 DEF IsInjective, Range
    <3>2. \A k \in TaskKeys, f \in Frames : publishedFrameIndex'[f] # k
                                            /\ publishedTasks'[k] = NoTask
      BY <2>1
    <3> QED
      BY <2>2, <3>1, <3>2 DEF EvictionOrder
  <2> QED
    BY <2>0, <2>1, <2>2, <2>3 DEF TaskInv, ReceiptBacked, OneFramePerTask
<1>9. ASSUME NEW n \in Nodes, Connect(n) PROVE TaskTypes' /\ TaskInv' /\ SettledStep
  BY <1>9, <1>u DEF Connect, frameVars
<1>10. ASSUME NEW g \in Generations, DropReceiver(g) \/ Receive(g)
       PROVE  TaskTypes' /\ TaskInv' /\ SettledStep
  BY <1>10, <1>u DEF DropReceiver, Receive, frameVars
<1>11. CASE UNCHANGED relayVars
  BY <1>11, <1>u DEF relayVars, frameVars
<1> QED
  BY <1>1, <1>2, <1>3, <1>4, <1>5, <1>6, <1>7, <1>8, <1>9, <1>10, <1>11 DEF RelayNext

\* Every step keeps the tables within their limits: routing checks the tracked
\* frames first, an acknowledgement trims the history it extends, and a
\* publication at the limit forgets one record for the one it adds.
LEMMA BoundStep == RelayInv /\ [RelayNext]_relayVars => BoundInv'
<1> SUFFICES ASSUME RelayInv, [RelayNext]_relayVars PROVE BoundInv'
  OBVIOUS
<1> USE MailboxAssumption
<1>t. /\ IsFiniteSet(frameDestinations) /\ IsFiniteSet(Retained)
      /\ Cardinality(frameDestinations) \in Nat /\ Cardinality(Retained) \in Nat
      /\ Cardinality(frameDestinations) <= MaxTracked
      /\ Len(acknowledgedFrames) <= MaxRecentAcks
      /\ Cardinality(Retained) <= MaxRetained
      /\ restarts \in Nat
  BY FS_CardinalityType DEF RelayInv, BoundInv, TablesBounded
<1>f. ASSUME frameDestinations' \subseteq frameDestinations
      PROVE  IsFiniteSet(frameDestinations') /\ Cardinality(frameDestinations') <= MaxTracked
  <2>1. /\ IsFiniteSet(frameDestinations')
        /\ Cardinality(frameDestinations') <= Cardinality(frameDestinations)
    BY <1>t, <1>f, FS_Subset
  <2>2. Cardinality(frameDestinations') \in Nat
    BY <2>1, FS_CardinalityType
  <2> QED
    BY <1>t, <2>1, <2>2
<1>r. ASSUME NEW f \in Frames, NEW n \in Nodes, NEW kind, RouteFrame(f, n, kind)
      PROVE  IsFiniteSet(frameDestinations') /\ Cardinality(frameDestinations') <= MaxTracked
  <2>1. /\ frameDestinations' = frameDestinations \cup {f}
        /\ ~(Cardinality(frameDestinations) >= MaxTracked)
    BY <1>r DEF RouteFrame, AtCapacity
  <2>2. /\ IsFiniteSet(frameDestinations \cup {f})
        /\ Cardinality(frameDestinations \cup {f})
             = IF f \in frameDestinations THEN Cardinality(frameDestinations)
                                          ELSE Cardinality(frameDestinations) + 1
    BY <1>t, FS_AddElement
  <2> QED
    BY <1>t, <2>1, <2>2
<1>q. ASSUME UNCHANGED <<taskVars, ackVars, restarts>>,
             IsFiniteSet(frameDestinations'), Cardinality(frameDestinations') <= MaxTracked
      PROVE  BoundInv'
  <2>1. Retained' = Retained
    BY <1>q DEF taskVars, Retained
  <2> QED
    BY <1>q, <1>t, <2>1 DEF BoundInv, TablesBounded, ackVars
<1>1. ASSUME NEW f \in Frames, NEW n \in Nodes, NEW kind \in CallKinds,
             PublishAndWait(f, n, kind)
      PROVE  BoundInv'
  BY <1>1, <1>r, <1>q DEF PublishAndWait
<1>2. ASSUME NEW f \in Frames, NEW k \in TaskKeys, PublishTask(f, k)
      PROVE  BoundInv'
  <2>1. IsFiniteSet(frameDestinations') /\ Cardinality(frameDestinations') <= MaxTracked
    BY <1>2, <1>r DEF PublishTask
  <2>2. Retained' \subseteq (Retained \ Evicted) \cup {k}
    BY <1>2 DEF PublishTask, Retained
  <2>3. /\ IsFiniteSet((Retained \ Evicted) \cup {k})
        /\ Cardinality((Retained \ Evicted) \cup {k}) <= MaxRetained
    <3>1. CASE Evicted = {} /\ Cardinality(Retained) < MaxRetained
      <4>1. /\ IsFiniteSet(Retained \cup {k})
            /\ Cardinality(Retained \cup {k})
                 = IF k \in Retained THEN Cardinality(Retained) ELSE Cardinality(Retained) + 1
        BY <1>t, FS_AddElement
      <4>2. Retained \ Evicted = Retained
        BY <3>1
      <4> QED
        BY <1>t, <3>1, <4>1, <4>2
    <3>2. CASE /\ acknowledgedPublishedTaskOrder # <<>>
               /\ Evicted = {Head(acknowledgedPublishedTaskOrder)}
      <4> DEFINE h == Head(acknowledgedPublishedTaskOrder)
                 left == Retained \ {h}
      <4>1. h \in Retained
        <5>1. h \in Range(acknowledgedPublishedTaskOrder)
          BY <3>2, TailFacts DEF RelayInv, TaskTypes
        <5> QED
          BY <5>1 DEF RelayInv, TaskInv, EvictionOrder
      <4> HIDE DEF h
      <4>2. IsFiniteSet(left) /\ Cardinality(left) = Cardinality(Retained) - 1
        <5>1. /\ IsFiniteSet(Retained \ {h})
              /\ Cardinality(Retained \ {h})
                   = IF h \in Retained THEN Cardinality(Retained) - 1 ELSE Cardinality(Retained)
          BY <1>t, FS_RemoveElement
        <5> QED
          BY <4>1, <5>1
      <4>e. Retained \ Evicted = left
        BY <3>2 DEF h
      <4> HIDE DEF left
      <4>3. /\ IsFiniteSet(left \cup {k})
            /\ Cardinality(left \cup {k}) = IF k \in left THEN Cardinality(left)
                                                          ELSE Cardinality(left) + 1
        BY <4>2, FS_AddElement
      <4>4. Cardinality(left \cup {k}) <= MaxRetained
        BY <1>t, <4>2, <4>3
      <4> QED
        BY <4>e, <4>3, <4>4
    <3> QED
      BY <1>2, <1>t, <3>1, <3>2, RoomFacts DEF PublishTask
  <2>4. IsFiniteSet(Retained') /\ Cardinality(Retained') <= MaxRetained
    <3> DEFINE room == (Retained \ Evicted) \cup {k}
    <3>1. IsFiniteSet(room) /\ Cardinality(room) <= MaxRetained /\ Retained' \subseteq room
      BY <2>2, <2>3
    <3> HIDE DEF room
    <3>2. IsFiniteSet(Retained') /\ Cardinality(Retained') <= Cardinality(room)
      BY <3>1, FS_Subset
    <3>3. Cardinality(Retained') \in Nat /\ Cardinality(room) \in Nat
      BY <3>1, <3>2, FS_CardinalityType
    <3> QED
      BY <3>1, <3>2, <3>3
  <2>5. UNCHANGED <<acknowledgedFrames, restarts>>
    BY <1>2 DEF PublishTask, ackVars
  <2> QED
    BY <1>t, <2>1, <2>4, <2>5 DEF BoundInv, TablesBounded
<1>3. ASSUME NEW n \in Nodes, NEW f \in Frames, AckFrame(n, f)
      PROVE  BoundInv'
  <2>1. IsFiniteSet(frameDestinations') /\ Cardinality(frameDestinations') <= MaxTracked
    BY <1>3, <1>f DEF AckFrame, Release
  <2>2. Retained' = Retained /\ restarts' = restarts
    BY <1>3, AckFrameStep DEF AckFrame
  <2>3. Len(acknowledgedFrames') <= MaxRecentAcks
    <3> DEFINE order == Append(acknowledgedFrames, f)
               first == IF Len(order) > MaxRecentAcks
                          THEN Len(order) - MaxRecentAcks + 1 ELSE 1
    <3>1. order \in Seq(Frames) /\ Len(order) \in Nat
      BY DEF RelayInv, FrameTypes
    <3>2. acknowledgedFrames' = SubSeq(order, first, Len(order))
      BY <1>3 DEF AckFrame, RememberAcknowledgement
    <3> HIDE DEF order
    <3>3. first \in 1..(Len(order) + 1) /\ Len(order) - first + 1 <= MaxRecentAcks
      BY <3>1
    <3> HIDE DEF first
    <3>4. Len(SubSeq(order, first, Len(order))) = Len(order) - first + 1
      BY <3>1, <3>3
    <3> QED
      BY <3>2, <3>3, <3>4
  <2> QED
    BY <1>t, <2>1, <2>2, <2>3 DEF BoundInv, TablesBounded
<1>4. ASSUME NEW n \in Nodes, NEW f \in Frames, NEW kind \in ControlKinds,
             CompleteControl(n, f, kind)
      PROVE  BoundInv'
  BY <1>4, <1>f, <1>q DEF CompleteControl, Release
<1>5. ASSUME NEW f \in Frames, Answer(f) \/ GiveUp(f) PROVE BoundInv'
  BY <1>5, <1>f, <1>q DEF Answer, GiveUp, Release, frameVars
<1>6. ASSUME NEW g \in Generations, StreamEnds(g) PROVE BoundInv'
  BY <1>6, <1>f, <1>q DEF StreamEnds
<1>7. ASSUME Restart PROVE BoundInv'
  <2>1. /\ frameDestinations' = {} /\ Retained' = {} /\ acknowledgedFrames' = <<>>
        /\ restarts' \in Nat
    <3>1. /\ frameDestinations' = {} /\ acknowledgedFrames' = <<>>
          /\ publishedTasks' = [k \in TaskKeys |-> NoTask]
      BY <1>7 DEF Restart, EmptyPeerState
    <3>2. restarts' \in Nat
      BY <1>7, <1>t DEF Restart
    <3>3. Retained' = {}
      BY <3>1 DEF Retained
    <3> QED
      BY <3>1, <3>2, <3>3
  <2>2. Len(acknowledgedFrames') = 0
    BY <2>1
  <2> QED
    BY <2>1, <2>2, FS_EmptySet DEF BoundInv, TablesBounded
<1>8. ASSUME NEW n \in Nodes, Connect(n) PROVE BoundInv'
  BY <1>8, <1>f, <1>q DEF Connect, frameVars
<1>9. ASSUME NEW g \in Generations, DropReceiver(g) \/ Receive(g) PROVE BoundInv'
  BY <1>9, <1>f, <1>q DEF DropReceiver, Receive, frameVars
<1>10. CASE UNCHANGED relayVars
  BY <1>10, <1>f, <1>q DEF relayVars, frameVars
<1> QED
  BY <1>1, <1>2, <1>3, <1>4, <1>5, <1>6, <1>7, <1>8, <1>9, <1>10 DEF RelayNext

\* RelayInv is inductive.
THEOREM RelayInvariant == RelaySpec => []RelayInv
<1>1. RelayInit => RelayInv
  BY CallStart, TaskStart DEF RelayInv
<1>2. RelayInv /\ [RelayNext]_relayVars => RelayInv'
  BY CallStep, TaskStep, BoundStep DEF RelayInv
<1> QED
  BY <1>1, <1>2, PTL DEF RelaySpec

\* ReceiptBacked holds of every relay: the receipt publish_task_frame answers a
\* retry with stands for a frame the relay still owes, or one acknowledged.
THEOREM ReceiptsAlwaysBacked == RelaySpec => []ReceiptBacked
<1>1. RelayInv => ReceiptBacked
  BY DEF RelayInv, TaskInv
<1> QED
  BY <1>1, RelayInvariant, PTL

\* OneFramePerTask holds of every relay: publish_task_frame never has two frames
\* of the same publication on the way.
THEOREM OneFrameAlways == RelaySpec => []OneFramePerTask
<1>1. RelayInv => OneFramePerTask
  BY DEF RelayInv, TaskInv
<1> QED
  BY <1>1, RelayInvariant, PTL

\* EvictionOrder holds of every relay: acknowledged_published_task_order,
\* published_tasks and published_frame_index never disagree.
THEOREM EvictionAlwaysOrdered == RelaySpec => []EvictionOrder
<1>1. RelayInv => EvictionOrder
  BY DEF RelayInv, TaskInv
<1> QED
  BY <1>1, RelayInvariant, PTL

\* TablesBounded holds of every relay, for every value of the three limits.
THEOREM TablesAlwaysBounded == RelaySpec => []TablesBounded
<1>1. RelayInv => TablesBounded
  BY DEF RelayInv, BoundInv
<1> QED
  BY <1>1, RelayInvariant, PTL

\* Publications, owed frames and acknowledgements stay in step in every relay,
\* whatever its limits: the five parts of PublicationsInStep together
\* (publish_task_frame, acknowledge_frame).
THEOREM PublicationsStayInStep == RelaySpec => []PublicationsInStep
<1>1. /\ TablesBounded /\ ReceiptBacked /\ OneFramePerTask /\ EvictionOrder
      /\ AcknowledgedIsSettled
      => PublicationsInStep
  BY DEF PublicationsInStep
<1> QED
  BY <1>1, TablesAlwaysBounded, ReceiptsAlwaysBacked, OneFrameAlways,
     EvictionAlwaysOrdered, AcknowledgedAlwaysSettled, PTL

\* OnlySettledFramesLeave holds of every relay: between two restarts a frame
\* leaves frame_destinations only with its answer, its publisher's withdrawal, or
\* the acknowledgement of its publication.
THEOREM FramesLeaveSettled == RelaySpec => OnlySettledFramesLeave
<1>1. RelayInv /\ [RelayNext]_relayVars => (restarts' = restarts => SettledStep)
  BY TaskStep
<1>2. RelayInv /\ [RelayNext]_relayVars
        => [restarts' = restarts =>
              \A f \in frameDestinations \ frameDestinations' :
                \/ call'[f] \in {"resolved", "failed"}
                \/ frame[f].kind = "fleet" /\ call'[f] = "dropped"
                \/ /\ frame[f].kind = "task"
                   /\ publishedTasks'[publishedFrameIndex[f]].acknowledged]_relayVars
  BY <1>1 DEF SettledStep
<1> QED
  BY <1>2, RelayInvariant, PTL DEF RelaySpec, OnlySettledFramesLeave
-----------------------------------------------------------------------------
(* Connections and their generations.                                        *)

\* A node's connection is a stream of its own that is still watched, and no
\* connection is newer than the generation counter.
StreamInv ==
    /\ nextConnectionGeneration \in Nat
    /\ connectedNodes \in [Nodes -> Nat]
    /\ streamNode \in [Generations -> Nodes \cup {NoNode}]
    /\ \A n \in Nodes :
         /\ connectedNodes[n] <= nextConnectionGeneration
         /\ connectedNodes[n] # 0 => /\ connectedNodes[n] \in watched \cap Generations
                                     /\ streamNode[connectedNodes[n]] = n

\* A node that a step disconnects.
DisconnectStep ==
    \A n \in Nodes :
        connectedNodes'[n] = 0 /\ connectedNodes[n] # 0 =>
            \/ connectedNodes[n] \notin open
            \/ connectedNodes[n] \in watched \ watched'

\* What a send does to the connections.
LEMMA SendFacts ==
  ASSUME StreamInv, NEW f \in Frames, NEW n \in Nodes, NEW kind, RouteFrame(f, n, kind)
  PROVE  StreamInv' /\ DisconnectStep
<1>1. /\ UNCHANGED <<nextConnectionGeneration, streamNode, open, watched>>
      /\ \/ connectedNodes' = connectedNodes
         \/ /\ connectedNodes[n] \notin open
            /\ connectedNodes' = [connectedNodes EXCEPT ![n] = 0]
  BY DEF RouteFrame, TrySend
<1> QED
  BY <1>1 DEF StreamInv, DisconnectStep

\* Every step keeps the generations, and disconnects only through the fence of
\* disconnect_node_if_current or a send that finds the receiver gone.
LEMMA StreamStep == StreamInv /\ [RelayNext]_relayVars => StreamInv' /\ DisconnectStep
<1> SUFFICES ASSUME StreamInv, [RelayNext]_relayVars PROVE StreamInv' /\ DisconnectStep
  OBVIOUS
<1> USE MailboxAssumption
<1>u. ASSUME UNCHANGED <<connectedNodes, nextConnectionGeneration, streamNode, watched>>
      PROVE  StreamInv' /\ DisconnectStep
  BY <1>u DEF StreamInv, DisconnectStep
<1>1. ASSUME NEW f \in Frames, NEW n \in Nodes, NEW kind \in CallKinds,
             PublishAndWait(f, n, kind)
      PROVE  StreamInv' /\ DisconnectStep
  BY <1>1, SendFacts DEF PublishAndWait
<1>2. ASSUME NEW f \in Frames, NEW k \in TaskKeys, PublishTask(f, k)
      PROVE  StreamInv' /\ DisconnectStep
  BY <1>2, SendFacts DEF PublishTask
<1>3. ASSUME NEW n \in Nodes, NEW f \in Frames,
             AckFrame(n, f) \/ \E kind \in ControlKinds : CompleteControl(n, f, kind)
      PROVE  StreamInv' /\ DisconnectStep
  BY <1>3, <1>u DEF AckFrame, CompleteControl, streamVars
<1>4. ASSUME NEW f \in Frames, Answer(f) \/ GiveUp(f)
      PROVE  StreamInv' /\ DisconnectStep
  BY <1>4, <1>u DEF Answer, GiveUp, streamVars
<1>5. ASSUME NEW n \in Nodes, Connect(n) PROVE StreamInv' /\ DisconnectStep
  <2> DEFINE g == nextConnectionGeneration + 1
  <2>1. /\ g \in Generations
        /\ nextConnectionGeneration' = g
        /\ streamNode' = [streamNode EXCEPT ![g] = n]
        /\ watched' = watched \cup {g}
        /\ \/ connectedNodes' = [connectedNodes EXCEPT ![n] = g]
           \/ connectedNodes' = connectedNodes
    BY <1>5 DEF Connect
  <2>2. g \in Nat /\ g # 0 /\ g > nextConnectionGeneration
    BY DEF StreamInv
  <2>3. \A m \in Nodes : connectedNodes[m] \in Nat /\ connectedNodes[m] # g
    BY DEF StreamInv
  <2> HIDE DEF g
  <2>4. nextConnectionGeneration' \in Nat /\ connectedNodes' \in [Nodes -> Nat]
        /\ streamNode' \in [Generations -> Nodes \cup {NoNode}]
    BY <2>1, <2>2 DEF StreamInv
  <2>5. \A m \in Nodes : connectedNodes'[m] <= g
    BY <2>1, <2>2 DEF StreamInv
  <2>6. \A m \in Nodes : connectedNodes'[m] # 0 =>
                            /\ connectedNodes'[m] \in watched' \cap Generations
                            /\ streamNode'[connectedNodes'[m]] = m
    BY <2>1, <2>2, <2>3 DEF StreamInv
  <2>7. DisconnectStep
    BY <2>1, <2>2 DEF DisconnectStep, StreamInv
  <2> QED
    BY <2>1, <2>4, <2>5, <2>6, <2>7 DEF StreamInv
<1>6. ASSUME NEW g \in Generations, StreamEnds(g) PROVE StreamInv' /\ DisconnectStep
  <2>1. /\ UNCHANGED <<nextConnectionGeneration, streamNode>>
        /\ g \in watched /\ watched' = watched \ {g}
        /\ IF connectedNodes[streamNode[g]] = g
             THEN connectedNodes' = [connectedNodes EXCEPT ![streamNode[g]] = 0]
             ELSE connectedNodes' = connectedNodes
    BY <1>6 DEF StreamEnds, IsCurrent
  <2>2. g # 0
    BY DEF Generations
  <2> QED
    BY <2>1, <2>2 DEF StreamInv, DisconnectStep
<1>7. ASSUME NEW g \in Generations, DropReceiver(g) \/ Receive(g)
      PROVE  StreamInv' /\ DisconnectStep
  BY <1>7, <1>u DEF DropReceiver, Receive
<1>8. ASSUME Restart PROVE StreamInv' /\ DisconnectStep
  <2>1. /\ nextConnectionGeneration' = 0
        /\ connectedNodes' = [n \in Nodes |-> 0]
        /\ streamNode' = [g \in Generations |-> NoNode]
        /\ watched' = {}
    BY <1>8 DEF Restart, EmptyPeerState
  <2> QED
    BY <2>1 DEF StreamInv, DisconnectStep
<1>9. CASE UNCHANGED relayVars
  BY <1>9, <1>u DEF relayVars, streamVars
<1> QED
  BY <1>1, <1>2, <1>3, <1>4, <1>5, <1>6, <1>7, <1>8, <1>9 DEF RelayNext

\* ReplacedStreamCannotDisconnect holds of every relay: the generation fence of
\* disconnect_node_if_current protects every reconnected node from the late end
\* of the stream it replaced.
THEOREM FenceHolds == RelaySpec => ReplacedStreamCannotDisconnect
<1>1. RelayInit => StreamInv
  BY MailboxAssumption DEF RelayInit, StreamInv
<1>2. StreamInv /\ [RelayNext]_relayVars => StreamInv'
  BY StreamStep
<1>3. StreamInv /\ [RelayNext]_relayVars
        => [\A n \in Nodes :
              connectedNodes'[n] = 0 /\ connectedNodes[n] # 0 =>
                 \/ connectedNodes[n] \notin open
                 \/ connectedNodes[n] \in watched \ watched']_relayVars
  BY StreamStep DEF DisconnectStep
<1> QED
  BY <1>1, <1>2, <1>3, PTL DEF RelaySpec, ReplacedStreamCannotDisconnect
------------------------------------------------------------------------------
(* RelayEdge.                                                                *)

\* What the nodes add to the relay's invariant: a frame in hand that was handled
\* has been ingested.
NodeInv ==
    /\ reading \in [Nodes -> 0..MaxGeneration]
    /\ DOMAIN inHand = Nodes
    /\ \A n \in handled : /\ n \in Nodes
                          /\ inHand[n] # NoFrame
                          /\ inHand[n] \in ingested

\* The frames that a step settles, in any of the three ways, are among S.
SettlesOnly(S) ==
    /\ \A f \in Frames : call'[f] \in {"resolved", "ok"}
                           => call[f] \in {"resolved", "ok"} \/ f \in S
    /\ \A k \in Retained' : publishedTasks'[k].acknowledged
                              => \/ publishedTasks'[k].frame \in S
                                 \/ /\ k \in Retained /\ publishedTasks[k].acknowledged
                                    /\ publishedTasks'[k].frame = publishedTasks[k].frame
    /\ Range(acknowledgedFrames)' \subseteq Range(acknowledgedFrames) \cup S

\* An AckFrame settles the frame it names, and only that one.
LEMMA AckSettles ==
  ASSUME RelayInv, NEW n \in Nodes, NEW f \in Frames, AckFrame(n, f)
  PROVE  SettlesOnly({f})
<1>1. /\ call' = [call EXCEPT ![f] = "resolved"] \/ call' = call
      /\ RememberAcknowledgement(f)
  BY DEF AckFrame, Resolve
<1>2. Range(acknowledgedFrames)' \subseteq Range(acknowledgedFrames) \cup {f}
  BY <1>1, RememberFacts DEF RelayInv
<1>3. call \in [Frames -> CallStates]
  BY DEF RelayInv, FrameTypes
<1>4. /\ Retained' = Retained
      /\ \A j \in Retained : /\ publishedTasks'[j].frame = publishedTasks[j].frame
                             /\ publishedTasks'[j].acknowledged
                                  => \/ publishedTasks[j].acknowledged
                                     \/ publishedTasks[j].frame = f
  BY AckFrameStep
<1> QED
  BY <1>1, <1>2, <1>3, <1>4 DEF SettlesOnly

\* A typed completion settles the frame it names, and only that one.
LEMMA CompletionSettles ==
  ASSUME RelayInv, NEW n \in Nodes, NEW f \in Frames, NEW kind \in ControlKinds,
         CompleteControl(n, f, kind)
  PROVE  SettlesOnly({f})
<1>1. /\ UNCHANGED <<acknowledgedFrames, publishedTasks>>
      /\ \/ call' = [call EXCEPT ![f] = "resolved"]
         \/ call' = [call EXCEPT ![f] = "dropped"]
  BY DEF CompleteControl, Resolve, ackVars, taskVars
<1>2. Retained' = Retained /\ Range(acknowledgedFrames)' = Range(acknowledgedFrames)
  BY <1>1 DEF Retained, Range
<1>3. call \in [Frames -> CallStates]
  BY DEF RelayInv, FrameTypes
<1> QED
  BY <1>1, <1>2, <1>3 DEF SettlesOnly

\* No other step of the relay settles anything.
LEMMA OthersSettleNothing ==
  ASSUME RelayInv,
         \/ \E f \in Frames, n \in Nodes, kind \in CallKinds : PublishAndWait(f, n, kind)
         \/ \E f \in Frames, k \in TaskKeys : PublishTask(f, k)
         \/ \E f \in Frames : Answer(f) \/ GiveUp(f)
         \/ \E n \in Nodes : Connect(n)
         \/ \E g \in Generations : StreamEnds(g) \/ DropReceiver(g) \/ Receive(g)
         \/ Restart
         \/ UNCHANGED relayVars
  PROVE  SettlesOnly({})
<1>t. call \in [Frames -> CallStates]
  BY DEF RelayInv, FrameTypes
<1>q. ASSUME UNCHANGED <<ackVars, taskVars>>,
             \A f \in Frames : call'[f] \in {"resolved", "ok"}
                                 => call[f] \in {"resolved", "ok"}
      PROVE  SettlesOnly({})
  <2>1. /\ Retained' = Retained /\ publishedTasks' = publishedTasks
        /\ Range(acknowledgedFrames)' = Range(acknowledgedFrames)
    BY <1>q DEF Retained, Range, taskVars, ackVars
  <2> QED
    BY <1>q, <2>1 DEF SettlesOnly
<1>1. ASSUME NEW f \in Frames, NEW n \in Nodes, NEW kind \in CallKinds,
             PublishAndWait(f, n, kind)
      PROVE  SettlesOnly({})
  BY <1>1, <1>q, <1>t DEF PublishAndWait
<1>2. ASSUME NEW f \in Frames, NEW k \in TaskKeys, PublishTask(f, k)
      PROVE  SettlesOnly({})
  <2> DEFINE record == [frame |-> f, acknowledged |-> FALSE]
  <2>1. /\ UNCHANGED <<acknowledgedFrames, call>>
        /\ publishedTasks' = [j \in TaskKeys |->
                                IF j = k THEN record
                                ELSE IF j \in Evicted THEN NoTask ELSE publishedTasks[j]]
    BY <1>2 DEF PublishTask, ackVars, callVars
  <2>2. record.acknowledged = FALSE
    OBVIOUS
  <2> HIDE DEF record
  <2>3. ASSUME NEW j \in Retained', publishedTasks'[j].acknowledged
        PROVE  j \in Retained /\ publishedTasks'[j] = publishedTasks[j]
    BY <2>1, <2>2, <2>3 DEF Retained
  <2>4. Range(acknowledgedFrames)' = Range(acknowledgedFrames)
    BY <2>1 DEF Range
  <2> QED
    BY <2>1, <2>3, <2>4 DEF SettlesOnly
<1>3. ASSUME NEW f \in Frames, Answer(f) \/ GiveUp(f) PROVE SettlesOnly({})
  <2>1. /\ UNCHANGED <<ackVars, taskVars>>
        /\ \/ call[f] = "resolved" /\ call' = [call EXCEPT ![f] = "ok"]
           \/ call' = [call EXCEPT ![f] = "failed"]
    BY <1>3 DEF Answer, GiveUp, Fail
  <2> QED
    BY <1>q, <1>t, <2>1
<1>4. ASSUME NEW g \in Generations, StreamEnds(g) PROVE SettlesOnly({})
  <2>1. /\ UNCHANGED <<ackVars, taskVars>>
        /\ \/ call' = call
           \/ call' = [f \in Frames |-> IF f \in FleetObservations(streamNode[g])
                                          THEN "dropped" ELSE call[f]]
    BY <1>4 DEF StreamEnds, callVars
  <2> QED
    BY <1>q, <2>1
<1>5. ASSUME \/ \E n \in Nodes : Connect(n)
             \/ \E g \in Generations : DropReceiver(g) \/ Receive(g)
             \/ UNCHANGED relayVars
      PROVE  SettlesOnly({})
  <2>1. UNCHANGED <<ackVars, taskVars, call>>
    BY <1>5 DEF Connect, DropReceiver, Receive, relayVars, callVars
  <2> QED
    BY <1>q, <2>1
<1>6. ASSUME Restart PROVE SettlesOnly({})
  <2>1. /\ acknowledgedFrames' = <<>>
        /\ publishedTasks' = [k \in TaskKeys |-> NoTask]
        /\ call' = [f \in Frames |-> IF call[f] \in {"waiting", "dropped", "resolved"}
                                       THEN "failed" ELSE call[f]]
    BY <1>6 DEF Restart, EmptyPeerState
  <2>2. Retained' = {} /\ Range(acknowledgedFrames)' = {}
    BY <2>1 DEF Retained, Range
  <2> QED
    BY <2>1, <2>2 DEF SettlesOnly
<1> QED
  BY <1>1, <1>2, <1>3, <1>4, <1>5, <1>6

\* Every step of the composition is a step of the relay or leaves it alone, and
\* settles only what has been ingested.
LEMMA EdgeStep ==
  RelayInv /\ NodeInv /\ SettledMeansIngested /\ [EdgeNext]_edgeVars
    => [RelayNext]_relayVars /\ NodeInv' /\ SettledMeansIngested'
<1> SUFFICES ASSUME RelayInv, NodeInv, SettledMeansIngested, [EdgeNext]_edgeVars
             PROVE  [RelayNext]_relayVars /\ NodeInv' /\ SettledMeansIngested'
  OBVIOUS
<1> DEFINE Goal == [RelayNext]_relayVars /\ NodeInv' /\ SettledMeansIngested'
<1> USE MailboxAssumption
<1>s. ASSUME NEW S, SettlesOnly(S), S \subseteq ingested, ingested \subseteq ingested'
      PROVE  SettledMeansIngested'
  BY <1>s DEF SettledMeansIngested, SettlesOnly
<1>n. ASSUME UNCHANGED nodeVars PROVE NodeInv'
  BY <1>n DEF NodeInv, nodeVars
<1>d. ASSUME NEW n \in Nodes, StreamOver(n) \/ FrameDone(n), ingested' = ingested
      PROVE  NodeInv'
  <2>1. /\ handled' = handled \ {n}
        /\ inHand' = [inHand EXCEPT ![n] = NoFrame]
        /\ reading' = reading \/ reading' = [reading EXCEPT ![n] = 0]
    BY <1>d DEF StreamOver, FrameDone
  <2>2. reading' \in [Nodes -> 0..MaxGeneration]
    BY <2>1 DEF NodeInv
  <2>3. DOMAIN inHand' = Nodes /\ \A m \in Nodes \ {n} : inHand'[m] = inHand[m]
    BY <2>1 DEF NodeInv
  <2> QED
    BY <1>d, <2>1, <2>2, <2>3 DEF NodeInv
<1>1. CASE Publish
  <2>1. /\ UNCHANGED nodeVars
        /\ \/ \E f \in Frames, n \in Nodes, kind \in CallKinds : PublishAndWait(f, n, kind)
           \/ \E f \in Frames, k \in TaskKeys : PublishTask(f, k)
    BY <1>1 DEF Publish, PublishResult, PublishBind, PublishChallenge, PublishFleetObservation
  <2>2. RelayNext /\ SettlesOnly({})
    BY <2>1, OthersSettleNothing DEF RelayNext
  <2> QED
    BY <1>n, <1>s, <2>1, <2>2 DEF nodeVars
<1>2. ASSUME NEW f \in Frames, CallReturns(f) \/ CallGivesUp(f) PROVE Goal
  <2>1. UNCHANGED nodeVars /\ (Answer(f) \/ GiveUp(f))
    BY <1>2 DEF CallReturns, CallGivesUp
  <2>2. RelayNext /\ SettlesOnly({})
    BY <2>1, OthersSettleNothing DEF RelayNext
  <2> QED
    BY <1>n, <1>s, <2>1, <2>2 DEF nodeVars
<1>3. ASSUME NEW n \in Nodes, EdgeConnect(n) PROVE Goal
  <2>1. RelayNext /\ SettlesOnly({}) /\ ingested' = ingested
    BY <1>3, OthersSettleNothing DEF EdgeConnect, RelayNext
  <2>2. nextConnectionGeneration' \in 0..MaxGeneration
    <3>1. nextConnectionGeneration' \in Generations
      BY <1>3 DEF EdgeConnect, Connect
    <3> QED
      BY <3>1, MailboxAssumption DEF Generations
  <2>3. /\ reading' = [reading EXCEPT ![n] = nextConnectionGeneration']
        /\ UNCHANGED <<inHand, handled>>
    BY <1>3 DEF EdgeConnect
  <2>4. NodeInv'
    BY <2>1, <2>2, <2>3 DEF NodeInv
  <2> QED
    BY <1>s, <2>1, <2>4
<1>4. ASSUME NEW n \in Nodes, EdgeReceive(n) PROVE Goal
  <2>1. reading[n] \in Generations
    BY <1>4 DEF EdgeReceive, NodeInv, Generations
  <2>2. RelayNext /\ SettlesOnly({}) /\ UNCHANGED <<reading, handled, ingested>>
    BY <1>4, <2>1, OthersSettleNothing DEF EdgeReceive, RelayNext
  <2>3. n \notin handled
    BY <1>4 DEF EdgeReceive, NodeInv
  <2>4. DOMAIN inHand' = Nodes /\ \A m \in Nodes \ {n} : inHand'[m] = inHand[m]
    BY <1>4 DEF EdgeReceive, NodeInv
  <2>5. NodeInv'
    BY <2>2, <2>3, <2>4 DEF NodeInv
  <2> QED
    BY <1>s, <2>2, <2>5
<1>5. ASSUME NEW n \in Nodes, EdgeHandle(n) PROVE Goal
  <2>1. /\ UNCHANGED <<relayVars, reading, inHand>>
        /\ inHand[n] # NoFrame
        /\ handled' = handled \cup {n}
        /\ ingested' = ingested \cup {inHand[n]}
    BY <1>5 DEF EdgeHandle
  <2>2. NodeInv'
    BY <2>1 DEF NodeInv
  <2>3. SettlesOnly({})
    BY <2>1, OthersSettleNothing
  <2> QED
    BY <1>s, <2>1, <2>2, <2>3
<1>6. ASSUME NEW n \in Nodes, EdgeAck(n) \/ EdgeAckReplyLost(n) PROVE Goal
  <2> DEFINE f == inHand[n]
  <2>1. /\ n \in handled
        /\ ingested' = ingested
        /\ FrameDone(n) \/ StreamOver(n)
        /\ AckFrame(n, f) \/ UNCHANGED relayVars
    BY <1>6 DEF EdgeAck, EdgeAckReplyLost, Handled, Acknowledge
  <2>2. f \in ingested
    BY <2>1 DEF NodeInv
  <2>3. NodeInv'
    BY <1>d, <2>1
  <2> HIDE DEF f
  <2>4. CASE AckFrame(n, f)
    <3>1. f \in Frames
      BY <2>4 DEF AckFrame, Acknowledgeable, RelayInv, FrameTypes
    <3>2. RelayNext /\ SettlesOnly({f})
      BY <2>4, <3>1, AckSettles DEF RelayNext
    <3> QED
      BY <1>s, <2>1, <2>2, <2>3, <3>2
  <2>5. CASE UNCHANGED relayVars
    BY <1>s, <2>1, <2>3, <2>5, OthersSettleNothing
  <2> QED
    BY <2>1, <2>4, <2>5
<1>7. ASSUME NEW n \in Nodes, EdgeComplete(n) \/ EdgeCompleteReplyLost(n)
      PROVE  Goal
  <2> DEFINE f == inHand[n]
             kind == frame[f].kind
  <2>1. /\ n \in handled
        /\ ingested' = ingested
        /\ FrameDone(n) \/ StreamOver(n)
        /\ kind \in ControlKinds
        /\ CompleteControl(n, f, kind)
    BY <1>7 DEF EdgeComplete, EdgeCompleteReplyLost, HoldsControl, Handled
  <2>2. f \in ingested
    BY <2>1 DEF NodeInv
  <2>3. NodeInv'
    BY <1>d, <2>1
  <2> HIDE DEF f, kind
  <2>4. f \in Frames
    BY <2>1 DEF CompleteControl, Completable, RelayInv, FrameTypes, ControlKinds, WaitKinds
  <2>5. RelayNext /\ SettlesOnly({f})
    BY <2>1, <2>4, CompletionSettles DEF RelayNext
  <2> QED
    BY <1>s, <2>1, <2>2, <2>3, <2>5
<1>8. ASSUME NEW n \in Nodes,
             EdgeCompleteRefused(n) \/ EdgeStreamEnds(n) \/ EdgeFails(n)
      PROVE  Goal
  <2>1. UNCHANGED <<relayVars, ingested>> /\ StreamOver(n)
    BY <1>8 DEF EdgeCompleteRefused, EdgeStreamEnds, EdgeFails
  <2>2. NodeInv'
    BY <1>d, <2>1
  <2>3. SettlesOnly({})
    BY <2>1, OthersSettleNothing
  <2> QED
    BY <1>s, <2>1, <2>2, <2>3
<1>9. ASSUME NEW g \in Generations, RelayNotices(g) PROVE Goal
  <2>1. UNCHANGED nodeVars /\ (StreamEnds(g) \/ DropReceiver(g))
    BY <1>9 DEF RelayNotices
  <2>2. RelayNext /\ SettlesOnly({})
    BY <2>1, OthersSettleNothing DEF RelayNext
  <2> QED
    BY <1>n, <1>s, <2>1, <2>2 DEF nodeVars
<1>10. CASE RelayRestarts
  <2>1. RelayNext /\ SettlesOnly({})
    BY <1>10, OthersSettleNothing DEF RelayRestarts, RelayNext
  <2>2. /\ reading' = [n \in Nodes |-> 0]
        /\ UNCHANGED <<inHand, handled, ingested>>
    BY <1>10 DEF RelayRestarts
  <2>3. NodeInv'
    BY <2>2 DEF NodeInv
  <2> QED
    BY <1>s, <2>1, <2>2, <2>3
<1>11. CASE UNCHANGED edgeVars
  <2>1. UNCHANGED relayVars /\ UNCHANGED nodeVars
    BY <1>11 DEF edgeVars
  <2>2. SettlesOnly({})
    BY <2>1, OthersSettleNothing
  <2> QED
    BY <1>n, <1>s, <2>1, <2>2 DEF nodeVars
<1> QED
  BY <1>1, <1>2, <1>3, <1>4, <1>5, <1>6, <1>7, <1>8, <1>9, <1>10, <1>11 DEF EdgeNext

\* RelayInv, NodeInv and SettledMeansIngested together are inductive.
LEMMA EdgeInvariant ==
  EdgeSpec => [](RelayInv /\ NodeInv /\ SettledMeansIngested)
<1>1. EdgeInit => RelayInv /\ NodeInv /\ SettledMeansIngested
  <2> SUFFICES ASSUME EdgeInit PROVE RelayInv /\ NodeInv /\ SettledMeansIngested
    OBVIOUS
  <2>1. RelayInit
    BY DEF EdgeInit
  <2>2. RelayInv
    BY <2>1, CallStart, TaskStart DEF RelayInv
  <2>3. NodeInv
    BY MailboxAssumption DEF EdgeInit, NodeInv
  <2>4. SettledMeansIngested
    BY <2>1 DEF RelayInit, SettledMeansIngested, Retained, Range
  <2> QED
    BY <2>2, <2>3, <2>4
<1>2. RelayInv /\ [RelayNext]_relayVars => RelayInv'
  BY CallStep, TaskStep, BoundStep DEF RelayInv
<1> QED
  BY <1>1, <1>2, EdgeStep, PTL DEF EdgeSpec

\* SettledMeansIngested holds of any number of nodes and frames: an edge node
\* settles a frame only after its daemon or handler answered, so what the relay
\* tells a publisher about delivery is true through broken streams, replays, lost
\* acknowledgement replies and relay restarts.
THEOREM SettledAlwaysIngested == EdgeSpec => []SettledMeansIngested
<1> QED
  BY EdgeInvariant, PTL

\* The relay inside the composition is a relay of Mailbox: everything proved of
\* RelaySpec holds while edge nodes read, acknowledge and reconnect.
THEOREM EdgeImplementsRelay == EdgeSpec => RelaySpec
<1>1. EdgeInit => RelayInit
  BY DEF EdgeInit
<1> QED
  BY <1>1, EdgeInvariant, EdgeStep, PTL DEF EdgeSpec, RelaySpec
=============================================================================
