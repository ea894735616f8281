------------------------------ MODULE RelayEdge ------------------------------
(* The relay together with the edge nodes that read its streams: every node  *)
(* runs keryx-node's supervised stream (supervise_relay_stream around        *)
(* run_relay_stream_with_direct_control_handlers), which takes one frame at  *)
(* a time, hands it to the local daemon or to a typed control handler, and   *)
(* only then acknowledges or completes it with an RPC of its own.  Any error *)
(* ends the stream, and the supervisor opens another one.                    *)
EXTENDS Mailbox

CONSTANTS NoFrame,        \* "no frame in hand"
          Features,       \* [Nodes -> what the registry lists for the node]
          FailingStreams  \* bound: the first streams of a process may break

ASSUME EdgeAssumption ==
    /\ NoFrame \notin Frames
    /\ Features \in [Nodes -> SUBSET (ControlKinds \cup {"tasks"})]
    /\ FailingStreams \in Nat

VARIABLES reading,   \* [Nodes -> the stream the node reads, or 0]
          inHand,    \* [Nodes -> the frame taken from the stream, or NoFrame]
          handled,   \* nodes whose frame in hand has been handled
          ingested,  \* frames the destination's daemon has persisted, or whose
                     \* typed control was dispatched to its handler
          performed, \* operations a control handler has carried out
          reply      \* [Frames -> the result of the last dispatch]

controlVars == <<performed, reply>>
nodeVars == <<reading, inHand, handled, ingested, controlVars>>
edgeVars == <<relayVars, nodeVars>>

EdgeInit == /\ RelayInit
            /\ reading = [n \in Nodes |-> 0]
            /\ inHand = [n \in Nodes |-> NoFrame]
            /\ handled = {}
            /\ ingested = {}
            /\ performed = {}
            /\ reply = [f \in Frames |-> "none"]

\* Whatever the node was doing with its stream is over.
StreamOver(n) == /\ reading' = [reading EXCEPT ![n] = 0]
                 /\ inHand' = [inHand EXCEPT ![n] = NoFrame]
                 /\ handled' = handled \ {n}

FrameDone(n) == /\ inHand' = [inHand EXCEPT ![n] = NoFrame]
                /\ handled' = handled \ {n}
                /\ UNCHANGED reading

EdgeConnect(n) == /\ reading[n] = 0
                  /\ inHand[n] = NoFrame
                  /\ Connect(n)
                  /\ reading' = [reading EXCEPT ![n] = nextConnectionGeneration']
                  /\ UNCHANGED <<inHand, handled, ingested, controlVars>>

EdgeReceive(n) == /\ reading[n] # 0
                  /\ inHand[n] = NoFrame
                  /\ Receive(reading[n])
                  /\ inHand' = [inHand EXCEPT ![n] = Head(queue[reading[n]])]
                  /\ UNCHANGED <<reading, handled, ingested, controlVars>>

(* Typed controls.  Two controls of one kind to one node are attempts at the *)
(* same operation; the handler that carries it out is durable and recognises *)
(* a repetition (NodescaleIdentityChallengeHandler's contract).  Versions 1  *)
(* and 2 of a control differ in a field no property is about.                *)

\* The results the relay takes: a repeated bind or observation has a disposition
\* of its own, a repeated challenge is a rejection.
BindResults == {"done", "again", "rejected"}
ChallengeResults == {"done", "rejected"}
FleetResults == {"done", "again", "rejected"}
TakenResults == [bind |-> BindResults, challenge |-> ChallengeResults,
                 fleet |-> FleetResults]

Operation(n, f) == <<n, frame[f].kind>>
Reply(f, r) == reply' = [reply EXCEPT ![f] = r]

Dispatched(n, f) ==
    IF Operation(n, f) \in performed
    THEN /\ Reply(f, IF frame[f].kind = "challenge" THEN "rejected" ELSE "again")
         /\ UNCHANGED performed
    ELSE Reply(f, "done") /\ performed' = performed \cup {Operation(n, f)}

\* Fault: a handler that took too long is taken to have succeeded.
HopefulRejection(f) == Reply(f, "done")

\* The result the edge makes up itself.
Rejection(f) == Reply(f, "rejected")

\* A handler that is missing, refuses, fails, or is cut off by its timeout,
\* perhaps after it carried the operation out.
DispatchFails(n, f) ==
    /\ Rejection(f)
    /\ performed' \in {performed, performed \cup {Operation(n, f)}}

\* A handler's result may be one the relay refuses.
DispatchMalformed(n, f) ==
    /\ reading[n] <= FailingStreams
    /\ Reply(f, "malformed")
    /\ performed' = performed \cup {Operation(n, f)}

DispatchControl(n, f) ==
    IF frame[f].kind \in ControlKinds
    THEN Dispatched(n, f) \/ DispatchFails(n, f) \/ DispatchMalformed(n, f)
    ELSE UNCHANGED controlVars

\* SubmitRemoteTask or IngestRemoteResult succeeded, or the control handler ran.
EdgeHandle(n) == /\ inHand[n] # NoFrame
                 /\ n \notin handled
                 /\ DispatchControl(n, inHand[n])
                 /\ handled' = handled \cup {n}
                 /\ ingested' = ingested \cup {inHand[n]}
                 /\ UNCHANGED <<relayVars, reading, inHand>>

\* Fault: a frame is acknowledged on receipt.
FaultyHandled(n) == inHand[n] # NoFrame

\* The daemon's or handler's answer comes before any settlement.
Handled(n) == n \in handled

\* Fault: the acknowledgement is not sent.
FaultyAcknowledge(n, f) == UNCHANGED relayVars

\* The AckFrame RPC.  The edge does not look at the accepted flag.
Acknowledge(n, f) == \/ AckFrame(n, f)
                     \/ ~Acknowledgeable(n, f) /\ UNCHANGED relayVars

EdgeAck(n) == /\ Handled(n)
              /\ frame[inHand[n]].kind \in {"task", "result"}
              /\ Acknowledge(n, inHand[n])
              /\ FrameDone(n)
              /\ UNCHANGED <<ingested, controlVars>>

\* The relay acts on the acknowledgement but the node never hears of it.
EdgeAckReplyLost(n) == /\ reading[n] <= FailingStreams
                       /\ Handled(n)
                       /\ frame[inHand[n]].kind \in {"task", "result"}
                       /\ AckFrame(n, inHand[n])
                       /\ StreamOver(n)
                       /\ UNCHANGED <<ingested, controlVars>>

HoldsControl(n) == Handled(n) /\ frame[inHand[n]].kind \in ControlKinds

\* A typed completion RPC: the result is looked at, then the waiter.
Taken(n) == /\ reply[inHand[n]] \in TakenResults[frame[inHand[n]].kind]
            /\ Completable(n, inHand[n], frame[inHand[n]].kind)

EdgeComplete(n) == /\ HoldsControl(n) /\ Taken(n)
                   /\ CompleteControl(n, inHand[n], frame[inHand[n]].kind)
                   /\ FrameDone(n)
                   /\ UNCHANGED <<ingested, controlVars>>

\* The relay acts on the completion but the node never hears of it in time.
EdgeCompleteReplyLost(n) ==
    /\ reading[n] <= FailingStreams
    /\ HoldsControl(n) /\ Taken(n)
    /\ CompleteControl(n, inHand[n], frame[inHand[n]].kind)
    /\ StreamOver(n)
    /\ UNCHANGED <<ingested, controlVars>>

\* The completion RPC fails, because the publisher gave up or because of the
\* result: the stream ends.
EdgeCompleteRefused(n) ==
    /\ HoldsControl(n) /\ ~Taken(n)
    /\ StreamOver(n)
    /\ UNCHANGED <<relayVars, ingested, controlVars>>

\* The node drains a stream the relay no longer sends on, or that broke.
EdgeStreamEnds(n) == /\ reading[n] # 0
                     /\ inHand[n] = NoFrame
                     /\ queue[reading[n]] = <<>>
                     /\ connectedNodes[n] # reading[n] \/ reading[n] \notin open
                     /\ StreamOver(n)
                     /\ UNCHANGED <<relayVars, ingested, controlVars>>

\* The daemon, the transport or the node itself fails at any point.
EdgeFails(n) == /\ reading[n] <= FailingStreams
                /\ reading[n] # 0 \/ inHand[n] # NoFrame
                /\ StreamOver(n)
                /\ UNCHANGED <<relayVars, ingested, controlVars>>

\* The relay's own view of a stream: it notices the end of the inbound half and
\* the loss of the outbound half separately, in any order, early or late.
RelayNotices(g) == /\ g <= FailingStreams
                   /\ StreamEnds(g) \/ DropReceiver(g)
                   /\ UNCHANGED nodeVars

\* The streams break with the relay; a frame in hand is finished first.
RelayRestarts == /\ Restart
                 /\ reading' = [n \in Nodes |-> 0]
                 /\ UNCHANGED <<inHand, handled, ingested, controlVars>>

\* Tasks and results are refused for a node that advertises identity binding
\* and no daemon; a control needs the destination to advertise it.
TakesTasks(n) == "bind" \in Features[n] => "tasks" \in Features[n]
Advertises(n, kind) == kind \in Features[n]

PublishResult(f, n) ==
    "result" \in CallKinds /\ TakesTasks(n) /\ PublishAndWait(f, n, "result")
PublishBind(f, n) ==
    "bind" \in CallKinds /\ Advertises(n, "bind") /\ PublishAndWait(f, n, "bind")
PublishChallenge(f, n) ==
    "challenge" \in CallKinds /\ Advertises(n, "challenge") /\ PublishAndWait(f, n, "challenge")
PublishFleetObservation(f, n) ==
    "fleet" \in CallKinds /\ Advertises(n, "fleet") /\ PublishAndWait(f, n, "fleet")

Publish == /\ \/ \E f \in Frames, n \in Nodes :
                    \/ PublishResult(f, n) \/ PublishBind(f, n)
                    \/ PublishChallenge(f, n) \/ PublishFleetObservation(f, n)
              \/ \E f \in Frames, k \in TaskKeys : TakesTasks(TaskDest[k]) /\ PublishTask(f, k)
           /\ UNCHANGED nodeVars

CallReturns(f) == Answer(f) /\ UNCHANGED nodeVars
CallGivesUp(f) == GiveUp(f) /\ UNCHANGED nodeVars

EdgeNext ==
    \/ Publish
    \/ \E f \in Frames : CallReturns(f) \/ CallGivesUp(f)
    \/ \E n \in Nodes : \/ EdgeConnect(n) \/ EdgeReceive(n) \/ EdgeHandle(n)
                        \/ EdgeAck(n) \/ EdgeAckReplyLost(n)
                        \/ EdgeComplete(n) \/ EdgeCompleteReplyLost(n)
                        \/ EdgeCompleteRefused(n)
                        \/ EdgeStreamEnds(n) \/ EdgeFails(n)
    \/ \E g \in Generations : RelayNotices(g)
    \/ RelayRestarts

EdgeSpec == EdgeInit /\ [][EdgeNext]_edgeVars

\* The supervisor always reconnects and the stream loop never stops on its own;
\* a publisher's handler is polled once answered, and its wait is bounded by a
\* timeout.  Nothing is assumed about failures.
EdgeFairSpec ==
    /\ EdgeSpec
    /\ \A n \in Nodes : /\ WF_edgeVars(EdgeConnect(n))
                        /\ WF_edgeVars(EdgeReceive(n))
                        /\ WF_edgeVars(EdgeHandle(n))
                        /\ WF_edgeVars(EdgeAck(n))
                        /\ WF_edgeVars(EdgeComplete(n) \/ EdgeCompleteRefused(n))
                        /\ WF_edgeVars(EdgeStreamEnds(n))
    /\ \A f \in Frames : /\ WF_edgeVars(CallReturns(f))
                         /\ WF_edgeVars(call[f] # "resolved" /\ CallGivesUp(f))
-----------------------------------------------------------------------------
(* What publishers and nodes can rely on.                                    *)

\* Every variable of the edge nodes has its type; a frame in hand is a frame of
\* this node.
EdgeTypeOK ==
    /\ reading \in [Nodes -> 0..nextConnectionGeneration]
    /\ inHand \in [Nodes -> Frames \cup {NoFrame}]
    /\ handled \subseteq {n \in Nodes : inHand[n] # NoFrame}
    /\ ingested \subseteq Frames
    /\ performed \subseteq Nodes \X ControlKinds
    /\ reply \in [Frames -> {"none", "done", "again", "rejected", "malformed"}]
    /\ \A n \in Nodes : inHand[n] # NoFrame => frame[inHand[n]].to = n

\* Whatever the relay calls settled, the destination has: a publisher is told
\* that its result was accepted or its control completed, and a publication is
\* marked acknowledged, only for a frame the destination had persisted or
\* handled before.  (docs/architecture/transactions.md:11)
SettledMeansIngested ==
    /\ \A f \in Frames : call[f] \in {"resolved", "ok"} => f \in ingested
    /\ \A k \in Retained : publishedTasks[k].acknowledged
                             => publishedTasks[k].frame \in ingested
    /\ Range(acknowledgedFrames) \subseteq ingested

Answered(f) == call[f] \in {"resolved", "ok"} /\ frame[f].kind \in ControlKinds

\* A publisher that is told its control succeeded can rely on it: the handler
\* carried the operation out, and of all attempts at it only one is told that
\* it was the first, so a challenge secret is handed out at most once (and the
\* node's frame in hand and its replies stay in their types).
AnswersAreTrue ==
    /\ EdgeTypeOK
    /\ \A f \in Frames : Answered(f) /\ reply[f] \in {"done", "again"} =>
          /\ Operation(frame[f].to, f) \in performed
          /\ \A g \in Frames \ {f} :
               Answered(g) /\ frame[g] = frame[f] => reply[f] = "again" \/ reply[g] # "done"

\* A control whose publisher has been answered is never handed to its handler
\* again, whatever completion replies are lost and streams broken.
AnsweredNeverRerun ==
    [][\A f \in Frames : Answered(f) => reply'[f] = reply[f]]_edgeVars

\* A node persists the tasks owed to it in the order the relay accepted them,
\* through any number of broken streams and replays.  (With abandoned calls in
\* the stream a full channel can delay one; see FullOnlyOfStaleCopies.)
IngestedInOrder ==
    \A n \in Nodes : \A i, j \in 1..Len(mailboxes[n]) :
        i < j /\ mailboxes[n][j] \in ingested => mailboxes[n][i] \in ingested

Owed(f) == f \in frameDestinations /\ frame[f].kind = "task"

\* Every accepted task frame is eventually acknowledged by its destination (or
\* lost with the relay process) when no other publisher abandons a frame: replay
\* and reconnection make up for broken streams and lost acknowledgements.
TasksDelivered == \A f \in Frames : Owed(f) ~> ~Owed(f)

\* The frame is owed to a node that reads its live stream, was never handled by
\* it, and is not in the stream.
LeftBehind(f) ==
    LET n == frame[f].to
    IN  /\ f \in frameDestinations
        /\ reading[n] # 0
        /\ reading[n] = connectedNodes[n]
        /\ f \notin Range(queue[reading[n]])
        /\ f # inHand[n]
        /\ f \notin ingested

\* With abandoned calls around, a task frame is eventually acknowledged unless
\* it found the live stream full and was left to the mailbox, where only the
\* node's next stream will find it.
DeliveredOrLeftBehind == \A f \in Frames : Owed(f) ~> (~Owed(f) \/ LeftBehind(f))

\* Every publisher that waits is eventually answered or told that it failed,
\* whatever the destination does.
CallsAnswered ==
    \A f \in Frames : (call[f] = "waiting") ~> (call[f] \in {"ok", "failed"})
=============================================================================
