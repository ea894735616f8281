------------------------------- MODULE Mailbox -------------------------------
(* The relay's in-memory delivery state: keryx-relay's RelayRuntime, the     *)
(* channel behind every ConnectNode stream, and the publishing RPCs that     *)
(* wait for a destination.  All of PeerState is under one mutex, so every    *)
(* runtime method is one action; what interleaves are the methods, the       *)
(* stream readers, the task that watches each stream's inbound half, and the *)
(* publishers' timeouts and cancellations.                                   *)
(*                                                                           *)
(* A frame id is a fresh UUID (new_relay_frame_id), so a frame id determines *)
(* its destination and (destination, frame id) keys are written as the id.   *)
(* A rejected call (capacity, conflicting or repeated task identity, wrong   *)
(* destination, unknown frame) changes nothing in the relay.                 *)
EXTENDS FiniteSets, Queues

CONSTANTS Nodes,        \* edge node identities
          NoNode,       \* the destination of a frame not yet routed
          Frames,       \* relay frame ids
          TaskKeys,     \* (source, destination, task id) of a publication
          TaskDest,     \* the destination of each of them
          NoTask,       \* "no publication"
          CallKinds,    \* the waiting RPCs of the instance
          MaxTracked,   \* MAX_TRACKED_FRAMES
          MaxRecentAcks, \* MAX_RECENT_ACKNOWLEDGEMENTS
          MaxRetained,  \* MAX_RETAINED_PUBLISHED_TASKS
          MaxGeneration, \* bound: connections of one relay process
          MaxRestarts   \* bound: relay restarts

WaitKinds == {"result", "bind", "challenge", "fleet"}
ControlKinds == {"bind", "challenge", "fleet"}
Kinds == WaitKinds \cup {"task"}
Generations == 1..MaxGeneration
Records == [frame : Frames, acknowledged : BOOLEAN]

ASSUME MailboxAssumption ==
    /\ NoNode \notin Nodes
    /\ NoTask \notin TaskKeys \cup Records
    /\ TaskDest \in [TaskKeys -> Nodes]
    /\ CallKinds \subseteq WaitKinds
    /\ MaxTracked \in Nat \ {0}
    /\ MaxRecentAcks \in Nat \ {0}
    /\ MaxRetained \in Nat \ {0}
    /\ MaxGeneration \in Nat
    /\ MaxRestarts \in Nat

\* The channel behind a stream: mpsc::channel(RELAY_STREAM_BUFFER).
StreamBuffer == MaxTracked

VARIABLES
    frame,              \* [Frames -> what the frame carries and to whom]
    frameDestinations,  \* the frames the relay still owes their destination
    mailboxes,          \* [Nodes -> Seq(Frames)], in arrival order
    acknowledgedFrames, \* recent acknowledgements, oldest first
    publishedTasks,     \* [TaskKeys -> NoTask or the retained record]
    publishedFrameIndex, \* [Frames -> the publication that issued it]
    acknowledgedPublishedTaskOrder, \* evictable records, oldest first
    waiters,            \* [WaitKinds -> frames with a oneshot sender]
    call,               \* [Frames -> the publishing RPC behind the frame]
    connectedNodes,     \* [Nodes -> generation of the live stream, or 0]
    nextConnectionGeneration,
    streamNode,         \* [Generations -> the node that opened the stream]
    queue,              \* [Generations -> what the channel holds]
    open,               \* streams whose receiver has not been dropped
    watched,            \* streams whose inbound half is still being watched
    restarts

frameVars == <<frame, frameDestinations, mailboxes>>
ackVars == <<acknowledgedFrames>>
taskVars == <<publishedTasks, publishedFrameIndex,
              acknowledgedPublishedTaskOrder>>
callVars == <<waiters, call>>
streamVars == <<connectedNodes, nextConnectionGeneration, streamNode, queue,
                open, watched>>
relayVars == <<frameVars, ackVars, taskVars, callVars, streamVars, restarts>>

Unrouted == [kind |-> "unused", to |-> NoNode]

EmptyPeerState ==
    /\ frameDestinations' = {}
    /\ mailboxes' = [n \in Nodes |-> <<>>]
    /\ acknowledgedFrames' = <<>>
    /\ publishedTasks' = [k \in TaskKeys |-> NoTask]
    /\ publishedFrameIndex' = [f \in Frames |-> NoTask]
    /\ acknowledgedPublishedTaskOrder' = <<>>
    /\ waiters' = [k \in WaitKinds |-> {}]
    /\ connectedNodes' = [n \in Nodes |-> 0]
    /\ nextConnectionGeneration' = 0
    /\ streamNode' = [g \in Generations |-> NoNode]
    /\ queue' = [g \in Generations |-> <<>>]
    /\ open' = {}
    /\ watched' = {}

RelayInit ==
    /\ frame = [f \in Frames |-> Unrouted]
    /\ frameDestinations = {}
    /\ mailboxes = [n \in Nodes |-> <<>>]
    /\ acknowledgedFrames = <<>>
    /\ publishedTasks = [k \in TaskKeys |-> NoTask]
    /\ publishedFrameIndex = [f \in Frames |-> NoTask]
    /\ acknowledgedPublishedTaskOrder = <<>>
    /\ waiters = [k \in WaitKinds |-> {}]
    /\ call = [f \in Frames |-> "none"]
    /\ connectedNodes = [n \in Nodes |-> 0]
    /\ nextConnectionGeneration = 0
    /\ streamNode = [g \in Generations |-> NoNode]
    /\ queue = [g \in Generations |-> <<>>]
    /\ open = {}
    /\ watched = {}
    /\ restarts = 0
-----------------------------------------------------------------------------
(* Routing.                                                                  *)

AtCapacity(n) == \/ Cardinality(frameDestinations) >= MaxTracked
                 \/ Len(mailboxes[n]) >= MaxTracked

\* try_send on the node's live stream.  A full channel leaves the frame to the
\* mailbox; a channel whose receiver is gone also forgets the connection.
TrySend(f, n) ==
    LET g == connectedNodes[n] IN
    \/ /\ g = 0
       /\ UNCHANGED <<connectedNodes, queue>>
    \/ /\ g \in open
       /\ Len(queue[g]) < StreamBuffer
       /\ queue' = [queue EXCEPT ![g] = Append(@, f)]
       /\ UNCHANGED connectedNodes
    \/ /\ g \in open
       /\ Len(queue[g]) >= StreamBuffer
       /\ UNCHANGED <<connectedNodes, queue>>
    \/ /\ g # 0
       /\ g \notin open
       /\ connectedNodes' = [connectedNodes EXCEPT ![n] = 0]
       /\ UNCHANGED queue

\* route_frame_locked: the relay owns the frame and keeps a mailbox copy before
\* anything is sent.
RouteFrame(f, n, kind) ==
    /\ frame[f] = Unrouted
    /\ ~AtCapacity(n)
    /\ frame' = [frame EXCEPT ![f] = [kind |-> kind, to |-> n]]
    /\ frameDestinations' = frameDestinations \cup {f}
    /\ mailboxes' = [mailboxes EXCEPT ![n] = Append(@, f)]
    /\ TrySend(f, n)
    /\ UNCHANGED <<nextConnectionGeneration, streamNode, open, watched>>

\* PublishResult and the typed control RPCs: route and install the waiter under
\* the same lock, then wait.
PublishAndWait(f, n, kind) ==
    /\ RouteFrame(f, n, kind)
    /\ waiters' = [waiters EXCEPT ![kind] = @ \cup {f}]
    /\ call' = [call EXCEPT ![f] = "waiting"]
    /\ UNCHANGED <<ackVars, taskVars, restarts>>

Retained == {k \in TaskKeys : publishedTasks[k] # NoTask}

\* Room for one more record: at the limit the oldest acknowledged publication is
\* forgotten, and without one the publication is refused.
Evicted == IF Cardinality(Retained) >= MaxRetained
             THEN {Head(acknowledgedPublishedTaskOrder)}
             ELSE {}
RoomForRecord == \/ Cardinality(Retained) < MaxRetained
                 \/ acknowledgedPublishedTaskOrder # <<>>

\* Fault: a retry is published again.
FaultyUnknownIdentity(k) == TRUE

UnknownIdentity(k) == publishedTasks[k] = NoTask

\* publish_task_frame for an identity the relay does not retain.  (For one it
\* retains, the answer is the retained receipt or a conflict, and no change.)
PublishTask(f, k) ==
    /\ UnknownIdentity(k)
    /\ RoomForRecord
    /\ RouteFrame(f, TaskDest[k], "task")
    /\ publishedTasks' =
         [j \in TaskKeys |->
            IF j = k THEN [frame |-> f, acknowledged |-> FALSE]
            ELSE IF j \in Evicted THEN NoTask ELSE publishedTasks[j]]
    /\ publishedFrameIndex' =
         [g \in Frames |->
            IF g = f THEN k
            ELSE IF \E j \in Evicted : publishedTasks[j] # NoTask
                                       /\ publishedTasks[j].frame = g
                   THEN NoTask ELSE publishedFrameIndex[g]]
    /\ acknowledgedPublishedTaskOrder' =
         IF Evicted = {} THEN acknowledgedPublishedTaskOrder
                         ELSE Tail(acknowledgedPublishedTaskOrder)
    /\ UNCHANGED <<ackVars, callVars, restarts>>
-----------------------------------------------------------------------------
(* Settling a frame.                                                         *)

\* Fault: the mailbox keeps its copy.
FaultyWithoutFrame(f) == mailboxes

WithoutFrame(f) ==
    [mailboxes EXCEPT ![frame[f].to] = Retain(@, Frames \ {f})]

Release(f) == frameDestinations' = frameDestinations \ {f}

\* The oneshot sender of a waiting call is used.
Resolve(f) == call' = [call EXCEPT ![f] = "resolved"]

\* The last MaxRecentAcks acknowledgements, the newest one included.
RememberAcknowledgement(f) ==
    LET order == Append(acknowledgedFrames, f)
        first == IF Len(order) > MaxRecentAcks
                   THEN Len(order) - MaxRecentAcks + 1 ELSE 1
    IN  acknowledgedFrames' = SubSeq(order, first, Len(order))

MarkPublishedTaskAcknowledged(f) ==
    LET k == publishedFrameIndex[f] IN
    IF k # NoTask /\ publishedTasks[k] # NoTask /\ ~publishedTasks[k].acknowledged
      THEN /\ publishedTasks' = [publishedTasks EXCEPT ![k].acknowledged = TRUE]
           /\ acknowledgedPublishedTaskOrder' =
                Append(acknowledgedPublishedTaskOrder, k)
      ELSE UNCHANGED <<publishedTasks, acknowledgedPublishedTaskOrder>>

AwaitsCompletion(f) == \E kind \in ControlKinds : f \in waiters[kind]

\* The acknowledgements ack_frame acts on; the rest are answered only.
Acknowledgeable(n, f) == /\ ~AwaitsCompletion(f)
                         /\ f \notin Range(acknowledgedFrames)
                         /\ f \in frameDestinations
                         /\ frame[f].to = n

AckFrame(n, f) ==
    /\ Acknowledgeable(n, f)
    /\ Release(f)
    /\ mailboxes' = [mailboxes EXCEPT ![n] = RemoveFirst(@, f)]
    /\ RememberAcknowledgement(f)
    /\ waiters' = [waiters EXCEPT !["result"] = @ \ {f}]
    /\ IF f \in waiters["result"] THEN Resolve(f) ELSE UNCHANGED call
    /\ MarkPublishedTaskAcknowledged(f)
    /\ UNCHANGED <<frame, publishedFrameIndex, streamVars, restarts>>

\* The three typed completions: only the waiter's own destination, only once.
Completable(n, f, kind) == f \in waiters[kind] /\ frame[f].to = n

CompleteControl(n, f, kind) ==
    /\ Completable(n, f, kind)
    /\ waiters' = [waiters EXCEPT ![kind] = @ \ {f}]
    /\ IF f \in frameDestinations
         THEN /\ Release(f)
              /\ mailboxes' = WithoutFrame(f)
              /\ Resolve(f)
         ELSE /\ UNCHANGED <<frameDestinations, mailboxes>>
              /\ call' = [call EXCEPT ![f] = "dropped"]
    /\ UNCHANGED <<frame, ackVars, taskVars, streamVars, restarts>>

\* The publisher's handler reads the answer and disarms its ownership guard.
Answer(f) ==
    /\ call[f] = "resolved"
    /\ call' = [call EXCEPT ![f] = "ok"]
    /\ UNCHANGED <<frameVars, ackVars, taskVars, waiters, streamVars, restarts>>

\* Fault: the frame is abandoned and the caller is not told.
FaultyFail(f) == UNCHANGED call

Fail(f) == call' = [call EXCEPT ![f] = "failed"]

\* The guard abandons the frame: the wait timed out, the sender was dropped, or
\* the caller went away (possibly with the answer already sent).
GiveUp(f) ==
    /\ call[f] \in {"waiting", "dropped", "resolved"}
    /\ waiters' = [kind \in WaitKinds |-> waiters[kind] \ {f}]
    /\ Release(f)
    /\ mailboxes' = WithoutFrame(f)
    /\ Fail(f)
    /\ UNCHANGED <<frame, ackVars, taskVars, streamVars, restarts>>
-----------------------------------------------------------------------------
(* Streams.                                                                  *)

\* Fault: newest first.
ReversedReplay(n) ==
    [i \in DOMAIN mailboxes[n] |-> mailboxes[n][Len(mailboxes[n]) + 1 - i]]

\* Fault: a new stream starts empty.
EmptyReplay(n) == <<>>

\* What a new stream is given: the unacknowledged frames of the mailbox.
Replay(n) == Retain(mailboxes[n], Frames \ Range(acknowledgedFrames))

\* connect_node_fenced: replay the mailbox into a fresh channel, in order; only
\* a replay that fits makes the stream the node's connection.
Connect(n) ==
    LET g == nextConnectionGeneration + 1
        pending == Replay(n)
        fits == Len(pending) <= StreamBuffer
    IN  /\ g \in Generations
        /\ nextConnectionGeneration' = g
        /\ streamNode' = [streamNode EXCEPT ![g] = n]
        /\ queue' = [queue EXCEPT ![g] =
                       IF fits THEN pending ELSE SubSeq(pending, 1, StreamBuffer)]
        /\ open' = open \cup {g}
        /\ watched' = watched \cup {g}
        /\ connectedNodes' = IF fits THEN [connectedNodes EXCEPT ![n] = g]
                                     ELSE connectedNodes
        /\ UNCHANGED <<frameVars, ackVars, taskVars, callVars, restarts>>

\* Fault: the generation is not compared.
FaultyIsCurrent(n, g) == connectedNodes[n] # 0

IsCurrent(n, g) == connectedNodes[n] = g

\* Fault: every frame of the node goes.
GreedyFleetObservations(n) == {f \in frameDestinations : frame[f].to = n}

\* The frames abandoned with their destination's stream.
FleetObservations(n) == {f \in waiters["fleet"] : frame[f].to = n}

\* The inbound half ended (or sent a frame on the receive-only stream): the
\* watcher disconnects the node if its own generation is still the current one,
\* and the node's Fleet observations are abandoned.
StreamEnds(g) ==
    LET n == streamNode[g]
        gone == FleetObservations(n)
    IN  /\ g \in watched
        /\ watched' = watched \ {g}
        /\ IF IsCurrent(n, g)
             THEN /\ connectedNodes' = [connectedNodes EXCEPT ![n] = 0]
                  /\ waiters' = [waiters EXCEPT !["fleet"] = @ \ gone]
                  /\ call' = [f \in Frames |->
                                IF f \in gone THEN "dropped" ELSE call[f]]
                  /\ frameDestinations' = frameDestinations \ gone
                  /\ mailboxes' = [mailboxes EXCEPT ![n] =
                        Retain(@, {f \in Frames : frame[f].kind # "fleet"})]
             ELSE UNCHANGED <<connectedNodes, callVars, frameDestinations,
                              mailboxes>>
        /\ UNCHANGED <<frame, ackVars, taskVars, nextConnectionGeneration,
                       streamNode, queue, open, restarts>>

\* The transport drops the outbound half: what the channel held is lost.
DropReceiver(g) ==
    /\ g \in open
    /\ open' = open \ {g}
    /\ queue' = [queue EXCEPT ![g] = <<>>]
    /\ UNCHANGED <<frameVars, ackVars, taskVars, callVars, connectedNodes,
                   nextConnectionGeneration, streamNode, watched, restarts>>

\* The node reads the next frame of its stream.
Receive(g) ==
    /\ g \in open
    /\ queue[g] # <<>>
    /\ queue' = [queue EXCEPT ![g] = Tail(@)]
    /\ UNCHANGED <<frameVars, ackVars, taskVars, callVars, connectedNodes,
                   nextConnectionGeneration, streamNode, open, watched, restarts>>

\* The relay process is replaced.  Nothing of PeerState survives, the streams
\* break, and the RPCs in flight fail.
Restart ==
    /\ restarts < MaxRestarts
    /\ restarts' = restarts + 1
    /\ EmptyPeerState
    /\ call' = [f \in Frames |->
                  IF call[f] \in {"waiting", "dropped", "resolved"}
                    THEN "failed" ELSE call[f]]
    /\ UNCHANGED frame

RelayNext ==
    \/ \E f \in Frames, n \in Nodes, kind \in CallKinds : PublishAndWait(f, n, kind)
    \/ \E f \in Frames, k \in TaskKeys : PublishTask(f, k)
    \/ \E n \in Nodes, f \in Frames : AckFrame(n, f)
    \/ \E n \in Nodes, f \in Frames, kind \in ControlKinds : CompleteControl(n, f, kind)
    \/ \E f \in Frames : Answer(f) \/ GiveUp(f)
    \/ \E n \in Nodes : Connect(n)
    \/ \E g \in Generations : StreamEnds(g) \/ DropReceiver(g) \/ Receive(g)
    \/ Restart

RelaySpec == RelayInit /\ [][RelayNext]_relayVars
-----------------------------------------------------------------------------
(* What the relay promises.                                                  *)

CallStates == {"none", "waiting", "resolved", "dropped", "ok", "failed"}

\* Every variable of the relay has its type, and no stream's channel holds more
\* than RELAY_STREAM_BUFFER frames.
RelayTypeOK ==
    /\ frame \in [Frames -> {Unrouted} \cup [kind : Kinds, to : Nodes]]
    /\ frameDestinations \subseteq Frames
    /\ mailboxes \in [Nodes -> Seq(Frames)]
    /\ acknowledgedFrames \in Seq(Frames)
    /\ publishedTasks \in [TaskKeys -> Records \cup {NoTask}]
    /\ publishedFrameIndex \in [Frames -> TaskKeys \cup {NoTask}]
    /\ acknowledgedPublishedTaskOrder \in Seq(TaskKeys)
    /\ waiters \in [WaitKinds -> SUBSET Frames]
    /\ call \in [Frames -> CallStates]
    /\ connectedNodes \in [Nodes -> 0..nextConnectionGeneration]
    /\ nextConnectionGeneration \in 0..MaxGeneration
    /\ streamNode \in [Generations -> Nodes \cup {NoNode}]
    /\ queue \in [Generations -> Seq(Frames)]
    /\ \A g \in Generations : Len(queue[g]) <= StreamBuffer
    /\ open \subseteq 1..nextConnectionGeneration
    /\ watched \subseteq 1..nextConnectionGeneration
    /\ restarts \in 0..MaxRestarts

\* However many frames and tasks are published, acknowledged, abandoned and
\* published again, no table of PeerState passes its limit (MAX_TRACKED_FRAMES,
\* MAX_RECENT_ACKNOWLEDGEMENTS, MAX_RETAINED_PUBLISHED_TASKS).
TablesBounded ==
    /\ Cardinality(frameDestinations) <= MaxTracked
    /\ Len(acknowledgedFrames) <= MaxRecentAcks
    /\ Cardinality(Retained) <= MaxRetained

\* A frame is owed to its destination exactly while its destination's mailbox,
\* and no other, holds its one copy: routing, acknowledging, completing,
\* abandoning and disconnecting all keep frame_destinations and the mailboxes in
\* step, so an owed frame is replayed and a settled one never is.
OwedMeansMailboxed ==
    \A n \in Nodes :
        /\ IsInjective(mailboxes[n])
        /\ Range(mailboxes[n]) = {f \in frameDestinations : frame[f].to = n}

\* A publisher that is still waiting has its waiter in the table of its frame's
\* kind and its frame still owed, and no table holds anything else: no
\* acknowledgement, typed completion, Fleet disconnect or abandoned call leaves
\* a caller with nobody to wake it, or a waiter whose frame is gone.
WaitersBacked ==
    \A f \in Frames :
        /\ \A kind \in WaitKinds :
              f \in waiters[kind] <=> call[f] = "waiting" /\ frame[f].kind = kind
        /\ call[f] = "waiting" => f \in frameDestinations

\* A retained publication that was not acknowledged still has its frame owed to
\* the task's destination.  publish_task answers a retry with the retained
\* receipt and routes nothing, so this is what keeps that answer honest.
ReceiptBacked ==
    \A k \in Retained :
        ~publishedTasks[k].acknowledged =>
            /\ publishedTasks[k].frame \in frameDestinations
            /\ frame[publishedTasks[k].frame] = [kind |-> "task", to |-> TaskDest[k]]

\* An owed task frame is the frame of the one publication that issued it: two
\* frames of the same task are never owed at the same time, although old
\* publications are forgotten and published again.
OneFramePerTask ==
    \A f \in frameDestinations :
        frame[f].kind = "task" =>
            \E k \in Retained : /\ publishedTasks[k].frame = f
                                /\ publishedFrameIndex[f] = k
                                /\ ~publishedTasks[k].acknowledged

\* The eviction order of publish_task_frame lists every acknowledged publication
\* once and nothing else, so a publication whose frame is still owed is never
\* forgotten, and the index points back at every retained record.
EvictionOrder ==
    /\ IsInjective(acknowledgedPublishedTaskOrder)
    /\ Range(acknowledgedPublishedTaskOrder)
         = {k \in Retained : publishedTasks[k].acknowledged}
    /\ \A k \in TaskKeys, f \in Frames :
         publishedFrameIndex[f] = k
           <=> publishedTasks[k] # NoTask /\ publishedTasks[k].frame = f

\* A frame the relay remembers as acknowledged is not owed: connect_node_fenced
\* has nothing acknowledged to filter out, and a late duplicate of the
\* acknowledgement settles nothing.
AcknowledgedIsSettled ==
    Range(acknowledgedFrames) \cap frameDestinations = {}

\* Publications, owed frames and acknowledgements stay in step within their
\* limits: a retry is answered by a frame that is really on the way, no task has
\* two frames on the way, and what is forgotten or remembered as acknowledged is
\* settled (publish_task_frame, acknowledge_frame).
PublicationsInStep ==
    /\ TablesBounded
    /\ ReceiptBacked
    /\ OneFramePerTask
    /\ EvictionOrder
    /\ AcknowledgedIsSettled

\* Frames still owed reach the node in the order they were accepted: the live
\* stream holds them in mailbox order, replays and later sends together.
DeliveredInOrder ==
    \A n \in Nodes :
        LET owed == Retain(queue[connectedNodes[n]], frameDestinations)
        IN  connectedNodes[n] # 0 =>
                \A i, j \in 1..Len(owed) : i < j =>
                    \E a, b \in 1..Len(mailboxes[n]) :
                        /\ a < b
                        /\ mailboxes[n][a] = owed[i]
                        /\ mailboxes[n][b] = owed[j]

\* With room for another frame, a live stream can be full only of copies that
\* are no longer owed (abandoned or settled through an older stream).  The
\* channel is as large as the whole table, so owed frames alone never make
\* route_frame_locked leave a frame behind in the mailbox.
FullOnlyOfStaleCopies ==
    \A n \in Nodes :
        LET g == connectedNodes[n]
        IN  g # 0 /\ Cardinality(frameDestinations) < MaxTracked
              /\ Len(queue[g]) >= StreamBuffer
            => \E i \in 1..Len(queue[g]) : queue[g][i] \notin frameDestinations

\* Owed frames, mailboxes, live streams and waiting publishers stay in step:
\* every owed frame is in its mailbox, in order on the live stream, and has its
\* waiter if a publisher waits for it.
MailboxesInStep ==
    /\ RelayTypeOK
    /\ OwedMeansMailboxed
    /\ WaitersBacked
    /\ DeliveredInOrder
    /\ FullOnlyOfStaleCopies

\* A node is disconnected only when the very stream that is its connection has
\* ended: the watcher of a replaced stream never disconnects its successor.
ReplacedStreamCannotDisconnect ==
    [][\A n \in Nodes :
          connectedNodes'[n] = 0 /\ connectedNodes[n] # 0 =>
              \/ connectedNodes[n] \notin open
              \/ connectedNodes[n] \in watched \ watched']_relayVars

\* A node that reconnects is connected through its new stream, and the stream
\* holds everything the node is owed: a replay always fits, however long the
\* node was away.
ReconnectReplaysAll ==
    [][\A g \in watched' \ watched :
          LET n == streamNode'[g]
          IN  /\ connectedNodes'[n] = g
              /\ {f \in frameDestinations : frame[f].to = n}
                   \subseteq Range(queue'[g])]_relayVars

\* A change of streams is safe: it neither disconnects the node again nor leaves
\* an owed frame out (connect_node_fenced, disconnect_node_if_current).
ReconnectIsSafe == ReplacedStreamCannotDisconnect /\ ReconnectReplaysAll

\* A frame stops being owed only to be settled: its publisher was answered or
\* gave up, or its publication was acknowledged, or the relay restarted.  No
\* stream event loses a task or result frame.
OnlySettledFramesLeave ==
    [][restarts' = restarts =>
         \A f \in frameDestinations \ frameDestinations' :
            \/ call'[f] \in {"resolved", "failed"}
            \/ frame[f].kind = "fleet" /\ call'[f] = "dropped"
            \/ /\ frame[f].kind = "task"
               /\ publishedTasks'[publishedFrameIndex[f]].acknowledged]_relayVars
=============================================================================
