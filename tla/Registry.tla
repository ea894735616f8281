------------------------------ MODULE Registry ------------------------------
(***************************************************************************)
(* The relay's skill registry and the programs that keep a registration    *)
(* in it: the daemon's discovery loop, the Python SDK's registration       *)
(* lifecycle, and the edge node that registers once at startup.            *)
(*                                                                         *)
(* A lease is modelled by the time it has left, so there is no clock and   *)
(* no horizon: Tick takes one unit from every lease and every timer.  A    *)
(* request is applied (Serve) and answered (Answered) in two steps; one    *)
(* whose caller gave up may still arrive later (stray).  The daemon, the   *)
(* SDK node and the edge node are separate peers.                          *)
(***************************************************************************)
EXTENDS Integers, FiniteSets, Functions

CONSTANTS
    Card,            \* the skills a registrant advertises
    Ttl,             \* ttl_seconds of a registration
    DefaultTtl,      \* the registry's TTL for a request that names none
    RefreshLead,     \* DEFAULT_REFRESH_LEAD_SECONDS
    Deployments,     \* the sets of peers that register in one deployment
    MaxFaults        \* bound: failed calls, crashes, relay restarts

ASSUME RegistryAssumption ==
    /\ IsFiniteSet(Card) /\ Card # {}
    /\ Ttl \in Nat \ {0, 1}
    /\ {DefaultTtl, RefreshLead} \subseteq Nat \ {0}
    /\ Deployments \subseteq SUBSET {"sdk", "daemon", "edge"}
    /\ MaxFaults \in Nat

VARIABLES
    registry,   \* RegistryState: nodes (peer -> skills, time left), skill_index
    life,       \* per registrant: where its registration lifecycle stands
    call,       \* per registrant: its outstanding registry RPC
    timer,      \* per registrant: time until its loop refreshes again
    err,        \* per registrant: the last attempt failed (SDK: last_error)
    open,       \* the SDK node is started and holds a client
    closing,    \* close() drives the stop, or waits for its cleanup task
    zombie,     \* a refresh task of the SDK that no field refers to any more
    stray,      \* requests their caller gave up on, still on their way
    slipped,    \* history: the lease was disturbed since it was last written
    loose,      \* history: a request was given up on since all was in order
    faults,
    deployed    \* the peers of this deployment

clients == <<life, call, timer, err, open, closing, zombie>>
history == <<slipped, loose>>
vars == <<registry, clients, stray, history, faults, deployed>>

-----------------------------------------------------------------------------
(* The registry's state *)

Registrants == {"sdk", "daemon"}
Peers == Registrants \cup {"edge"}

NoSkills == [s \in Card |-> {}]

RemovePeer(R, p) ==
    IF p \in DOMAIN R.nodes
    THEN [nodes       |-> Restrict(R.nodes, DOMAIN R.nodes \ {p}),
          skill_index |-> [s \in Card |-> R.skill_index[s] \ {p}]]
    ELSE R

InsertRegistration(R, p, skills, ttl) ==
    LET gone == RemovePeer(R, p)
    IN  [nodes       |-> [q \in DOMAIN gone.nodes \cup {p} |->
                             IF q = p THEN [skills |-> skills, left |-> ttl] ELSE gone.nodes[q]],
         skill_index |-> [s \in Card |-> gone.skill_index[s]
                                           \cup {q \in {p} : s \in skills}]]

\* purge_expired_locked: every public operation starts with it.
PurgeExpired(R) ==
    LET live == {p \in DOMAIN R.nodes : R.nodes[p].left > 0}
    IN  [nodes       |-> Restrict(R.nodes, live),
         skill_index |-> [s \in Card |-> R.skill_index[s] \ (DOMAIN R.nodes \ live)]]

Register(R, p, skills, ttl) == InsertRegistration(PurgeExpired(R), p, skills, ttl)

UpsertNode(R, p) ==
    LET P == PurgeExpired(R)
    IN  InsertRegistration(P, p, IF p \in DOMAIN P.nodes THEN P.nodes[p].skills ELSE {},
                           DefaultTtl)

\* An empty list of ids removes the peer, and so does losing the last skill.
Unregister(R, p, ids) ==
    LET P    == PurgeExpired(R)
        rest == P.nodes[p].skills \ ids
    IN  IF p \notin DOMAIN P.nodes THEN P
        ELSE IF ids = {} \/ rest = {} THEN RemovePeer(P, p)
        ELSE InsertRegistration(P, p, rest, P.nodes[p].left)

\* The peers a DiscoverBySkill for skill s answers with.
Discover(s) ==
    LET P == PurgeExpired(registry)
    IN  {p \in P.skill_index[s] \cap DOMAIN P.nodes : s \in P.nodes[p].skills}

-----------------------------------------------------------------------------
(* The registrants *)

Calls == {"none", "register", "registered", "unregister", "unregistered"}
Lives == {"idle", "starting", "running", "stopping_refresh", "stopping_dereg",
          "cleanup_refresh", "cleanup_dereg", "failed"}

\* refresh_interval_for_ttl leads the expiry by at most Ttl - 1.
DaemonInterval ==
    LET lead == IF RefreshLead < Ttl - 1 THEN RefreshLead ELSE Ttl - 1
    IN  IF Ttl - lead > 1 THEN Ttl - lead ELSE 1

\* Fault: an interval as long as the TTL is let through.
TtlLongInterval == Ttl

\* The longest interval start_registration accepts.
SdkInterval == Ttl - 1

Interval(r) == IF r = "sdk" THEN SdkInterval ELSE DaemonInterval

Init ==
    /\ registry = [nodes |-> [p \in {} |-> {}], skill_index |-> NoSkills]
    /\ life = [r \in Registrants |-> "idle"]
    /\ call = [r \in Registrants |-> "none"]
    /\ timer = [r \in Registrants |-> 0]
    /\ err = [r \in Registrants |-> FALSE]
    /\ open = FALSE /\ closing = FALSE /\ zombie = FALSE
    /\ stray = {}
    /\ slipped = [r \in Registrants |-> FALSE]
    /\ loose = [r \in Registrants |-> FALSE]
    /\ faults = 0
    /\ deployed \in Deployments

Fault == faults < MaxFaults /\ faults' = faults + 1

Outstanding(r) == call[r] # "none"

Move(r, phase, c) ==
    /\ life' = [life EXCEPT ![r] = phase]
    /\ call' = [call EXCEPT ![r] = c]

\* r's request, while the relay has not applied it.
Unapplied(r) == {m \in {<<r, call[r]>>} : m[2] \in {"register", "unregister"}}

\* r stops waiting for its call: a request not yet applied may still arrive.
Abandon(r, isLoose) ==
    /\ stray' \in {stray, stray \cup Unapplied(r)}
    /\ loose' = [loose EXCEPT ![r] = @ \/ isLoose]

\* start() of the SDK node: refused while a registration task is left over.
Open ==
    /\ "sdk" \in deployed /\ ~open /\ life["sdk"] = "idle"
    /\ open' = TRUE
    /\ UNCHANGED <<registry, life, call, timer, err, closing, zombie, stray, history, faults>>

\* start_registration and start_registration_loop register before they loop.
Start(r) ==
    /\ r \in deployed /\ life[r] = "idle" /\ (r = "sdk" => open)
    /\ Move(r, "starting", "register")
    /\ UNCHANGED <<registry, timer, err, open, closing, zombie, stray, history, faults>>

\* Fault: the loop ends with the first refresh that fails.
MortalRefresh(r) ==
    /\ life[r] = "running" /\ ~Outstanding(r) /\ timer[r] = 0 /\ ~err[r]
    /\ Move(r, "running", "register")
    /\ UNCHANGED <<registry, timer, err, open, closing, zombie, stray, history, faults>>

\* The refresh loop's timer fires.
Refresh(r) ==
    /\ life[r] = "running" /\ ~Outstanding(r) /\ timer[r] = 0
    /\ Move(r, "running", "register")
    /\ UNCHANGED <<registry, timer, err, open, closing, zombie, stray, history, faults>>

\* The relay applies r's request.
Serve(r) ==
    /\ \/ /\ call[r] = "register"
          /\ registry' = Register(registry, r, Card, Ttl)
          /\ call' = [call EXCEPT ![r] = "registered"]
          /\ slipped' = [slipped EXCEPT ![r] = FALSE]
       \/ /\ call[r] = "unregister"
          /\ registry' = Unregister(registry, r, Card)
          /\ call' = [call EXCEPT ![r] = "unregistered"]
          /\ UNCHANGED slipped
    /\ UNCHANGED <<life, timer, err, open, closing, zombie, stray, loose, faults>>

\* RegisterSkills was accepted; the daemon's interval ticks at once after start.
Registered(r) ==
    /\ life[r] \in {"starting", "running"} /\ call[r] = "registered"
    /\ Move(r, "running", "none")
    /\ timer' = [timer EXCEPT ![r] =
                    IF life[r] = "starting" /\ r = "daemon" THEN 0 ELSE Interval(r)]
    /\ err' = [err EXCEPT ![r] = FALSE]
    /\ loose' = [loose EXCEPT ![r] = @ /\ \E c \in Calls : <<r, c>> \in stray]
    /\ UNCHANGED <<registry, open, closing, zombie, stray, slipped, faults>>

\* RegisterSkills failed: start raises, the loop logs it and goes on.
RegisterFails(r) ==
    /\ life[r] \in {"starting", "running"} /\ Outstanding(r)
    /\ Fault
    /\ Move(r, IF life[r] = "running" THEN "running" ELSE "idle", "none")
    /\ timer' = [timer EXCEPT ![r] = IF life[r] = "running" THEN Interval(r) ELSE 0]
    /\ err' = [err EXCEPT ![r] = @ \/ life[r] = "running"]
    /\ Abandon(r, TRUE)
    /\ UNCHANGED <<registry, open, closing, zombie, slipped>>

-----------------------------------------------------------------------------
(* Stopping the SDK's lifecycle *)

\* stop_registration cancels the refresh task; a stop that failed before only
\* has the deregistration left.  Setting the stop event also ends a forgotten
\* task, unless that one is in the middle of a call and the event is cleared
\* again before it looks.
BeginStop(close) ==
    /\ open /\ life["sdk"] \in {"running", "failed"}
    /\ IF life["sdk"] = "running"
       THEN Move("sdk", "stopping_refresh", call["sdk"])
       ELSE Move("sdk", "stopping_dereg", "unregister")
    /\ closing' = close
    /\ zombie' \in {zombie, FALSE}
    /\ timer' = [timer EXCEPT !["sdk"] = 0]
    /\ UNCHANGED <<registry, err, open, stray, history, faults>>

\* Fault: after a late acknowledgement the cleanup task does not deregister.
SkippingRefreshEnds ==
    \/ /\ life["sdk"] = "stopping_refresh"
       /\ Move("sdk", "stopping_dereg", "unregister")
       /\ Abandon("sdk", call["sdk"] = "register")
       /\ UNCHANGED <<registry, timer, err, open, closing, zombie, slipped, faults>>
    \/ /\ life["sdk"] = "cleanup_refresh"
       /\ Move("sdk", "idle", "none")
       /\ closing' = FALSE
       /\ Abandon("sdk", call["sdk"] = "register")
       /\ UNCHANGED <<registry, timer, err, open, zombie, slipped, faults>>

\* The cancelled refresh task has ended; only now the deregistration starts.
RefreshEnds ==
    /\ life["sdk"] \in {"stopping_refresh", "cleanup_refresh"}
    /\ Move("sdk", IF life["sdk"] = "stopping_refresh" THEN "stopping_dereg"
                                                       ELSE "cleanup_dereg", "unregister")
    /\ Abandon("sdk", call["sdk"] = "register")
    /\ UNCHANGED <<registry, timer, err, open, closing, zombie, slipped, faults>>

\* The stop bound passes: a cleanup task takes over, close() hands it the client.
StopTimesOut ==
    /\ life["sdk"] \in {"stopping_refresh", "stopping_dereg"}
    /\ Move("sdk", IF life["sdk"] = "stopping_refresh" THEN "cleanup_refresh"
                                                       ELSE "cleanup_dereg", call["sdk"])
    /\ err' = [err EXCEPT !["sdk"] = TRUE]
    /\ open' = (open /\ ~closing)
    /\ UNCHANGED <<registry, timer, closing, zombie, stray, history, faults>>

Deregistering == life["sdk"] \in {"stopping_dereg", "cleanup_dereg"}

\* Fault: the cleanup task ends without giving up its place.
StuckDeregistered ==
    /\ life["sdk"] = "stopping_dereg" /\ call["sdk"] = "unregistered"
    /\ Move("sdk", "idle", "none")
    /\ err' = [err EXCEPT !["sdk"] = FALSE]
    /\ open' = (open /\ ~closing)
    /\ closing' = FALSE
    /\ UNCHANGED <<registry, timer, zombie, stray, history, faults>>

\* The deregistration was accepted: the lifecycle is over.
Deregistered ==
    /\ Deregistering /\ call["sdk"] = "unregistered"
    /\ Move("sdk", "idle", "none")
    /\ err' = [err EXCEPT !["sdk"] = FALSE]
    /\ open' = (open /\ ~closing)
    /\ closing' = FALSE
    /\ UNCHANGED <<registry, timer, zombie, stray, history, faults>>

\* It failed: the task stays for another stop, unless the node is closing.
DeregistrationFails ==
    /\ Deregistering
    /\ Fault
    /\ Move("sdk", IF closing THEN "idle" ELSE "failed", "none")
    /\ err' = [err EXCEPT !["sdk"] = TRUE]
    /\ open' = (open /\ ~closing)
    /\ closing' = FALSE
    /\ Abandon("sdk", TRUE)
    /\ UNCHANGED <<registry, timer, zombie, slipped>>

\* close(): nothing to stop, or a cleanup task to hand the client to.  close()
\* sees no task while start_registration waits for its answer: closing the
\* client fails that call, unless its answer is already there.  Then the task
\* is created, and close() forgets it without cancelling it.
Close ==
    /\ open
    /\ open' = FALSE
    /\ \/ /\ life["sdk"] = "idle"
          /\ UNCHANGED <<life, call, closing, zombie, stray, loose>>
       \/ /\ life["sdk"] \in {"cleanup_refresh", "cleanup_dereg"}
          /\ closing' = TRUE
          /\ UNCHANGED <<life, call, zombie, stray, loose>>
       \/ /\ life["sdk"] = "starting"
          /\ Move("sdk", "idle", "none")
          /\ Abandon("sdk", TRUE)
          /\ zombie' \in {zombie, zombie \/ call["sdk"] = "registered"}
          /\ UNCHANGED closing
    /\ UNCHANGED <<registry, timer, err, slipped, faults>>

\* The forgotten task refreshes whenever the node runs again.
ZombieRefresh ==
    /\ zombie /\ open
    /\ registry' = Register(registry, "sdk", Card, Ttl)
    /\ UNCHANGED <<clients, stray, history, faults>>

-----------------------------------------------------------------------------
(* The daemon, the edge node, the relay and the network *)

\* DiscoveryHandle::shutdown aborts the loop and deregisters once.
Shutdown ==
    /\ life["daemon"] = "running"
    /\ Move("daemon", "stopping_dereg", "unregister")
    /\ timer' = [timer EXCEPT !["daemon"] = 0]
    /\ Abandon("daemon", call["daemon"] = "register")
    /\ UNCHANGED <<registry, err, open, closing, zombie, slipped, faults>>

\* The daemon's one attempt ends; a failure is only logged.
ShutdownEnds ==
    /\ life["daemon"] = "stopping_dereg"
    /\ Move("daemon", "idle", "none")
    /\ \/ call["daemon"] = "unregistered" /\ UNCHANGED <<stray, loose, faults>>
       \/ Fault /\ Abandon("daemon", TRUE)
    /\ UNCHANGED <<registry, timer, err, open, closing, zombie, slipped>>

\* The registrant's process dies.
Die(r) ==
    /\ life[r] # "idle"
    /\ Fault
    /\ Move(r, "idle", "none")
    /\ timer' = [timer EXCEPT ![r] = 0]
    /\ Abandon(r, TRUE)
    /\ IF r = "sdk" THEN open' = FALSE /\ closing' = FALSE /\ zombie' = FALSE
                    ELSE UNCHANGED <<open, closing, zombie>>
    /\ UNCHANGED <<registry, err, slipped>>

\* A request nobody waits for arrives after all, or never does.
StrayArrives ==
    \E m \in stray :
        /\ stray' = stray \ {m}
        /\ registry' \in {registry, IF m[2] = "register"
                                    THEN Register(registry, m[1], Card, Ttl)
                                    ELSE Unregister(registry, m[1], Card)}
        /\ slipped' = [slipped EXCEPT ![m[1]] = @ \/ m[2] = "unregister"]
        /\ UNCHANGED <<clients, loose, faults>>

\* The edge node registers once, with the default TTL unless told otherwise.
EdgeRegisters(skills) ==
    /\ registry' = Register(registry, "edge", skills, DefaultTtl)
    /\ UNCHANGED <<clients, stray, history, faults>>

\* deregister_skills, called by hand for some of the peer's skills.
EdgeUnregisters(ids) ==
    /\ registry' = Unregister(registry, "edge", ids)
    /\ UNCHANGED <<clients, stray, history, faults>>

\* RegisterNode rewrites the lease of whatever registration the peer has.
RegisterNode(p) ==
    /\ registry' = UpsertNode(registry, p)
    /\ IF p = "edge" THEN UNCHANGED <<slipped, faults>>
       ELSE Fault /\ slipped' = [slipped EXCEPT ![p] = TRUE]
    /\ UNCHANGED <<clients, stray, loose>>

\* The cleanup sweep.
Sweep ==
    /\ registry' = PurgeExpired(registry)
    /\ UNCHANGED <<clients, stray, history, faults>>

\* The registry is in memory only.
RestartRelay ==
    /\ Fault
    /\ registry' = [nodes |-> [p \in {} |-> {}], skill_index |-> NoSkills]
    /\ slipped' = [r \in Registrants |-> TRUE]
    /\ UNCHANGED <<clients, stray, loose>>

Aged(R) ==
    [R EXCEPT !.nodes = [p \in DOMAIN R.nodes |->
        [skills |-> R.nodes[p].skills,
         left   |-> IF R.nodes[p].left > 0 THEN R.nodes[p].left - 1 ELSE 0]]]

\* Time passes.  A loop whose timer fired runs before the next unit of time;
\* a call that is out while time passes delays the loop behind it.
Tick ==
    /\ \A r \in Registrants : life[r] = "running" /\ timer[r] = 0 => Outstanding(r)
    /\ registry' = Aged(registry)
    /\ timer' = [r \in Registrants |-> IF timer[r] > 0 THEN timer[r] - 1 ELSE 0]
    /\ slipped' = [r \in Registrants |-> slipped[r] \/ Outstanding(r)]
    /\ UNCHANGED <<life, call, err, open, closing, zombie, stray, loose, faults>>

Stopping == RefreshEnds \/ StopTimesOut \/ Deregistered \/ DeregistrationFails

EdgeNode ==
    /\ "edge" \in deployed
    /\ \/ \E skills \in SUBSET Card : EdgeRegisters(skills)
       \/ \E ids \in SUBSET Card : EdgeUnregisters(ids)

Next ==
    /\ UNCHANGED deployed
    /\ \/ Open \/ Close \/ ZombieRefresh
       \/ \E r \in Registrants : Start(r) \/ Refresh(r) \/ Serve(r) \/ Registered(r)
                                   \/ RegisterFails(r) \/ Die(r)
       \/ \E close \in BOOLEAN : BeginStop(close)
       \/ Stopping
       \/ Shutdown \/ ShutdownEnds
       \/ EdgeNode
       \/ \E p \in deployed : RegisterNode(p)
       \/ StrayArrives \/ Sweep \/ RestartRelay \/ Tick

Spec == Init /\ [][Next]_vars

(* Time passes, the relay serves the requests it has and their answers     *)
(* arrive, the refresh loops are scheduled, and a cancelled task ends.     *)
FairSpec ==
    /\ Spec
    /\ WF_vars(Tick /\ UNCHANGED deployed)
    /\ \A r \in Registrants :
         WF_vars((Refresh(r) \/ Serve(r) \/ Registered(r)) /\ UNCHANGED deployed)
    /\ WF_vars((RefreshEnds \/ Deregistered) /\ UNCHANGED deployed)

-----------------------------------------------------------------------------
(* Properties *)

Listed(r) == \A s \in Card : r \in Discover(s)

(* The skill index and the entries agree after every operation, the       *)
(* expired entries included, so a lookup by skill misses no one and names  *)
(* no one who left (insert_registration, remove_peer, unregister).         *)
IndexMatchesNodes ==
    \A s \in Card :
        registry.skill_index[s] =
            {p \in DOMAIN registry.nodes : s \in registry.nodes[p].skills}

(* A registration does not lapse unnoticed: while a refresh loop runs, its *)
(* skills can be discovered, or its last attempt failed and says so, or    *)
(* the lease was disturbed from outside (a relay restart, a RegisterNode,  *)
(* a call that took time).  The SDK documents that its lifecycle reports   *)
(* a lapse (registration_status).                                          *)
LapseIsReported ==
    \A r \in Registrants :
        life[r] = "running" /\ ~Listed(r) => err[r] \/ slipped[r]

(* What the registry lists is right: by skill as by node, and a registrant *)
(* that is missing knows that it may be.                                   *)
ListingIsHonest == IndexMatchesNodes /\ LapseIsReported

(* A stopped registrant is not discoverable any more, unless a request     *)
(* was given up on, a deregistration failed or a process died since its    *)
(* last good registration: stop_registration and DiscoveryHandle::shutdown *)
(* wait for the refresh to end before they deregister, on every path.      *)
StoppedIsGone ==
    \A r \in Registrants :
        life[r] = "idle" /\ (\E s \in Card : r \in Discover(s))
            => loose[r] \/ (r = "sdk" /\ zombie)

(* A closed SDK node has no lifecycle left, or a cleanup task that was     *)
(* handed the client and closes it at its end: no path through close(),    *)
(* stop_registration and the cleanup task leaves a registration that needs *)
(* a client the node has dropped.                                          *)
ClosedIsQuiet ==
    ~open => life["sdk"] \in {"idle", "cleanup_refresh", "cleanup_dereg"}
               /\ (life["sdk"] # "idle" => closing)

(* A stop leaves nothing behind, neither in the registry nor in the node   *)
(* (stop_registration, close, DiscoveryHandle::shutdown).                  *)
StopIsClean == StoppedIsGone /\ ClosedIsQuiet

(* A running refresh loop that lost its entry (failed refreshes, a relay   *)
(* restart, a shortened lease) gets it back, or the registrant is stopped. *)
RunningIsListed ==
    \A r \in Registrants :
        (life[r] = "running" /\ ~Listed(r)) ~> (Listed(r) \/ life[r] # "running")

(* What a stopped registrant left behind, a late request's entry included, *)
(* expires by itself.                                                      *)
LeftoverExpires ==
    \A r \in Registrants :
        (life[r] = "idle" /\ Listed(r))
            ~> (~Listed(r) \/ life[r] # "idle" \/ (r = "sdk" /\ zombie))

(* In the end the registry lists those who run a registration loop, and no *)
(* longer those who stopped (the refresh loops and purge_expired_locked).  *)
ListingConverges == RunningIsListed /\ LeftoverExpires

(* A stop comes to an end, with or without its cleanup task, and the node  *)
(* can be started or stopped again: no phase waits for a step that cannot  *)
(* happen ("opt-in refresh lifecycle with bounded cleanup").               *)
StopEnds ==
    (life["sdk"] \notin {"idle", "starting", "running", "failed"})
        ~> (life["sdk"] \in {"idle", "failed"})

=============================================================================
