--------------------------- MODULE RegistryProofs ---------------------------
(***************************************************************************)
(* Theorems about the skill registry and its registrants: the two          *)
(* invariants ListingIsHonest and StopIsClean, for every card of skills,   *)
(* every TTL, every refresh lead and any number of faults.                 *)
(***************************************************************************)
EXTENDS Registry, TLAPS

-----------------------------------------------------------------------------
(* What an operation does to a registry *)

\* The entries are well formed and the skill index says what they say.
WellKept(R) ==
    /\ R = [nodes |-> R.nodes, skill_index |-> R.skill_index]
    /\ DOMAIN R.nodes \subseteq Peers
    /\ \A p \in DOMAIN R.nodes : R.nodes[p].skills \subseteq Card /\ R.nodes[p].left \in Nat
    /\ \A s \in Card : R.skill_index[s] = {p \in DOMAIN R.nodes : s \in R.nodes[p].skills}

\* p's registration counts: it is there and has not expired.
Live(R, p) == p \in DOMAIN R.nodes /\ R.nodes[p].left > 0

\* p has all the skills of its card listed for at least n units more.
Holds(R, p, n) ==
    /\ p \in DOMAIN R.nodes
    /\ R.nodes[p].skills = Card
    /\ R.nodes[p].left >= n

\* p can be found by some skill.
Shown(R, p) == Live(R, p) /\ R.nodes[p].skills # {}

\* S tells of p what R told, but for an expired entry.
SameOf(R, S, p) ==
    /\ Live(S, p) <=> Live(R, p)
    /\ Live(R, p) => /\ S.nodes[p].skills = R.nodes[p].skills
                     /\ S.nodes[p].left = R.nodes[p].left

(* Two changes that tell the same of p tell the same together.             *)
LEMMA SameThrough ==
    ASSUME NEW R, NEW P, NEW S, NEW p, SameOf(R, P, p), SameOf(P, S, p)
    PROVE  SameOf(R, S, p)
BY DEF SameOf

(* purge_expired_locked drops the expired entries, from the index as well, *)
(* and changes no other.                                                   *)
LEMMA Purging ==
    ASSUME NEW R, WellKept(R)
    PROVE  /\ WellKept(PurgeExpired(R))
           /\ \A p : SameOf(R, PurgeExpired(R), p)
           /\ \A p : p \in DOMAIN PurgeExpired(R).nodes <=> Live(R, p)
<1> DEFINE live == {p \in DOMAIN R.nodes : R.nodes[p].left > 0}
           N == [p \in live |-> R.nodes[p]]
           X == [s \in Card |-> R.skill_index[s] \ (DOMAIN R.nodes \ live)]
<1>1. PurgeExpired(R) = [nodes |-> N, skill_index |-> X]
  BY DEF PurgeExpired, Restrict
<1>2. DOMAIN N = live /\ \A p \in live : N[p] = R.nodes[p]
  OBVIOUS
<1>3. live \subseteq DOMAIN R.nodes /\ \A p : p \in live <=> Live(R, p)
  BY DEF Live
<1>4. \A s \in Card : X[s] = {p \in DOMAIN N : s \in N[p].skills}
  BY <1>2 DEF WellKept
<1> HIDE DEF live, N, X
<1>5. WellKept([nodes |-> N, skill_index |-> X])
  BY <1>2, <1>3, <1>4 DEF WellKept
<1>6. \A p : SameOf(R, [nodes |-> N, skill_index |-> X], p)
  BY <1>2, <1>3 DEF SameOf, Live
<1> QED
  BY <1>1, <1>2, <1>3, <1>5, <1>6

(* remove_peer takes the peer out of the entries and out of the index.     *)
LEMMA Removing ==
    ASSUME NEW R, WellKept(R), NEW p
    PROVE  /\ WellKept(RemovePeer(R, p))
           /\ \A q : q \in DOMAIN RemovePeer(R, p).nodes <=> q \in DOMAIN R.nodes /\ q # p
           /\ \A q \in DOMAIN RemovePeer(R, p).nodes : RemovePeer(R, p).nodes[q] = R.nodes[q]
<1> DEFINE N == [q \in DOMAIN R.nodes \ {p} |-> R.nodes[q]]
           X == [s \in Card |-> R.skill_index[s] \ {p}]
<1>1. CASE p \notin DOMAIN R.nodes
  <2>1. RemovePeer(R, p) = R
    BY <1>1 DEF RemovePeer
  <2> QED BY <2>1, <1>1
<1>2. CASE p \in DOMAIN R.nodes
  <2>1. RemovePeer(R, p) = [nodes |-> N, skill_index |-> X]
    BY <1>2 DEF RemovePeer, Restrict
  <2>2. DOMAIN N = DOMAIN R.nodes \ {p} /\ \A q \in DOMAIN N : N[q] = R.nodes[q]
    OBVIOUS
  <2>3. \A s \in Card : X[s] = {q \in DOMAIN N : s \in N[q].skills}
    BY <2>2 DEF WellKept
  <2> HIDE DEF N, X
  <2>4. WellKept([nodes |-> N, skill_index |-> X])
    BY <2>2, <2>3 DEF WellKept
  <2> QED BY <2>1, <2>2, <2>4
<1> QED BY <1>1, <1>2

(* insert_registration replaces the peer's entry and its index entries,    *)
(* and touches no other peer.                                              *)
LEMMA Inserting ==
    ASSUME NEW R, WellKept(R), NEW p \in Peers, NEW skills \in SUBSET Card, NEW ttl \in Nat
    PROVE  LET S == InsertRegistration(R, p, skills, ttl)
           IN  /\ WellKept(S)
               /\ p \in DOMAIN S.nodes /\ S.nodes[p].skills = skills /\ S.nodes[p].left = ttl
               /\ \A q : q # p => SameOf(R, S, q)
<1> DEFINE G == RemovePeer(R, p)
           N == [q \in DOMAIN G.nodes \cup {p} |->
                    IF q = p THEN [skills |-> skills, left |-> ttl] ELSE G.nodes[q]]
           X == [s \in Card |-> G.skill_index[s] \cup {q \in {p} : s \in skills}]
<1>1. InsertRegistration(R, p, skills, ttl) = [nodes |-> N, skill_index |-> X]
  BY DEF InsertRegistration
<1>2. /\ WellKept(G)
      /\ \A q : q \in DOMAIN G.nodes <=> q \in DOMAIN R.nodes /\ q # p
      /\ \A q \in DOMAIN G.nodes : G.nodes[q] = R.nodes[q]
  BY Removing
<1>3. DOMAIN N = DOMAIN G.nodes \cup {p} /\ N[p] = [skills |-> skills, left |-> ttl]
  OBVIOUS
<1>4. \A q \in DOMAIN G.nodes : q # p /\ N[q] = G.nodes[q]
  BY <1>2
<1>5. \A s \in Card : X[s] = {q \in DOMAIN G.nodes : s \in G.nodes[q].skills}
                              \cup {q \in {p} : s \in skills}
  BY <1>2 DEF WellKept
<1> HIDE DEF G, N, X
<1>6. \A s \in Card : X[s] = {q \in DOMAIN N : s \in N[q].skills}
  BY <1>3, <1>4, <1>5
<1>7. WellKept([nodes |-> N, skill_index |-> X])
  <2>1. DOMAIN N \subseteq Peers
    BY <1>2, <1>3 DEF WellKept
  <2>2. \A q \in DOMAIN N : N[q].skills \subseteq Card /\ N[q].left \in Nat
    BY <1>2, <1>3, <1>4 DEF WellKept
  <2> QED BY <2>1, <2>2, <1>6 DEF WellKept
<1>8. \A q : q # p => SameOf(R, [nodes |-> N, skill_index |-> X], q)
  BY <1>2, <1>3, <1>4 DEF SameOf, Live
<1> QED
  BY <1>1, <1>3, <1>7, <1>8

(* RegisterSkills lists exactly what it is given, for the time it is given. *)
LEMMA Registering ==
    ASSUME NEW R, WellKept(R), NEW p \in Peers, NEW skills \in SUBSET Card, NEW ttl \in Nat
    PROVE  LET S == Register(R, p, skills, ttl)
           IN  /\ WellKept(S)
               /\ p \in DOMAIN S.nodes /\ S.nodes[p].skills = skills /\ S.nodes[p].left = ttl
               /\ \A q : q # p => SameOf(R, S, q)
<1> DEFINE P == PurgeExpired(R)
           S == Register(R, p, skills, ttl)
<1>1. WellKept(P) /\ \A q : SameOf(R, P, q)
  BY Purging
<1>2. S = InsertRegistration(P, p, skills, ttl)
  BY DEF Register
<1> HIDE DEF P, S
<1>3. /\ WellKept(S)
      /\ p \in DOMAIN S.nodes /\ S.nodes[p].skills = skills /\ S.nodes[p].left = ttl
      /\ \A q : q # p => SameOf(P, S, q)
  BY <1>1, <1>2, Inserting
<1>4. \A q : q # p => SameOf(R, S, q)
  BY <1>1, <1>3, SameThrough
<1> QED
  BY <1>3, <1>4 DEF S

(* RegisterNode gives no peer a skill it did not have.                     *)
LEMMA Upserting ==
    ASSUME NEW R, WellKept(R), NEW p \in Peers
    PROVE  /\ WellKept(UpsertNode(R, p))
           /\ Shown(UpsertNode(R, p), p) => Shown(R, p)
           /\ \A q : q # p => SameOf(R, UpsertNode(R, p), q)
<1> DEFINE P == PurgeExpired(R)
           S == UpsertNode(R, p)
           old == IF p \in DOMAIN P.nodes THEN P.nodes[p].skills ELSE {}
<1>1. /\ WellKept(P) /\ \A q : SameOf(R, P, q)
      /\ \A q : q \in DOMAIN P.nodes <=> Live(R, q)
  BY Purging
<1>2. S = InsertRegistration(P, p, old, DefaultTtl)
  BY DEF UpsertNode
<1>3. old \in SUBSET Card /\ (old # {} => p \in DOMAIN P.nodes /\ P.nodes[p].skills # {})
  BY <1>1 DEF WellKept
<1> HIDE DEF P, S, old
<1>d. DefaultTtl \in Nat
  BY RegistryAssumption
<1>4. /\ WellKept(S)
      /\ p \in DOMAIN S.nodes /\ S.nodes[p].skills = old /\ S.nodes[p].left = DefaultTtl
      /\ \A q : q # p => SameOf(P, S, q)
  BY <1>1, <1>2, <1>3, <1>d, Inserting
<1>5. \A q : q # p => SameOf(R, S, q)
  BY <1>1, <1>4, SameThrough
<1>6. Shown(S, p) => Shown(R, p)
  BY <1>1, <1>3, <1>4 DEF Shown, SameOf
<1> QED
  BY <1>4, <1>5, <1>6 DEF S

(* unregister leaves the peer with what is left of its skills, and with no *)
(* entry when nothing is.                                                  *)
LEMMA Unregistering ==
    ASSUME NEW R, WellKept(R), NEW p \in Peers, NEW ids \in SUBSET Card
    PROVE  /\ WellKept(Unregister(R, p, ids))
           /\ ids = Card => ~Shown(Unregister(R, p, ids), p)
           /\ \A q : q # p => SameOf(R, Unregister(R, p, ids), q)
<1> DEFINE P == PurgeExpired(R)
           S == Unregister(R, p, ids)
           rest == P.nodes[p].skills \ ids
<1>1. WellKept(P) /\ \A q : SameOf(R, P, q)
  BY Purging
<1>2. S = IF p \notin DOMAIN P.nodes THEN P
          ELSE IF ids = {} \/ rest = {} THEN RemovePeer(P, p)
          ELSE InsertRegistration(P, p, rest, P.nodes[p].left)
  BY DEF Unregister
<1> HIDE DEF P, S
<1>3. CASE p \notin DOMAIN P.nodes
  BY <1>1, <1>2, <1>3 DEF S, Shown, Live
<1>4. CASE p \in DOMAIN P.nodes /\ (ids = {} \/ rest = {})
  <2>1. S = RemovePeer(P, p)
    BY <1>2, <1>4
  <2>2. /\ WellKept(S)
        /\ \A q : q \in DOMAIN S.nodes <=> q \in DOMAIN P.nodes /\ q # p
        /\ \A q \in DOMAIN S.nodes : S.nodes[q] = P.nodes[q]
    BY <2>1, <1>1, Removing
  <2>3. \A q : q # p => SameOf(R, S, q)
    BY <2>2, <1>1 DEF SameOf, Live
  <2> QED BY <2>2, <2>3 DEF S, Shown, Live
<1>5. CASE p \in DOMAIN P.nodes /\ ids # {} /\ rest # {}
  <2>1. S = InsertRegistration(P, p, rest, P.nodes[p].left)
    BY <1>2, <1>5
  <2>2. rest \in SUBSET Card /\ P.nodes[p].left \in Nat /\ P.nodes[p].skills \subseteq Card
    BY <1>1, <1>5 DEF WellKept
  <2>3. ids # Card
    BY <2>2, <1>5
  <2>4. WellKept(S) /\ \A q : q # p => SameOf(P, S, q)
    <3> DEFINE left == P.nodes[p].left
    <3>1. S = InsertRegistration(P, p, rest, left) /\ rest \in SUBSET Card /\ left \in Nat
      BY <2>1, <2>2
    <3> HIDE DEF rest, left
    <3> QED BY <1>1, <3>1, Inserting
  <2>5. \A q : q # p => SameOf(R, S, q)
    BY <2>4, <1>1, SameThrough
  <2> QED BY <2>3, <2>4, <2>5 DEF S
<1> QED
  BY <1>3, <1>4, <1>5

(* Time takes one unit from every lease and changes nothing else.          *)
LEMMA Aging ==
    ASSUME NEW R, WellKept(R)
    PROVE  /\ WellKept(Aged(R))
           /\ \A p : Shown(Aged(R), p) => Shown(R, p)
           /\ \A p : \A n \in Nat : Holds(R, p, n + 1) => Holds(Aged(R), p, n)
<1> DEFINE N == [p \in DOMAIN R.nodes |->
                    [skills |-> R.nodes[p].skills,
                     left   |-> IF R.nodes[p].left > 0 THEN R.nodes[p].left - 1 ELSE 0]]
           S == [nodes |-> N, skill_index |-> R.skill_index]
<1>1. Aged(R) = S
  BY DEF Aged, WellKept
<1>2. /\ DOMAIN N = DOMAIN R.nodes
      /\ \A p \in DOMAIN N :
            /\ N[p].skills = R.nodes[p].skills
            /\ N[p].left = IF R.nodes[p].left > 0 THEN R.nodes[p].left - 1 ELSE 0
  OBVIOUS
<1> HIDE DEF N
<1>3. WellKept(S)
  BY <1>2 DEF WellKept
<1>4. ASSUME NEW p, Shown(S, p) PROVE Shown(R, p)
  BY <1>2, <1>4 DEF Shown, Live, WellKept
<1>5. ASSUME NEW p, NEW n \in Nat, Holds(R, p, n + 1) PROVE Holds(S, p, n)
  BY <1>2, <1>5 DEF Holds, WellKept
<1> QED
  BY <1>1, <1>3, <1>4, <1>5

-----------------------------------------------------------------------------
(* The inductive invariant *)

RegistryTypeOK ==
    /\ WellKept(registry)
    /\ life \in [Registrants -> Lives]
    /\ call \in [Registrants -> Calls]
    /\ timer \in [Registrants -> 0 .. Ttl - 1]
    /\ err \in [Registrants -> BOOLEAN]
    /\ slipped \in [Registrants -> BOOLEAN]
    /\ loose \in [Registrants -> BOOLEAN]
    /\ open \in BOOLEAN /\ closing \in BOOLEAN /\ zombie \in BOOLEAN
    /\ stray \subseteq Registrants \X {"register", "unregister"}
    /\ faults \in Nat
    /\ deployed \subseteq Peers

\* The phase of r's lifecycle says which call r may be waiting for.
CallFitsLife(r) ==
    /\ call[r] \in {"register", "registered"} =>
          life[r] \in {"starting", "running", "stopping_refresh", "cleanup_refresh"}
    /\ call[r] \in {"unregister", "unregistered"} =>
          life[r] \in {"stopping_dereg", "cleanup_dereg"}

\* A registration applied just now has its full time, and that of a running
\* loop outlives the loop's timer, unless something is known to be wrong.
LeaseOutlivesTimer(r) ==
    /\ call[r] = "registered" /\ ~slipped[r] => Holds(registry, r, Ttl)
    /\ life[r] = "running" /\ ~err[r] /\ ~slipped[r] => Holds(registry, r, timer[r] + 1)

\* Once the relay has applied the deregistration, nothing brings r back but a
\* request r gave up on or a task it forgot.
GoneOnceStopped(r) ==
    /\ <<r, "register">> \in stray => loose[r]
    /\ (life[r] = "idle" \/ call[r] = "unregistered") /\ ~loose[r] /\ ~(r = "sdk" /\ zombie)
          => ~Shown(registry, r)

Registrant(r) == CallFitsLife(r) /\ LeaseOutlivesTimer(r) /\ GoneOnceStopped(r)

RegistryInv == RegistryTypeOK /\ ClosedIsQuiet /\ \A r \in Registrants : Registrant(r)

\* Nothing that concerns q changes for the worse in this step.
Aside(q) ==
    /\ life'[q] = life[q] /\ call'[q] = call[q] /\ timer'[q] = timer[q] /\ err'[q] = err[q]
    /\ slipped[q] => slipped'[q]
    /\ loose[q] => loose'[q]
    /\ q = "sdk" => zombie' = zombie
    /\ <<q, "register">> \in stray' => <<q, "register">> \in stray
    /\ SameOf(registry, registry', q)

(* Who looks at a registry that did not change sees what was there.        *)
LEMMA SameItself == \A R, p : SameOf(R, R, p)
BY DEF SameOf

(* Each loop sleeps for less than the TTL: refresh_interval_for_ttl and    *)
(* the check in start_registration see to it.                              *)
LEMMA IntervalWithinTtl == \A r \in Registrants : Interval(r) \in 0 .. Ttl - 1
<1>1. Ttl \in Nat /\ Ttl >= 2
  BY RegistryAssumption
<1>2. RefreshLead \in Nat /\ RefreshLead >= 1
  BY RegistryAssumption
<1> QED
  BY <1>1, <1>2 DEF Interval, SdkInterval, DaemonInterval

(* A step that leaves q aside keeps what is known of q.                    *)
LEMMA BystanderKeeps ==
    ASSUME RegistryInv, NEW q \in Registrants, Aside(q)
    PROVE  Registrant(q)'
<1>1. Registrant(q) /\ timer[q] \in Nat /\ Ttl \in Nat /\ Ttl >= 2
  BY RegistryAssumption DEF RegistryInv, RegistryTypeOK
<1>2. q \in DOMAIN registry.nodes => registry.nodes[q].left \in Nat
  BY DEF RegistryInv, RegistryTypeOK, WellKept
<1>3. \A n \in Nat : n >= 1 /\ Holds(registry, q, n) => Holds(registry', q, n)
  BY <1>2 DEF Aside, SameOf, Holds, Live
<1>4. Shown(registry', q) => Shown(registry, q)
  BY DEF Aside, SameOf, Shown
<1>5. CallFitsLife(q)'
  BY <1>1 DEF Aside, CallFitsLife, Registrant
<1>6. LeaseOutlivesTimer(q)'
  <2>1. call'[q] = "registered" /\ ~slipped'[q] => Holds(registry', q, Ttl)
    BY <1>1, <1>3 DEF Aside, LeaseOutlivesTimer, Registrant
  <2>2. timer[q] + 1 \in Nat /\ timer[q] + 1 >= 1
    BY <1>1
  <2>3. life'[q] = "running" /\ ~err'[q] /\ ~slipped'[q] => Holds(registry', q, timer'[q] + 1)
    BY <1>1, <1>3, <2>2 DEF Aside, LeaseOutlivesTimer, Registrant
  <2> QED BY <2>1, <2>3 DEF LeaseOutlivesTimer
<1>7. GoneOnceStopped(q)'
  BY <1>1, <1>4 DEF Aside, GoneOnceStopped, Registrant
<1> QED
  BY <1>5, <1>6, <1>7 DEF Registrant

(* One registrant moves, the other stays aside.                            *)
LEMMA OneMoves ==
    ASSUME RegistryInv, RegistryTypeOK', ClosedIsQuiet', NEW r \in Registrants,
           \A q \in Registrants : q # r => Aside(q),
           Registrant(r)'
    PROVE  RegistryInv'
BY BystanderKeeps DEF RegistryInv

(* Neither registrant is concerned.                                        *)
LEMMA NoneMoves ==
    ASSUME RegistryInv, RegistryTypeOK', ClosedIsQuiet', \A q \in Registrants : Aside(q)
    PROVE  RegistryInv'
BY BystanderKeeps DEF RegistryInv

\* A step that moves only r, with the registry as it is and only r's own
\* request left to itself.
MovesAlone(r) ==
    /\ registry' = registry
    /\ \A q \in Registrants \ {r} :
          /\ life'[q] = life[q] /\ call'[q] = call[q] /\ timer'[q] = timer[q] /\ err'[q] = err[q]
          /\ slipped'[q] = slipped[q] /\ loose'[q] = loose[q]
          /\ <<q, "register">> \in stray' => <<q, "register">> \in stray
          /\ q = "sdk" => zombie' = zombie

(* Such a step leaves the other registrant aside.                          *)
LEMMA AloneIsAside ==
    ASSUME NEW r \in Registrants, MovesAlone(r)
    PROVE  \A q \in Registrants : q # r => Aside(q)
BY SameItself DEF MovesAlone, Aside

-----------------------------------------------------------------------------
(* The steps of the clients *)

(* A move of r's lifecycle stays within its phases and calls.              *)
LEMMA MoveTypes ==
    ASSUME RegistryTypeOK, NEW r \in Registrants, NEW phase \in Lives, NEW c \in Calls,
           Move(r, phase, c)
    PROVE  life' \in [Registrants -> Lives] /\ call' \in [Registrants -> Calls]
BY DEF RegistryTypeOK, Move

(* A request that is given up on is r's own, and not yet applied.          *)
LEMMA AbandonTypes ==
    ASSUME RegistryTypeOK, NEW r \in Registrants, NEW b \in BOOLEAN, Abandon(r, b)
    PROVE  /\ stray' \subseteq Registrants \X {"register", "unregister"}
           /\ loose' \in [Registrants -> BOOLEAN]
<1>1. Unapplied(r) \subseteq Registrants \X {"register", "unregister"}
  BY DEF Unapplied
<1>2. stray' \subseteq Registrants \X {"register", "unregister"}
  BY <1>1 DEF RegistryTypeOK, Abandon
<1>3. loose' \in [Registrants -> BOOLEAN]
  BY DEF RegistryTypeOK, Abandon
<1> QED BY <1>2, <1>3

(* The lifecycles of the registrants keep the invariant: the answer to a   *)
(* call, a call that fails, a stop with or without its cleanup task, a     *)
(* close at any time and the death of the process.                         *)
LEMMA ClientSteps ==
    ASSUME RegistryInv, UNCHANGED deployed,
           \/ \E r \in Registrants : Start(r) \/ Refresh(r) \/ Registered(r)
                                       \/ RegisterFails(r) \/ Die(r)
           \/ \E close \in BOOLEAN : BeginStop(close)
           \/ Stopping \/ Close \/ Shutdown \/ ShutdownEnds
    PROVE  RegistryInv'
<1> USE DEF RegistryInv
<1>i. \A r \in Registrants : Interval(r) \in 0 .. Ttl - 1
  BY IntervalWithinTtl
<1>t. Ttl \in Nat /\ Ttl >= 2
  BY RegistryAssumption
<1>1. ASSUME NEW r \in Registrants, Start(r) PROVE RegistryInv'
  <2>1. RegistryTypeOK'
    BY <1>1, <1>t DEF RegistryTypeOK, Lives, Calls, Registrants, history, Start, Move
  <2>2. MovesAlone(r)
    BY <1>1 DEF RegistryTypeOK, MovesAlone, Registrants, history, Start, Move
  <2>3. ClosedIsQuiet'
    BY <1>1 DEF RegistryTypeOK, ClosedIsQuiet, Registrants, Start, Move
  <2>4. Registrant(r)'
    <3>1. CallFitsLife(r)'
      BY <1>1 DEF RegistryTypeOK, Registrant, CallFitsLife, Registrants, Start, Move
    <3>2. LeaseOutlivesTimer(r)'
      BY <1>1 DEF RegistryTypeOK, Registrant, CallFitsLife, LeaseOutlivesTimer, Registrants, history, Start, Move
    <3>3. GoneOnceStopped(r)'
      BY <1>1 DEF RegistryTypeOK, Registrant, CallFitsLife, GoneOnceStopped, Registrants, history, Start, Move
    <3> QED BY <3>1, <3>2, <3>3 DEF Registrant
  <2> QED BY <2>1, <2>2, <2>3, <2>4, OneMoves, AloneIsAside DEF Registrants
<1>2. ASSUME NEW r \in Registrants, Refresh(r) PROVE RegistryInv'
  <2>1. RegistryTypeOK'
    BY <1>2, <1>t DEF RegistryTypeOK, Lives, Calls, Registrants, history, Refresh, Move
  <2>2. MovesAlone(r)
    BY <1>2 DEF RegistryTypeOK, MovesAlone, Registrants, history, Refresh, Move
  <2>3. ClosedIsQuiet'
    BY <1>2 DEF RegistryTypeOK, ClosedIsQuiet, Registrants, Refresh, Move
  <2>4. Registrant(r)'
    <3>1. CallFitsLife(r)'
      BY <1>2 DEF RegistryTypeOK, Registrant, CallFitsLife, Registrants, Refresh, Move
    <3>2. LeaseOutlivesTimer(r)'
      BY <1>2 DEF RegistryTypeOK, Registrant, CallFitsLife, LeaseOutlivesTimer, Registrants, history, Refresh, Move
    <3>3. GoneOnceStopped(r)'
      BY <1>2 DEF RegistryTypeOK, Registrant, CallFitsLife, GoneOnceStopped, Registrants, history, Refresh, Move
    <3> QED BY <3>1, <3>2, <3>3 DEF Registrant
  <2> QED BY <2>1, <2>2, <2>3, <2>4, OneMoves, AloneIsAside DEF Registrants
<1>3. ASSUME NEW r \in Registrants, Registered(r) PROVE RegistryInv'
  <2>1. RegistryTypeOK'
    BY <1>3, <1>i, <1>t DEF RegistryTypeOK, Lives, Calls, Registrants, history, Registered, Move
  <2>2. MovesAlone(r)
    BY <1>3 DEF RegistryTypeOK, MovesAlone, Registrants, history, Registered, Move
  <2>3. ClosedIsQuiet'
    BY <1>3 DEF RegistryTypeOK, ClosedIsQuiet, Registrants, Registered, Move
  <2>4. Registrant(r)'
    <3>1. CallFitsLife(r)'
      BY <1>3 DEF RegistryTypeOK, Registrant, CallFitsLife, Registrants, Registered, Move
    <3>2. LeaseOutlivesTimer(r)'
      <4>1. ~slipped[r] => Holds(registry, r, Ttl)
        BY <1>3 DEF Registered, Registrant, LeaseOutlivesTimer
      <4>2. timer'[r] \in Nat /\ timer'[r] + 1 =< Ttl
        BY <2>1, <1>t DEF RegistryTypeOK
      <4>3. r \in DOMAIN registry.nodes => registry.nodes[r].left \in Nat
        BY DEF RegistryTypeOK, WellKept
      <4>4. ~slipped[r] => Holds(registry, r, timer'[r] + 1)
        BY <4>1, <4>2, <4>3, <1>t DEF Holds
      <4>5. call'[r] = "none" /\ registry' = registry /\ slipped' = slipped
        BY <1>3 DEF Registered, Move, RegistryTypeOK
      <4> QED BY <4>4, <4>5 DEF LeaseOutlivesTimer
    <3>3. GoneOnceStopped(r)'
      <4>1. life'[r] = "running" /\ call'[r] = "none" /\ stray' = stray
        BY <1>3 DEF Registered, Move, RegistryTypeOK
      <4>2. "register" \in Calls /\ (<<r, "register">> \in stray => loose[r])
        BY DEF Calls, Registrant, GoneOnceStopped
      <4>3. <<r, "register">> \in stray => loose'[r]
        BY <1>3, <4>2 DEF Registered, RegistryTypeOK
      <4> QED BY <4>1, <4>3 DEF GoneOnceStopped
    <3> QED BY <3>1, <3>2, <3>3 DEF Registrant
  <2> QED BY <2>1, <2>2, <2>3, <2>4, OneMoves, AloneIsAside DEF Registrants
<1>4. ASSUME NEW r \in Registrants, RegisterFails(r) PROVE RegistryInv'
  <2>1. RegistryTypeOK'
    BY <1>4, <1>i, <1>t DEF RegistryTypeOK, Lives, Calls, Registrants, history, RegisterFails, Move, Abandon, Unapplied, Fault
  <2>2. MovesAlone(r)
    BY <1>4 DEF RegistryTypeOK, MovesAlone, Registrants, history, RegisterFails, Move, Abandon, Unapplied, Fault
  <2>3. ClosedIsQuiet'
    BY <1>4 DEF RegistryTypeOK, ClosedIsQuiet, Registrants, RegisterFails, Move, Abandon, Unapplied, Fault
  <2>4. Registrant(r)'
    <3>1. CallFitsLife(r)'
      BY <1>4 DEF RegistryTypeOK, Registrant, CallFitsLife, Registrants, RegisterFails, Move, Abandon, Unapplied, Fault
    <3>2. LeaseOutlivesTimer(r)'
      BY <1>4 DEF RegistryTypeOK, Registrant, CallFitsLife, LeaseOutlivesTimer, Registrants, history, RegisterFails, Move, Abandon, Unapplied, Fault
    <3>3. GoneOnceStopped(r)'
      BY <1>4 DEF RegistryTypeOK, Registrant, CallFitsLife, GoneOnceStopped, Registrants, history, RegisterFails, Move, Abandon, Unapplied, Fault
    <3> QED BY <3>1, <3>2, <3>3 DEF Registrant
  <2> QED BY <2>1, <2>2, <2>3, <2>4, OneMoves, AloneIsAside DEF Registrants
<1>5. ASSUME NEW r \in Registrants, Die(r) PROVE RegistryInv'
  <2>1. RegistryTypeOK'
    <3>1. life' \in [Registrants -> Lives] /\ call' \in [Registrants -> Calls]
      BY <1>5, MoveTypes DEF Die, Lives, Calls
    <3>2. /\ stray' \subseteq Registrants \X {"register", "unregister"}
          /\ loose' \in [Registrants -> BOOLEAN]
      BY <1>5, AbandonTypes DEF Die
    <3>3. timer' \in [Registrants -> 0 .. Ttl - 1] /\ faults' \in Nat
      BY <1>5, <1>t DEF Die, Fault, RegistryTypeOK
    <3>4. open' \in BOOLEAN /\ closing' \in BOOLEAN /\ zombie' \in BOOLEAN
      BY <1>5 DEF Die, RegistryTypeOK
    <3> QED BY <1>5, <3>1, <3>2, <3>3, <3>4 DEF Die, RegistryTypeOK
  <2>2. MovesAlone(r)
    BY <1>5 DEF RegistryTypeOK, MovesAlone, Registrants, history, Die, Move, Abandon, Unapplied, Fault
  <2>3. ClosedIsQuiet'
    BY <1>5 DEF RegistryTypeOK, ClosedIsQuiet, Registrants, Die, Move, Abandon, Unapplied, Fault
  <2>4. Registrant(r)'
    <3>1. CallFitsLife(r)'
      BY <1>5 DEF RegistryTypeOK, Registrant, CallFitsLife, Registrants, Die, Move, Abandon, Unapplied, Fault
    <3>2. LeaseOutlivesTimer(r)'
      BY <1>5 DEF RegistryTypeOK, Registrant, CallFitsLife, LeaseOutlivesTimer, Registrants, history, Die, Move, Abandon, Unapplied, Fault
    <3>3. GoneOnceStopped(r)'
      BY <1>5 DEF RegistryTypeOK, Registrant, CallFitsLife, GoneOnceStopped, Registrants, history, Die, Move, Abandon, Unapplied, Fault
    <3> QED BY <3>1, <3>2, <3>3 DEF Registrant
  <2> QED BY <2>1, <2>2, <2>3, <2>4, OneMoves, AloneIsAside DEF Registrants
<1>6. ASSUME NEW close \in BOOLEAN, BeginStop(close) PROVE RegistryInv'
  <2>1. RegistryTypeOK'
    <3>1. life' \in [Registrants -> Lives] /\ call' \in [Registrants -> Calls]
      BY <1>6 DEF BeginStop, Move, Lives, Calls, Registrants, RegistryTypeOK
    <3>2. timer' \in [Registrants -> 0 .. Ttl - 1]
      <4>1. 0 \in 0 .. Ttl - 1 /\ timer \in [Registrants -> 0 .. Ttl - 1]
        BY <1>t DEF RegistryTypeOK
      <4>2. timer' = [timer EXCEPT !["sdk"] = 0]
        BY <1>6 DEF BeginStop
      <4> QED BY <4>1, <4>2
    <3>3. closing' = close /\ (zombie' = zombie \/ zombie' = FALSE)
      BY <1>6 DEF BeginStop
    <3> QED BY <1>6, <3>1, <3>2, <3>3 DEF BeginStop, RegistryTypeOK, history
  <2>2. MovesAlone("sdk")
    BY <1>6 DEF RegistryTypeOK, MovesAlone, Registrants, history, BeginStop, Move
  <2>3. ClosedIsQuiet'
    BY <1>6 DEF RegistryTypeOK, ClosedIsQuiet, Registrants, BeginStop, Move
  <2>4. Registrant("sdk")'
    <3>1. CallFitsLife("sdk")'
      BY <1>6 DEF RegistryTypeOK, Registrant, CallFitsLife, Registrants, BeginStop, Move
    <3>2. LeaseOutlivesTimer("sdk")'
      BY <1>6 DEF RegistryTypeOK, Registrant, CallFitsLife, LeaseOutlivesTimer, Registrants, history, BeginStop, Move
    <3>3. GoneOnceStopped("sdk")'
      BY <1>6 DEF RegistryTypeOK, Registrant, CallFitsLife, GoneOnceStopped, Registrants, history, BeginStop, Move
    <3> QED BY <3>1, <3>2, <3>3 DEF Registrant
  <2> QED BY <2>1, <2>2, <2>3, <2>4, OneMoves, AloneIsAside DEF Registrants
<1>7. ASSUME RefreshEnds PROVE RegistryInv'
  <2>1. RegistryTypeOK'
    BY <1>7, <1>t DEF RegistryTypeOK, Lives, Calls, Registrants, history, RefreshEnds, Move, Abandon, Unapplied
  <2>2. MovesAlone("sdk")
    BY <1>7 DEF RegistryTypeOK, MovesAlone, Registrants, history, RefreshEnds, Move, Abandon, Unapplied
  <2>3. ClosedIsQuiet'
    BY <1>7 DEF RegistryTypeOK, ClosedIsQuiet, Registrants, RefreshEnds, Move, Abandon, Unapplied
  <2>4. Registrant("sdk")'
    <3>1. CallFitsLife("sdk")'
      BY <1>7 DEF RegistryTypeOK, Registrant, CallFitsLife, Registrants, RefreshEnds, Move, Abandon, Unapplied
    <3>2. LeaseOutlivesTimer("sdk")'
      BY <1>7 DEF RegistryTypeOK, Registrant, CallFitsLife, LeaseOutlivesTimer, Registrants, history, RefreshEnds, Move, Abandon, Unapplied
    <3>3. GoneOnceStopped("sdk")'
      BY <1>7 DEF RegistryTypeOK, Registrant, CallFitsLife, GoneOnceStopped, Registrants, history, RefreshEnds, Move, Abandon, Unapplied
    <3> QED BY <3>1, <3>2, <3>3 DEF Registrant
  <2> QED BY <2>1, <2>2, <2>3, <2>4, OneMoves, AloneIsAside DEF Registrants
<1>8. ASSUME StopTimesOut PROVE RegistryInv'
  <2>1. RegistryTypeOK'
    BY <1>8, <1>t DEF RegistryTypeOK, Lives, Calls, Registrants, history, StopTimesOut, Move
  <2>2. MovesAlone("sdk")
    BY <1>8 DEF RegistryTypeOK, MovesAlone, Registrants, history, StopTimesOut, Move
  <2>3. ClosedIsQuiet'
    BY <1>8 DEF RegistryTypeOK, ClosedIsQuiet, Registrants, StopTimesOut, Move
  <2>4. Registrant("sdk")'
    <3>1. CallFitsLife("sdk")'
      BY <1>8 DEF RegistryTypeOK, Registrant, CallFitsLife, Registrants, StopTimesOut, Move
    <3>2. LeaseOutlivesTimer("sdk")'
      BY <1>8 DEF RegistryTypeOK, Registrant, CallFitsLife, LeaseOutlivesTimer, Registrants, history, StopTimesOut, Move
    <3>3. GoneOnceStopped("sdk")'
      BY <1>8 DEF RegistryTypeOK, Registrant, CallFitsLife, GoneOnceStopped, Registrants, history, StopTimesOut, Move
    <3> QED BY <3>1, <3>2, <3>3 DEF Registrant
  <2> QED BY <2>1, <2>2, <2>3, <2>4, OneMoves, AloneIsAside DEF Registrants
<1>9. ASSUME Deregistered PROVE RegistryInv'
  <2>1. RegistryTypeOK'
    BY <1>9, <1>t DEF RegistryTypeOK, Lives, Calls, Registrants, history, Deregistered, Deregistering, Move
  <2>2. MovesAlone("sdk")
    BY <1>9 DEF RegistryTypeOK, MovesAlone, Registrants, history, Deregistered, Deregistering, Move
  <2>3. ClosedIsQuiet'
    BY <1>9 DEF RegistryTypeOK, ClosedIsQuiet, Registrants, Deregistered, Deregistering, Move
  <2>4. Registrant("sdk")'
    <3>1. CallFitsLife("sdk")'
      BY <1>9 DEF RegistryTypeOK, Registrant, CallFitsLife, Registrants, Deregistered, Deregistering, Move
    <3>2. LeaseOutlivesTimer("sdk")'
      BY <1>9 DEF RegistryTypeOK, Registrant, CallFitsLife, LeaseOutlivesTimer, Registrants, history, Deregistered, Deregistering, Move
    <3>3. GoneOnceStopped("sdk")'
      BY <1>9 DEF RegistryTypeOK, Registrant, CallFitsLife, GoneOnceStopped, Registrants, history, Deregistered, Deregistering, Move
    <3> QED BY <3>1, <3>2, <3>3 DEF Registrant
  <2> QED BY <2>1, <2>2, <2>3, <2>4, OneMoves, AloneIsAside DEF Registrants
<1>10. ASSUME DeregistrationFails PROVE RegistryInv'
  <2>1. RegistryTypeOK'
    <3>1. life' \in [Registrants -> Lives] /\ call' \in [Registrants -> Calls]
      BY <1>10, MoveTypes DEF DeregistrationFails, Lives, Calls, Registrants
    <3>2. /\ stray' \subseteq Registrants \X {"register", "unregister"}
          /\ loose' \in [Registrants -> BOOLEAN]
      BY <1>10, AbandonTypes DEF DeregistrationFails, Registrants
    <3>3. faults' \in Nat
      BY <1>10 DEF DeregistrationFails, Fault, RegistryTypeOK
    <3>4. open' \in BOOLEAN /\ closing' \in BOOLEAN /\ err' \in [Registrants -> BOOLEAN]
      BY <1>10 DEF DeregistrationFails, RegistryTypeOK
    <3> QED BY <1>10, <3>1, <3>2, <3>3, <3>4 DEF DeregistrationFails, RegistryTypeOK
  <2>2. MovesAlone("sdk")
    BY <1>10 DEF RegistryTypeOK, MovesAlone, Registrants, history, DeregistrationFails, Deregistering, Move, Abandon, Unapplied, Fault
  <2>3. ClosedIsQuiet'
    BY <1>10 DEF RegistryTypeOK, ClosedIsQuiet, Registrants, DeregistrationFails, Deregistering, Move, Abandon, Unapplied, Fault
  <2>4. Registrant("sdk")'
    <3>1. CallFitsLife("sdk")'
      BY <1>10 DEF RegistryTypeOK, Registrant, CallFitsLife, Registrants, DeregistrationFails, Deregistering, Move, Abandon, Unapplied, Fault
    <3>2. LeaseOutlivesTimer("sdk")'
      BY <1>10 DEF RegistryTypeOK, Registrant, CallFitsLife, LeaseOutlivesTimer, Registrants, history, DeregistrationFails, Deregistering, Move, Abandon, Unapplied, Fault
    <3>3. GoneOnceStopped("sdk")'
      BY <1>10 DEF RegistryTypeOK, Registrant, CallFitsLife, GoneOnceStopped, Registrants, history, DeregistrationFails, Deregistering, Move, Abandon, Unapplied, Fault
    <3> QED BY <3>1, <3>2, <3>3 DEF Registrant
  <2> QED BY <2>1, <2>2, <2>3, <2>4, OneMoves, AloneIsAside DEF Registrants
<1>11. ASSUME Close PROVE RegistryInv'
  <2>1. RegistryTypeOK'
    <3>1. life' \in [Registrants -> Lives] /\ call' \in [Registrants -> Calls]
      BY <1>11, MoveTypes DEF Close, Lives, Calls, Registrants, RegistryTypeOK
    <3>2. /\ stray' \subseteq Registrants \X {"register", "unregister"}
          /\ loose' \in [Registrants -> BOOLEAN]
      BY <1>11, AbandonTypes DEF Close, Registrants, RegistryTypeOK
    <3>3. open' \in BOOLEAN /\ closing' \in BOOLEAN /\ zombie' \in BOOLEAN
      BY <1>11 DEF Close, RegistryTypeOK
    <3> QED BY <1>11, <3>1, <3>2, <3>3 DEF Close, RegistryTypeOK
  <2>2. MovesAlone("sdk")
    BY <1>11 DEF RegistryTypeOK, MovesAlone, Registrants, history, Close, Move, Abandon, Unapplied
  <2>3. ClosedIsQuiet'
    BY <1>11 DEF RegistryTypeOK, ClosedIsQuiet, Registrants, Close, Move, Abandon, Unapplied
  <2>4. Registrant("sdk")'
    <3>1. CallFitsLife("sdk")'
      BY <1>11 DEF RegistryTypeOK, Registrant, CallFitsLife, Registrants, Close, Move, Abandon, Unapplied
    <3>2. LeaseOutlivesTimer("sdk")'
      BY <1>11 DEF RegistryTypeOK, Registrant, CallFitsLife, LeaseOutlivesTimer, Registrants, history, Close, Move, Abandon, Unapplied
    <3>3. GoneOnceStopped("sdk")'
      <4>1. CASE life["sdk"] = "starting"
        BY <1>11, <4>1 DEF RegistryTypeOK, GoneOnceStopped, Registrants, Close, Move, Abandon
      <4>2. CASE life["sdk"] # "starting"
        <5>1. UNCHANGED <<registry, life, call, zombie, stray, loose>>
          BY <1>11, <4>2 DEF Close
        <5> QED BY <5>1 DEF Registrant, GoneOnceStopped, Registrants
      <4> QED BY <4>1, <4>2
    <3> QED BY <3>1, <3>2, <3>3 DEF Registrant
  <2> QED BY <2>1, <2>2, <2>3, <2>4, OneMoves, AloneIsAside DEF Registrants
<1>12. ASSUME Shutdown PROVE RegistryInv'
  <2>1. RegistryTypeOK'
    BY <1>12, <1>t DEF RegistryTypeOK, Lives, Calls, Registrants, history, Shutdown, Move, Abandon, Unapplied
  <2>2. MovesAlone("daemon")
    BY <1>12 DEF RegistryTypeOK, MovesAlone, Registrants, history, Shutdown, Move, Abandon, Unapplied
  <2>3. ClosedIsQuiet'
    BY <1>12 DEF RegistryTypeOK, ClosedIsQuiet, Registrants, Shutdown, Move, Abandon, Unapplied
  <2>4. Registrant("daemon")'
    <3>1. CallFitsLife("daemon")'
      BY <1>12 DEF RegistryTypeOK, Registrant, CallFitsLife, Registrants, Shutdown, Move, Abandon, Unapplied
    <3>2. LeaseOutlivesTimer("daemon")'
      BY <1>12 DEF RegistryTypeOK, Registrant, CallFitsLife, LeaseOutlivesTimer, Registrants, history, Shutdown, Move, Abandon, Unapplied
    <3>3. GoneOnceStopped("daemon")'
      BY <1>12 DEF RegistryTypeOK, Registrant, CallFitsLife, GoneOnceStopped, Registrants, history, Shutdown, Move, Abandon, Unapplied
    <3> QED BY <3>1, <3>2, <3>3 DEF Registrant
  <2> QED BY <2>1, <2>2, <2>3, <2>4, OneMoves, AloneIsAside DEF Registrants
<1>13. ASSUME ShutdownEnds PROVE RegistryInv'
  <2>1. RegistryTypeOK'
    <3>1. life' \in [Registrants -> Lives] /\ call' \in [Registrants -> Calls]
      BY <1>13, MoveTypes DEF ShutdownEnds, Lives, Calls, Registrants
    <3>2. /\ stray' \subseteq Registrants \X {"register", "unregister"}
          /\ loose' \in [Registrants -> BOOLEAN]
      BY <1>13, AbandonTypes DEF ShutdownEnds, Registrants, RegistryTypeOK
    <3>3. faults' \in Nat
      <4>1. faults' = faults \/ faults' = faults + 1
        BY <1>13 DEF ShutdownEnds, Fault
      <4> QED BY <4>1 DEF RegistryTypeOK
    <3> QED BY <1>13, <3>1, <3>2, <3>3 DEF ShutdownEnds, RegistryTypeOK
  <2>2. MovesAlone("daemon")
    BY <1>13 DEF RegistryTypeOK, MovesAlone, Registrants, history, ShutdownEnds, Move, Abandon, Unapplied, Fault
  <2>3. ClosedIsQuiet'
    BY <1>13 DEF RegistryTypeOK, ClosedIsQuiet, Registrants, ShutdownEnds, Move, Abandon, Unapplied, Fault
  <2>4. Registrant("daemon")'
    <3>1. CallFitsLife("daemon")'
      BY <1>13 DEF RegistryTypeOK, Registrant, CallFitsLife, Registrants, ShutdownEnds, Move, Abandon, Unapplied, Fault
    <3>2. LeaseOutlivesTimer("daemon")'
      BY <1>13 DEF RegistryTypeOK, Registrant, CallFitsLife, LeaseOutlivesTimer, Registrants, history, ShutdownEnds, Move, Abandon, Unapplied, Fault
    <3>3. GoneOnceStopped("daemon")'
      BY <1>13 DEF RegistryTypeOK, Registrant, CallFitsLife, GoneOnceStopped, Registrants, history, ShutdownEnds, Move, Abandon, Unapplied, Fault
    <3> QED BY <3>1, <3>2, <3>3 DEF Registrant
  <2> QED BY <2>1, <2>2, <2>3, <2>4, OneMoves, AloneIsAside DEF Registrants
<1> QED
  BY <1>1, <1>2, <1>3, <1>4, <1>5, <1>6, <1>7, <1>8, <1>9, <1>10, <1>11, <1>12, <1>13 DEF Stopping

-----------------------------------------------------------------------------
(* The steps of the relay *)

(* An operation of the relay for peer p leaves the others aside.           *)
LEMMA OthersAside ==
    ASSUME UNCHANGED <<life, call, timer, err, zombie, loose>>, stray' \subseteq stray, NEW p,
           \A q \in Registrants : q # p => /\ slipped'[q] = slipped[q]
                                          /\ SameOf(registry, registry', q)
    PROVE  \A q \in Registrants : q # p => Aside(q)
BY DEF Aside

(* A step that leaves the SDK's lifecycle alone keeps its node's closing.  *)
LEMMA ClosingStays ==
    ASSUME RegistryInv, UNCHANGED <<life, open, closing>>
    PROVE  ClosedIsQuiet'
BY DEF RegistryInv, ClosedIsQuiet

(* What the relay does with a request, its own sweep, its restart and the  *)
(* passing of time keep the invariant.                                     *)
LEMMA RelaySteps ==
    ASSUME RegistryInv, UNCHANGED deployed,
           \/ Open \/ ZombieRefresh
           \/ \E r \in Registrants : Serve(r)
           \/ EdgeNode
           \/ \E p \in deployed : RegisterNode(p)
           \/ StrayArrives \/ Sweep \/ RestartRelay \/ Tick
    PROVE  RegistryInv'
<1> USE DEF RegistryInv
<1>t. Ttl \in Nat /\ Ttl >= 2 /\ DefaultTtl \in Nat /\ Card \in SUBSET Card /\ Card # {}
  BY RegistryAssumption
<1>p. Registrants \subseteq Peers /\ "edge" \in Peers /\ "edge" \notin Registrants
  BY DEF Registrants, Peers
<1>r. \A r \in Registrants :
          LET S == Register(registry, r, Card, Ttl)
          IN  /\ WellKept(S)
              /\ \A n \in 0 .. Ttl : Holds(S, r, n)
              /\ \A q \in Registrants : q # r => SameOf(registry, S, q)
  <2> SUFFICES ASSUME NEW r \in Registrants
               PROVE  LET S == Register(registry, r, Card, Ttl)
                      IN  /\ WellKept(S)
                          /\ \A n \in 0 .. Ttl : Holds(S, r, n)
                          /\ \A q \in Registrants : q # r => SameOf(registry, S, q)
    OBVIOUS
  <2> DEFINE S == Register(registry, r, Card, Ttl)
  <2> SUFFICES /\ WellKept(S)
               /\ \A n \in 0 .. Ttl : Holds(S, r, n)
               /\ \A q \in Registrants : q # r => SameOf(registry, S, q)
    OBVIOUS
  <2>1. /\ WellKept(S)
        /\ r \in DOMAIN S.nodes /\ S.nodes[r].skills = Card /\ S.nodes[r].left = Ttl
        /\ \A q : q # r => SameOf(registry, S, q)
    BY <1>t, <1>p, Registering DEF RegistryTypeOK
  <2> HIDE DEF S
  <2>2. ASSUME NEW n \in 0 .. Ttl PROVE Holds(S, r, n)
    <3>1. Ttl >= n
      BY <1>t
    <3>2. S.nodes[r].left >= n
      BY <2>1, <3>1
    <3> QED BY <2>1, <3>2 DEF Holds
  <2> QED BY <2>1, <2>2
<1>u. \A r \in Registrants :
          LET S == Unregister(registry, r, Card)
          IN  /\ WellKept(S)
              /\ ~Shown(S, r)
              /\ \A q \in Registrants : q # r => SameOf(registry, S, q)
  BY <1>t, <1>p, Unregistering DEF RegistryTypeOK
<1>n. \A r \in Registrants : timer[r] \in 0 .. Ttl - 1 /\ timer[r] + 1 \in 0 .. Ttl
  BY <1>t DEF RegistryTypeOK
<1>1. ASSUME Open PROVE RegistryInv'
  <2>1. RegistryTypeOK'
    BY <1>1 DEF RegistryTypeOK, Open, history
  <2>2. \A q \in Registrants : Aside(q)
    BY <1>1, SameItself DEF Open, Aside, history
  <2>3. ClosedIsQuiet'
    BY <1>1 DEF Open, ClosedIsQuiet
  <2> QED BY <2>1, <2>2, <2>3, NoneMoves
<1>2. ASSUME ZombieRefresh PROVE RegistryInv'
  <2>0. "sdk" \in Registrants
    BY DEF Registrants
  <2>1. RegistryTypeOK'
    BY <1>2, <2>0, <1>r DEF RegistryTypeOK, ZombieRefresh, clients, history
  <2>2. \A q \in Registrants : q # "sdk" => Aside(q)
    BY <1>2, <2>0, <1>r, OthersAside DEF ZombieRefresh, clients, history
  <2>3. ClosedIsQuiet'
    BY <1>2, ClosingStays DEF ZombieRefresh, clients
  <2>4. Registrant("sdk")'
    <3>1. CallFitsLife("sdk")'
      BY <1>2, <2>0 DEF ZombieRefresh, clients, Registrant, CallFitsLife
    <3>2. LeaseOutlivesTimer("sdk")'
      <4>1. \A n \in 0 .. Ttl : Holds(registry', "sdk", n)
        BY <1>2, <2>0, <1>r DEF ZombieRefresh
      <4>2. Ttl \in 0 .. Ttl /\ timer'["sdk"] + 1 \in 0 .. Ttl
        BY <1>2, <2>0, <1>n, <1>t DEF ZombieRefresh, clients
      <4> QED BY <4>1, <4>2 DEF LeaseOutlivesTimer
    <3>3. GoneOnceStopped("sdk")'
      BY <1>2, <2>0 DEF ZombieRefresh, clients, history, Registrant, GoneOnceStopped
    <3> QED BY <3>1, <3>2, <3>3 DEF Registrant
  <2> QED BY <2>0, <2>1, <2>2, <2>3, <2>4, OneMoves
<1>3. ASSUME NEW r \in Registrants, Serve(r) PROVE RegistryInv'
  <2>1. RegistryTypeOK'
    <3>1. WellKept(registry')
      BY <1>3, <1>r, <1>u DEF Serve
    <3>2. call' \in [Registrants -> Calls] /\ slipped' \in [Registrants -> BOOLEAN]
      BY <1>3 DEF Serve, RegistryTypeOK, Calls
    <3> QED BY <1>3, <3>1, <3>2 DEF Serve, RegistryTypeOK
  <2>2. \A q \in Registrants : q # r => Aside(q)
    <3> SUFFICES ASSUME NEW q \in Registrants, q # r PROVE Aside(q)
      OBVIOUS
    <3>1. SameOf(registry, registry', q)
      BY <1>3, <1>r, <1>u DEF Serve
    <3>2. call'[q] = call[q] /\ slipped'[q] = slipped[q]
      BY <1>3 DEF Serve, RegistryTypeOK
    <3> QED BY <1>3, <3>1, <3>2 DEF Serve, Aside
  <2>3. ClosedIsQuiet'
    BY <1>3, ClosingStays DEF Serve
  <2>4. Registrant(r)'
    <3>1. CASE call[r] = "register"
      <4>1. /\ call'[r] = "registered" /\ registry' = Register(registry, r, Card, Ttl)
            /\ UNCHANGED <<life, timer, stray, loose, zombie>>
        BY <1>3, <3>1 DEF Serve, RegistryTypeOK
      <4>2. \A n \in 0 .. Ttl : Holds(registry', r, n)
        BY <4>1, <1>r
      <4>3. LeaseOutlivesTimer(r)'
        BY <4>1, <4>2, <1>n, <1>t DEF LeaseOutlivesTimer
      <4>4. CallFitsLife(r)' /\ GoneOnceStopped(r)'
        BY <3>1, <4>1 DEF CallFitsLife, GoneOnceStopped, Registrant
      <4> QED BY <4>3, <4>4 DEF Registrant
    <3>2. CASE call[r] # "register"
      <4>1. /\ call[r] = "unregister" /\ call'[r] = "unregistered"
            /\ registry' = Unregister(registry, r, Card)
            /\ UNCHANGED <<life, stray, loose>>
        BY <1>3, <3>2 DEF Serve, RegistryTypeOK
      <4>2. ~Shown(registry', r)
        BY <4>1, <1>u
      <4> QED BY <4>1, <4>2 DEF Registrant, CallFitsLife, LeaseOutlivesTimer, GoneOnceStopped
    <3> QED BY <3>1, <3>2
  <2> QED BY <2>1, <2>2, <2>3, <2>4, OneMoves
<1>4. ASSUME EdgeNode PROVE RegistryInv'
  <2>1. WellKept(registry') /\ \A q \in Registrants : SameOf(registry, registry', q)
    <3>0. WellKept(registry)
      BY DEF RegistryTypeOK
    <3>1. ASSUME NEW skills \in SUBSET Card, EdgeRegisters(skills)
          PROVE  WellKept(registry') /\ \A q \in Registrants : SameOf(registry, registry', q)
      <4>1. registry' = Register(registry, "edge", skills, DefaultTtl)
        BY <3>1 DEF EdgeRegisters
      <4>2. /\ WellKept(Register(registry, "edge", skills, DefaultTtl))
            /\ \A q : q # "edge" => SameOf(registry, Register(registry, "edge", skills, DefaultTtl), q)
        BY <3>0, <1>p, <1>t, Registering
      <4> QED
        BY <4>1, <4>2, <1>p
    <3>2. ASSUME NEW ids \in SUBSET Card, EdgeUnregisters(ids)
          PROVE  WellKept(registry') /\ \A q \in Registrants : SameOf(registry, registry', q)
      <4>1. registry' = Unregister(registry, "edge", ids)
        BY <3>2 DEF EdgeUnregisters
      <4>2. /\ WellKept(Unregister(registry, "edge", ids))
            /\ \A q : q # "edge" => SameOf(registry, Unregister(registry, "edge", ids), q)
        BY <3>0, <1>p, Unregistering
      <4> QED
        BY <4>1, <4>2, <1>p
    <3> QED BY <1>4, <3>1, <3>2 DEF EdgeNode
  <2>2. UNCHANGED <<clients, stray, history, faults>>
    BY <1>4 DEF EdgeNode, EdgeRegisters, EdgeUnregisters
  <2>3. RegistryTypeOK'
    BY <2>1, <2>2 DEF RegistryTypeOK, clients, history
  <2>4. \A q \in Registrants : Aside(q)
    BY <2>1, <2>2 DEF Aside, clients, history
  <2>5. ClosedIsQuiet'
    BY <2>2, ClosingStays DEF clients
  <2> QED BY <2>3, <2>4, <2>5, NoneMoves
<1>5. ASSUME NEW p \in deployed, RegisterNode(p) PROVE RegistryInv'
  <2>1. /\ WellKept(registry') /\ (Shown(registry', p) => Shown(registry, p))
        /\ \A q : q # p => SameOf(registry, registry', q)
    BY <1>5, Upserting DEF RegisterNode, RegistryTypeOK
  <2>2. /\ UNCHANGED <<clients, stray, loose>>
        /\ slipped' = slipped \/ slipped' = [slipped EXCEPT ![p] = TRUE]
        /\ faults' = faults \/ faults' = faults + 1
        /\ p # "edge" => slipped' = [slipped EXCEPT ![p] = TRUE]
    BY <1>5 DEF RegisterNode, Fault
  <2>3. RegistryTypeOK'
    <3>1. slipped' \in [Registrants -> BOOLEAN]
      BY <2>2 DEF RegistryTypeOK
    <3>2. faults' \in Nat
      BY <2>2 DEF RegistryTypeOK
    <3> QED BY <2>1, <2>2, <3>1, <3>2 DEF RegistryTypeOK, clients
  <2>4. \A q \in Registrants : q # p => Aside(q)
    BY <2>1, <2>2 DEF Aside, clients, RegistryTypeOK
  <2>5. ClosedIsQuiet'
    BY <2>2, ClosingStays DEF clients
  <2>6. CASE p \in Registrants
    <3>1. slipped'[p]
      BY <2>2, <2>6, <1>p DEF RegistryTypeOK
    <3>2. Registrant(p)'
      BY <2>1, <2>2, <2>6, <3>1
         DEF clients, Registrant, CallFitsLife, LeaseOutlivesTimer, GoneOnceStopped
    <3> QED BY <2>3, <2>4, <2>5, <2>6, <3>2, OneMoves
  <2>7. CASE p \notin Registrants
    <3>1. \A q \in Registrants : Aside(q)
      BY <2>4, <2>7
    <3> QED BY <2>3, <2>5, <3>1, NoneMoves
  <2> QED BY <2>6, <2>7
<1>6. ASSUME StrayArrives PROVE RegistryInv'
  <2>1. PICK m \in stray :
            /\ stray' = stray \ {m}
            /\ registry' \in {registry, IF m[2] = "register"
                                        THEN Register(registry, m[1], Card, Ttl)
                                        ELSE Unregister(registry, m[1], Card)}
            /\ slipped' = [slipped EXCEPT ![m[1]] = @ \/ m[2] = "unregister"]
            /\ UNCHANGED <<clients, loose, faults>>
    BY <1>6 DEF StrayArrives
  <2>2. PICK r \in Registrants, c \in {"register", "unregister"} : m = <<r, c>>
    BY DEF RegistryTypeOK
  <2>3. \/ registry' = registry
        \/ c = "register" /\ registry' = Register(registry, r, Card, Ttl)
        \/ c = "unregister" /\ registry' = Unregister(registry, r, Card)
    BY <2>1, <2>2
  <2>4. /\ WellKept(registry')
        /\ \A q \in Registrants : q # r => SameOf(registry, registry', q)
    BY <2>3, <1>r, <1>u, SameItself DEF RegistryTypeOK
  <2>5. slipped' = [slipped EXCEPT ![r] = @ \/ c = "unregister"]
    BY <2>1, <2>2
  <2>6. RegistryTypeOK'
    <3>1. slipped' \in [Registrants -> BOOLEAN]
      BY <2>5 DEF RegistryTypeOK
    <3> QED BY <2>1, <2>4, <3>1 DEF RegistryTypeOK, clients
  <2>7. \A q \in Registrants : q # r => Aside(q)
    <3>1. \A q \in Registrants : q # r => slipped'[q] = slipped[q]
      BY <2>5 DEF RegistryTypeOK
    <3> QED BY <2>1, <2>4, <3>1, OthersAside DEF clients
  <2>8. ClosedIsQuiet'
    BY <2>1, ClosingStays DEF clients
  <2>9. CASE registry' = registry
    <3>1. slipped[r] => slipped'[r]
      BY <2>5 DEF RegistryTypeOK
    <3>2. Aside(r)
      BY <2>1, <2>9, <3>1, SameItself DEF Aside, clients
    <3> QED BY <2>6, <2>7, <2>8, <3>2, NoneMoves
  <2>10. CASE c = "register" /\ registry' = Register(registry, r, Card, Ttl)
    <3>1. \A n \in 0 .. Ttl : Holds(registry', r, n)
      BY <2>10, <1>r
    <3>2. LeaseOutlivesTimer(r)'
      BY <3>1, <2>1, <1>n, <1>t DEF LeaseOutlivesTimer, clients
    <3>3. loose'[r]
      BY <2>1, <2>2, <2>10 DEF Registrant, GoneOnceStopped
    <3>4. CallFitsLife(r)' /\ GoneOnceStopped(r)'
      BY <2>1, <3>3 DEF Registrant, CallFitsLife, GoneOnceStopped, clients
    <3>5. Registrant(r)'
      BY <3>2, <3>4 DEF Registrant
    <3> QED BY <2>6, <2>7, <2>8, <3>5, OneMoves
  <2>11. CASE c = "unregister" /\ registry' = Unregister(registry, r, Card)
    <3>1. ~Shown(registry', r)
      BY <2>11, <1>u
    <3>2. slipped'[r]
      BY <2>5, <2>11 DEF RegistryTypeOK
    <3>3. Registrant(r)'
      BY <2>1, <3>1, <3>2
         DEF Registrant, CallFitsLife, LeaseOutlivesTimer, GoneOnceStopped, clients
    <3> QED BY <2>6, <2>7, <2>8, <3>3, OneMoves
  <2> QED BY <2>3, <2>9, <2>10, <2>11
<1>7. ASSUME Sweep PROVE RegistryInv'
  <2>1. WellKept(registry') /\ \A q \in Registrants : SameOf(registry, registry', q)
    BY <1>7, Purging DEF Sweep, RegistryTypeOK
  <2>2. RegistryTypeOK'
    BY <1>7, <2>1 DEF Sweep, RegistryTypeOK, clients, history
  <2>3. \A q \in Registrants : Aside(q)
    BY <1>7, <2>1 DEF Sweep, Aside, clients, history
  <2>4. ClosedIsQuiet'
    BY <1>7, ClosingStays DEF Sweep, clients
  <2> QED BY <2>2, <2>3, <2>4, NoneMoves
<1>8. ASSUME RestartRelay PROVE RegistryInv'
  <2>1. WellKept(registry') /\ registry'.nodes = [p \in {} |-> {}]
    BY <1>8 DEF RestartRelay, WellKept, NoSkills
  <2>2. \A q : ~Shown(registry', q)
    BY <2>1 DEF Shown, Live
  <2>3. RegistryTypeOK'
    BY <1>8, <2>1 DEF RestartRelay, Fault, RegistryTypeOK, clients
  <2>4. \A q \in Registrants : slipped'[q]
    BY <1>8 DEF RestartRelay
  <2>5. ClosedIsQuiet'
    BY <1>8, ClosingStays DEF RestartRelay, clients
  <2>6. \A q \in Registrants : Registrant(q)'
    BY <1>8, <2>2, <2>4
       DEF RestartRelay, Registrant, CallFitsLife, LeaseOutlivesTimer, GoneOnceStopped, clients
  <2> QED BY <2>3, <2>5, <2>6
<1>9. ASSUME Tick PROVE RegistryInv'
  <2>1. /\ WellKept(registry')
        /\ \A p : Shown(registry', p) => Shown(registry, p)
        /\ \A p : \A n \in Nat : Holds(registry, p, n + 1) => Holds(registry', p, n)
    BY <1>9, Aging DEF Tick, RegistryTypeOK
  <2>2. RegistryTypeOK'
    <3>1. timer' \in [Registrants -> 0 .. Ttl - 1]
      <4>1. timer' = [r \in Registrants |-> IF timer[r] > 0 THEN timer[r] - 1 ELSE 0]
        BY <1>9 DEF Tick
      <4>2. \A r \in Registrants : (IF timer[r] > 0 THEN timer[r] - 1 ELSE 0) \in 0 .. Ttl - 1
        BY <1>n, <1>t
      <4> QED BY <4>1, <4>2
    <3>2. slipped' \in [Registrants -> BOOLEAN]
      BY <1>9 DEF Tick, RegistryTypeOK, Outstanding
    <3> QED BY <1>9, <2>1, <3>1, <3>2 DEF Tick, RegistryTypeOK
  <2>3. ClosedIsQuiet'
    BY <1>9, ClosingStays DEF Tick
  <2>4. ASSUME NEW q \in Registrants PROVE Registrant(q)'
    <3>1. /\ slipped'[q] = (slipped[q] \/ call[q] # "none")
          /\ timer'[q] = IF timer[q] > 0 THEN timer[q] - 1 ELSE 0
          /\ UNCHANGED <<life, call, err, zombie, stray, loose>>
      BY <1>9 DEF Tick, Outstanding
    <3>2. CallFitsLife(q)' /\ GoneOnceStopped(q)'
      BY <2>1, <3>1 DEF Registrant, CallFitsLife, GoneOnceStopped
    <3>3. LeaseOutlivesTimer(q)'
      <4>1. call'[q] = "registered" => slipped'[q]
        BY <3>1
      <4>2. ASSUME life'[q] = "running", ~err'[q], ~slipped'[q]
            PROVE  Holds(registry', q, timer'[q] + 1)
        <5>1. timer[q] # 0
          BY <1>9, <3>1, <4>2 DEF Tick, Outstanding
        <5>2. timer[q] \in Nat /\ timer'[q] + 1 = timer[q]
          BY <5>1, <3>1, <1>n
        <5>3. Holds(registry, q, timer[q] + 1)
          BY <3>1, <4>2 DEF Registrant, LeaseOutlivesTimer
        <5> QED BY <5>2, <5>3, <2>1
      <4> QED BY <4>1, <4>2 DEF LeaseOutlivesTimer
    <3> QED BY <3>2, <3>3 DEF Registrant
  <2> QED BY <2>2, <2>3, <2>4
<1> QED
  BY <1>1, <1>2, <1>3, <1>4, <1>5, <1>6, <1>7, <1>8, <1>9

-----------------------------------------------------------------------------
(* The theorems *)

(* The invariant holds from the start and every step keeps it.             *)
THEOREM RegistryInvariant == Spec => []RegistryInv
<1>1. Init => RegistryInv
  <2> SUFFICES ASSUME Init PROVE RegistryInv
    OBVIOUS
  <2>1. WellKept(registry) /\ registry.nodes = [p \in {} |-> {}]
    BY DEF Init, WellKept, NoSkills
  <2>2. \A q : ~Shown(registry, q)
    BY <2>1 DEF Shown, Live
  <2>3. Ttl \in Nat /\ Ttl >= 2 /\ deployed \subseteq Peers
    BY RegistryAssumption DEF Init, Peers, Registrants
  <2>4. RegistryTypeOK
    <3>1. timer \in [Registrants -> 0 .. Ttl - 1] /\ faults \in Nat
      BY <2>3 DEF Init
    <3>2. life \in [Registrants -> Lives] /\ call \in [Registrants -> Calls]
      BY DEF Init, Lives, Calls
    <3> QED BY <2>1, <2>3, <3>1, <3>2 DEF Init, RegistryTypeOK
  <2>5. ClosedIsQuiet
    BY DEF Init, ClosedIsQuiet, Registrants
  <2>6. \A r \in Registrants : Registrant(r)
    BY <2>2 DEF Init, Registrant, CallFitsLife, LeaseOutlivesTimer, GoneOnceStopped
  <2> QED BY <2>4, <2>5, <2>6 DEF RegistryInv
<1>2. RegistryInv /\ [Next]_vars => RegistryInv'
  <2>1. CASE Next
    BY <2>1, ClientSteps, RelaySteps DEF Next
  <2>2. CASE UNCHANGED vars
    BY <2>2 DEF vars, clients, history, RegistryInv, RegistryTypeOK, ClosedIsQuiet, Registrant,
                CallFitsLife, LeaseOutlivesTimer, GoneOnceStopped
  <2> QED BY <2>1, <2>2
<1> QED
  BY <1>1, <1>2, PTL DEF Spec

(* What a lookup by skill answers: the peers with a live entry that has it *)
(* (discover purges, then reads the index).                                *)
LEMMA DiscoverReadsEntries ==
    ASSUME WellKept(registry), NEW s \in Card, NEW p
    PROVE  p \in Discover(s) <=> Live(registry, p) /\ s \in registry.nodes[p].skills
<1> DEFINE P == PurgeExpired(registry)
<1>1. /\ WellKept(P) /\ SameOf(registry, P, p)
      /\ p \in DOMAIN P.nodes <=> Live(registry, p)
  BY Purging
<1>2. Discover(s) = {q \in P.skill_index[s] \cap DOMAIN P.nodes : s \in P.nodes[q].skills}
  BY DEF Discover
<1> HIDE DEF P
<1>3. P.skill_index[s] = {q \in DOMAIN P.nodes : s \in P.nodes[q].skills}
  BY <1>1 DEF WellKept
<1> QED
  BY <1>1, <1>2, <1>3 DEF SameOf

(* The index always agrees with the entries, and the registration of a     *)
(* running loop that knows of no trouble can be found by every skill of    *)
(* its card: whatever the TTL and the refresh lead, the lease outlives the *)
(* loop's timer.                                                           *)
THEOREM ListingStaysHonest == Spec => []ListingIsHonest
<1>1. RegistryInv => ListingIsHonest
  <2> SUFFICES ASSUME RegistryInv PROVE ListingIsHonest
    OBVIOUS
  <2>1. WellKept(registry)
    BY DEF RegistryInv, RegistryTypeOK
  <2>2. IndexMatchesNodes
    BY <2>1 DEF WellKept, IndexMatchesNodes
  <2>3. ASSUME NEW r \in Registrants, life[r] = "running", ~err[r], ~slipped[r]
        PROVE  Listed(r)
    <3>1. Holds(registry, r, timer[r] + 1) /\ timer[r] \in Nat
      BY <2>3, RegistryAssumption
         DEF RegistryInv, RegistryTypeOK, Registrant, LeaseOutlivesTimer
    <3>2. Live(registry, r) /\ registry.nodes[r].skills = Card
      BY <3>1, <2>1 DEF Holds, Live, WellKept
    <3> QED BY <2>1, <3>2, DiscoverReadsEntries DEF Listed
  <2>4. LapseIsReported
    BY <2>3 DEF LapseIsReported
  <2> QED BY <2>2, <2>4 DEF ListingIsHonest
<1> QED
  BY <1>1, RegistryInvariant, PTL

(* A stop leaves nothing to discover and no registration without a client, *)
(* on every path through stop_registration, its cleanup task, close and    *)
(* DiscoveryHandle::shutdown.                                              *)
THEOREM StopLeavesNothing == Spec => []StopIsClean
<1>1. RegistryInv => StopIsClean
  <2> SUFFICES ASSUME RegistryInv PROVE StopIsClean
    OBVIOUS
  <2>1. WellKept(registry)
    BY DEF RegistryInv, RegistryTypeOK
  <2>2. ASSUME NEW r \in Registrants, life[r] = "idle", NEW s \in Card, r \in Discover(s),
               ~loose[r], ~(r = "sdk" /\ zombie)
        PROVE  FALSE
    <3>1. Shown(registry, r)
      BY <2>1, <2>2, DiscoverReadsEntries DEF Shown
    <3> QED BY <2>2, <3>1 DEF RegistryInv, Registrant, GoneOnceStopped
  <2>3. StoppedIsGone
    BY <2>2 DEF StoppedIsGone
  <2> QED BY <2>3 DEF RegistryInv, StopIsClean
<1> QED
  BY <1>1, RegistryInvariant, PTL

=============================================================================
