------------------------ MODULE DataContainerProofs ------------------------
(***************************************************************************)
(* Theorems about DataContainer for every set of visualizations, polling   *)
(* intervals and alignments, every bound and every choice of Calls and     *)
(* TickOutcomes: re-entrant slots included.                                *)
(***************************************************************************)
EXTENDS DataContainer, TLAPS

\* 0 and -1 are not intervals.
LEMMA NotIntervals == Direct \notin Intervals /\ None \notin Senders /\ Direct \in Senders
  BY DataContainerAssumption DEF Direct, None, Senders

\* Where connections and map agree, the receivers of a relay are the visualizations
\* the map sends to it, and a relay's only receiver is its only visualization.
LEMMA SoleReceiverIsAlone ==
  ASSUME ConnectionsMatch, NEW v \in Visualizations, Polled(v)
  PROVE  SoleReceiver(relayObjects[v]) <=>
           \A w \in Visualizations \ {v} : relayObjects[w] # relayObjects[v]
  <1> DEFINE i == relayObjects[v]
  <1>1. i \in Senders
    BY DEF Polled, Senders
  <1>2. receivers[i][v] = 1
    BY <1>1 DEF ConnectionsMatch
  <1>3. \A w \in Visualizations : receivers[i][w] = 0 <=> relayObjects[w] # i
    BY <1>1 DEF ConnectionsMatch
  <1>4. ASSUME SoleReceiver(i), NEW w \in Visualizations \ {v}
        PROVE  relayObjects[w] # i
    <2>1. PICK u \in Visualizations : /\ receivers[i][u] = 1
                                      /\ \A x \in Visualizations \ {u} : receivers[i][x] = 0
      BY <1>4 DEF SoleReceiver
    <2>2. u = v
      BY <2>1, <1>2
    <2> QED
      BY <2>1, <2>2, <1>3
  <1>5. ASSUME \A w \in Visualizations \ {v} : relayObjects[w] # i
        PROVE  SoleReceiver(i)
    BY <1>5, <1>2, <1>3 DEF SoleReceiver
  <1> QED
    BY <1>4, <1>5

\* After a visualization has left its sender, the relays kept are those the other
\* visualizations use.
LEMMA KeptRelaysAreUsed ==
  ASSUME TypeOK, SubscriptionsConsistent, NEW v \in Visualizations
  PROVE  /\ KeptRelays(v) \subseteq relays
         /\ \A i \in Intervals : i \in KeptRelays(v) <=>
              \E w \in Visualizations \ {v} : relayObjects[w] = i
  <1>1. CASE Polled(v)
    <2>1. SoleReceiver(relayObjects[v]) <=>
            \A w \in Visualizations \ {v} : relayObjects[w] # relayObjects[v]
      BY <1>1, SoleReceiverIsAlone DEF SubscriptionsConsistent
    <2> QED
      BY <1>1, <2>1 DEF KeptRelays, DropsRelay, SubscriptionsConsistent, RelaysMatch
  <1>2. CASE ~Polled(v)
    BY <1>2 DEF KeptRelays, DropsRelay, Polled, SubscriptionsConsistent, RelaysMatch
  <1> QED
    BY <1>1, <1>2

\* Leaving a sender removes exactly the connections of the one who leaves.
LEMMA LeftReceiversMatch ==
  ASSUME TypeOK, ConnectionsMatch, NEW v \in Visualizations
  PROVE  /\ LeftReceivers(v) \in [Senders -> [Visualizations -> Nat]]
         /\ \A s \in Senders, w \in Visualizations :
              LeftReceivers(v)[s][w] = IF w # v /\ relayObjects[w] = s THEN 1 ELSE 0
  BY DEF TypeOK, ConnectionsMatch, LeftReceivers

LEMMA LoopAfterDropType ==
  ASSUME TypeOK, NEW v \in Visualizations
  PROVE  LoopAfterDrop(v) \in Emissions
  BY DEF TypeOK, LoopAfterDrop, DropsRelay, Polled, Emissions

LEMMA LeftModelConnsType ==
  ASSUME TypeOK, NEW v \in Visualizations
  PROVE  LeftModelConns(v) \in Nat
  BY DEF TypeOK, LeftModelConns

-----------------------------------------------------------------------------
(* What a visualization does to the subscriptions when it joins or leaves *)

SubscriptionsType ==
  /\ relayObjects \in [Visualizations -> Senders \union {None}]
  /\ relays \in SUBSET Intervals /\ queued \in SUBSET relays
  /\ alignOf \in [Intervals -> Alignments]
  /\ receivers \in [Senders -> [Visualizations -> Nat]]
  /\ modelConns \in [Visualizations -> Nat]
  /\ em \in Emissions

LEMMA JoinKeeps ==
  ASSUME TypeOK, SubscriptionsConsistent,
         NEW v \in Visualizations, NEW i \in Senders, NEW a \in Alignments,
         Join(v, i, a)
  PROVE  SubscriptionsType' /\ SubscriptionsConsistent'
  <1> DEFINE kept  == KeptRelays(v)
             fresh == IF i = Direct THEN {} ELSE {i} \ kept
             base  == IF Connected(v) THEN LeftModelConns(v) ELSE modelConns[v]
  <1>0. /\ relayObjects' = [relayObjects EXCEPT ![v] = i]
        /\ relays' = kept \union fresh
        /\ queued' = (queued \intersect kept) \union fresh
        /\ alignOf' = [j \in Intervals |->
                         IF j \in fresh THEN a
                         ELSE IF j \in kept THEN alignOf[j] ELSE NoAlignment]
        /\ receivers' = [LeftReceivers(v) EXCEPT ![i][v] = @ + 1]
        /\ modelConns' = [modelConns EXCEPT ![v] = base + 1]
        /\ em' = LoopAfterDrop(v)
    BY DEF Join
  <1>1. /\ kept \subseteq relays
        /\ \A j \in Intervals : j \in kept <=> \E w \in Visualizations \ {v} : relayObjects[w] = j
    BY KeptRelaysAreUsed
  <1>2. /\ LeftReceivers(v) \in [Senders -> [Visualizations -> Nat]]
        /\ \A s \in Senders, w \in Visualizations :
             LeftReceivers(v)[s][w] = IF w # v /\ relayObjects[w] = s THEN 1 ELSE 0
    BY LeftReceiversMatch DEF SubscriptionsConsistent
  <1>3. base \in Nat
    BY LeftModelConnsType DEF TypeOK
  <1>4. fresh \subseteq Intervals
    BY DEF Senders, Direct
  <1>5. SubscriptionsType'
    <2>1. relayObjects' \in [Visualizations -> Senders \union {None}]
      BY <1>0 DEF TypeOK
    <2>2. relays' \in SUBSET Intervals /\ queued' \in SUBSET relays'
      BY <1>0, <1>1, <1>4 DEF TypeOK
    <2>3. alignOf' \in [Intervals -> Alignments]
      BY <1>0, DataContainerAssumption DEF TypeOK
    <2>4. receivers' \in [Senders -> [Visualizations -> Nat]]
      BY <1>0, <1>2
    <2>5. modelConns' \in [Visualizations -> Nat]
      BY <1>0, <1>3 DEF TypeOK
    <2>6. em' \in Emissions
      BY <1>0, LoopAfterDropType
    <2> QED
      BY <2>1, <2>2, <2>3, <2>4, <2>5, <2>6 DEF SubscriptionsType
  <1>6. ConnectionsMatch'
    <2> SUFFICES ASSUME NEW s \in Senders, NEW w \in Visualizations
                 PROVE  receivers'[s][w] = IF relayObjects'[w] = s THEN 1 ELSE 0
      BY DEF ConnectionsMatch
    <2>1. relayObjects'[w] = IF w = v THEN i ELSE relayObjects[w]
      BY <1>0 DEF TypeOK
    <2>2. receivers'[s][w] = IF s = i /\ w = v THEN LeftReceivers(v)[s][w] + 1
                                               ELSE LeftReceivers(v)[s][w]
      BY <1>0, <1>2
    <2> QED
      BY <2>1, <2>2, <1>2
  <1>7. RelaysMatch'
    <2> SUFFICES ASSUME NEW j \in Intervals
                 PROVE  j \in relays' <=> \E w \in Visualizations : relayObjects'[w] = j
      BY DEF RelaysMatch
    <2>1. \A w \in Visualizations : relayObjects'[w] = IF w = v THEN i ELSE relayObjects[w]
      BY <1>0 DEF TypeOK
    <2>2. j \in relays' <=> j \in kept \/ j = i
      BY <1>0, NotIntervals
    <2> QED
      BY <2>1, <2>2, <1>1
  <1> QED
    BY <1>5, <1>6, <1>7 DEF SubscriptionsConsistent

LEMMA LeaveKeeps ==
  ASSUME TypeOK, SubscriptionsConsistent, NEW v \in Visualizations, Leave(v),
         modelConns' \in [Visualizations -> Nat]
  PROVE  SubscriptionsType' /\ SubscriptionsConsistent' /\ usageTimer' = TRUE
  <1>0. /\ relayObjects' = [relayObjects EXCEPT ![v] = None]
        /\ relays' = KeptRelays(v)
        /\ queued' = queued \intersect KeptRelays(v)
        /\ alignOf' = [j \in Intervals |->
                         IF j \in KeptRelays(v) THEN alignOf[j] ELSE NoAlignment]
        /\ receivers' = LeftReceivers(v)
        /\ em' = LoopAfterDrop(v)
        /\ usageTimer' = TRUE
    BY DEF Leave
  <1>1. /\ KeptRelays(v) \subseteq relays
        /\ \A j \in Intervals : j \in KeptRelays(v) <=>
             \E w \in Visualizations \ {v} : relayObjects[w] = j
    BY KeptRelaysAreUsed
  <1>2. /\ LeftReceivers(v) \in [Senders -> [Visualizations -> Nat]]
        /\ \A s \in Senders, w \in Visualizations :
             LeftReceivers(v)[s][w] = IF w # v /\ relayObjects[w] = s THEN 1 ELSE 0
    BY LeftReceiversMatch DEF SubscriptionsConsistent
  <1>3. \A w \in Visualizations : relayObjects'[w] = IF w = v THEN None ELSE relayObjects[w]
    BY <1>0 DEF TypeOK
  <1>4. SubscriptionsType'
    <2>1. relayObjects' \in [Visualizations -> Senders \union {None}]
      BY <1>0 DEF TypeOK
    <2>2. relays' \in SUBSET Intervals /\ queued' \in SUBSET relays'
      BY <1>0, <1>1 DEF TypeOK
    <2>3. alignOf' \in [Intervals -> Alignments]
      BY <1>0, DataContainerAssumption DEF TypeOK
    <2>4. em' \in Emissions
      BY <1>0, LoopAfterDropType
    <2> QED
      BY <1>0, <1>2, <2>1, <2>2, <2>3, <2>4 DEF SubscriptionsType
  <1>5. ConnectionsMatch'
    BY <1>0, <1>2, <1>3, NotIntervals DEF ConnectionsMatch
  <1>6. RelaysMatch'
    BY <1>0, <1>1, <1>3, NotIntervals DEF RelaysMatch, Senders
  <1> QED
    BY <1>0, <1>4, <1>5, <1>6 DEF SubscriptionsConsistent

-----------------------------------------------------------------------------
(* The inductive invariant *)

\* Between and during emissions, a pending update has a check timer, or it is being
\* signalled right now.
ScheduledOrChecking == exists /\ dirty => scheduled \/ em.kind = "check"

IndInv == TypeOK /\ SubscriptionsConsistent /\ UsageTracked /\ ScheduledOrChecking

LEMMA InitIndInv == Init => IndInv
  <1> SUFFICES ASSUME Init PROVE IndInv
    OBVIOUS
  <1> USE DEF Init
  <1>1. NoEmission \in Emissions
    BY DEF NoEmission, Emissions
  <1>2. TypeOK
    BY <1>1, DataContainerAssumption DEF TypeOK
  <1>3. SubscriptionsConsistent
    BY NotIntervals DEF SubscriptionsConsistent, ConnectionsMatch, RelaysMatch, Senders
  <1>4. UsageTracked
    BY DataContainerAssumption DEF UsageTracked, Connected
  <1>5. ScheduledOrChecking
    BY DEF ScheduledOrChecking
  <1> QED
    BY <1>2, <1>3, <1>4, <1>5 DEF IndInv

\* The container is used exactly when some visualization is connected.
LEMMA UsedIfConnected ==
  ASSUME TypeOK, SubscriptionsConsistent
  PROVE  IsUsed <=> \E v \in Visualizations : Connected(v)
  <1>1. ReceiversOf(Direct) = {v \in Visualizations : relayObjects[v] = Direct}
    BY NotIntervals DEF ReceiversOf, SubscriptionsConsistent, ConnectionsMatch
  <1>2. relays # {} <=> \E v \in Visualizations : relayObjects[v] \in Intervals
    BY DEF SubscriptionsConsistent, RelaysMatch, TypeOK
  <1>3. \A v \in Visualizations : Connected(v) <=> relayObjects[v] \in Intervals \union {Direct}
    BY NotIntervals DEF TypeOK, Connected, Senders
  <1> QED
    BY <1>1, <1>2, <1>3 DEF IsUsed

-----------------------------------------------------------------------------
(* Every step preserves the invariant *)

\* The parts of the invariant a step leaves alone when it changes no subscription.
LEMMA SameSubscriptions ==
  ASSUME SubscriptionsConsistent, UNCHANGED subscriptions
  PROVE  SubscriptionsConsistent'
  BY DEF SubscriptionsConsistent, ConnectionsMatch, RelaysMatch, subscriptions

LEMMA SameUsage ==
  ASSUME UsageTracked, UNCHANGED <<exists, relayObjects, usageTimer>>
  PROVE  UsageTracked'
  BY DEF UsageTracked, Connected

LEMMA ConnectSourceKeeps ==
  ASSUME IndInv, NEW v \in Visualizations, NEW i \in Senders, NEW a \in Alignments,
         ConnectSource(v, i, a)
  PROVE  IndInv'
  <1>1. SubscriptionsType' /\ SubscriptionsConsistent'
    BY JoinKeeps DEF IndInv, ConnectSource
  <1>2. TypeOK'
    BY <1>1 DEF IndInv, ConnectSource, TypeOK, SubscriptionsType
  <1>3. UsageTracked'
    BY NotIntervals DEF ConnectSource, Join, IndInv, TypeOK, UsageTracked, Connected
  <1>4. em'.kind = em.kind
    BY DEF ConnectSource, Join, LoopAfterDrop, IndInv, TypeOK, Emissions
  <1>5. ScheduledOrChecking'
    BY <1>4 DEF ConnectSource, IndInv, ScheduledOrChecking
  <1> QED
    BY <1>1, <1>2, <1>3, <1>5 DEF IndInv

LEMMA ChangeIntervalKeeps ==
  ASSUME IndInv, NEW v \in Visualizations, NEW i \in Senders, NEW a \in Alignments,
         ChangeInterval(v, i, a)
  PROVE  IndInv'
  <1>1. SubscriptionsType' /\ SubscriptionsConsistent'
    BY JoinKeeps DEF IndInv, ChangeInterval
  <1>2. TypeOK'
    BY <1>1 DEF IndInv, ChangeInterval, TypeOK, SubscriptionsType, payload, clients
  <1>3. UsageTracked'
    BY NotIntervals DEF ChangeInterval, Join, IndInv, TypeOK, UsageTracked, Connected
  <1>4. em'.kind = em.kind
    BY DEF ChangeInterval, Join, LoopAfterDrop, IndInv, TypeOK, Emissions
  <1>5. ScheduledOrChecking'
    BY <1>4 DEF ChangeInterval, IndInv, ScheduledOrChecking, payload
  <1> QED
    BY <1>1, <1>2, <1>3, <1>5 DEF IndInv

LEMMA RequestSourceKeeps ==
  ASSUME IndInv, NEW v \in Visualizations, NEW i \in Senders, NEW a \in Alignments,
         NEW populated \in BOOLEAN, RequestSource(v, i, a, populated)
  PROVE  IndInv'
  <1>1. SubscriptionsType' /\ SubscriptionsConsistent'
    BY JoinKeeps DEF IndInv, RequestSource
  <1>2. TypeOK'
    <2>1. version' \in Nat
      BY DEF RequestSource, IndInv, TypeOK
    <2>2. seen' \in [Visualizations -> Nat]
      BY <2>1 DEF RequestSource, IndInv, TypeOK
    <2> QED
      BY <1>1, <2>1, <2>2 DEF IndInv, RequestSource, TypeOK, SubscriptionsType
  <1>3. UsageTracked'
    BY NotIntervals DEF RequestSource, Join, IndInv, TypeOK, UsageTracked, Connected
  <1>4. ScheduledOrChecking'
    BY DEF RequestSource, ScheduledOrChecking
  <1> QED
    BY <1>1, <1>2, <1>3, <1>4 DEF IndInv

LEMMA LeavingKeeps ==
  ASSUME IndInv, NEW v \in Visualizations, DisconnectSource(v) \/ DestroyVisualization(v)
  PROVE  IndInv'
  <1>1. modelConns' \in [Visualizations -> Nat] /\ Leave(v)
    BY LeftModelConnsType DEF DisconnectSource, DestroyVisualization, IndInv, TypeOK
  <1>2. SubscriptionsType' /\ SubscriptionsConsistent' /\ usageTimer' = TRUE
    BY <1>1, LeaveKeeps DEF IndInv
  <1>3. exists /\ UNCHANGED <<exists, payload, scheduled, clients, ub>>
    BY DEF DisconnectSource, DestroyVisualization
  <1>4. TypeOK'
    BY <1>2, <1>3 DEF IndInv, TypeOK, SubscriptionsType, payload, clients
  <1>5. UsageTracked'
    BY <1>2, <1>3 DEF UsageTracked
  <1>6. em'.kind = em.kind
    BY <1>1 DEF Leave, LoopAfterDrop, IndInv, TypeOK, Emissions
  <1>7. ScheduledOrChecking'
    BY <1>3, <1>6 DEF IndInv, ScheduledOrChecking, payload
  <1> QED
    BY <1>2, <1>4, <1>5, <1>7 DEF IndInv

LEMMA ClientCallKeeps == IndInv /\ ClientCall => IndInv'
  BY ConnectSourceKeeps, ChangeIntervalKeeps, RequestSourceKeeps, LeavingKeeps DEF ClientCall

LEMMA EngineCallKeeps == IndInv /\ EngineCall => IndInv'
  <1> SUFFICES ASSUME IndInv, EngineCall PROVE IndInv'
    OBVIOUS
  <1> USE DEF IndInv
  <1>1. ASSUME NEW v \in {version, version + 1}, NEW nowEmpty \in BOOLEAN, SetData(v, nowEmpty)
        PROVE  IndInv'
    <2>1. TypeOK'
      BY <1>1 DEF SetData, TypeOK, subscriptions, clients
    <2> QED
      BY <1>1, <2>1, SameSubscriptions, SameUsage
         DEF SetData, ScheduledOrChecking, subscriptions
  <1>2. ASSUME RemoveAllData PROVE IndInv'
    <2>0. version' \in Nat /\ empty' \in BOOLEAN /\ dirty' \in BOOLEAN
      <3>1. CASE empty
        BY <1>2, <3>1 DEF RemoveAllData, TypeOK
      <3>2. CASE ~empty
        BY <1>2, <3>2 DEF RemoveAllData, TypeOK
      <3> QED
        BY <3>1, <3>2
    <2>1. TypeOK'
      BY <1>2, <2>0 DEF RemoveAllData, TypeOK, subscriptions, clients
    <2> QED
      BY <1>2, <2>1, SameSubscriptions, SameUsage
         DEF RemoveAllData, ScheduledOrChecking, subscriptions
  <1>3. ASSUME SetModel PROVE IndInv'
    <2>0. version' \in Nat /\ model' \in Nat
      BY <1>3 DEF SetModel, TypeOK
    <2>1. modelSeen' \in [Visualizations -> Nat]
      BY <1>3 DEF SetModel, TypeOK
    <2>2. TypeOK'
      BY <1>3, <2>0, <2>1 DEF SetModel, TypeOK, subscriptions
    <2> QED
      BY <1>3, <2>2, SameSubscriptions, SameUsage
         DEF SetModel, ScheduledOrChecking, subscriptions
  <1>4. ASSUME ForceImmediateUpdate PROVE IndInv'
    <2>1. em' \in Emissions
      BY <1>4, NotIntervals DEF ForceImmediateUpdate, Emitting, Emissions, ReceiversOf
    <2>2. TypeOK'
      BY <1>4, <2>1 DEF ForceImmediateUpdate, TypeOK, subscriptions, clients
    <2> QED
      BY <1>4, <2>2, SameSubscriptions, SameUsage
         DEF ForceImmediateUpdate, ScheduledOrChecking, subscriptions
  <1> QED
    BY <1>1, <1>2, <1>3, <1>4 DEF EngineCall

LEMMA CheckForUpdateKeeps == IndInv /\ CheckForUpdate => IndInv'
  <1> SUFFICES ASSUME IndInv, CheckForUpdate PROVE IndInv'
    OBVIOUS
  <1> USE DEF IndInv, CheckForUpdate
  <1>1. em' \in Emissions
    BY NotIntervals DEF Emitting, Emissions, ReceiversOf, TypeOK
  <1>2. TypeOK'
    BY <1>1 DEF TypeOK, subscriptions, payload, clients
  <1>3. ScheduledOrChecking'
    BY DEF ScheduledOrChecking, Emitting, payload
  <1> QED
    BY <1>2, <1>3, SameSubscriptions, SameUsage DEF subscriptions

LEMMA TickKeeps ==
  ASSUME IndInv, NEW i \in Intervals, Tick(i)
  PROVE  IndInv'
  <1>1. PICK outcome \in TickOutcomes, v \in {version, version + 1} : RelayTick(i, outcome, v)
    BY DEF Tick
  <1> USE <1>1 DEF IndInv, RelayTick
  <1>2. em' \in Emissions
    BY DEF Emitting, Emissions, ReceiversOf, TypeOK, Senders
  <1>3. queued' \in SUBSET relays
    BY DEF TypeOK
  <1>4. TypeOK'
    BY <1>2, <1>3 DEF TypeOK, clients
  <1>5. SubscriptionsConsistent'
    BY DEF SubscriptionsConsistent, ConnectionsMatch, RelaysMatch
  <1>6. ScheduledOrChecking'
    BY DEF ScheduledOrChecking, Idle, NoEmission
  <1> QED
    BY <1>4, <1>5, <1>6, SameUsage

LEMMA EmissionStepKeeps == IndInv /\ EmissionStep => IndInv'
  <1> SUFFICES ASSUME IndInv, EmissionStep PROVE IndInv'
    OBVIOUS
  <1> USE DEF IndInv
  <1>1. ASSUME NEW v \in Visualizations, Deliver(v) PROVE IndInv'
    <2> USE <1>1 DEF Deliver
    <2>1. em' \in Emissions /\ em'.kind = em.kind
      BY DEF Emissions, TypeOK
    <2>2. TypeOK'
      BY <2>1 DEF TypeOK, subscriptions, payload
    <2>3. ScheduledOrChecking'
      BY <2>1 DEF ScheduledOrChecking, payload
    <2> QED
      BY <2>2, <2>3, SameSubscriptions, SameUsage DEF subscriptions
  <1>2. ASSUME NextRelay PROVE IndInv'
    <2> USE <1>2 DEF NextRelay
    <2>1. em' \in Emissions /\ em'.kind = em.kind
      <3>1. em \in Emissions
        BY DEF TypeOK
      <3>2. PICK i \in Intervals :
              em' = [em EXCEPT !.from = i, !.slot = {},
                       !.rest = IF em.kind = "check" THEN ToVisit \ {i} ELSE {},
                       !.to = IF em.kind = "force" \/ i \in queued THEN ReceiversOf(i) ELSE {}]
        OBVIOUS
      <3>3. i \in Senders /\ ReceiversOf(i) \in SUBSET Visualizations
        BY DEF Senders, ReceiversOf
      <3>4. ToVisit \in SUBSET Intervals
        BY <3>1 DEF ToVisit, Emissions, TypeOK
      <3> QED
        BY <3>1, <3>2, <3>3, <3>4 DEF Emissions
    <2>2. TypeOK'
      BY <2>1 DEF TypeOK, payload, clients
    <2>3. ScheduledOrChecking'
      BY <2>1 DEF ScheduledOrChecking, payload
    <2>4. SubscriptionsConsistent'
      BY DEF SubscriptionsConsistent, ConnectionsMatch, RelaysMatch
    <2> QED
      BY <2>2, <2>3, <2>4, SameUsage
  <1>3. ASSUME EndEmission PROVE IndInv'
    <2> USE <1>3 DEF EndEmission
    <2>1. em' \in Emissions
      BY DEF NoEmission, Emissions
    <2>2. TypeOK'
      BY <2>1 DEF TypeOK, clients
    <2>3. ScheduledOrChecking'
      BY DEF ScheduledOrChecking
    <2>4. SubscriptionsConsistent'
      BY DEF SubscriptionsConsistent, ConnectionsMatch, RelaysMatch
    <2> QED
      BY <2>2, <2>3, <2>4, SameUsage
  <1> QED
    BY <1>1, <1>2, <1>3 DEF EmissionStep

LEMMA UseDeletedRelayKeeps == IndInv /\ UseDeletedRelay => IndInv'
  <1> SUFFICES ASSUME IndInv, UseDeletedRelay PROVE IndInv'
    OBVIOUS
  <1> USE DEF IndInv, UseDeletedRelay
  <1>1. TypeOK'
    BY DEF TypeOK, subscriptions, payload, clients
  <1>2. ScheduledOrChecking'
    BY DEF ScheduledOrChecking, payload
  <1> QED
    BY <1>1, <1>2, SameSubscriptions, SameUsage DEF subscriptions

LEMMA CheckUsageKeeps == IndInv /\ CheckUsage => IndInv'
  <1> SUFFICES ASSUME IndInv, CheckUsage PROVE IndInv'
    OBVIOUS
  <1> USE DEF IndInv, CheckUsage
  <1>1. IsUsed <=> \E v \in Visualizations : Connected(v)
    BY UsedIfConnected
  <1>2. UNCHANGED <<relayObjects, relays, queued, alignOf, receivers, em, seen, scheduled, ub>>
    BY DEF subscriptions
  <1>3. modelConns' \in [Visualizations -> Nat] /\ modelSeen' \in [Visualizations -> Nat]
    <2>1. CASE IsUsed
      BY <2>1 DEF TypeOK, subscriptions
    <2>2. CASE ~IsUsed
      BY <2>2 DEF TypeOK
    <2> QED
      BY <2>1, <2>2
  <1>4. TypeOK'
    <2>1. CASE IsUsed
      BY <1>2, <1>3, <2>1 DEF TypeOK, payload
    <2>2. CASE ~IsUsed
      <3>1. /\ exists' \in BOOLEAN /\ empty' \in BOOLEAN
            /\ dirty' \in BOOLEAN /\ cached' \in BOOLEAN
        <4>1. /\ exists' = ~OnDemand /\ empty' = (empty \/ OnDemand)
              /\ dirty' = (dirty /\ ~OnDemand) /\ cached' = (cached /\ ~OnDemand)
          BY <2>2
        <4> HIDE DEF CheckUsage, IndInv
        <4> QED
          BY <4>1, Zenon
      <3>2. version' = version /\ model' = 0 /\ usageTimer' = FALSE
        BY <2>2
      <3>3. version' \in Nat /\ model' \in Nat
        BY <3>2 DEF TypeOK
      <3> QED
        BY <1>2, <1>3, <3>1, <3>2, <3>3 DEF TypeOK
    <2> QED
      BY <2>1, <2>2
  <1>5. SubscriptionsConsistent'
    BY <1>2 DEF SubscriptionsConsistent, ConnectionsMatch, RelaysMatch
  <1>6. UsageTracked'
    BY <1>1, <1>2, DataContainerAssumption DEF UsageTracked, Connected
  <1>7. ScheduledOrChecking'
    BY <1>2 DEF ScheduledOrChecking, payload
  <1> QED
    BY <1>4, <1>5, <1>6, <1>7

LEMMA NextKeeps == IndInv /\ [Next]_vars => IndInv'
  <1> SUFFICES ASSUME IndInv, [Next]_vars PROVE IndInv'
    OBVIOUS
  <1>1. CASE UNCHANGED vars
    <2>1. TypeOK'
      BY <1>1 DEF IndInv, TypeOK, vars, payload, subscriptions, clients
    <2>2. ScheduledOrChecking'
      BY <1>1 DEF IndInv, ScheduledOrChecking, vars, payload
    <2> QED
      BY <1>1, <2>1, <2>2, SameSubscriptions, SameUsage DEF IndInv, vars, subscriptions
  <1> QED
    BY <1>1, ClientCallKeeps, EngineCallKeeps, CheckForUpdateKeeps, TickKeeps,
       EmissionStepKeeps, UseDeletedRelayKeeps, CheckUsageKeeps DEF Next

-----------------------------------------------------------------------------
(* The theorems *)

LEMMA Invariance == Spec => []IndInv
  BY InitIndInv, NextKeeps, PTL DEF Spec

\* Every variable keeps its type: a relay that queues itself is a live one, and no
\* connection is counted below zero.
THEOREM Typing == Spec => []TypeOK
  <1>1. IndInv => TypeOK
    BY DEF IndInv
  <1> QED
    BY <1>1, Invariance, PTL

\* However visualizations share, change and leave relays, and whatever slots call
\* back, the map of visualizations, the Qt connections and the relays agree.
THEOREM Consistency == Spec => []SubscriptionsConsistent
  <1>1. IndInv => SubscriptionsConsistent
    BY DEF IndInv
  <1> QED
    BY <1>1, Invariance, PTL

\* A container is never removed while a visualization is connected, and a source
\* made on request is never forgotten.
THEOREM Usage == Spec => []UsageTracked
  <1>1. IndInv => UsageTracked
    BY DEF IndInv
  <1> QED
    BY <1>1, Invariance, PTL

\* No update waits without a check timer that will signal it.
THEOREM Scheduling == Spec => []PendingIsScheduled
  <1>1. IndInv => PendingIsScheduled
    BY DEF IndInv, ScheduledOrChecking, PendingIsScheduled, Idle, NoEmission
  <1> QED
    BY <1>1, Invariance, PTL

-----------------------------------------------------------------------------
(* The model of the data *)

\* A source with a model has data, every connected visualization listens, and has
\* heard of the model.
ModelInv ==
  /\ ~exists => model = 0
  /\ model # 0 => ~empty
  /\ \A v \in Visualizations : Connected(v) => modelConns[v] > 0
  /\ ModelCurrent

\* Who joins listens to the model; the others listen as before.
LEMMA JoinListens ==
  ASSUME TypeOK, NEW v \in Visualizations, NEW i \in Senders, NEW a \in Alignments, Join(v, i, a)
  PROVE  /\ modelConns'[v] > 0
         /\ Connected(v)'
         /\ \A w \in Visualizations \ {v} : modelConns'[w] = modelConns[w] /\ (Connected(w)' <=> Connected(w))
  <1> DEFINE base == IF Connected(v) THEN LeftModelConns(v) ELSE modelConns[v]
  <1>1. base \in Nat
    BY LeftModelConnsType DEF TypeOK
  <1>2. modelConns' = [modelConns EXCEPT ![v] = base + 1] /\ relayObjects' = [relayObjects EXCEPT ![v] = i]
    BY DEF Join
  <1> HIDE DEF base
  <1> QED
    BY <1>1, <1>2, NotIntervals DEF TypeOK, Connected

LEMMA ModelStep ==
  ASSUME IndInv, "emptiesModel" \notin Calls, ModelInv, [Next]_vars
  PROVE  ModelInv'
  <1> USE DEF IndInv, ModelInv
  <1>1. ASSUME NEW v \in Visualizations, NEW i \in Senders, NEW a \in Alignments, ConnectSource(v, i, a)
        PROVE  ModelInv'
    <2>1. Join(v, i, a) /\ exists /\ ~Connected(v)
      BY <1>1 DEF ConnectSource
    <2>2. UNCHANGED <<exists, model, empty>>
          /\ modelSeen' = IF ~empty /\ model # 0 THEN [modelSeen EXCEPT ![v] = model] ELSE modelSeen
      BY <1>1 DEF ConnectSource
    <2> QED
      BY <2>1, <2>2, JoinListens DEF ModelCurrent, TypeOK
  <1>2. ASSUME NEW v \in Visualizations, NEW i \in Senders, NEW a \in Alignments, ChangeInterval(v, i, a)
        PROVE  ModelInv'
    <2>1. Join(v, i, a) /\ Connected(v) /\ UNCHANGED <<exists, model, empty, modelSeen>>
      BY <1>2 DEF ChangeInterval, payload, clients
    <2> QED
      BY <2>1, JoinListens DEF ModelCurrent
  <1>3. ASSUME NEW v \in Visualizations, NEW i \in Senders, NEW a \in Alignments,
               NEW populated \in BOOLEAN, RequestSource(v, i, a, populated)
        PROVE  ModelInv'
    <2>1. Join(v, i, a) /\ ~exists /\ exists' /\ model' = model
      BY <1>3 DEF RequestSource
    <2> QED
      BY <2>1, JoinListens DEF ModelCurrent
  <1>4. ASSUME NEW v \in Visualizations, DisconnectSource(v) \/ DestroyVisualization(v)
        PROVE  ModelInv'
    <2>1. relayObjects' = [relayObjects EXCEPT ![v] = None]
      BY <1>4 DEF DisconnectSource, DestroyVisualization, Leave
    <2>2. UNCHANGED <<exists, model, empty, modelSeen>>
      BY <1>4 DEF DisconnectSource, DestroyVisualization, payload, clients
    <2>3. \A w \in Visualizations \ {v} : modelConns'[w] = modelConns[w]
      BY <1>4 DEF DisconnectSource, DestroyVisualization, TypeOK
    <2> QED
      BY <2>1, <2>2, <2>3 DEF ModelCurrent, Connected, TypeOK
  <1>5. ASSUME NEW v \in {version, version + 1}, NEW nowEmpty \in BOOLEAN, SetData(v, nowEmpty)
        PROVE  ModelInv'
    <2>1. UNCHANGED <<exists, model, modelConns, relayObjects, modelSeen>> /\ (empty' => empty \/ model = 0)
      BY <1>5 DEF SetData, subscriptions, clients
    <2> QED
      BY <2>1 DEF ModelCurrent, Connected
  <1>6. CASE RemoveAllData
    BY <1>6 DEF RemoveAllData, subscriptions, clients, ModelCurrent, Connected
  <1>7. CASE SetModel
    <2>1. /\ UNCHANGED <<modelConns, relayObjects, exists>> /\ exists /\ ~empty' /\ model' = model + 1
          /\ modelSeen' = [v \in Visualizations |-> IF v \in ModelListeners THEN model + 1 ELSE modelSeen[v]]
      BY <1>7 DEF SetModel, subscriptions
    <2> QED
      BY <2>1 DEF ModelCurrent, Connected, ModelListeners
  <1>8. CASE CheckUsage
    <2>1. UNCHANGED relayObjects
      BY <1>8 DEF CheckUsage, subscriptions
    <2>2. CASE IsUsed
      BY <1>8, <2>2 DEF CheckUsage, payload, subscriptions, ModelCurrent, Connected
    <2>3. CASE ~IsUsed
      <3>1. model' = 0 /\ \A v \in Visualizations : ~Connected(v)
        BY <1>8, <2>3, UsedIfConnected DEF CheckUsage
      <3> QED
        BY <2>1, <3>1 DEF ModelCurrent, Connected
    <2> QED
      BY <2>2, <2>3
  <1>9. ASSUME UNCHANGED <<exists, model, empty, relayObjects, modelConns, modelSeen>> PROVE ModelInv'
    BY <1>9 DEF ModelCurrent, Connected
  <1>12. CASE ForceImmediateUpdate \/ CheckForUpdate \/ UseDeletedRelay
    BY <1>9, <1>12 DEF ForceImmediateUpdate, CheckForUpdate, UseDeletedRelay, payload, subscriptions, clients
  <1>13. CASE EmissionStep
    BY <1>9, <1>13 DEF EmissionStep, Deliver, NextRelay, EndEmission, payload, subscriptions, clients
  <1>10. ASSUME NEW i \in Intervals, Tick(i) PROVE ModelInv'
    <2>1. UNCHANGED <<exists, model, relayObjects, modelConns, modelSeen>> /\ (empty' => empty)
      BY <1>10 DEF Tick, RelayTick, clients
    <2> QED
      BY <2>1 DEF ModelCurrent, Connected
  <1>11. CASE UNCHANGED vars
    BY <1>11 DEF vars, payload, subscriptions, clients, ModelCurrent, Connected
  <1> HIDE DEF IndInv, ModelInv
  <1> QED
    BY <1>1, <1>2, <1>3, <1>4, <1>5, <1>6, <1>7, <1>8, <1>10, <1>11, <1>12, <1>13 DEF Next, ClientCall, EngineCall

\* However a visualization comes and goes, the model it was told of is the one the
\* source has: no connection of a visualization that joins, changes its interval or
\* shares a relay is lost (connectVisualization, setModel).  The one way to lose the
\* model is an engine that takes the data away and not the model (removeAllData).
THEOREM ModelKnown == ASSUME "emptiesModel" \notin Calls PROVE Spec => []ModelCurrent
  <1>1. Init => ModelInv
    BY DEF Init, ModelInv, ModelCurrent, Connected
  <1>2. IndInv /\ IndInv' /\ ModelInv /\ [Next]_vars => ModelInv'
    BY ModelStep
  <1>3. ModelInv => ModelCurrent
    BY DEF ModelInv
  <1> QED
    BY <1>1, <1>2, <1>3, Invariance, PTL DEF Spec

-----------------------------------------------------------------------------
(* Direct visualizations *)

\* With no update pending, or one being signalled, a direct visualization has the last
\* version or is called next.
DirectInv ==
  ~dirty \/ em.kind = "check" =>
    \A v \in Visualizations : relayObjects[v] = Direct =>
      \/ seen[v] = version
      \/ em.kind \in {"check", "force"} /\ em.from = Direct /\ v \in em.to

\* A relay that is dropped changes who is called in no other way.
LEMMA LoopAfterDropSame ==
  ASSUME TypeOK, NEW v \in Visualizations
  PROVE  LoopAfterDrop(v).kind = em.kind /\ LoopAfterDrop(v).from = em.from /\ LoopAfterDrop(v).to = em.to
  BY DEF TypeOK, LoopAfterDrop, Emissions

LEMMA DirectStep ==
  ASSUME IndInv, Calls \intersect {"joinWhileDirty", "polledToDirect", "slotSetsData"} = {},
         DirectInv, [Next]_vars
  PROVE  DirectInv'
  <1> USE DEF IndInv
  <1>0. Idle => em.kind = "idle"
    BY DEF Idle, NoEmission
  <1>1. ASSUME NEW v \in Visualizations, NEW i \in Senders, NEW a \in Alignments, ConnectSource(v, i, a)
        PROVE  DirectInv'
    <2>1. /\ ~dirty /\ ~dirty' /\ version' = version /\ seen' = [seen EXCEPT ![v] = version]
          /\ relayObjects' = [relayObjects EXCEPT ![v] = i] /\ em' = LoopAfterDrop(v)
      BY <1>1 DEF ConnectSource, Join
    <2> QED
      BY <2>1, LoopAfterDropSame DEF DirectInv, TypeOK
  <1>2. ASSUME NEW v \in Visualizations, NEW i \in Senders, NEW a \in Alignments, ChangeInterval(v, i, a)
        PROVE  DirectInv'
    <2>1. /\ UNCHANGED <<dirty, version, seen>>
          /\ relayObjects' = [relayObjects EXCEPT ![v] = i] /\ em' = LoopAfterDrop(v)
      BY <1>2 DEF ChangeInterval, Join, payload, clients
    <2>2. i # Direct
      BY <1>2 DEF ChangeInterval
    <2> QED
      BY <2>1, <2>2, LoopAfterDropSame DEF DirectInv, TypeOK
  <1>3. ASSUME NEW v \in Visualizations, NEW i \in Senders, NEW a \in Alignments,
               NEW populated \in BOOLEAN, RequestSource(v, i, a, populated)
        PROVE  DirectInv'
    <2>1. /\ ~exists /\ seen' = [seen EXCEPT ![v] = version']
          /\ relayObjects' = [relayObjects EXCEPT ![v] = i]
      BY <1>3 DEF RequestSource, Join
    <2>2. \A w \in Visualizations : relayObjects[w] = None
      BY <2>1 DEF UsageTracked, Connected
    <2> QED
      BY <2>1, <2>2, NotIntervals DEF DirectInv, TypeOK
  <1>4. ASSUME NEW v \in Visualizations, DisconnectSource(v) \/ DestroyVisualization(v)
        PROVE  DirectInv'
    <2>1. /\ UNCHANGED <<dirty, version, seen>>
          /\ relayObjects' = [relayObjects EXCEPT ![v] = None] /\ em' = LoopAfterDrop(v)
      BY <1>4 DEF DisconnectSource, DestroyVisualization, Leave, payload, clients
    <2> QED
      BY <2>1, LoopAfterDropSame, NotIntervals DEF DirectInv, TypeOK
  <1>5. ASSUME NEW v \in {version, version + 1}, NEW nowEmpty \in BOOLEAN, SetData(v, nowEmpty)
        PROVE  DirectInv'
    BY <1>0, <1>5 DEF SetData, MayCall, DirectInv
  <1>6. CASE RemoveAllData
    <2>1. Idle /\ em' = em
      BY <1>6 DEF RemoveAllData, MayCall
    <2>2. CASE empty
      BY <1>6, <2>1, <2>2 DEF RemoveAllData, subscriptions, clients, DirectInv
    <2>3. CASE ~empty
      BY <1>0, <1>6, <2>1, <2>3 DEF RemoveAllData, DirectInv
    <2> QED
      BY <2>2, <2>3
  <1>7. CASE SetModel
    BY <1>0, <1>7 DEF SetModel, MayCall, DirectInv
  <1>8. ASSUME ForceImmediateUpdate \/ CheckForUpdate
        PROVE  DirectInv'
    <2>1. \A v \in Visualizations : relayObjects[v] = Direct => v \in ReceiversOf(Direct)
      BY NotIntervals DEF ReceiversOf, SubscriptionsConsistent, ConnectionsMatch
    <2>2. UNCHANGED <<version, seen, relayObjects>> /\ Idle
      BY <1>8 DEF ForceImmediateUpdate, CheckForUpdate, payload, subscriptions, clients
    <2>3. CASE ForceImmediateUpdate
      BY <1>0, <2>1, <2>2, <2>3 DEF ForceImmediateUpdate, DirectInv, Emitting
    <2>4. CASE CheckForUpdate
      BY <1>0, <2>1, <2>2, <2>4 DEF CheckForUpdate, DirectInv, Emitting, payload
    <2> QED
      BY <1>8, <2>3, <2>4
  <1>9. ASSUME NEW i \in Intervals, Tick(i) PROVE DirectInv'
    <2>1. PICK outcome \in TickOutcomes, v \in {version, version + 1} : RelayTick(i, outcome, v)
      BY <1>9 DEF Tick
    <2>2. /\ UNCHANGED <<seen, relayObjects>> /\ em'.kind # "check"
          /\ ~dirty' => ~dirty /\ version' = version
      <3>1. UNCHANGED <<seen, relayObjects>>
        BY <2>1 DEF RelayTick, clients
      <3>2. em'.kind # "check"
        <4>1. em' = em \/ em' = Emitting("tick", i, ReceiversOf(i), {})
          BY <2>1 DEF RelayTick
        <4> QED
          BY <1>0, <2>1, <4>1 DEF RelayTick, Emitting
      <3>3. ~dirty' => ~dirty /\ outcome # "sync"
        BY <2>1 DEF RelayTick
      <3>4. outcome # "sync" => version' = version
        BY <2>1 DEF RelayTick
      <3> QED
        BY <3>1, <3>2, <3>3, <3>4
    <2>3. em.kind = "idle"
      BY <1>0, <2>1 DEF RelayTick
    <2> QED
      BY <2>2, <2>3 DEF DirectInv
  <1>10. ASSUME NEW v \in Visualizations, Deliver(v) PROVE DirectInv'
    <2>1. /\ UNCHANGED <<dirty, version, relayObjects>>
          /\ em'.kind = em.kind /\ em'.from = em.from /\ em'.to = em.to \ {v}
      BY <1>10 DEF Deliver, payload, subscriptions, TypeOK, Emissions
    <2>2. \A w \in Visualizations : w # v => seen'[w] = seen[w]
      BY <1>10 DEF Deliver, TypeOK
    <2>3. seen[v] = version => seen'[v] = version
      BY <1>10 DEF Deliver, TypeOK
    <2>4. relayObjects[v] = Direct /\ em.from = Direct => seen'[v] = version
      <3> SUFFICES ASSUME relayObjects[v] = Direct, em.from = Direct PROVE seen'[v] = version
        OBVIOUS
      <3>1. receivers[em.from][v] > 0
        BY NotIntervals DEF SubscriptionsConsistent, ConnectionsMatch
      <3>2. em.from \notin em.dead
        BY NotIntervals DEF TypeOK, Emissions
      <3> QED
        BY <1>10, <3>1, <3>2 DEF Deliver, TypeOK
    <2> QED
      BY <2>1, <2>2, <2>3, <2>4 DEF DirectInv
  <1>11. CASE NextRelay
    <2>1. em.to = {} /\ UNCHANGED <<dirty, version, seen, relayObjects>> /\ em'.kind = em.kind
      BY <1>11 DEF NextRelay, payload, clients, TypeOK, Emissions
    <2> QED
      BY <2>1 DEF DirectInv
  <1>12. CASE EndEmission
    <2>1. em.to = {} /\ UNCHANGED <<version, seen, relayObjects>> /\ em'.kind = "idle"
      BY <1>12 DEF EndEmission, clients, NoEmission
    <2>2. ~dirty' => ~dirty \/ em.kind = "check"
      BY <1>12 DEF EndEmission
    <2> QED
      BY <2>1, <2>2 DEF DirectInv
  <1>13. CASE CheckUsage
    <2>1. UNCHANGED <<relayObjects, em, seen, version>>
      BY <1>13 DEF CheckUsage, subscriptions, payload
    <2>2. CASE IsUsed
      BY <1>13, <2>1, <2>2 DEF CheckUsage, payload, DirectInv
    <2>3. CASE ~IsUsed
      BY <2>1, <2>3, UsedIfConnected, NotIntervals DEF DirectInv, Connected
    <2> QED
      BY <2>2, <2>3
  <1>14. CASE UseDeletedRelay \/ UNCHANGED vars
    BY <1>14 DEF UseDeletedRelay, vars, payload, subscriptions, clients, DirectInv
  <1> HIDE DEF IndInv
  <1> QED
    BY <1>1, <1>2, <1>3, <1>4, <1>5, <1>6, <1>7, <1>8, <1>9, <1>10, <1>11, <1>12, <1>13, <1>14
       DEF Next, ClientCall, EngineCall, EmissionStep

\* When nothing is pending, every direct visualization has the last version, though
\* slots disconnect others, change relays or make the source again while they are called
\* (checkForUpdate, forceImmediateUpdate).  Three calls are left out: each loses an
\* update, to the one that joins, that polled, or that was called before the slot.
THEOREM DirectlyTold ==
  ASSUME Calls \intersect {"joinWhileDirty", "polledToDirect", "slotSetsData"} = {}
  PROVE  Spec => []DirectCurrent
  <1>1. Init => DirectInv
    BY NotIntervals DEF Init, DirectInv
  <1>2. IndInv /\ DirectInv /\ [Next]_vars => DirectInv'
    BY DirectStep
  <1>3. DirectInv => DirectCurrent
    BY DEF DirectInv, DirectCurrent, Idle, NoEmission
  <1> QED
    BY <1>1, <1>2, <1>3, Invariance, PTL DEF Spec

-----------------------------------------------------------------------------
(* The container implements the safety of Subscription: its steps are the *)
(* subscriber's, the publisher's, or change nothing a subscriber can see. *)

Subscribed == {v \in Visualizations : Connected(v)}

LEMMA JoinSubscribes ==
  ASSUME TypeOK, NEW v \in Visualizations, NEW i \in Senders, NEW a \in Alignments, Join(v, i, a)
  PROVE  Subscribed' = Subscribed \union {v}
  BY NotIntervals DEF Join, TypeOK, Subscribed, Connected

LEMMA SameSubscribed ==
  ASSUME UNCHANGED <<exists, relayObjects, version, seen>>
  PROVE  UNCHANGED Promise!vars
  BY DEF Promise!vars, Connected

\* An emission that has somebody left to call has a sender.
SenderKnown == em.to # {} => em.from \in Senders

LEMMA SenderStep ==
  ASSUME IndInv, SenderKnown, [Next]_vars
  PROVE  SenderKnown'
  <1> USE DEF IndInv
  <1>1. ASSUME NEW v \in Visualizations, em' = LoopAfterDrop(v) PROVE SenderKnown'
    BY <1>1, LoopAfterDropSame DEF SenderKnown
  <1>2. ASSUME NEW kind, NEW i \in Senders, NEW to, NEW rest, em' = Emitting(kind, i, to, rest) PROVE SenderKnown'
    BY <1>2 DEF SenderKnown, Emitting
  <1>3. CASE em' = em
    BY <1>3 DEF SenderKnown
  <1>4. CASE ClientCall
    BY <1>1, <1>4 DEF ClientCall, ConnectSource, ChangeInterval, RequestSource, Join,
                      DisconnectSource, DestroyVisualization, Leave
  <1>5. CASE EngineCall
    BY <1>2, <1>3, <1>5, NotIntervals DEF EngineCall, SetData, RemoveAllData, SetModel, ForceImmediateUpdate
  <1>6. CASE CheckForUpdate
    BY <1>2, <1>3, <1>6, NotIntervals DEF CheckForUpdate
  <1>7. ASSUME NEW i \in Intervals, Tick(i) PROVE SenderKnown'
    BY <1>2, <1>3, <1>7 DEF Tick, RelayTick, Senders
  <1>8. ASSUME NEW v \in Visualizations, Deliver(v) PROVE SenderKnown'
    BY <1>8 DEF Deliver, SenderKnown, TypeOK, Emissions
  <1>9. CASE NextRelay
    <2>1. em'.from \in Intervals
      BY <1>9 DEF NextRelay, TypeOK, Emissions
    <2> QED
      BY <2>1 DEF SenderKnown, Senders
  <1>10. CASE EndEmission
    BY <1>10 DEF EndEmission, NoEmission, SenderKnown
  <1>11. CASE UseDeletedRelay \/ CheckUsage \/ UNCHANGED vars
    BY <1>3, <1>11 DEF UseDeletedRelay, CheckUsage, vars
  <1> HIDE DEF IndInv
  <1> QED
    BY <1>4, <1>5, <1>6, <1>7, <1>8, <1>9, <1>10, <1>11 DEF Next, EmissionStep

LEMMA ImplementsStep ==
  ASSUME IndInv, SenderKnown, [Next]_vars
  PROVE  [Promise!Next]_(Promise!vars)
  <1> USE DEF IndInv
  <1>0. Subscribed = {v \in Visualizations : Connected(v)} /\ Subscribed' = {v \in Visualizations : Connected(v)'}
    BY DEF Subscribed
  <1>1. ASSUME NEW v \in Visualizations, NEW i \in Senders, NEW a \in Alignments, ConnectSource(v, i, a)
        PROVE  Promise!Next
    <2>1. /\ exists' = TRUE /\ exists /\ v \notin Subscribed /\ Subscribed' = Subscribed \union {v}
          /\ version' = version /\ seen' = [seen EXCEPT ![v] = version']
      BY <1>1, JoinSubscribes DEF ConnectSource, Subscribed
    <2>2. Promise!Subscribe(v)
      BY <1>0, <2>1 DEF Promise!Subscribe
    <2> QED
      BY <2>2 DEF Promise!Next
  <1>2. ASSUME NEW v \in Visualizations, NEW i \in Senders, NEW a \in Alignments, ChangeInterval(v, i, a)
        PROVE  UNCHANGED Promise!vars
    <2>1. /\ v \in Subscribed /\ Subscribed' = Subscribed \union {v}
          /\ UNCHANGED <<exists, version, seen>>
      BY <1>2, JoinSubscribes DEF ChangeInterval, Subscribed, payload, clients
    <2> QED
      BY <1>0, <2>1 DEF Promise!vars
  <1>3. ASSUME NEW v \in Visualizations, NEW i \in Senders, NEW a \in Alignments,
               NEW populated \in BOOLEAN, RequestSource(v, i, a, populated)
        PROVE  Promise!Next
    <2>1. /\ exists' = TRUE /\ ~exists /\ v \notin Subscribed /\ Subscribed' = Subscribed \union {v}
          /\ version' \in {version, version + 1} /\ seen' = [seen EXCEPT ![v] = version']
      BY <1>3, JoinSubscribes DEF RequestSource, UsageTracked, Subscribed
    <2>2. Promise!Subscribe(v)
      BY <1>0, <2>1 DEF Promise!Subscribe
    <2> QED
      BY <2>2 DEF Promise!Next
  <1>4. ASSUME NEW v \in Visualizations, DisconnectSource(v) \/ DestroyVisualization(v)
        PROVE  Promise!Next \/ UNCHANGED Promise!vars
    <2>1. UNCHANGED <<exists, version, seen>> /\ relayObjects' = [relayObjects EXCEPT ![v] = None]
      BY <1>4 DEF DisconnectSource, DestroyVisualization, Leave, payload, clients
    <2>2. Subscribed' = Subscribed \ {v}
      BY <2>1 DEF Subscribed, Connected, TypeOK
    <2>3. CASE v \in Subscribed
      <3>1. Promise!Unsubscribe(v)
        BY <1>0, <2>1, <2>2, <2>3 DEF Promise!Unsubscribe
      <3> QED
        BY <3>1 DEF Promise!Next
    <2>4. CASE v \notin Subscribed
      BY <1>0, <2>1, <2>2, <2>4 DEF Promise!vars
    <2> QED
      BY <2>3, <2>4
  <1>5. ASSUME exists, version' \in {version, version + 1}, UNCHANGED <<exists, relayObjects, seen>>
        PROVE  Promise!Next \/ UNCHANGED Promise!vars
    <2>1. CASE version' = version
      BY <1>5, <2>1, SameSubscribed
    <2>2. CASE version' = version + 1
      <3>1. Promise!Publish
        BY <1>5, <2>2 DEF Promise!Publish, Connected
      <3> QED
        BY <3>1 DEF Promise!Next
    <2> QED
      BY <1>5, <2>1, <2>2
  <1>6. ASSUME EngineCall PROVE Promise!Next \/ UNCHANGED Promise!vars
    <2>1. ASSUME NEW v \in {version, version + 1}, NEW nowEmpty \in BOOLEAN, SetData(v, nowEmpty)
          PROVE  Promise!Next \/ UNCHANGED Promise!vars
      BY <1>5, <2>1 DEF SetData, subscriptions, clients
    <2>2. CASE RemoveAllData
      <3>1. version' = version \/ version' = version + 1
        BY <2>2 DEF RemoveAllData
      <3> QED
        BY <1>5, <2>2, <3>1 DEF RemoveAllData, subscriptions, clients
    <2>3. CASE SetModel
      BY <1>5, <2>3 DEF SetModel, subscriptions
    <2>4. CASE ForceImmediateUpdate
      BY <2>4, SameSubscribed DEF ForceImmediateUpdate, subscriptions, clients
    <2> QED
      BY <1>6, <2>1, <2>2, <2>3, <2>4 DEF EngineCall
  <1>7. ASSUME NEW i \in Intervals, Tick(i) PROVE Promise!Next \/ UNCHANGED Promise!vars
    <2>1. exists /\ version' \in {version, version + 1} /\ UNCHANGED <<exists, relayObjects, seen>>
      BY <1>7 DEF Tick, RelayTick, clients
    <2> QED
      BY <1>5, <2>1
  <1>8. ASSUME NEW v \in Visualizations, Deliver(v) PROVE Promise!Next \/ UNCHANGED Promise!vars
    <2>1. UNCHANGED <<exists, relayObjects, version>>
      BY <1>8 DEF Deliver, payload, subscriptions
    <2>2. CASE seen' = seen
      BY <2>1, <2>2, SameSubscribed
    <2>3. CASE seen' # seen
      <3>1. receivers[em.from][v] > 0 /\ seen' = [seen EXCEPT ![v] = version]
        BY <1>8, <2>3 DEF Deliver
      <3>2. em.from \in Senders
        BY <1>8 DEF Deliver, SenderKnown
      <3>3. relayObjects[v] = em.from
        BY <3>1, <3>2 DEF SubscriptionsConsistent, ConnectionsMatch
      <3>4. Connected(v)
        BY <3>2, <3>3, NotIntervals DEF Connected
      <3>5. Promise!Tell(v)
        BY <1>8, <2>1, <2>3, <3>1, <3>4 DEF Promise!Tell, Connected, TypeOK
      <3> QED
        BY <3>5 DEF Promise!Next
    <2> QED
      BY <2>2, <2>3
  <1>9. CASE CheckForUpdate \/ UseDeletedRelay \/ UNCHANGED vars
    BY <1>9, SameSubscribed DEF CheckForUpdate, UseDeletedRelay, vars, payload, subscriptions, clients
  <1>10. CASE NextRelay \/ EndEmission
    BY <1>10, SameSubscribed DEF NextRelay, EndEmission, payload, clients
  <1>11. ASSUME CheckUsage PROVE Promise!Next \/ UNCHANGED Promise!vars
    <2>1. UNCHANGED <<relayObjects, version, seen>> /\ exists
      BY <1>11 DEF CheckUsage, subscriptions, payload
    <2>2. CASE exists' = exists
      BY <2>1, <2>2, SameSubscribed
    <2>3. CASE exists' # exists
      <3>1. ~IsUsed /\ OnDemand /\ exists' = FALSE
        BY <1>11, <2>3, DataContainerAssumption DEF CheckUsage, TypeOK
      <3>2. {v \in Visualizations : Connected(v)} = {}
        BY <3>1, UsedIfConnected
      <3>3. Promise!Retire
        BY <2>1, <3>1, <3>2 DEF Promise!Retire, Connected
      <3> QED
        BY <3>3 DEF Promise!Next
    <2> QED
      BY <2>2, <2>3
  <1> HIDE DEF IndInv
  <1> QED
    BY <1>1, <1>2, <1>3, <1>4, <1>6, <1>7, <1>8, <1>9, <1>10, <1>11 DEF Next, ClientCall, EmissionStep

\* What the container promises its subscribers, without the liveness
PromiseSafety == Promise!Init /\ [][Promise!Next]_(Promise!vars)

\* Whatever the clients and the engine do, a subscriber is told only of the latest
\* version and only while it is subscribed, versions are published one by one while
\* the source exists, and only an unused source made on request is retired.
THEOREM KeepsSafety == Spec => PromiseSafety
  <1>1. Init => Promise!Init
    BY DEF Init, Promise!Init, Connected
  <1>2. Init => SenderKnown
    BY DEF Init, NoEmission, SenderKnown
  <1>3. IndInv /\ SenderKnown /\ [Next]_vars => SenderKnown'
    BY SenderStep
  <1>4. IndInv /\ SenderKnown /\ [Next]_vars => [Promise!Next]_(Promise!vars)
    BY ImplementsStep
  <1> QED
    BY <1>1, <1>2, <1>3, <1>4, Invariance, PTL DEF Spec, PromiseSafety

=============================================================================
