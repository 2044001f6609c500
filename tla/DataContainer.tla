--------------------------- MODULE DataContainer ---------------------------
(***************************************************************************)
(* One DataContainer of a DataEngine (datacontainer.cpp,                   *)
(* private/datacontainer_p.cpp) and the part of the engine that drives it  *)
(* (connectSource, internalUpdateSource, the check timer of dataengine.cpp)*)
(*                                                                         *)
(* A container publishes versions of its data to visualizations.  A        *)
(* visualization is connected directly (interval 0: told of every change)  *)
(* or through a SignalRelay shared by all visualizations with the same     *)
(* polling interval.  Everything runs in one thread: a handler is one      *)
(* step, except that an emission calls the slots of the visualizations one *)
(* by one and a slot may call back into the engine.  "em" is the emission  *)
(* in progress; while there is none, the thread is in its event loop.      *)
(*                                                                         *)
(* The members that store the data on disk are in ContainerStorage.        *)
(***************************************************************************)
EXTENDS Integers

CONSTANTS
    Visualizations,       \* objects with a dataUpdated and a modelChanged slot
    Intervals,            \* effective polling intervals, 0 excluded
    Alignments,           \* Types::IntervalAlignment
    NoAlignment,
    OnDemand,             \* the source was created by sourceRequestEvent
    Calls,                \* what the clients do, see CallKinds
    TickOutcomes,         \* how the engine answers updateRequested, see below
    MaxVersion,           \* bound: versions of the data
    MaxModel,             \* bound: models set
    MaxModelConnections   \* bound: modelChanged connections of one object

\* The behaviours of the clients that a run may switch on.
CallKinds == {"joinWhileDirty",   \* connect for the first time while an update is pending
              "changesInterval",  \* connect again with another interval or alignment
              "polledToDirect",   \* change a polling interval to 0
              "emptiesModel",     \* remove the data of a source that has a model
              "slotCallsClient",  \* a dataUpdated slot connects or disconnects
              "slotSetsData",     \* a dataUpdated slot makes the engine set data
              "force"}            \* the engine forces immediate updates

\* "tooSoon": minimumPollingInterval has not elapsed; "sync": updateSourceEvent
\* sets the data; "later": it returns true without data; "none": the default.
OutcomeKinds == {"tooSoon", "sync", "later", "none"}

ASSUME DataContainerAssumption ==
    /\ Intervals \subseteq Nat \ {0}
    /\ NoAlignment \in Alignments
    /\ OnDemand \in BOOLEAN
    /\ Calls \subseteq CallKinds
    /\ TickOutcomes \subseteq OutcomeKinds
    /\ MaxVersion \in Nat
    /\ MaxModel \in Nat
    /\ MaxModelConnections \in Nat

Direct  == 0
None    == -1
Senders == Intervals \union {Direct}

VARIABLES
    \* the payload
    exists,        \* the container is in the engine's hash of sources
    version,       \* number of the last data set (0: none yet)
    empty,         \* data.isEmpty()
    dirty,
    cached,
    model,         \* number of the current model (0: none)
    \* the subscriptions
    relayObjects,  \* visualization -> its interval, Direct, or None: not a key
    relays,        \* intervals that have a SignalRelay
    queued,        \* relays whose m_queued is set
    alignOf,       \* m_align of the relays
    receivers,     \* Qt connections of dataUpdated: sender -> visualization -> how many
    modelConns,    \* Qt connections of the container's modelChanged
    \* timers
    scheduled,     \* the engine's check timer is running
    usageTimer,    \* checkUsageTimer is active
    \* the emission in progress, and what the visualizations were told
    em,
    seen,          \* last version delivered
    modelSeen,     \* last model delivered
    ub             \* a deleted relay was used

payload       == <<version, empty, dirty, cached, model>>
subscriptions == <<relayObjects, relays, queued, alignOf, receivers, modelConns>>
clients       == <<seen, modelSeen>>
vars == <<exists, payload, subscriptions, scheduled, usageTimer, em, clients, ub>>

-----------------------------------------------------------------------------
(* Emissions *)

\* kind: the function that emits; from: the sender of the signal; to: receivers
\* not called yet; slot: the receiver being called; rest: relays of the loop still
\* to visit; dead: relays the loop points to that have been deleted.
Emissions == [kind : {"idle", "check", "tick", "force"},
              from : Senders \union {None},
              to   : SUBSET Visualizations,
              slot : SUBSET Visualizations,
              rest : SUBSET Intervals,
              dead : SUBSET Intervals]

NoEmission == [kind |-> "idle", from |-> None, to |-> {}, slot |-> {},
               rest |-> {}, dead |-> {}]

Idle == em = NoEmission

Emitting(kind, from, to, rest) ==
    [kind |-> kind, from |-> from, to |-> to, slot |-> {}, rest |-> rest, dead |-> {}]

\* Calls into the engine come from the event loop or from a slot.
MayCall(kind) == ~ub /\ (Idle \/ (em.slot # {} /\ kind \in Calls))

ReceiversOf(s) == {v \in Visualizations : receivers[s][v] > 0}

\* Mutant: any receiver makes the relay look unused.
AnyReceiver(s) == \E v \in Visualizations : receivers[s][v] = 1

\* receiverCount() == 1
SoleReceiver(s) ==
    \E v \in Visualizations :
        /\ receivers[s][v] = 1
        /\ \A w \in Visualizations \ {v} : receivers[s][w] = 0

Connected(v) == relayObjects[v] # None
Polled(v)    == relayObjects[v] \in Intervals

\* Mutant: only one of the two ways to be connected is looked at.
HasDirectReceivers == ReceiversOf(Direct) # {}

\* isUsed
IsUsed == relays # {} \/ ReceiversOf(Direct) # {}

Init ==
    /\ exists = ~OnDemand
    /\ version = 0 /\ empty = TRUE /\ dirty = FALSE /\ cached = FALSE /\ model = 0
    /\ relayObjects = [v \in Visualizations |-> None]
    /\ relays = {} /\ queued = {}
    /\ alignOf = [i \in Intervals |-> NoAlignment]
    /\ receivers = [s \in Senders |-> [v \in Visualizations |-> 0]]
    /\ modelConns = [v \in Visualizations |-> 0]
    /\ scheduled = FALSE /\ usageTimer = FALSE
    /\ em = NoEmission
    /\ seen = [v \in Visualizations |-> 0]
    /\ modelSeen = [v \in Visualizations |-> 0]
    /\ ub = FALSE

-----------------------------------------------------------------------------
(* Connecting and disconnecting visualizations *)

\* The visualization is the only receiver of its relay: the relay is deleted.
DropsRelay(v) == Polled(v) /\ SoleReceiver(relayObjects[v])

KeptRelays(v) == IF DropsRelay(v) THEN relays \ {relayObjects[v]} ELSE relays

\* Mutant: the visualization stays connected to the sender it leaves.
StaleReceivers(v) == receivers

\* Leaving the current sender.  Where the relay is deleted, nothing disconnects
\* the visualization from the container's modelChanged.
LeftReceivers(v) ==
    [s \in Senders |-> IF s = relayObjects[v]
                         THEN [receivers[s] EXCEPT ![v] = 0]
                         ELSE receivers[s]]
LeftModelConns(v) == IF DropsRelay(v) THEN modelConns[v] ELSE 0

\* The loop over the relays holds a pointer to the deleted one.
LoopAfterDrop(v) ==
    IF DropsRelay(v) /\ relayObjects[v] \in em.rest \union {em.from}
      THEN [em EXCEPT !.dead = @ \union {relayObjects[v]}]
      ELSE em

\* connectVisualization, past its early returns
Join(v, i, a) ==
    LET kept  == KeptRelays(v)
        fresh == IF i = Direct THEN {} ELSE {i} \ kept
        base  == IF Connected(v) THEN LeftModelConns(v) ELSE modelConns[v]
    IN  /\ relayObjects' = [relayObjects EXCEPT ![v] = i]
        /\ relays' = kept \union fresh
        /\ queued' = (queued \intersect kept) \union fresh
        /\ alignOf' = [j \in Intervals |->
                         IF j \in fresh THEN a
                         ELSE IF j \in kept THEN alignOf[j] ELSE NoAlignment]
        /\ receivers' = [LeftReceivers(v) EXCEPT ![i][v] = @ + 1]
        /\ base < MaxModelConnections
        /\ modelConns' = [modelConns EXCEPT ![v] = base + 1]
        /\ em' = LoopAfterDrop(v)

\* disconnectVisualization
Leave(v) ==
    LET kept == KeptRelays(v)
    IN  /\ relayObjects' = [relayObjects EXCEPT ![v] = None]
        /\ relays' = kept
        /\ queued' = queued \intersect kept
        /\ alignOf' = [j \in Intervals |-> IF j \in kept THEN alignOf[j] ELSE NoAlignment]
        /\ receivers' = LeftReceivers(v)
        /\ em' = LoopAfterDrop(v)
        /\ usageTimer' = TRUE

\* DataEngine::connectSource for a source the engine has and an object that is not
\* connected: whatever data there is, is delivered in the call, and dirty reset.
ConnectSource(v, i, a) ==
    /\ MayCall("slotCallsClient")
    /\ exists /\ ~Connected(v)
    /\ dirty => "joinWhileDirty" \in Calls
    /\ Join(v, i, a)
    /\ seen' = [seen EXCEPT ![v] = version]
    /\ modelSeen' = IF ~empty /\ model # 0 THEN [modelSeen EXCEPT ![v] = model] ELSE modelSeen
    /\ dirty' = (dirty /\ empty)
    /\ UNCHANGED <<exists, version, empty, cached, model, scheduled, usageTimer, ub>>

\* The same call for an object that is connected already: it changes the interval
\* or the alignment, and nothing is delivered.
ChangeInterval(v, i, a) ==
    /\ MayCall("slotCallsClient")
    /\ exists /\ Connected(v)
    /\ IF Polled(v) THEN ~(relayObjects[v] = i /\ alignOf[i] = a) ELSE i # Direct
    /\ "changesInterval" \in Calls
    /\ i = Direct => "polledToDirect" \in Calls
    /\ Join(v, i, a)
    /\ UNCHANGED <<exists, payload, scheduled, usageTimer, clients, ub>>

\* The call for a source the engine has not: requestSource lets sourceRequestEvent
\* make it, with data or empty, and the visualization joins the new container.
RequestSource(v, i, a, populated) ==
    /\ MayCall("slotCallsClient")
    /\ ~exists
    /\ exists' = TRUE
    /\ populated => version < MaxVersion
    /\ version' = IF populated THEN version + 1 ELSE version
    /\ empty' = ~populated
    /\ dirty' = FALSE
    /\ scheduled' = TRUE
    /\ Join(v, i, a)
    /\ seen' = [seen EXCEPT ![v] = version']
    /\ UNCHANGED <<cached, model, usageTimer, modelSeen, ub>>

DisconnectSource(v) ==
    /\ MayCall("slotCallsClient")
    /\ exists
    /\ modelConns' = [modelConns EXCEPT ![v] = LeftModelConns(v)]
    /\ Leave(v)
    /\ UNCHANGED <<exists, payload, scheduled, clients, ub>>

\* The visualization is destroyed: destroyed() calls disconnectVisualization and
\* Qt drops every connection of the object.
DestroyVisualization(v) ==
    /\ MayCall("slotCallsClient")
    /\ em.slot # {v}
    /\ exists /\ Connected(v)
    /\ modelConns' = [modelConns EXCEPT ![v] = 0]
    /\ Leave(v)
    /\ UNCHANGED <<exists, payload, scheduled, clients, ub>>

-----------------------------------------------------------------------------
(* The engine changes the data *)

\* DataEngine::setData marks the container whether or not the value is a new one.
SetData(v, nowEmpty) ==
    /\ MayCall("slotSetsData")
    /\ exists
    /\ v \in {version, version + 1} /\ v \in 1..MaxVersion
    /\ nowEmpty => v = version + 1 /\ (model = 0 \/ "emptiesModel" \in Calls)
    /\ version' = v
    /\ empty' = (IF v = version THEN empty ELSE nowEmpty)
    /\ dirty' = TRUE
    /\ scheduled' = TRUE
    /\ UNCHANGED <<exists, cached, model, subscriptions, usageTimer, em, clients, ub>>

\* Mutant: nobody schedules the check.
RemoveAllDataQuietly ==
    /\ MayCall("slotSetsData")
    /\ exists /\ ~empty
    /\ version < MaxVersion
    /\ version' = version + 1 /\ empty' = TRUE /\ dirty' = TRUE
    /\ UNCHANGED <<exists, cached, model, subscriptions, scheduled, usageTimer, em, clients, ub>>

RemoveAllData ==
    /\ MayCall("slotSetsData")
    /\ exists
    /\ model = 0 \/ "emptiesModel" \in Calls
    /\ scheduled' = TRUE
    /\ version < MaxVersion
    /\ IF empty THEN UNCHANGED <<version, empty, dirty>>
                ELSE version' = version + 1 /\ empty' = TRUE /\ dirty' = TRUE
    /\ UNCHANGED <<exists, cached, model, subscriptions, usageTimer, em, clients, ub>>

\* Mutant: only the direct visualizations hear of a model.
DirectListeners == ReceiversOf(Direct)

\* The objects connected to the container's modelChanged
ModelListeners == {v \in Visualizations : modelConns[v] > 0}

\* DataEngine::setModel with a model: the HasModel key is set, then the container
\* announces the model on every modelChanged connection.
SetModel ==
    /\ MayCall("slotSetsData")
    /\ exists
    /\ model < MaxModel /\ version < MaxVersion
    /\ version' = version + 1 /\ empty' = FALSE /\ dirty' = TRUE
    /\ scheduled' = TRUE
    /\ model' = model + 1
    /\ modelSeen' = [v \in Visualizations |->
                       IF v \in ModelListeners THEN model + 1 ELSE modelSeen[v]]
    /\ UNCHANGED <<exists, cached, subscriptions, usageTimer, em, seen, ub>>

-----------------------------------------------------------------------------
(* Emissions: who is told, slot by slot *)

\* The engine's check timer fires: checkForUpdate calls the direct receivers first,
\* and copies the relays there are when they have been called.
CheckForUpdate ==
    /\ ~ub /\ Idle /\ scheduled
    /\ scheduled' = FALSE
    /\ em' = IF exists /\ dirty THEN Emitting("check", Direct, ReceiversOf(Direct), {}) ELSE em
    /\ UNCHANGED <<exists, payload, subscriptions, usageTimer, clients, ub>>

\* Mutant: the timer of a deleted relay still fires.
TickDeleted(i, outcome, v) ==
    /\ ~ub /\ Idle /\ exists /\ i \notin relays
    /\ queued' = queued \union {i}
    /\ UNCHANGED <<exists, payload, relayObjects, relays, alignOf, receivers, modelConns,
                   scheduled, usageTimer, em, clients, ub>>

\* The timer of a relay fires: updateRequested, the engine's answer, hasUpdates.
\* A fake update ("tooSoon") sets cached and hasUpdates takes it back at once.
RelayTick(i, outcome, v) ==
    /\ ~ub /\ Idle /\ exists /\ i \in relays
    /\ outcome \in TickOutcomes
    /\ v \in {version} \union (IF outcome = "sync" THEN {version + 1} ELSE {})
    /\ v <= MaxVersion
    /\ version' = v
    /\ empty' = (empty /\ outcome # "sync")
    /\ outcome = "sync" => v > version \/ ~empty
    /\ dirty' = (dirty \/ outcome = "sync")
    /\ scheduled' = (scheduled \/ outcome \in {"sync", "later"})
    /\ cached' = (cached /\ outcome # "tooSoon" /\ dirty')
    /\ IF cached \/ outcome = "tooSoon" \/ dirty'
         THEN em' = Emitting("tick", i, ReceiversOf(i), {}) /\ UNCHANGED queued
         ELSE queued' = queued \union {i} /\ UNCHANGED em
    /\ UNCHANGED <<exists, model, relayObjects, relays, alignOf, receivers, modelConns,
                   usageTimer, clients, ub>>

\* Mutant: dirty is reset before it is looked at.
ForceAfterReset ==
    /\ ~ub /\ Idle /\ exists /\ IsUsed
    /\ "force" \in Calls
    /\ dirty' = FALSE
    /\ em' = Emitting("force", Direct, {}, {})
    /\ UNCHANGED <<exists, version, empty, cached, model, subscriptions, scheduled,
                   usageTimer, clients, ub>>

\* forceImmediateUpdateOfAllVisualizations
ForceImmediateUpdate ==
    /\ ~ub /\ Idle /\ exists /\ IsUsed
    /\ "force" \in Calls
    /\ dirty' = FALSE
    /\ em' = Emitting("force", Direct, IF dirty THEN ReceiversOf(Direct) ELSE {}, {})
    /\ UNCHANGED <<exists, version, empty, cached, model, subscriptions, scheduled,
                   usageTimer, clients, ub>>

\* The signal calls the next receiver, unless it was disconnected meanwhile.
Deliver(v) ==
    /\ ~ub /\ v \in em.to
    /\ LET called == receivers[em.from][v] > 0 /\ em.from \notin em.dead
       IN  /\ seen' = IF called THEN [seen EXCEPT ![v] = version] ELSE seen
           /\ em' = [em EXCEPT !.to = @ \ {v}, !.slot = IF called THEN {v} ELSE {}]
    /\ UNCHANGED <<exists, payload, subscriptions, scheduled, usageTimer, modelSeen, ub>>

\* A loop visits the relays in the order of QMap.
IsFirst(i, S) == i \in S /\ \A j \in S : i <= j

\* The relays a loop visits next: checkForUpdate goes through the copy it has made
\* after the direct emission, forceImmediateUpdate through the live map from where
\* it stands.
ToVisit == CASE em.kind = "force"                      -> {i \in relays : i > em.from}
             [] em.kind = "check" /\ em.from = Direct  -> relays
             [] OTHER                                  -> em.rest

\* A signal has called its last receiver and the relay it came from is touched once
\* more: m_queued is reset, or the loop's iterator advances from it.
UsesDeadRelay == em.from \in em.dead

\* checkForUpdate calls checkQueueing of the next relay of its copy, which a slot of
\* an earlier relay has deleted.
VisitsDeadRelay ==
    /\ em.kind = "check" /\ ~UsesDeadRelay
    /\ \E i \in em.dead : IsFirst(i, em.rest)

NextRelay ==
    /\ ~ub /\ em.kind \in {"check", "force"} /\ em.to = {}
    /\ ~UsesDeadRelay
    /\ \E i \in Intervals \ em.dead :
           /\ IsFirst(i, ToVisit)
           /\ em' = [em EXCEPT !.from = i, !.slot = {},
                       !.rest = IF em.kind = "check" THEN ToVisit \ {i} ELSE {},
                       !.to = IF em.kind = "force" \/ i \in queued THEN ReceiversOf(i) ELSE {}]
    /\ queued' = IF em.kind = "check" THEN queued \ {em.from} ELSE queued
    /\ UNCHANGED <<exists, payload, relayObjects, relays, alignOf, receivers, modelConns,
                   scheduled, usageTimer, clients, ub>>

\* The loop is over; checkForUpdate resets dirty last.
EndEmission ==
    /\ ~ub /\ ~Idle /\ em.to = {}
    /\ ~UsesDeadRelay
    /\ em.kind \in {"check", "force"} => ToVisit = {}
    /\ queued' = IF em.kind \in {"check", "tick"} THEN queued \ {em.from} ELSE queued
    /\ dirty' = (dirty /\ em.kind # "check")
    /\ em' = NoEmission
    /\ UNCHANGED <<exists, version, empty, cached, model, relayObjects, relays, alignOf,
                   receivers, modelConns, scheduled, usageTimer, clients, ub>>

\* A relay that was deleted is used: its behaviour is undefined from here on.
UseDeletedRelay ==
    /\ ~ub /\ ~Idle /\ em.to = {}
    /\ UsesDeadRelay \/ VisitsDeadRelay
    /\ ub' = TRUE
    /\ UNCHANGED <<exists, payload, subscriptions, scheduled, usageTimer, em, clients>>

-----------------------------------------------------------------------------
(* The usage timer *)

\* Unused: the model is taken back, and becameUnused makes the engine remove a
\* source that sourceRequestEvent had made.
CheckUsage ==
    /\ ~ub /\ Idle /\ exists /\ usageTimer
    /\ usageTimer' = FALSE
    /\ IF IsUsed
         THEN UNCHANGED <<exists, payload, subscriptions, scheduled, modelSeen>>
         ELSE /\ model' = 0
              /\ modelSeen' = [v \in Visualizations |->
                                 IF model # 0 /\ v \in ModelListeners THEN 0 ELSE modelSeen[v]]
              /\ exists' = ~OnDemand
              /\ empty' = (empty \/ OnDemand)
              /\ dirty' = (dirty /\ ~OnDemand)
              /\ cached' = (cached /\ ~OnDemand)
              /\ modelConns' = IF OnDemand THEN [v \in Visualizations |-> 0] ELSE modelConns
              /\ UNCHANGED <<version, relayObjects, relays, queued, alignOf, receivers, scheduled>>
    /\ UNCHANGED <<em, seen, ub>>

-----------------------------------------------------------------------------
(* The specification *)

\* Steps the thread takes by itself, once in an emission
EmissionStep ==
    \/ \E v \in Visualizations : Deliver(v)
    \/ NextRelay
    \/ EndEmission

Tick(i) == \E outcome \in TickOutcomes, v \in {version, version + 1} : RelayTick(i, outcome, v)

ClientCall ==
    \E v \in Visualizations :
        \/ \E i \in Senders, a \in Alignments :
              \/ ConnectSource(v, i, a)
              \/ ChangeInterval(v, i, a)
              \/ \E populated \in BOOLEAN : RequestSource(v, i, a, populated)
        \/ DisconnectSource(v)
        \/ DestroyVisualization(v)

EngineCall ==
    \/ \E v \in {version, version + 1}, nowEmpty \in BOOLEAN : SetData(v, nowEmpty)
    \/ RemoveAllData
    \/ SetModel
    \/ ForceImmediateUpdate

Next ==
    \/ ClientCall
    \/ EngineCall
    \/ CheckForUpdate
    \/ \E i \in Intervals : Tick(i)
    \/ EmissionStep
    \/ UseDeletedRelay
    \/ CheckUsage

Spec == Init /\ [][Next]_vars

\* A loop over receivers runs to its end, and Qt serves every timer that is due,
\* whatever other events arrive in between.
Fairness ==
    /\ WF_vars(EmissionStep)
    /\ SF_vars(CheckForUpdate)
    /\ SF_vars(CheckUsage)
    /\ \A i \in Intervals : SF_vars(Tick(i))

FairSpec == Spec /\ Fairness

-----------------------------------------------------------------------------
(* Properties *)

TypeOK ==
    /\ exists \in BOOLEAN /\ empty \in BOOLEAN /\ dirty \in BOOLEAN /\ cached \in BOOLEAN
    /\ version \in Nat /\ model \in Nat
    /\ relayObjects \in [Visualizations -> Senders \union {None}]
    /\ relays \in SUBSET Intervals /\ queued \in SUBSET relays
    /\ alignOf \in [Intervals -> Alignments]
    /\ receivers \in [Senders -> [Visualizations -> Nat]]
    /\ modelConns \in [Visualizations -> Nat]
    /\ scheduled \in BOOLEAN /\ usageTimer \in BOOLEAN
    /\ em \in Emissions
    /\ seen \in [Visualizations -> Nat] /\ modelSeen \in [Visualizations -> Nat]
    /\ ub \in BOOLEAN

\* The map of visualizations and the Qt connections agree: an object is called once
\* per update by the sender the map names, and by no other.
ConnectionsMatch ==
    \A s \in Senders, v \in Visualizations :
        receivers[s][v] = IF relayObjects[v] = s THEN 1 ELSE 0

\* A relay lives as long as a visualization is registered at it, and no longer.
RelaysMatch ==
    \A i \in Intervals : i \in relays <=> \E v \in Visualizations : relayObjects[v] = i

\* Sharing, leaving and changing relays, also from inside a slot, keeps the map,
\* the connections and the relays together: "receiverCount() == 1" frees a relay
\* exactly when its last visualization leaves (datacontainer.cpp 113-116, 315-317).
SubscriptionsConsistent == ConnectionsMatch /\ RelaysMatch

\* The container is never removed under a connected visualization, and a source made
\* on request that nobody uses has its usage timer running: it cannot be left
\* behind (checkUsage, timerEvent).
UsageTracked ==
    /\ ~exists => \A v \in Visualizations : ~Connected(v)
    /\ OnDemand /\ exists /\ ~usageTimer => \E v \in Visualizations : Connected(v)

\* When no update is pending, a directly connected visualization has the last
\* version (setData: "marks this source as needing to signal an update").
DirectCurrent ==
    Idle /\ ~dirty => \A v \in Visualizations : relayObjects[v] = Direct => seen[v] = version

\* A pending update has a check timer that will signal it (scheduleSourcesUpdated).
PendingIsScheduled == Idle /\ exists /\ dirty => scheduled

\* A connected visualization was told of the model the source has now.
ModelCurrent ==
    model # 0 => \A v \in Visualizations : Connected(v) => modelSeen[v] = model

\* checkForUpdate calls checkQueueing of no relay that was deleted since it copied the
\* relays (its comment: "copy as checkQueueing can result in deletion of the relay").
CopiedRelaysLive == ub => ~VisitsDeadRelay

\* What the container promises its clients, whatever the way they poll.
Promise == INSTANCE Subscription
    WITH Subscribers <- Visualizations,
         alive <- exists,
         subscribers <- {v \in Visualizations : Connected(v)},
         latest <- version,
         told <- seen,
         Retires <- OnDemand

\* The container implements that promise.
KeepsPromise == Promise!Spec

=============================================================================
