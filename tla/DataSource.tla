----------------------------- MODULE DataSource -----------------------------
(***************************************************************************)
(* DataSource, the QML element that shows sources of an engine             *)
(* (declarativeimports/datasource.cpp), composed with the engines it is    *)
(* connected to.  sourceAdded reaches a DataSource through the event loop, *)
(* sourceRemoved directly; the application around it calls its methods     *)
(* from the event loop, or from its own slot of sourceRemoved.             *)
(***************************************************************************)
EXTENDS DataEngine

CONSTANTS
    NoEngine,
    Careful            \* the application sets the engine first and once, and connects
                       \* nothing from its slot of sourceRemoved

ASSUME DataSourceAssumption ==
    /\ NoEngine \notin Engines
    /\ Careful \in BOOLEAN

DataSources == Visualizations

VARIABLES
    dataEngine,          \* m_dataEngine
    loaded,              \* engines the DataSource, a DataEngineConsumer, has a reference to
    connectedSources,    \* m_connectedSources
    listed,              \* m_sources
    queuedUpdate,        \* a sourceAdded is queued for updateSources
    data                 \* m_data: name -> engine the data shown came from, or NoEngine

clientVars == <<dataEngine, loaded, connectedSources, listed, queuedUpdate, data>>
vars == <<engineVars, clientVars>>

TypeOK ==
    /\ EngineTypeOK
    /\ dataEngine \in [DataSources -> Engines \union {NoEngine}]
    /\ loaded \in [DataSources -> SUBSET Engines]
    /\ connectedSources \in [DataSources -> SUBSET Names]
    /\ listed \in [DataSources -> SUBSET Names]
    /\ queuedUpdate \in [DataSources -> BOOLEAN]
    /\ data \in [DataSources -> [Names -> Engines \union {NoEngine}]]

Init ==
    /\ EngineInit
    /\ dataEngine = [c \in DataSources |-> NoEngine]
    /\ loaded = [c \in DataSources |-> {}]
    /\ connectedSources = [c \in DataSources |-> {}]
    /\ listed = [c \in DataSources |-> {}]
    /\ queuedUpdate = [c \in DataSources |-> FALSE]
    /\ data = [c \in DataSources |-> [n \in Names |-> NoEngine]]

\* The DataSources the engine's signals reach
Audience(e) == {c \in DataSources : dataEngine[c] = e}

-----------------------------------------------------------------------------
(* sourceAdded and sourceRemoved *)

\* sourceAdded(n) for some n of S is posted to the DataSources of the engine.
TellAdded(e, S) ==
    queuedUpdate' = [c \in DataSources |-> queuedUpdate[c] \/ (c \in Audience(e) /\ S # {})]

\* updateSources, when the event loop gets to it
UpdateSources(c) ==
    /\ queuedUpdate[c]
    /\ queuedUpdate' = [queuedUpdate EXCEPT ![c] = FALSE]
    /\ listed' = [listed EXCEPT ![c] = IF dataEngine[c] = NoEngine THEN {} ELSE sources[dataEngine[c]]]
    /\ UNCHANGED <<engineVars, dataEngine, loaded, connectedSources, data>>

\* Mutant: removeSource clears what is connected only.
TellRemovedIfConnected(e, S, again) ==
    /\ listed' = [c \in DataSources |-> IF c \in Audience(e) THEN sources[e] ELSE listed[c]]
    /\ connectedSources' = [c \in DataSources |->
            IF c \in Audience(e) THEN connectedSources[c] \ S ELSE connectedSources[c]]
    /\ data' = [c \in DataSources |-> [n \in Names |->
                  IF c \in Audience(e) /\ n \in S \intersect connectedSources[c] THEN NoEngine
                  ELSE data[c][n]]]
    /\ UNCHANGED <<dataEngine, loaded, queuedUpdate>>

\* The slots of sourceRemoved for the sources S that are still in the hash:
\* updateSources, removeSource, and the application's, which may connect S again.
TellRemoved(e, S, again) ==
    /\ listed' = [c \in DataSources |-> IF c \in Audience(e) THEN sources[e] ELSE listed[c]]
    /\ connectedSources' =
         [c \in DataSources |->
            IF c \notin Audience(e) THEN connectedSources[c]
            ELSE IF c \in again THEN connectedSources[c] \union (S \intersect sources[e])
            ELSE connectedSources[c] \ S]
    /\ data' = [c \in DataSources |-> [n \in Names |->
                  IF c \notin Audience(e) \/ n \notin S THEN data[c][n]
                  ELSE IF c \in again /\ n \in filled[e] THEN e
                  ELSE NoEngine]]
    /\ UNCHANGED <<dataEngine, loaded, queuedUpdate>>

\* Nobody, or some DataSources that have that engine
MayConnectAgain(e) == IF Careful THEN {{}} ELSE SUBSET Audience(e)

-----------------------------------------------------------------------------
(* What the application calls *)

\* The data a new connection delivers in the call
Shown(c, e, S, outcome) ==
    {n \in S : c \notin users[e][n] /\ (n \in filled[e] \/
               n \in {m \in Requested(e, S, outcome) : outcome[m] = "populates"})}

\* The engine's connectSource for each of S, and what the DataSource sees of it
ConnectSources(c, S, connected) ==
    LET e == dataEngine[c]
    IN  \E outcome \in [Missing(e, S) -> RequestOutcomes] :
          /\ Connect(e, c, S, outcome)
          /\ TellAdded(e, Announced(e, S, outcome))
          /\ connectedSources' = [connectedSources EXCEPT ![c] = connected]
          /\ data' = [data EXCEPT ![c] =
                        [n \in Names |-> IF n \in Shown(c, e, S, outcome) THEN e ELSE @[n]]]
          /\ UNCHANGED <<dataEngine, loaded, listed>>

\* Without an engine the sources are only listed.
ListOnly(c, S) ==
    /\ ~Careful
    /\ connectedSources' = [connectedSources EXCEPT ![c] = S]
    /\ UNCHANGED <<engineVars, dataEngine, loaded, listed, queuedUpdate>>

ConnectSource(c, n) ==
    /\ n \notin connectedSources[c]
    /\ LET connected == connectedSources[c] \union {n}
       IN  IF dataEngine[c] = NoEngine THEN ListOnly(c, connected) /\ UNCHANGED data
           ELSE ConnectSources(c, {n}, connected)

\* Mutant: the engine is not told.
DisconnectListOnly(c, n) ==
    /\ dataEngine[c] # NoEngine
    /\ n \in connectedSources[c]
    /\ connectedSources' = [connectedSources EXCEPT ![c] = @ \ {n}]
    /\ UNCHANGED <<engineVars, dataEngine, loaded, listed, queuedUpdate, data>>

DisconnectSource(c, n) ==
    /\ dataEngine[c] # NoEngine
    /\ n \in connectedSources[c]
    /\ Disconnect(dataEngine[c], c, {n})
    /\ connectedSources' = [connectedSources EXCEPT ![c] = @ \ {n}]
    /\ UNCHANGED <<dataEngine, loaded, listed, queuedUpdate, data>>

\* setConnectedSources that takes sources away, and their data with them (what it adds
\* is ConnectSource)
SetConnectedSources(c, S) ==
    LET gone == connectedSources[c] \ S
    IN  /\ S \subseteq connectedSources[c] /\ gone # {}
        /\ IF dataEngine[c] = NoEngine THEN ListOnly(c, S)
           ELSE /\ Disconnect(dataEngine[c], c, gone)
                /\ connectedSources' = [connectedSources EXCEPT ![c] = S]
                /\ UNCHANGED <<dataEngine, loaded, listed, queuedUpdate>>
        /\ data' = [data EXCEPT ![c] = [n \in Names |-> IF n \in gone THEN NoEngine ELSE @[n]]]

\* setInterval, setIntervalAlignment: setupData connects every source again.
SetupData(c) ==
    /\ dataEngine[c] # NoEngine /\ connectedSources[c] # {}
    /\ ConnectSources(c, connectedSources[c], connectedSources[c])

\* Mutant: the engine that is left is the one remembered.
SetEngineLate(c, e) ==
    /\ dataEngine[c] # e
    /\ Careful => dataEngine[c] = NoEngine
    /\ dataEngine' = [dataEngine EXCEPT ![c] = e]
    /\ loaded' = [loaded EXCEPT ![c] = @ \union {dataEngine[c]}]
    /\ listed' = [listed EXCEPT ![c] = sources[e]]
    /\ UNCHANGED <<engineVars, connectedSources, queuedUpdate, data>>

\* setEngine: neither the sources of the old engine are disconnected nor those of the
\* new one connected.  The consumer that is reset is m_dataEngineConsumer, which loaded
\* nothing: the DataSource itself loads the engines.
SetEngine(c, e) ==
    /\ dataEngine[c] # e
    /\ Careful => dataEngine[c] = NoEngine
    /\ dataEngine' = [dataEngine EXCEPT ![c] = e]
    /\ loaded' = [loaded EXCEPT ![c] = @ \union {e}]
    /\ listed' = [listed EXCEPT ![c] = sources[e]]
    /\ UNCHANGED <<engineVars, connectedSources, queuedUpdate, data>>

\* The DataSource is destroyed; another one takes its place.
DestroyDataSource(c) ==
    /\ dataEngine[c] # NoEngine
    /\ DropVisualization(c)
    /\ dataEngine' = [dataEngine EXCEPT ![c] = NoEngine]
    /\ loaded' = [loaded EXCEPT ![c] = {}]
    /\ connectedSources' = [connectedSources EXCEPT ![c] = {}]
    /\ listed' = [listed EXCEPT ![c] = {}]
    /\ queuedUpdate' = [queuedUpdate EXCEPT ![c] = FALSE]
    /\ data' = [data EXCEPT ![c] = [n \in Names |-> NoEngine]]

-----------------------------------------------------------------------------
(* What the engines do *)

\* The container of a source tells a DataSource of its data; for a source that is
\* not in the list dataUpdated disconnects from the engine there is now.
DataUpdated(e, n, c) ==
    /\ c \in users[e][n] /\ n \in filled[e]
    /\ IF n \in connectedSources[c]
         THEN data' = [data EXCEPT ![c][n] = e] /\ UNCHANGED engineVars
         ELSE /\ IF dataEngine[c] = NoEngine THEN UNCHANGED engineVars
                 ELSE Disconnect(dataEngine[c], c, {n})
              /\ UNCHANGED data
    /\ UNCHANGED <<dataEngine, loaded, connectedSources, listed, queuedUpdate>>

PublishSource(e, n) ==
    /\ Publish(e, n)
    /\ TellAdded(e, {n} \ sources[e])
    /\ UNCHANGED <<dataEngine, loaded, connectedSources, listed, data>>

AnswerRequest(e, n) ==
    /\ Answer(e, n)
    /\ TellAdded(e, {n} \ sources[e])
    /\ UNCHANGED <<dataEngine, loaded, connectedSources, listed, data>>

\* removeSource: the signal is emitted first, and for unknown names as well.
RemoveSource(e, n) ==
    \E again \in MayConnectAgain(e) :
        /\ TellRemoved(e, {n}, again)
        /\ Erase(e, {n})

\* The usage timer of an unused source that was made on request: becameUnused
RetireSource(e, n) ==
    /\ n \in usageTimer[e] /\ ~StaysAfterCheck(e, n)
    /\ RemoveSource(e, n)

CheckUsage(e, n) ==
    /\ KeepAfterCheck(e, n)
    /\ UNCHANGED clientVars

\* removeAllSources: every removal is announced before any source leaves the hash.
RemoveAllSources(e) ==
    \E again \in MayConnectAgain(e) :
        /\ TellRemoved(e, sources[e], again)
        /\ Erase(e, sources[e])

Application ==
    \E c \in DataSources :
        \/ \E n \in Names : ConnectSource(c, n) \/ DisconnectSource(c, n)
        \/ \E S \in SUBSET Names : SetConnectedSources(c, S)
        \/ SetupData(c)
        \/ \E e \in Engines : SetEngine(c, e)
        \/ DestroyDataSource(c)

Next ==
    \/ Application
    \/ \E c \in DataSources : UpdateSources(c)
    \/ \E e \in Engines :
          \/ \E n \in Names :
                \/ PublishSource(e, n)
                \/ AnswerRequest(e, n)
                \/ RemoveSource(e, n)
                \/ RetireSource(e, n)
                \/ CheckUsage(e, n)
                \/ \E c \in DataSources : DataUpdated(e, n, c)
          \/ RemoveAllSources(e)

\* The usage timers fire (the event loop is not starved).
Fairness ==
    \A e \in Engines, n \in Names : WF_vars(RetireSource(e, n) \/ CheckUsage(e, n))

Spec == Init /\ [][Next]_vars
FairSpec == Spec /\ Fairness

-----------------------------------------------------------------------------
(* Properties *)

\* What is shown of a source, connected or not, is of a container that the engine still
\* has and has filled: removal clears it everywhere, reconnecting brings nothing back.
ShownIsHeld ==
    \A c \in DataSources, n \in Names :
        data[c][n] # NoEngine => n \in filled[data[c][n]]

\* The source list lags behind the engine only while a signal is on its way: a source
\* made in any manner reaches it (updateSources on sourceAdded, queued).
AddedIsListed ==
    \A c \in DataSources, e \in Engines :
        dataEngine[c] = e => sources[e] \subseteq listed[c] \/ queuedUpdate[c]

\* "List of all the sources connected to the DataEngine." (datasource.h 93): a source
\* in that list which the engine has is connected, and so can update the data.
ListedIsConnected ==
    \A c \in DataSources, e \in Engines :
        dataEngine[c] = e =>
            \A n \in connectedSources[c] \intersect sources[e] : c \in users[e][n]

\* Conversely no container calls a DataSource that does not list it: disconnecting,
\* removal and destruction leave no connection behind.
ConnectedIsListed ==
    \A c \in DataSources, e \in Engines, n \in Names :
        c \in users[e][n] => dataEngine[c] = e /\ n \in connectedSources[c]

\* A source made on request that stays unused is removed.
UnusedIsRetired ==
    \A e \in Engines, n \in Names :
        [](n \in onRequest[e] => <>(n \notin onRequest[e] \/ users[e][n] # {}))

=============================================================================
