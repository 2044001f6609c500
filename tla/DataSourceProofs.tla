-------------------------- MODULE DataSourceProofs --------------------------
(* Theorems about DataEngine and DataSource. *)
EXTENDS DataSource, TLAPS

\* What the container of a source keeps is gone with it.
HashIsWhole ==
    \A e \in Engines :
        /\ filled[e] \union onRequest[e] \union usageTimer[e] \union pushed[e] \subseteq sources[e]
        /\ \A n \in Names : users[e][n] # {} => n \in sources[e]

\* What an engine keeps of its sources, whatever the applications do
EngineInv == EngineTypeOK /\ HashIsWhole /\ UnusedIsTimed

USE DataEngineAssumption, DataSourceAssumption

-----------------------------------------------------------------------------
(* Each operation of an engine preserves its invariant. *)

LEMMA ConnectLemma ==
    ASSUME EngineInv,
           NEW e \in Engines, NEW v \in Visualizations, NEW S \in SUBSET Names,
           NEW outcome \in [Missing(e, S) -> RequestOutcomes],
           Connect(e, v, S, outcome)
    PROVE  EngineInv'
<1> DEFINE made == Created(e, S, outcome)
<1> DEFINE asked == Requested(e, S, outcome)
<1>1. made \subseteq Names /\ asked \subseteq made
    BY DEF EngineInv, EngineTypeOK, Created, Requested, Missing
<1>2. {n \in Missing(e, S) : outcome[n] \in {"populates", "leaves"}} \subseteq made
    BY DEF Created, Missing
<1>3. Joined(e, S, outcome) = (S \intersect sources[e]) \union asked
    BY DEF Joined
<1>4. {n \in Missing(e, S) : outcome[n] = "defers"} \subseteq Names
    BY DEF Missing
<1> HIDE DEF made, asked
<1>5. EngineTypeOK'
    BY <1>1, <1>2, <1>3, <1>4 DEF EngineInv, EngineTypeOK, Connect, made, asked
<1>6. HashIsWhole'
    BY <1>1, <1>2, <1>3 DEF EngineInv, EngineTypeOK, HashIsWhole, Connect, made, asked
<1>7. UnusedIsTimed'
    BY <1>1, <1>3 DEF EngineInv, EngineTypeOK, UnusedIsTimed, Connect, made, asked
<1> QED
    BY <1>5, <1>6, <1>7 DEF EngineInv

LEMMA DisconnectLemma ==
    ASSUME EngineInv,
           NEW e \in Engines, NEW v \in Visualizations, NEW S \in SUBSET Names,
           Disconnect(e, v, S)
    PROVE  EngineInv'
<1>1. EngineTypeOK'
    BY DEF EngineInv, EngineTypeOK, Disconnect
<1>2. HashIsWhole'
    BY DEF EngineInv, EngineTypeOK, HashIsWhole, Disconnect
<1>3. UnusedIsTimed'
    BY DEF EngineInv, EngineTypeOK, HashIsWhole, UnusedIsTimed, Disconnect
<1> QED
    BY <1>1, <1>2, <1>3 DEF EngineInv

LEMMA DropLemma ==
    ASSUME EngineInv, NEW v \in Visualizations, DropVisualization(v)
    PROVE  EngineInv'
<1>1. EngineTypeOK'
    BY DEF EngineInv, EngineTypeOK, DropVisualization
<1>2. HashIsWhole'
    BY DEF EngineInv, EngineTypeOK, HashIsWhole, DropVisualization
<1>3. ASSUME NEW e \in Engines, NEW n \in onRequest'[e], users'[e][n] = {}
      PROVE  n \in usageTimer'[e]
    <2>1. /\ n \in Names /\ n \in onRequest[e] /\ n \in sources[e]
          /\ users[e][n] \ {v} = {}
        BY <1>3 DEF EngineInv, EngineTypeOK, HashIsWhole, DropVisualization
    <2>2. usageTimer'[e] = usageTimer[e] \union {m \in sources[e] : v \in users[e][m]}
        BY DEF DropVisualization
    <2>3. CASE v \in users[e][n]
        BY <2>1, <2>2, <2>3
    <2>4. CASE v \notin users[e][n]
        <3>1. users[e][n] = {}
            BY <2>1, <2>4
        <3> QED
            BY <3>1, <2>1, <2>2 DEF EngineInv, UnusedIsTimed
    <2> QED
        BY <2>3, <2>4
<1> QED
    BY <1>1, <1>2, <1>3 DEF EngineInv, UnusedIsTimed

LEMMA PublishLemma ==
    ASSUME EngineInv, NEW e \in Engines, NEW n \in Names, Publish(e, n)
    PROVE  EngineInv'
<1>1. EngineTypeOK'
    BY DEF EngineInv, EngineTypeOK, Publish, SetData
<1>2. HashIsWhole'
    BY DEF EngineInv, EngineTypeOK, HashIsWhole, Publish, SetData
<1>3. UnusedIsTimed'
    BY DEF EngineInv, UnusedIsTimed, Publish, SetData
<1> QED
    BY <1>1, <1>2, <1>3 DEF EngineInv

LEMMA AnswerLemma ==
    ASSUME EngineInv, NEW e \in Engines, NEW n \in Names, Answer(e, n)
    PROVE  EngineInv'
<1>1. EngineTypeOK'
    BY DEF EngineInv, EngineTypeOK, Answer, SetData
<1>2. HashIsWhole'
    BY DEF EngineInv, EngineTypeOK, HashIsWhole, Answer, SetData
<1>3. UnusedIsTimed'
    BY DEF EngineInv, UnusedIsTimed, Answer, SetData
<1> QED
    BY <1>1, <1>2, <1>3 DEF EngineInv

LEMMA EraseLemma ==
    ASSUME EngineInv, NEW e \in Engines, NEW S \in SUBSET Names, Erase(e, S)
    PROVE  EngineInv'
<1>1. EngineTypeOK'
    BY DEF EngineInv, EngineTypeOK, Erase
<1>2. HashIsWhole'
    BY DEF EngineInv, EngineTypeOK, HashIsWhole, Erase
<1>3. UnusedIsTimed'
    BY DEF EngineInv, EngineTypeOK, UnusedIsTimed, Erase
<1> QED
    BY <1>1, <1>2, <1>3 DEF EngineInv

LEMMA KeepLemma ==
    ASSUME EngineInv, NEW e \in Engines, NEW n \in Names, KeepAfterCheck(e, n)
    PROVE  EngineInv'
<1>1. EngineTypeOK'
    BY DEF EngineInv, EngineTypeOK, KeepAfterCheck
<1>2. HashIsWhole'
    BY DEF EngineInv, EngineTypeOK, HashIsWhole, KeepAfterCheck
<1>3. UnusedIsTimed'
    BY DEF EngineInv, EngineTypeOK, UnusedIsTimed, KeepAfterCheck, StaysAfterCheck
<1> QED
    BY <1>1, <1>2, <1>3 DEF EngineInv

LEMMA StayLemma ==
    ASSUME EngineInv, UNCHANGED engineVars
    PROVE  EngineInv'
BY DEF EngineInv, engineVars, EngineTypeOK, HashIsWhole, UnusedIsTimed

-----------------------------------------------------------------------------
(* The steps by what they do, the same for several methods *)

\* connectSource, setupData
Attach(c, S) ==
    /\ dataEngine[c] # NoEngine
    /\ ConnectSources(c, S, connectedSources[c] \union S)

\* disconnectSource, setConnectedSources: the data shown goes or stays.
Detach(c, S) ==
    /\ dataEngine[c] # NoEngine
    /\ Disconnect(dataEngine[c], c, S)
    /\ connectedSources' = [connectedSources EXCEPT ![c] = @ \ S]
    /\ \/ UNCHANGED data
       \/ data' = [data EXCEPT ![c] = [n \in Names |-> IF n \in S THEN NoEngine ELSE @[n]]]
    /\ UNCHANGED <<dataEngine, loaded, listed, queuedUpdate>>

\* The same without an engine
Remember(c, S) ==
    /\ ListOnly(c, S)
    /\ data' \in [DataSources -> [Names -> Engines \union {NoEngine}]]

\* removeSource, removeAllSources
Remove(e, S) ==
    \E again \in MayConnectAgain(e) : TellRemoved(e, S, again) /\ Erase(e, S)

LEMMA Steps ==
    ASSUME TypeOK, Next
    PROVE  \/ \E c \in DataSources :
                \/ \E S \in SUBSET Names : Attach(c, S) \/ Detach(c, S) \/ Remember(c, S)
                \/ \E e \in Engines : SetEngine(c, e)
                \/ DestroyDataSource(c) \/ UpdateSources(c)
                \/ \E e \in Engines, n \in Names : DataUpdated(e, n, c)
           \/ \E e \in Engines :
                \/ \E S \in SUBSET Names : Remove(e, S)
                \/ \E n \in Names : PublishSource(e, n) \/ AnswerRequest(e, n) \/ CheckUsage(e, n)
<1>1. ASSUME NEW c \in DataSources, NEW n \in Names, ConnectSource(c, n)
      PROVE  Attach(c, {n}) \/ Remember(c, connectedSources[c] \union {n})
    BY <1>1 DEF ConnectSource, Attach, Remember, TypeOK
<1>2. ASSUME NEW c \in DataSources, NEW n \in Names, DisconnectSource(c, n)
      PROVE  Detach(c, {n})
    BY <1>2 DEF DisconnectSource, Detach
<1>3. ASSUME NEW c \in DataSources, NEW S \in SUBSET Names, SetConnectedSources(c, S)
      PROVE  Detach(c, connectedSources[c] \ S) \/ Remember(c, S)
    <2> DEFINE gone == connectedSources[c] \ S
    <2>1. data' = [data EXCEPT ![c] = [n \in Names |-> IF n \in gone THEN NoEngine ELSE @[n]]]
        BY <1>3 DEF SetConnectedSources
    <2>2. CASE dataEngine[c] = NoEngine
        <3>1. ListOnly(c, S)
            BY <1>3, <2>2 DEF SetConnectedSources
        <3>2. data' \in [DataSources -> [Names -> Engines \union {NoEngine}]]
            BY <2>1 DEF TypeOK
        <3> QED
            BY <3>1, <3>2 DEF Remember
    <2>3. CASE dataEngine[c] # NoEngine
        <3>1. /\ Disconnect(dataEngine[c], c, gone)
              /\ connectedSources' = [connectedSources EXCEPT ![c] = S]
              /\ UNCHANGED <<dataEngine, loaded, listed, queuedUpdate>>
              /\ S \subseteq connectedSources[c]
            BY <1>3, <2>3 DEF SetConnectedSources
        <3>2. connectedSources[c] \ gone = S
            BY <3>1
        <3> QED
            BY <2>1, <2>3, <3>1, <3>2 DEF Detach
    <2> QED
        BY <2>2, <2>3
<1>4. ASSUME NEW c \in DataSources, SetupData(c)
      PROVE  Attach(c, connectedSources[c])
    BY <1>4 DEF SetupData, Attach
<1>5. \A c \in DataSources, n \in Names :
        {n} \in SUBSET Names /\ connectedSources[c] \in SUBSET Names
        /\ connectedSources[c] \union {n} \in SUBSET Names
    BY DEF TypeOK
<1>6. \A e \in Engines : sources[e] \in SUBSET Names
    BY DEF TypeOK, EngineTypeOK
<1>7. \A e \in Engines, n \in Names :
        RemoveSource(e, n) \/ RetireSource(e, n) => Remove(e, {n})
    BY DEF RemoveSource, RetireSource, Remove
<1>8. \A e \in Engines : RemoveAllSources(e) => Remove(e, sources[e])
    BY DEF RemoveAllSources, Remove
<1>9. CASE Application
    <2>1. PICK c \in DataSources :
            \/ \E n \in Names : ConnectSource(c, n) \/ DisconnectSource(c, n)
            \/ \E S \in SUBSET Names : SetConnectedSources(c, S)
            \/ SetupData(c)
            \/ \E e \in Engines : SetEngine(c, e)
            \/ DestroyDataSource(c)
        BY <1>9 DEF Application
    <2>2. connectedSources[c] \in SUBSET Names
        BY DEF TypeOK
    <2>3. CASE \E n \in Names : ConnectSource(c, n) \/ DisconnectSource(c, n)
        BY <2>3, <1>1, <1>2, <1>5
    <2>4. CASE \E S \in SUBSET Names : SetConnectedSources(c, S)
        <3>1. PICK S \in SUBSET Names : SetConnectedSources(c, S)
            BY <2>4
        <3>2. connectedSources[c] \ S \in SUBSET Names
            BY <2>2
        <3> QED
            BY <3>1, <3>2, <1>3
    <2>5. CASE SetupData(c)
        BY <2>5, <1>4, <2>2
    <2> QED
        BY <2>1, <2>3, <2>4, <2>5
<1>10. CASE \E e \in Engines : \E n \in Names : RemoveSource(e, n) \/ RetireSource(e, n)
    BY <1>10, <1>7
<1>11. CASE \E e \in Engines : RemoveAllSources(e)
    BY <1>11, <1>8, <1>6
<1> QED
    BY <1>9, <1>10, <1>11 DEF Next

-----------------------------------------------------------------------------
(* Types, and what holds of the engines whatever the applications do *)

ClientTypeOK ==
    /\ dataEngine \in [DataSources -> Engines \union {NoEngine}]
    /\ loaded \in [DataSources -> SUBSET Engines]
    /\ connectedSources \in [DataSources -> SUBSET Names]
    /\ listed \in [DataSources -> SUBSET Names]
    /\ queuedUpdate \in [DataSources -> BOOLEAN]
    /\ data \in [DataSources -> [Names -> Engines \union {NoEngine}]]

BaseInv == EngineInv /\ ClientTypeOK

LEMMA BaseImplies == BaseInv => TypeOK
BY DEF BaseInv, EngineInv, ClientTypeOK, TypeOK

LEMMA BaseInit == Init => BaseInv
<1> SUFFICES ASSUME Init PROVE BaseInv
    OBVIOUS
<1>1. EngineTypeOK /\ HashIsWhole /\ UnusedIsTimed
    BY DEF Init, EngineInit, EngineTypeOK, HashIsWhole, UnusedIsTimed
<1>2. ClientTypeOK
    BY DEF Init, ClientTypeOK
<1> QED
    BY <1>1, <1>2 DEF BaseInv, EngineInv

LEMMA BaseStep == BaseInv /\ [Next]_vars => BaseInv'
<1> SUFFICES ASSUME BaseInv, [Next]_vars PROVE BaseInv'
    OBVIOUS
<1>t. TypeOK /\ EngineInv /\ ClientTypeOK
    BY BaseImplies DEF BaseInv
<1>1. ASSUME NEW c \in DataSources, NEW S \in SUBSET Names, Attach(c, S) PROVE BaseInv'
    <2> DEFINE e == dataEngine[c]
    <2>1. e \in Engines
        BY <1>1, <1>t DEF Attach, ClientTypeOK
    <2>2. PICK outcome \in [Missing(e, S) -> RequestOutcomes] :
            /\ Connect(e, c, S, outcome)
            /\ TellAdded(e, Announced(e, S, outcome))
            /\ connectedSources' = [connectedSources EXCEPT ![c] = connectedSources[c] \union S]
            /\ data' = [data EXCEPT ![c] =
                        [n \in Names |-> IF n \in Shown(c, e, S, outcome) THEN e ELSE @[n]]]
            /\ UNCHANGED <<dataEngine, loaded, listed>>
        BY <1>1 DEF Attach, ConnectSources
    <2>3. EngineInv'
        BY <1>t, <2>1, <2>2, ConnectLemma DEF DataSources
    <2> HIDE DEF e
    <2>4. queuedUpdate' \in [DataSources -> BOOLEAN]
        BY <1>t, <2>2 DEF ClientTypeOK, TellAdded
    <2>5. ClientTypeOK'
        BY <1>t, <2>1, <2>2, <2>4 DEF ClientTypeOK
    <2> QED
        BY <2>3, <2>5 DEF BaseInv
<1>2. ASSUME NEW c \in DataSources, NEW S \in SUBSET Names, Detach(c, S) PROVE BaseInv'
    <2>1. dataEngine[c] \in Engines
        BY <1>2, <1>t DEF Detach, ClientTypeOK
    <2>2. EngineInv'
        BY <1>2, <1>t, <2>1, DisconnectLemma DEF Detach, DataSources
    <2>3. data' \in [DataSources -> [Names -> Engines \union {NoEngine}]]
        <3>1. CASE UNCHANGED data
            BY <3>1, <1>t DEF ClientTypeOK
        <3>2. CASE data' = [data EXCEPT ![c] = [n \in Names |-> IF n \in S THEN NoEngine ELSE @[n]]]
            BY <3>2, <1>t DEF ClientTypeOK
        <3> QED
            BY <1>2, <3>1, <3>2 DEF Detach
    <2>4. connectedSources' \in [DataSources -> SUBSET Names]
        BY <1>2, <1>t DEF Detach, ClientTypeOK
    <2>5. ClientTypeOK'
        BY <1>2, <1>t, <2>3, <2>4 DEF Detach, ClientTypeOK
    <2> QED
        BY <2>2, <2>5 DEF BaseInv
<1>3. ASSUME NEW c \in DataSources, NEW S \in SUBSET Names, Remember(c, S) PROVE BaseInv'
    BY <1>3, <1>t, StayLemma DEF Remember, ListOnly, ClientTypeOK, BaseInv
<1>4. ASSUME NEW c \in DataSources, NEW e \in Engines, SetEngine(c, e) PROVE BaseInv'
    <2>1. sources[e] \in SUBSET Names
        BY <1>t DEF TypeOK, EngineTypeOK
    <2> QED
        BY <1>4, <1>t, <2>1, StayLemma DEF SetEngine, ClientTypeOK, BaseInv
<1>5. ASSUME NEW c \in DataSources, DestroyDataSource(c) PROVE BaseInv'
    BY <1>5, <1>t, DropLemma DEF DestroyDataSource, ClientTypeOK, BaseInv, DataSources
<1>6. ASSUME NEW c \in DataSources, UpdateSources(c) PROVE BaseInv'
    <2>1. dataEngine[c] # NoEngine => sources[dataEngine[c]] \in SUBSET Names
        BY <1>t DEF TypeOK, EngineTypeOK
    <2> QED
        BY <1>6, <1>t, <2>1, StayLemma DEF UpdateSources, ClientTypeOK, BaseInv
<1>7. ASSUME NEW c \in DataSources, NEW e \in Engines, NEW n \in Names, DataUpdated(e, n, c)
      PROVE  BaseInv'
    <2>1. ClientTypeOK'
        BY <1>7, <1>t DEF DataUpdated, ClientTypeOK
    <2>2. CASE UNCHANGED engineVars
        BY <1>t, <2>1, <2>2, StayLemma DEF BaseInv
    <2>3. CASE ~UNCHANGED engineVars
        <3>1. dataEngine[c] \in Engines /\ Disconnect(dataEngine[c], c, {n})
            BY <1>7, <1>t, <2>3 DEF DataUpdated, ClientTypeOK
        <3>2. {n} \in SUBSET Names
            OBVIOUS
        <3> QED
            BY <1>t, <2>1, <3>1, <3>2, DisconnectLemma DEF BaseInv, DataSources
    <2> QED
        BY <2>2, <2>3
<1>8. ASSUME NEW e \in Engines, NEW S \in SUBSET Names, Remove(e, S) PROVE BaseInv'
    <2>1. PICK again \in MayConnectAgain(e) : TellRemoved(e, S, again) /\ Erase(e, S)
        BY <1>8 DEF Remove
    <2>2. EngineInv'
        BY <1>t, <2>1, EraseLemma
    <2>3. sources[e] \in SUBSET Names
        BY <1>t DEF TypeOK, EngineTypeOK
    <2>4. connectedSources' \in [DataSources -> SUBSET Names]
        BY <1>t, <2>1, <2>3 DEF TellRemoved, ClientTypeOK
    <2>5. data' \in [DataSources -> [Names -> Engines \union {NoEngine}]]
        BY <1>t, <2>1 DEF TellRemoved, ClientTypeOK
    <2>6. listed' \in [DataSources -> SUBSET Names]
        BY <1>t, <2>1, <2>3 DEF TellRemoved, ClientTypeOK
    <2> QED
        BY <1>t, <2>1, <2>2, <2>4, <2>5, <2>6 DEF TellRemoved, ClientTypeOK, BaseInv
<1>9. ASSUME NEW e \in Engines, NEW n \in Names, PublishSource(e, n) PROVE BaseInv'
    BY <1>9, <1>t, PublishLemma DEF PublishSource, TellAdded, ClientTypeOK, BaseInv
<1>10. ASSUME NEW e \in Engines, NEW n \in Names, AnswerRequest(e, n) PROVE BaseInv'
    BY <1>10, <1>t, AnswerLemma DEF AnswerRequest, TellAdded, ClientTypeOK, BaseInv
<1>11. ASSUME NEW e \in Engines, NEW n \in Names, CheckUsage(e, n) PROVE BaseInv'
    BY <1>11, <1>t, KeepLemma DEF CheckUsage, clientVars, ClientTypeOK, BaseInv
<1>12. CASE UNCHANGED vars
    BY <1>12, <1>t, StayLemma DEF vars, clientVars, ClientTypeOK, BaseInv
<1> QED
    BY <1>t, <1>1, <1>2, <1>3, <1>4, <1>5, <1>6, <1>7, <1>8, <1>9, <1>10, <1>11, <1>12, Steps

\* The state of engines and DataSources is well typed, for every set of engines,
\* sources and DataSources, every kind of engine and every application.
THEOREM Typing == Spec => []TypeOK
BY BaseInit, BaseStep, BaseImplies, PTL DEF Spec

\* The usage timer of every unused source that was made on request is running, however
\* its users left.
THEOREM Timed == Spec => []UnusedIsTimed
<1>1. BaseInv => UnusedIsTimed
    BY DEF BaseInv, EngineInv
<1> QED
    BY <1>1, BaseInit, BaseStep, PTL DEF Spec

-----------------------------------------------------------------------------
(* Nothing is added behind the back of a DataSource. *)

LEMMA AddedStep ==
    ASSUME "leaves" \notin RequestOutcomes,
           BaseInv, AddedIsListed, [Next]_vars
    PROVE  AddedIsListed'
<1>t. TypeOK /\ EngineInv /\ ClientTypeOK
    BY BaseImplies DEF BaseInv
<1>s. ASSUME UNCHANGED <<sources, dataEngine, listed, queuedUpdate>> PROVE AddedIsListed'
    BY <1>s DEF AddedIsListed
<1>1. ASSUME NEW c \in DataSources, NEW S \in SUBSET Names, Attach(c, S) PROVE AddedIsListed'
    <2> DEFINE e == dataEngine[c]
    <2>1. e \in Engines
        BY <1>1, <1>t DEF Attach, ClientTypeOK
    <2>2. PICK outcome \in [Missing(e, S) -> RequestOutcomes] :
            /\ Connect(e, c, S, outcome)
            /\ TellAdded(e, Announced(e, S, outcome))
            /\ UNCHANGED <<dataEngine, listed>>
        BY <1>1 DEF Attach, ConnectSources
    <2> HIDE DEF e
    <2>3. \A n \in Missing(e, S) : outcome[n] \in {"populates", "defers", "adds", "refuses"}
        BY <2>2 DEF OutcomeKinds
    <2>4. Created(e, S, outcome) = Announced(e, S, outcome)
        BY <2>3 DEF Created, Announced, Requested
    <2>5. sources' = [sources EXCEPT ![e] = @ \union Announced(e, S, outcome)]
        BY <2>2, <2>4 DEF Connect
    <2> QED
        BY <1>t, <2>1, <2>2, <2>5
        DEF AddedIsListed, TellAdded, Audience, ClientTypeOK, EngineInv, EngineTypeOK
<1>2. ASSUME NEW c \in DataSources, NEW S \in SUBSET Names, Detach(c, S) PROVE AddedIsListed'
    BY <1>2, <1>s DEF Detach, Disconnect
<1>3. ASSUME NEW c \in DataSources, NEW S \in SUBSET Names, Remember(c, S) PROVE AddedIsListed'
    BY <1>3, <1>s DEF Remember, ListOnly, engineVars
<1>4. ASSUME NEW c \in DataSources, NEW e \in Engines, SetEngine(c, e) PROVE AddedIsListed'
    BY <1>4, <1>t DEF SetEngine, engineVars, AddedIsListed, ClientTypeOK
<1>5. ASSUME NEW c \in DataSources, DestroyDataSource(c) PROVE AddedIsListed'
    BY <1>5, <1>t DEF DestroyDataSource, DropVisualization, AddedIsListed, ClientTypeOK
<1>6. ASSUME NEW c \in DataSources, UpdateSources(c) PROVE AddedIsListed'
    BY <1>6, <1>t DEF UpdateSources, engineVars, AddedIsListed, ClientTypeOK
<1>7. ASSUME NEW c \in DataSources, NEW e \in Engines, NEW n \in Names, DataUpdated(e, n, c)
      PROVE  AddedIsListed'
    BY <1>7, <1>s DEF DataUpdated, Disconnect, engineVars
<1>8. ASSUME NEW e \in Engines, NEW S \in SUBSET Names, Remove(e, S) PROVE AddedIsListed'
    <2>1. PICK again \in MayConnectAgain(e) : TellRemoved(e, S, again) /\ Erase(e, S)
        BY <1>8 DEF Remove
    <2>2. /\ sources' = [sources EXCEPT ![e] = @ \ S]
          /\ listed' = [c \in DataSources |-> IF c \in Audience(e) THEN sources[e] ELSE listed[c]]
          /\ UNCHANGED <<dataEngine, queuedUpdate>>
        BY <2>1 DEF TellRemoved, Erase
    <2> QED
        BY <1>t, <2>2 DEF AddedIsListed, Audience, EngineInv, EngineTypeOK
<1>9. ASSUME NEW e \in Engines, NEW n \in Names, PublishSource(e, n) PROVE AddedIsListed'
    BY <1>9, <1>t DEF PublishSource, Publish, SetData, TellAdded, Audience, AddedIsListed,
                      EngineInv, EngineTypeOK
<1>10. ASSUME NEW e \in Engines, NEW n \in Names, AnswerRequest(e, n) PROVE AddedIsListed'
    BY <1>10, <1>t DEF AnswerRequest, Answer, SetData, TellAdded, Audience, AddedIsListed,
                       EngineInv, EngineTypeOK
<1>11. ASSUME NEW e \in Engines, NEW n \in Names, CheckUsage(e, n) PROVE AddedIsListed'
    BY <1>11, <1>s DEF CheckUsage, KeepAfterCheck, clientVars
<1>12. CASE UNCHANGED vars
    BY <1>12, <1>s DEF vars, engineVars, clientVars
<1> QED
    BY <1>t, <1>1, <1>2, <1>3, <1>4, <1>5, <1>6, <1>7, <1>8, <1>9, <1>10, <1>11, <1>12, Steps

\* The list of sources lags behind the engine only while a sourceAdded is under way, with
\* engines whose sourceRequestEvent makes no source that it then disowns.
THEOREM AddedListed ==
    ASSUME "leaves" \notin RequestOutcomes
    PROVE  Spec => []AddedIsListed
<1>1. Init => AddedIsListed
    BY DEF Init, AddedIsListed
<1>2. BaseInv /\ AddedIsListed /\ [Next]_vars => AddedIsListed'
    BY AddedStep
<1> QED
    BY <1>1, <1>2, BaseInit, BaseStep, PTL DEF Spec

-----------------------------------------------------------------------------
(* Careful applications *)

\* Without an engine nothing is listed as connected.
NothingListedBefore ==
    \A c \in DataSources : dataEngine[c] = NoEngine => connectedSources[c] = {}

\* What is shown is of the engine there is now.
ShownIsCurrent ==
    \A c \in DataSources, n \in Names : data[c][n] \in {NoEngine, dataEngine[c]}

CarefulInv == ConnectedIsListed /\ NothingListedBefore /\ ShownIsCurrent /\ ShownIsHeld

LEMMA CarefulInit == Init => CarefulInv
BY DEF Init, EngineInit, CarefulInv, ConnectedIsListed, NothingListedBefore, ShownIsCurrent,
       ShownIsHeld, DataSources

LEMMA CarefulStep ==
    ASSUME Careful, BaseInv, CarefulInv, [Next]_vars
    PROVE  CarefulInv'
<1>t. TypeOK /\ EngineInv /\ ClientTypeOK
    BY BaseImplies DEF BaseInv
<1>s. ASSUME UNCHANGED <<filled, users, dataEngine, connectedSources, data>> PROVE CarefulInv'
    BY <1>s DEF CarefulInv, ConnectedIsListed, NothingListedBefore, ShownIsCurrent, ShownIsHeld
<1>1. ASSUME NEW c \in DataSources, NEW S \in SUBSET Names, Attach(c, S) PROVE CarefulInv'
    <2> DEFINE e == dataEngine[c]
    <2>1. e \in Engines
        BY <1>1, <1>t DEF Attach, ClientTypeOK
    <2>2. PICK outcome \in [Missing(e, S) -> RequestOutcomes] :
            /\ Connect(e, c, S, outcome)
            /\ connectedSources' = [connectedSources EXCEPT ![c] = connectedSources[c] \union S]
            /\ data' = [data EXCEPT ![c] =
                        [n \in Names |-> IF n \in Shown(c, e, S, outcome) THEN e ELSE @[n]]]
            /\ UNCHANGED <<dataEngine, listed>>
        BY <1>1 DEF Attach, ConnectSources
    <2>3. dataEngine[c] = e
        OBVIOUS
    <2> HIDE DEF e
    <2>4. Joined(e, S, outcome) \subseteq S
        BY DEF Joined, Requested, Missing
    <2>5. Shown(c, e, S, outcome) \subseteq filled'[e] /\ \A x \in Engines : filled[x] \subseteq filled'[x]
        BY <2>1, <2>2, <1>t DEF Shown, Requested, Missing, Connect, EngineInv, EngineTypeOK
    <2>6. ConnectedIsListed'
        BY <1>t, <2>1, <2>2, <2>3, <2>4
        DEF CarefulInv, ConnectedIsListed, Connect, ClientTypeOK, EngineInv, EngineTypeOK, DataSources
    <2>7. NothingListedBefore'
        BY <1>t, <2>1, <2>2, <2>3 DEF CarefulInv, NothingListedBefore, ClientTypeOK
    <2>8. ShownIsCurrent'
        BY <1>t, <2>1, <2>2, <2>3 DEF CarefulInv, ShownIsCurrent, ClientTypeOK
    <2>9. ShownIsHeld'
        BY SMTT(30), <1>t, <2>1, <2>2, <2>5 DEF CarefulInv, ShownIsHeld, ClientTypeOK
    <2> QED
        BY <2>6, <2>7, <2>8, <2>9 DEF CarefulInv
<1>2. ASSUME NEW c \in DataSources, NEW S \in SUBSET Names, Detach(c, S) PROVE CarefulInv'
    <2>1. dataEngine[c] \in Engines
        BY <1>2, <1>t DEF Detach, ClientTypeOK
    <2>2. ConnectedIsListed'
        BY <1>2, <1>t, <2>1 DEF Detach, Disconnect, CarefulInv, ConnectedIsListed, ClientTypeOK,
            EngineInv, EngineTypeOK, DataSources
    <2>3. NothingListedBefore'
        BY <1>2, <1>t DEF Detach, CarefulInv, NothingListedBefore, ClientTypeOK
    <2>4. ShownIsCurrent'
        BY <1>2, <1>t DEF Detach, CarefulInv, ShownIsCurrent, ClientTypeOK
    <2>5. ShownIsHeld'
        <3>1. filled' = filled
            BY <1>2 DEF Detach, Disconnect
        <3>2. \A d \in DataSources, n \in Names : data'[d][n] \in {NoEngine, data[d][n]}
            BY <1>2, <1>t DEF Detach, ClientTypeOK
        <3> QED
            BY <3>1, <3>2 DEF CarefulInv, ShownIsHeld
    <2> QED
        BY <2>2, <2>3, <2>4, <2>5 DEF CarefulInv
<1>3. ASSUME NEW c \in DataSources, NEW S \in SUBSET Names, Remember(c, S) PROVE CarefulInv'
    BY <1>3 DEF Remember, ListOnly
<1>4. ASSUME NEW c \in DataSources, NEW e \in Engines, SetEngine(c, e) PROVE CarefulInv'
    <2>1. dataEngine[c] = NoEngine /\ connectedSources[c] = {}
        BY <1>4 DEF SetEngine, CarefulInv, NothingListedBefore
    <2>2. \A n \in Names : data[c][n] = NoEngine
        BY <2>1 DEF CarefulInv, ShownIsCurrent
    <2>3. UNCHANGED <<filled, users, connectedSources, data>>
          /\ dataEngine' = [dataEngine EXCEPT ![c] = e]
        BY <1>4 DEF SetEngine, engineVars
    <2>4. ConnectedIsListed' /\ NothingListedBefore'
        BY <1>t, <2>1, <2>3 DEF CarefulInv, ConnectedIsListed, NothingListedBefore, ClientTypeOK
    <2>5. ShownIsCurrent' /\ ShownIsHeld'
        BY <1>t, <2>2, <2>3 DEF CarefulInv, ShownIsCurrent, ShownIsHeld, ClientTypeOK
    <2> QED
        BY <2>4, <2>5 DEF CarefulInv
<1>5. ASSUME NEW c \in DataSources, DestroyDataSource(c) PROVE CarefulInv'
    <2>1. /\ users' = [x \in Engines |-> [n \in Names |-> users[x][n] \ {c}]]
          /\ filled' = filled
          /\ dataEngine' = [dataEngine EXCEPT ![c] = NoEngine]
          /\ connectedSources' = [connectedSources EXCEPT ![c] = {}]
          /\ data' = [data EXCEPT ![c] = [n \in Names |-> NoEngine]]
        BY <1>5 DEF DestroyDataSource, DropVisualization
    <2>2. ConnectedIsListed' /\ NothingListedBefore'
        BY <1>t, <2>1 DEF CarefulInv, ConnectedIsListed, NothingListedBefore, ClientTypeOK
    <2>3. ShownIsCurrent' /\ ShownIsHeld'
        BY <1>t, <2>1 DEF CarefulInv, ShownIsCurrent, ShownIsHeld, ClientTypeOK
    <2> QED
        BY <2>2, <2>3 DEF CarefulInv
<1>6. ASSUME NEW c \in DataSources, UpdateSources(c) PROVE CarefulInv'
    BY <1>6, <1>s DEF UpdateSources, engineVars
<1>7. ASSUME NEW c \in DataSources, NEW e \in Engines, NEW n \in Names, DataUpdated(e, n, c)
      PROVE  CarefulInv'
    <2>1. c \in users[e][n] /\ n \in filled[e]
        BY <1>7 DEF DataUpdated
    <2>2. dataEngine[c] = e /\ n \in connectedSources[c]
        BY <2>1 DEF CarefulInv, ConnectedIsListed
    <2>3. /\ data' = [data EXCEPT ![c][n] = e]
          /\ UNCHANGED <<filled, users, dataEngine, connectedSources>>
        BY <1>7, <2>2 DEF DataUpdated, engineVars
    <2> QED
        BY <1>t, <2>1, <2>2, <2>3 DEF CarefulInv, ConnectedIsListed, NothingListedBefore,
            ShownIsCurrent, ShownIsHeld, ClientTypeOK
<1>8. ASSUME NEW e \in Engines, NEW S \in SUBSET Names, Remove(e, S) PROVE CarefulInv'
    <2>1. TellRemoved(e, S, {}) /\ Erase(e, S)
        BY <1>8 DEF Remove, MayConnectAgain
    <2>2. /\ users' = [users EXCEPT ![e] = [n \in Names |-> IF n \in S THEN {} ELSE @[n]]]
          /\ filled' = [filled EXCEPT ![e] = @ \ S]
          /\ connectedSources' = [c \in DataSources |->
                IF c \in Audience(e) THEN connectedSources[c] \ S ELSE connectedSources[c]]
          /\ data' = [c \in DataSources |-> [n \in Names |->
                IF c \in Audience(e) /\ n \in S THEN NoEngine ELSE data[c][n]]]
          /\ dataEngine' = dataEngine
        <3>1. connectedSources' = [c \in DataSources |->
                IF c \in Audience(e) THEN connectedSources[c] \ S ELSE connectedSources[c]]
            BY <2>1 DEF TellRemoved
        <3>2. data' = [c \in DataSources |-> [n \in Names |->
                IF c \in Audience(e) /\ n \in S THEN NoEngine ELSE data[c][n]]]
            BY <2>1 DEF TellRemoved
        <3> QED
            BY <2>1, <3>1, <3>2 DEF TellRemoved, Erase
    <2>3. ConnectedIsListed'
        BY <1>t, <2>2 DEF CarefulInv, ConnectedIsListed, Audience, ClientTypeOK,
            EngineInv, EngineTypeOK, DataSources
    <2>4. NothingListedBefore' /\ ShownIsCurrent'
        BY <1>t, <2>2 DEF CarefulInv, NothingListedBefore, ShownIsCurrent, ClientTypeOK
    <2>5. ASSUME NEW c \in DataSources, NEW n \in Names, data'[c][n] # NoEngine
          PROVE  n \in filled'[data'[c][n]]
        <3>1. /\ data'[c][n] = data[c][n] /\ data[c][n] \in Engines
              /\ ~(c \in Audience(e) /\ n \in S)
            BY <1>t, <2>2, <2>5 DEF ClientTypeOK
        <3>2. n \in filled[data[c][n]] /\ data[c][n] = dataEngine[c]
            BY <2>5, <3>1 DEF CarefulInv, ShownIsCurrent, ShownIsHeld
        <3>3. CASE data[c][n] = e
            <4>1. n \notin S
                BY <3>1, <3>2, <3>3 DEF Audience
            <4> QED
                BY <1>t, <2>2, <3>1, <3>2, <3>3, <4>1 DEF EngineInv, EngineTypeOK
        <3>4. CASE data[c][n] # e
            BY <1>t, <2>2, <3>1, <3>2, <3>4 DEF EngineInv, EngineTypeOK
        <3> QED
            BY <3>3, <3>4
    <2> QED
        BY <2>3, <2>4, <2>5 DEF CarefulInv, ShownIsHeld
<1>9. ASSUME NEW e \in Engines, NEW n \in Names, SetData(e, n),
             UNCHANGED <<dataEngine, connectedSources, data>>
      PROVE  CarefulInv'
    <2>1. \A x \in Engines : filled[x] \subseteq filled'[x]
        BY <1>9, <1>t DEF SetData, EngineInv, EngineTypeOK
    <2>2. ShownIsHeld'
        BY <1>9, <2>1, <1>t DEF CarefulInv, ShownIsHeld, ClientTypeOK
    <2> QED
        BY <1>9, <2>2 DEF SetData, CarefulInv, ConnectedIsListed, NothingListedBefore, ShownIsCurrent
<1>10. ASSUME NEW e \in Engines, NEW n \in Names,
              PublishSource(e, n) \/ AnswerRequest(e, n)
       PROVE  CarefulInv'
    BY <1>9, <1>10 DEF PublishSource, AnswerRequest, Publish, Answer
<1>11. ASSUME NEW e \in Engines, NEW n \in Names, CheckUsage(e, n) PROVE CarefulInv'
    BY <1>11, <1>s DEF CheckUsage, KeepAfterCheck, clientVars
<1>12. CASE UNCHANGED vars
    BY <1>12, <1>s DEF vars, engineVars, clientVars
<1> QED
    BY <1>t, <1>1, <1>2, <1>3, <1>4, <1>5, <1>6, <1>7, <1>8, <1>10, <1>11, <1>12, Steps

\* With careful applications no container calls a DataSource that does not list it.
THEOREM ConnectedListed ==
    ASSUME Careful
    PROVE  Spec => []ConnectedIsListed
<1>1. BaseInv /\ CarefulInv /\ [Next]_vars => CarefulInv'
    BY CarefulStep
<1>2. CarefulInv => ConnectedIsListed
    BY DEF CarefulInv
<1> QED
    BY <1>1, <1>2, BaseInit, BaseStep, CarefulInit, PTL DEF Spec

\* With careful applications nothing is shown of a source the engine no longer has.
THEOREM ShownHeld ==
    ASSUME Careful
    PROVE  Spec => []ShownIsHeld
<1>1. BaseInv /\ CarefulInv /\ [Next]_vars => CarefulInv'
    BY CarefulStep
<1>2. CarefulInv => ShownIsHeld
    BY DEF CarefulInv
<1> QED
    BY <1>1, <1>2, BaseInit, BaseStep, CarefulInit, PTL DEF Spec

-----------------------------------------------------------------------------
(* Engines that accept every request *)

\* Every source that is listed is one the engine has, and connected.
AllConnected ==
    \A c \in DataSources, e \in Engines :
        dataEngine[c] = e =>
            \A n \in connectedSources[c] : n \in sources[e] /\ c \in users[e][n]

LEMMA AcceptStep ==
    ASSUME Careful, RequestOutcomes \subseteq {"populates", "defers", "adds"},
           BaseInv, CarefulInv, AllConnected, [Next]_vars
    PROVE  AllConnected'
<1>t. TypeOK /\ EngineInv /\ ClientTypeOK
    BY BaseImplies DEF BaseInv
<1>s. ASSUME UNCHANGED <<sources, users, dataEngine, connectedSources>> PROVE AllConnected'
    BY <1>s DEF AllConnected
<1>1. ASSUME NEW c \in DataSources, NEW S \in SUBSET Names, Attach(c, S) PROVE AllConnected'
    <2> DEFINE e == dataEngine[c]
    <2>1. e \in Engines
        BY <1>1, <1>t DEF Attach, ClientTypeOK
    <2>2. PICK outcome \in [Missing(e, S) -> RequestOutcomes] :
            /\ Connect(e, c, S, outcome)
            /\ connectedSources' = [connectedSources EXCEPT ![c] = connectedSources[c] \union S]
            /\ UNCHANGED <<dataEngine, listed>>
        BY <1>1 DEF Attach, ConnectSources
    <2>3. dataEngine[c] = e
        OBVIOUS
    <2> HIDE DEF e
    <2>4. \A n \in Missing(e, S) : outcome[n] \in {"populates", "defers", "adds"}
        BY <2>2
    <2>5. Joined(e, S, outcome) = S
        BY <2>4 DEF Joined, Requested, Missing
    <2>6. S \subseteq sources'[e] /\ \A x \in Engines : sources[x] \subseteq sources'[x]
        BY <1>t, <2>1, <2>2, <2>4 DEF Connect, Created, Missing, EngineInv, EngineTypeOK
    <2>7. users' = [users EXCEPT ![e] =
                      [n \in Names |-> IF n \in S THEN @[n] \union {c} ELSE @[n]]]
        BY <2>2, <2>5 DEF Connect
    <2>8. \A x \in Engines, n \in Names : users[x][n] \subseteq users'[x][n]
        BY <1>t, <2>1, <2>7 DEF EngineInv, EngineTypeOK
    <2>9. \A n \in S : c \in users'[e][n]
        BY <1>t, <2>1, <2>7 DEF EngineInv, EngineTypeOK
    <2>10. ASSUME NEW d \in DataSources, NEW x \in Engines, dataEngine'[d] = x,
                  NEW n \in connectedSources'[d]
           PROVE  n \in sources'[x] /\ d \in users'[x][n]
        <3>1. dataEngine[d] = x /\ n \in Names
            BY <1>t, <2>2, <2>10 DEF ClientTypeOK
        <3>2. CASE n \in connectedSources[d]
            BY <3>1, <3>2, <2>6, <2>8 DEF AllConnected
        <3>3. CASE n \notin connectedSources[d]
            <4>1. d = c /\ n \in S
                BY <1>t, <2>2, <2>10, <3>3 DEF ClientTypeOK
            <4> QED
                BY <4>1, <3>1, <2>3, <2>6, <2>9
        <3> QED
            BY <3>2, <3>3
    <2> QED
        BY <2>10 DEF AllConnected
<1>2. ASSUME NEW c \in DataSources, NEW S \in SUBSET Names, Detach(c, S) PROVE AllConnected'
    BY <1>2, <1>t DEF Detach, Disconnect, AllConnected, ClientTypeOK, EngineInv, EngineTypeOK
<1>3. ASSUME NEW c \in DataSources, NEW S \in SUBSET Names, Remember(c, S) PROVE AllConnected'
    BY <1>3 DEF Remember, ListOnly
<1>4. ASSUME NEW c \in DataSources, NEW e \in Engines, SetEngine(c, e) PROVE AllConnected'
    BY <1>4, <1>t DEF SetEngine, engineVars, CarefulInv, NothingListedBefore, AllConnected, ClientTypeOK
<1>5. ASSUME NEW c \in DataSources, DestroyDataSource(c) PROVE AllConnected'
    BY <1>5, <1>t DEF DestroyDataSource, DropVisualization, AllConnected, ClientTypeOK,
        EngineInv, EngineTypeOK
<1>6. ASSUME NEW c \in DataSources, UpdateSources(c) PROVE AllConnected'
    BY <1>6, <1>s DEF UpdateSources, engineVars
<1>7. ASSUME NEW c \in DataSources, NEW e \in Engines, NEW n \in Names, DataUpdated(e, n, c)
      PROVE  AllConnected'
    <2>1. n \in connectedSources[c]
        BY <1>7 DEF DataUpdated, CarefulInv, ConnectedIsListed
    <2> QED
        BY <1>7, <2>1, <1>s DEF DataUpdated, engineVars
<1>8. ASSUME NEW e \in Engines, NEW S \in SUBSET Names, Remove(e, S) PROVE AllConnected'
    <2>1. TellRemoved(e, S, {}) /\ Erase(e, S)
        BY <1>8 DEF Remove, MayConnectAgain
    <2>2. /\ users' = [users EXCEPT ![e] = [n \in Names |-> IF n \in S THEN {} ELSE @[n]]]
          /\ sources' = [sources EXCEPT ![e] = @ \ S]
          /\ connectedSources' = [c \in DataSources |->
                IF c \in Audience(e) THEN connectedSources[c] \ S ELSE connectedSources[c]]
          /\ dataEngine' = dataEngine
        BY <2>1 DEF TellRemoved, Erase
    <2> QED
        BY <1>t, <2>2 DEF AllConnected, Audience, ClientTypeOK, EngineInv, EngineTypeOK
<1>9. ASSUME NEW e \in Engines, NEW n \in Names,
             PublishSource(e, n) \/ AnswerRequest(e, n)
      PROVE  AllConnected'
    <2>1. /\ sources' = [sources EXCEPT ![e] = @ \union {n}]
          /\ UNCHANGED <<users, dataEngine, connectedSources>>
        BY <1>9 DEF PublishSource, AnswerRequest, Publish, Answer, SetData
    <2>2. \A x \in Engines : sources[x] \subseteq sources'[x]
        BY <1>t, <2>1 DEF EngineInv, EngineTypeOK
    <2> QED
        BY <2>1, <2>2 DEF AllConnected
<1>11. ASSUME NEW e \in Engines, NEW n \in Names, CheckUsage(e, n) PROVE AllConnected'
    BY <1>11, <1>s DEF CheckUsage, KeepAfterCheck, clientVars
<1>12. CASE UNCHANGED vars
    BY <1>12, <1>s DEF vars, engineVars, clientVars
<1> QED
    BY <1>t, <1>1, <1>2, <1>3, <1>4, <1>5, <1>6, <1>7, <1>8, <1>9, <1>11, <1>12, Steps

\* With careful applications and engines that accept every request, what a DataSource
\* lists as connected and the engine has is connected.
THEOREM ListedConnected ==
    ASSUME Careful, RequestOutcomes \subseteq {"populates", "defers", "adds"}
    PROVE  Spec => []ListedIsConnected
<1>1. Init => AllConnected
    BY DEF Init, AllConnected
<1>2. BaseInv /\ CarefulInv /\ [Next]_vars => CarefulInv'
    BY CarefulStep
<1>3. BaseInv /\ CarefulInv /\ AllConnected /\ [Next]_vars => AllConnected'
    BY AcceptStep
<1>4. AllConnected => ListedIsConnected
    BY DEF AllConnected, ListedIsConnected
<1> QED
    BY <1>1, <1>2, <1>3, <1>4, BaseInit, BaseStep, CarefulInit, PTL DEF Spec

=============================================================================
