----------------------------- MODULE DataEngine -----------------------------
(***************************************************************************)
(* The sources of data engines (dataengine.cpp): how they come into the    *)
(* hash of sources, by a request of a visualization, by the engine itself  *)
(* or by a late answer, and how they leave it.  What the containers tell   *)
(* their visualizations is DataContainer's subject; here a container is    *)
(* its set of visualizations.                                              *)
(*                                                                         *)
(* Each engine announces its sources with sourceAdded and sourceRemoved.   *)
(* The operators below are the engine's side of a step; DataSource adds    *)
(* what the receivers of the signals do in it.                             *)
(***************************************************************************)
EXTENDS FiniteSets

CONSTANTS
    Engines,
    Names,             \* source names
    Visualizations,    \* the objects that connect
    RequestOutcomes    \* what sourceRequestEvent does, see OutcomeKinds

\* "populates": setData with data, or addSource with a container that has some (time),
\* and true; "defers": setData without data, true, and an answer from elsewhere calls
\* setData later (the ions); "adds": addSource with an empty container that fills
\* itself later (executable), true; "refuses": false; "leaves": setData, and false.
OutcomeKinds == {"populates", "defers", "adds", "refuses", "leaves"}

ASSUME DataEngineAssumption == RequestOutcomes \subseteq OutcomeKinds

VARIABLES
    sources,       \* engine -> names in its hash
    filled,        \* engine -> sources that have data
    onRequest,     \* engine -> sources whose becameUnused calls removeSource
    users,         \* engine -> name -> visualizations connected to the container
    usageTimer,    \* engine -> sources whose checkUsageTimer is active
    unanswered,    \* engine -> names an asynchronous answer is under way for
    pushed         \* engine -> sources the engine has made on its own account

engineVars == <<sources, filled, onRequest, users, usageTimer, unanswered, pushed>>

EngineTypeOK ==
    /\ sources \in [Engines -> SUBSET Names]
    /\ filled \in [Engines -> SUBSET Names]
    /\ onRequest \in [Engines -> SUBSET Names]
    /\ users \in [Engines -> [Names -> SUBSET Visualizations]]
    /\ usageTimer \in [Engines -> SUBSET Names]
    /\ unanswered \in [Engines -> SUBSET Names]
    /\ pushed \in [Engines -> SUBSET Names]

EngineInit ==
    /\ sources = [e \in Engines |-> {}]
    /\ filled = [e \in Engines |-> {}]
    /\ onRequest = [e \in Engines |-> {}]
    /\ users = [e \in Engines |-> [n \in Names |-> {}]]
    /\ usageTimer = [e \in Engines |-> {}]
    /\ unanswered = [e \in Engines |-> {}]
    /\ pushed = [e \in Engines |-> {}]

-----------------------------------------------------------------------------
(* Requests *)

\* connectSource of S, with an outcome for each source the engine has not.
Missing(e, S) == S \ sources[e]
Created(e, S, outcome)   == {n \in Missing(e, S) : outcome[n] # "refuses"}
Requested(e, S, outcome) == {n \in Missing(e, S) : outcome[n] \in {"populates", "defers", "adds"}}

\* Mutant: as in setData, nothing is announced of the source that is waited for.
AnnouncedNone(e, S, outcome) == {}

\* The sources that sourceAdded announces; what setData makes for the request that is
\* waiting is announced by requestSource, and only if sourceRequestEvent returns true.
Announced(e, S, outcome) == Requested(e, S, outcome)

\* Mutant: only a source that was there before is joined.
JoinedOld(e, S, outcome) == S \intersect sources[e]

\* The sources whose container the visualization is connected to
Joined(e, S, outcome) == (S \intersect sources[e]) \union Requested(e, S, outcome)

\* connectSource, requestSource
Connect(e, v, S, outcome) ==
    /\ sources' = [sources EXCEPT ![e] = @ \union Created(e, S, outcome)]
    /\ filled' = [filled EXCEPT ![e] =
                    @ \union {n \in Missing(e, S) : outcome[n] \in {"populates", "leaves"}}]
    /\ onRequest' = [onRequest EXCEPT ![e] = @ \union Requested(e, S, outcome)]
    /\ users' = [users EXCEPT ![e] =
                   [n \in Names |-> IF n \in Joined(e, S, outcome) THEN @[n] \union {v} ELSE @[n]]]
    /\ unanswered' = [unanswered EXCEPT ![e] =
                        @ \union {n \in Missing(e, S) : outcome[n] = "defers"}]
    /\ UNCHANGED <<usageTimer, pushed>>

\* Mutant: leaving does not look at the usage of the container.
DisconnectSilently(e, v, S) ==
    /\ users' = [users EXCEPT ![e] = [n \in Names |-> IF n \in S THEN @[n] \ {v} ELSE @[n]]]
    /\ UNCHANGED <<sources, filled, onRequest, usageTimer, unanswered, pushed>>

\* disconnectSource
Disconnect(e, v, S) ==
    /\ users' = [users EXCEPT ![e] = [n \in Names |-> IF n \in S THEN @[n] \ {v} ELSE @[n]]]
    /\ usageTimer' = [usageTimer EXCEPT ![e] = @ \union (S \intersect sources[e])]
    /\ UNCHANGED <<sources, filled, onRequest, unanswered, pushed>>

\* The visualization is destroyed.
DropVisualization(v) ==
    /\ users' = [e \in Engines |-> [n \in Names |-> users[e][n] \ {v}]]
    /\ usageTimer' = [e \in Engines |->
                        usageTimer[e] \union {n \in sources[e] : v \in users[e][n]}]
    /\ UNCHANGED <<sources, filled, onRequest, unanswered, pushed>>

-----------------------------------------------------------------------------
(* The engine changes its sources *)

\* setData of a source the engine has or has not; what the container does with it and
\* whom it tells is DataContainer's subject.
SetData(e, n) ==
    /\ sources' = [sources EXCEPT ![e] = @ \union {n}]
    /\ filled' = [filled EXCEPT ![e] = @ \union {n}]
    /\ UNCHANGED <<onRequest, users, usageTimer>>

\* The engine updates a source, or makes one on its own account (a device, a key).
Publish(e, n) ==
    /\ SetData(e, n)
    /\ pushed' = IF n \in sources[e] THEN pushed ELSE [pushed EXCEPT ![e] = @ \union {n}]
    /\ UNCHANGED unanswered

\* The answer to a request arrives, whatever became of the source meanwhile.
Answer(e, n) ==
    /\ n \in unanswered[e]
    /\ unanswered' = [unanswered EXCEPT ![e] = @ \ {n}]
    /\ SetData(e, n)
    /\ UNCHANGED pushed

\* The containers of S leave the hash and are deleted with their connections.
Erase(e, S) ==
    /\ sources' = [sources EXCEPT ![e] = @ \ S]
    /\ filled' = [filled EXCEPT ![e] = @ \ S]
    /\ onRequest' = [onRequest EXCEPT ![e] = @ \ S]
    /\ users' = [users EXCEPT ![e] = [n \in Names |-> IF n \in S THEN {} ELSE @[n]]]
    /\ usageTimer' = [usageTimer EXCEPT ![e] = @ \ S]
    /\ pushed' = [pushed EXCEPT ![e] = @ \ S]
    /\ UNCHANGED unanswered

\* Mutant: becameUnused is not emitted.
StaysForever(e, n) == TRUE

\* The usage timer fires for a source that is still used, or not made on request.
StaysAfterCheck(e, n) == users[e][n] # {} \/ n \notin onRequest[e]

KeepAfterCheck(e, n) ==
    /\ n \in usageTimer[e] /\ StaysAfterCheck(e, n)
    /\ usageTimer' = [usageTimer EXCEPT ![e] = @ \ {n}]
    /\ UNCHANGED <<sources, filled, onRequest, users, unanswered, pushed>>

-----------------------------------------------------------------------------
(* Properties of the engines alone *)

\* "since it was created on demand, assume it should be removed when not used"
\* (dataengine.cpp 505): an unused source of that kind has its usage timer running.
UnusedIsTimed ==
    \A e \in Engines : \A n \in onRequest[e] : users[e][n] = {} => n \in usageTimer[e]

\* The same for every source the engine did not make on its own account: none stays
\* behind that nobody asked for any more.
NoGhostSource ==
    \A e \in Engines : \A n \in sources[e] \ pushed[e] :
        users[e][n] = {} => n \in usageTimer[e] /\ n \in onRequest[e]

=============================================================================
