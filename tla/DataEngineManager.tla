------------------------- MODULE DataEngineManager -------------------------
(***************************************************************************)
(* The manager of the loaded engines (private/dataenginemanager.cpp), the  *)
(* reference counts of the engines (dataengine.cpp) and the consumers that *)
(* load and release them (dataengineconsumer.cpp).                         *)
(*                                                                         *)
(* A consumer remembers the names it asked for, not what it was given.  An *)
(* engine may be a consumer itself (the weather engine loads its ions), so *)
(* that deleting one engine releases others: "unwinding" holds the         *)
(* consumers whose destructor is running.                                  *)
(***************************************************************************)
EXTENDS Integers, FiniteSets

CONSTANTS
    Consumers,       \* DataEngineConsumer objects
    Names,           \* engine names, the empty one included
    Owner,           \* consumer -> the engine it is part of, or NoEngine
    NoEngine,
    PluginsAppear,   \* plugins may be installed while the program runs
    MaxInstances     \* bound: engines created in a behaviour

ASSUME DataEngineManagerAssumption ==
    /\ IsFiniteSet(Consumers)
    /\ Owner \in [Consumers -> Names \union {NoEngine}]
    /\ NoEngine \notin Names
    /\ PluginsAppear \in BOOLEAN
    /\ MaxInstances \in Nat

Null == 0   \* the NullEngine; it holds a reference on itself and is never deleted

VARIABLES
    installed,      \* names whose plugin can be instantiated
    created,        \* engines created so far; each has its number
    engines,        \* name -> the engine registered, Null if none
    refCount,       \* refCount of the registered engines: minus one per reference
    loadedEngines,  \* consumer -> names it will unload
    holds,          \* consumer -> name -> the engine it was given last
    unwinding       \* consumers being destroyed

vars == <<installed, created, engines, refCount, loadedEngines, holds, unwinding>>

Init ==
    /\ installed \in SUBSET Names
    /\ created = 0
    /\ engines = [n \in Names |-> Null]
    /\ refCount = [n \in Names |-> 0]
    /\ loadedEngines = [c \in Consumers |-> {}]
    /\ holds = [c \in Consumers |-> [n \in Names |-> Null]]
    /\ unwinding = {}

\* DataEngineManager::engine gives a valid engine: only the NullEngine calls
\* setValid(false), no plugin of the repository does.
Registered(n) == engines[n] # Null

\* The object the consumer is part of exists.
Exists(c) == Owner[c] \in Names => Registered(Owner[c])

-----------------------------------------------------------------------------

Give(c, n, e) ==
    /\ holds' = [holds EXCEPT ![c][n] = e]
    /\ loadedEngines' = [loadedEngines EXCEPT ![c] = @ \union {n}]

\* The engine is registered: loadEngine takes a reference.
RefEngine(c, n) ==
    /\ Registered(n)
    /\ refCount' = [refCount EXCEPT ![n] = @ - 1]
    /\ Give(c, n, engines[n])
    /\ UNCHANGED <<created, engines>>

\* Mutant: the first reference is not counted.
InstantiateUnreferenced(c, n) ==
    /\ ~Registered(n) /\ n \in installed
    /\ created < MaxInstances
    /\ created' = created + 1
    /\ engines' = [engines EXCEPT ![n] = created + 1]
    /\ refCount' = [refCount EXCEPT ![n] = 0]
    /\ Give(c, n, created + 1)

\* It is not: the plugin is instantiated; refCount starts at -1, the first reference.
InstantiateEngine(c, n) ==
    /\ ~Registered(n) /\ n \in installed
    /\ created < MaxInstances
    /\ created' = created + 1
    /\ engines' = [engines EXCEPT ![n] = created + 1]
    /\ refCount' = [refCount EXCEPT ![n] = -1]
    /\ Give(c, n, created + 1)

\* There is no such plugin: the consumer is given the NullEngine, and still
\* remembers the name.
FailToLoad(c, n) ==
    /\ ~Registered(n) /\ n \notin installed
    /\ Give(c, n, Null)
    /\ UNCHANGED <<created, engines, refCount>>

\* Mutant: a reference is taken on every call.
KnowsNothing(c, n) == FALSE

\* Mutant: any engine that is registered is handed out without a reference.
KnowsEverything(c, n) == Registered(n)

\* The consumer loaded that name before, and there is a valid engine of that name.
Knows(c, n) == n \in loadedEngines[c] /\ Registered(n)

\* DataEngineConsumer::dataEngine
AskForEngine(c, n) ==
    /\ unwinding = {} /\ Exists(c)
    /\ \/ /\ Knows(c, n)
          /\ holds' = [holds EXCEPT ![c][n] = engines[n]]
          /\ UNCHANGED <<created, engines, refCount, loadedEngines>>
       \/ /\ ~Knows(c, n)
          /\ RefEngine(c, n) \/ InstantiateEngine(c, n) \/ FailToLoad(c, n)
    /\ UNCHANGED <<installed, unwinding>>

\* Mutants: the last reference does not delete; any reference given back deletes.
NeverUnused(c) == {}
UnusedAtOnce(c) == {n \in loadedEngines[c] : Registered(n)}

\* The engines that have no reference left when the consumer gives back its own
Unused(c) == {n \in loadedEngines[c] : Registered(n) /\ refCount[n] + 1 = 0}

\* ~DataEngineConsumer: unloadEngine for each name it remembers.  An engine that is
\* deleted destroys the consumer it is.  The object may then be constructed again.
DestroyConsumer(c) ==
    /\ c \in unwinding \/ (unwinding = {} /\ Owner[c] = NoEngine)
    /\ refCount' = [n \in Names |->
                      IF n \in Unused(c) THEN 0
                      ELSE IF n \in loadedEngines[c] /\ Registered(n) THEN refCount[n] + 1
                      ELSE refCount[n]]
    /\ engines' = [n \in Names |-> IF n \in Unused(c) THEN Null ELSE engines[n]]
    /\ loadedEngines' = [loadedEngines EXCEPT ![c] = {}]
    /\ holds' = [holds EXCEPT ![c] = [n \in Names |-> Null]]
    /\ unwinding' = (unwinding \ {c}) \union {d \in Consumers : Owner[d] \in Unused(c)}
    /\ UNCHANGED <<installed, created>>

\* The plugins on disk change: some are removed and, with PluginsAppear, some installed.
ChangePlugins ==
    /\ unwinding = {}
    /\ installed' \in SUBSET (IF PluginsAppear THEN Names ELSE installed)
    /\ UNCHANGED <<created, engines, refCount, loadedEngines, holds, unwinding>>

Next ==
    \/ \E c \in Consumers :
          \/ DestroyConsumer(c)
          \/ \E n \in Names : AskForEngine(c, n)
    \/ ChangePlugins

Spec == Init /\ [][Next]_vars

-----------------------------------------------------------------------------
(* Properties *)

TypeOK ==
    /\ installed \in SUBSET Names
    /\ created \in Nat
    /\ engines \in [Names -> Nat]
    /\ refCount \in [Names -> Int] /\ \A n \in Names : refCount[n] <= 0
    /\ loadedEngines \in [Consumers -> SUBSET Names]
    /\ holds \in [Consumers -> [Names -> Nat]]
    /\ unwinding \in SUBSET Consumers

Holders(n) == {c \in Consumers : holds[c][n] # Null}

\* The count, which ref() decreases and deref() increases, is minus the number of
\* consumers that hold the engine: repeated requests of one consumer count once.
CountsHolders == \A n \in Names : refCount[n] = -Cardinality(Holders(n))

\* "all engines accessed using it are de-referenced and possibly deleted (in the case
\* that there are no other users of the engine in question)" (dataengineconsumer.h 28):
\* what a consumer was given is the engine that is registered, never a deleted one.
NoDanglingEngine ==
    \A c \in Consumers, n \in Names : holds[c][n] # Null => holds[c][n] = engines[n]

\* An engine goes with its last user, through engines that are consumers as well.
NoUnusedEngine == \A n \in Names : Registered(n) => Holders(n) # {}

\* The promise to the consumers
Promise == INSTANCE Sharing
    WITH Users <- Consumers, Engines <- Names, Objects <- 1..MaxInstances,
         users <- [n \in Names |-> Holders(n)],
         instance <- engines

\* Loading, sharing and releasing engines implements the promise, step by step.
SharesEngines == Promise!Spec

=============================================================================
