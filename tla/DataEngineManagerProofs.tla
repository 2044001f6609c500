---------------------- MODULE DataEngineManagerProofs ----------------------
(***************************************************************************)
(* Where no plugin appears at run time, the manager shares engines as it   *)
(* promises, for any number of consumers and engines.                      *)
(***************************************************************************)
EXTENDS DataEngineManager, FiniteSetTheorems, TLAPS

\* A consumer remembers what it holds; a name it remembers without holding the
\* engine names a plugin that was not there, and so is no engine.
Remembered ==
    \A c \in Consumers, n \in Names :
        /\ holds[c][n] # Null => n \in loadedEngines[c]
        /\ n \in loadedEngines[c] /\ holds[c][n] = Null =>
              n \notin installed /\ ~Registered(n)

IndInv == TypeOK /\ CountsHolders /\ NoDanglingEngine /\ NoUnusedEngine /\ Remembered

LEMMA FiniteHolders ==
  ASSUME NEW n \in Names
  PROVE  IsFiniteSet(Holders(n)) /\ Cardinality(Holders(n)) \in Nat
  <1>1. Holders(n) \in SUBSET Consumers
    BY DEF Holders
  <1>2. IsFiniteSet(Holders(n))
    BY <1>1, FS_Subset, DataEngineManagerAssumption
  <1> QED
    BY <1>2, FS_CardinalityType

\* Giving an engine changes the holders of that engine only.
LEMMA HoldersGive ==
  ASSUME TypeOK, NEW c \in Consumers, NEW n \in Names, NEW e \in Nat,
         holds' = [holds EXCEPT ![c][n] = e]
  PROVE  /\ e # Null => Holders(n)' = Holders(n) \union {c}
         /\ e = Null => Holders(n)' = Holders(n) \ {c}
         /\ \A m \in Names \ {n} : Holders(m)' = Holders(m)
  BY DEF TypeOK, Holders

\* The destructor of a consumer makes it no holder.
LEMMA HoldersDestroy ==
  ASSUME TypeOK, NEW c \in Consumers,
         holds' = [holds EXCEPT ![c] = [n \in Names |-> Null]]
  PROVE  \A m \in Names : Holders(m)' = Holders(m) \ {c}
  BY DEF TypeOK, Holders, Null

LEMMA Initially == Init => IndInv
  <1> SUFFICES ASSUME Init PROVE IndInv
    OBVIOUS
  <1>1. ASSUME NEW n \in Names PROVE Holders(n) = {}
    BY DEF Init, Holders, Null
  <1>2. CountsHolders
    BY <1>1, FS_EmptySet DEF Init, CountsHolders
  <1>3. TypeOK
    BY DEF Init, TypeOK, Null
  <1> QED
    BY <1>2, <1>3 DEF Init, IndInv, NoDanglingEngine, NoUnusedEngine, Remembered, Registered, Null

\* The engines that go with a consumer are those it is the only holder of.
LEMMA UnusedAreSole ==
  ASSUME IndInv, NEW c \in Consumers, NEW n \in Names
  PROVE  /\ n \in Unused(c) <=> Holders(n) = {c}
         /\ n \in loadedEngines[c] /\ Registered(n) <=> c \in Holders(n)
  <1>1. n \in loadedEngines[c] /\ Registered(n) <=> c \in Holders(n)
    BY DEF IndInv, TypeOK, Remembered, NoDanglingEngine, Holders, Registered, Null
  <1>2. Cardinality(Holders(n)) = 1 <=> \E x : Holders(n) = {x}
    BY FiniteHolders, FS_Singleton
  <1>3. refCount[n] = -Cardinality(Holders(n)) /\ Cardinality(Holders(n)) \in Nat
    BY FiniteHolders DEF IndInv, CountsHolders
  <1>4. n \in Unused(c) <=> c \in Holders(n) /\ Cardinality(Holders(n)) = 1
    BY <1>1, <1>3 DEF Unused
  <1> QED
    BY <1>1, <1>2, <1>4

\* Asking for an engine that is known gives the one that is held already.
LEMMA KnownIsHeld ==
  ASSUME IndInv, NEW c \in Consumers, NEW n \in Names, Knows(c, n),
         holds' = [holds EXCEPT ![c][n] = engines[n]]
  PROVE  holds' = holds
  <1>1. holds[c][n] = engines[n]
    BY DEF IndInv, Remembered, NoDanglingEngine, Knows
  <1> QED
    BY <1>1 DEF IndInv, TypeOK

LEMMA RefKeeps ==
  ASSUME IndInv, NEW c \in Consumers, NEW n \in Names, ~Knows(c, n), RefEngine(c, n),
         UNCHANGED <<installed, unwinding>>
  PROVE  IndInv'
  <1> USE DEF IndInv
  <1>1. engines[n] \in Nat /\ engines[n] # Null /\ holds[c][n] = Null /\ c \notin Holders(n)
    BY DEF RefEngine, Registered, Knows, Remembered, TypeOK, Holders
  <1>2. /\ holds' = [holds EXCEPT ![c][n] = engines[n]]
        /\ loadedEngines' = [loadedEngines EXCEPT ![c] = @ \union {n}]
        /\ refCount' = [refCount EXCEPT ![n] = @ - 1]
        /\ UNCHANGED <<created, engines>>
    BY DEF RefEngine, Give
  <1>3. /\ Holders(n)' = Holders(n) \union {c}
        /\ \A m \in Names \ {n} : Holders(m)' = Holders(m)
    BY <1>1, <1>2, HoldersGive
  <1>4. Cardinality(Holders(n)') = Cardinality(Holders(n)) + 1
    BY <1>1, <1>3, FiniteHolders, FS_AddElement
  <1>5. CountsHolders'
    <2>1. refCount[n] = -Cardinality(Holders(n)) /\ Cardinality(Holders(n)) \in Nat
      BY FiniteHolders DEF CountsHolders
    <2>2. refCount'[n] = -Cardinality(Holders(n)')
      BY <1>2, <1>4, <2>1 DEF TypeOK
    <2>3. \A m \in Names \ {n} : refCount'[m] = -Cardinality(Holders(m)')
      BY <1>2, <1>3 DEF TypeOK, CountsHolders
    <2> QED
      BY <2>2, <2>3 DEF CountsHolders
  <1>6. TypeOK'
    BY <1>1, <1>2 DEF TypeOK
  <1>7. NoDanglingEngine' /\ NoUnusedEngine' /\ Remembered'
    BY SMTT(30), <1>1, <1>2, <1>3 DEF TypeOK, NoDanglingEngine, NoUnusedEngine, Remembered, Registered
  <1> QED
    BY <1>5, <1>6, <1>7

LEMMA InstantiateKeeps ==
  ASSUME IndInv, NEW c \in Consumers, NEW n \in Names, InstantiateEngine(c, n),
         UNCHANGED <<installed, unwinding>>
  PROVE  IndInv'
  <1> USE DEF IndInv
  <1> DEFINE e == created + 1
  <1>1. e \in Nat /\ e # Null /\ engines[n] = Null /\ n \in installed
    BY DEF InstantiateEngine, Registered, TypeOK, Null
  <1>2. /\ holds' = [holds EXCEPT ![c][n] = e]
        /\ loadedEngines' = [loadedEngines EXCEPT ![c] = @ \union {n}]
        /\ refCount' = [refCount EXCEPT ![n] = -1]
        /\ engines' = [engines EXCEPT ![n] = e]
        /\ created' = e
    BY DEF InstantiateEngine, Give
  <1> HIDE DEF e
  <1>3. Holders(n) = {}
    BY <1>1 DEF Holders, NoDanglingEngine
  <1>4. /\ Holders(n)' = {c}
        /\ \A m \in Names \ {n} : Holders(m)' = Holders(m)
    <2>1. holds' = [holds EXCEPT ![c][n] = e]
      BY <1>2
    <2>2. /\ Holders(n)' = Holders(n) \union {c}
          /\ \A m \in Names \ {n} : Holders(m)' = Holders(m)
      BY <1>1, <2>1, HoldersGive
    <2> QED
      BY <1>3, <2>2
  <1>5. \A d \in Consumers : n \notin loadedEngines[d]
    BY <1>1, <1>3 DEF Remembered, Holders
  <1>6. CountsHolders'
    <2>1. Cardinality(Holders(n)') = 1
      BY <1>4, FS_Singleton
    <2>2. refCount'[n] = -Cardinality(Holders(n)')
      BY <1>2, <2>1 DEF TypeOK
    <2>3. \A m \in Names \ {n} : refCount'[m] = -Cardinality(Holders(m)')
      BY <1>2, <1>4 DEF TypeOK, CountsHolders
    <2> QED
      BY <2>2, <2>3 DEF CountsHolders
  <1>7. TypeOK'
    BY <1>1, <1>2 DEF TypeOK
  <1>8. NoDanglingEngine' /\ NoUnusedEngine'
    BY <1>1, <1>2, <1>3, <1>4 DEF TypeOK, NoDanglingEngine, NoUnusedEngine, Registered, Holders
  <1>9. Remembered'
    BY <1>1, <1>2, <1>5 DEF TypeOK, Remembered, Registered
  <1> QED
    BY <1>6, <1>7, <1>8, <1>9

LEMMA FailKeeps ==
  ASSUME IndInv, NEW c \in Consumers, NEW n \in Names, FailToLoad(c, n),
         UNCHANGED <<installed, unwinding>>
  PROVE  IndInv' /\ holds' = holds /\ engines' = engines
  <1> USE DEF IndInv
  <1>1. holds[c][n] = Null /\ ~Registered(n) /\ n \notin installed
    BY DEF FailToLoad, NoDanglingEngine, Registered
  <1>2. /\ holds' = holds
        /\ loadedEngines' = [loadedEngines EXCEPT ![c] = @ \union {n}]
        /\ UNCHANGED <<created, engines, refCount, installed, unwinding>>
    BY <1>1 DEF FailToLoad, Give, TypeOK
  <1>3. \A m \in Names : Holders(m)' = Holders(m)
    BY <1>2 DEF Holders
  <1>4. TypeOK'
    BY <1>2 DEF TypeOK
  <1>5. CountsHolders' /\ NoDanglingEngine' /\ NoUnusedEngine'
    BY <1>2, <1>3 DEF CountsHolders, NoDanglingEngine, NoUnusedEngine, Registered
  <1>6. Remembered'
    BY <1>1, <1>2 DEF TypeOK, Remembered, Registered
  <1> QED
    BY <1>2, <1>4, <1>5, <1>6

LEMMA DestroyKeeps ==
  ASSUME IndInv, NEW c \in Consumers, DestroyConsumer(c)
  PROVE  /\ IndInv'
         /\ \A n \in Names : Holders(n)' = Holders(n) \ {c}
  <1> USE DEF IndInv
  <1>1. /\ holds' = [holds EXCEPT ![c] = [n \in Names |-> Null]]
        /\ loadedEngines' = [loadedEngines EXCEPT ![c] = {}]
        /\ engines' = [n \in Names |-> IF n \in Unused(c) THEN Null ELSE engines[n]]
        /\ UNCHANGED <<installed, created>>
    BY DEF DestroyConsumer
  <1>2. \A n \in Names : Holders(n)' = Holders(n) \ {c}
    BY <1>1, HoldersDestroy
  <1>3. ASSUME NEW n \in Names
        PROVE  refCount'[n] = -Cardinality(Holders(n)')
    <2>1. refCount[n] = -Cardinality(Holders(n)) /\ Cardinality(Holders(n)) \in Nat
      BY FiniteHolders DEF CountsHolders
    <2>2. Cardinality(Holders(n)') =
             IF c \in Holders(n) THEN Cardinality(Holders(n)) - 1 ELSE Cardinality(Holders(n))
      BY <1>2, FiniteHolders, FS_RemoveElement
    <2>3. refCount'[n] = IF n \in Unused(c) THEN 0
                         ELSE IF c \in Holders(n) THEN refCount[n] + 1 ELSE refCount[n]
      BY UnusedAreSole DEF DestroyConsumer
    <2>4. CASE n \in Unused(c)
      <3>1. Holders(n)' = {}
        BY <1>2, <2>4, UnusedAreSole
      <3> QED
        BY <2>3, <2>4, <3>1, FS_EmptySet
    <2>5. CASE n \notin Unused(c)
      BY <2>1, <2>2, <2>3, <2>5
    <2> QED
      BY <2>4, <2>5
  <1>4. CountsHolders'
    BY <1>3 DEF CountsHolders
  <1>5. TypeOK'
    <2>1. refCount' \in [Names -> Int]
      BY DEF DestroyConsumer, TypeOK
    <2>2. ASSUME NEW n \in Names PROVE refCount'[n] <= 0
      <3>1. Cardinality(Holders(n)) \in Nat /\ refCount[n] = -Cardinality(Holders(n))
        BY FiniteHolders DEF CountsHolders
      <3>2. c \in Holders(n) => Cardinality(Holders(n)) # 0
        BY FiniteHolders, FS_EmptySet
      <3>3. refCount'[n] = IF n \in Unused(c) THEN 0
                           ELSE IF c \in Holders(n) THEN refCount[n] + 1 ELSE refCount[n]
        BY UnusedAreSole DEF DestroyConsumer
      <3> QED
        BY <3>1, <3>2, <3>3
    <2>3. /\ engines' \in [Names -> Nat]
          /\ holds' \in [Consumers -> [Names -> Nat]]
          /\ loadedEngines' \in [Consumers -> SUBSET Names]
          /\ unwinding' \in SUBSET Consumers
      BY <1>1 DEF DestroyConsumer, TypeOK, Null
    <2> QED
      BY <1>1, <2>1, <2>2, <2>3 DEF TypeOK
  <1>6. NoDanglingEngine'
    <2> SUFFICES ASSUME NEW d \in Consumers, NEW n \in Names, holds'[d][n] # Null
                 PROVE  holds'[d][n] = engines'[n]
      BY DEF NoDanglingEngine
    <2>1. d # c /\ holds'[d][n] = holds[d][n] /\ d \in Holders(n)
      BY <1>1 DEF TypeOK, Holders, Null
    <2>2. n \notin Unused(c)
      BY <2>1, UnusedAreSole
    <2> QED
      BY <1>1, <2>1, <2>2 DEF NoDanglingEngine
  <1>7. NoUnusedEngine'
    <2> SUFFICES ASSUME NEW n \in Names, engines'[n] # Null
                 PROVE  Holders(n)' # {}
      BY DEF NoUnusedEngine, Registered
    <2>1. n \notin Unused(c) /\ Registered(n)
      BY <1>1 DEF Registered
    <2>2. Holders(n) # {} /\ Holders(n) # {c}
      BY <2>1, UnusedAreSole DEF NoUnusedEngine
    <2> QED
      BY <1>2, <2>2
  <1>8. Remembered'
    BY <1>1 DEF TypeOK, Remembered, Registered, Null
  <1> QED
    BY <1>2, <1>4, <1>5, <1>6, <1>7, <1>8

LEMMA PluginKeeps ==
  ASSUME IndInv, ~PluginsAppear, ChangePlugins
  PROVE  IndInv' /\ holds' = holds /\ engines' = engines
  <1>1. /\ installed' \in SUBSET installed
        /\ UNCHANGED <<created, engines, refCount, loadedEngines, holds, unwinding>>
    BY DEF ChangePlugins
  <1>2. \A m \in Names : Holders(m)' = Holders(m)
    BY <1>1 DEF Holders
  <1> QED
    BY <1>1, <1>2 DEF IndInv, TypeOK, CountsHolders, NoDanglingEngine, NoUnusedEngine,
                      Remembered, Registered

LEMMA AskKeeps ==
  ASSUME IndInv, NEW c \in Consumers, NEW n \in Names, AskForEngine(c, n)
  PROVE  IndInv'
  <1>1. CASE Knows(c, n)
    <2>1. holds' = holds
      BY <1>1, KnownIsHeld DEF AskForEngine
    <2>2. UNCHANGED vars
      BY <1>1, <2>1 DEF AskForEngine, vars
    <2>3. \A m \in Names : Holders(m)' = Holders(m)
      BY <2>1 DEF Holders
    <2> QED
      BY <2>2, <2>3 DEF vars, IndInv, TypeOK, CountsHolders, NoDanglingEngine, NoUnusedEngine,
                        Remembered, Registered
  <1>2. CASE ~Knows(c, n)
    BY <1>2, RefKeeps, InstantiateKeeps, FailKeeps DEF AskForEngine
  <1> QED
    BY <1>1, <1>2

LEMMA StepKeeps ==
  ASSUME IndInv, ~PluginsAppear, [Next]_vars
  PROVE  IndInv'
  <1>1. CASE UNCHANGED vars
    <2>1. \A m \in Names : Holders(m)' = Holders(m)
      BY <1>1 DEF Holders, vars
    <2> QED
      BY <1>1, <2>1 DEF vars, IndInv, TypeOK, CountsHolders, NoDanglingEngine, NoUnusedEngine,
                        Remembered, Registered
  <1>2. CASE Next
    BY <1>2, AskKeeps, DestroyKeeps, PluginKeeps DEF Next
  <1> QED
    BY <1>1, <1>2

\* The inductive invariant holds in every reachable state (of a manager whose plugins
\* do not appear at run time, as everywhere below).
LEMMA Invariance ==
  ASSUME ~PluginsAppear
  PROVE  Spec => []IndInv
  BY Initially, StepKeeps, PTL DEF Spec

\* The types are right; in particular no reference is given back that was not taken.
THEOREM ManagerTyping ==
  ASSUME ~PluginsAppear
  PROVE  Spec => []TypeOK
  <1>1. IndInv => TypeOK
    BY DEF IndInv
  <1> QED
    BY <1>1, Invariance, PTL

\* refCount counts the consumers that hold the engine (ref, deref of dataengine.cpp).
THEOREM Counting ==
  ASSUME ~PluginsAppear
  PROVE  Spec => []CountsHolders
  <1>1. IndInv => CountsHolders
    BY DEF IndInv
  <1> QED
    BY <1>1, Invariance, PTL

\* No consumer is left with a pointer to an engine unloadEngine has deleted.
THEOREM NoDangling ==
  ASSUME ~PluginsAppear
  PROVE  Spec => []NoDanglingEngine
  <1>1. IndInv => NoDanglingEngine
    BY DEF IndInv
  <1> QED
    BY <1>1, Invariance, PTL

\* No engine outlives its last user.
THEOREM NoLeak ==
  ASSUME ~PluginsAppear
  PROVE  Spec => []NoUnusedEngine
  <1>1. IndInv => NoUnusedEngine
    BY DEF IndInv
  <1> QED
    BY <1>1, Invariance, PTL

-----------------------------------------------------------------------------
(* The manager implements Sharing *)

LEMMA AskAcquires ==
  ASSUME IndInv, NEW c \in Consumers, NEW n \in Names, AskForEngine(c, n)
  PROVE  [Promise!Next]_(Promise!vars)
  <1> DEFINE users == [m \in Names |-> Holders(m)]
  <1>1. CASE UNCHANGED <<holds, engines>>
    BY <1>1 DEF Promise!vars, Holders
  <1>2. CASE ~Knows(c, n) /\ RefEngine(c, n)
    <2>1. engines[n] \in Nat /\ engines[n] # Null /\ engines' = engines
          /\ holds' = [holds EXCEPT ![c][n] = engines[n]]
      BY <1>2 DEF RefEngine, Give, Registered, IndInv, TypeOK
    <2>2. /\ Holders(n)' = Holders(n) \union {c}
          /\ \A m \in Names \ {n} : Holders(m)' = Holders(m)
      BY <2>1, HoldersGive DEF IndInv
    <2>3. users' = [users EXCEPT ![n] = @ \union {c}]
      BY <2>2
    <2>4. Promise!Acquire(c, n)
      BY <2>1, <2>3 DEF Promise!Acquire, Null
    <2> QED
      BY <2>4 DEF Promise!Next
  <1>3. CASE InstantiateEngine(c, n)
    <2>1. /\ created + 1 \in 1..MaxInstances /\ engines[n] = 0
          /\ engines' = [engines EXCEPT ![n] = created + 1]
          /\ holds' = [holds EXCEPT ![c][n] = created + 1]
      BY <1>3, DataEngineManagerAssumption DEF InstantiateEngine, Give, Registered, Null, IndInv, TypeOK
    <2>2. created + 1 \in Nat /\ created + 1 # Null
      BY DEF IndInv, TypeOK, Null
    <2>3. /\ Holders(n)' = Holders(n) \union {c}
          /\ \A m \in Names \ {n} : Holders(m)' = Holders(m)
      BY <2>1, <2>2, HoldersGive DEF IndInv
    <2>4. users' = [users EXCEPT ![n] = @ \union {c}]
      BY <2>3
    <2>5. Promise!Acquire(c, n)
      BY <2>1, <2>4 DEF Promise!Acquire
    <2> QED
      BY <2>5 DEF Promise!Next
  <1>4. CASE FailToLoad(c, n)
    BY <1>1, <1>4, FailKeeps DEF AskForEngine
  <1>5. CASE Knows(c, n)
    BY <1>1, <1>5, KnownIsHeld DEF AskForEngine
  <1> QED
    BY <1>2, <1>3, <1>4, <1>5 DEF AskForEngine

LEMMA DestroyReleases ==
  ASSUME IndInv, NEW c \in Consumers, DestroyConsumer(c)
  PROVE  [Promise!Next]_(Promise!vars)
  <1>1. \A n \in Names : Holders(n)' = Holders(n) \ {c}
    BY DestroyKeeps
  <1>2. engines' = [n \in Names |-> IF Holders(n) = {c} THEN 0 ELSE engines[n]]
    BY UnusedAreSole DEF DestroyConsumer, Null
  <1>3. Promise!Release(c)
    BY <1>1, <1>2 DEF Promise!Release
  <1> QED
    BY <1>3 DEF Promise!Next

LEMMA StepImplements ==
  ASSUME IndInv, ~PluginsAppear, [Next]_vars
  PROVE  [Promise!Next]_(Promise!vars)
  <1>1. CASE UNCHANGED <<holds, engines>>
    BY <1>1 DEF Promise!vars, Holders
  <1>2. CASE Next
    BY <1>1, <1>2, AskAcquires, DestroyReleases, PluginKeeps DEF Next
  <1> QED
    BY <1>1, <1>2 DEF vars

\* Every behaviour of manager and consumers is one of the abstract specification: an
\* engine is one object for all its users and goes with the last of them.
THEOREM Implements ==
  ASSUME ~PluginsAppear
  PROVE  Spec => SharesEngines
  <1>1. Init => Promise!Init
    BY DEF Init, Promise!Init, Holders, Null
  <1>2. ASSUME IndInv, [Next]_vars PROVE [Promise!Next]_(Promise!vars)
    BY <1>2, StepImplements
  <1> QED
    BY <1>1, <1>2, Invariance, PTL DEF Spec, SharesEngines, Promise!Spec

=============================================================================
