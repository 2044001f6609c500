------------------------ MODULE ContainerStorageProofs ------------------------
(***************************************************************************)
(* Theorems about ContainerStorage for every set of keys, values and jobs  *)
(* and any number of sets, crashes and failures of the database.           *)
(***************************************************************************)
EXTENDS ContainerStorage, SubsequenceProofs, FiniteSetTheorems

(* The inductive invariant *)

Operations == {"save", "retrieve", "expire"}
Events == [what : {"autoStart", "run", "deleteStorage", "deleteContainer"}, job : JobIds \union {NoJob}]

DataMaps == UNION {[D -> Values] : D \in SUBSET Keys}
Jobs == [operation : Operations, data : DataMaps, current : BOOLEAN]
JobMaps == UNION {[D -> Jobs] : D \in SUBSET JobIds}

Services == [storage : BOOLEAN, storageCount : Int, jobs : JobMaps, events : Seq(Events)]

TypeOK ==
  /\ data \in DataMaps /\ table \in DataMaps
  /\ {isStored, enableStorage, storageTimer, retrieveTimer, removing, failed, unread} \subseteq BOOLEAN
  /\ service \in Services
  /\ sets \in Nat /\ faults \in Nat

\* The events of a service are about its jobs: none about a job that is gone, none
\* twice about a job, but not yet one about each job.
EventsFit(s) ==
  /\ \A n \in DOMAIN s.events :
       IF s.events[n].what \in {"autoStart", "run"} THEN s.events[n].job \in DOMAIN s.jobs
                                                   ELSE s.events[n].job = NoJob
  /\ \A n, m \in DOMAIN s.events : s.events[n].job = s.events[m].job /\ s.events[n].job # NoJob => n = m

Queued(s, id) == \E n \in DOMAIN s.events : s.events[n].job = id

OfOperation(s, operation) == {id \in DOMAIN s.jobs : s.jobs[id].operation = operation}
Saves(s) == OfOperation(s, "save")

\* Every save is one that the container's storage has asked for, and n have not ended.
SavesAre(s, n) ==
  /\ n = Cardinality(Saves(s))
  /\ \A id \in Saves(s) : s.storage /\ s.jobs[id].current

\* A service with n saves: its jobs are queued once each, and nothing else is.
Fits(s, n) ==
  /\ EventsFit(s)
  /\ \A id \in DOMAIN s.jobs : Queued(s, id)
  /\ SavesAre(s, n)

ServiceFits == Fits(service, service.storageCount)

\* One of two jobs runs before the other.
Before(s, a, b) ==
  \A n, m \in DOMAIN s.events :
    s.events[n].job = a /\ s.events[m].job = b =>
      \/ s.events[n].what = "run" /\ s.events[m].what = "autoStart"
      \/ s.events[n].what = s.events[m].what /\ n < m

\* The save that runs last has the data d.
LastSaves(s, d) ==
  \E id \in Saves(s) : s.jobs[id].data = d /\ \A o \in Saves(s) \ {id} : Before(s, o, id)

\* Data that count as stored are in the database when all saves have ended: nothing is
\* saved before the retrieval, and the last save that runs has the last data.
StoredInTheEnd ==
  /\ Saves(service) # {} => enableStorage
  /\ ~removing =>
       /\ ~isStored => enableStorage /\ storageTimer
       /\ retrieveTimer \/ OfOperation(service, "retrieve") # {} => Saves(service) = {}
       /\ isStored /\ ~failed =>
            \/ Saves(service) = {} /\ TableHolds(data)
            \/ LastSaves(service, data)

IndInv == TypeOK /\ ServiceFits /\ (~EnableLate => StoredInTheEnd)

-----------------------------------------------------------------------------
(* Services *)

LEMMA FreshJob ==
  ASSUME NEW s \in Services, Room(s)
  PROVE  Min(JobIds \ DOMAIN s.jobs) \in JobIds \ DOMAIN s.jobs
  <1>1. DOMAIN s.jobs \subseteq JobIds
    BY DEF Services, JobMaps
  <1>2. JobIds \ DOMAIN s.jobs # {} /\ JobIds \ DOMAIN s.jobs \in SUBSET Nat
    BY <1>1, StorageAssumption DEF Room
  <1>3. \E x \in JobIds \ DOMAIN s.jobs : \A y \in JobIds \ DOMAIN s.jobs : x <= y
    BY <1>2, LeastNatural
  <1> QED
    BY <1>3 DEF Min

LEMMA EventTypes ==
  /\ NoJob \notin JobIds
  /\ \A id \in JobIds : Event("autoStart", id) \in Events /\ Event("run", id) \in Events
  /\ Event("deleteStorage", NoJob) \in Events /\ Event("deleteContainer", NoJob) \in Events
  BY StorageAssumption DEF Event, Events, NoJob

LEMMA NoDataIsData == NoData \in DataMaps
  <1>1. NoData \in [{} -> Values]
    BY DEF NoData
  <1> QED
    BY <1>1 DEF DataMaps

\* An event is posted behind the others.
LEMMA PostedQueue ==
  ASSUME NEW s \in Services, NEW e \in Events
  PROVE  /\ Posted(s, e) \in Services
         /\ Posted(s, e).jobs = s.jobs /\ Posted(s, e).storage = s.storage
         /\ Posted(s, e).storageCount = s.storageCount
         /\ DOMAIN Posted(s, e).events = DOMAIN s.events \union {Len(s.events) + 1}
         /\ \A n \in DOMAIN s.events : n < Len(s.events) + 1 /\ Posted(s, e).events[n] = s.events[n]
         /\ Posted(s, e).events[Len(s.events) + 1] = e
  <1>1. s.events \in Seq(Events)
    BY DEF Services
  <1>2. /\ Append(s.events, e) \in Seq(Events)
        /\ DOMAIN Append(s.events, e) = DOMAIN s.events \union {Len(s.events) + 1}
        /\ \A n \in DOMAIN s.events : n < Len(s.events) + 1 /\ Append(s.events, e)[n] = s.events[n]
        /\ Append(s.events, e)[Len(s.events) + 1] = e
    BY <1>1
  <1> QED
    BY <1>2 DEF Posted, Services

\* The jobs that are deleted take their events with them; the others stay in order.
LEMMA DeletedQueue ==
  ASSUME NEW s \in Services, NEW ids \in SUBSET JobIds
  PROVE  /\ Deleted(s, ids) \in Services
         /\ Deleted(s, ids).storage = s.storage /\ Deleted(s, ids).storageCount = s.storageCount
         /\ DOMAIN Deleted(s, ids).jobs = DOMAIN s.jobs \ ids
         /\ \A id \in DOMAIN s.jobs \ ids : Deleted(s, ids).jobs[id] = s.jobs[id]
         /\ \E g \in [DOMAIN Deleted(s, ids).events -> DOMAIN s.events] :
              /\ \A n \in DOMAIN Deleted(s, ids).events :
                   Deleted(s, ids).events[n] = s.events[g[n]] /\ s.events[g[n]].job \notin ids
              /\ \A n, m \in DOMAIN Deleted(s, ids).events : n < m => g[n] < g[m]
              /\ \A m \in DOMAIN s.events : s.events[m].job \notin ids =>
                   \E n \in DOMAIN Deleted(s, ids).events : g[n] = m
  <1> DEFINE places == {n \in DOMAIN s.events : s.events[n].job \notin ids}
             r == Subsequence(s.events, places)
             jobs == [id \in DOMAIN s.jobs \ ids |-> s.jobs[id]]
  <1>1. s.events \in Seq(Events) /\ s.jobs \in JobMaps
    BY DEF Services
  <1>2. Deleted(s, ids) = [s EXCEPT !.jobs = jobs, !.events = r]
    BY DEF Deleted
  <1>3. jobs \in JobMaps
    <2>1. PICK D \in SUBSET JobIds : s.jobs \in [D -> Jobs]
      BY <1>1 DEF JobMaps
    <2>2. jobs \in [D \ ids -> Jobs]
      BY <2>1
    <2> QED
      BY <2>2 DEF JobMaps
  <1>4. /\ r \in Seq(Events)
        /\ \E g \in [1..Len(r) -> 1..Len(s.events)] : Picks(g, r, s.events, places, Len(s.events))
    BY <1>1, SubsequencePicks
  <1>5. DOMAIN r = 1..Len(r) /\ DOMAIN s.events = 1..Len(s.events)
    BY <1>1, <1>4
  <1>6. PICK g \in [DOMAIN r -> DOMAIN s.events] :
          /\ \A n \in DOMAIN r : r[n] = s.events[g[n]] /\ s.events[g[n]].job \notin ids
          /\ \A n, m \in DOMAIN r : n < m => g[n] < g[m]
          /\ \A m \in DOMAIN s.events : s.events[m].job \notin ids => \E n \in DOMAIN r : g[n] = m
    <2>1. PICK g \in [1..Len(r) -> 1..Len(s.events)] : Picks(g, r, s.events, places, Len(s.events))
      BY <1>4
    <2> HIDE DEF r
    <2>2. /\ \A n \in DOMAIN r : r[n] = s.events[g[n]] /\ s.events[g[n]].job \notin ids
          /\ \A n, m \in DOMAIN r : n < m => g[n] < g[m]
          /\ \A m \in DOMAIN s.events : s.events[m].job \notin ids => \E n \in DOMAIN r : g[n] = m
      BY <1>5, <2>1 DEF Picks
    <2>3. g \in [DOMAIN r -> DOMAIN s.events]
      BY <1>5
    <2> QED
      BY <2>2, <2>3
  <1> HIDE DEF r, jobs
  <1>7. Deleted(s, ids) \in Services /\ Deleted(s, ids).events = r /\ Deleted(s, ids).jobs = jobs
    BY <1>2, <1>3, <1>4 DEF Services
  <1>8. Deleted(s, ids).storage = s.storage /\ Deleted(s, ids).storageCount = s.storageCount
    BY <1>2 DEF Services
  <1>9. DOMAIN jobs = DOMAIN s.jobs \ ids /\ \A id \in DOMAIN s.jobs \ ids : jobs[id] = s.jobs[id]
    BY DEF jobs
  <1> QED
    BY <1>6, <1>7, <1>8, <1>9

\* A job is started with its call queued behind the others.
LEMMA StartedQueue ==
  ASSUME NEW s \in Services, Room(s), NEW operation \in Operations, NEW d \in DataMaps
  PROVE  /\ Started(s, operation, d) \in Services
         /\ Started(s, operation, d).storage = TRUE
         /\ Started(s, operation, d).storageCount = s.storageCount
         /\ \E id \in JobIds \ DOMAIN s.jobs :
              /\ DOMAIN Started(s, operation, d).jobs = DOMAIN s.jobs \union {id}
              /\ Started(s, operation, d).jobs[id] = [operation |-> operation, data |-> d, current |-> TRUE]
              /\ \A i \in DOMAIN s.jobs : Started(s, operation, d).jobs[i] = s.jobs[i]
              /\ Started(s, operation, d).events = Append(s.events, Event("autoStart", id))
  <1> DEFINE id == Min(JobIds \ DOMAIN s.jobs)
             job == [operation |-> operation, data |-> d, current |-> TRUE]
             jobs == [i \in DOMAIN s.jobs \union {id} |-> IF i = id THEN job ELSE s.jobs[i]]
             t == [s EXCEPT !.jobs = jobs, !.storage = TRUE]
  <1>1. id \in JobIds \ DOMAIN s.jobs
    BY FreshJob
  <1> HIDE DEF id
  <1>2. job \in Jobs
    BY DEF Jobs
  <1> HIDE DEF job
  <1>3. jobs \in JobMaps
    <2>1. PICK D \in SUBSET JobIds : s.jobs \in [D -> Jobs]
      BY DEF JobMaps, Services
    <2>2. jobs \in [D \union {id} -> Jobs] /\ D \union {id} \in SUBSET JobIds
      BY <1>1, <1>2, <2>1
    <2> QED
      BY <2>2 DEF JobMaps
  <1>4. /\ DOMAIN jobs = DOMAIN s.jobs \union {id} /\ jobs[id] = job
        /\ \A i \in DOMAIN s.jobs : jobs[i] = s.jobs[i]
    BY <1>1
  <1> HIDE DEF jobs
  <1>5. t \in Services /\ t.jobs = jobs /\ t.storage = TRUE /\ t.storageCount = s.storageCount /\ t.events = s.events
    BY <1>3 DEF Services
  <1>6. Started(s, operation, d) = Posted(t, Event("autoStart", id))
    BY DEF Started, id, job, jobs
  <1> HIDE DEF t
  <1>7. Event("autoStart", id) \in Events
    BY <1>1, EventTypes
  <1>8. /\ Posted(t, Event("autoStart", id)) \in Services
        /\ Posted(t, Event("autoStart", id)).jobs = jobs
        /\ Posted(t, Event("autoStart", id)).storage = TRUE
        /\ Posted(t, Event("autoStart", id)).storageCount = s.storageCount
    BY <1>5, <1>7, PostedQueue
  <1>9. Posted(t, Event("autoStart", id)).events = Append(s.events, Event("autoStart", id))
    BY <1>5 DEF Posted, Services
  <1>10. /\ id \in JobIds \ DOMAIN s.jobs
         /\ DOMAIN Started(s, operation, d).jobs = DOMAIN s.jobs \union {id}
         /\ Started(s, operation, d).jobs[id] = [operation |-> operation, data |-> d, current |-> TRUE]
         /\ \A i \in DOMAIN s.jobs : Started(s, operation, d).jobs[i] = s.jobs[i]
         /\ Started(s, operation, d).events = Append(s.events, Event("autoStart", id))
    BY <1>1, <1>4, <1>6, <1>8, <1>9 DEF job
  <1>11. /\ Started(s, operation, d) \in Services
         /\ Started(s, operation, d).storage = TRUE
         /\ Started(s, operation, d).storageCount = s.storageCount
    BY <1>6, <1>8
  <1> QED
    BY <1>10, <1>11

\* t has events of s, in their order.
Embeds(g, t, s) ==
  /\ \A n \in DOMAIN t.events : t.events[n] = s.events[g[n]]
  /\ \A n, m \in DOMAIN t.events : n < m => g[n] < g[m]

\* What is left of the events of a service keeps what they fit and their order.
LEMMA EmbeddedOrder ==
  ASSUME NEW s \in Services, NEW t \in Services,
         NEW g \in [DOMAIN t.events -> DOMAIN s.events], Embeds(g, t, s)
  PROVE  /\ (\A n, m \in DOMAIN s.events : s.events[n].job = s.events[m].job /\ s.events[n].job # NoJob => n = m)
              => \A n, m \in DOMAIN t.events : t.events[n].job = t.events[m].job /\ t.events[n].job # NoJob => n = m
         /\ \A a, b : Before(s, a, b) => Before(t, a, b)
  <1>1. DOMAIN t.events \subseteq Nat /\ DOMAIN s.events \subseteq Nat
    BY DEF Services
  <1>2. ASSUME \A n, m \in DOMAIN s.events : s.events[n].job = s.events[m].job /\ s.events[n].job # NoJob => n = m,
               NEW n \in DOMAIN t.events, NEW m \in DOMAIN t.events,
               t.events[n].job = t.events[m].job, t.events[n].job # NoJob
        PROVE  n = m
    <2>1. g[n] \in DOMAIN s.events /\ g[m] \in DOMAIN s.events
      OBVIOUS
    <2>2. g[n] = g[m]
      BY <1>2, <2>1 DEF Embeds
    <2>3. ~(n < m) /\ ~(m < n)
      BY <1>1, <2>1, <2>2 DEF Embeds
    <2> QED
      BY <1>1, <2>3
  <1>3. ASSUME NEW a, NEW b, Before(s, a, b), NEW n \in DOMAIN t.events, NEW m \in DOMAIN t.events,
               t.events[n].job = a, t.events[m].job = b
        PROVE  \/ t.events[n].what = "run" /\ t.events[m].what = "autoStart"
               \/ t.events[n].what = t.events[m].what /\ n < m
    <2>1. g[n] \in DOMAIN s.events /\ g[m] \in DOMAIN s.events
      OBVIOUS
    <2>2. t.events[n] = s.events[g[n]] /\ t.events[m] = s.events[g[m]]
      BY DEF Embeds
    <2>3. \/ s.events[g[n]].what = "run" /\ s.events[g[m]].what = "autoStart"
          \/ s.events[g[n]].what = s.events[g[m]].what /\ g[n] < g[m]
      BY <1>3, <2>1, <2>2 DEF Before
    <2>4. ASSUME g[n] < g[m] PROVE n < m
      <3>1. n # m /\ ~(m < n)
        BY <1>1, <2>1, <2>4 DEF Embeds
      <3> QED
        BY <1>1, <3>1
    <2> QED
      BY <2>2, <2>3, <2>4
  <1>4. \A a, b : Before(s, a, b) => Before(t, a, b)
    BY <1>3 DEF Before
  <1> QED
    BY <1>2, <1>4

\* The service when its first event has been taken
Rest(s) == [s EXCEPT !.events = Tail(@)]

LEMMA RestQueue ==
  ASSUME NEW s \in Services, s.events # <<>>
  PROVE  /\ 1 \in DOMAIN s.events /\ Head(s.events) = s.events[1] /\ s.events[1] \in Events
         /\ Rest(s) \in Services
         /\ Rest(s).jobs = s.jobs /\ Rest(s).storage = s.storage /\ Rest(s).storageCount = s.storageCount
         /\ \A n \in DOMAIN Rest(s).events : n + 1 \in DOMAIN s.events /\ Rest(s).events[n] = s.events[n + 1]
         /\ \A m \in DOMAIN s.events : m # 1 => m - 1 \in DOMAIN Rest(s).events /\ Rest(s).events[m - 1] = s.events[m]
  <1>1. s.events \in Seq(Events)
    BY DEF Services
  <1>2. /\ 1 \in DOMAIN s.events /\ Head(s.events) = s.events[1] /\ s.events[1] \in Events
        /\ Tail(s.events) \in Seq(Events)
        /\ \A n \in DOMAIN Tail(s.events) : n + 1 \in DOMAIN s.events /\ Tail(s.events)[n] = s.events[n + 1]
        /\ \A m \in DOMAIN s.events : m # 1 => m - 1 \in DOMAIN Tail(s.events) /\ Tail(s.events)[m - 1] = s.events[m]
    BY <1>1
  <1> QED
    BY <1>2 DEF Rest, Services

\* The rest of the events, without those of jobs that are deleted
LEMMA RestDeletedQueue ==
  ASSUME NEW s \in Services, s.events # <<>>, NEW ids \in SUBSET JobIds
  PROVE  \E g \in [DOMAIN Deleted(Rest(s), ids).events -> DOMAIN s.events] :
           /\ Embeds(g, Deleted(Rest(s), ids), s)
           /\ \A n \in DOMAIN Deleted(Rest(s), ids).events : g[n] # 1 /\ s.events[g[n]].job \notin ids
           /\ \A m \in DOMAIN s.events : m # 1 /\ s.events[m].job \notin ids =>
                \E n \in DOMAIN Deleted(Rest(s), ids).events : g[n] = m
  <1> DEFINE r == Rest(s)
             t == Deleted(r, ids)
  <1>1. /\ r \in Services
        /\ \A n \in DOMAIN r.events : n + 1 \in DOMAIN s.events /\ r.events[n] = s.events[n + 1]
        /\ \A m \in DOMAIN s.events : m # 1 => m - 1 \in DOMAIN r.events /\ r.events[m - 1] = s.events[m]
    BY RestQueue
  <1>2. DOMAIN r.events \subseteq Nat \ {0} /\ DOMAIN s.events \subseteq Nat
    BY <1>1 DEF Services
  <1> HIDE DEF r
  <1>3. PICK f \in [DOMAIN t.events -> DOMAIN r.events] :
          /\ \A n \in DOMAIN t.events : t.events[n] = r.events[f[n]] /\ r.events[f[n]].job \notin ids
          /\ \A n, m \in DOMAIN t.events : n < m => f[n] < f[m]
          /\ \A m \in DOMAIN r.events : r.events[m].job \notin ids => \E n \in DOMAIN t.events : f[n] = m
    BY <1>1, DeletedQueue
  <1> HIDE DEF t
  <1> DEFINE g == [n \in DOMAIN t.events |-> f[n] + 1]
  <1>4. \A n \in DOMAIN t.events : g[n] = f[n] + 1 /\ f[n] \in DOMAIN r.events
    OBVIOUS
  <1>5. g \in [DOMAIN t.events -> DOMAIN s.events]
    BY <1>1, <1>4
  <1> HIDE DEF g
  <1>6. \A n \in DOMAIN t.events : t.events[n] = s.events[g[n]] /\ g[n] # 1 /\ s.events[g[n]].job \notin ids
    BY <1>1, <1>2, <1>3, <1>4
  <1>7. \A n, m \in DOMAIN t.events : n < m => g[n] < g[m]
    BY <1>2, <1>3, <1>4
  <1>8. ASSUME NEW m \in DOMAIN s.events, m # 1, s.events[m].job \notin ids
        PROVE  \E n \in DOMAIN t.events : g[n] = m
    <2>1. m - 1 \in DOMAIN r.events /\ r.events[m - 1].job \notin ids
      BY <1>1, <1>8
    <2>2. PICK n \in DOMAIN t.events : f[n] = m - 1
      BY <1>3, <2>1
    <2>3. g[n] = m
      BY <1>2, <1>4, <2>2
    <2> QED
      BY <2>3
  <1>9. Embeds(g, t, s)
    BY <1>6, <1>7 DEF Embeds
  <1> QED
    BY <1>5, <1>6, <1>8, <1>9 DEF r, t

LEMMA JobsOfService ==
  ASSUME NEW s \in Services
  PROVE  /\ DOMAIN s.jobs \subseteq JobIds
         /\ \A id \in DOMAIN s.jobs : s.jobs[id] \in Jobs
         /\ Saves(s) \subseteq DOMAIN s.jobs /\ IsFiniteSet(Saves(s))
         /\ \A n \in DOMAIN s.events : s.events[n] \in Events
         /\ DOMAIN s.events = 1..Len(s.events) /\ Len(s.events) \in Nat
  <1>1. DOMAIN s.jobs \subseteq JobIds /\ \A id \in DOMAIN s.jobs : s.jobs[id] \in Jobs
    BY DEF Services, JobMaps
  <1>2. Saves(s) \subseteq DOMAIN s.jobs
    BY DEF Saves, OfOperation
  <1>3. IsFiniteSet(Saves(s))
    BY <1>1, <1>2, StorageAssumption, FS_Subset
  <1>4. s.events \in Seq(Events)
    BY DEF Services
  <1> QED
    BY <1>1, <1>2, <1>3, <1>4

\* Events about the container or its storage disturb no job.
LEMMA PostedFits ==
  ASSUME NEW s \in Services, NEW n, Fits(s, n), NEW what \in {"deleteStorage", "deleteContainer"}
  PROVE  /\ Posted(s, Event(what, NoJob)) \in Services
         /\ Posted(s, Event(what, NoJob)).jobs = s.jobs
         /\ Posted(s, Event(what, NoJob)).storageCount = s.storageCount
         /\ Fits(Posted(s, Event(what, NoJob)), n)
         /\ \A a, b \in JobIds : Before(s, a, b) => Before(Posted(s, Event(what, NoJob)), a, b)
  <1> DEFINE e == Event(what, NoJob)
             t == Posted(s, e)
             l == Len(s.events) + 1
  <1>1. e \in Events /\ e.what = what /\ e.job = NoJob /\ NoJob \notin JobIds
    BY EventTypes DEF Event
  <1> HIDE DEF e
  <1>2. /\ t \in Services /\ t.jobs = s.jobs /\ t.storage = s.storage /\ t.storageCount = s.storageCount
        /\ DOMAIN t.events = DOMAIN s.events \union {l}
        /\ \A m \in DOMAIN s.events : m < l /\ t.events[m] = s.events[m]
        /\ t.events[l] = e
    BY <1>1, PostedQueue
  <1> HIDE DEF t, l
  <1>3. EventsFit(t)
    <2>1. \A m \in DOMAIN t.events :
             IF t.events[m].what \in {"autoStart", "run"} THEN t.events[m].job \in DOMAIN t.jobs
                                                         ELSE t.events[m].job = NoJob
      BY <1>1, <1>2 DEF Fits, EventsFit
    <2>2. \A m, o \in DOMAIN t.events : t.events[m].job = t.events[o].job /\ t.events[m].job # NoJob => m = o
      BY <1>1, <1>2 DEF Fits, EventsFit
    <2> QED
      BY <2>1, <2>2 DEF EventsFit
  <1>4. \A id \in DOMAIN t.jobs : Queued(t, id)
    BY <1>2 DEF Fits, Queued
  <1>5. SavesAre(t, n)
    BY <1>2 DEF Fits, SavesAre, Saves, OfOperation
  <1>6. \A a, b \in JobIds : Before(s, a, b) => Before(t, a, b)
    BY <1>1, <1>2 DEF Before
  <1> QED
    BY <1>2, <1>3, <1>4, <1>5, <1>6 DEF Fits, t, e

\* A job that is started is queued behind all others.
LEMMA StartedFits ==
  ASSUME NEW s \in Services, Room(s), NEW n \in Int, Fits(s, n), NEW operation \in Operations, NEW d \in DataMaps
  PROVE  /\ Started(s, operation, d) \in Services
         /\ Started(s, operation, d).storageCount = s.storageCount
         /\ Fits(Started(s, operation, d), IF operation = "save" THEN n + 1 ELSE n)
         /\ operation = "save" => LastSaves(Started(s, operation, d), d)
         /\ operation # "save" => Saves(Started(s, operation, d)) = Saves(s)
         /\ OfOperation(Started(s, operation, d), "retrieve") # {} =>
              operation = "retrieve" \/ OfOperation(s, "retrieve") # {}
         /\ \A id \in DOMAIN s.jobs : Started(s, operation, d).jobs[id] = s.jobs[id]
         /\ \A a, b \in DOMAIN s.jobs : Before(s, a, b) => Before(Started(s, operation, d), a, b)
  <1> DEFINE t == Started(s, operation, d)
             l == Len(s.events) + 1
  <1>1. t \in Services /\ t.storage = TRUE /\ t.storageCount = s.storageCount
    BY StartedQueue
  <1>2. PICK id \in JobIds \ DOMAIN s.jobs :
              /\ DOMAIN t.jobs = DOMAIN s.jobs \union {id}
              /\ t.jobs[id] = [operation |-> operation, data |-> d, current |-> TRUE]
              /\ \A i \in DOMAIN s.jobs : t.jobs[i] = s.jobs[i]
              /\ t.events = Append(s.events, Event("autoStart", id))
    BY StartedQueue
  <1> HIDE DEF t
  <1> DEFINE e == Event("autoStart", id)
  <1>3. e.what = "autoStart" /\ e.job = id /\ id # NoJob /\ NoJob \notin JobIds
    BY EventTypes DEF Event
  <1>4. /\ DOMAIN t.events = DOMAIN s.events \union {l}
        /\ \A m \in DOMAIN s.events : m < l /\ t.events[m] = s.events[m]
        /\ t.events[l] = e
    <2>1. s.events \in Seq(Events) /\ e \in Events
      BY EventTypes DEF Services
    <2> HIDE DEF e
    <2>2. t.events = Append(s.events, e)
      BY <1>2 DEF e
    <2> QED
      BY <2>1, <2>2
  <1> HIDE DEF e, l
  <1>5. DOMAIN s.jobs \subseteq JobIds
    BY JobsOfService
  <1>6. \A m \in DOMAIN s.events : s.events[m].job # id
    BY <1>2, <1>3 DEF Fits, EventsFit
  <1>7. EventsFit(t)
    <2>1. \A m \in DOMAIN t.events :
             IF t.events[m].what \in {"autoStart", "run"} THEN t.events[m].job \in DOMAIN t.jobs
                                                         ELSE t.events[m].job = NoJob
      BY <1>2, <1>3, <1>4 DEF Fits, EventsFit
    <2>2. \A m, o \in DOMAIN t.events : t.events[m].job = t.events[o].job /\ t.events[m].job # NoJob => m = o
      BY <1>3, <1>4, <1>6 DEF Fits, EventsFit
    <2> QED
      BY <2>1, <2>2 DEF EventsFit
  <1>8. \A i \in DOMAIN t.jobs : Queued(t, i)
    BY <1>2, <1>3, <1>4 DEF Fits, Queued
  <1>9. Saves(t) = IF operation = "save" THEN Saves(s) \union {id} ELSE Saves(s)
    BY <1>2 DEF Saves, OfOperation
  <1>10. SavesAre(t, IF operation = "save" THEN n + 1 ELSE n)
    <2>1. IsFiniteSet(Saves(s)) /\ id \notin Saves(s)
      BY <1>2, JobsOfService
    <2>2. Cardinality(Saves(s) \union {id}) = Cardinality(Saves(s)) + 1
      BY <2>1, FS_AddElement
    <2>3. \A i \in Saves(t) : t.storage /\ t.jobs[i].current
      BY <1>1, <1>2, <1>9 DEF Fits, SavesAre, Saves, OfOperation
    <2> QED
      BY <1>9, <2>2, <2>3 DEF Fits, SavesAre
  <1>11. ASSUME NEW o \in DOMAIN s.jobs PROVE Before(t, o, id)
    <2> SUFFICES ASSUME NEW m \in DOMAIN t.events, NEW k \in DOMAIN t.events,
                        t.events[m].job = o, t.events[k].job = id
                 PROVE  \/ t.events[m].what = "run" /\ t.events[k].what = "autoStart"
                        \/ t.events[m].what = t.events[k].what /\ m < k
      BY DEF Before
    <2>1. k = l /\ t.events[k].what = "autoStart"
      BY <1>3, <1>4, <1>6
    <2>2. m \in DOMAIN s.events /\ m < l /\ t.events[m] = s.events[m]
      BY <1>2, <1>3, <1>4
    <2>3. o # NoJob
      BY <1>3, <1>5
    <2>4. s.events[m].what \in {"autoStart", "run"}
      BY <2>2, <2>3 DEF Fits, EventsFit
    <2> QED
      BY <2>1, <2>2, <2>4
  <1>12. operation = "save" => LastSaves(t, d)
    BY <1>2, <1>9, <1>11 DEF LastSaves, Saves, OfOperation
  <1>13. \A a, b \in DOMAIN s.jobs : Before(s, a, b) => Before(t, a, b)
    BY <1>2, <1>3, <1>4 DEF Before
  <1>14. OfOperation(t, "retrieve") # {} => operation = "retrieve" \/ OfOperation(s, "retrieve") # {}
    BY <1>2 DEF OfOperation
  <1>15. Fits(t, IF operation = "save" THEN n + 1 ELSE n)
    BY <1>7, <1>8, <1>10 DEF Fits
  <1> HIDE DEF Fits, LastSaves, Before, OfOperation
  <1> QED
    BY <1>1, <1>2, <1>9, <1>12, <1>13, <1>14, <1>15 DEF t

\* The queued call of autoStart queues the operation, behind all others.
LEMMA AutoStartFits ==
  ASSUME NEW s \in Services, NEW n, Fits(s, n), s.events # <<>>, s.events[1].what = "autoStart"
  PROVE  /\ Posted(Rest(s), Event("run", s.events[1].job)) \in Services
         /\ Posted(Rest(s), Event("run", s.events[1].job)).jobs = s.jobs
         /\ Posted(Rest(s), Event("run", s.events[1].job)).storageCount = s.storageCount
         /\ Fits(Posted(Rest(s), Event("run", s.events[1].job)), n)
         /\ \A a, b \in DOMAIN s.jobs : a # b /\ Before(s, a, b) =>
              Before(Posted(Rest(s), Event("run", s.events[1].job)), a, b)
  <1> DEFINE r == Rest(s)
             job == s.events[1].job
             e == Event("run", job)
             t == Posted(r, e)
             l == Len(r.events) + 1
  <1>1. /\ 1 \in DOMAIN s.events /\ r \in Services
        /\ r.jobs = s.jobs /\ r.storage = s.storage /\ r.storageCount = s.storageCount
        /\ \A m \in DOMAIN r.events : m + 1 \in DOMAIN s.events /\ r.events[m] = s.events[m + 1]
        /\ \A m \in DOMAIN s.events : m # 1 => m - 1 \in DOMAIN r.events /\ r.events[m - 1] = s.events[m]
    BY RestQueue
  <1> HIDE DEF r
  <1>2. job \in DOMAIN s.jobs /\ DOMAIN s.jobs \subseteq JobIds
    BY <1>1, JobsOfService DEF Fits, EventsFit
  <1>3. e \in Events /\ e.what = "run" /\ e.job = job /\ job # NoJob /\ NoJob \notin JobIds
    BY <1>2, EventTypes DEF Event
  <1> HIDE DEF e
  <1>4. /\ t \in Services /\ t.jobs = r.jobs /\ t.storage = r.storage /\ t.storageCount = r.storageCount
        /\ DOMAIN t.events = DOMAIN r.events \union {l}
        /\ \A m \in DOMAIN r.events : m < l /\ t.events[m] = r.events[m]
        /\ t.events[l] = e
    BY <1>1, <1>3, PostedQueue
  <1> HIDE DEF t, l
  <1>5. DOMAIN s.events \subseteq Nat \ {0} /\ DOMAIN r.events \subseteq Nat \ {0}
    BY <1>1, JobsOfService
  <1>6. \A m \in DOMAIN r.events : r.events[m].job # job
    <2> SUFFICES ASSUME NEW m \in DOMAIN r.events, r.events[m].job = job PROVE FALSE
      OBVIOUS
    <2>1. m + 1 \in DOMAIN s.events /\ s.events[m + 1].job = s.events[1].job
      BY <1>1
    <2>2. m + 1 = 1
      BY <1>1, <1>3, <2>1 DEF Fits, EventsFit
    <2> QED
      BY <1>5, <2>2
  <1>7. \A m, o \in DOMAIN r.events : r.events[m].job = r.events[o].job /\ r.events[m].job # NoJob => m = o
    BY <1>1, <1>5 DEF Fits, EventsFit
  <1>8. EventsFit(t)
    <2>1. \A m \in DOMAIN t.events :
             IF t.events[m].what \in {"autoStart", "run"} THEN t.events[m].job \in DOMAIN t.jobs
                                                         ELSE t.events[m].job = NoJob
      BY <1>1, <1>2, <1>3, <1>4 DEF Fits, EventsFit
    <2>2. \A m, o \in DOMAIN t.events : t.events[m].job = t.events[o].job /\ t.events[m].job # NoJob => m = o
      BY <1>3, <1>4, <1>6, <1>7
    <2> QED
      BY <2>1, <2>2 DEF EventsFit
  <1>9. ASSUME NEW id \in DOMAIN t.jobs PROVE Queued(t, id)
    <2>1. PICK m \in DOMAIN s.events : s.events[m].job = id
      BY <1>1, <1>4, <1>9 DEF Fits, Queued
    <2>2. CASE m = 1
      BY <1>3, <1>4, <2>1, <2>2 DEF Queued
    <2>3. CASE m # 1
      BY <1>1, <1>4, <2>1, <2>3 DEF Queued
    <2> QED
      BY <2>2, <2>3
  <1>10. SavesAre(t, n)
    BY <1>1, <1>4 DEF Fits, SavesAre, Saves, OfOperation
  <1>11. ASSUME NEW a \in DOMAIN s.jobs, NEW b \in DOMAIN s.jobs, a # b, Before(s, a, b) PROVE Before(t, a, b)
    <2> SUFFICES ASSUME NEW m \in DOMAIN t.events, NEW o \in DOMAIN t.events,
                        t.events[m].job = a, t.events[o].job = b
                 PROVE  \/ t.events[m].what = "run" /\ t.events[o].what = "autoStart"
                        \/ t.events[m].what = t.events[o].what /\ m < o
      BY DEF Before
    <2>1. CASE m # l /\ o # l
      <3>1. m \in DOMAIN r.events /\ o \in DOMAIN r.events
        BY <1>4, <2>1
      <3>2. /\ m + 1 \in DOMAIN s.events /\ o + 1 \in DOMAIN s.events
            /\ t.events[m] = s.events[m + 1] /\ t.events[o] = s.events[o + 1]
        BY <1>1, <1>4, <3>1
      <3>3. \/ s.events[m + 1].what = "run" /\ s.events[o + 1].what = "autoStart"
            \/ s.events[m + 1].what = s.events[o + 1].what /\ m + 1 < o + 1
        BY <1>11, <3>2 DEF Before
      <3> QED
        BY <1>5, <3>1, <3>2, <3>3
    <2>2. CASE m = l
      <3>1. a = job /\ o \in DOMAIN r.events
        BY <1>3, <1>4, <1>11, <2>2
      <3>2. o + 1 \in DOMAIN s.events /\ s.events[o + 1] = t.events[o]
        BY <1>1, <1>4, <3>1
      <3>3. s.events[1].what = s.events[o + 1].what
        BY <1>1, <1>11, <3>1, <3>2 DEF Before
      <3> QED
        BY <1>3, <1>4, <2>2, <3>2, <3>3
    <2>3. CASE o = l
      <3>1. b = job /\ m \in DOMAIN r.events
        BY <1>3, <1>4, <1>11, <2>3
      <3>2. m + 1 \in DOMAIN s.events /\ s.events[m + 1] = t.events[m] /\ m < l /\ ~(m + 1 < 1)
        BY <1>1, <1>4, <1>5, <3>1
      <3>3. s.events[m + 1].what = "run"
        BY <1>1, <1>11, <3>1, <3>2 DEF Before
      <3> QED
        BY <1>3, <1>4, <2>3, <3>2, <3>3
    <2> QED
      BY <2>1, <2>2, <2>3
  <1>12. Fits(t, n)
    BY <1>8, <1>9, <1>10 DEF Fits
  <1> QED
    BY <1>1, <1>4, <1>11, <1>12 DEF r, e, t

\* Jobs that are deleted, the one of the first event among them, take along their events.
LEMMA DeletedFits ==
  ASSUME NEW s \in Services, NEW n, Fits(s, n), s.events # <<>>, NEW ids \in SUBSET JobIds,
         s.events[1].job \in ids \/ s.events[1].job = NoJob
  PROVE  /\ Deleted(Rest(s), ids) \in Services
         /\ Deleted(Rest(s), ids).storage = s.storage
         /\ Deleted(Rest(s), ids).storageCount = s.storageCount
         /\ DOMAIN Deleted(Rest(s), ids).jobs = DOMAIN s.jobs \ ids
         /\ \A id \in DOMAIN s.jobs \ ids : Deleted(Rest(s), ids).jobs[id] = s.jobs[id]
         /\ Saves(Deleted(Rest(s), ids)) = Saves(s) \ ids
         /\ Fits(Deleted(Rest(s), ids), Cardinality(Saves(s) \ ids))
         /\ \A a, b : Before(s, a, b) => Before(Deleted(Rest(s), ids), a, b)
  <1> DEFINE t == Deleted(Rest(s), ids)
  <1>1. /\ Rest(s) \in Services /\ Rest(s).jobs = s.jobs
        /\ Rest(s).storage = s.storage /\ Rest(s).storageCount = s.storageCount
    BY RestQueue
  <1>2. /\ t \in Services /\ t.storage = s.storage /\ t.storageCount = s.storageCount
        /\ DOMAIN t.jobs = DOMAIN s.jobs \ ids
        /\ \A id \in DOMAIN s.jobs \ ids : t.jobs[id] = s.jobs[id]
    BY <1>1, DeletedQueue
  <1>3. PICK g \in [DOMAIN t.events -> DOMAIN s.events] :
           /\ Embeds(g, t, s)
           /\ \A m \in DOMAIN t.events : g[m] # 1 /\ s.events[g[m]].job \notin ids
           /\ \A m \in DOMAIN s.events : m # 1 /\ s.events[m].job \notin ids =>
                \E k \in DOMAIN t.events : g[k] = m
    BY RestDeletedQueue
  <1> HIDE DEF t
  <1>4. /\ \A m, k \in DOMAIN t.events : t.events[m].job = t.events[k].job /\ t.events[m].job # NoJob => m = k
        /\ \A a, b : Before(s, a, b) => Before(t, a, b)
    BY <1>2, <1>3, EmbeddedOrder DEF Fits, EventsFit
  <1>5. \A m \in DOMAIN t.events :
             IF t.events[m].what \in {"autoStart", "run"} THEN t.events[m].job \in DOMAIN t.jobs
                                                         ELSE t.events[m].job = NoJob
    <2> SUFFICES ASSUME NEW m \in DOMAIN t.events
                 PROVE  IF t.events[m].what \in {"autoStart", "run"} THEN t.events[m].job \in DOMAIN t.jobs
                                                                    ELSE t.events[m].job = NoJob
      OBVIOUS
    <2>1. g[m] \in DOMAIN s.events /\ t.events[m] = s.events[g[m]] /\ s.events[g[m]].job \notin ids
      BY <1>3 DEF Embeds
    <2> QED
      BY <1>2, <2>1 DEF Fits, EventsFit
  <1>6. ASSUME NEW id \in DOMAIN t.jobs PROVE Queued(t, id)
    <2>1. id \in DOMAIN s.jobs /\ id \notin ids /\ id \in JobIds /\ id # NoJob
      BY <1>2, JobsOfService, EventTypes
    <2>2. PICK m \in DOMAIN s.events : s.events[m].job = id
      BY <2>1 DEF Fits, Queued
    <2>3. m # 1
      BY <2>1, <2>2
    <2>4. PICK k \in DOMAIN t.events : g[k] = m
      BY <1>3, <2>1, <2>2, <2>3
    <2>5. t.events[k].job = id
      BY <1>3, <2>2, <2>4 DEF Embeds
    <2> QED
      BY <2>5 DEF Queued
  <1>7. Saves(t) = Saves(s) \ ids
    BY <1>2 DEF Saves, OfOperation
  <1>8. \A id \in Saves(t) : t.storage /\ t.jobs[id].current
    BY <1>2, <1>7 DEF Fits, SavesAre, Saves, OfOperation
  <1>9. Fits(t, Cardinality(Saves(s) \ ids))
    BY <1>4, <1>5, <1>6, <1>7, <1>8 DEF Fits, EventsFit, SavesAre
  <1> QED
    BY <1>2, <1>4, <1>7, <1>9 DEF t

\* The count of the saves is adjusted when one has ended; the last one is not
\* the end of another.
LEMMA StoreJobFinishedFits ==
  ASSUME NEW s \in Services, Fits(s, s.storageCount - 1)
  PROVE  /\ StoreJobFinished(s) \in Services
         /\ Fits(StoreJobFinished(s), StoreJobFinished(s).storageCount)
         /\ Saves(StoreJobFinished(s)) = Saves(s)
         /\ OfOperation(StoreJobFinished(s), "retrieve") = OfOperation(s, "retrieve")
         /\ \A id \in DOMAIN s.jobs : StoreJobFinished(s).jobs[id].data = s.jobs[id].data
         /\ \A a, b \in JobIds : Before(s, a, b) => Before(StoreJobFinished(s), a, b)
  <1> DEFINE c == [s EXCEPT !.storageCount = @ - 1]
             jobs == [id \in DOMAIN c.jobs |-> [c.jobs[id] EXCEPT !.current = FALSE]]
             u == [c EXCEPT !.storage = FALSE, !.jobs = jobs]
  <1>1. /\ c \in Services /\ c.storageCount = s.storageCount - 1 /\ c.storageCount \in Int
        /\ c.jobs = s.jobs /\ c.events = s.events /\ c.storage = s.storage
    BY DEF Services
  <1>2. Fits(c, c.storageCount) /\ \A a, b : Before(s, a, b) => Before(c, a, b)
    BY <1>1 DEF Fits, EventsFit, Queued, SavesAre, Saves, OfOperation, Before
  <1>3. StoreJobFinished(s) = IF c.storageCount > 0 THEN c ELSE Posted(u, Event("deleteStorage", NoJob))
    BY DEF StoreJobFinished
  <1> HIDE DEF c
  <1>4. CASE c.storageCount > 0
    <2>1. StoreJobFinished(s) = c
      BY <1>3, <1>4
    <2> QED
      BY <1>1, <1>2, <2>1 DEF Saves, OfOperation
  <1>5. CASE ~(c.storageCount > 0)
    <2>1. \A id \in DOMAIN s.jobs : jobs[id] = [s.jobs[id] EXCEPT !.current = FALSE] /\ jobs[id] \in Jobs
      BY <1>1, JobsOfService DEF Jobs
    <2>2. \A id \in DOMAIN s.jobs : jobs[id].operation = s.jobs[id].operation /\ jobs[id].data = s.jobs[id].data
      <3>1. \A j \in Jobs : [j EXCEPT !.current = FALSE].operation = j.operation
                         /\ [j EXCEPT !.current = FALSE].data = j.data
        BY DEF Jobs
      <3>2. \A id \in DOMAIN s.jobs : s.jobs[id] \in Jobs
        BY JobsOfService
      <3> HIDE DEF jobs
      <3> QED
        BY <2>1, <3>1, <3>2
    <2>3. DOMAIN jobs = DOMAIN s.jobs /\ jobs \in JobMaps
      <3>1. DOMAIN jobs = DOMAIN s.jobs
        BY <1>1
      <3>2. jobs \in [DOMAIN s.jobs -> Jobs] /\ DOMAIN s.jobs \in SUBSET JobIds
        BY <1>1, <2>1, JobsOfService
      <3> QED
        BY <3>1, <3>2 DEF JobMaps
    <2> HIDE DEF jobs
    <2>4. u \in Services /\ u.jobs = jobs /\ u.events = s.events /\ u.storageCount = c.storageCount
      BY <1>1, <2>3 DEF Services
    <2> HIDE DEF u
    <2>5. /\ Saves(u) = Saves(s) /\ OfOperation(u, "retrieve") = OfOperation(s, "retrieve")
          /\ \A a, b : Before(s, a, b) => Before(u, a, b)
      BY <2>2, <2>3, <2>4 DEF Saves, OfOperation, Before
    <2>6. Saves(s) = {}
      <3>1. Cardinality(Saves(s)) = c.storageCount /\ IsFiniteSet(Saves(s))
        BY <1>1, JobsOfService DEF Fits, SavesAre
      <3>2. Cardinality(Saves(s)) \in Nat
        BY <3>1, FS_CardinalityType
      <3> QED
        BY <1>5, <3>1, <3>2, FS_EmptySet
    <2>7. Fits(u, c.storageCount)
      BY <1>1, <2>3, <2>4, <2>5, <2>6 DEF Fits, EventsFit, Queued, SavesAre
    <2> DEFINE p == Posted(u, Event("deleteStorage", NoJob))
    <2>8. /\ p \in Services /\ p.jobs = u.jobs /\ p.storageCount = u.storageCount /\ Fits(p, c.storageCount)
          /\ \A a, b \in JobIds : Before(u, a, b) => Before(p, a, b)
      BY <2>4, <2>7, PostedFits
    <2>9. StoreJobFinished(s) = p
      BY <1>3, <1>5
    <2> HIDE DEF p
    <2>10. Saves(p) = Saves(u) /\ OfOperation(p, "retrieve") = OfOperation(u, "retrieve")
      BY <2>8 DEF Saves, OfOperation
    <2> QED
      BY <2>2, <2>4, <2>5, <2>8, <2>9, <2>10
  <1> QED
    BY <1>4, <1>5

\* Saves that stay in their order end as they would.
LEMMA LastSavesKept ==
  ASSUME NEW s, NEW t, NEW d, LastSaves(s, d), Saves(t) = Saves(s),
         \A id \in Saves(s) : t.jobs[id].data = s.jobs[id].data,
         \A a, b \in Saves(s) : a # b /\ Before(s, a, b) => Before(t, a, b)
  PROVE  LastSaves(t, d)
  <1>1. PICK id \in Saves(s) : s.jobs[id].data = d /\ \A o \in Saves(s) \ {id} : Before(s, o, id)
    BY DEF LastSaves
  <1>2. id \in Saves(t) /\ t.jobs[id].data = d /\ \A o \in Saves(t) \ {id} : Before(t, o, id)
    BY <1>1
  <1> QED
    BY <1>2 DEF LastSaves

-----------------------------------------------------------------------------
(* Steps *)

LEMMA NewServiceFits == NoService \in Services /\ Fits(NoService, 0) /\ Saves(NoService) = {}
  <1>1. [id \in {} |-> Invalid] \in [{} -> Jobs] /\ {} \in SUBSET JobIds
    OBVIOUS
  <1>2. [id \in {} |-> Invalid] \in JobMaps
    BY <1>1 DEF JobMaps
  <1>3. NoService \in Services
    BY <1>2 DEF NoService, Services
  <1>4. DOMAIN NoService.events = {} /\ DOMAIN NoService.jobs = {} /\ NoService.storageCount = 0
    BY DEF NoService
  <1>5. Saves(NoService) = {}
    BY <1>4 DEF Saves, OfOperation
  <1>6. Fits(NoService, 0)
    BY <1>4, <1>5, FS_EmptySet DEF Fits, EventsFit, SavesAre
  <1> QED
    BY <1>3, <1>5, <1>6

LEMMA NewContainerKeeps ==
  ASSUME IndInv, NewContainer, faults' \in Nat
  PROVE  IndInv'
  <1>1. service' = NoService /\ NoService.storageCount = 0
    BY DEF NewContainer, NoService
  <1>2. TypeOK'
    BY <1>1, NewServiceFits, NoDataIsData DEF IndInv, TypeOK, NewContainer
  <1>3. ServiceFits'
    BY <1>1, NewServiceFits DEF ServiceFits
  <1>4. data' = NoData /\ DOMAIN NoData = {}
    BY DEF NewContainer, NoData
  <1>5. TableHolds(data)'
    BY <1>4 DEF TableHolds
  <1>6. StoredInTheEnd'
    <2>1. Saves(service)' = {}
      BY <1>1, NewServiceFits
    <2> QED
      BY <1>5, <2>1 DEF StoredInTheEnd, NewContainer
  <1> QED
    BY <1>2, <1>3, <1>6 DEF IndInv

LEMMA SetDataKeeps ==
  ASSUME IndInv, NEW k \in Keys, NEW v \in Values \union {Invalid}, SetData(k, v)
  PROVE  IndInv'
  <1>1. data' \in DataMaps
    <2>1. PICK D \in SUBSET Keys : data \in [D -> Values]
      BY DEF IndInv, TypeOK, DataMaps
    <2>2. data' \in [(D \ {k}) \union {x \in {k} : v # Invalid} -> Values]
      BY <2>1 DEF SetData
    <2> QED
      BY <2>2 DEF DataMaps
  <1>2. service' = service
    BY DEF SetData
  <1>3. TypeOK'
    <2>1. {isStored', enableStorage', storageTimer', retrieveTimer', removing', failed', unread'} \subseteq BOOLEAN
      BY DEF IndInv, TypeOK, SetData
    <2>2. table' \in DataMaps /\ service' \in Services /\ sets' \in Nat /\ faults' \in Nat
      BY DEF IndInv, TypeOK, SetData
    <2> QED
      BY <1>1, <2>1, <2>2 DEF TypeOK
  <1>4. ServiceFits'
    BY <1>2 DEF IndInv, ServiceFits
  <1>5. ASSUME ~EnableLate PROVE StoredInTheEnd'
    <2>1. StoredInTheEnd /\ enableStorage' /\ enableStorage /\ storageTimer' /\ ~isStored'
      BY <1>5 DEF IndInv, SetData
    <2> QED
      BY <1>2, <2>1 DEF StoredInTheEnd, SetData
  <1> QED
    BY <1>3, <1>4, <1>5 DEF IndInv

LEMMA SetStorageEnabledKeeps ==
  ASSUME IndInv, SetStorageEnabled
  PROVE  IndInv'
  <1>1. service' = service /\ data' = data /\ table' = table
    BY DEF SetStorageEnabled
  <1>2. TypeOK'
    BY DEF IndInv, TypeOK, SetStorageEnabled, bounds
  <1>3. ServiceFits'
    BY <1>1 DEF IndInv, ServiceFits
  <1>4. ASSUME ~EnableLate PROVE StoredInTheEnd'
    <2>1. TableHolds(data) => TableHolds(data)'
      BY <1>1 DEF TableHolds
    <2> QED
      BY <1>1, <1>4, <2>1 DEF IndInv, StoredInTheEnd, SetStorageEnabled
  <1> QED
    BY <1>2, <1>3, <1>4 DEF IndInv

\* What store leaves of the service: the save it starts is the last one.
LEMMA StoredFits ==
  ASSUME IndInv, Room(service)
  PROVE  /\ Stored(service) \in Services
         /\ Fits(Stored(service), Stored(service).storageCount)
         /\ Needed => LastSaves(Stored(service), data)
         /\ ~Needed => Stored(service) = service
         /\ OfOperation(Stored(service), "retrieve") # {} => OfOperation(service, "retrieve") # {}
  <1>1. service \in Services /\ data \in DataMaps /\ Fits(service, service.storageCount) /\ service.storageCount \in Int
    BY DEF IndInv, TypeOK, ServiceFits, Services
  <1>2. CASE ~Needed
    BY <1>1, <1>2 DEF Stored
  <1>3. CASE Needed
    <2> DEFINE t == Started(service, "save", data)
               u == [t EXCEPT !.storageCount = @ + 1]
    <2>1. /\ t \in Services /\ t.storageCount = service.storageCount
          /\ Fits(t, service.storageCount + 1) /\ LastSaves(t, data)
          /\ OfOperation(t, "retrieve") # {} => OfOperation(service, "retrieve") # {}
      <3>1. "save" \in Operations
        BY DEF Operations
      <3> QED
        BY <1>1, <3>1, StartedFits
    <2> HIDE DEF t
    <2>2. /\ u \in Services /\ u.jobs = t.jobs /\ u.events = t.events /\ u.storage = t.storage
          /\ u.storageCount = service.storageCount + 1
      BY <2>1 DEF Services
    <2>3. Stored(service) = u
      BY <1>3 DEF Stored, t
    <2> HIDE DEF u
    <2>4. Fits(u, u.storageCount)
      BY <2>1, <2>2 DEF Fits, EventsFit, Queued, SavesAre, Saves, OfOperation
    <2>5. Saves(u) = Saves(t) /\ OfOperation(u, "retrieve") = OfOperation(t, "retrieve")
          /\ \A a, b : Before(t, a, b) => Before(u, a, b)
      BY <2>2 DEF Saves, OfOperation, Before
    <2>6. LastSaves(u, data)
      BY <2>1, <2>2, <2>5, LastSavesKept
    <2> QED
      BY <1>3, <2>1, <2>2, <2>3, <2>4, <2>5, <2>6
  <1> QED
    BY <1>2, <1>3

LEMMA StorageTimeoutKeeps ==
  ASSUME IndInv, StorageTimeout
  PROVE  IndInv'
  <1>1. service' = Stored(service) /\ data' = data /\ table' = table
    BY DEF StorageTimeout
  <1>2. Room(service)
    BY DEF StorageTimeout
  <1>3. TypeOK' /\ ServiceFits'
    BY <1>1, <1>2, StoredFits DEF IndInv, TypeOK, StorageTimeout, bounds, Needed, ServiceFits
  <1>4. ASSUME ~EnableLate PROVE StoredInTheEnd'
    <2>1. CASE Needed
      <3>1. LastSaves(service, data)' /\ enableStorage'
        BY <1>1, <1>2, <2>1, StoredFits DEF Needed, StorageTimeout
      <3>2. ~retrieveTimer' /\ OfOperation(service, "retrieve")' = {} /\ isStored'
        <4>1. Running("retrieve") = OfOperation(service, "retrieve")
          BY DEF Running, OfOperation
        <4>2. OfOperation(Stored(service), "retrieve") = {}
          BY <1>2, <1>4, <4>1, StoredFits DEF StorageTimeout
        <4> QED
          BY <1>1, <1>4, <2>1, <4>2 DEF StorageTimeout
      <3> QED
        BY <3>1, <3>2 DEF StoredInTheEnd
    <2>2. CASE ~Needed
      <3>1. service' = service
        BY <1>1, <1>2, <2>2, StoredFits
      <3>2. TableHolds(data) => TableHolds(data)'
        BY <1>1 DEF TableHolds
      <3>3. ~isStored => ~enableStorage
        BY <2>2 DEF Needed
      <3>4. isStored' = isStored
        BY <2>2 DEF IndInv, TypeOK, StorageTimeout
      <3> QED
        BY <1>1, <1>4, <3>1, <3>2, <3>3, <3>4 DEF IndInv, StoredInTheEnd, StorageTimeout
    <2> QED
      BY <2>1, <2>2
  <1> QED
    BY <1>3, <1>4 DEF IndInv

LEMMA RetrieveKeeps ==
  ASSUME IndInv, Retrieve
  PROVE  IndInv'
  <1> DEFINE t == Started(service, "retrieve", NoData)
  <1>1. service' = t /\ data' = data /\ table' = table
    BY DEF Retrieve
  <1>2. service \in Services /\ Fits(service, service.storageCount) /\ service.storageCount \in Int /\ Room(service)
    BY DEF IndInv, TypeOK, ServiceFits, Services, Retrieve
  <1>3. "retrieve" \in Operations /\ "retrieve" # "save"
    BY DEF Operations
  <1>4. /\ t \in Services /\ t.storageCount = service.storageCount
        /\ Fits(t, service.storageCount) /\ Saves(t) = Saves(service)
    BY <1>2, <1>3, NoDataIsData, StartedFits
  <1> HIDE DEF t
  <1>5. TypeOK' /\ ServiceFits'
    BY <1>1, <1>4 DEF IndInv, TypeOK, Retrieve, bounds, ServiceFits
  <1>6. ASSUME ~EnableLate PROVE StoredInTheEnd'
    <2>1. TableHolds(data) => TableHolds(data)'
      BY <1>1 DEF TableHolds
    <2>2. Saves(service)' = Saves(service)
      BY <1>1, <1>4
    <2>3. ~removing => Saves(service) = {}
      BY <1>6 DEF IndInv, StoredInTheEnd, Retrieve
    <2>4. Saves(service) = {} => ~LastSaves(service, data)
      BY DEF LastSaves
    <2> QED
      BY <1>6, <2>1, <2>2, <2>3, <2>4 DEF IndInv, StoredInTheEnd, Retrieve
  <1> QED
    BY <1>5, <1>6 DEF IndInv

LEMMA RemoveSourceKeeps ==
  ASSUME IndInv, RemoveSource
  PROVE  IndInv'
  <1> DEFINE t == Posted(Stored(service), Event("deleteContainer", NoJob))
  <1>1. service' = t /\ Room(service)
    BY DEF RemoveSource
  <1>2. /\ Stored(service) \in Services /\ Fits(Stored(service), Stored(service).storageCount)
        /\ Needed => LastSaves(Stored(service), data)
        /\ ~Needed => Stored(service) = service
    BY <1>1, StoredFits
  <1>3. /\ t \in Services /\ t.jobs = Stored(service).jobs
        /\ t.storageCount = Stored(service).storageCount /\ Fits(t, t.storageCount)
    BY <1>2, PostedFits
  <1> HIDE DEF t
  <1>4. TypeOK' /\ ServiceFits'
    BY <1>1, <1>3 DEF IndInv, TypeOK, RemoveSource, bounds, Needed, ServiceFits
  <1>5. ASSUME ~EnableLate PROVE StoredInTheEnd'
    <2>1. Saves(service)' = Saves(Stored(service))
      BY <1>1, <1>3 DEF Saves, OfOperation
    <2>2. Saves(Stored(service)) # {} => enableStorage
      BY <1>2, <1>5 DEF IndInv, StoredInTheEnd, Needed
    <2> QED
      BY <2>1, <2>2 DEF StoredInTheEnd, RemoveSource
  <1> QED
    BY <1>4, <1>5 DEF IndInv

\* The first event is a queued call of autoStart.
LEMMA AutoStartKeeps ==
  ASSUME IndInv, service.events # <<>>, Head(service.events).what = "autoStart",
         service' = Posted(Rest(service), Event("run", Head(service.events).job)),
         UNCHANGED <<container, table, failed, bounds>>
  PROVE  IndInv'
  <1> DEFINE t == Posted(Rest(service), Event("run", service.events[1].job))
  <1>1. service \in Services /\ Fits(service, service.storageCount) /\ Head(service.events) = service.events[1]
    BY RestQueue DEF IndInv, TypeOK, ServiceFits
  <1>2. /\ t \in Services /\ t.jobs = service.jobs /\ t.storageCount = service.storageCount
        /\ Fits(t, service.storageCount)
        /\ \A a, b \in DOMAIN service.jobs : a # b /\ Before(service, a, b) => Before(t, a, b)
    BY <1>1, AutoStartFits
  <1>3. service' = t /\ table' = table /\ data' = data
    BY <1>1 DEF container
  <1> HIDE DEF t
  <1>4. TypeOK' /\ ServiceFits'
    BY <1>2, <1>3 DEF IndInv, TypeOK, container, bounds, ServiceFits
  <1>5. ASSUME ~EnableLate PROVE StoredInTheEnd'
    <2>1. TableHolds(data) => TableHolds(data)'
      BY <1>3 DEF TableHolds
    <2>2. Saves(t) = Saves(service) /\ OfOperation(t, "retrieve") = OfOperation(service, "retrieve")
      BY <1>2 DEF Saves, OfOperation
    <2>3. LastSaves(service, data) => LastSaves(t, data)
      BY <1>1, <1>2, <2>2, LastSavesKept, JobsOfService
    <2> QED
      BY <1>3, <1>5, <2>1, <2>2, <2>3 DEF IndInv, StoredInTheEnd, container
  <1> QED
    BY <1>4, <1>5 DEF IndInv

\* The first event deletes the storages that are not the container's, with their jobs.
LEMMA DeleteStorageKeeps ==
  ASSUME IndInv, service.events # <<>>, Head(service.events).what = "deleteStorage",
         service' = Deleted(Rest(service), {id \in DOMAIN service.jobs : ~service.jobs[id].current}),
         UNCHANGED <<container, table, failed, bounds>>
  PROVE  IndInv'
  <1> DEFINE ids == {id \in DOMAIN service.jobs : ~service.jobs[id].current}
             t == Deleted(Rest(service), ids)
  <1>1. /\ service \in Services /\ Fits(service, service.storageCount)
        /\ 1 \in DOMAIN service.events /\ Head(service.events) = service.events[1]
    BY RestQueue DEF IndInv, TypeOK, ServiceFits
  <1>2. service.events[1].job = NoJob
    BY <1>1 DEF Fits, EventsFit
  <1>3. ids \in SUBSET JobIds /\ Saves(service) \ ids = Saves(service)
    BY <1>1, JobsOfService DEF Fits, SavesAre
  <1> HIDE DEF ids
  <1>4. /\ t \in Services /\ t.storageCount = service.storageCount
        /\ DOMAIN t.jobs = DOMAIN service.jobs \ ids
        /\ \A id \in DOMAIN service.jobs \ ids : t.jobs[id] = service.jobs[id]
        /\ Saves(t) = Saves(service) /\ Fits(t, Cardinality(Saves(service)))
        /\ \A a, b : Before(service, a, b) => Before(t, a, b)
    BY <1>1, <1>2, <1>3, DeletedFits
  <1>5. service' = t /\ table' = table /\ data' = data
    BY DEF container, ids
  <1> HIDE DEF t
  <1>6. TypeOK' /\ ServiceFits'
    BY <1>1, <1>4, <1>5 DEF IndInv, TypeOK, container, bounds, ServiceFits, Fits, SavesAre
  <1>7. ASSUME ~EnableLate PROVE StoredInTheEnd'
    <2>1. TableHolds(data) => TableHolds(data)'
      BY <1>5 DEF TableHolds
    <2>2. OfOperation(t, "retrieve") # {} => OfOperation(service, "retrieve") # {}
      BY <1>4 DEF OfOperation
    <2>3. \A id \in Saves(service) : t.jobs[id].data = service.jobs[id].data
      BY <1>1, <1>3, <1>4, JobsOfService
    <2>4. LastSaves(service, data) => LastSaves(t, data)
      BY <1>4, <2>3, LastSavesKept
    <2> QED
      BY <1>4, <1>5, <1>7, <2>1, <2>2, <2>4 DEF IndInv, StoredInTheEnd, container
  <1> QED
    BY <1>6, <1>7 DEF IndInv

\* The job of the first event runs; it is the only save when it is the last one.
LEMMA RunFits ==
  ASSUME NEW s \in Services, Fits(s, s.storageCount), s.events # <<>>, s.events[1].what = "run"
  PROVE  LET id == s.events[1].job
             t == Deleted(Rest(s), {id})
         IN  /\ id \in DOMAIN s.jobs /\ s.jobs[id] \in Jobs
             /\ t \in Services /\ t.storageCount = s.storageCount
             /\ t.storage = s.storage
             /\ DOMAIN t.jobs = DOMAIN s.jobs \ {id}
             /\ \A i \in DOMAIN t.jobs : t.jobs[i] = s.jobs[i]
             /\ Saves(t) = Saves(s) \ {id}
             /\ OfOperation(t, "retrieve") # {} => OfOperation(s, "retrieve") # {}
             /\ Fits(t, IF s.jobs[id].operation = "save" THEN s.storageCount - 1 ELSE s.storageCount)
             /\ \A a, b : Before(s, a, b) => Before(t, a, b)
             /\ \A o \in DOMAIN s.jobs \ {id} : ~Before(s, o, id)
  <1> DEFINE id == s.events[1].job
             t == Deleted(Rest(s), {id})
  <1>1. 1 \in DOMAIN s.events
    BY RestQueue
  <1>2. id \in DOMAIN s.jobs /\ s.jobs[id] \in Jobs /\ id \in JobIds
    BY <1>1, JobsOfService DEF Fits, EventsFit
  <1>3. /\ t \in Services /\ t.storageCount = s.storageCount /\ t.storage = s.storage
        /\ DOMAIN t.jobs = DOMAIN s.jobs \ {id}
        /\ \A i \in DOMAIN s.jobs \ {id} : t.jobs[i] = s.jobs[i]
        /\ Saves(t) = Saves(s) \ {id} /\ Fits(t, Cardinality(Saves(s) \ {id}))
        /\ \A a, b : Before(s, a, b) => Before(t, a, b)
    BY <1>2, DeletedFits
  <1> HIDE DEF t
  <1>4. OfOperation(t, "retrieve") # {} => OfOperation(s, "retrieve") # {}
    BY <1>3 DEF OfOperation
  <1>5. Cardinality(Saves(s) \ {id}) = IF s.jobs[id].operation = "save" THEN s.storageCount - 1 ELSE s.storageCount
    <2>1. Cardinality(Saves(s)) = s.storageCount /\ IsFiniteSet(Saves(s))
      BY JobsOfService DEF Fits, SavesAre
    <2>2. id \in Saves(s) <=> s.jobs[id].operation = "save"
      BY <1>2 DEF Saves, OfOperation
    <2>3. CASE id \in Saves(s)
      BY <2>1, <2>2, <2>3, FS_RemoveElement
    <2>4. CASE id \notin Saves(s)
      <3>1. Saves(s) \ {id} = Saves(s)
        BY <2>4
      <3> QED
        BY <2>1, <2>2, <2>4, <3>1
    <2> QED
      BY <2>3, <2>4
  <1>6. ASSUME NEW o \in DOMAIN s.jobs \ {id}, Before(s, o, id) PROVE FALSE
    <2>1. PICK n \in DOMAIN s.events : s.events[n].job = o
      BY <1>6 DEF Fits, Queued
    <2>2. /\ ~(s.events[n].what = "run" /\ s.events[1].what = "autoStart")
          /\ n \in Nat \ {0} /\ ~(n < 1)
      BY JobsOfService
    <2> QED
      BY <1>1, <1>6, <2>1, <2>2 DEF Before
  <1> QED
    BY <1>2, <1>3, <1>4, <1>5, <1>6 DEF t

LEMMA SavedRows ==
  ASSUME NEW rows \in DataMaps, NEW d \in DataMaps, NEW failing \in SUBSET DOMAIN d
  PROVE  Saved(rows, d, failing) \in DataMaps
  <1>1. PICK D \in SUBSET Keys : rows \in [D -> Values]
    BY DEF DataMaps
  <1>2. PICK E \in SUBSET Keys : d \in [E -> Values]
    BY DEF DataMaps
  <1> DEFINE inserted == {k \in DOMAIN d : d[k] \in Storable /\ \A f \in failing : k < f}
             saved == [k \in (DOMAIN rows \ DOMAIN d) \union inserted |-> IF k \in inserted THEN d[k] ELSE rows[k]]
  <1>3. inserted \subseteq E
    BY <1>2
  <1>4. \A k \in inserted : d[k] \in Values
    BY <1>2
  <1>5. Saved(rows, d, failing) = saved
    BY DEF Saved
  <1> HIDE DEF inserted
  <1>6. saved \in [(D \ E) \union inserted -> Values] /\ (D \ E) \union inserted \in SUBSET Keys
    BY <1>1, <1>2, <1>3, <1>4
  <1> QED
    BY <1>5, <1>6 DEF DataMaps

LEMMA SaveKeeps ==
  ASSUME IndInv, service.events # <<>>, service.events[1].what = "run",
         service.jobs[service.events[1].job].operation = "save",
         Save(Deleted(Rest(service), {service.events[1].job}), service.jobs[service.events[1].job].data)
  PROVE  IndInv'
  <1> DEFINE id == service.events[1].job
             s == Deleted(Rest(service), {id})
             t == StoreJobFinished(s)
             d == service.jobs[id].data
  <1>1. service \in Services /\ Fits(service, service.storageCount)
    BY DEF IndInv, TypeOK, ServiceFits
  <1>2. /\ id \in DOMAIN service.jobs /\ service.jobs[id] \in Jobs
        /\ s \in Services /\ s.storageCount = service.storageCount
        /\ DOMAIN s.jobs = DOMAIN service.jobs \ {id}
        /\ \A i \in DOMAIN s.jobs : s.jobs[i] = service.jobs[i]
        /\ Saves(s) = Saves(service) \ {id}
        /\ OfOperation(s, "retrieve") # {} => OfOperation(service, "retrieve") # {}
        /\ Fits(s, s.storageCount - 1)
        /\ \A a, b : Before(service, a, b) => Before(s, a, b)
        /\ \A o \in DOMAIN service.jobs \ {id} : ~Before(service, o, id)
    BY <1>1, RunFits
  <1>3. d \in DataMaps
    BY <1>2 DEF Jobs
  <1>4. Save(s, d)
    OBVIOUS
  <1>0. \/ table' = Saved(table, d, {}) /\ failed' = failed /\ faults' = faults
        \/ faults' = faults + 1 /\ failed' = TRUE
    BY <1>4 DEF Save
  <1> HIDE DEF s
  <1>5. /\ t \in Services /\ Fits(t, t.storageCount) /\ Saves(t) = Saves(s)
        /\ OfOperation(t, "retrieve") = OfOperation(s, "retrieve")
        /\ \A i \in DOMAIN s.jobs : t.jobs[i].data = s.jobs[i].data
        /\ \A a, b \in JobIds : Before(s, a, b) => Before(t, a, b)
    BY <1>2, StoreJobFinishedFits
  <1>6. service' = t /\ data' = data
    BY <1>4 DEF Save, container
  <1> HIDE DEF t
  <1>7. table' \in DataMaps
    <2>1. table \in DataMaps /\ {} \in SUBSET DOMAIN d /\ \A k \in DOMAIN d : {k} \in SUBSET DOMAIN d
      BY DEF IndInv, TypeOK
    <2> QED
      BY <1>3, <1>4, <2>1, SavedRows DEF Save
  <1>8. TypeOK' /\ ServiceFits'
    <2>1. {isStored', enableStorage', storageTimer', retrieveTimer', removing', failed', unread'} \subseteq BOOLEAN
      BY <1>0, <1>4 DEF IndInv, TypeOK, Save, container
    <2>2. sets' = sets /\ data' = data
      BY <1>4 DEF Save, container
    <2>3. sets \in Nat /\ faults \in Nat /\ data \in DataMaps
      BY DEF IndInv, TypeOK
    <2>4. faults' \in Nat
      BY <1>0, <2>3
    <2> QED
      BY <1>5, <1>6, <1>7, <2>1, <2>2, <2>3, <2>4 DEF TypeOK, ServiceFits
  <1>9. ASSUME ~EnableLate PROVE StoredInTheEnd'
    <2>1. StoredInTheEnd /\ Saves(service)' \subseteq Saves(service)
          /\ (OfOperation(service, "retrieve")' # {} => OfOperation(service, "retrieve") # {})
      BY <1>2, <1>5, <1>6, <1>9 DEF IndInv
    <2>2. ASSUME ~removing, isStored, ~failed' PROVE (Saves(service)' = {} /\ TableHolds(data)') \/ LastSaves(service, data)'
      <3>1. ~failed /\ table' = Saved(table, d, {})
        <4>1. ~(failed' = TRUE)
          BY <2>2
        <4> QED
          BY <1>0, <2>2, <4>1
      <3>2. id \in Saves(service)
        BY <1>2 DEF Saves, OfOperation
      <3>3. PICK last \in Saves(service) : /\ service.jobs[last].data = data
                                           /\ \A o \in Saves(service) \ {last} : Before(service, o, last)
        BY <2>1, <2>2, <3>1, <3>2 DEF StoredInTheEnd, LastSaves
      <3>4. CASE last = id
        <4>1. Saves(service) \subseteq {id}
          BY <1>1, <1>2, <3>3, <3>4, JobsOfService
        <4>2. Saves(service)' = {}
          BY <1>2, <1>5, <1>6, <4>1
        <4>3. \A k \in DOMAIN data : data[k] \in Storable => k \in DOMAIN table' /\ table'[k] = data[k]
          BY <3>1, <3>3, <3>4 DEF Saved
        <4> QED
          BY <1>6, <4>2, <4>3 DEF TableHolds
      <3>5. CASE last # id
        <4>1. last \in Saves(t) /\ t.jobs[last].data = data
          BY <1>1, <1>2, <1>5, <3>3, <3>5, JobsOfService
        <4>2. \A o \in Saves(t) \ {last} : Before(t, o, last)
          BY <1>1, <1>2, <1>5, <3>3, JobsOfService
        <4>3. LastSaves(t, data)
          BY <4>1, <4>2 DEF LastSaves
        <4> QED
          BY <1>6, <4>3
      <3> QED
        BY <3>4, <3>5
    <2>3. UNCHANGED container
      BY <1>4 DEF Save
    <2>4. Saves(service)' # {} => enableStorage'
      BY <2>1, <2>3 DEF StoredInTheEnd, container
    <2>5. ~removing' => /\ ~isStored' => enableStorage' /\ storageTimer'
                        /\ retrieveTimer' \/ OfOperation(service, "retrieve")' # {} => Saves(service)' = {}
      BY <2>1, <2>3 DEF StoredInTheEnd, container
    <2>6. ~removing' /\ isStored' /\ ~failed' => (Saves(service)' = {} /\ TableHolds(data)') \/ LastSaves(service, data)'
      BY <2>2, <2>3 DEF container
    <2> QED
      BY <2>4, <2>5, <2>6 DEF StoredInTheEnd
  <1> QED
    BY <1>8, <1>9 DEF IndInv

LEMMA PopulateKeeps ==
  ASSUME IndInv, service.events # <<>>, service.events[1].what = "run",
         service.jobs[service.events[1].job].operation = "retrieve",
         Populate(Deleted(Rest(service), {service.events[1].job}))
  PROVE  IndInv'
  <1> DEFINE id == service.events[1].job
             s == Deleted(Rest(service), {id})
             t == Started(s, "expire", NoData)
  <1>1. service \in Services /\ Fits(service, service.storageCount)
    BY DEF IndInv, TypeOK, ServiceFits
  <1>2. /\ id \in DOMAIN service.jobs /\ s \in Services /\ s.storageCount = service.storageCount
        /\ DOMAIN s.jobs = DOMAIN service.jobs \ {id}
        /\ Saves(s) = Saves(service) \ {id}
        /\ OfOperation(s, "retrieve") # {} => OfOperation(service, "retrieve") # {}
        /\ Fits(s, s.storageCount)
    BY <1>1, RunFits
  <1>3. Room(s)
    BY <1>1, <1>2, JobsOfService DEF Room
  <1>4. Populate(s)
    OBVIOUS
  <1> HIDE DEF s
  <1>5. /\ t \in Services /\ t.storageCount = s.storageCount /\ Fits(t, t.storageCount) /\ Saves(t) = Saves(s)
        /\ OfOperation(t, "retrieve") # {} => OfOperation(s, "retrieve") # {}
    <2>1. "expire" \in Operations /\ "expire" # "save" /\ "expire" # "retrieve" /\ s.storageCount \in Int
      BY <1>2 DEF Operations, Services
    <2> QED
      BY <1>2, <1>3, <2>1, NoDataIsData, StartedFits
  <1>6. CASE ~s.storage
    <2>1. NewContainer /\ faults' = faults /\ faults \in Nat
      BY <1>4, <1>6 DEF Populate, IndInv, TypeOK
    <2> QED
      BY <2>1, NewContainerKeeps
  <1>7. CASE s.storage
    <2>1. /\ \/ data' = (IF data = NoData THEN table ELSE data) /\ unread' = unread /\ faults' = faults
             \/ data' = data /\ unread' = TRUE /\ faults' = faults + 1
          /\ service' = t
          /\ UNCHANGED <<isStored, enableStorage, storageTimer, retrieveTimer, removing, table, failed, sets>>
      BY <1>4, <1>7 DEF Populate
    <2> HIDE DEF t
    <2>2. TypeOK' /\ ServiceFits'
      <3>1. {isStored', enableStorage', storageTimer', retrieveTimer', removing', failed', unread'} \subseteq BOOLEAN
        BY <2>1 DEF IndInv, TypeOK
      <3>2. faults' \in Nat /\ sets' \in Nat
        BY <2>1 DEF IndInv, TypeOK
      <3>3. data' \in DataMaps /\ table' \in DataMaps /\ service' \in Services
        BY <1>5, <2>1 DEF IndInv, TypeOK
      <3> QED
        BY <1>5, <2>1, <3>1, <3>2, <3>3 DEF TypeOK, ServiceFits
    <2>3. ASSUME ~EnableLate PROVE StoredInTheEnd'
      <3>1. OfOperation(service, "retrieve") # {}
        BY <1>2 DEF OfOperation
      <3>2. StoredInTheEnd
        BY <2>3 DEF IndInv
      <3>3. Saves(service)' # {} => Saves(service) # {}
        BY <1>2, <1>5, <2>1
      <3>4. ASSUME ~removing PROVE Saves(service) = {}
        BY <3>1, <3>2, <3>4 DEF StoredInTheEnd
      <3>5. ASSUME ~removing, isStored, ~failed PROVE TableHolds(data)'
        <4>1. TableHolds(data)
          BY <3>2, <3>4, <3>5 DEF StoredInTheEnd, LastSaves
        <4>2. table' = table
          BY <2>1
        <4>3. CASE data' = table
          BY <4>2, <4>3 DEF TableHolds
        <4>4. CASE data' = data
          BY <4>1, <4>2, <4>4 DEF TableHolds
        <4> QED
          BY <2>1, <4>3, <4>4
      <3> QED
        BY <2>1, <3>2, <3>3, <3>4, <3>5 DEF StoredInTheEnd
    <2> QED
      BY <2>2, <2>3 DEF IndInv
  <1> QED
    BY <1>6, <1>7

LEMMA ExpireKeeps ==
  ASSUME IndInv, service.events # <<>>, service.events[1].what = "run",
         service.jobs[service.events[1].job].operation = "expire",
         Expire(Deleted(Rest(service), {service.events[1].job}))
  PROVE  IndInv'
  <1> DEFINE id == service.events[1].job
             t == Deleted(Rest(service), {id})
  <1>1. service \in Services /\ Fits(service, service.storageCount)
    BY DEF IndInv, TypeOK, ServiceFits
  <1>2. /\ t \in Services /\ t.storageCount = service.storageCount /\ Fits(t, t.storageCount)
        /\ DOMAIN t.jobs = DOMAIN service.jobs \ {id}
        /\ \A i \in DOMAIN t.jobs : t.jobs[i] = service.jobs[i]
        /\ Saves(t) = Saves(service) \ {id}
        /\ OfOperation(t, "retrieve") # {} => OfOperation(service, "retrieve") # {}
        /\ \A a, b : Before(service, a, b) => Before(t, a, b)
    BY <1>1, RunFits
  <1>3. service' = t /\ UNCHANGED <<container, table, failed, bounds>>
    BY DEF Expire
  <1> HIDE DEF t
  <1>4. id \notin Saves(service) /\ Saves(t) = Saves(service)
    BY <1>2 DEF Saves, OfOperation
  <1>5. TypeOK' /\ ServiceFits'
    BY <1>2, <1>3 DEF IndInv, TypeOK, container, bounds, ServiceFits
  <1>6. ASSUME ~EnableLate PROVE StoredInTheEnd'
    <2>1. TableHolds(data) => TableHolds(data)'
      BY <1>3 DEF TableHolds, container
    <2>2. LastSaves(service, data) => LastSaves(t, data)
      BY <1>1, <1>2, <1>4, LastSavesKept, JobsOfService
    <2> QED
      BY <1>2, <1>3, <1>4, <1>6, <2>1, <2>2 DEF IndInv, StoredInTheEnd, container
  <1> QED
    BY <1>5, <1>6 DEF IndInv

LEMMA ProcessEventKeeps ==
  ASSUME IndInv, ProcessEvent
  PROVE  IndInv'
  <1> DEFINE event == Head(service.events)
             s == Rest(service)
  <1>1. /\ service.events # <<>> /\ service \in Services /\ Fits(service, service.storageCount)
        /\ event = service.events[1] /\ s.jobs = service.jobs
    BY RestQueue DEF IndInv, TypeOK, ServiceFits, ProcessEvent
  <1>2. \/ /\ event.what = "autoStart"
           /\ service' = Posted(s, Event("run", event.job))
           /\ UNCHANGED <<container, table, failed, bounds>>
        \/ /\ event.what = "run"
           /\ Run(Deleted(s, {event.job}), s.jobs[event.job])
        \/ /\ event.what = "deleteStorage"
           /\ service' = Deleted(s, {id \in DOMAIN s.jobs : ~s.jobs[id].current})
           /\ UNCHANGED <<container, table, failed, bounds>>
        \/ /\ event.what = "deleteContainer"
           /\ NewContainer
           /\ UNCHANGED faults
    BY DEF ProcessEvent, Rest
  <1>3. CASE event.what = "autoStart"
    <2>1. /\ service' = Posted(s, Event("run", event.job))
          /\ UNCHANGED <<container, table, failed, bounds>>
      BY <1>2, <1>3
    <2> QED
      BY <1>1, <1>3, <2>1, AutoStartKeeps
  <1>4. CASE event.what = "run"
    <2> DEFINE id == service.events[1].job
               t == Deleted(Rest(service), {id})
    <2>1. Run(t, service.jobs[id]) /\ service.events[1].what = "run"
      BY <1>1, <1>2, <1>4
    <2>2. \/ service.jobs[id].operation = "save" /\ Save(t, service.jobs[id].data)
          \/ service.jobs[id].operation = "retrieve" /\ Populate(t)
          \/ service.jobs[id].operation = "expire" /\ Expire(t)
      BY <2>1 DEF Run
    <2> QED
      BY <1>1, <2>1, <2>2, SaveKeeps, PopulateKeeps, ExpireKeeps
  <1>5. CASE event.what = "deleteStorage"
    <2>1. /\ service' = Deleted(s, {id \in DOMAIN service.jobs : ~service.jobs[id].current})
          /\ UNCHANGED <<container, table, failed, bounds>>
      BY <1>1, <1>2, <1>5
    <2> QED
      BY <1>1, <1>5, <2>1, DeleteStorageKeeps
  <1>6. CASE event.what = "deleteContainer"
    <2>1. NewContainer /\ faults' = faults /\ faults \in Nat
      BY <1>2, <1>6 DEF IndInv, TypeOK
    <2> QED
      BY <2>1, NewContainerKeeps
  <1> QED
    BY <1>2, <1>3, <1>4, <1>5, <1>6

LEMMA InitIndInv == Init => IndInv
  <1> SUFFICES ASSUME Init PROVE IndInv
    OBVIOUS
  <1>1. service = NoService /\ NoService.storageCount = 0
    BY DEF Init, NoService
  <1>2. TypeOK
    BY <1>1, NewServiceFits, NoDataIsData DEF Init, TypeOK
  <1>3. ServiceFits
    BY <1>1, NewServiceFits DEF ServiceFits
  <1>4. TableHolds(data)
    BY DEF Init, NoData, TableHolds
  <1>5. StoredInTheEnd
    BY <1>1, <1>4, NewServiceFits DEF StoredInTheEnd, Init
  <1> QED
    BY <1>2, <1>3, <1>5 DEF IndInv

LEMMA NextIndInv == IndInv /\ [Next]_vars => IndInv'
  <1> SUFFICES ASSUME IndInv, [Next]_vars PROVE IndInv'
    OBVIOUS
  <1>1. ASSUME NEW k \in Keys, NEW v \in Values \union {Invalid}, SetData(k, v) PROVE IndInv'
    BY <1>1, SetDataKeeps
  <1>2. CASE SetStorageEnabled
    BY <1>2, SetStorageEnabledKeeps
  <1>3. CASE StorageTimeout
    BY <1>3, StorageTimeoutKeeps
  <1>4. CASE Retrieve
    BY <1>4, RetrieveKeeps
  <1>5. CASE RemoveSource
    BY <1>5, RemoveSourceKeeps
  <1>6. CASE ProcessEvent
    BY <1>6, ProcessEventKeeps
  <1>7. CASE Crash
    <2>1. NewContainer /\ faults' \in Nat
      BY <1>7 DEF Crash, IndInv, TypeOK
    <2> QED
      BY <2>1, NewContainerKeeps
  <1>8. CASE UNCHANGED vars
    BY <1>8 DEF vars, container, bounds, IndInv, TypeOK, ServiceFits, StoredInTheEnd, TableHolds
  <1> QED
    BY <1>1, <1>2, <1>3, <1>4, <1>5, <1>6, <1>7, <1>8 DEF Next

-----------------------------------------------------------------------------
(* Theorems *)

\* Every state of the storage satisfies the inductive invariant: jobs, events, saves and
\* rows fit together, and under ~EnableLate the last save has the last data.
THEOREM Invariant == Spec => []IndInv
  <1> QED
    BY InitIndInv, NextIndInv, PTL DEF Spec

LEMMA FitSavesAreCounted == IndInv => SavesCounted
  <1> SUFFICES ASSUME IndInv PROVE SavesCounted
    OBVIOUS
  <1>1. /\ service \in Services /\ Fits(service, service.storageCount)
        /\ Running("save") = Saves(service)
    BY DEF IndInv, TypeOK, ServiceFits, Running, Saves, OfOperation
  <1>2. DOMAIN data \subseteq Keys /\ DOMAIN table \subseteq Keys
    BY DEF IndInv, TypeOK, DataMaps
  <1>3. ASSUME NEW id \in DOMAIN service.jobs
        PROVE  Cardinality({n \in DOMAIN service.events : service.events[n].job = id}) = 1
    <2>1. id # NoJob
      BY <1>1, EventTypes, JobsOfService
    <2>2. PICK n \in DOMAIN service.events : service.events[n].job = id
      BY <1>1 DEF Fits, Queued
    <2>3. {m \in DOMAIN service.events : service.events[m].job = id} = {n}
      BY <1>1, <2>1, <2>2 DEF Fits, EventsFit
    <2> QED
      BY <2>3, FS_Singleton
  <1> QED
    BY <1>1, <1>2, <1>3 DEF SavesCounted, Fits, SavesAre

\* Jobs and their container fit together, whatever is set, fails, crashes or is removed:
\* the container counts exactly the saves that have not ended, each belongs to its
\* storage, and each job has one call queued (store, storeJobFinished, deleteLater).
THEOREM SavesAreCounted == Spec => []SavesCounted
  <1> QED
    BY Invariant, FitSavesAreCounted, PTL

LEMMA StoredIsNotForgotten == IndInv /\ ~EnableLate => NothingForgotten
  <1> SUFFICES ASSUME IndInv, ~EnableLate, enableStorage, ~removing, isStored, ~failed, ~TableHolds(data)
               PROVE  \E id \in Running("save") : service.jobs[id].data = data
    BY DEF IndInv, StoredInTheEnd, NothingForgotten
  <1>1. LastSaves(service, data)
    BY DEF IndInv, StoredInTheEnd
  <1> QED
    BY <1>1 DEF LastSaves, Saves, OfOperation, Running

\* When the storage is enabled before there are data, as the engines do, the data of a
\* source are always in the database, being saved or waited for by the timer: no save
\* that ends later than another, fails to find its storage or meets a retrieval
\* undoes that (setData, store, storeJobFinished, populateFromStoredData).
THEOREM NothingIsForgotten == ASSUME ~EnableLate PROVE Spec => []NothingForgotten
  <1>1. IndInv => NothingForgotten
    BY StoredIsNotForgotten
  <1> QED
    BY <1>1, Invariant, PTL

=============================================================================
