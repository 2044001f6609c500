--------------------------- MODULE ContainerStorage ---------------------------
(***************************************************************************)
(* The storage of a container's data (datacontainer.cpp), through the      *)
(* Storage service, its jobs (servicejob.cpp, storage.cpp) and the         *)
(* database (storagethread.cpp).  The slots of StorageThread run in the    *)
(* event loop of the main thread, like everything else: a job is started   *)
(* by a queued call of autoStart, which queues the operation.              *)
(*                                                                         *)
(* The database outlives the container and the process; the container of a *)
(* source that is removed, and the one after a restart, is a new one.      *)
(***************************************************************************)
EXTENDS Integers, FiniteSets, FiniteSetsExt, Subsequences

CONSTANTS
    Keys,              \* keys of the data, numbers in the order of their names
    Values, Invalid,   \* setData of an invalid value removes the key
    Storable,          \* values of the types that the database has a column for
    JobIds,            \* bound: jobs at a time
    MaxSets,           \* bound: calls of setData
    MaxFaults,         \* bound: crashes and failures of the database
    EnableLate         \* engines enable the storage of a source that has data

ASSUME StorageAssumption ==
    /\ Keys \subseteq Nat /\ Storable \subseteq Values /\ Invalid \notin Values
    /\ JobIds \subseteq Nat \ {0} /\ IsFiniteSet(JobIds)
    /\ MaxSets \in Nat /\ MaxFaults \in Nat /\ EnableLate \in BOOLEAN

NoData == [k \in {} |-> Invalid]

VARIABLES
    data,              \* DataContainerPrivate::data
    isStored,
    enableStorage,
    storageTimer,      \* storageTimer is active: 180 s
    retrieveTimer,     \* a single shot calls retrieve, within 2 s
    removing,          \* the container is deleted later
    service,           \* [storage, storageCount, jobs, events]: whether the container has a
                       \* Storage, the saves it counts, the jobs of its storages, and the
                       \* events posted to all of them, in order
    table,             \* the rows of the source in the database
    failed,            \* a save has failed since the last setData
    unread,            \* the retrieval for this container has failed
    sets,
    faults

container == <<data, isStored, enableStorage, storageTimer, retrieveTimer, removing>>
bounds == <<sets, faults, unread>>
vars == <<container, service, table, failed, bounds>>

NoService == [storage |-> FALSE, storageCount |-> 0, jobs |-> [id \in {} |-> Invalid], events |-> <<>>]

Init ==
    /\ data = NoData /\ isStored = TRUE /\ enableStorage = FALSE
    /\ storageTimer = FALSE /\ retrieveTimer = FALSE /\ removing = FALSE
    /\ service = NoService
    /\ table = NoData
    /\ failed = FALSE /\ unread = FALSE
    /\ sets = 0 /\ faults = 0

\* Another container of the source; the database is what it was.
NewContainer ==
    /\ data' = NoData /\ isStored' = TRUE /\ enableStorage' = FALSE
    /\ storageTimer' = FALSE /\ retrieveTimer' = FALSE /\ removing' = FALSE
    /\ service' = NoService
    /\ unread' = FALSE
    /\ UNCHANGED <<table, failed, sets>>

-----------------------------------------------------------------------------
(* Services and their jobs: operators from the service to the service after *)

Event(what, id) == [what |-> what, job |-> id]
NoJob == 0

Posted(s, event) == [s EXCEPT !.events = Append(@, event)]

Room(s) == DOMAIN s.jobs # JobIds

\* Service::startOperationCall, of a child of the container's storage
Started(s, operation, d) ==
    LET id == Min(JobIds \ DOMAIN s.jobs)
        job == [operation |-> operation, data |-> d, current |-> TRUE]
    IN  Posted([s EXCEPT !.jobs = [i \in DOMAIN @ \union {id} |-> IF i = id THEN job ELSE @[i]],
                         !.storage = TRUE],
               Event("autoStart", id))

\* Jobs that end or are deleted take along the calls queued for them.
Deleted(s, ids) ==
    [s EXCEPT !.jobs = [id \in DOMAIN @ \ ids |-> @[id]],
              !.events = Subsequence(@, {n \in DOMAIN @ : @[n].job \notin ids})]

Running(operation) == {id \in DOMAIN service.jobs : service.jobs[id].operation = operation}

\* Mutant: every save that ends deletes the storage.
StoreJobFinishedEach(s) ==
    Posted([s EXCEPT !.storageCount = @ - 1, !.storage = FALSE,
                     !.jobs = [id \in DOMAIN @ |-> [@[id] EXCEPT !.current = FALSE]]],
           Event("deleteStorage", NoJob))

\* DataContainerPrivate::storeJobFinished: the last save deletes the storage later.
StoreJobFinished(s) ==
    LET counted == [s EXCEPT !.storageCount = @ - 1]
    IN  IF counted.storageCount > 0 THEN counted
        ELSE Posted([counted EXCEPT !.storage = FALSE,
                                    !.jobs = [id \in DOMAIN @ |-> [@[id] EXCEPT !.current = FALSE]]],
                    Event("deleteStorage", NoJob))

-----------------------------------------------------------------------------
(* The engine and the timers *)

\* A timer that runs starts again with its 180 s.
SetData(k, v) ==
    /\ ~removing
    /\ EnableLate \/ enableStorage
    /\ sets < MaxSets
    /\ data' = [i \in (DOMAIN data \ {k}) \union {x \in {k} : v # Invalid} |-> IF i = k THEN v ELSE data[i]]
    /\ storageTimer' = (storageTimer \/ enableStorage \/ isStored)
    /\ isStored' = FALSE
    /\ failed' = FALSE
    /\ sets' = sets + 1
    /\ UNCHANGED <<enableStorage, retrieveTimer, removing, service, table, faults, unread>>

SetStorageEnabled ==
    /\ ~removing
    /\ ~enableStorage
    /\ enableStorage' = TRUE
    /\ retrieveTimer' = TRUE
    /\ UNCHANGED <<data, isStored, storageTimer, removing, service, table, failed, bounds>>

Needed == ~isStored /\ enableStorage

\* Mutant: one save at a time.
StoredOnce(s) ==
    IF Needed /\ s.storageCount = 0
    THEN [Started(s, "save", data) EXCEPT !.storageCount = @ + 1] ELSE s

\* DataContainerPrivate::store: a job saves the data as they are now.
Stored(s) ==
    IF Needed THEN [Started(s, "save", data) EXCEPT !.storageCount = @ + 1] ELSE s

StorageTimeout ==
    /\ storageTimer
    /\ EnableLate \/ (~retrieveTimer /\ Running("retrieve") = {})
    /\ Room(service)
    /\ service' = Stored(service)
    /\ isStored' = (isStored \/ Needed)
    /\ storageTimer' = FALSE
    /\ UNCHANGED <<data, enableStorage, retrieveTimer, removing, table, failed, bounds>>

Retrieve ==
    /\ retrieveTimer
    /\ Room(service)
    /\ retrieveTimer' = FALSE
    /\ service' = Started(service, "retrieve", NoData)
    /\ UNCHANGED <<data, isStored, enableStorage, storageTimer, removing, table, failed, bounds>>

\* DataEngine::removeSource: the data are stored, and the container is deleted later.
RemoveSource ==
    /\ ~removing
    /\ Room(service)
    /\ removing' = TRUE
    /\ service' = Posted(Stored(service), Event("deleteContainer", NoJob))
    /\ isStored' = (isStored \/ Needed)
    /\ UNCHANGED <<data, enableStorage, storageTimer, retrieveTimer, table, failed, bounds>>

-----------------------------------------------------------------------------
(* The database *)

\* The rows of the keys are deleted, and inserted up to a key that fails.
Saved(rows, d, failing) ==
    LET inserted == {k \in DOMAIN d : d[k] \in Storable /\ \A f \in failing : k < f}
    IN  [k \in (DOMAIN rows \ DOMAIN d) \union inserted |-> IF k \in inserted THEN d[k] ELSE rows[k]]

\* Mutant: the data count as stored when a job that saved some has ended.
SaveMarks(s, d) ==
    /\ table' = Saved(table, d, {})
    /\ isStored' = TRUE
    /\ service' = StoreJobFinished(s)
    /\ UNCHANGED <<data, enableStorage, storageTimer, retrieveTimer, removing, failed, bounds>>

\* StorageThread::save; what fails is the deletion, or the insertion of a key.
Save(s, d) ==
    /\ \/ /\ table' = Saved(table, d, {})
          /\ UNCHANGED <<failed, faults>>
       \/ /\ faults < MaxFaults
          /\ faults' = faults + 1
          /\ failed' = TRUE
          /\ \/ UNCHANGED table
             \/ \E k \in DOMAIN d : table' = Saved(table, d, {k})
    /\ service' = StoreJobFinished(s)
    /\ UNCHANGED <<container, sets, unread>>

\* Mutant: old data are taken when there are new ones to be stored.
PopulateIfNeeded(s) ==
    /\ data' = IF data = NoData /\ Needed THEN table ELSE data
    /\ service' = Started(s, "expire", NoData)
    /\ UNCHANGED <<isStored, enableStorage, storageTimer, retrieveTimer, removing, table, failed, bounds>>

\* StorageThread::retrieve, whose result has no data if the query fails, and
\* populateFromStoredData, which asks the storage to expire old rows; a storage that is
\* gone ends the process.
Populate(s) ==
    IF s.storage
    THEN /\ \/ /\ data' = IF data = NoData THEN table ELSE data
               /\ UNCHANGED <<unread, faults>>
            \/ /\ faults < MaxFaults
               /\ faults' = faults + 1
               /\ unread' = TRUE
               /\ data' = data
         /\ service' = Started(s, "expire", NoData)
         /\ UNCHANGED <<isStored, enableStorage, storageTimer, retrieveTimer, removing, table, failed, sets>>
    ELSE NewContainer /\ UNCHANGED faults

\* Rows older than four days of the group "default", which is no source's
Expire(s) ==
    /\ service' = s
    /\ UNCHANGED <<container, table, failed, bounds>>

Run(s, job) ==
    \/ job.operation = "save" /\ Save(s, job.data)
    \/ job.operation = "retrieve" /\ Populate(s)
    \/ job.operation = "expire" /\ Expire(s)

\* The event loop delivers the next event.
ProcessEvent ==
    /\ service.events # <<>>
    /\ LET event == Head(service.events)
           s == [service EXCEPT !.events = Tail(@)]
       IN  \/ /\ event.what = "autoStart"
              /\ service' = Posted(s, Event("run", event.job))
              /\ UNCHANGED <<container, table, failed, bounds>>
           \/ /\ event.what = "run"
              /\ Run(Deleted(s, {event.job}), s.jobs[event.job])
           \/ /\ event.what = "deleteStorage"
              /\ service' = Deleted(s, {id \in DOMAIN s.jobs : ~s.jobs[id].current})
              /\ UNCHANGED <<container, table, failed, bounds>>
           \/ /\ event.what = "deleteContainer"
              /\ NewContainer
              /\ UNCHANGED faults

\* The process ends at any time, and another begins.
Crash ==
    /\ faults < MaxFaults
    /\ faults' = faults + 1
    /\ NewContainer

Next ==
    \/ \E k \in Keys, v \in Values \union {Invalid} : SetData(k, v)
    \/ SetStorageEnabled
    \/ StorageTimeout
    \/ Retrieve
    \/ RemoveSource
    \/ ProcessEvent
    \/ Crash

Spec == Init /\ [][Next]_vars

\* The event loop and its timers
Fairness == WF_vars(ProcessEvent) /\ WF_vars(StorageTimeout) /\ WF_vars(Retrieve)

FairSpec == Spec /\ Fairness

-----------------------------------------------------------------------------
(* Properties *)

\* Jobs and their container fit together: storageCount is the number of saves that
\* have not ended, and each of them, running or queued once, belongs to the storage
\* that the container has (store, storeJobFinished).
SavesCounted ==
    /\ DOMAIN data \subseteq Keys /\ DOMAIN table \subseteq Keys
    /\ service.storageCount = Cardinality(Running("save"))
    /\ \A id \in Running("save") : service.storage /\ service.jobs[id].current
    /\ \A id \in DOMAIN service.jobs :
         Cardinality({n \in DOMAIN service.events : service.events[n].job = id}) = 1

\* The rows hold the data, as far as there is a column for them.
TableHolds(d) == \A k \in DOMAIN d : d[k] \in Storable => k \in DOMAIN table /\ table[k] = d[k]

\* Data of an enabled source are in the database, being saved or waited for by the
\* timer, whenever they are set: "this data container to be automatically stored"
\* (datacontainer.h:135).
NothingForgotten ==
    enableStorage /\ ~removing =>
      \/ TableHolds(data) \/ failed
      \/ ~isStored /\ storageTimer
      \/ \E id \in Running("save") : service.jobs[id].data = data

\* What stays set is stored in the end.
EventuallyStored ==
    (enableStorage /\ data # NoData) ~> (TableHolds(data) \/ failed \/ data = NoData)

\* Stored data come back in a new container that enables its storage, unless it is gone
\* before or the retrieval fails: no save that ends meanwhile takes the retrieve job along.
EventuallyRetrieved ==
    (retrieveTimer /\ table # NoData) ~> (data # NoData \/ unread \/ removing \/ ~enableStorage)

=============================================================================
