# Verification of Plasma5Support

Plasma5Support is the data-engine framework of the Plasma desktop: a
*DataEngine* publishes named *sources* (one `DataContainer` each), and widgets
("visualizations") connect to sources and are told of new data, directly or at a
polling interval.  This directory holds TLA+ models of its code, the TLC
configurations that check them, and proofs for TLAPS.

    tlc -workers 2 -config DataSource_lists.cfg MCDataSource.tla
    tlapm DataSourceProofs.tla

Paths below are relative to `src/src/`; `plasma5support/` is left out for the core library.

## Inventory

| component | state it keeps | operations | talks to |
|---|---|---|---|
| `DataContainer`, `SignalRelay` | data, `dirty`, `cached`, model, visualization → relay map, relays by interval, Qt connections, usage timer | `setData`, `removeAllData`, `setModel`, `connectVisualization`, `disconnectVisualization`, `checkForUpdate`, `forceImmediateUpdate`, `checkQueueing`, `checkUsage` | emits `dataUpdated`, `modelChanged`, `updateRequested`, `becameUnused` |
| `DataEngine` | hash of sources, check timer, update timer, waiting request, reference count | `connectSource`, `disconnectSource`, `setData`, `removeSource`, `removeAllSources`, `addSource`, `timerEvent` | calls containers; emits `sourceAdded`, `sourceRemoved`; plugins override `sourceRequestEvent`, `updateSourceEvent` |
| `DataEngineManager`, `DataEngineConsumer` | loaded engines with reference counts; the names a consumer loaded | `loadEngine`, `unloadEngine`, `dataEngine`, destruction | plugin loader, engines |
| Storage | the container's storage timer and counters; a thread with an SQLite file | `store`, `retrieve`, `populateFromStoredData`, thread `save`/`retrieve`/`expire` | jobs, queued calls to the thread |
| `Service`, `ServiceJob` | operations and their enabled state; job started or finished | `startOperationCall`, `autoStart`, `setResult` | QML, engines |
| `DataSource` (QML) | `connectedSources`, `sources`, `data`, its engine | property setters, slots of the engine's signals | engine, consumer |
| `DataModel`, `SortFilterModel` (QML) | items per source, role names; the role and the filter | `dataUpdated`, `setItems`, `removeSource`; `syncRoleNames`, `setFilterRole`, `setFilter*` | `DataSource`, views |
| weather engine and five ions | the ions in use, the sources to reset; places, reports, pending flags and retries of each ion | requests, searches, answers of jobs, `reset`, the reconnection timer | KIO, `QNetworkInformation`, applets |
| solid device engine | devices, lists of queries, encrypted containers, connections | requests, device and operation signals, free-space jobs | Solid, applets |
| hotplug engine | start list, devices, files of actions | device signals, the start timer, `KDirWatch` | Solid, `solid/actions` |
| device notifications engine | devices, waiting connections | replies to mounts and unmounts, answers of lsof | Solid, lsof |
| power management engine and jobs | numbered batteries, cookies | device signals, D-Bus signals and answers, jobs | Solid, UPower's and PowerDevil's services |
| geolocation, activities, time, small engines | shared data by accuracy; little or nothing | notifier slots that end in `setData` and `removeSource` | D-Bus, plugins |

Left aside for good: `PluginLoader` (stateless lookups), translations, build files,
astronomy of the time engine (floating point), parsing of the weather providers'
documents (data, not control), temperatures of disks and emblems.

**What is hard here.** Everything but the storage thread runs in one thread of callbacks.
A signal calls its receivers one by one, and a receiver may call back into the object
that is emitting; timers and asynchronous answers come in any order; a signal may be
posted and arrive later; objects are deleted while others still count on them.
`PROJECT.json` lists the hazards line by line.

**What makes the components correct.**

* container: every connected visualization is called by exactly one sender and hears
  of every change (at once or at its next tick); a source nobody uses goes away;
* engine: `sourceAdded` and `sourceRemoved` describe the hash; an update always has
  a timer that will signal it; nothing asynchronous resurrects a removed source;
* manager: an engine lives as long as a consumer that obtained it, and no longer;
* storage: data that changed is eventually stored, a retrieval does not overwrite
  newer data;
* service jobs: each runs once and finishes once;
* QML: `sources` and `connectedSources` say what the engine has; rows announced by
  the model are the rows it has.

## Modules

| module | models | composed with |
|---|---|---|
| `Subscription` | abstract: what a source promises its subscribers | implemented by `DataContainer` |
| `DataContainer` | one container, its relays, the engine calls on it | |
| `Sharing` | abstract: objects shared by users, made by the first, freed by the last | implemented by `DataEngineManager` |
| `DataEngineManager` | manager, reference counts, consumers, engines that are consumers | |
| `DataEngine` | the hash of sources of several engines, requests, removal | part of `DataSource` |
| `DataSource` | the QML elements connected to those engines | EXTENDS `DataEngine` |
| `ContainerStorage` | the storage of one container: timers, jobs, the event loop, the database | |
| `DataModel` | `DataModel` with a `SortFilterModel`, fed by a `DataSource` | |
| `Ion` | what the ions share: `IonInterface`, containers, jobs | extended by the ions |
| `UKMETIon`, `DWDIon`, `WetterComIon`, `NOAAIon`, `EnvCanadaIon` | the slots of each ion, as operators on its state | instances in `WeatherEngine` |
| `WeatherEngine` | the engine, its applets, jobs and the network | |
| `Hardware` | devices and the data of an engine's sources | extended by the next four |
| `SolidDeviceEngine`, `HotplugEngine`, `KSolidNotify`, `PowermanagementEngine` | the slots of each engine, as operators on its state | part of `HardwareEngines` |
| `HardwareEngines` | the hardware, files, services and applications around them | |
| `Subsequences` | what is left of a list when some of its elements are taken out | used by `ContainerStorage`, `SolidDeviceEngine` |
| `MC*` | values of constants for TLC | |
| `*Proofs` | theorems | |

`DataContainer` and `DataEngine` look at the same engine at two depths: the first at how
one source tells its visualizations of its data, relay by relay and slot by slot; the
second at which sources there are, with a container reduced to the set of its users.

### DataContainer

State: `relayObjects`, `relays`, `queued` (`m_queued`), `alignOf` (`m_align`), `dirty`,
`cached`, `model`, `scheduled` (`checkSourcesTimerId`) and `usageTimer` are the
members of those names; `receivers` and `modelConns` count Qt connections, which the code
asks for with `receivers(SIGNAL(...))`; `version` numbers the data; `em` is the
emission in progress.  A handler is one step, except that an emission is a loop: each
`Deliver` calls one slot, and while a slot runs (`em.slot`) the calls of clients and
engine are enabled, once more deep.  `checkForUpdate` calls the direct receivers first
and copies the relays when they have all returned; from then on it keeps the pointers: a
relay deleted in the loop enters `em.dead`, and using it sets `ub`.

| action | code |
|---|---|
| `ConnectSource`, `RequestSource`, `ChangeInterval` | `DataEngine::connectSource` for a known source, an unknown one, an object that is connected already; `DataContainer::connectVisualization` |
| `DisconnectSource`, `DestroyVisualization` | `disconnectVisualization`, called by the engine or by `destroyed()` |
| `SetData`, `RemoveAllData`, `SetModel` | the `DataEngine` methods with what the container does in them |
| `CheckForUpdate`, `RelayTick`, `ForceImmediateUpdate` | the engine's check timer, the timer of a relay with the engine's answer, `forceImmediateUpdateOfAllVisualizations`: each starts an emission |
| `Deliver`, `NextRelay`, `EndEmission`, `UseDeletedRelay` | the loops in `checkForUpdate`, `forceImmediateUpdate`, `SignalRelay::timerEvent` |
| `CheckUsage` | `timerEvent` of the usage timer, `becameUnused`, `removeSource` |

`Calls` switches on what the clients do, so that a run can be asked of clients that do
not provoke a known defect.  Limits: slots nest one level; `setModel(nullptr)` is left out
(it dereferences null at datacontainer.cpp:68); the storage members belong to
the storage component; an engine's own polling timer (`setPollingInterval`) calls the same
`updateSourceEvent` as a tick.

### DataEngineManager

State: `engines` and `refCount` of the manager and of `DataEngine` (which counts down from
-1), `loadedEngines` of the consumers, `holds` (what each consumer was given; its raw
pointers), `installed` (plugins on disk), `unwinding` (consumers being destroyed by
the deletion of the engine they are part of).  Actions: `AskForEngine`
(`DataEngineConsumer::dataEngine` with the three outcomes of `loadEngine`; of the engines
only the `NullEngine` is invalid, as no plugin calls `setValid`),
`DestroyConsumer` (destructor and `unloadEngine`), `ChangePlugins` (environment).
The manager's destructor at the end of the process and its logging timer are not modelled.

### DataEngine and DataSource

State of an engine: `sources` (the hash), `onRequest` (the `becameUnused` → `removeSource`
connection, made by `requestSource` only), `users`, `usageTimer`, `filled` (data not
empty), `unanswered` (answers under way in the plugin), `pushed` (history: made on
the engine's own account).  State of a `DataSource`: `dataEngine`, `connectedSources`,
`listed` (`m_sources`), `data`, `loaded` (references it has as a consumer), and
`queuedUpdate`: a `sourceAdded` posted to the event loop.

`RequestOutcomes` is what the plugins do in `sourceRequestEvent`: fill the source
(`populates`), make it empty and answer later (`defers`, the ions), hand over a
container that fills itself (`adds`, executable), refuse (`refuses`, the default), or make
it and refuse (`leaves`).  `Careful` says that the application sets the engine first
and once, and connects nothing from its slot of `sourceRemoved`.

| action | code |
|---|---|
| `ConnectSource`, `DisconnectSource`, `SetConnectedSources`, `SetEngine`, `SetupData` | the methods of `DataSource`; `SetupData` is the body of `setInterval` and `setIntervalAlignment` |
| `DestroyDataSource` | destruction, with the consumer's |
| `UpdateSources` | the queued slot of `sourceAdded` |
| `DataUpdated` | the slot the containers call |
| `PublishSource`, `AnswerRequest` | `DataEngine::setData` by the engine, or by a late answer |
| `RemoveSource`, `RetireSource`, `RemoveAllSources` | `sourceRemoved` with its slots, then the removal from the hash |
| `CheckUsage` | the usage timer of a source that stays |

Limits: a removed container is deleted at once (`deleteLater` in the code: its last
connections are dropped by then); `connectAllSources` is left out; `sourceDestroyed`
never fires for a removed source, which was disconnected; engines that override
`sources()` (time) list other names; `models` and services by source are left out;
`setupData` with sources and no engine dereferences null (datasource.cpp:152) and is
excluded.

### ContainerStorage

State: `data`, `isStored`, `enableStorage`, `storageTimer`, `retrieveTimer` of the container;
`service`: whether it has a `Storage`, `storageCount`, the jobs of its storages and
the queue of events posted to them; `table`: the rows of the source, which
outlive container and process.  `StorageThread` has no thread of its own: its slots are
queued calls in the main loop, so a job is two events, `autoStart` and the run of its
operation (`ProcessEvent`).

| action | code |
|---|---|
| `SetData`, `SetStorageEnabled` | `DataContainer::setData`, `setStorageEnabled` |
| `StorageTimeout`, `Retrieve` | `timerEvent` of the storage timer with `store`, the shot of the retrieve timer |
| `RemoveSource` | `DataEngine::removeSource`: `store`, then `deleteLater`, which comes before the save that `store` has begun, so that this never runs |
| `ProcessEvent` | `ServiceJobPrivate::autoStart`; `StorageThread::save`, `retrieve`, `expire` with `storeJobFinished` and `populateFromStoredData`; deferred deletions |
| `Crash` | the process ends at any time, and another begins |

A save may fail at its deletion or at the insertion of a key, and commits what it has; a
retrieval may fail, and yields no data.  Nothing is asserted of data whose save failed
or that are set before a removal or the crash: the code counts them as stored.

### DataModel

State: the connected sources and data of the `DataSource`; the filters; `model` with
`items`, `roles`, and what a view and a proxy have made of the signals: `view`, `viewRoles`,
`accepted`.  `RowsInserted`, `RowsRemoved`, `DataChanged` and `ModelReset` are what Qt's views
do with the signals of those names; the operators above them are the methods of the code.
A `SortFilterModel` gets its source model once.  `setFilterRole` filters before it keeps the
role (datamodel.cpp:149): a callback reads the former one, and when rows come or go
meanwhile the proxy is filtered by the former role again from inside (`Reentered`, which
leaves open how many rows had been told of).  Left out: sorting, `mapRowToSource`, `get`.  The
filters of the `DataModel` are set before there are data, since the code reads nothing
again; `setDataSource` is assumed to read the sources in the order of their names, which
`QQmlPropertyMap::keys` does not promise.

### Weather

An ion is a record, and a slot of an ion an operator from the record before to the record
after.  `Ion` has what they share: `held` (its containers), `shown` (the containers of
WeatherEngine), `used`, `dirty` (sources to signal), `jobs` (a bag: several of one kind may
run), `toReset` (`m_sourcesToReset`).  `WeatherEngine` chooses an ion and its applets' sources
(`Scenarios`) and has the actions.

| action | code |
|---|---|
| `Request`, `Leave`, `Poll` | `sourceRequestEvent`, `removeIonSource`, `updateSourceEvent` |
| `CheckForUpdates` | the check timer of the ion |
| `GoOffline`, `GoOnline`, `StartReconnect` | `onOnlineStateChanged`, `startReconnect` with `reset` of the ion |
| `Finish` | a job ends with any of its answers, or fails: the ion's slots |

Documents are reduced to what the control depends on: which parts are there, how
many days and which measures.  Applets do not ask again for a place that has jobs
under way.

### Engines for devices and power

The same style: each engine is a record, each slot an operator, and `HardwareEngines` has the
world around them.  A behaviour is about one engine (`plugin`): they share nothing but Solid.
`engine.data` are its containers; `shown` the sources an application has connected, which is
what makes `sourceRequestEvent` be called, for a source that is not there.

| action | code |
|---|---|
| `Plug`, `AnnounceAgain`, `Unplug` | `deviceAdded`, `onDeviceAdded`, `deviceRemoved`, `onDeviceRemoved` of each engine |
| `RequestSetup`, `SetupDone` | an operation of `SolidDeviceJob`, the signals of its begin and end: `setMountingState`, `setIdleState`; `onSolidReply` |
| `SizeChange`, `PercentChange`, `ChargeChange` | signals of a device, through `DeviceSignalMapManager` or to the slots of the power engine |
| `Connect`, `Leave`, `Poll` | `requestSource`, `removeSource`, `updateSourceEvent` |
| `FreeSpaceKnown`, `StartupDevice`, `StartupEnds`, `DirWatch` | the free-space job, `processNextStartupDevice` with a device left and with none, `updatePredicates` |
| `BlockingAppsKnown` | the end of any of the lsof processes: every device that waits takes its answer |
| `InhibitionChange`, `ProfileChange`, `ServiceAnswers`, `MessageArrives` | the services: signals and asynchronous answers, which arrive in the order they were sent |
| `BeginSuppressing`, `StopSuppressing` | `PowerManagementJob`, whose calls are synchronous; a call fails, but the answer to one that succeeded is not lost |

The operation that opens an encrypted container is left out: a volume in it simply comes.
`onSolidReply` says nothing of an unmount after which the drive is in use
(ksolidnotify.cpp:152), and a notification of a former error stays; `NotificationIsLast` is
about the last reply that says something.

## Runs

| run | question | bounds |
|---|---|---|
| `container_slots` | does re-entrancy break the bookkeeping of relays, connections, usage and models? | 2 visualizations, 2 intervals, slots that connect, disconnect and set data; 2 versions |
| `container_promise` | does a container keep the promise of `Subscription`, liveness included? | 2 visualizations, 2 intervals, an engine that answers each poll; fairness |
| `manager_promise` | are counts, lifetimes and `Sharing` right when plugins may vanish? | 3 consumers, one of them an engine, 2 names |
| `source_lists` | do lists, connections, shown data and usage agree, and are unused sources retired, when no request is refused? | 2 DataSources, 1 engine, 2 names; fairness of the usage timers |
| `storage_jobs` | do jobs and counters agree, are data never forgotten, stored and retrieved in the end? | 3 jobs at a time, 3 `setData`, one crash or failure of a save or a retrieval; fairness of the event loop |
| `data_model` | do views show the model's rows and roles, are the rows current, does the filter, or its callback, use its role when this is set before there are rows? | 3 sources, lists of up to 2 items, 2 roles, 2 values |
| `weather_ions` | is weather shown and are resets served, whatever fails on the way; is a search, one at a time, answered? | each ion; 1 or 2 sources, up to 2 outages, failures or refusals; fairness |
| `hardware_engines` | do the sources of four engines say what the hardware and the services are like, under the assumptions below? | up to 5 devices, 3 to 5 changes of the surroundings |
| `container_deleted_relay` | *finding:* the loop of `checkForUpdate` visits a relay that a slot has freed | slots that connect and change intervals |
| `source_ghost` | *finding:* a late answer makes a source nothing removes | 1 engine, 1 DataSource |
| `weather_setup` | *finding:* a reset while the list of cities is loaded leaves the ion uninitialized | Environment Canada, 1 outage |
| `model_order` | *finding:* the rows of a new source are announced at the end and put elsewhere | as `data_model`, sources in any order |

Each finding is in `PROJECT.json` with the sentence of the repository it contradicts.

**What is assumed.**  The code breaks some properties under circumstances that the passing
runs exclude, by a constant or a guard that names them; with the constant turned round (or
`Calls`, `Scenarios` or `Assumed` another set), TLC has the counterexample, usually a short one.

| run | excluded | because the code |
|---|---|---|
| `container_promise` | joining while an update is pending (`joinWhileDirty`) | resets `dirty` after telling the one that joins (dataengine.cpp:470): the others miss the update |
| | engines that push as well as answer polls | queues a relay at a tick that finds `dirty` reset by `checkForUpdate` (private/datacontainer_p.cpp:144) |
| `manager_promise` | plugins that appear (`PluginsAppear`) | unloads at the end of a consumer also names whose load failed (dataengineconsumer.cpp:65) |
| `source_lists` | refusals; a change of engine, connections from the slot of `sourceRemoved` (`Careful`) | keeps a refused name in `connectedSources` (datasource.cpp:223); never gives the old engine back (:91); emits `sourceRemoved` before the source leaves the hash (dataengine.cpp:250), for which `sources` keeps the name of a removed source as well, so that `AddedIsListed` asks only that none is missing |
| `storage_jobs` | storage enabled after the first data (`EnableLate`) | deletes the storage, and the retrieve job in it, when a save ends first (datacontainer.cpp:245), and uses a null storage at :290; no engine of the repository enables storage |
| | more than `MaxSets` restarts of the timer | starts the storage timer again at each `setData` (:50): data that change more often than every 180 s are never stored |
| `data_model` | `NamesInOrder`, `RolesAtFirst`, `ClearedWhenLeft` | announces new rows at the end (datamodel.cpp:373; `model_order`); tells nobody of later roles (:383); leaves the data of a disconnected source (datasource.cpp:231) |
| | `RoleBeforeRows`, `RoleBeforeCallback` | filters before it keeps the role (datamodel.cpp:149), so that `syncRoleNames`, called by what the filtering emits, sets the former role meanwhile, and a callback gets its value |
| `weather_ions` | a second search while one is under way | counts the pending downloads of all searches together (ion_bbcukmet.cpp:300): one of them is never answered (`MCSearches`) |
| | searches for the name of a place in use | returns from `validate` without an answer (ion_bbcukmet.cpp:577) |
| | a catalogue of DWD that fails or is empty (`CatalogueFails`) | returns without an answer (ion_dwd.cpp:195; `MCCatalogueSearch`) |
| | servers that list places of one name in different orders (`NamesAgree`) | numbers them in the order of the results (ion_bbcukmet.cpp:360) |
| `hardware_engines` | the names of `Assumptions`, below | |

`hardware_engines` makes thirteen assumptions by name, so that a theorem can say which it needs
and a run leave one out (`Assumed`).  Each is needed: with any one of them left out, TLC
has a counterexample to the property in the second column.

| assumption | without it fails | because the code |
|---|---|---|
| `answerFirst` | `NotificationIsLast` | cannot tell whose answer of lsof comes, or whether it is of the last operation (ksolidnotify.cpp:197), nor that the device was plugged in anew meanwhile; several processes at a time are in the run, and may name applications that keep another device busy, which no property asks about |
| `handledFirst` | `ActionsShown` | handles a device twice that is announced while it is in the start list |
| `announcedIdle` | `DevicesShown` | hears of no operation that began before the announcement (soliddeviceengine.cpp:466) |
| `operatedShown`, `pulledIdle`, `sourceKept` | `DevicesShown` | makes partial sources for devices nobody shows, which are then not filled (:474, :547) |
| `containerShown` | `DevicesShown` | never learns of a container closed while nobody shows its volume (:652) |
| `sizeFits` | `DevicesShown` | tells a new size only if its low 32 bits are positive as an int (:514) |
| `sizedIdle`, `stagedFirst` | `DevicesShown` | listens to a size only after a second announcement of a device that is shown without one (:456), and fills the source anew when it comes |
| `chargeNamed` | `DevicesShown` | tells two of the four charge states of a battery wrong (devicesignalmapper.cpp:39) |
| `askedFirst` | `BatteriesShown` | numbers batteries anew when "Battery" is asked for (powermanagementengine.cpp:211) |
| `serviceFirst` | `ServiceShown` | asks the services once, when the engine starts |

A device that was there before the engine never shows its mounting (soliddeviceengine.cpp:464);
`DevicesShown` does not ask it (`heard`).  For `WeatherShown` an answer that is malformed, and
one that leaves the ion uninitialized, counts as served.

*Why these bounds.* Two visualizations are what it takes to share a relay, to
leave it behind and to interfere with a delivery to another; two intervals make a loop
over relays with one still to visit; two versions tell old from new.  Three consumers with
one engine that is a consumer give the chain *consumer → engine → engine*.  Two sources
are needed for removal of one, and of all, to leave the other right.  Three jobs are a save
with a retrieval and another save, three `setData` a change before, during and after a
save.  Three model sources are one before and one after the one that
changes; lists of two items can grow, shrink and vanish.  Ions share state between two
places of one name and between a search and a place; one outage makes every answer late or
lost once, two are needed only where an answer changes most (wetter.com).  Three changes give
a battery or a device that goes, comes back and changes; five let a start list or a pair
of mounts overlap with every change of the files or another reply.  Applications ask the power
engine for batteries or for the services (`Asked`), which share no state in it.
The proofs lift the bounds for safety where there are some.

*Fairness.* `container_promise` assumes that a loop over receivers ends (weak, it is a loop
of the program) and that Qt serves each timer that is due (strong: other events may come
between, and a timer may be stopped and started again).  `source_lists` assumes weak
fairness of the usage timers only: while one is active nothing stops it but its own
firing.  `storage_jobs` assumes weak fairness of the event loop and of the two timers, which
run until they fire.  `weather_ions` assumes that jobs end (KIO gives each a result), that the
check and reconnection timers fire, that the network comes back, and that applets with weather
poll, which they do with an interval; it is all weak.  Clients and engines are under no fairness
otherwise: they may stop calling at any time.

## Proofs

| module | theorem | says | under |
|---|---|---|---|
| `DataContainerProofs` | `Typing`, `Consistency`, `Usage`, `Scheduling` | `TypeOK`, `SubscriptionsConsistent`, `UsageTracked`, `PendingIsScheduled` | the module's assumptions, any `Calls` |
| | `KeepsSafety` | the steps of a container are steps of `Subscription` | any `Calls` |
| | `ModelKnown` | `ModelCurrent` | no data removed under a model (`emptiesModel`) |
| | `DirectlyTold` | `DirectCurrent` | no join while an update is pending, no change from a relay to the container, no `setData` in a slot |
| `DataEngineManagerProofs` | `ManagerTyping`, `Counting`, `NoDangling`, `NoLeak`, `Implements` | `TypeOK`, `CountsHolders`, `NoDanglingEngine`, `NoUnusedEngine`, `SharesEngines` | `~PluginsAppear` |
| `DataSourceProofs` | `Typing`, `Timed` | `TypeOK`, `UnusedIsTimed` | nothing further: every outcome, careless applications |
| | `AddedListed` | `AddedIsListed` | no engine `leaves` |
| | `ConnectedListed`, `ShownHeld` | `ConnectedIsListed`, `ShownIsHeld` | `Careful` |
| | `ListedConnected` | `ListedIsConnected` | `Careful`, every request accepted |
| `ContainerStorageProofs` | `SavesAreCounted` | `SavesCounted` | nothing further: storage enabled at any time, failures, crashes |
| | `NothingIsForgotten` | `NothingForgotten` | `~EnableLate` |
| `DataModelProofs` | `ViewsMatch` | `ViewMatches` | `NamesInOrder` |
| | `RolesAreShown` | `RolesShown` | `RolesAtFirst` |
| | `FilterIsRight` | `FilterRight` | `NamesInOrder`, `RolesAtFirst`, `RoleBeforeRows`, `RoleBeforeCallback` |
| | `RowsStayCurrent` | `RowsAreCurrent` | `ClearedWhenLeft` |
| `HardwareEnginesProofs` | `QueriesAreCurrent` | `QueriesCurrent` | nothing further |
| | `HotplugShows` | `ActionsShown` | `handledFirst` |
| | `NotifiesOfTheLast` | `NotificationIsLast` | `answerFirst` |
| | `DevicesAreShown` | `DevicesShown` | `DeviceNeeds`: `announcedIdle` to `sourceKept` |
| | `BatteriesAreShown`, `ServiceIsShown` | `BatteriesShown`, `ServiceShown` | `PowerNeeds`: `sourceKept`, `askedFirst`, `serviceFirst` |
| `WeatherEngineProofs` | `PendingJobs` | `PendingHasJob` | nothing further: whatever fails, in any order |
| | `PlaceStays`, `HeldStaysCurrent` | `PlaceKept`, `HeldIsCurrent` | `NamesAgree` |
| `SubsequenceProofs` | lemmas | induction over the naturals in a form the provers can use, functions defined by recursion, what `Subsequence` and `SelectSeq` keep | |

What is assumed of the constants is the named `ASSUME` of each module: the sets of visualizations,
sources, keys, values, queries, actions and applications are any sets; consumers, job
numbers and udis are finite, since a count of them is kept; `encryptedContainer()` is a
method of storage volumes, so that only a volume has a container; roles are not empty and not
the name of Qt's display role, and what sources say are items with some of the roles; places
are names with a number, and applets ask for weather or searches of places.  The bounds of the runs
(`MaxVersion`, `MaxSets`, `MaxFaults`, `MaxChanges`, ...) are constants like the others, and
the theorems hold for all their values.

*DataContainer.*  The inductive invariant is `TypeOK`, `SubscriptionsConsistent`,
`UsageTracked` and `ScheduledOrChecking`.  `SubscriptionsConsistent` needs no help: that a
relay is freed exactly when its last visualization leaves follows from the map and
the connections agreeing before the step.  `PendingIsScheduled` speaks of the event loop
only; in an emission `dirty` may be set with the timer stopped, as long as the loop is
the one that will reset it, and `ScheduledOrChecking` says that.  `KeepsSafety` is the
refinement of `Subscription` step by step, from that invariant.  `ModelInv` adds to
`ModelCurrent` that whoever is connected has a connection for the model; `DirectInv`
follows an update through the emission: a direct visualization has the last version or is
among those the loop has still to call.

*DataEngineManager.*  `Remembered` (what a consumer holds is among the names it will unload,
and conversely for engines that are registered) ties the two views of a
consumer together; it is what `PluginsAppear` breaks.  The count is then a cardinality,
and each step changes one set of holders by one element or by the consumer that goes.
`Implements` maps initial states and steps to those of `Sharing`.

*DataSource.*  `Steps` reduces the next-state relation to what a step does (attach, detach,
list only, remove, ...).  `BaseInv` (types, `UnusedIsTimed`, and that what the model keeps of a
container is of one in the hash, the helper `HashIsWhole`) is preserved by
each operation of an engine, one lemma each, whatever the DataSource does around
it.  `CarefulInv` adds `ConnectedIsListed`, `ShownIsHeld` and the two facts that make them
inductive: nothing is listed before an engine is set, and what is shown is of the engine
there is now.  `AllConnected` strengthens `ListedIsConnected`: a listed source exists.

*ContainerStorage.*  `ServiceFits` says how jobs, events and the counter belong together:
each job is queued once, each save is of the container's own storage, and the counter is
the number of saves.  `NothingForgotten` speaks of the last save, and saves overlap: so
`StoredInTheEnd` says which save *runs* last, by the order of the queue and of the two
events of a job, and that this one has the last data.  Nothing is saved while a retrieval is
under way.  `Deleted` takes events out of the middle of the queue, and the lemmas about
`Subsequence` say that the others keep their order.

*DataModel.*  A view is right when every signal says what has become of the rows, so the proof
is about sequences first: `RowsReplaced` and its like say where the rows of one name are among
all of them when its list is put in, cut or taken away, and `ResizedShows`, `RetoldShows` and
`RelistedShows` that the signals of `setItems` make of the old rows, or of what a proxy made of
each of them, the new ones.  `SetItemsEffect` and `RemoveSourceEffect` say the same of the two
methods, and each invariant follows from them through the groups of steps in `Steps`.

* `Base`: the items are rows of sources, by name or all under the empty name.
* `RolesInv`: the views have read all roles the model knows and the rows have no others
  (`RolesKnown`); when sources are items, so have the data the next rows are made of (`RolesRead`).
* `FilterInv`: the roles of a proxy are those of the model, its role is the one its name means
  among them, and it has accepted its rows by it (`Filtered`).  When there are no rows to filter yet,
  `setFilterRole` has nothing to emit; that is what `RoleBeforeRows` and `RoleBeforeCallback` buy.
* `CurrentInv`: `LeftCleared`, that sources nobody is connected to have no data left, and
  `ItemsCurrent`, that the items are those of the data.

`setDataSource` reads source after source while later ones are not in the items yet;
`DataReadFit` is the induction over the names for it.

*HardwareEngines.*  `Frame` types what all plugins share; each invariant then has an
inductive invariant of its own that is empty for the other plugins.

* `NotificationInv`: every notification fits the last reply that says something, except those
  of the devices that wait for lsof, of which there may be several.
* `HotplugInv`: the engine as it is when a set of devices was handled and the rest is in the start list;
  while KDirWatch has news, what is shown may lag behind.
* `QueriesInv`: a query has the devices that are there and match it, in a list that the
  source shows.
* `DeviceInv`: `Kept` ties the maps of the engine to the devices that are there, `Full` is
  what `populateDeviceData` has made sure of, `Right` that what a source says is true but
  for given keys.  Every handler only tells what is true (`Told`, which is transitive), so
  that one lemma, `ToldFits`, says that the keys made stale by a change of the
  hardware are the keys its handler makes good.
* `BatteryInv`: `Numbered` (batteries and sources one to one; a free name exists by
  counting) and `Summed`.
* `ServiceInv`: `CookiesHeld`, and `Synchronous`: the last message under way about an
  application or the profile is right, and what no message is about the engine has.

The proof of `DevicesShown` did not go through at first, for a good reason: a device that was
there at the start is heard of only after it is announced again (soliddeviceengine.cpp:466), and if that
happens in the middle of an operation its source says `Idle` while it is being mounted.
The instance of the run had no plain device that could do that.  It has one now (`stick`), and
`announcedIdle` names the circumstance.

*WeatherEngine.*  The three invariants are about the ions of BBC Weather and Deutscher
Wetterdienst, the only ones with flags of each place, and hold trivially of the others.

* `IonInv`: the ion is well formed, its sources are among those asked for, and a flag of a
  place has its job (`UKMETSound`, `DWDSound`).  An answer ends a job and lowers a flag, a retry
  ends one job for another; the flags of other places keep their jobs (`AnswersFor`).
* `CurrentInv`: jobs are about places whose id is known, a place that a search found has its
  id, and what a source holds is nothing or, unless its place is pending, the report of it.

`NamesAgree` is about the server, not the code.  `readSearchData` numbers the places of one
name in the order in which the results list their ids (ion_bbcukmet.cpp:360), and `validate`
clears the list after each search (:595), so that the second York of one search is the
second York of another only if every search lists them in one order; applets, in turn, ask for
ids that a search found.  `AddResultFinds` is the heart of the proof: the number the loop
chooses for an id is that of the place with this id.  The lower numbers are listed before it
with other ids, so the loop passes them; and being listed, they are at most as many as the
list has places (`NumbersCounted`), so the loop is still searching when it comes to this one.
The run's constants are checked to satisfy `NamesAgree`.

*Only model-checked:* the liveness properties (`KeepsPromise` as a whole,
`UnusedIsRetired`, `EventuallyStored`, `EventuallyRetrieved`, `WeatherShown`, `SearchAnswered`,
`ResetServed`): fairness and `ENABLED` are out of the prover's reach.  Every invariant and action
property of a passing run is a theorem.

## Not modelled

`PluginLoader` and the manager's logging keep no state that matters.  `ServiceOperationStatus`
is one flag.  The time engine computes from the clock, its astronomy in floating point.
Geolocation, activities and the small engines are bridges from a notifier to `setData`; what
`DataEngine` does with such calls is in `DataContainer` and `DataSource`.  Of the modelled
parts, the limits are named in their sections and in the notes of the components.

## Plan

1. Geolocation (accuracies of providers that come and go) and activities, in the style of
   `HardwareEngines`.
2. `ServiceJob` with results and operation status; the rounding of polling intervals.
3. Proofs: weather that is shown as far as safety goes, that what an applet sees of a used
   source is what the ion holds or is about to be signalled.
