---------------------------- MODULE HardwareEngines ----------------------------
(***************************************************************************)
(* An engine for devices among the hardware, the files, the services and   *)
(* the applications it works with.  Each of these engines is a plugin that *)
(* is loaded when something asks for it and knows nothing of the others:   *)
(* a behaviour has one of them.                                            *)
(*                                                                         *)
(* Assumed names what is assumed of the surroundings, so that a theorem    *)
(* can say which of it it needs, and a run leave one out (Assumptions).    *)
(***************************************************************************)
EXTENDS SolidDeviceEngine, HotplugEngine, KSolidNotify, PowermanagementEngine

CONSTANTS
    Plugins,         \* the plugins that may be loaded, of the four there are
    Devices,         \* plugin -> the devices that may come and go under it
    Sizes,           \* of volumes
    Applications,    \* others that inhibit the sleep
    Shell,           \* the application that the engine is in
    Assumed,         \* of Assumptions
    Asked,           \* bound: plugin -> the sets of sources asked for in one behaviour
    MaxChanges       \* bound: plugin -> changes of its surroundings

AllPlugins == {"soliddevice", "hotplug", "devicenotifications", "powermanagement"}

\* The sources that an engine has on request
Requestable(p) == CASE p = "soliddevice" -> Udis \union DOMAIN Queries
                    [] p = "powermanagement" -> OfService \union {"Battery"}
                    [] OTHER -> {}

\* What the engines may need: without it something they show is wrong.
Assumptions ==
    {"answerFirst",      \* nothing is replied about a device, nor does it come, before lsof is done
     "handledFirst",     \* a device is announced again when the start list is through with it,
     "announcedIdle",    \* and when there is no operation on it
     "operatedShown",    \* an operation on a device starts when its source is shown,
     "containerShown",   \* a container is closed when it is shown and what is in it
     "pulledIdle",       \* a device is not pulled while its free space is looked up
     "sizedIdle",        \* a device gets its size when there is no operation on it,
     "stagedFirst",      \* after its second announcement if it is shown,
     "sizeFits",         \* and the size is positive as an int
     "chargeNamed",      \* a battery is never in the state that the mapper misnames
     "sourceKept",       \* a source is kept while its device is there, or for good
     "askedFirst",       \* a source of the power service is asked for before what it tells of
     "serviceFirst"}     \* the power service is there before its engine

ASSUME EnginesAssumption ==
    /\ Assumed \subseteq Assumptions
    /\ Plugins \subseteq AllPlugins
    /\ \A p \in AllPlugins : Devices[p] \subseteq Udis /\ UNION Asked[p] \subseteq Requestable(p)
    /\ (Udis \union DOMAIN Queries) \intersect (OfService \union {"Battery"}) = {}
    /\ Sizes \subseteq Nat \ {0}

VARIABLES plugin, hardware, engine,
    shown,           \* sources that an application has connected
    files,           \* the files in solid/actions
    unseen,          \* KDirWatch has yet to tell of them
    replies,         \* udi -> the last reply of an operation that says something
    service,         \* the power service and the messages from and to it
    changes

vars == <<plugin, hardware, engine, shown, files, unseen, replies, service, changes>>

Profiles == {1, 2}

ChargeStates == {"NoCharge", "Charging", "Discharging", "FullyCharged"}

Init ==
    /\ plugin \in Plugins
    /\ \E there \in SUBSET Devices[plugin] :
          /\ \A u \in there : EncryptedContainer[u] = NoDevice
          /\ hardware = [u \in there |-> Plugged]
    /\ files \in SUBSET DOMAIN Actions
    /\ unseen = FALSE
    /\ engine \in CASE plugin = "soliddevice" -> {NewSolidDeviceEngine}
                    [] plugin = "hotplug" -> NewHotplugEngines(hardware, files)
                    [] plugin = "devicenotifications" -> {NewKSolidNotify(hardware)}
                    [] plugin = "powermanagement" -> {NewPowermanagementEngine(on) : on \in {"serviceFirst" \in Assumed, TRUE}}
    /\ shown = {}
    /\ replies = [u \in Udis |-> "None"]
    /\ service = [inhibitors |-> {}, held |-> [what \in Suppressions |-> {}],
                  profile |-> 1, calls |-> <<>>, queue |-> <<>>, answered |-> {}]
    /\ changes = 0

Changed == changes < MaxChanges[plugin] /\ changes' = changes + 1

\* A source whose container is gone shows nothing.
StillShown(e) == {s \in shown : s \in DOMAIN e.data}

Engine(e) == engine' = e /\ shown' = StillShown(e)

---------------------------------------------------------------------------
(* The hardware *)

Handled == IF plugin = "hotplug" THEN DOMAIN hardware \ engine.startList ELSE DOMAIN hardware

\* A notification of the device is to come, with the answer of lsof.
Awaited(u) == plugin = "devicenotifications" /\ u \in ToSet(engine.waiting)

DeviceComes(h, u) ==
    /\ hardware' = h
    /\ Engine(CASE plugin = "soliddevice" -> DeviceAdded(engine, h, u)
                [] plugin = "hotplug" -> OnDeviceAdded(engine, files, u)
                [] plugin = "devicenotifications" -> NotifyAdded(engine, u)
                [] plugin = "powermanagement" -> BatteryAdded(engine, h, u))
    /\ replies' = [replies EXCEPT ![u] = "None"]

AsksFirst(source) == "askedFirst" \in Assumed /\ plugin = "powermanagement" => source \in shown

\* A device is plugged in, or the encrypted container that it is in is unlocked.
Plug(u) ==
    /\ Changed
    /\ u \in Devices[plugin] \ DOMAIN hardware
    /\ EncryptedContainer[u] \in DOMAIN hardware \union {NoDevice}
    /\ "answerFirst" \in Assumed => ~Awaited(u)
    /\ AsksFirst("Battery")
    /\ LET c == EncryptedContainer[u]
           opened == [v \in DOMAIN hardware |->
                        IF v = c THEN [hardware[v] EXCEPT !.accessible = TRUE] ELSE hardware[v]]
       IN  DeviceComes(Over([v \in {u} |-> Plugged], opened), u)
    /\ UNCHANGED <<plugin, files, unseen, service>>

\* Two-stage devices are announced a second time.
AnnounceAgain(u) ==
    /\ Changed
    /\ plugin \in {"soliddevice", "hotplug"}
    /\ u \in IF "handledFirst" \in Assumed THEN Handled ELSE DOMAIN hardware
    /\ "announcedIdle" \in Assumed => hardware[u].job = "Idle"
    /\ DeviceComes(hardware, u)
    /\ UNCHANGED <<plugin, files, unseen, service>>

\* A device is pulled out or its container closed, of which the container says nothing.
Unplug(u) ==
    LET c == EncryptedContainer[u]
        left == [v \in DOMAIN hardware \ {u} |->
                   IF v = c THEN [hardware[v] EXCEPT !.accessible = FALSE] ELSE hardware[v]]
    IN  /\ Changed
        /\ u \in DOMAIN hardware
        /\ \A v \in DOMAIN hardware : EncryptedContainer[v] # u
        /\ plugin = "soliddevice" =>
              /\ "pulledIdle" \in Assumed => u \notin engine.paths
              /\ "containerShown" \in Assumed => c = NoDevice \/ {u, c} \subseteq shown
        /\ AsksFirst("Battery")
        /\ hardware' = left
        /\ Engine(CASE plugin = "soliddevice" -> DeviceRemoved(engine, left, u)
                    [] plugin = "hotplug" -> OnDeviceRemoved(engine, u)
                    [] plugin = "devicenotifications" -> NotifyRemoved(engine, u)
                    [] plugin = "powermanagement" -> BatteryRemoved(engine, left, u))
        /\ UNCHANGED <<plugin, files, unseen, replies, service>>

\* A file system is asked to be mounted, or unmounted.
RequestSetup(u) ==
    /\ plugin \in {"soliddevice", "devicenotifications"}
    /\ Is(hardware, u, "access") /\ ~Encrypted(u) /\ hardware[u].job = "Idle"
    /\ "operatedShown" \in Assumed /\ plugin = "soliddevice" => u \in shown
    /\ hardware' = [hardware EXCEPT ![u].job = IF hardware[u].accessible THEN "Unmounting" ELSE "Mounting"]
    /\ Engine(CASE plugin = "devicenotifications" -> engine
                [] plugin = "soliddevice" /\ hardware[u].accessible -> SetUnmountingState(engine, u)
                [] OTHER -> SetMountingState(engine, u))
    /\ UNCHANGED <<plugin, files, unseen, replies, service, changes>>

\* The operation ends; its success changes what is accessible before it is told.
SetupDone(u, error) ==
    LET teardown == hardware[u].job = "Unmounting"
        done == [hardware EXCEPT ![u].job = "Idle",
                                 ![u].accessible = IF error = "NoError" THEN ~@ ELSE @]
        told == IF error = "NoError" THEN AccessibilityChanged(engine, done, u) ELSE engine
        result == IF error = "NoError" THEN "Successful" ELSE "Unsuccessful"
    IN  /\ Changed
        /\ plugin \in {"soliddevice", "devicenotifications"}
        /\ u \in DOMAIN hardware /\ hardware[u].job # "Idle"
        /\ "answerFirst" \in Assumed => ~Awaited(u)
        /\ hardware' = done
        /\ IF plugin = "soliddevice"
           THEN Engine(SetIdleState(told, done, u, result)) /\ UNCHANGED replies
           ELSE /\ Engine(OnSolidReply(engine, done, u, IF teardown THEN "Teardown" ELSE "Setup", error))
                /\ replies' = [replies EXCEPT ![u] =
                      CASE error = "UserCanceled" -> @
                        [] error = "NoError" /\ teardown -> IF IsSafelyRemovable(done, u) THEN "Removable" ELSE @
                        [] OTHER -> error]
        /\ UNCHANGED <<plugin, files, unseen, service>>

SizeChange(u, size) ==
    /\ Changed
    /\ plugin = "soliddevice" /\ Is(hardware, u, "volume") /\ hardware[u].size = 0
    /\ "sizedIdle" \in Assumed => hardware[u].job = "Idle"
    /\ "stagedFirst" \in Assumed /\ u \in shown => u \in engine.staged
    /\ "sizeFits" \in Assumed => ToInt(size) > 0
    /\ hardware' = [hardware EXCEPT ![u].size = size]
    /\ Engine(SizeChanged(engine, hardware', u))
    /\ UNCHANGED <<plugin, files, unseen, replies, service>>

PercentChange(u) ==
    /\ Changed
    /\ plugin \in {"soliddevice", "powermanagement"} /\ Is(hardware, u, "battery")
    /\ AsksFirst("Battery")
    /\ hardware' = [hardware EXCEPT ![u].percent = 3 - @]
    /\ Engine(IF plugin = "soliddevice" THEN ChargePercentChanged(engine, hardware', u)
              ELSE BatteryChanged(engine, hardware', u))
    /\ UNCHANGED <<plugin, files, unseen, replies, service>>

\* The mapper of the solid device engine has the right name for two states, and none
\* for a full battery.
ChargeChange(u, charge) ==
    /\ Changed
    /\ plugin \in {"soliddevice", "powermanagement"}
    /\ Is(hardware, u, "battery") /\ hardware[u].charge # charge
    /\ plugin = "soliddevice" => charge # "FullyCharged" /\ ("chargeNamed" \in Assumed => charge # "NoCharge")
    /\ AsksFirst("Battery")
    /\ hardware' = [hardware EXCEPT ![u].charge = charge]
    /\ Engine(IF plugin = "soliddevice" THEN ChargeStateChanged(engine, hardware', u)
              ELSE BatteryChanged(engine, hardware', u))
    /\ UNCHANGED <<plugin, files, unseen, replies, service>>

---------------------------------------------------------------------------
(* The applications *)

\* What an engine can be asked for
Requested == UNION Asked[plugin]

\* A source that the engine has is never requested, whatever is in it.
Connect(source) ==
    LET answer == CASE source \in DOMAIN Queries -> RequestQuery(engine, hardware, source)
                    [] source \in Udis -> RequestDevice(engine, hardware, source)
                    [] source = "Battery" -> RequestBattery(engine, hardware)
                    [] source = "Inhibitions" -> engine
                    [] source = "Power Profiles" -> RequestProfiles(engine)
        asked == IF source \in DOMAIN engine.data THEN engine ELSE answer
    IN  /\ source \in Requested \ shown
        /\ \E together \in Asked[plugin] : shown \union {source} \subseteq together
        /\ engine' = asked
        /\ IF source \in OfService
           THEN /\ shown' = shown \union {source}
                /\ service' = IF source \in DOMAIN engine.data THEN service
                              ELSE [service EXCEPT !.calls = Append(@, source)]
           ELSE shown' = shown \union ({source} \intersect DOMAIN asked.data) /\ UNCHANGED service
        /\ UNCHANGED <<plugin, hardware, files, unseen, replies, changes>>

\* The last visualization of a source leaves it, and the source is removed.
Leave(source) ==
    /\ source \in shown \intersect DOMAIN engine.data
    /\ "sourceKept" \in Assumed => plugin = "soliddevice" /\ source \notin DOMAIN hardware
    /\ engine' = IF plugin = "soliddevice" THEN SourceWasRemoved(engine, source)
                 ELSE RemoveSource(engine, source)
    /\ shown' = shown \ {source}
    /\ UNCHANGED <<plugin, hardware, files, unseen, replies, service, changes>>

Poll(u) ==
    /\ plugin = "soliddevice" /\ u \in shown \intersect Udis
    /\ Engine(UpdateSourceEvent(engine, hardware, u))
    /\ UNCHANGED <<plugin, hardware, files, unseen, replies, service, changes>>

---------------------------------------------------------------------------
(* What the engines wait for *)

FreeSpaceKnown(u, ok) ==
    /\ plugin = "soliddevice" /\ u \in engine.paths
    /\ Engine(FreeSpaceJobDone(engine, hardware, u, ok))
    /\ UNCHANGED <<plugin, hardware, files, unseen, replies, service, changes>>

StartupDevice(u) ==
    /\ plugin = "hotplug" /\ u \in engine.startList
    /\ Engine(ProcessNextStartupDevice(engine, files, u))
    /\ UNCHANGED <<plugin, hardware, files, unseen, replies, service, changes>>

\* The timer fires, and devices that were to be handled are all gone.
StartupEnds ==
    /\ plugin = "hotplug" /\ engine.starting /\ engine.startList = {}
    /\ Engine(ForgetPredicates(engine))
    /\ UNCHANGED <<plugin, hardware, files, unseen, replies, service, changes>>

FilesChange(f) ==
    /\ Changed
    /\ plugin = "hotplug"
    /\ files' = IF f \in files THEN files \ {f} ELSE files \union {f}
    /\ unseen' = TRUE
    /\ UNCHANGED <<plugin, hardware, engine, shown, replies, service>>

DirWatch ==
    /\ plugin = "hotplug" /\ unseen
    /\ Engine(UpdatePredicates(engine, files))
    /\ unseen' = FALSE
    /\ UNCHANGED <<plugin, hardware, files, replies, service, changes>>

BlockingAppsKnown(i, failed) ==
    /\ plugin = "devicenotifications" /\ i \in DOMAIN engine.queries
    /\ Engine(QueryFinished(engine, i, failed))
    /\ UNCHANGED <<plugin, hardware, files, unseen, replies, service, changes>>

---------------------------------------------------------------------------
(* The power service *)

Tells(s, added, removed) ==
    [s EXCEPT !.inhibitors = (@ \ removed) \union added,
              !.queue = Append(@, [kind |-> "changed", added |-> added, removed |-> removed, answer |-> FALSE])]

InhibitionChange(added, removed) ==
    /\ Changed
    /\ plugin = "powermanagement"
    /\ AsksFirst("Inhibitions")
    /\ added \union removed # {}
    /\ added \intersect service.inhibitors = {} /\ removed \subseteq service.inhibitors
    /\ service' = Tells(service, added, removed)
    /\ UNCHANGED <<plugin, hardware, engine, shown, files, unseen, replies>>

\* By the job setPowerProfile, which calls the service, or by another application
ProfileChange(profile) ==
    /\ Changed
    /\ plugin = "powermanagement"
    /\ AsksFirst("Power Profiles")
    /\ profile # service.profile
    /\ service' = [service EXCEPT !.profile = profile,
                                  !.queue = Append(@, [kind |-> "profile", profile |-> profile, answer |-> FALSE])]
    /\ UNCHANGED <<plugin, hardware, engine, shown, files, unseen, replies>>

\* An answer that is an error is dropped.
ServiceAnswers(ok) ==
    /\ plugin = "powermanagement" /\ service.calls # <<>>
    /\ LET answer == IF Head(service.calls) = "Inhibitions"
                     THEN [kind |-> "listed", who |-> service.inhibitors, answer |-> TRUE]
                     ELSE [kind |-> "profile", profile |-> service.profile, answer |-> TRUE]
       IN  service' = [service EXCEPT !.calls = Tail(@), !.queue = IF ok THEN Append(@, answer) ELSE @]
    /\ UNCHANGED <<plugin, hardware, engine, shown, files, unseen, replies, changes>>

\* What the service sends arrives in order, signals only if they were connected.
MessageArrives ==
    /\ plugin = "powermanagement" /\ service.queue # <<>>
    /\ LET m == Head(service.queue)
       IN  /\ engine' = CASE ~m.answer /\ ~engine.listening -> engine
                          [] m.kind = "listed" -> InhibitionsListed(engine, m.who)
                          [] m.kind = "changed" /\ engine.listening -> InhibitionsChanged(engine, m.added, m.removed)
                          [] m.kind = "profile" /\ (m.answer \/ engine.listening) -> UpdateProfile(engine, m.profile)
           /\ service' = [service EXCEPT !.queue = Tail(@),
                             !.answered = IF m.answer THEN @ \union {m.kind} ELSE @]
    /\ UNCHANGED <<plugin, hardware, shown, files, unseen, replies, changes>>

\* The calls of a job are synchronous, and a call that fails does nothing.
BeginSuppressing(what, ok) ==
    LET cookie == CHOOSE n \in 1 .. Cardinality(service.held[what]) + 1 : n \notin service.held[what]
    IN  /\ Changed
        /\ plugin = "powermanagement" /\ AsksFirst("Inhibitions")
        /\ MayBegin(engine, what)
        /\ engine' = SuppressionBegun(engine, what, IF ok THEN cookie ELSE NoCookie)
        /\ service' = IF ~ok THEN service
                      ELSE [IF what = "sleep" /\ service.held[what] = {} THEN Tells(service, {Shell}, {}) ELSE service
                              EXCEPT !.held[what] = @ \union {cookie}]
        /\ UNCHANGED <<plugin, hardware, shown, files, unseen, replies>>

StopSuppressing(what, ok) ==
    LET left == service.held[what] \ {engine.cookie[what]}
    IN  /\ Changed
        /\ plugin = "powermanagement" /\ AsksFirst("Inhibitions")
        /\ engine' = SuppressionStopped(engine, what, ok)
        /\ service' = IF ~ok THEN service
                      ELSE [IF what = "sleep" /\ left = {} /\ Shell \in service.inhibitors
                            THEN Tells(service, {}, {Shell}) ELSE service
                              EXCEPT !.held[what] = left]
        /\ UNCHANGED <<plugin, hardware, shown, files, unseen, replies>>

---------------------------------------------------------------------------

HardwareNext ==
    \E u \in Udis :
        \/ Plug(u) \/ AnnounceAgain(u) \/ Unplug(u)
        \/ RequestSetup(u)
        \/ \E error \in {"NoError", "DeviceBusy", "UserCanceled", "OperationFailed"} : SetupDone(u, error)
        \/ PercentChange(u)
        \/ \E size \in Sizes : SizeChange(u, size)
        \/ \E charge \in ChargeStates : ChargeChange(u, charge)

ApplicationNext == \E source \in Requested : Connect(source) \/ Leave(source) \/ Poll(source)

EngineNext ==
    \/ \E u \in Udis : StartupDevice(u) \/ \E ok \in BOOLEAN : FreeSpaceKnown(u, ok)
    \/ \E f \in DOMAIN Actions : FilesChange(f)
    \/ StartupEnds \/ DirWatch
    \/ /\ plugin = "devicenotifications"
       /\ \E i \in DOMAIN engine.queries, failed \in BOOLEAN : BlockingAppsKnown(i, failed)

ServiceNext ==
    \/ \E added, removed \in SUBSET Applications : InhibitionChange(added, removed)
    \/ \E profile \in Profiles : ProfileChange(profile)
    \/ \E ok \in BOOLEAN : ServiceAnswers(ok)
    \/ MessageArrives
    \/ \E what \in Suppressions, ok \in BOOLEAN : BeginSuppressing(what, ok) \/ StopSuppressing(what, ok)

Next == HardwareNext \/ ApplicationNext \/ EngineNext \/ ServiceNext

Spec == Init /\ [][Next]_vars

---------------------------------------------------------------------------

Current(source, key, value) == key \in DOMAIN engine.data[source] => engine.data[source][key] = value

Inside(u) == {v \in Udis : EncryptedContainer[v] = u}

\* Under the assumptions about devices (announcedIdle to sourceKept), every device
\* that an application shows is described in full as it is now, its size and mount state
\* included, and none that is gone has a source: populateDeviceData against the signals, the
\* jobs and the containers, which only the sources of what is in them tell.
DevicesShown ==
    plugin = "soliddevice" =>
        /\ Udis \intersect DOMAIN engine.data \subseteq DOMAIN hardware \intersect engine.devicemap
        /\ \A u \in shown \intersect Udis :
              /\ "known" \in DOMAIN engine.data[u] /\ Current(u, "known", hardware[u].size)
              /\ Is(hardware, u, "access") => "accessible" \in DOMAIN engine.data[u]
              /\ List(hardware, "volume") \intersect Inside(u) \subseteq shown =>
                    Current(u, "accessible", hardware[u].accessible)
              /\ Is(hardware, u, "battery") => "percent" \in DOMAIN engine.data[u]
              /\ Current(u, "percent", hardware[u].percent)
              /\ Current(u, "charge", hardware[u].charge)
              /\ u \in engine.heard => Current(u, "state", hardware[u].job)

\* A query lists the devices that match it, as m_predicatemap has them, whatever came,
\* went or was announced again while it was there.
QueriesCurrent ==
    plugin = "soliddevice" =>
        \A q \in DOMAIN Queries \intersect DOMAIN engine.data :
            /\ q \in DOMAIN engine.predicatemap
            /\ engine.data[q].devices = engine.predicatemap[q]
            /\ ToSet(engine.data[q].devices) = List(hardware, Queries[q])

\* The hotplug engine shows the devices that an action is for, with these actions, and no
\* device that is gone, when KDirWatch has told it all: the start list, the announcements
\* and updatePredicates in any order.  An encrypted volume may keep actions it had.
ActionsShown ==
    plugin = "hotplug" /\ ~unseen =>
        /\ DOMAIN engine.data \subseteq DOMAIN hardware
        /\ \A u \in DOMAIN hardware \ engine.startList :
              LET found == {f \in files : Actions[f] \in Interfaces[u]}
              IN  IF Skipped(u) THEN u \notin DOMAIN engine.data
                  ELSE /\ u \in DOMAIN engine.data <=> (found # {} \/ Encrypted(u))
                       /\ found # {} => engine.data[u].predicateFiles = found

\* The notification of a device that waits for no answer is about the last reply that has
\* something to say, and is there only if it does: mounts, unmounts, cancelled ones and the
\* answers of several lsof processes, each taken by all that wait, in any order.  An unmount
\* that leaves the drive in use says nothing, and a former error stays.
NotificationIsLast ==
    plugin = "devicenotifications" =>
        \A u \in DOMAIN hardware \ ToSet(engine.waiting) :
            LET error == IF replies[u] = "Removable" THEN "NoError" ELSE replies[u]
            IN  IF replies[u] \in {"None", "NoError"} THEN u \notin DOMAIN engine.data
                ELSE u \in DOMAIN engine.data /\ engine.data[u].error = error

\* The batteries have sources of their own with different names, the sources are the ones
\* that "Battery" lists, all say what the batteries are like, and "Battery" sums them up.
BatteriesShown ==
    plugin = "powermanagement" /\ "Battery" \in shown =>
        /\ DOMAIN engine.batterySources = List(hardware, "battery")
        /\ Cardinality(Names(engine)) = Cardinality(DOMAIN engine.batterySources)
        /\ BatteryNames \intersect DOMAIN engine.data = Names(engine)
        /\ \A u \in DOMAIN engine.batterySources :
              /\ Current(engine.batterySources[u], "percent", hardware[u].percent)
              /\ Current(engine.batterySources[u], "charge", hardware[u].charge)
        /\ engine.data["Battery"].hasBattery = (Names(engine) # {})
        /\ Current("Battery", "sources", Names(engine))
        /\ Names(engine) # {} => {"sources", "percent"} \subseteq DOMAIN engine.data["Battery"]
        /\ Current("Battery", "percent", OverallPercent(hardware))
        /\ Current("Battery", "charge", OverallState(hardware))

\* The jobs can take back every suppression that the service holds for them, and once an
\* answer and all signals have arrived, the sources show the inhibitions there are and
\* the current profile.
ServiceShown ==
    plugin = "powermanagement" =>
        /\ \A what \in Suppressions : service.held[what] = {engine.cookie[what]} \ {NoCookie}
        /\ "listed" \in service.answered /\ service.queue = <<>> =>
              service.inhibitors = IF "Inhibitions" \in DOMAIN engine.data
                                   THEN DOMAIN engine.data["Inhibitions"] ELSE {}
        /\ "profile" \in service.answered /\ service.queue = <<>> =>
              engine.data["Power Profiles"].current = service.profile

=============================================================================
