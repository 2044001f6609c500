--------------------------- MODULE SolidDeviceEngine ---------------------------
(***************************************************************************)
(* The solid device engine (dataengines/soliddevice): a source for each    *)
(* device that is asked for by its udi, and for each query, the list of    *)
(* the devices it matches.                                                 *)
(*                                                                         *)
(* Of the data of a device, "known" stands for what a device of two stages *)
(* has for good when it has its size, and others have at once; the         *)
(* temperatures (hddtemp.cpp) and emblems are left out.                    *)
(***************************************************************************)
EXTENDS Hardware, Subsequences

CONSTANTS
    Queries,           \* predicate -> the interface that it asks for
    IntWidth           \* the bits of an int

ASSUME QueriesAssumption == DOMAIN Queries \intersect Udis = {}

\* QVariant::toInt of a number that may be wider
ToInt(n) ==
    LET low == n % 2^IntWidth
    IN  IF low < 2^(IntWidth - 1) THEN low ELSE low - 2^IntWidth

NewSolidDeviceEngine ==
    [data |-> [s \in {} |-> NoData],
     devicemap |-> {},                        \* m_devicemap
     predicatemap |-> [q \in {} |-> <<>>],    \* m_predicatemap
     paths |-> {},                            \* m_paths: jobs for the free space
     encrypted |-> [u \in {} |-> NoDevice],   \* m_encryptedContainerMap
     mapped |-> {},                           \* m_signalmanager
     heard |-> {},                            \* setup and teardown, connected in deviceAdded
     staged |-> {}]                           \* propertyChanged of devices without a size

\* Device::isValid, of what m_devicemap has for a udi
Valid(e, h, u) == u \in e.devicemap /\ u \in DOMAIN h

\* The answer comes with the job, never at once.
UpdateStorageSpace(e, h, u) ==
    IF Valid(e, h, u) /\ Is(h, u, "access") /\ h[u].accessible
    THEN [e EXCEPT !.paths = @ \union {u}]
    ELSE e

\* What is accessible is in use, and with it the one drive that all volumes are on.
UpdateInUse(e, h, u) ==
    IF Valid(e, h, u) /\ Is(h, u, "access") /\ (h[u].accessible \/ List(h, "drive") # {})
    THEN SetData(e, u, [inUse |-> \E v \in List(h, "access") : h[v].accessible])
    ELSE e

\* A device in it tells of what libsolid cannot notify.
ForceUpdateAccessibility(e, h, u) ==
    IF Valid(e, h, u) /\ Is(h, u, "access")
    THEN SetData(e, u, [accessible |-> h[u].accessible])
    ELSE e

PopulateStorageAccess(e, h, u) ==
    IF Is(h, u, "access")
    THEN [UpdateStorageSpace(SetData(e, u, [accessible |-> h[u].accessible]), h, u)
             EXCEPT !.mapped = @ \union {u}]
    ELSE e

PopulateStorageVolume(e, h, u) ==
    LET used == UpdateInUse(e, h, u)
        c == EncryptedContainer[u]
    IN  IF ~Is(h, u, "volume") THEN e
        ELSE IF c \notin DOMAIN h THEN used
        ELSE ForceUpdateAccessibility([SetData(used, u, [container |-> c])
                                          EXCEPT !.encrypted = Over([v \in {u} |-> c], @)], h, c)

PopulateBattery(e, h, u) ==
    IF Is(h, u, "battery")
    THEN [SetData(e, u, [percent |-> h[u].percent, charge |-> h[u].charge])
             EXCEPT !.mapped = @ \union {u}]
    ELSE e

\* populateDeviceData: an operation on the device counts as over.
PopulateDeviceData(e, h, u) ==
    LET known == SetData(e, u, [known |-> h[u].size, state |-> "Idle", result |-> "Working"])
    IN  PopulateBattery(PopulateStorageVolume(PopulateStorageAccess(known, h, u), h, u), h, u)

\* sourceRequestEvent; the engine is the same when it refuses.
RequestDevice(e, h, u) ==
    IF u \notin DOMAIN h \/ u \in e.devicemap THEN e
    ELSE PopulateDeviceData([e EXCEPT !.devicemap = @ \union {u}], h, u)

RequestQuery(e, h, q) ==
    IF q \in DOMAIN e.predicatemap THEN e
    ELSE LET found == SetToSeq(List(h, Queries[q]))
         IN  SetData([e EXCEPT !.predicatemap = Over([p \in {q} |-> found], @)], q, [devices |-> found])

\* removeSource and sourceWasRemoved, which it calls
SourceWasRemoved(e, source) ==
    RemoveSource([e EXCEPT !.devicemap = @ \ {source},
                           !.predicatemap = [q \in DOMAIN @ \ {source} |-> @[q]]], source)

\* The lists of queries are set anew.
SetLists(e, lists) ==
    SetEach([e EXCEPT !.predicatemap = Over(lists, @)], [q \in DOMAIN lists |-> [devices |-> lists[q]]])

\* The queries that match list the device; a device that is announced again is listed
\* again, as often as it is announced.
AddToQueries(e, u) ==
    SetLists(e, [q \in {q \in DOMAIN e.predicatemap : Queries[q] \in Interfaces[u]} |->
                    Append(e.predicatemap[q], u)])

\* The queries list the device no more; others are told the same again.
RemoveFromQueries(e, u) ==
    SetLists(e, [q \in DOMAIN e.predicatemap |->
                    Subsequence(e.predicatemap[q],
                                {n \in DOMAIN e.predicatemap[q] : e.predicatemap[q][n] # u})])

\* deviceAdded
DeviceAdded(e, h, u) ==
    LET listed == AddToQueries(e, u)
    IN  IF ~Is(h, u, "volume") THEN listed
        ELSE [listed EXCEPT
                !.staged = IF u \in e.devicemap /\ "size" \notin DOMAIN e.data[u] THEN @ \union {u} ELSE @,
                !.heard = IF Is(h, u, "access") THEN @ \union {u} ELSE @]

SetMountingState(e, u) ==
    IF u \in e.heard THEN SetData(e, u, [state |-> "Mounting", result |-> "Working"]) ELSE e

SetUnmountingState(e, u) ==
    IF u \in e.heard THEN SetData(e, u, [state |-> "Unmounting", result |-> "Working"]) ELSE e

SetIdleState(e, h, u, result) ==
    IF u \notin e.heard THEN e
    ELSE ForceUpdateAccessibility(SetData(e, u, [state |-> "Idle", result |-> result]), h, u)

\* deviceChanged(props): the device has its size now, as an int.
SizeChanged(e, h, u) ==
    IF u \in e.staged /\ ToInt(h[u].size) > 0 /\ Valid(e, h, u) THEN PopulateDeviceData(e, h, u) ELSE e

\* updateSourceEvent, for a visualization that polls and for a device that changed
UpdateSourceEvent(e, h, u) == UpdateInUse(UpdateStorageSpace(e, h, u), h, u)

\* deviceChanged(udi, property, value), through the signal mappers
DeviceChanged(e, h, u, change) ==
    IF u \in e.mapped THEN UpdateSourceEvent(SetData(e, u, change), h, u) ELSE e

AccessibilityChanged(e, h, u) == DeviceChanged(e, h, u, [accessible |-> h[u].accessible])

ChargePercentChanged(e, h, u) == DeviceChanged(e, h, u, [percent |-> h[u].percent])

\* The mapper has three names for the four charge states; of no charge it says the
\* wrong one, and of a full battery none.
ChargeStateChanged(e, h, u) ==
    DeviceChanged(e, h, u, [charge |-> IF h[u].charge = "NoCharge" THEN "FullyCharged" ELSE h[u].charge])

\* The job of updateStorageSpace has ended.
FreeSpaceJobDone(e, h, u, ok) ==
    LET done == [e EXCEPT !.paths = @ \ {u}]
    IN  IF ok THEN SetData(done, u, [free |-> TRUE, size |-> TRUE]) ELSE done

\* Mutant: the device stays in the queries until somebody asks again.
DeviceRemovedListed(e, h, u) ==
    LET gone == SourceWasRemoved(e, u)
    IN  [gone EXCEPT !.mapped = @ \ {u}, !.heard = @ \ {u}, !.staged = @ \ {u}]

\* Mutant: the encrypted container is not told.
DeviceRemovedAlone(e, h, u) ==
    LET gone == SourceWasRemoved(RemoveFromQueries(e, u), u)
    IN  [gone EXCEPT !.mapped = @ \ {u}, !.heard = @ \ {u}, !.staged = @ \ {u}]

\* deviceRemoved; the objects of the device die with it, and their connections.
DeviceRemoved(e, h, u) ==
    LET forced == IF u \in DOMAIN e.encrypted
                  THEN [ForceUpdateAccessibility(e, h, e.encrypted[u])
                           EXCEPT !.encrypted = [v \in DOMAIN @ \ {u} |-> @[v]]]
                  ELSE e
        gone == SourceWasRemoved(RemoveFromQueries(forced, u), u)
    IN  [gone EXCEPT !.mapped = @ \ {u}, !.heard = @ \ {u}, !.staged = @ \ {u}]

=============================================================================
