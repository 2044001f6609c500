----------------------------- MODULE HotplugEngine -----------------------------
(***************************************************************************)
(* The hotplug engine (dataengines/hotplug/hotplugengine.cpp): a source    *)
(* for every device that some action on disk is for.  Devices that are     *)
(* there at the start are handled one by one, between other events.        *)
(***************************************************************************)
EXTENDS Hardware

CONSTANTS
    Actions,           \* files in solid/actions -> the interface their predicate asks for
    NoAction           \* stands in m_predicates when there is no file

ASSUME ActionsAssumption == NoAction \notin DOMAIN Actions

\* findPredicates reads the files.
FindPredicates(e, files) ==
    [e EXCEPT !.predicates = IF files = {} THEN {NoAction} ELSE files]

PredicatesForDevice(e, u) == {f \in e.predicates \ {NoAction} : Actions[f] \in Interfaces[u]}

Encrypted(u) == "encrypted" \in Interfaces[u]

\* Internal drives, and volumes that are not used and hold no disc, are skipped.
Skipped(u) ==
    \/ "internal" \in Interfaces[u]
    \/ "unused" \in Interfaces[u] /\ "disc" \notin Interfaces[u]

Description(e, u, added) ==
    [added |-> added, predicateFiles |-> PredicatesForDevice(e, u), encrypted |-> Encrypted(u)]

\* handleDeviceAdded
HandleDeviceAdded(e, files, u, added) ==
    LET known == [e EXCEPT !.devices = @ \union {u}]
        found == IF e.predicates = {} THEN FindPredicates(known, files) ELSE known
        predicates == PredicatesForDevice(found, u)
    IN  IF Skipped(u) THEN e
        ELSE IF predicates = {} /\ ~Encrypted(u) THEN found
        ELSE SetData(found, u, Description(found, u, added))

\* The start list is empty: no more timer.
ForgetPredicates(e) == [e EXCEPT !.predicates = {}, !.starting = FALSE]

\* processNextStartupDevice, with a device that comes first in the hash
ProcessNextStartupDevice(e, files, u) ==
    LET handled == [HandleDeviceAdded(e, files, u, FALSE) EXCEPT !.startList = @ \ {u}]
    IN  IF handled.startList = {} THEN ForgetPredicates(handled) ELSE handled

\* The constructor lists the devices that are there, and handles the first.
NewHotplugEngines(h, files) ==
    LET new == [data |-> [s \in {} |-> NoData], devices |-> {}, startList |-> DOMAIN h,
                predicates |-> {}, starting |-> DOMAIN h # {}]
    IN  IF DOMAIN h = {} THEN {new}
        ELSE {ProcessNextStartupDevice(FindPredicates(new, files), files, u) : u \in DOMAIN h}

\* updatePredicates: a device gets a source, other actions in its source, or loses it; an
\* encrypted volume without an action keeps the actions it had.
UpdatePredicates(e, files) ==
    LET found == FindPredicates(e, files)
        applicable == {u \in e.devices : PredicatesForDevice(found, u) # {}}
        known == applicable \intersect DOMAIN e.data
        new == {u \in applicable \ known : ~Skipped(u)}
        changes == [u \in known \union new |->
                      IF u \in known THEN [predicateFiles |-> PredicatesForDevice(found, u)]
                      ELSE Description(found, u, FALSE)]
    IN  SetEach(RemoveSources(found, {u \in e.devices \ applicable : ~Encrypted(u)}), changes)

OnDeviceAdded(e, files, u) == HandleDeviceAdded(e, files, u, TRUE)

\* Mutant: a device that waits to be handled is handled all the same.
OnDeviceRemovedLate(e, u) == RemoveSource([e EXCEPT !.devices = @ \ {u}], u)

\* onDeviceRemoved: a device that waits to be handled has no source.  The timer that was
\* started for it stays.
OnDeviceRemoved(e, u) ==
    IF u \in e.startList THEN [e EXCEPT !.startList = @ \ {u}]
    ELSE RemoveSource([e EXCEPT !.devices = @ \ {u}], u)

=============================================================================
