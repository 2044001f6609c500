------------------------------- MODULE Hardware -------------------------------
(***************************************************************************)
(* What the engines for devices share: the devices that the Solid library  *)
(* shows them, and the data of an engine's sources (dataengine.cpp).       *)
(*                                                                         *)
(* The hardware is a function from the udis of the devices that are there  *)
(* to what they are like now.  An engine is a record, and a slot of it an  *)
(* operator from the engine before the call to the engine after it, as the *)
(* hardware is during the call.                                            *)
(***************************************************************************)
EXTENDS Integers, Sequences, FiniteSets, SequencesExt

CONSTANTS
    Interfaces,        \* udi -> Solid::DeviceInterface types: "access", "volume",
                       \* "encrypted", "drive", "disc", "supply" and "battery"
    EncryptedContainer,\* udi -> the encrypted volume that it is in, or NoDevice
    NoDevice

Udis == DOMAIN Interfaces

ASSUME HardwareAssumption ==
    /\ IsFiniteSet(Udis)
    /\ NoDevice \notin Udis
    /\ DOMAIN EncryptedContainer = Udis
    /\ \A u \in Udis : EncryptedContainer[u] \in Udis \union {NoDevice}
    /\ \A u \in Udis : EncryptedContainer[u] # NoDevice => "volume" \in Interfaces[u]

NoData == [k \in {} |-> NoDevice]

\* A device that was just plugged in: whether its file system is accessible and what is
\* done about that, its size, and the charge of a battery
Plugged == [accessible |-> FALSE, job |-> "Idle", size |-> 0, percent |-> 1, charge |-> "Charging"]

\* Solid::Device::is, of a device that is there
Is(h, u, interface) == u \in DOMAIN h /\ interface \in Interfaces[u]

\* Solid::Device::listFromType
List(h, interface) == {u \in DOMAIN h : interface \in Interfaces[u]}

\* What a function says, and for what it says nothing of, another one
Over(f, g) == [x \in DOMAIN f \union DOMAIN g |-> IF x \in DOMAIN f THEN f[x] ELSE g[x]]

DataOf(e, source) == IF source \in DOMAIN e.data THEN e.data[source] ELSE NoData

\* DataEngine::setData makes a container that is not there, and merges the keys;
\* of several sources in any order
SetEach(e, changes) ==
    [e EXCEPT !.data = Over([s \in DOMAIN changes |-> Over(changes[s], DataOf(e, s))], @)]

SetData(e, source, changes) == SetEach(e, [s \in {source} |-> changes])

RemoveData(e, source, keys) ==
    IF source \notin DOMAIN e.data THEN e
    ELSE [e EXCEPT !.data[source] = [k \in DOMAIN @ \ keys |-> @[k]]]

RemoveAllData(e, source) == IF source \in DOMAIN e.data THEN [e EXCEPT !.data[source] = NoData] ELSE e

RemoveSources(e, sources) == [e EXCEPT !.data = [s \in DOMAIN @ \ sources |-> @[s]]]

RemoveSource(e, source) == RemoveSources(e, {source})

=============================================================================
