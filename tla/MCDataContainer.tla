-------------------------- MODULE MCDataContainer --------------------------
(* Instances of DataContainer for TLC. *)
EXTENDS DataContainer, TLC

\* With these as Calls of the run container_promise DirectCurrent is violated.
JoinCalls    == {"joinWhileDirty"}

SlotCalls    == {"changesInterval", "polledToDirect", "joinWhileDirty", "slotCallsClient",
                 "slotSetsData", "force"}
NoCalls      == {}
ForceCalls   == {"force"}

OneAlignment  == {NoAlignment}

\* An engine that answers every poll, in the call or later
PollEngine == {"tooSoon", "sync"}
PushEngine == {"none"}
AnyEngine  == OutcomeKinds

Symmetry == Permutations(Visualizations)

=============================================================================
