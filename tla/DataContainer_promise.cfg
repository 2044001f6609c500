SPECIFICATION FairSpec
CONSTANTS
    Visualizations = {v1, v2}
    Intervals = {1, 2}
    NoAlignment = "NoAlignment"
    Alignments <- OneAlignment
    OnDemand = TRUE
    Calls <- ForceCalls
    TickOutcomes <- PollEngine
    MaxVersion = 2
    MaxModel = 1
    MaxModelConnections = 2
INVARIANT
    DirectCurrent
PROPERTY
    KeepsPromise
