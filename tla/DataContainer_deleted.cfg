SPECIFICATION Spec
CONSTANTS
    Visualizations = {v1, v2}
    Intervals = {1, 2}
    NoAlignment = "NoAlignment"
    Alignments <- OneAlignment
    OnDemand = TRUE
    Calls <- SlotCalls
    TickOutcomes <- PollEngine
    MaxVersion = 2
    MaxModel = 0
    MaxModelConnections = 2
INVARIANT
    CopiedRelaysLive
CHECK_DEADLOCK FALSE
