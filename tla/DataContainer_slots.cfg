SPECIFICATION Spec
CONSTANTS
    Visualizations = {v1, v2}
    Intervals = {1, 2}
    NoAlignment = "NoAlignment"
    Alignments <- OneAlignment
    OnDemand = TRUE
    Calls <- SlotCalls
    TickOutcomes <- AnyEngine
    MaxVersion = 2
    MaxModel = 1
    MaxModelConnections = 2
INVARIANTS
    TypeOK
    SubscriptionsConsistent
    UsageTracked
    PendingIsScheduled
    ModelCurrent
SYMMETRY Symmetry
CHECK_DEADLOCK FALSE
