SPECIFICATION Spec
CONSTANTS
    Consumers <- MCConsumers
    Names <- MCNames
    Owner <- MCOwner
    NoEngine = "none"
    PluginsAppear = FALSE
    MaxInstances = 4
INVARIANTS
    TypeOK
    CountsHolders
    NoDanglingEngine
    NoUnusedEngine
PROPERTY
    SharesEngines
