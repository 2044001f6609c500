SPECIFICATION FairSpec
CONSTANTS
    Engines = {e1}
    Names = {a, b}
    Visualizations = {d1, d2}
    RequestOutcomes <- Contract
    NoEngine = NoEngine
    Careful = TRUE
INVARIANTS
    TypeOK
    UnusedIsTimed
    AddedIsListed
    ListedIsConnected
    ConnectedIsListed
    ShownIsHeld
PROPERTY
    UnusedIsRetired
