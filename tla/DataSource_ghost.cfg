SPECIFICATION Spec
CONSTANTS
    Engines = {e1}
    Names = {a}
    Visualizations = {d1}
    RequestOutcomes <- Contract
    NoEngine = NoEngine
    Careful = TRUE
INVARIANT
    NoGhostSource
