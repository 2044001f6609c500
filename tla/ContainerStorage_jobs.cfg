SPECIFICATION FairSpec
CONSTANTS
    Keys <- MCKeys
    Values <- MCValues
    Invalid = "invalid"
    Storable <- MCStorable
    JobIds = {1, 2, 3}
    MaxSets = 3
    MaxFaults = 1
    EnableLate = FALSE
INVARIANTS
    SavesCounted
    NothingForgotten
PROPERTIES
    EventuallyStored
    EventuallyRetrieved
