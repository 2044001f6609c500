SPECIFICATION FairSpec
CONSTANTS
    Places <- MCPlaces
    Stations = {"st1", "st2"}
    NoStation = "none"
    Measures = {"Temperature"}
    DayCounts = {2}
    DayLimit = 1
    Scenarios <- MCSetup
    UKMETResults <- MCUKMETResults
    UKMETObservations <- MCUKMETObservations
    MaxRetryAttempts = 1
    Catalogue <- MCCatalogue
    Matches <- MCMatches
    CatalogueFails = FALSE
    WetterComResults <- MCWetterComResults
    PointInfos <- MCPointInfos
    StationFiles = {"read", "missing", "malformed"}
    Hours = 2
    FileHours = {2}
    SiteReports <- MCSiteReports
PROPERTY
    AskedIsServed
