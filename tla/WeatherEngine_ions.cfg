SPECIFICATION FairSpec
CONSTANTS
    Places <- MCPlaces
    Stations = {"st1", "st2"}
    NoStation = "none"
    Measures = {"Temperature"}
    DayCounts = {2}
    DayLimit = 1
    Scenarios <- MCScenarios
    UKMETResults <- MCUKMETResults
    UKMETObservations <- MCUKMETObservations
    MaxRetryAttempts = 1
    Catalogue <- MCCatalogue
    Matches <- MCMatches
    CatalogueFails = FALSE
    WetterComResults <- MCWetterComResults
    PointInfos <- MCPointInfos
    StationFiles = {"read", "missing", "malformed"}
    Hours = 2
    FileHours = {2}
    SiteReports <- MCSiteReports
INVARIANTS
    PlaceKept
    PendingHasJob
    HeldIsCurrent
PROPERTIES
    WeatherShown
    SearchAnswered
    ResetServed
