----------------------------- MODULE EnvCanadaIon -----------------------------
(***************************************************************************)
(* The ion of Environment Canada (ions/envcan/ion_envcan.cpp).  The list   *)
(* of cities is downloaded first, through one reader that every download   *)
(* of it shares.  The report of a city is found in three requests, made    *)
(* one after the other: the folders of the hours, the files of an hour,    *)
(* the file; a folder without the file leads to the one before it.         *)
(***************************************************************************)
EXTENDS Ion

CONSTANTS
    Cities,            \* what the list names: place -> city code
    Matches,           \* search text -> places it fits
    Hours,             \* hour folders there are
    FileHours,         \* those with a file of the city, newest = 1
    SiteReports        \* what a file may hold: sequences of sections

NoUrl == [requests |-> 0, code |-> NoStation, hours |-> 0, hourIndex |-> 1, file |-> FALSE]

NoData == [keys |-> Nothing, conditions |-> Nothing, warnings |-> Nothing, forecasts |-> <<>>,
           urlInfo |-> NoUrl]

-----------------------------------------------------------------------------
(* The list of cities *)

\* getXMLSetup starts the shared reader again, whoever is using it.
GetXMLSetup(i) == StartJob([i EXCEPT !.xml = "empty"], Job("setup", NoPlace, NoStation))

NewIon ==
    GetXMLSetup(BasicIon(FALSE) ++
                [xml |-> "empty",                            \* m_xmlSetup
                 place |-> [p \in {} |-> NoStation],         \* m_places
                 weather |-> [p \in Places |-> NoData]])     \* m_weatherData, by source

\* setup_slotDataArrived: the document follows whatever the reader holds.
SetupDataArrived(i, job) ==
    StartJob([EndJob(i, job) EXCEPT !.xml = IF @ = "empty" THEN "list" ELSE "spoiled"],
             [job EXCEPT !.slot = "setupEnd"])

\* Two documents in a row are an error, after the first has been read.
ReadXMLSetup(i) == IF i.xml = "empty" THEN i ELSE [i EXCEPT !.place = Cities @@ @]

-----------------------------------------------------------------------------
(* Finding the report *)

\* The folder and the file of the next request; hours.at(hourIndex) is read.
Url(info) == [hour |-> IF info.hours > 0 THEN info.hourIndex ELSE 0, file |-> info.file]

GetWeatherData(i, p) ==
    LET info == [i.weather[p].urlInfo EXCEPT
                   !.requests = @ + 1,
                   !.code = IF @ = NoStation /\ i.weather[p].urlInfo.requests < 3 THEN i.place[p] ELSE @]
        asked == [i EXCEPT !.weather[p].urlInfo = info]
    IN  IF info.requests > 3 THEN asked
        ELSE StartJob(asked, ("url" :> Url(info)) @@ Job("weather", p, info.code))

\* The listing of a folder: hours are taken when none is known, files always.
ParseDirListing(info, url) ==
    LET expectingFileNames == info.hours > 0
        listed == [info EXCEPT !.hours = IF ~expectingFileNames /\ url.hour = 0 THEN Hours ELSE @,
                               !.file = @ \/ url.hour \in FileHours]
    IN  IF expectingFileNames /\ ~listed.file /\ info.hourIndex <= info.hours
        THEN [listed EXCEPT !.hourIndex = @ + 1, !.requests = @ - 1]
        ELSE listed

-----------------------------------------------------------------------------
(* The report *)

\* The sections of a file, in the order they come.
ParseLocations(data, st) == [data EXCEPT !.keys = ("Place" :> st) @@ @]

\* All conditions are reset first, those that have no number stay away.
ParseConditions(data, st, section) == [data EXCEPT !.conditions = [m \in section.measures |-> st]]

\* An event without a url or a local time is not added.
ParseWarnings(data, st, section) ==
    [data EXCEPT !.warnings = IF section.complete THEN "Warning 0" :> st ELSE Nothing]

ParseForecast(data, st) == [data EXCEPT !.forecasts = Append(@, st)]

\* Forecasts of an earlier group are dropped.
ParseWeatherForecast(data, st, section) ==
    FoldLeft(LAMBDA d, forecast : ParseForecast(d, st),
             [data EXCEPT !.forecasts = <<>>,
                          !.keys = (IF section.normals THEN "Normal High" :> st ELSE Nothing) @@ @],
             [d \in 1..section.days |-> d])

ParseYesterdayWeather(data, st) == [data EXCEPT !.keys = ("Yesterday High" :> st) @@ @]
ParseWeatherRecords(data, st) == [data EXCEPT !.keys = ("Record High Temperature" :> st) @@ @]

\* Sun and moon are read and never published; other sections are skipped.
ParseWeatherSite(data, st, sections) ==
    FoldLeft(LAMBDA d, section :
               CASE section.name = "location" -> ParseLocations(d, st)
                 [] section.name = "warnings" -> ParseWarnings(d, st, section)
                 [] section.name = "currentConditions" -> ParseConditions(d, st, section)
                 [] section.name = "forecastGroup" -> ParseWeatherForecast(d, st, section)
                 [] section.name = "yesterdayConditions" -> ParseYesterdayWeather(d, st)
                 [] section.name = "almanac" -> ParseWeatherRecords(d, st)
                 [] OTHER -> d,
             data, sections)

Report(st, data) ==
    ("Credit" :> st) @@ data.keys @@ data.conditions @@ data.warnings @@ DayReport(data.forecasts)

UpdateWeather(i, s) ==
    SetData(CleanUpData(i, s), s, Report(s.station, i.weather[s.place]))

\* A listing leads to the next request; a file replaces all that was known.
ReadXMLData(i, s, job, reply) ==
    IF reply.what = "listing"
    THEN GetWeatherData([i EXCEPT !.weather[s.place].urlInfo = ParseDirListing(@, job.url)], s.place)
    ELSE UpdateWeather([i EXCEPT !.weather[s.place] =
                          ParseWeatherSite(NoData, job.station, reply.sections)], s)

\* The first answer of a source to be reset serves the reset, weather or not.
WeatherJobFinished(i0, job, reply) ==
    LET s == WeatherSource(job.place, job.station)
        i == SetData(i0, s, Nothing)
        read == IF reply.what \in {"error", "missing"} THEN i ELSE ReadXMLData(i, s, job, reply)
    IN  ServeReset(EndJob(read, job), s)

-----------------------------------------------------------------------------
(* Requests *)

Validate(i, s) ==
    LET found == DOMAIN i.place \intersect Matches[s.place]
    IN  Answer(i, s, IF found = {} THEN "invalid"
                     ELSE IF Cardinality(found) = 1 THEN "single" ELSE "multiple")

\* A new search for the file begins, also while an older one goes on.
UpdateIonSource(i, s) ==
    CASE s.action = "validate" -> Validate(i, s)
      [] s.action = "weather" ->
           GetWeatherData([i EXCEPT !.weather[s.place].urlInfo = NoUrl], s.place)
      [] OTHER -> Answer(i, s, "malformed")

SetupFinished(i, job) ==
    LET read == [EndJob(ReadXMLSetup(i), job) EXCEPT !.xml = "empty", !.initialized = i.xml = "list"]
    IN  UpdateAllSources(read, UpdateIonSource)

\* reset forgets warnings and forecasts (deleteForecasts) and loads the list again.
Reset(i) ==
    GetXMLSetup([i EXCEPT !.toReset = DOMAIN i.held,
                          !.weather = [p \in Places |-> [@[p] EXCEPT !.warnings = Nothing,
                                                                     !.forecasts = <<>>]]])

-----------------------------------------------------------------------------
Replies(job) ==
    CASE job.slot = "setup" -> [what : {"error", "data"}]
      [] job.slot = "setupEnd" -> [what : {"timer"}]
      [] job.slot = "weather" ->
           [what : {"error"}] \union
             IF job.url.hour > Hours \/ (job.url.file /\ job.url.hour \notin FileHours)
             THEN [what : {"missing"}]
             ELSE IF job.url.file THEN [what : {"site"}, sections : SiteReports]
             ELSE [what : {"listing"}]

SlotJobFinished(i, job, reply) ==
    CASE job.slot = "setup" /\ reply.what = "data" -> SetupDataArrived(i, job)
      [] job.slot = "setup" /\ reply.what = "error" -> SetupFinished(i, job)
      [] job.slot = "setupEnd" -> SetupFinished(i, job)
      [] job.slot = "weather" -> WeatherJobFinished(i, job, reply)

=============================================================================
