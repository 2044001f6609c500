-------------------------------- MODULE NOAAIon --------------------------------
(***************************************************************************)
(* The ion of the National Weather Service (ions/noaa/ion_noaa.cpp).  The  *)
(* stations come from an installed file.  A source starts two requests,    *)
(* the observation and the information of its point; the latter starts the *)
(* forecast and the alerts.  A request that fails calls nothing.           *)
(***************************************************************************)
EXTENDS Ion

CONSTANTS
    StationList,       \* what the file lists: place -> station
    Matches,           \* search text -> places it fits
    PointInfos,        \* what the service may know of a point: [forecast, county]
    StationFiles       \* how the file may be: "read", "missing" or "malformed"

ObservationReplies == [what : {"error", "malformed"}] \union [what : {"report"}, measures : {Measures}]
PointReplies == [what : {"error", "malformed"}] \union {("what" :> "report") @@ x : x \in PointInfos}
ForecastReplies == [what : {"error", "malformed"}] \union [what : {"report"}, days : DayCounts]
AlertReplies == [what : {"error"}] \union [what : {"report"}, alert : BOOLEAN]

NoWeather == [station |-> NoStation, observation |-> Nothing, forecasts |-> <<>>, alerts |-> Nothing,
              forecastUrl |-> FALSE, county |-> FALSE, forecastsPending |-> FALSE]

-----------------------------------------------------------------------------
(* Stations and searches *)

\* getStationList: only a file that can be opened changes anything.
GetStationList(i) ==
    CASE i.file = "missing" -> i
      [] i.file = "malformed" -> [i EXCEPT !.initialized = FALSE]
      [] i.file = "read" -> [i EXCEPT !.place = StationList, !.initialized = TRUE]

NewIon(file) ==
    GetStationList(
      BasicIon(FALSE) ++
      [file |-> file,
       place |-> [p \in {} |-> NoStation],           \* m_places
       weather |-> [p \in Places |-> NoWeather]])    \* m_weatherData, by source

Validate(i, s) ==
    LET found == DOMAIN i.place \intersect Matches[s.place]
    IN  Answer(i, s, IF found = {} THEN "invalid"
                     ELSE IF Cardinality(found) = 1 THEN "single" ELSE "multiple")

-----------------------------------------------------------------------------
(* Requests *)

GetObservation(i, p) == StartJob(i, Job("observation", p, i.weather[p].station))
GetPointsInfo(i, p) == StartJob(i, Job("points", p, i.weather[p].station))

\* locationUpdated is connected to both.
SetUpStation(i, s) ==
    IF s.place \notin DOMAIN i.place THEN Answer(i, s, "malformed")
    ELSE LET known == [i EXCEPT !.weather[s.place].station = i.place[s.place]]
         IN  GetPointsInfo(GetObservation(known, s.place), s.place)

UpdateIonSource(i, s) ==
    CASE s.action = "validate" -> Validate(i, s)
      [] s.action = "weather" -> SetUpStation(i, s)
      [] OTHER -> Answer(i, s, "malformed")

\* The list is read again, which asks for what is used; then for every container.
Reset(i) ==
    LET listed == GetStationList([i EXCEPT !.toReset = DOMAIN i.held])
        asked == IF i.file = "missing" THEN listed ELSE UpdateAllSources(listed, UpdateIonSource)
    IN  IF i.file # "read" THEN asked
        ELSE FoldSet(LAMBDA s, x : UpdateIonSource(x, s), asked, asked.toReset)

GetForecast(i, p) ==
    IF ~i.weather[p].forecastUrl THEN i
    ELSE StartJob([i EXCEPT !.weather[p].forecastsPending = TRUE], Job("forecast", p, i.weather[p].station))

GetAlerts(i, p) ==
    IF ~i.weather[p].county THEN i ELSE StartJob(i, Job("alerts", p, i.weather[p].station))

-----------------------------------------------------------------------------
(* Reports *)

Report(weather) ==
    ("Station" :> weather.station)
      @@ weather.observation @@ weather.alerts @@ DayReport(weather.forecasts)

UpdateWeather(i, s) ==
    IF i.weather[s.place].forecastsPending THEN i
    ELSE SetData(CleanUpData(i, s), s, Report(i.weather[s.place]))

\* Nothing is connected to observationUpdated: the next report brings the observation.
ReadObservation(i, s, reply) ==
    IF reply.what # "report" THEN i
    ELSE [i EXCEPT !.weather[s.place].observation = [m \in reply.measures |-> i.weather[s.place].station]]

\* pointsInfoUpdated is connected to both requests.
ReadPointsInfo(i, s, reply) ==
    IF reply.what # "report" THEN i
    ELSE LET known == [i EXCEPT !.weather[s.place].forecastUrl = reply.forecast,
                                !.weather[s.place].county = reply.county]
         IN  GetAlerts(GetForecast(known, s.place), s.place)

\* Mutant: a forecast that was read is pending still.
ReadForecastPending(i, s, reply) ==
    IF reply.what # "report" THEN i
    ELSE UpdateWeather([i EXCEPT !.weather[s.place].forecasts =
                                   [d \in 1..reply.days |-> i.weather[s.place].station]], s)

\* A failed request leaves the forecast pending; a malformed one does not publish.
ReadForecast(i, s, reply) ==
    LET p == s.place
    IN  CASE reply.what = "error" -> i
          [] reply.what = "malformed" -> [i EXCEPT !.weather[p].forecastsPending = FALSE]
          [] reply.what = "report" ->
               UpdateWeather([i EXCEPT !.weather[p].forecastsPending = FALSE,
                                       !.weather[p].forecasts = [d \in 1..reply.days |-> i.weather[p].station]], s)

ReadAlerts(i, s, reply) ==
    IF reply.what # "report" THEN i
    ELSE LET read == UpdateWeather([i EXCEPT !.weather[s.place].alerts =
                        IF reply.alert THEN "Warning 0" :> i.weather[s.place].station ELSE Nothing], s)
         IN  Relay(read, read.dirty)

-----------------------------------------------------------------------------
Slots == {"observation", "points", "forecast", "alerts"}

Replies(job) ==
    CASE job.slot = "observation" -> ObservationReplies
      [] job.slot = "points" -> PointReplies
      [] job.slot = "forecast" -> ForecastReplies
      [] job.slot = "alerts" -> AlertReplies

\* The source names no station: the record of one has that of the list.
SlotJobFinished(i0, job, reply) ==
    LET i == EndJob(i0, job)
        s == WeatherSource(job.place, job.station)
    IN  CASE job.slot = "observation" -> ReadObservation(i, s, reply)
          [] job.slot = "points" -> ReadPointsInfo(i, s, reply)
          [] job.slot = "forecast" -> ReadForecast(i, s, reply)
          [] job.slot = "alerts" -> ReadAlerts(i, s, reply)

=============================================================================
