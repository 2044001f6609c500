-------------------------------- MODULE DWDIon --------------------------------
(***************************************************************************)
(* The ion of Deutscher Wetterdienst (ions/dwd/ion_dwd.cpp).  A search     *)
(* needs the catalogue of stations, which is loaded into the same map      *)
(* m_place where the places with weather are remembered; the forecast and  *)
(* the measurements of a place are two requests answered in any order.     *)
(***************************************************************************)
EXTENDS Ion

CONSTANTS
    Catalogue,         \* station list of the service: name -> station
    Matches,           \* search text -> names that contain it
    CatalogueFails     \* the list may fail to come, or come empty

SetupReplies ==
    [what : {"stations", "headless"} \union IF CatalogueFails THEN {"error", "empty"} ELSE {}]
MeasureReplies == [what : {"error", "empty"}] \union [what : {"report"}, measures : SUBSET Measures]
ForecastReplies ==
    [what : {"error", "empty"}] \union [what : {"report"}, days : DayCounts, warned : BOOLEAN]

NoWeather == [measures |-> Nothing, forecasts |-> <<>>, warnings |-> Nothing,
              forecastsPending |-> FALSE, measurePending |-> FALSE]

NewIon ==
    BasicIon(TRUE) ++
    [place |-> [n \in {} |-> NoStation],            \* m_place
     weather |-> [p \in Places |-> NoWeather],      \* m_weatherData
     locations |-> {}]                              \* m_locations

-----------------------------------------------------------------------------
(* Searches *)

Validate(i, text) ==
    [Answer(i, ValidateSource(text),
            IF i.locations = {} THEN "invalid"
            ELSE IF Cardinality(i.locations) > 1 THEN "multiple" ELSE "single")
       EXCEPT !.locations = {}]

SearchInStationList(i, text) ==
    Validate([i EXCEPT !.locations = @ \union (DOMAIN i.place \intersect Matches[text])], text)

\* "Checks if the stations have already been loaded": more than one place is known.
StationsLoaded(i) == Cardinality(DOMAIN i.place) > 1

FindPlace(i, text) ==
    IF StationsLoaded(i)
    THEN SearchInStationList(SetData(i, ValidateSource(text), Nothing), text)
    ELSE StartJob(i, Job("setup", text, NoStation))

\* The list overrides the stations of the places it names.
ParseStationData(i, reply) ==
    IF reply.what = "stations" THEN [i EXCEPT !.place = Catalogue @@ @] ELSE i

\* A search whose list does not come is not answered.
SetupFinished(i0, job, reply) ==
    LET i1 == EndJob(i0, job)
        i2 == SetData(i1, ValidateSource(job.place), Nothing)
    IN  CASE reply.what = "error" -> i1
          [] reply.what = "empty" -> i2
          [] OTHER -> SearchInStationList(ParseStationData(i2, reply), job.place)

-----------------------------------------------------------------------------
(* Weather *)

FetchWeather(i, p, st) ==
    StartJob(StartJob([i EXCEPT !.weather[p].forecastsPending = TRUE,
                                !.weather[p].measurePending = TRUE],
                      Job("forecast", p, st)),
             Job("measure", p, st))

UpdateIonSource(i, s) ==
    CASE s.action = "validate" -> FindPlace(i, s.place)
      [] s.action = "weather" ->
           FetchWeather([SetData(i, s, Nothing) EXCEPT !.place = (s.place :> s.station) @@ @],
                        s.place, s.station)
      [] OTHER -> Answer(i, s, "malformed")

\* reset, when the network is back
Reset(i) == UpdateAllSources([i EXCEPT !.toReset = DOMAIN i.held], UpdateIonSource)

\* Measurements that did not come are replaced by those of the forecast's first day.
Report(place, weather) ==
    ("Credit" :> place)
      @@ weather.measures
      @@ weather.warnings
      @@ DayReport(weather.forecasts)

\* cleanUpData is given the place, and no source has that name: nothing is removed.
UpdateWeather(i, p) ==
    LET s == WeatherSource(p, i.place[p])
    IN  IF i.weather[p].forecastsPending \/ i.weather[p].measurePending THEN i
        ELSE ServeReset(SetData(i, s, Report(i.place[p], i.weather[p])), s)

ParseMeasureData(weather, st, reply) ==
    [weather EXCEPT !.measures = [m \in reply.measures |-> st]]

\* Old forecasts and warnings are flushed out.
ParseForecastData(weather, st, reply) ==
    [weather EXCEPT !.forecasts = FirstDays([d \in 1..reply.days |-> st], DayLimit),
                    !.warnings = IF reply.warned THEN "Warning 0" :> st ELSE Nothing]

MeasureFinished(i0, job, reply) ==
    LET i == EndJob(i0, job)
        read == IF reply.what # "report" THEN i.weather[job.place]
                ELSE ParseMeasureData(i.weather[job.place], job.station, reply)
    IN  UpdateWeather([i EXCEPT !.weather[job.place] = [read EXCEPT !.measurePending = FALSE]], job.place)

ForecastFinished(i0, job, reply) ==
    LET i == EndJob(i0, job)
        read == IF reply.what # "report" THEN i.weather[job.place]
                ELSE ParseForecastData(i.weather[job.place], job.station, reply)
    IN  UpdateWeather([i EXCEPT !.weather[job.place] = [read EXCEPT !.forecastsPending = FALSE]], job.place)

-----------------------------------------------------------------------------
Slots == {"setup", "measure", "forecast"}

Replies(job) ==
    CASE job.slot = "setup" -> SetupReplies
      [] job.slot = "measure" -> MeasureReplies
      [] job.slot = "forecast" -> ForecastReplies

SlotJobFinished(i, job, reply) ==
    CASE job.slot = "setup" -> SetupFinished(i, job, reply)
      [] job.slot = "measure" -> MeasureFinished(i, job, reply)
      [] job.slot = "forecast" -> ForecastFinished(i, job, reply)

=============================================================================
