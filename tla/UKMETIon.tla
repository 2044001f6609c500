------------------------------- MODULE UKMETIon -------------------------------
(***************************************************************************)
(* The ion of BBC Weather (ions/bbcukmet/ion_bbcukmet.cpp).  A place is    *)
(* searched with two requests whose results are merged; the weather of a   *)
(* place is an observation, then a forecast, and the server may answer     *)
(* each with 202, "come back later".  The caches are by place name.        *)
(***************************************************************************)
EXTENDS Ion, Integers

CONSTANTS
    SearchResults,     \* what a search may return: sequences of [name, id]
    Observations,      \* what an observation may bring: [station, observed, measures]
    MaxRetryAttempts   \* MAX_RETRY_ATTEMPS: 5 in the code

ObservationReplies ==
    [what : {"error", "busy", "refused"}] \union
    {("what" :> "report") @@ o : o \in Observations}
ForecastReplies ==
    [what : {"error", "busy", "refused"}] \union [what : {"report"}, days : DayCounts]
SearchReplies ==
    [what : {"error", "timeout"}] \union [what : {"results"}, results : SearchResults]

NoWeather == [station |-> NoStation, current |-> Nothing, forecasts |-> <<>>,
              observationPending |-> FALSE, forecastsPending |-> FALSE]

NewIon ==
    BasicIon(TRUE) ++
    [place |-> [p \in Places |-> [station |-> NoStation, named |-> FALSE]],   \* m_place
     weather |-> [p \in Places |-> NoWeather],                                \* m_weatherData
     locations |-> {},                                                        \* m_locations
     searches |-> 0,                                                          \* m_pendingSearchCount
     retries |-> 0]                                                           \* m_retryAttemps

-----------------------------------------------------------------------------
(* Requests *)

GetObservation(i, p) ==
    StartJob([i EXCEPT !.weather[p].observationPending = TRUE],
             Job("observation", p, i.place[p].station))

GetForecast(i, p) ==
    StartJob([i EXCEPT !.weather[p].forecastsPending = TRUE],
             Job("forecast", p, i.place[p].station))

FindPlace(i, p) ==
    [i EXCEPT !.searches = 2,
              !.jobs = @ (+) [job \in {Job("search", p, NoStation)} |-> 2]]

UpdateIonSource(i, s) ==
    CASE s.action = "validate" -> FindPlace(i, s.place)
      [] s.action = "weather" ->
           GetObservation([SetData(i, s, Nothing) EXCEPT
                             !.place[s.place] = [station |-> s.station, named |-> TRUE]], s.place)
      [] OTHER -> Answer(i, s, "malformed")

\* reset, when the network is back
Reset(i) == UpdateAllSources([i EXCEPT !.toReset = DOMAIN i.held], UpdateIonSource)

-----------------------------------------------------------------------------
(* Searches *)

\* A place name, and the same name with " (#n)" for a place found with another id
Numbered(name, n) == <<name, n>>

\* Mutant: places of the same name share one entry.
AddResultUnnumbered(i, result) ==
    [i EXCEPT !.place[Numbered(result.name, 1)] = [station |-> result.id, named |-> TRUE],
              !.locations = @ \union {Numbered(result.name, 1)}]

\* A result adds the first of its names that is free, or was found with the same id.
AddResult(i, result) ==
    LET fits(n) == \/ Numbered(result.name, n) \notin i.locations
                   \/ i.place[Numbered(result.name, n)].station = result.id
        n == CHOOSE m \in 1..Cardinality(i.locations) + 1 :
               fits(m) /\ \A k \in 1..m - 1 : ~fits(k)
        key == Numbered(result.name, n)
    IN  IF key \in i.locations THEN i
        ELSE [i EXCEPT !.place[key] = [station |-> result.id, named |-> TRUE],
                       !.locations = @ \union {key}]

ReadSearchData(i, results) ==
    LET read[n \in 0..Len(results)] ==
          IF n = 0 THEN i ELSE AddResult(read[n - 1], results[n])
    IN  read[Len(results)]

\* Without locations a place that is known is not answered, and a cleared list is not needed.
Validate(i, p) ==
    IF i.locations # {}
    THEN [Answer(i, ValidateSource(p), IF Cardinality(i.locations) = 1 THEN "single" ELSE "multiple")
            EXCEPT !.locations = {}]
    ELSE IF i.place[p].named THEN i ELSE Answer(i, ValidateSource(p), "invalid")

SearchFinished(i0, job, reply) ==
    LET i1 == [EndJob(i0, job) EXCEPT !.searches = @ - 1]
        i == IF reply.what = "results" THEN ReadSearchData(i1, reply.results) ELSE i1
    IN  IF i.searches # 0 THEN i
        ELSE IF reply.what = "timeout" /\ i.locations = {}
             THEN Answer(i, ValidateSource(job.place), "timeout")
             ELSE Validate(i, job.place)

-----------------------------------------------------------------------------
(* Weather *)

\* What updateWeather publishes; the place and the units are always there.
Report(place, weather) ==
    ("Credit Url" :> place.station)
      @@ weather.current
      @@ (IF weather.station = NoStation THEN Nothing ELSE "Latitude" :> weather.station)
      @@ DayReport(FirstDays(weather.forecasts, DayLimit))

UpdateWeather(i, p) ==
    LET s == WeatherSource(p, i.place[p].station)
    IN  IF i.weather[p].forecastsPending \/ i.weather[p].observationPending THEN i
        ELSE ServeReset(SetData(CleanUpData(i, s), s, Report(i.place[p], i.weather[p])), s)

\* secondsToRetry: one counter for all places and both requests
MayRetry(i, reply) == reply.what = "busy" /\ i.retries < MaxRetryAttempts

\* Mutant: the retry is counted and no timer is started.
RetryCounted(i, slot, job) == [i EXCEPT !.retries = @ + 1]

\* The attempt is counted even when it is refused; any other end resets the count.
Retry(i, slot, job) ==
    StartJob([i EXCEPT !.retries = @ + 1], Job(slot, job.place, NoStation))

ReadObservationData(weather, st, reply) ==
    [weather EXCEPT !.station = IF reply.station THEN st ELSE @,
                    !.current = IF reply.observed THEN [m \in reply.measures |-> st] ELSE @]

ObservationFinished(i0, job, reply) ==
    LET p == job.place
        i == EndJob(i0, job)
        read == IF reply.what # "report" THEN i.weather[p]
                ELSE ReadObservationData(i.weather[p], job.station, reply)
    IN  IF MayRetry(i, reply) THEN Retry(i, "retryObservation", job)
        ELSE GetForecast([i EXCEPT !.retries = 0,
                                   !.weather[p] = [read EXCEPT !.observationPending = FALSE]], p)

\* A report without days empties the forecasts.
ReadForecast(weather, st, reply) == [weather EXCEPT !.forecasts = [d \in 1..reply.days |-> st]]

ForecastFinished(i0, job, reply) ==
    LET p == job.place
        i == EndJob(i0, job)
        read == IF reply.what # "report" THEN i.weather[p]
                ELSE ReadForecast(i.weather[p], job.station, reply)
    IN  IF MayRetry(i, reply) THEN Retry(i, "retryForecast", job)
        ELSE UpdateWeather([i EXCEPT !.retries = 0,
                                     !.weather[p] = [read EXCEPT !.forecastsPending = FALSE]], p)

\* A retry timer
RetryObservation(i, job) == GetObservation(EndJob(i, job), job.place)
RetryForecast(i, job) == GetForecast(EndJob(i, job), job.place)

-----------------------------------------------------------------------------
\* The slot of each job, with the answers it may get; a timer gets none.
Slots == {"search", "observation", "forecast", "retryObservation", "retryForecast"}

Replies(job) ==
    CASE job.slot = "search" -> SearchReplies
      [] job.slot = "observation" -> ObservationReplies
      [] job.slot = "forecast" -> ForecastReplies
      [] OTHER -> [what : {"timer"}]

SlotJobFinished(i, job, reply) ==
    CASE job.slot = "search" -> SearchFinished(i, job, reply)
      [] job.slot = "observation" -> ObservationFinished(i, job, reply)
      [] job.slot = "forecast" -> ForecastFinished(i, job, reply)
      [] job.slot = "retryObservation" -> RetryObservation(i, job)
      [] job.slot = "retryForecast" -> RetryForecast(i, job)

=============================================================================
