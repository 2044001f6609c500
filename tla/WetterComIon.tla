----------------------------- MODULE WetterComIon -----------------------------
(***************************************************************************)
(* The ion of wetter.com (ions/wetter.com/ion_wettercom.cpp).  Its caches  *)
(* are by place code; the name a code is published under is the one last   *)
(* seen, from a source or from a search, and one forecast is fetched per   *)
(* code at a time.                                                         *)
(***************************************************************************)
EXTENDS Ion

CONSTANTS
    SearchResults      \* what a search may return: sequences of [name, id]

NoName == <<"no name", 0>>

SearchReplies ==
    [what : {"timeout"}] \union [what : {"results"}, results : SearchResults, parseError : BOOLEAN]
ForecastReplies == [what : {"forecast"}, days : DayCounts, night : BOOLEAN, parseError : BOOLEAN]

NewIon ==
    BasicIon(TRUE) ++
    [place |-> [st \in Stations |-> NoName],         \* m_place: the name of a code
     weather |-> [st \in Stations |-> <<>>],         \* m_weatherData
     locations |-> <<>>]                             \* m_locations

\* The container that the answer of a forecast makes, named by the code alone
CodeSource(st) == [action |-> "code", place |-> NoName, station |-> st]

-----------------------------------------------------------------------------
(* Searches *)

FindPlace(i, s) == StartJob(i, Job("search", s.place, NoStation))

\* A text that has no results is nobody's code, so it is always answered.
Validate(i, p, parseError) ==
    [Answer(i, ValidateSource(p),
            IF i.locations = <<>> \/ parseError THEN "invalid"
            ELSE IF Len(i.locations) > 1 THEN "multiple" ELSE "single")
       EXCEPT !.locations = <<>>]

\* What was read before an error in the document stays known.
ParseSearchResults(i, p, reply) ==
    LET store(x, result) == [x EXCEPT !.place[result.id] = result.name,
                                      !.locations = Append(@, result.id)]
    IN  Validate(FoldLeft(store, i, reply.results), p, reply.parseError)

SearchFinished(i, job, reply) ==
    IF reply.what = "timeout"
    THEN Answer(EndJob(i, job), ValidateSource(job.place), "timeout")
    ELSE ParseSearchResults(EndJob(i, job), job.place, reply)

-----------------------------------------------------------------------------
(* Forecasts *)

\* Already fetching: the running job is enough.
FetchForecast(i, st) ==
    IF \E job \in Running(i, {"forecast"}) : job.station = st THEN i
    ELSE StartJob(i, Job("forecast", i.place[st], st))

UpdateIonSource(i, s) ==
    CASE s.action = "validate" -> FindPlace(i, s)
      [] s.action = "weather" -> FetchForecast([i EXCEPT !.place[s.station] = s.place], s.station)
      [] OTHER -> Answer(i, s, "malformed")

\* reset drops the forecasts first (cleanup).
Reset(i) ==
    UpdateAllSources([i EXCEPT !.toReset = DOMAIN i.held, !.weather = [st \in Stations |-> <<>>]],
                     UpdateIonSource)

\* The first day is two entries when it has a night.
Entries(st, reply) ==
    [d \in 1..(IF reply.night /\ reply.days > 0 THEN reply.days + 1 ELSE reply.days) |-> st]

Report(st, days, parseError) ==
    ("Place" :> st) @@ (IF parseError \/ days = <<>> THEN Nothing
                        ELSE ("Credit Url" :> st) @@ DayReport(days))

\* cleanUpData is given the code; the report is merged into that of the name known now.
UpdateWeather(i, st, parseError) ==
    SetData(CleanUpData(i, CodeSource(st)), WeatherSource(i.place[st], st),
            Report(st, i.weather[st], parseError))

ParseWeatherForecast(i, st, reply) ==
    UpdateWeather([i EXCEPT !.weather[st] = Entries(st, reply)], st, reply.parseError)

\* What is to be reset is compared with the code, so only a container made by an
\* earlier answer counts.
ForecastFinished(i0, job, reply) ==
    LET i == ParseWeatherForecast(SetData(i0, CodeSource(job.station), Nothing), job.station, reply)
    IN  ServeReset(EndJob(i, job), CodeSource(job.station))

-----------------------------------------------------------------------------
Slots == {"search", "forecast"}

Replies(job) == IF job.slot = "search" THEN SearchReplies ELSE ForecastReplies

SlotJobFinished(i, job, reply) ==
    IF job.slot = "search" THEN SearchFinished(i, job, reply) ELSE ForecastFinished(i, job, reply)

=============================================================================
