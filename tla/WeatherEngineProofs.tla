------------------------- MODULE WeatherEngineProofs -------------------------
(***************************************************************************)
(* The invariants of the ions of BBC Weather and Deutscher Wetterdienst    *)
(* (WeatherEngine), for every number of places, sources and jobs.          *)
(***************************************************************************)
EXTENDS WeatherEngine, SubsequenceProofs, FiniteSetTheorems

(* What the operations of every ion change *)

BasicFields == {"held", "dirty", "used", "usage", "shown", "initialized", "toReset", "jobs"}

\* f is i with other values of some fields.
Same(f, i, but) == DOMAIN f = DOMAIN i /\ \A k \in DOMAIN i \ but : f[k] = i[k]

LEMMA Copies ==
  ASSUME NEW i, NEW s, NEW d, NEW job, NEW p, NEW st
  PROVE  /\ UKMET!SetData(i, s, d) = SetData(i, s, d)
         /\ UKMET!Answer(i, s, d) = SetData(i, s, "validate" :> d)
         /\ UKMET!CleanUpData(i, s) = CleanUpData(i, s)
         /\ UKMET!ServeReset(i, s) = ServeReset(i, s)
         /\ UKMET!StartJob(i, job) = StartJob(i, job)
         /\ UKMET!EndJob(i, job) = EndJob(i, job)
         /\ UKMET!WeatherSource(p, st) = WeatherSource(p, st)
         /\ UKMET!ValidateSource(p) = ValidateSource(p)
         /\ UKMET!Job(s, p, st) = Job(s, p, st)
         /\ UKMET!Nothing = Nothing
  <1>1. UKMET!Nothing = Nothing
    BY DEF UKMET!Nothing, Nothing
  <1>2. UKMET!SetData(i, s, d) = SetData(i, s, d)
    BY <1>1 DEF UKMET!SetData, SetData
  <1>3. UKMET!Answer(i, s, d) = SetData(i, s, "validate" :> d)
    BY <1>1 DEF UKMET!Answer, UKMET!SetData, SetData
  <1>4. UKMET!CleanUpData(i, s) = CleanUpData(i, s)
    BY <1>1 DEF UKMET!CleanUpData, CleanUpData, UKMET!Cleared, Cleared
  <1>5. UKMET!ServeReset(i, s) = ServeReset(i, s)
    BY DEF UKMET!ServeReset, ServeReset, UKMET!Relay, Relay
  <1>6. UKMET!StartJob(i, job) = StartJob(i, job) /\ UKMET!EndJob(i, job) = EndJob(i, job)
    BY DEF UKMET!StartJob, StartJob, UKMET!EndJob, EndJob, UKMET!SetToBag, SetToBag,
           UKMET!(+), (+), UKMET!(-), (-)
  <1>7. /\ UKMET!WeatherSource(p, st) = WeatherSource(p, st)
        /\ UKMET!ValidateSource(p) = ValidateSource(p)
        /\ UKMET!Job(s, p, st) = Job(s, p, st)
    BY DEF UKMET!WeatherSource, WeatherSource, UKMET!ValidateSource, ValidateSource, UKMET!Job, Job
  <1> QED
    BY <1>1, <1>2, <1>3, <1>4, <1>5, <1>6, <1>7

-----------------------------------------------------------------------------
(* Data and jobs *)

LEMMA SetDataEffect ==
  ASSUME NEW i, BasicFields \subseteq DOMAIN i, NEW s, NEW d
  PROVE  LET f == SetData(i, s, d)
         IN  /\ Same(f, i, {"held", "dirty"})
             /\ DOMAIN f.held = DOMAIN i.held \union {s}
             /\ s \notin DOMAIN i.held \/ i.held[s] = Nothing => f.held[s] = d
             /\ \A x \in DOMAIN i.held \ {s} : f.held[x] = i.held[x]
  BY DEF SetData, Same, BasicFields

LEMMA CleanUpDataEffect ==
  ASSUME NEW i, BasicFields \subseteq DOMAIN i, NEW s
  PROVE  LET f == CleanUpData(i, s)
         IN  /\ Same(f, i, {"held", "shown", "dirty"})
             /\ DOMAIN f.held = DOMAIN i.held
             /\ s \in DOMAIN i.held => f.held[s] = Nothing
             /\ \A x \in DOMAIN i.held \ {s} : f.held[x] = i.held[x]
  BY DEF CleanUpData, Cleared, Same, BasicFields

LEMMA ServeResetEffect ==
  ASSUME NEW i, BasicFields \subseteq DOMAIN i, NEW s
  PROVE  Same(ServeReset(i, s), i, {"shown", "dirty", "toReset"})
  BY DEF ServeReset, Relay, Same, BasicFields

\* How many of each job there are
Counted(jobs) == \A job \in DOMAIN jobs : jobs[job] \in Nat \ {0}

LEMMA StartJobEffect ==
  ASSUME NEW i, BasicFields \subseteq DOMAIN i, Counted(i.jobs), NEW job
  PROVE  LET f == StartJob(i, job)
         IN  Same(f, i, {"jobs"}) /\ DOMAIN f.jobs = DOMAIN i.jobs \union {job} /\ Counted(f.jobs)
  BY DEF StartJob, SetToBag, (+), Same, BasicFields, Counted

LEMMA EndJobEffect ==
  ASSUME NEW i, BasicFields \subseteq DOMAIN i, Counted(i.jobs), NEW job
  PROVE  LET f == EndJob(i, job)
         IN  /\ Same(f, i, {"jobs"})
             /\ DOMAIN f.jobs \subseteq DOMAIN i.jobs
             /\ \A other \in DOMAIN i.jobs \ {job} : other \in DOMAIN f.jobs
             /\ Counted(f.jobs)
  BY DEF EndJob, SetToBag, (-), Same, BasicFields, Counted

-----------------------------------------------------------------------------
(* BBC Weather: what its slots do *)

UKMETFields == BasicFields \union {"place", "weather", "locations", "searches", "retries"}
UKMETWeather == {"station", "current", "forecasts", "observationPending", "forecastsPending"}

UKMETJobs(jobs) ==
    /\ Counted(jobs)
    /\ \A job \in DOMAIN jobs : job.slot \in UKMET!Slots /\ (job.slot # "search" => job.place \in Places)

AWeather(w) ==
    DOMAIN w = UKMETWeather /\ w.observationPending \in BOOLEAN /\ w.forecastsPending \in BOOLEAN

UKMETShape(i) ==
    /\ DOMAIN i = UKMETFields
    /\ UKMETJobs(i.jobs)
    /\ DOMAIN i.place = Places /\ DOMAIN i.weather = Places
    /\ \A p \in Places : AWeather(i.weather[p])

\* What a report is made of is the same.
SameReport(w, v) == w.station = v.station /\ w.current = v.current /\ w.forecasts = v.forecasts

\* Only the weather of p is another one.
OtherWeather(f, i, p) ==
    DOMAIN f.weather = DOMAIN i.weather /\ \A q \in Places \ {p} : f.weather[q] = i.weather[q]

\* A weather with the flags that a step gives it
Flagged(w, observation, forecasts) ==
    /\ DOMAIN w = UKMETWeather
    /\ w.observationPending = observation /\ w.forecastsPending = forecasts

\* The weather of a place is another one.
LEMMA WeatherShaped ==
  ASSUME NEW i, UKMETShape(i), NEW p \in Places,
         NEW g, Same(g, i, {"weather"}), OtherWeather(g, i, p), AWeather(g.weather[p])
  PROVE  UKMETShape(g)
  <1>1. /\ DOMAIN i = UKMETFields /\ DOMAIN i.weather = Places
    BY DEF UKMETShape
  <1>2. g.jobs = i.jobs /\ g.place = i.place /\ DOMAIN g = UKMETFields
    BY <1>1, Zenon DEF Same, UKMETFields, BasicFields
  <1>3. ASSUME NEW q \in Places PROVE AWeather(g.weather[q])
    <2>1. CASE q = p
      BY <2>1
    <2>2. CASE q # p
      <3>1. g.weather[q] = i.weather[q]
        BY <2>2 DEF OtherWeather
      <3> QED
        BY <3>1, Zenon DEF UKMETShape
    <2> QED
      BY <2>1, <2>2
  <1>4. DOMAIN g.weather = Places
    BY <1>1 DEF OtherWeather
  <1> QED
    BY <1>2, <1>3, <1>4, Zenon DEF UKMETShape

LEMMA StartShaped ==
  ASSUME NEW i, UKMETShape(i), NEW job, job.slot \in UKMET!Slots, job.slot # "search" => job.place \in Places
  PROVE  LET f == StartJob(i, job)
         IN  UKMETShape(f) /\ Same(f, i, {"jobs"}) /\ DOMAIN f.jobs = DOMAIN i.jobs \union {job}
  <1> DEFINE f == StartJob(i, job)
  <1>1. /\ DOMAIN i = UKMETFields /\ UKMETJobs(i.jobs)
    BY DEF UKMETShape
  <1>2. Same(f, i, {"jobs"}) /\ DOMAIN f.jobs = DOMAIN i.jobs \union {job} /\ Counted(f.jobs)
    BY <1>1, StartJobEffect DEF UKMETFields, UKMETJobs
  <1> HIDE DEF f
  <1>3. f.weather = i.weather /\ f.place = i.place /\ DOMAIN f = UKMETFields
    BY <1>1, <1>2, Zenon DEF Same, UKMETFields, BasicFields
  <1>4. UKMETJobs(f.jobs)
    BY <1>1, <1>2 DEF UKMETJobs
  <1>5. UKMETShape(f)
    BY <1>3, <1>4, Zenon DEF UKMETShape
  <1> QED
    BY <1>2, <1>5 DEF f

LEMMA EndShaped ==
  ASSUME NEW i, UKMETShape(i), NEW job
  PROVE  LET f == EndJob(i, job)
         IN  /\ UKMETShape(f) /\ Same(f, i, {"jobs"}) /\ DOMAIN f.jobs \subseteq DOMAIN i.jobs
             /\ \A other \in DOMAIN i.jobs \ {job} : other \in DOMAIN f.jobs
  <1> DEFINE f == EndJob(i, job)
  <1>1. /\ DOMAIN i = UKMETFields /\ UKMETJobs(i.jobs)
    BY DEF UKMETShape
  <1>2. /\ Same(f, i, {"jobs"}) /\ DOMAIN f.jobs \subseteq DOMAIN i.jobs /\ Counted(f.jobs)
        /\ \A other \in DOMAIN i.jobs \ {job} : other \in DOMAIN f.jobs
    BY <1>1, EndJobEffect DEF UKMETFields, UKMETJobs
  <1> HIDE DEF f
  <1>3. f.weather = i.weather /\ f.place = i.place /\ DOMAIN f = UKMETFields
    BY <1>1, <1>2, Zenon DEF Same, UKMETFields, BasicFields
  <1>4. UKMETJobs(f.jobs)
    BY <1>1, <1>2 DEF UKMETJobs
  <1>5. UKMETShape(f)
    BY <1>3, <1>4, Zenon DEF UKMETShape
  <1> QED
    BY <1>2, <1>5 DEF f

\* The weather of a place becomes w.
LEMMA PutWeather ==
  ASSUME NEW i, UKMETShape(i), NEW p \in Places, NEW w, AWeather(w)
  PROVE  LET g == [i EXCEPT !.weather[p] = w]
         IN  UKMETShape(g) /\ Same(g, i, {"weather"}) /\ OtherWeather(g, i, p) /\ g.weather[p] = w
  <1> DEFINE g == [i EXCEPT !.weather[p] = w]
  <1>1. /\ DOMAIN i = UKMETFields /\ DOMAIN i.weather = Places
    BY Zenon DEF UKMETShape
  <1>2. Same(g, i, {"weather"}) /\ OtherWeather(g, i, p) /\ g.weather[p] = w
    BY <1>1 DEF Same, UKMETFields, OtherWeather
  <1> HIDE DEF g
  <1>3. UKMETShape(g)
    BY <1>2, WeatherShaped
  <1> QED
    BY <1>2, <1>3 DEF g

\* A request about a place starts a job, and the weather of the place says so.
LEMMA AskEffect ==
  ASSUME NEW i, UKMETShape(i), NEW p \in Places, NEW w, AWeather(w),
         NEW job, job.slot \in UKMET!Slots, job.place = p
  PROVE  LET f == StartJob([i EXCEPT !.weather[p] = w], job)
         IN  /\ UKMETShape(f) /\ Same(f, i, {"weather", "jobs"})
             /\ OtherWeather(f, i, p) /\ f.weather[p] = w
             /\ DOMAIN f.jobs = DOMAIN i.jobs \union {job}
  <1> DEFINE g == [i EXCEPT !.weather[p] = w]
             f == StartJob(g, job)
  <1>1. DOMAIN i = UKMETFields
    BY Zenon DEF UKMETShape
  <1>2. UKMETShape(g) /\ Same(g, i, {"weather"}) /\ OtherWeather(g, i, p) /\ g.weather[p] = w
    BY PutWeather
  <1> HIDE DEF g
  <1>3. UKMETShape(f) /\ Same(f, g, {"jobs"}) /\ DOMAIN f.jobs = DOMAIN g.jobs \union {job}
    BY <1>2, StartShaped
  <1> HIDE DEF f
  <1>4. f.weather = g.weather /\ g.jobs = i.jobs /\ Same(f, i, {"weather", "jobs"})
    BY <1>1, <1>2, <1>3, Zenon DEF Same, UKMETFields, BasicFields
  <1>5. OtherWeather(f, i, p) /\ f.weather[p] = w /\ DOMAIN f.jobs = DOMAIN i.jobs \union {job}
    BY <1>2, <1>3, <1>4 DEF OtherWeather
  <1> QED
    BY <1>3, <1>4, <1>5 DEF f, g

LEMMA GetObservationEffect ==
  ASSUME NEW i, UKMETShape(i), NEW p \in Places
  PROVE  LET f == UKMET!GetObservation(i, p)
         IN  /\ UKMETShape(f) /\ Same(f, i, {"weather", "jobs"}) /\ OtherWeather(f, i, p)
             /\ Flagged(f.weather[p], TRUE, i.weather[p].forecastsPending)
             /\ SameReport(f.weather[p], i.weather[p])
             /\ \E job : /\ job.slot = "observation" /\ job.place = p
                         /\ DOMAIN f.jobs = DOMAIN i.jobs \union {job}
  <1> DEFINE job == Job("observation", p, i.place[p].station)
             w == [i.weather[p] EXCEPT !.observationPending = TRUE]
  <1>1. UKMET!GetObservation(i, p) = StartJob([i EXCEPT !.weather[p] = w], job)
    BY Copies, Zenon DEF UKMET!GetObservation
  <1>2. job.slot = "observation" /\ job.place = p /\ job.slot \in UKMET!Slots
    BY DEF Job, UKMET!Slots
  <1>3. DOMAIN i.weather[p] = UKMETWeather /\ AWeather(i.weather[p])
    BY Zenon DEF UKMETShape, AWeather
  <1>4. Flagged(w, TRUE, i.weather[p].forecastsPending) /\ SameReport(w, i.weather[p])
    BY <1>3 DEF Flagged, SameReport, UKMETWeather
  <1>5. AWeather(w)
    BY <1>3, <1>4, Zenon DEF Flagged, AWeather
  <1> HIDE DEF job, w
  <1> DEFINE f == StartJob([i EXCEPT !.weather[p] = w], job)
  <1>6. /\ UKMETShape(f) /\ Same(f, i, {"weather", "jobs"})
        /\ OtherWeather(f, i, p) /\ f.weather[p] = w
        /\ DOMAIN f.jobs = DOMAIN i.jobs \union {job}
    BY <1>2, <1>5, AskEffect
  <1> QED
    BY <1>1, <1>2, <1>4, <1>6, Zenon

LEMMA GetForecastEffect ==
  ASSUME NEW i, UKMETShape(i), NEW p \in Places
  PROVE  LET f == UKMET!GetForecast(i, p)
         IN  /\ UKMETShape(f) /\ Same(f, i, {"weather", "jobs"}) /\ OtherWeather(f, i, p)
             /\ Flagged(f.weather[p], i.weather[p].observationPending, TRUE)
             /\ SameReport(f.weather[p], i.weather[p])
             /\ \E job : /\ job.slot = "forecast" /\ job.place = p
                         /\ DOMAIN f.jobs = DOMAIN i.jobs \union {job}
  <1> DEFINE job == Job("forecast", p, i.place[p].station)
             w == [i.weather[p] EXCEPT !.forecastsPending = TRUE]
  <1>1. UKMET!GetForecast(i, p) = StartJob([i EXCEPT !.weather[p] = w], job)
    BY Copies, Zenon DEF UKMET!GetForecast
  <1>2. job.slot = "forecast" /\ job.place = p /\ job.slot \in UKMET!Slots
    BY DEF Job, UKMET!Slots
  <1>3. DOMAIN i.weather[p] = UKMETWeather /\ AWeather(i.weather[p])
    BY Zenon DEF UKMETShape, AWeather
  <1>4. Flagged(w, i.weather[p].observationPending, TRUE) /\ SameReport(w, i.weather[p])
    BY <1>3 DEF Flagged, SameReport, UKMETWeather
  <1>5. AWeather(w)
    BY <1>3, <1>4, Zenon DEF Flagged, AWeather
  <1> HIDE DEF job, w
  <1> DEFINE f == StartJob([i EXCEPT !.weather[p] = w], job)
  <1>6. /\ UKMETShape(f) /\ Same(f, i, {"weather", "jobs"})
        /\ OtherWeather(f, i, p) /\ f.weather[p] = w
        /\ DOMAIN f.jobs = DOMAIN i.jobs \union {job}
    BY <1>2, <1>5, AskEffect
  <1> QED
    BY <1>1, <1>2, <1>4, <1>6, Zenon

\* Fields that no request of a place looks at
LEMMA OthersShaped ==
  ASSUME NEW i, UKMETShape(i), NEW but \in SUBSET (UKMETFields \ {"jobs", "place", "weather"}),
         NEW f, Same(f, i, but)
  PROVE  UKMETShape(f) /\ f.jobs = i.jobs /\ f.place = i.place /\ f.weather = i.weather
  <1>1. DOMAIN i = UKMETFields
    BY DEF UKMETShape
  <1>2. "jobs" \in UKMETFields \ but /\ "place" \in UKMETFields \ but /\ "weather" \in UKMETFields \ but
    BY DEF UKMETFields, BasicFields
  <1>3. f.jobs = i.jobs /\ f.place = i.place /\ f.weather = i.weather /\ DOMAIN f = UKMETFields
    BY <1>1, <1>2, Zenon DEF Same
  <1> QED
    BY <1>3, Zenon DEF UKMETShape

-----------------------------------------------------------------------------
(* BBC Weather: what is pending has a job *)

HasJob(i, p, slots) == \E job \in DOMAIN i.jobs : job.slot \in slots /\ job.place = p

PendsAt(i, p) ==
    /\ i.weather[p].observationPending => HasJob(i, p, {"observation", "retryObservation"})
    /\ i.weather[p].forecastsPending => HasJob(i, p, {"forecast", "retryForecast"})

UKMETPends(i) == \A p \in Places : PendsAt(i, p)

\* A step that concerns one place leaves the jobs of the others.
LEMMA PendsOfOne ==
  ASSUME NEW i, UKMETPends(i), NEW f, NEW p \in Places, OtherWeather(f, i, p),
         \A job \in DOMAIN i.jobs : job.place # p => job \in DOMAIN f.jobs,
         PendsAt(f, p)
  PROVE  UKMETPends(f)
  <1>1. SUFFICES ASSUME NEW q \in Places, q # p PROVE PendsAt(f, q)
    BY DEF UKMETPends
  <1>2. f.weather[q] = i.weather[q] /\ PendsAt(i, q)
    BY <1>1 DEF OtherWeather, UKMETPends
  <1>3. ASSUME NEW slots, HasJob(i, q, slots) PROVE HasJob(f, q, slots)
    BY <1>1, <1>3 DEF HasJob
  <1> QED
    BY <1>2, <1>3, Zenon DEF PendsAt

\* More jobs do no harm.
LEMMA PendsWithMore ==
  ASSUME NEW i, UKMETPends(i), NEW f, f.weather = i.weather, DOMAIN i.jobs \subseteq DOMAIN f.jobs
  PROVE  UKMETPends(f)
  <1>1. ASSUME NEW q \in Places PROVE PendsAt(f, q)
    <2>1. PendsAt(i, q)
      BY DEF UKMETPends
    <2>2. ASSUME NEW slots, HasJob(i, q, slots) PROVE HasJob(f, q, slots)
      BY <2>2 DEF HasJob
    <2> QED
      BY <2>1, <2>2, Zenon DEF PendsAt
  <1> QED
    BY <1>1 DEF UKMETPends

LEMMA GetObservationPends ==
  ASSUME NEW i, UKMETShape(i), UKMETPends(i), NEW p \in Places
  PROVE  UKMETPends(UKMET!GetObservation(i, p))
  <1> DEFINE f == UKMET!GetObservation(i, p)
  <1>1. /\ OtherWeather(f, i, p)
        /\ Flagged(f.weather[p], TRUE, i.weather[p].forecastsPending)
        /\ \E job : /\ job.slot = "observation" /\ job.place = p
                    /\ DOMAIN f.jobs = DOMAIN i.jobs \union {job}
    BY GetObservationEffect
  <1> HIDE DEF f
  <1>2. HasJob(f, p, {"observation", "retryObservation"})
    BY <1>1 DEF HasJob
  <1>3. HasJob(i, p, {"forecast", "retryForecast"}) => HasJob(f, p, {"forecast", "retryForecast"})
    BY <1>1 DEF HasJob
  <1>4. i.weather[p].forecastsPending => HasJob(i, p, {"forecast", "retryForecast"})
    BY Zenon DEF UKMETPends, PendsAt
  <1>5. PendsAt(f, p)
    BY <1>1, <1>2, <1>3, <1>4, Zenon DEF PendsAt, Flagged
  <1>6. DOMAIN i.jobs \subseteq DOMAIN f.jobs
    BY <1>1
  <1>7. UKMETPends(f)
    BY <1>1, <1>5, <1>6, PendsOfOne
  <1> QED
    BY <1>7 DEF f

LEMMA GetForecastPends ==
  ASSUME NEW i, UKMETShape(i), UKMETPends(i), NEW p \in Places
  PROVE  UKMETPends(UKMET!GetForecast(i, p))
  <1> DEFINE f == UKMET!GetForecast(i, p)
  <1>1. /\ OtherWeather(f, i, p)
        /\ Flagged(f.weather[p], i.weather[p].observationPending, TRUE)
        /\ \E job : /\ job.slot = "forecast" /\ job.place = p
                    /\ DOMAIN f.jobs = DOMAIN i.jobs \union {job}
    BY GetForecastEffect
  <1> HIDE DEF f
  <1>2. HasJob(f, p, {"forecast", "retryForecast"})
    BY <1>1 DEF HasJob
  <1>3. HasJob(i, p, {"observation", "retryObservation"}) => HasJob(f, p, {"observation", "retryObservation"})
    BY <1>1 DEF HasJob
  <1>4. i.weather[p].observationPending => HasJob(i, p, {"observation", "retryObservation"})
    BY Zenon DEF UKMETPends, PendsAt
  <1>5. PendsAt(f, p)
    BY <1>1, <1>2, <1>3, <1>4, Zenon DEF PendsAt, Flagged
  <1>6. DOMAIN i.jobs \subseteq DOMAIN f.jobs
    BY <1>1
  <1>7. UKMETPends(f)
    BY <1>1, <1>5, <1>6, PendsOfOne
  <1> QED
    BY <1>7 DEF f

-----------------------------------------------------------------------------
(* BBC Weather: requests *)

\* The sources that applets ask for
AskedFits(s) ==
    \E p \in Places : (\E st \in Stations : s = WeatherSource(p, st)) \/ s = ValidateSource(p)

LEMMA AskedIsOne ==
  ASSUME NEW s, AskedFits(s)
  PROVE  /\ s.place \in Places /\ s.action \in {"weather", "validate"}
         /\ s.action = "weather" => s.station \in Stations /\ s = WeatherSource(s.place, s.station)
         /\ s.action = "validate" => s = ValidateSource(s.place)
  BY DEF AskedFits, WeatherSource, ValidateSource

\* A search starts two jobs.
LEMMA FindPlaceEffect ==
  ASSUME NEW i, UKMETShape(i), NEW p
  PROVE  LET f == UKMET!FindPlace(i, p)
         IN  /\ UKMETShape(f) /\ Same(f, i, {"searches", "jobs"})
             /\ \E job : job.slot = "search" /\ DOMAIN f.jobs = DOMAIN i.jobs \union {job}
  <1> DEFINE job == Job("search", p, NoStation)
             bag == [e \in {job} |-> 2]
             f == [i EXCEPT !.searches = 2, !.jobs = @ (+) bag]
  <1>1. UKMET!FindPlace(i, p) = f
    BY DEF UKMET!FindPlace, UKMET!Job, Job, UKMET!(+), (+)
  <1>2. job.slot = "search" /\ job.slot \in UKMET!Slots
    BY DEF Job, UKMET!Slots
  <1>3. DOMAIN i = UKMETFields /\ UKMETJobs(i.jobs)
    BY DEF UKMETShape
  <1> HIDE DEF job
  <1>4. Same(f, i, {"searches", "jobs"}) /\ f.jobs = i.jobs (+) bag
    BY <1>3 DEF Same, UKMETFields, BasicFields
  <1>5. DOMAIN (i.jobs (+) bag) = DOMAIN i.jobs \union {job} /\ Counted(i.jobs (+) bag)
    BY <1>3 DEF (+), UKMETJobs, Counted
  <1> HIDE DEF f, bag
  <1>6. f.weather = i.weather /\ f.place = i.place /\ DOMAIN f = UKMETFields
    BY <1>3, <1>4, Zenon DEF Same, UKMETFields, BasicFields
  <1>7. UKMETJobs(f.jobs)
    BY <1>2, <1>3, <1>4, <1>5 DEF UKMETJobs
  <1>8. UKMETShape(f)
    BY <1>6, <1>7, Zenon DEF UKMETShape
  <1> QED
    BY <1>1, <1>2, <1>4, <1>5, <1>8, Zenon

\* What f has, when the weather of p is asked for with the source s
AsksFor(f, i, s, p) ==
    /\ Same(f, i, {"held", "dirty", "place", "weather", "jobs"})
    /\ DOMAIN f.held = DOMAIN i.held \union {s}
    /\ \A x \in DOMAIN i.held \ {s} : f.held[x] = i.held[x]
    /\ f.place[p].station = s.station
    /\ \A q \in Places \ {p} : f.place[q] = i.place[q]
    /\ OtherWeather(f, i, p) /\ f.weather[p].observationPending = TRUE
    /\ \E job : /\ job.slot = "observation" /\ job.place = p
                /\ DOMAIN f.jobs = DOMAIN i.jobs \union {job}

LEMMA WeatherAsked ==
  ASSUME NEW i, UKMETShape(i), NEW s, s.place \in Places, s.action = "weather"
  PROVE  LET f == UKMET!UpdateIonSource(i, s)
         IN  UKMETShape(f) /\ AsksFor(f, i, s, s.place) /\ (UKMETPends(i) => UKMETPends(f))
  <1> DEFINE p == s.place
             g == SetData(i, s, Nothing)
             h == [g EXCEPT !.place[p] = [station |-> s.station, named |-> TRUE]]
             f == UKMET!GetObservation(h, p)
  <1>1. UKMET!UpdateIonSource(i, s) = f
    <2>1. UKMET!SetData(i, s, UKMET!Nothing) = g
      BY Copies
    <2> QED
      BY <2>1, Zenon DEF UKMET!UpdateIonSource
  <1>2. DOMAIN i = UKMETFields /\ BasicFields \subseteq DOMAIN i /\ DOMAIN i.place = Places
    BY DEF UKMETShape, UKMETFields
  <1>3. /\ Same(g, i, {"held", "dirty"}) /\ DOMAIN g.held = DOMAIN i.held \union {s}
        /\ \A x \in DOMAIN i.held \ {s} : g.held[x] = i.held[x]
    BY <1>2, SetDataEffect
  <1> HIDE DEF g
  <1>4. UKMETShape(g) /\ g.jobs = i.jobs /\ g.place = i.place /\ g.weather = i.weather
    <2>1. {"held", "dirty"} \in SUBSET (UKMETFields \ {"jobs", "place", "weather"})
      BY DEF UKMETFields, BasicFields
    <2> QED
      BY <1>3, <2>1, OthersShaped
  <1>5. DOMAIN g = UKMETFields
    BY <1>4 DEF UKMETShape
  <1>6. /\ Same(h, g, {"place"}) /\ DOMAIN h.place = Places /\ h.place[p].station = s.station
        /\ \A q \in Places \ {p} : h.place[q] = i.place[q]
    BY <1>2, <1>4, <1>5 DEF Same, UKMETFields
  <1> HIDE DEF h
  <1>7. h.jobs = g.jobs /\ h.weather = g.weather /\ h.held = g.held /\ DOMAIN h = UKMETFields
    BY <1>5, <1>6, Zenon DEF Same, UKMETFields, BasicFields
  <1>8. UKMETShape(h)
    BY <1>4, <1>6, <1>7, Zenon DEF UKMETShape
  <1>9. /\ UKMETShape(f) /\ Same(f, h, {"weather", "jobs"}) /\ OtherWeather(f, h, p)
        /\ Flagged(f.weather[p], TRUE, h.weather[p].forecastsPending)
        /\ \E job : /\ job.slot = "observation" /\ job.place = p
                    /\ DOMAIN f.jobs = DOMAIN h.jobs \union {job}
    BY <1>8, GetObservationEffect
  <1>10. UKMETPends(h) => UKMETPends(f)
    BY <1>8, GetObservationPends
  <1> HIDE DEF f
  <1>11. UKMETPends(i) => UKMETPends(h)
    <2>1. h.weather = i.weather /\ h.jobs = i.jobs
      BY <1>4, <1>7
    <2> QED
      BY <2>1, PendsWithMore
  <1>12. /\ f.held = g.held /\ f.place = h.place
         /\ Same(f, i, {"held", "dirty", "place", "weather", "jobs"})
    BY <1>2, <1>3, <1>5, <1>6, <1>7, <1>9, Zenon DEF Same, UKMETFields, BasicFields
  <1>13. OtherWeather(f, i, p) /\ f.weather[p].observationPending = TRUE
    BY <1>4, <1>7, <1>9 DEF OtherWeather, Flagged
  <1>14. \E job : job.slot = "observation" /\ job.place = p /\ DOMAIN f.jobs = DOMAIN i.jobs \union {job}
    BY <1>4, <1>7, <1>9
  <1> QED
    BY <1>1, <1>3, <1>6, <1>9, <1>10, <1>11, <1>12, <1>13, <1>14, Zenon DEF AsksFor

-----------------------------------------------------------------------------
(* Operations that are repeated *)

\* What is repeated for e, by name
Again(op, i, e) ==
    CASE op = "bbcukmet" -> UKMET!UpdateIonSource(i, e)
      [] op = "dwd" -> DWD!UpdateIonSource(i, e)
      [] op = "read" -> UKMET!AddResult(i, e)

\* f is defined by repeating it for the first c names, from g on.
Recursive(f, op, g, names, c) ==
    f = [n \in 0..c |-> IF n = 0 THEN g ELSE Again(op, f[n - 1], names[n])]

LEMMA RepeatedExists ==
  ASSUME NEW op, NEW g, NEW names, NEW c \in Nat
  PROVE  \E f : Recursive(f, op, g, names, c)
  <1> DEFINE next(n, x) == Again(op, x, names[n])
             Reads(f, k) == f = [n \in 0..k |-> IF n = 0 THEN g ELSE next(n, f[n - 1])]
             S == {k \in Nat : \E f : Reads(f, k)}
  <1>1. 0 \in S
    <2> DEFINE f == [n \in 0..0 |-> g]
    <2> HIDE DEF next
    <2>1. Reads(f, 0)
      OBVIOUS
    <2> HIDE DEF f, Reads
    <2> QED
      BY <2>1
  <1>2. ASSUME NEW k \in Nat, k \in S PROVE k + 1 \in S
    <2> HIDE DEF next
    <2>1. PICK f : Reads(f, k)
      BY <1>2
    <2> DEFINE h == [n \in 0..k + 1 |-> IF n = k + 1 THEN next(n, f[k]) ELSE f[n]]
    <2>2. \A n \in 0..k : f[n] = IF n = 0 THEN g ELSE next(n, f[n - 1])
      BY <2>1
    <2>3. ASSUME NEW n \in 0..k + 1 PROVE h[n] = IF n = 0 THEN g ELSE next(n, h[n - 1])
      <3>1. CASE n = k + 1
        <4>1. n # 0 /\ n - 1 = k /\ k \in 0..k + 1 /\ k # k + 1
          BY <3>1
        <4>2. h[k] = f[k] /\ h[n] = next(n, f[k])
          BY <3>1, <4>1
        <4> HIDE DEF h
        <4> QED
          BY <4>1, <4>2
      <3>2. CASE n # k + 1 /\ n # 0
        <4>1. n \in 0..k /\ n - 1 \in 0..k + 1 /\ n - 1 # k + 1
          BY <3>2
        <4>2. h[n] = f[n] /\ h[n - 1] = f[n - 1]
          BY <3>2, <4>1
        <4>3. f[n] = next(n, f[n - 1])
          BY <2>2, <3>2, <4>1
        <4> HIDE DEF h
        <4> QED
          BY <3>2, <4>2, <4>3
      <3>3. CASE n # k + 1 /\ n = 0
        <4>1. 0 \in 0..k /\ h[n] = f[0]
          BY <3>3
        <4>2. f[0] = g
          BY <2>2, <4>1
        <4> HIDE DEF h
        <4> QED
          BY <3>3, <4>1, <4>2
      <3> QED
        BY <3>1, <3>2, <3>3
    <2>4. h = [n \in 0..k + 1 |-> h[n]]
      OBVIOUS
    <2> HIDE DEF h
    <2>5. Reads(h, k + 1)
      BY <2>3, <2>4
    <2> HIDE DEF Reads
    <2> QED
      BY <2>5
  <1>3. \A k \in Nat : k \in S
    <2> HIDE DEF S
    <2> QED
      BY <1>1, <1>2, Induction
  <1> QED
    BY <1>3 DEF Recursive

\* f repeats it c times, from g on.
Repeats(f, op, g, names, c) ==
    f[0] = g /\ \A n \in 1..c : f[n] = Again(op, f[n - 1], names[n])

LEMMA RepeatedFits ==
  ASSUME NEW op, NEW g, NEW names, NEW c \in Nat,
         NEW f, Recursive(f, op, g, names, c)
  PROVE  Repeats(f, op, g, names, c)
  <1>1. 0 \in 0..c /\ \A n \in 1..c : n \in 0..c /\ n # 0
    OBVIOUS
  <1>2. \A n \in 0..c : f[n] = IF n = 0 THEN g ELSE Again(op, f[n - 1], names[n])
    BY DEF Recursive
  <1> QED
    BY <1>1, <1>2 DEF Repeats

LEMMA ResultsRead ==
  ASSUME NEW i, NEW results, Len(results) \in Nat
  PROVE  \E f : /\ Repeats(f, "read", i, results, Len(results))
                /\ UKMET!ReadSearchData(i, results) = f[Len(results)]
  <1> DEFINE c == Len(results)
             F == CHOOSE f : f = [n \in 0..c |-> IF n = 0 THEN i ELSE UKMET!AddResult(f[n - 1], results[n])]
  <1>1. \A x, e : Again("read", x, e) = UKMET!AddResult(x, e)
    BY DEF Again
  <1>2. PICK f : Recursive(f, "read", i, results, c)
    BY RepeatedExists
  <1>3. f = [n \in 0..c |-> IF n = 0 THEN i ELSE UKMET!AddResult(f[n - 1], results[n])]
    BY <1>1, <1>2 DEF Recursive
  <1>4. F = [n \in 0..c |-> IF n = 0 THEN i ELSE UKMET!AddResult(F[n - 1], results[n])]
    BY <1>3
  <1>5. UKMET!ReadSearchData(i, results) = F[c]
    BY DEF UKMET!ReadSearchData
  <1> HIDE DEF F
  <1>6. Recursive(F, "read", i, results, c)
    BY <1>1, <1>4 DEF Recursive
  <1>7. Repeats(F, "read", i, results, c)
    BY <1>6, RepeatedFits
  <1> QED
    BY <1>5, <1>7

LEMMA NamesInOrder ==
  ASSUME NEW S, IsFiniteSet(S)
  PROVE  Cardinality(S) \in Nat /\ \A n \in 1..Cardinality(S) : SetToSeq(S)[n] \in S
  <1>1. Cardinality(S) \in Nat /\ ExistsBijection(1..Cardinality(S), S)
    BY FS_CardinalityType
  <1>2. \E f \in [1..Cardinality(S) -> S] : IsInjective(f)
    BY <1>1 DEF ExistsBijection, Bijection, Injection
  <1>3. SetToSeq(S) \in [1..Cardinality(S) -> S]
    BY <1>2 DEF SetToSeq
  <1> QED
    BY <1>1, <1>3

LEMMA UKMETResets ==
  ASSUME NEW i, IsFiniteSet(i.used), DOMAIN i = UKMETFields
  PROVE  LET g == [i EXCEPT !.toReset = DOMAIN i.held]
         IN  \E c \in Nat : \E f, names :
               /\ Repeats(f, "bbcukmet", g, names, c)
               /\ \A n \in 1..c : names[n] \in i.used
               /\ UKMET!Reset(i) = f[c]
  <1> DEFINE g == [i EXCEPT !.toReset = DOMAIN i.held]
             names == UKMET!SetToSeq(g.used)
             c == UKMET!Cardinality(g.used)
             F == CHOOSE f : f = [n \in 0..c |-> IF n = 0 THEN g ELSE UKMET!UpdateIonSource(f[n - 1], names[n])]
  <1>1. \A x, e : Again("bbcukmet", x, e) = UKMET!UpdateIonSource(x, e)
    BY DEF Again
  <1>2. g.used = i.used
    BY DEF UKMETFields, BasicFields
  <1>3. UKMET!Cardinality(i.used) = Cardinality(i.used)
    BY DEF UKMET!Cardinality, Cardinality
  <1>4. UKMET!SetToSeq(i.used) = SetToSeq(i.used)
    BY <1>3 DEF UKMET!SetToSeq, SetToSeq, UKMET!IsInjective, IsInjective
  <1>5. c \in Nat /\ \A n \in 1..c : names[n] \in i.used
    BY <1>2, <1>3, <1>4, NamesInOrder
  <1>6. CASE ~g.initialized
    <2>1. UKMET!Reset(i) = g
      BY <1>6 DEF UKMET!Reset, UKMET!UpdateAllSources
    <2> DEFINE f == [n \in 0..0 |-> g]
    <2>2. Repeats(f, "bbcukmet", g, names, 0) /\ f[0] = g
      BY DEF Repeats
    <2> QED
      BY <2>1, <2>2
  <1>7. CASE g.initialized
    <2>1. UKMET!Reset(i) = F[c]
      BY <1>7 DEF UKMET!Reset, UKMET!UpdateAllSources
    <2> HIDE DEF c, g, names
    <2>2. PICK f : Recursive(f, "bbcukmet", g, names, c)
      BY <1>5, RepeatedExists
    <2>3. f = [n \in 0..c |-> IF n = 0 THEN g ELSE UKMET!UpdateIonSource(f[n - 1], names[n])]
      BY <1>1, <2>2 DEF Recursive
    <2>4. F = [n \in 0..c |-> IF n = 0 THEN g ELSE UKMET!UpdateIonSource(F[n - 1], names[n])]
      BY <2>3
    <2> HIDE DEF F
    <2>5. Recursive(F, "bbcukmet", g, names, c)
      BY <1>1, <2>4 DEF Recursive
    <2>6. Repeats(F, "bbcukmet", g, names, c)
      BY <1>5, <2>5, RepeatedFits
    <2> QED
      BY <1>5, <2>1, <2>6 DEF g
  <1> QED
    BY <1>6, <1>7

-----------------------------------------------------------------------------
(* BBC Weather: what its sources hold is current *)

Pending(w) == w.observationPending = TRUE \/ w.forecastsPending = TRUE

\* A source of the place and id that the ion has for it, with the last report of the place
HeldFits(i, ids, s) ==
    s.action = "weather" =>
      LET p == s.place
      IN  /\ p \in Places /\ s = WeatherSource(p, ids[p]) /\ i.place[p].station = ids[p]
          /\ Pending(i.weather[p]) \/ i.held[s] \in {Nothing, UKMET!Report(i.place[p], i.weather[p])}

JobsFit(i, ids) ==
    \A job \in DOMAIN i.jobs : job.slot # "search" => i.place[job.place].station = ids[job.place]

FoundFit(i, ids) ==
    i.locations \subseteq Places /\ IsFiniteSet(i.locations)
      /\ \A p \in i.locations : i.place[p].station = ids[p]

\* The sources fit, all but some that the rest of the step looks after.
UKMETCurrent(i, ids, but) ==
    /\ JobsFit(i, ids) /\ FoundFit(i, ids)
    /\ i.used \subseteq DOMAIN i.held
    /\ \A s \in DOMAIN i.held \ but : HeldFits(i, ids, s)

\* The id of a place, once it is known, stays.
IdsStay(f, i, ids) ==
    \A p \in Places : i.place[p].station = ids[p] => f.place[p].station = ids[p]

LEMMA ReportIsSame ==
  ASSUME NEW p, NEW q, p.station = q.station, NEW w
  PROVE  UKMET!Report(p, w) = UKMET!Report(q, w)
  BY DEF UKMET!Report

LEMMA HeldKept ==
  ASSUME NEW i, NEW ids, NEW s, HeldFits(i, ids, s), NEW f, f.held[s] = i.held[s], IdsStay(f, i, ids),
         s.place \in Places => Pending(f.weather[s.place]) \/ f.weather[s.place] = i.weather[s.place]
  PROVE  HeldFits(f, ids, s)
  <1> SUFFICES ASSUME s.action = "weather" PROVE HeldFits(f, ids, s)
    BY Zenon DEF HeldFits
  <1> DEFINE p == s.place
  <1>1. /\ p \in Places /\ s = WeatherSource(p, ids[p]) /\ i.place[p].station = ids[p]
        /\ Pending(i.weather[p]) \/ i.held[s] \in {Nothing, UKMET!Report(i.place[p], i.weather[p])}
    BY Zenon DEF HeldFits
  <1>2. f.place[p].station = ids[p]
    BY <1>1, Zenon DEF IdsStay
  <1>3. UKMET!Report(f.place[p], i.weather[p]) = UKMET!Report(i.place[p], i.weather[p])
    BY <1>1, <1>2, ReportIsSame
  <1>4. CASE Pending(f.weather[p])
    BY <1>1, <1>2, <1>4, Zenon DEF HeldFits
  <1>5. CASE f.weather[p] = i.weather[p]
    <2>1. Pending(f.weather[p]) \/ f.held[s] \in {Nothing, UKMET!Report(f.place[p], f.weather[p])}
      BY <1>1, <1>3, <1>5
    <2> QED
      BY <1>1, <1>2, <2>1, Zenon DEF HeldFits
  <1> QED
    BY <1>1, <1>4, <1>5

LEMMA CurrentKept ==
  ASSUME NEW i, UKMETShape(i), NEW ids, NEW but, UKMETCurrent(i, ids, but),
         NEW f, IdsStay(f, i, ids), f.locations = i.locations \/ FoundFit(f, ids),
         \A job \in DOMAIN f.jobs : \/ job \in DOMAIN i.jobs \/ job.slot = "search"
                                    \/ f.place[job.place].station = ids[job.place],
         f.used \subseteq DOMAIN f.held,
         NEW new, \A s \in DOMAIN f.held \ new : HeldFits(f, ids, s)
  PROVE  UKMETCurrent(f, ids, new)
  <1>1. JobsFit(f, ids)
    <2> SUFFICES ASSUME NEW job \in DOMAIN f.jobs, job.slot # "search"
                 PROVE  f.place[job.place].station = ids[job.place]
      BY DEF JobsFit
    <2>1. CASE job \in DOMAIN i.jobs
      <3>1. i.place[job.place].station = ids[job.place] /\ job.place \in Places
        BY <2>1 DEF UKMETCurrent, JobsFit, UKMETShape, UKMETJobs
      <3> QED
        BY <3>1 DEF IdsStay
    <2> QED
      BY <2>1
  <1>2. FoundFit(f, ids)
    BY DEF UKMETCurrent, FoundFit, IdsStay
  <1> QED
    BY <1>1, <1>2 DEF UKMETCurrent

\* Sources of BBC Weather that are asked for
SourceFits(s, ids) == s.action = "weather" => s = WeatherSource(s.place, ids[s.place])

UsedFit(i) == IsFiniteSet(i.used) /\ \A s \in i.used : AskedFits(s)

UKMETSound(i) ==
    /\ UKMETShape(i) /\ UKMETPends(i) /\ UsedFit(i)
    /\ i.initialized = TRUE

\* f is sound, and current if i is.
UKMETGood(f, i, but) ==
    UKMETSound(f) /\ \A ids : UKMETCurrent(i, ids, but) => UKMETCurrent(f, ids, {})

LEMMA WeatherAskedCurrent ==
  ASSUME NEW i, UKMETShape(i), NEW s, AskedFits(s), s.action = "weather",
         NEW ids, SourceFits(s, ids), UKMETCurrent(i, ids, {s})
  PROVE  UKMETCurrent(UKMET!UpdateIonSource(i, s), ids, {})
  <1> DEFINE f == UKMET!UpdateIonSource(i, s)
             p == s.place
  <1>1. p \in Places /\ s = WeatherSource(p, ids[p]) /\ s.station = ids[p]
    <2>1. p \in Places /\ s = WeatherSource(p, ids[p])
      BY AskedIsOne, Zenon DEF SourceFits
    <2> HIDE DEF p
    <2> QED
      BY <2>1 DEF WeatherSource
  <1>2. UKMETShape(f) /\ AsksFor(f, i, s, p)
    BY <1>1, WeatherAsked, Zenon
  <1> HIDE DEF f
  <1>3. f.used = i.used /\ f.locations = i.locations
    BY <1>2, Zenon DEF AsksFor, Same, UKMETShape, UKMETFields, BasicFields
  <1>4. IdsStay(f, i, ids)
    BY <1>1, <1>2 DEF AsksFor, IdsStay
  <1>5. f.place[p].station = ids[p] /\ Pending(f.weather[p])
    BY <1>1, <1>2 DEF AsksFor, Pending
  <1>6. ASSUME NEW x \in DOMAIN f.held PROVE HeldFits(f, ids, x)
    <2>1. CASE x = s
      BY <1>1, <1>5, <2>1, Zenon DEF HeldFits
    <2>2. CASE x # s
      <3>1. x \in DOMAIN i.held \ {s} /\ f.held[x] = i.held[x]
        BY <1>2, <2>2 DEF AsksFor
      <3>2. HeldFits(i, ids, x)
        BY <3>1 DEF UKMETCurrent
      <3>3. x.place \in Places => Pending(f.weather[x.place]) \/ f.weather[x.place] = i.weather[x.place]
        BY <1>2, <1>5 DEF AsksFor, OtherWeather
      <3> QED
        BY <1>4, <3>1, <3>2, <3>3, HeldKept
    <2> QED
      BY <2>1, <2>2
  <1>7. \A job \in DOMAIN f.jobs : \/ job \in DOMAIN i.jobs \/ job.slot = "search"
                                   \/ f.place[job.place].station = ids[job.place]
    BY <1>2, <1>5 DEF AsksFor
  <1>8. f.used \subseteq DOMAIN f.held
    BY <1>2, <1>3 DEF AsksFor, UKMETCurrent
  <1>9. UKMETCurrent(f, ids, {})
    BY <1>3, <1>4, <1>6, <1>7, <1>8, CurrentKept
  <1> QED
    BY <1>9 DEF f

\* Sources fit that are looked after anyway.
LEMMA CurrentWeaker ==
  ASSUME NEW i, NEW ids, NEW some, UKMETCurrent(i, ids, some), NEW but, some \subseteq but
  PROVE  UKMETCurrent(i, ids, but)
  BY DEF UKMETCurrent

LEMMA HeldIsAsked ==
  ASSUME NEW i, NEW ids, UKMETCurrent(i, ids, {}), NEW s \in DOMAIN i.held
  PROVE  SourceFits(s, ids)
  <1>1. HeldFits(i, ids, s)
    BY DEF UKMETCurrent
  <1> QED
    BY <1>1, Zenon DEF HeldFits, SourceFits

LEMMA SearchAskedCurrent ==
  ASSUME NEW i, UKMETShape(i), NEW p, NEW ids, NEW but, UKMETCurrent(i, ids, but),
         \A s \in but : s.action # "weather"
  PROVE  UKMETCurrent(UKMET!FindPlace(i, p), ids, {})
  <1> DEFINE f == UKMET!FindPlace(i, p)
  <1>1. /\ UKMETShape(f) /\ Same(f, i, {"searches", "jobs"})
        /\ \E job : job.slot = "search" /\ DOMAIN f.jobs = DOMAIN i.jobs \union {job}
    BY FindPlaceEffect
  <1> HIDE DEF f
  <1>2. /\ f.held = i.held /\ f.place = i.place /\ f.weather = i.weather
        /\ f.locations = i.locations /\ f.used = i.used
    BY <1>1, Zenon DEF Same, UKMETShape, UKMETFields, BasicFields
  <1>3. IdsStay(f, i, ids)
    BY <1>2 DEF IdsStay
  <1>4. ASSUME NEW s \in DOMAIN f.held PROVE HeldFits(f, ids, s)
    <2>1. CASE s \in but
      BY <2>1 DEF HeldFits
    <2>2. CASE s \notin but
      <3>1. HeldFits(i, ids, s)
        BY <1>2, <2>2 DEF UKMETCurrent
      <3> QED
        BY <1>2, <1>3, <3>1, HeldKept
    <2> QED
      BY <2>1, <2>2
  <1>5. \A job \in DOMAIN f.jobs : job \in DOMAIN i.jobs \/ job.slot = "search"
    BY <1>1
  <1>6. f.used \subseteq DOMAIN f.held
    BY <1>2 DEF UKMETCurrent
  <1>7. UKMETCurrent(f, ids, {})
    BY <1>2, <1>3, <1>4, <1>5, <1>6, CurrentKept
  <1> QED
    BY <1>7 DEF f

LEMMA UpdateGood ==
  ASSUME NEW i, UKMETSound(i), NEW s, AskedFits(s)
  PROVE  LET f == UKMET!UpdateIonSource(i, s)
         IN  /\ UKMETSound(f) /\ f.used = i.used
             /\ \A ids : SourceFits(s, ids) /\ UKMETCurrent(i, ids, {s}) => UKMETCurrent(f, ids, {})
  <1> DEFINE f == UKMET!UpdateIonSource(i, s)
  <1>1. UKMETShape(i) /\ UKMETPends(i) /\ UsedFit(i) /\ i.initialized = TRUE
    BY Zenon DEF UKMETSound
  <1>2. s.place \in Places /\ s.action \in {"weather", "validate"}
    BY AskedIsOne, Zenon
  <1>3. CASE s.action = "weather"
    <2>1. UKMETShape(f) /\ UKMETPends(f) /\ Same(f, i, {"held", "dirty", "place", "weather", "jobs"})
      BY <1>1, <1>2, <1>3, WeatherAsked, Zenon DEF AsksFor
    <2>2. \A ids : SourceFits(s, ids) /\ UKMETCurrent(i, ids, {s}) => UKMETCurrent(f, ids, {})
      BY <1>1, <1>3, WeatherAskedCurrent, Zenon
    <2> HIDE DEF f
    <2>3. f.used = i.used /\ f.initialized = i.initialized
      BY <1>1, <2>1, Zenon DEF Same, UKMETShape, UKMETFields, BasicFields
    <2>4. UKMETSound(f)
      BY <1>1, <2>1, <2>3, Zenon DEF UKMETSound, UsedFit
    <2> QED
      BY <2>2, <2>3, <2>4, Zenon DEF f
  <1>4. CASE s.action = "validate"
    <2>1. f = UKMET!FindPlace(i, s.place)
      BY <1>4 DEF UKMET!UpdateIonSource
    <2>2. /\ UKMETShape(f) /\ Same(f, i, {"searches", "jobs"})
          /\ \E job : job.slot = "search" /\ DOMAIN f.jobs = DOMAIN i.jobs \union {job}
      BY <1>1, <2>1, FindPlaceEffect
    <2>3. \A ids : UKMETCurrent(i, ids, {s}) => UKMETCurrent(f, ids, {})
      BY <1>1, <1>4, <2>1, SearchAskedCurrent
    <2> HIDE DEF f
    <2>4. f.used = i.used /\ f.initialized = i.initialized /\ f.weather = i.weather
      BY <1>1, <2>2, Zenon DEF Same, UKMETShape, UKMETFields, BasicFields
    <2>5. UKMETPends(f)
      BY <1>1, <2>2, <2>4, PendsWithMore
    <2>6. UKMETSound(f)
      BY <1>1, <2>2, <2>4, <2>5, Zenon DEF UKMETSound, UsedFit
    <2> QED
      BY <2>3, <2>4, <2>6, Zenon DEF f
  <1> QED
    BY <1>2, <1>3, <1>4

\* Fields that neither a report nor a request of a place looks at
LEMMA OthersGood ==
  ASSUME NEW i, UKMETSound(i),
         NEW but \in SUBSET {"dirty", "usage", "shown", "toReset", "searches", "retries"},
         NEW f, Same(f, i, but)
  PROVE  UKMETGood(f, i, {}) /\ f.used = i.used /\ f.held = i.held /\ f.jobs = i.jobs
  <1>1. UKMETShape(i) /\ UKMETPends(i) /\ UsedFit(i) /\ i.initialized = TRUE
    BY Zenon DEF UKMETSound
  <1>2. but \in SUBSET (UKMETFields \ {"jobs", "place", "weather"})
    BY DEF UKMETFields, BasicFields
  <1>3. UKMETShape(f) /\ f.jobs = i.jobs /\ f.place = i.place /\ f.weather = i.weather
    BY <1>1, <1>2, OthersShaped
  <1>4. /\ "used" \in UKMETFields \ but /\ "initialized" \in UKMETFields \ but
        /\ "held" \in UKMETFields \ but /\ "locations" \in UKMETFields \ but
    BY DEF UKMETFields, BasicFields
  <1>5. f.used = i.used /\ f.initialized = i.initialized /\ f.held = i.held /\ f.locations = i.locations
    BY <1>1, <1>4, Zenon DEF Same, UKMETShape
  <1>6. UKMETPends(f)
    BY <1>1, <1>3, PendsWithMore
  <1>7. UKMETSound(f)
    BY <1>1, <1>3, <1>5, <1>6, Zenon DEF UKMETSound, UsedFit
  <1>8. ASSUME NEW ids, UKMETCurrent(i, ids, {}) PROVE UKMETCurrent(f, ids, {})
    <2>1. IdsStay(f, i, ids)
      BY <1>3 DEF IdsStay
    <2>2. \A s \in DOMAIN f.held : HeldFits(f, ids, s)
      BY <1>3, <1>5, <1>8, <2>1, HeldKept DEF UKMETCurrent
    <2>3. f.used \subseteq DOMAIN f.held
      BY <1>5, <1>8 DEF UKMETCurrent
    <2> QED
      BY <1>1, <1>3, <1>5, <1>8, <2>1, <2>2, <2>3, CurrentKept
  <1> QED
    BY <1>3, <1>5, <1>7, <1>8, Zenon DEF UKMETGood

LEMMA ResetGood ==
  ASSUME NEW i, UKMETSound(i)
  PROVE  UKMETGood(UKMET!Reset(i), i, {})
  <1> DEFINE g == [i EXCEPT !.toReset = DOMAIN i.held]
  <1>1. DOMAIN i = UKMETFields /\ UsedFit(i)
    BY Zenon DEF UKMETSound, UKMETShape
  <1>2. Same(g, i, {"toReset"})
    BY <1>1 DEF Same, UKMETFields
  <1>3. PICK c \in Nat : \E f, names :
          /\ Repeats(f, "bbcukmet", g, names, c)
          /\ \A n \in 1..c : names[n] \in i.used
          /\ UKMET!Reset(i) = f[c]
    BY <1>1, UKMETResets DEF UsedFit
  <1> HIDE DEF g
  <1>4. PICK f, names : /\ Repeats(f, "bbcukmet", g, names, c)
                        /\ \A n \in 1..c : names[n] \in i.used
                        /\ UKMET!Reset(i) = f[c]
    BY <1>3
  <1>5. UKMETGood(g, i, {}) /\ g.used = i.used /\ g.held = i.held
    BY <1>2, OthersGood
  <1> DEFINE Ok(x) == UKMETGood(x, i, {}) /\ x.used = i.used
             S == {n \in Nat : n <= c => Ok(f[n])}
  <1>6. 0 \in S
    BY <1>4, <1>5 DEF Repeats
  <1>7. ASSUME NEW n \in Nat, n \in S PROVE n + 1 \in S
    <2> SUFFICES ASSUME n + 1 <= c PROVE Ok(f[n + 1])
      OBVIOUS
    <2> DEFINE x == f[n]
               s == names[n + 1]
    <2>1. n + 1 \in 1..c /\ n + 1 - 1 = n /\ n <= c
      OBVIOUS
    <2>2. UKMETGood(x, i, {}) /\ x.used = i.used
      BY <1>7, <2>1
    <2>3. f[n + 1] = Again("bbcukmet", x, s) /\ s \in i.used
      BY <1>4, <2>1 DEF Repeats
    <2>4. f[n + 1] = UKMET!UpdateIonSource(x, s)
      BY <2>3 DEF Again
    <2> HIDE DEF x, s
    <2>5. AskedFits(s)
      BY <1>1, <2>3 DEF UsedFit
    <2>6. /\ UKMETSound(f[n + 1]) /\ f[n + 1].used = x.used
          /\ \A ids : SourceFits(s, ids) /\ UKMETCurrent(x, ids, {s}) => UKMETCurrent(f[n + 1], ids, {})
      BY <2>2, <2>4, <2>5, UpdateGood DEF UKMETGood
    <2>7. ASSUME NEW ids, UKMETCurrent(i, ids, {}) PROVE UKMETCurrent(f[n + 1], ids, {})
      <3>1. UKMETCurrent(x, ids, {})
        BY <2>2, <2>7 DEF UKMETGood
      <3>2. s \in DOMAIN x.held
        BY <2>2, <2>3, <3>1 DEF UKMETCurrent
      <3>3. SourceFits(s, ids) /\ UKMETCurrent(x, ids, {s})
        BY <3>1, <3>2, HeldIsAsked, CurrentWeaker
      <3> QED
        BY <2>6, <3>3
    <2> QED
      BY <2>2, <2>6, <2>7, Zenon DEF UKMETGood
  <1>8. \A n \in Nat : n \in S
    <2> HIDE DEF S
    <2> QED
      BY <1>6, <1>7, Induction
  <1>9. Ok(f[c])
    <2>1. c \in S /\ c <= c
      BY <1>8
    <2> HIDE DEF Ok
    <2> QED
      BY <2>1
  <1> QED
    BY <1>4, <1>9

-----------------------------------------------------------------------------
(* BBC Weather: applets and answers to them *)

\* A step that is about users and the containers of but
LEMMA UsersGood ==
  ASSUME NEW i, UKMETSound(i), NEW f, Same(f, i, {"usage", "used", "shown", "held", "dirty", "toReset"}), UsedFit(f),
         NEW but, \A s \in DOMAIN f.held \ but : s \in DOMAIN i.held /\ f.held[s] = i.held[s]
  PROVE  /\ UKMETSound(f)
         /\ \A ids : UKMETCurrent(i, ids, but) /\ f.used \subseteq DOMAIN f.held => UKMETCurrent(f, ids, but)
  <1>1. UKMETShape(i) /\ UKMETPends(i) /\ UsedFit(i) /\ i.initialized = TRUE
    BY Zenon DEF UKMETSound
  <1>2. {"usage", "used", "shown", "held", "dirty", "toReset"} \in SUBSET (UKMETFields \ {"jobs", "place", "weather"})
    BY DEF UKMETFields, BasicFields
  <1>3. UKMETShape(f) /\ f.jobs = i.jobs /\ f.place = i.place /\ f.weather = i.weather
    BY <1>1, <1>2, OthersShaped
  <1>4. f.initialized = i.initialized /\ f.locations = i.locations
    BY <1>1, Zenon DEF Same, UKMETShape, UKMETFields, BasicFields
  <1>5. UKMETPends(f)
    BY <1>1, <1>3, PendsWithMore
  <1>6. UKMETSound(f)
    BY <1>1, <1>3, <1>4, <1>5, Zenon DEF UKMETSound
  <1>7. ASSUME NEW ids, UKMETCurrent(i, ids, but), f.used \subseteq DOMAIN f.held
        PROVE  UKMETCurrent(f, ids, but)
    <2>1. IdsStay(f, i, ids)
      BY <1>3 DEF IdsStay
    <2>2. \A s \in DOMAIN f.held \ but : HeldFits(f, ids, s)
      BY <1>3, <1>7, <2>1, HeldKept DEF UKMETCurrent
    <2> QED
      BY <1>1, <1>3, <1>4, <1>7, <2>1, <2>2, CurrentKept
  <1> QED
    BY <1>6, <1>7

\* A source that is no weather has no report.
LEMMA SearchesFit ==
  ASSUME NEW i, NEW ids, NEW s, s.action # "weather", UKMETCurrent(i, ids, {s})
  PROVE  UKMETCurrent(i, ids, {})
  <1>1. HeldFits(i, ids, s)
    BY DEF HeldFits
  <1> QED
    BY <1>1 DEF UKMETCurrent

LEMMA RequestGood ==
  ASSUME NEW i, UKMETSound(i), NEW s, AskedFits(s), kind = "bbcukmet"
  PROVE  LET f == RequestIonSource(i, s)
         IN  /\ UKMETSound(f)
             /\ \A ids : SourceFits(s, ids) /\ UKMETCurrent(i, ids, {}) => UKMETCurrent(f, ids, {})
  <1> DEFINE f == RequestIonSource(i, s)
             counted == [i EXCEPT !.usage = @ + 1, !.used = @ \union {s},
                                  !.shown = (s :> Nothing) @@ @]
  <1>1. DOMAIN i = UKMETFields /\ BasicFields \subseteq DOMAIN i /\ UsedFit(i)
    BY Zenon DEF UKMETSound, UKMETShape, UKMETFields
  <1>2. /\ Same(counted, i, {"usage", "used", "shown"}) /\ counted.used = i.used \union {s}
        /\ DOMAIN counted = UKMETFields
    BY <1>1 DEF Same, UKMETFields, BasicFields
  <1>3. counted.held = i.held /\ counted.initialized = TRUE
    BY <1>1, <1>2, Zenon DEF Same, UKMETFields, BasicFields, UKMETSound
  <1>4. IsFiniteSet(i.used \union {s}) /\ \A x \in i.used \union {s} : AskedFits(x)
    BY <1>1, FS_AddElement DEF UsedFit
  <1>5. CASE s \in DOMAIN i.held
    <2>1. f = [counted EXCEPT !.shown[s] = i.held[s]]
      BY <1>5 DEF RequestIonSource
    <2> HIDE DEF counted, f
    <2>2. /\ Same(f, i, {"usage", "used", "shown", "held", "dirty", "toReset"})
          /\ f.used = i.used \union {s} /\ f.held = i.held
      BY <1>1, <1>2, <1>3, <2>1 DEF Same, UKMETFields, BasicFields
    <2>3. UsedFit(f)
      BY <1>4, <2>2 DEF UsedFit
    <2>4. /\ UKMETSound(f)
          /\ \A ids : UKMETCurrent(i, ids, {}) /\ f.used \subseteq DOMAIN f.held => UKMETCurrent(f, ids, {})
      BY <2>2, <2>3, UsersGood
    <2>5. \A ids : UKMETCurrent(i, ids, {}) => f.used \subseteq DOMAIN f.held
      BY <1>5, <2>2 DEF UKMETCurrent
    <2> QED
      BY <2>4, <2>5 DEF f
  <1>6. CASE s \notin DOMAIN i.held
    <2> DEFINE made == SetData(counted, s, Nothing)
    <2>1. f = UKMET!UpdateIonSource(made, s)
      <3>1. f = IonRequest(counted, s)
        BY <1>6, Zenon DEF RequestIonSource
      <3> HIDE DEF counted, f
      <3>2. f = UpdateIonSource(made, s)
        BY <1>3, <3>1, Zenon DEF IonRequest
      <3> QED
        BY <3>2 DEF UpdateIonSource
    <2> HIDE DEF counted
    <2>2. /\ Same(made, counted, {"held", "dirty"})
          /\ DOMAIN made.held = DOMAIN counted.held \union {s}
          /\ \A x \in DOMAIN counted.held \ {s} : made.held[x] = counted.held[x]
      BY <1>1, <1>2, SetDataEffect
    <2> HIDE DEF made
    <2>3. Same(made, i, {"usage", "used", "shown", "held", "dirty", "toReset"})
      BY <1>1, <1>2, <2>2, Zenon DEF Same
    <2>4. made.used = i.used \union {s}
      BY <1>2, <2>2, Zenon DEF Same, UKMETFields, BasicFields
    <2>5. UsedFit(made)
      BY <1>4, <2>4 DEF UsedFit
    <2>6. \A x \in DOMAIN made.held \ {s} : x \in DOMAIN i.held /\ made.held[x] = i.held[x]
      BY <1>3, <2>2
    <2>7. /\ UKMETSound(made)
          /\ \A ids : UKMETCurrent(i, ids, {}) /\ made.used \subseteq DOMAIN made.held
                        => UKMETCurrent(made, ids, {s})
      BY <2>3, <2>5, <2>6, UsersGood, CurrentWeaker
    <2>8. \A ids : UKMETCurrent(i, ids, {}) => made.used \subseteq DOMAIN made.held
      BY <1>3, <2>2, <2>4 DEF UKMETCurrent
    <2> HIDE DEF f
    <2>9. /\ UKMETSound(f)
          /\ \A ids : SourceFits(s, ids) /\ UKMETCurrent(made, ids, {s}) => UKMETCurrent(f, ids, {})
      BY <2>1, <2>7, UpdateGood
    <2> QED
      BY <2>7, <2>8, <2>9 DEF f
  <1> QED
    BY <1>5, <1>6

LEMMA RemoveGood ==
  ASSUME NEW i, UKMETSound(i), NEW s
  PROVE  UKMETGood(RemoveIonSource(i, s), i, {})
  <1> DEFINE f == RemoveIonSource(i, s)
  <1>1. DOMAIN i = UKMETFields /\ UsedFit(i)
    BY Zenon DEF UKMETSound, UKMETShape
  <1>2. /\ Same(f, i, {"usage", "used", "shown", "held", "dirty", "toReset"}) /\ f.used = i.used \ {s}
        /\ DOMAIN f.held = DOMAIN i.held \ {s} /\ \A x \in DOMAIN i.held \ {s} : f.held[x] = i.held[x]
    BY <1>1 DEF RemoveIonSource, Same, UKMETFields, BasicFields
  <1> HIDE DEF f
  <1>3. UsedFit(f)
    BY <1>1, <1>2, FS_RemoveElement DEF UsedFit
  <1>4. /\ UKMETSound(f)
        /\ \A ids : UKMETCurrent(i, ids, {}) /\ f.used \subseteq DOMAIN f.held => UKMETCurrent(f, ids, {})
    BY <1>2, <1>3, UsersGood
  <1>5. \A ids : UKMETCurrent(i, ids, {}) => f.used \subseteq DOMAIN f.held
    BY <1>2 DEF UKMETCurrent
  <1> QED
    BY <1>4, <1>5 DEF f, UKMETGood

LEMMA RelayGood ==
  ASSUME NEW i, UKMETSound(i), NEW S
  PROVE  UKMETGood(Relay(i, S), i, {})
  <1>1. DOMAIN i = UKMETFields
    BY Zenon DEF UKMETSound, UKMETShape
  <1>2. Same(Relay(i, S), i, {"shown", "dirty"})
    BY <1>1 DEF Relay, Same, UKMETFields, BasicFields
  <1>3. {"shown", "dirty"} \in SUBSET {"dirty", "usage", "shown", "toReset", "searches", "retries"}
    OBVIOUS
  <1> QED
    BY <1>2, <1>3, OthersGood

\* A search is answered.
LEMMA AnswerGood ==
  ASSUME NEW i, UKMETSound(i), NEW p, NEW verdict
  PROVE  UKMETGood(UKMET!Answer(i, UKMET!ValidateSource(p), verdict), i, {})
  <1> DEFINE s == ValidateSource(p)
             d == "validate" :> verdict
             f == SetData(i, s, d)
  <1>1. UKMET!Answer(i, UKMET!ValidateSource(p), verdict) = f
    BY Copies
  <1>2. DOMAIN i = UKMETFields /\ BasicFields \subseteq DOMAIN i /\ UsedFit(i)
    BY Zenon DEF UKMETSound, UKMETShape, UKMETFields
  <1>3. s.action # "weather"
    BY DEF ValidateSource
  <1> HIDE DEF s, d
  <1>4. /\ Same(f, i, {"held", "dirty"}) /\ DOMAIN f.held = DOMAIN i.held \union {s}
        /\ \A x \in DOMAIN i.held \ {s} : f.held[x] = i.held[x]
    BY <1>2, SetDataEffect
  <1> HIDE DEF f
  <1>5. Same(f, i, {"usage", "used", "shown", "held", "dirty", "toReset"}) /\ f.used = i.used
    BY <1>2, <1>4, Zenon DEF Same, UKMETFields, BasicFields
  <1>6. UsedFit(f)
    BY <1>2, <1>5 DEF UsedFit
  <1>7. \A x \in DOMAIN f.held \ {s} : x \in DOMAIN i.held /\ f.held[x] = i.held[x]
    BY <1>4
  <1>8. /\ UKMETSound(f)
        /\ \A ids : UKMETCurrent(i, ids, {}) /\ f.used \subseteq DOMAIN f.held => UKMETCurrent(f, ids, {s})
    BY <1>5, <1>6, <1>7, UsersGood, CurrentWeaker
  <1>9. ASSUME NEW ids, UKMETCurrent(i, ids, {}) PROVE UKMETCurrent(f, ids, {})
    <2>1. f.used \subseteq DOMAIN f.held
      BY <1>4, <1>5, <1>9 DEF UKMETCurrent
    <2> QED
      BY <1>3, <1>8, <1>9, <2>1, SearchesFit
  <1> QED
    BY <1>1, <1>8, <1>9, Zenon DEF UKMETGood

-----------------------------------------------------------------------------
(* BBC Weather: searches *)

\* What a search finds, and nothing of a place that was known with its id
LEMMA FoundGood ==
  ASSUME NEW i, UKMETSound(i), NEW f, Same(f, i, {"place", "locations"}), DOMAIN f.place = Places
  PROVE  /\ UKMETSound(f)
         /\ \A ids : UKMETCurrent(i, ids, {}) /\ IdsStay(f, i, ids) /\ FoundFit(f, ids)
                       => UKMETCurrent(f, ids, {})
  <1>1. UKMETShape(i) /\ UKMETPends(i) /\ UsedFit(i) /\ i.initialized = TRUE
    BY Zenon DEF UKMETSound
  <1>2. /\ f.held = i.held /\ f.jobs = i.jobs /\ f.weather = i.weather
        /\ f.used = i.used /\ f.initialized = i.initialized /\ DOMAIN f = UKMETFields
    BY <1>1, Zenon DEF Same, UKMETShape, UKMETFields, BasicFields
  <1>3. UKMETShape(f)
    BY <1>1, <1>2, Zenon DEF UKMETShape
  <1>4. UKMETPends(f)
    BY <1>1, <1>2, PendsWithMore
  <1>5. UKMETSound(f)
    BY <1>1, <1>2, <1>3, <1>4, Zenon DEF UKMETSound, UsedFit
  <1>6. ASSUME NEW ids, UKMETCurrent(i, ids, {}), IdsStay(f, i, ids), FoundFit(f, ids)
        PROVE  UKMETCurrent(f, ids, {})
    <2>1. \A s \in DOMAIN f.held : HeldFits(f, ids, s)
      BY <1>2, <1>6, HeldKept DEF UKMETCurrent
    <2>2. f.used \subseteq DOMAIN f.held
      BY <1>2, <1>6 DEF UKMETCurrent
    <2> QED
      BY <1>1, <1>2, <1>6, <2>1, <2>2, CurrentKept
  <1> QED
    BY <1>5, <1>6

LEMMA AddResultEffect ==
  ASSUME NEW i, UKMETSound(i), NEW result
  PROVE  LET f == UKMET!AddResult(i, result)
         IN  Same(f, i, {"place", "locations"}) /\ DOMAIN f.place = Places
  <1>1. DOMAIN i = UKMETFields /\ DOMAIN i.place = Places
    BY Zenon DEF UKMETSound, UKMETShape
  <1> DEFINE f == UKMET!AddResult(i, result)
  <1>2. \E key, place : f = i \/ f = [i EXCEPT !.place[key] = place, !.locations = @ \union {key}]
    BY DEF UKMET!AddResult
  <1> HIDE DEF f
  <1>3. PICK key, place : f = i \/ f = [i EXCEPT !.place[key] = place, !.locations = @ \union {key}]
    BY <1>2
  <1>4. Same(f, i, {"place", "locations"}) /\ DOMAIN f.place = Places
    BY <1>1, <1>3 DEF Same, UKMETFields
  <1> QED
    BY <1>4 DEF f

\* The ids of a name are different.
Distinct(ids) == \A p, q \in Places : p[1] = q[1] /\ ids[p] = ids[q] => p = q

\* A place is found after those of its name with lower numbers.
InTheirOrder(results, ids) ==
    \A j \in DOMAIN results : \E p \in Places :
      /\ results[j] = [name |-> p[1], id |-> ids[p]]
      /\ \A n \in 1..p[2] - 1 : \E k \in 1..j - 1 :
           <<p[1], n>> \in Places /\ results[k] = [name |-> p[1], id |-> ids[<<p[1], n>>]]

LEMMA NumbersCounted ==
  ASSUME NEW name, NEW m \in Nat, NEW S, IsFiniteSet(S), \A n \in 1..m : <<name, n>> \in S
  PROVE  m <= Cardinality(S) /\ Cardinality(S) \in Nat
  <1> DEFINE T == {<<name, n>> : n \in 1..m}
             g == [n \in 1..m |-> <<name, n>>]
  <1>1. g \in Bijection(1..m, T)
    BY DEF Bijection, Injection, Surjection, IsInjective
  <1>2. ExistsBijection(1..m, T)
    BY <1>1 DEF ExistsBijection
  <1> HIDE DEF g
  <1>3. T \subseteq S
    OBVIOUS
  <1> HIDE DEF T
  <1>4. Cardinality(T) = m
    BY <1>2, FS_CountingElements
  <1> QED
    BY <1>3, <1>4, FS_Subset, FS_CardinalityType

\* The place that was meant gets the result.
LEMMA AddResultFinds ==
  ASSUME NEW i, UKMETSound(i), NEW ids, Distinct(ids), UKMETCurrent(i, ids, {}),
         NEW p \in Places, NEW result, result = [name |-> p[1], id |-> ids[p]],
         \A n \in 1..p[2] - 1 : <<p[1], n>> \in Places /\ <<p[1], n>> \in i.locations
  PROVE  LET f == UKMET!AddResult(i, result)
         IN  UKMETCurrent(f, ids, {}) /\ f.locations = i.locations \union {p}
  <1> DEFINE fits(n) == \/ <<p[1], n>> \notin i.locations
                        \/ i.place[<<p[1], n>>].station = ids[p]
             first(m) == fits(m) /\ \A k \in 1..m - 1 : ~fits(k)
             c == Cardinality(i.locations)
             f == UKMET!AddResult(i, result)
  <1>1. FoundFit(i, ids) /\ DOMAIN i = UKMETFields /\ DOMAIN i.place = Places
    BY Zenon DEF UKMETCurrent, UKMETSound, UKMETShape
  <1>2. p[2] \in Nat \ {0} /\ p = <<p[1], p[2]>>
    BY IonAssumption
  <1>3. p[2] - 1 \in Nat /\ p[2] - 1 <= c /\ c \in Nat
    <2>1. p[2] - 1 \in Nat
      BY <1>2
    <2>2. IsFiniteSet(i.locations) /\ \A n \in 1..p[2] - 1 : <<p[1], n>> \in i.locations
      BY <1>1 DEF FoundFit
    <2> QED
      BY <2>1, <2>2, NumbersCounted
  <1>4. ASSUME NEW n \in 1..p[2] - 1 PROVE ~fits(n)
    <2>1. <<p[1], n>> \in i.locations /\ i.place[<<p[1], n>>].station = ids[<<p[1], n>>]
      BY <1>1 DEF FoundFit
    <2>2. n # p[2]
      BY <1>2
    <2>3. <<p[1], n>> # p
      BY <1>2, <2>2
    <2>4. ids[<<p[1], n>>] # ids[p]
      BY <2>3 DEF Distinct
    <2> QED
      BY <2>1, <2>4
  <1>5. fits(p[2])
    BY <1>1, <1>2 DEF FoundFit
  <1>6. (CHOOSE m \in 1..c + 1 : first(m)) = p[2]
    <2> HIDE DEF fits, c
    <2>1. p[2] \in 1..c + 1 /\ first(p[2])
      BY <1>2, <1>3, <1>4, <1>5
    <2>2. ASSUME NEW m \in 1..c + 1, first(m) PROVE m = p[2]
      <3>1. ~(m < p[2])
        BY <1>2, <1>4, <2>2
      <3>2. ~(p[2] < m)
        BY <1>2, <1>5, <2>2
      <3> QED
        BY <1>2, <1>3, <3>1, <3>2
    <2> QED
      BY <2>1, <2>2
  <1>7. UKMET!Cardinality(i.locations) = c
    BY DEF UKMET!Cardinality, Cardinality
  <1>8. f = IF p \in i.locations THEN i
            ELSE [i EXCEPT !.place[p] = [station |-> ids[p], named |-> TRUE],
                           !.locations = @ \union {p}]
    <2>1. result.name = p[1] /\ result.id = ids[p]
      OBVIOUS
    <2> DEFINE key == <<p[1], CHOOSE m \in 1..c + 1 : first(m)>>
    <2>2. f = IF key \in i.locations THEN i
              ELSE [i EXCEPT !.place[key] = [station |-> ids[p], named |-> TRUE],
                             !.locations = @ \union {key}]
      BY <1>7, <2>1 DEF UKMET!AddResult, UKMET!Numbered
    <2>3. key = p
      BY <1>2, <1>6
    <2> HIDE DEF key
    <2> QED
      BY <2>2, <2>3
  <1>9. Same(f, i, {"place", "locations"}) /\ DOMAIN f.place = Places
    BY AddResultEffect
  <1> HIDE DEF f
  <1>10. f.locations = i.locations \union {p}
    BY <1>1, <1>8 DEF UKMETFields
  <1>11. \A q \in Places : f.place[q].station = i.place[q].station \/ q = p
    BY <1>1, <1>8 DEF UKMETFields
  <1>12. f.place[p].station = ids[p]
    BY <1>1, <1>8 DEF UKMETFields, FoundFit
  <1>13. IdsStay(f, i, ids)
    BY <1>11, <1>12 DEF IdsStay
  <1>14. FoundFit(f, ids)
    BY <1>1, <1>10, <1>11, <1>12, FS_AddElement DEF FoundFit
  <1>15. UKMETCurrent(f, ids, {})
    BY <1>9, <1>13, <1>14, FoundGood
  <1> QED
    BY <1>10, <1>15 DEF f

LEMMA ReadGood ==
  ASSUME NEW i, UKMETSound(i), NEW results, Len(results) \in Nat, DOMAIN results = 1..Len(results)
  PROVE  LET f == UKMET!ReadSearchData(i, results)
         IN  /\ UKMETSound(f)
             /\ \A ids : Distinct(ids) /\ InTheirOrder(results, ids) /\ UKMETCurrent(i, ids, {})
                           => UKMETCurrent(f, ids, {})
  <1> DEFINE c == Len(results)
  <1>1. PICK f : Repeats(f, "read", i, results, c) /\ UKMET!ReadSearchData(i, results) = f[c]
    BY ResultsRead
  <1>2. f[0] = i /\ \A n \in Nat : n + 1 <= c => f[n + 1] = UKMET!AddResult(f[n], results[n + 1])
    <2>1. \A n \in Nat : n + 1 <= c => n + 1 \in 1..c /\ n + 1 - 1 = n
      OBVIOUS
    <2> QED
      BY <1>1, <2>1 DEF Repeats, Again
  <1>3. UKMETSound(f[c])
    <2> DEFINE S == {n \in Nat : n <= c => UKMETSound(f[n])}
    <2>1. 0 \in S
      BY <1>2
    <2>2. ASSUME NEW n \in Nat, n \in S PROVE n + 1 \in S
      <3> SUFFICES ASSUME n + 1 <= c PROVE UKMETSound(f[n + 1])
        OBVIOUS
      <3>1. UKMETSound(f[n]) /\ f[n + 1] = UKMET!AddResult(f[n], results[n + 1])
        BY <1>2, <2>2
      <3>2. Same(f[n + 1], f[n], {"place", "locations"}) /\ DOMAIN f[n + 1].place = Places
        BY <3>1, AddResultEffect
      <3> QED
        BY <3>1, <3>2, FoundGood
    <2> HIDE DEF S
    <2>3. \A n \in Nat : n \in S
      BY <2>1, <2>2, Induction
    <2> QED
      BY <2>3 DEF S
  <1>4. ASSUME NEW ids, Distinct(ids), InTheirOrder(results, ids), UKMETCurrent(i, ids, {})
        PROVE  UKMETCurrent(f[c], ids, {})
    <2> DEFINE AllRead(x, n) ==
                 \A k \in 1..n : \A q \in Places :
                   results[k] = [name |-> q[1], id |-> ids[q]] => q \in x.locations
               S == {n \in Nat : n <= c => UKMETSound(f[n]) /\ UKMETCurrent(f[n], ids, {}) /\ AllRead(f[n], n)}
    <2>1. 0 \in S
      BY <1>2, <1>4
    <2>2. ASSUME NEW n \in Nat, n \in S PROVE n + 1 \in S
      <3> SUFFICES ASSUME n + 1 <= c
                   PROVE  UKMETSound(f[n + 1]) /\ UKMETCurrent(f[n + 1], ids, {}) /\ AllRead(f[n + 1], n + 1)
        OBVIOUS
      <3> DEFINE x == f[n]
                 y == f[n + 1]
                 j == n + 1
      <3>1. UKMETSound(x) /\ UKMETCurrent(x, ids, {}) /\ AllRead(x, n)
        BY <2>2
      <3>2. y = UKMET!AddResult(x, results[j])
        BY <1>2
      <3>3. j \in DOMAIN results /\ 1..j - 1 = 1..n /\ 1..j = 1..n \union {j}
        OBVIOUS
      <3> HIDE DEF x, y, j
      <3>4. PICK p \in Places :
              /\ results[j] = [name |-> p[1], id |-> ids[p]]
              /\ \A m \in 1..p[2] - 1 : \E k \in 1..j - 1 :
                   <<p[1], m>> \in Places /\ results[k] = [name |-> p[1], id |-> ids[<<p[1], m>>]]
        BY <1>4, <3>3 DEF InTheirOrder
      <3>5. ASSUME NEW m \in 1..p[2] - 1 PROVE <<p[1], m>> \in Places /\ <<p[1], m>> \in x.locations
        <4> DEFINE q == <<p[1], m>>
        <4>1. PICK k \in 1..n : q \in Places /\ results[k] = [name |-> p[1], id |-> ids[q]]
          BY <3>3, <3>4
        <4>2. q[1] = p[1]
          OBVIOUS
        <4> HIDE DEF q
        <4>3. q \in x.locations
          BY <3>1, <4>1, <4>2
        <4> QED
          BY <4>1, <4>3 DEF q
      <3>6. UKMETCurrent(y, ids, {}) /\ y.locations = x.locations \union {p}
        BY <1>4, <3>1, <3>2, <3>4, <3>5, AddResultFinds
      <3>7. UKMETSound(y)
        BY <3>1, <3>2, AddResultEffect, FoundGood
      <3>8. AllRead(y, j)
        <4> SUFFICES ASSUME NEW k \in 1..j, NEW q \in Places, results[k] = [name |-> q[1], id |-> ids[q]]
                     PROVE  q \in y.locations
          OBVIOUS
        <4>1. CASE k \in 1..n
          BY <3>1, <3>6, <4>1
        <4>2. CASE k = j
          <5>1. q[1] = p[1] /\ ids[q] = ids[p]
            BY <3>4, <4>2
          <5> QED
            BY <1>4, <3>6, <5>1 DEF Distinct
        <4> QED
          BY <3>3, <4>1, <4>2
      <3> QED
        BY <3>6, <3>7, <3>8 DEF y, j
    <2> HIDE DEF S
    <2>3. \A n \in Nat : n \in S
      BY <2>1, <2>2, Induction
    <2> QED
      BY <2>3 DEF S
  <1> QED
    BY <1>1, <1>3, <1>4

\* What a job that ends leaves as it was
LEMMA EndEffect ==
  ASSUME NEW i, UKMETSound(i), NEW job
  PROVE  LET f == EndJob(i, job)
         IN  /\ UKMETShape(f) /\ Same(f, i, {"jobs"}) /\ UsedFit(f) /\ f.initialized = TRUE
             /\ \A other \in DOMAIN i.jobs \ {job} : other \in DOMAIN f.jobs
             /\ DOMAIN f.jobs \subseteq DOMAIN i.jobs
             /\ \A ids : UKMETCurrent(i, ids, {}) => UKMETCurrent(f, ids, {})
  <1> DEFINE f == EndJob(i, job)
  <1>1. UKMETShape(i) /\ UsedFit(i) /\ i.initialized = TRUE
    BY Zenon DEF UKMETSound
  <1>2. /\ UKMETShape(f) /\ Same(f, i, {"jobs"}) /\ DOMAIN f.jobs \subseteq DOMAIN i.jobs
        /\ \A other \in DOMAIN i.jobs \ {job} : other \in DOMAIN f.jobs
    BY <1>1, EndShaped
  <1> HIDE DEF f
  <1>3. /\ f.held = i.held /\ f.place = i.place /\ f.weather = i.weather /\ f.locations = i.locations
        /\ f.used = i.used /\ f.initialized = i.initialized
    BY <1>1, <1>2, Zenon DEF Same, UKMETShape, UKMETFields, BasicFields
  <1>4. UsedFit(f)
    BY <1>1, <1>3 DEF UsedFit
  <1>5. ASSUME NEW ids, UKMETCurrent(i, ids, {}) PROVE UKMETCurrent(f, ids, {})
    <2>1. IdsStay(f, i, ids)
      BY <1>3 DEF IdsStay
    <2>2. \A s \in DOMAIN f.held : HeldFits(f, ids, s)
      BY <1>3, <1>5, <2>1, HeldKept DEF UKMETCurrent
    <2>3. f.used \subseteq DOMAIN f.held
      BY <1>3, <1>5 DEF UKMETCurrent
    <2>4. \A other \in DOMAIN f.jobs : other \in DOMAIN i.jobs
      BY <1>2
    <2> QED
      BY <1>1, <1>3, <1>5, <2>1, <2>2, <2>3, <2>4, CurrentKept
  <1>6. f.initialized = TRUE
    BY <1>1, <1>3
  <1> QED
    BY <1>2, <1>4, <1>5, <1>6, Zenon DEF f

\* A search that ends takes no job from a place with weather.
LEMMA SearchEndGood ==
  ASSUME NEW i, UKMETSound(i), NEW job, job.slot = "search"
  PROVE  UKMETGood(EndJob(i, job), i, {})
  <1> DEFINE f == EndJob(i, job)
  <1>1. /\ UKMETShape(f) /\ Same(f, i, {"jobs"}) /\ UsedFit(f) /\ f.initialized = TRUE
        /\ \A other \in DOMAIN i.jobs \ {job} : other \in DOMAIN f.jobs
        /\ \A ids : UKMETCurrent(i, ids, {}) => UKMETCurrent(f, ids, {})
    BY EndEffect
  <1> HIDE DEF f
  <1>2. f.weather = i.weather /\ UKMETPends(i)
    BY <1>1, Zenon DEF Same, UKMETSound, UKMETShape, UKMETFields, BasicFields
  <1>3. \A p, slots : HasJob(i, p, slots) /\ "search" \notin slots => HasJob(f, p, slots)
    BY <1>1 DEF HasJob
  <1>4. \A p : /\ HasJob(i, p, {"observation", "retryObservation"})
                    => HasJob(f, p, {"observation", "retryObservation"})
               /\ HasJob(i, p, {"forecast", "retryForecast"}) => HasJob(f, p, {"forecast", "retryForecast"})
    BY <1>3
  <1>5. UKMETPends(f)
    BY <1>2, <1>4, Zenon DEF UKMETPends, PendsAt
  <1>6. UKMETSound(f)
    BY <1>1, <1>5, Zenon DEF UKMETSound
  <1> QED
    BY <1>1, <1>6, Zenon DEF f, UKMETGood

LEMMA GoodTwice ==
  ASSUME NEW i, NEW g, NEW f, UKMETGood(g, i, {}), UKMETGood(f, g, {})
  PROVE  UKMETGood(f, i, {})
  BY DEF UKMETGood

LEMMA ValidateGood ==
  ASSUME NEW i, UKMETSound(i), NEW p
  PROVE  UKMETGood(UKMET!Validate(i, p), i, {})
  <1> DEFINE verdict == IF UKMET!Cardinality(i.locations) = 1 THEN "single" ELSE "multiple"
             g == UKMET!Answer(i, UKMET!ValidateSource(p), verdict)
             f == [g EXCEPT !.locations = {}]
  <1>1. UKMETGood(i, i, {})
    BY DEF UKMETGood
  <1>2. CASE i.locations = {} /\ i.place[p].named
    BY <1>1, <1>2 DEF UKMET!Validate
  <1>3. CASE i.locations = {} /\ ~i.place[p].named
    BY <1>3, AnswerGood DEF UKMET!Validate
  <1>4. CASE i.locations # {}
    <2>1. UKMET!Validate(i, p) = f
      BY <1>4 DEF UKMET!Validate
    <2>2. UKMETGood(g, i, {})
      BY AnswerGood
    <2> HIDE DEF g
    <2>3. UKMETSound(g) /\ DOMAIN g = UKMETFields /\ DOMAIN g.place = Places
      BY <2>2, Zenon DEF UKMETGood, UKMETSound, UKMETShape
    <2>4. Same(f, g, {"place", "locations"}) /\ f.place = g.place /\ f.locations = {}
      BY <2>3 DEF Same, UKMETFields
    <2> HIDE DEF f
    <2>5. \A ids : IdsStay(f, g, ids) /\ FoundFit(f, ids)
      BY <2>4, FS_EmptySet DEF IdsStay, FoundFit
    <2>6. UKMETGood(f, g, {})
      BY <2>3, <2>4, <2>5, FoundGood DEF UKMETGood
    <2> QED
      BY <2>1, <2>2, <2>6, GoodTwice
  <1> QED
    BY <1>2, <1>3, <1>4

ReplyInOrder(reply, ids) ==
    Distinct(ids) /\ (reply.what = "results" => InTheirOrder(reply.results, ids))

LEMMA SearchFinishedGood ==
  ASSUME NEW i0, UKMETSound(i0), NEW job, job.slot = "search", NEW reply,
         reply.what = "results" => Len(reply.results) \in Nat /\ DOMAIN reply.results = 1..Len(reply.results)
  PROVE  LET f == UKMET!SearchFinished(i0, job, reply)
         IN  /\ UKMETSound(f)
             /\ \A ids : UKMETCurrent(i0, ids, {}) /\ ReplyInOrder(reply, ids) => UKMETCurrent(f, ids, {})
  <1> DEFINE e == EndJob(i0, job)
             g == [e EXCEPT !.searches = @ - 1]
             h == IF reply.what = "results" THEN UKMET!ReadSearchData(g, reply.results) ELSE g
             f == UKMET!SearchFinished(i0, job, reply)
  <1>1. UKMETGood(e, i0, {})
    BY SearchEndGood
  <1>2. f = IF h.searches # 0 THEN h
            ELSE IF reply.what = "timeout" /\ h.locations = {}
                 THEN UKMET!Answer(h, UKMET!ValidateSource(job.place), "timeout")
                 ELSE UKMET!Validate(h, job.place)
    <2>1. UKMET!EndJob(i0, job) = e
      BY Copies
    <2> QED
      BY <2>1, Zenon DEF UKMET!SearchFinished
  <1> HIDE DEF e, f
  <1>3. DOMAIN e = UKMETFields
    BY <1>1, Zenon DEF UKMETGood, UKMETSound, UKMETShape
  <1>4. Same(g, e, {"searches"})
    BY <1>3 DEF Same, UKMETFields
  <1>5. {"searches"} \in SUBSET {"dirty", "usage", "shown", "toReset", "searches", "retries"}
    OBVIOUS
  <1> HIDE DEF g
  <1>6. UKMETGood(g, e, {})
    BY <1>1, <1>4, <1>5, OthersGood DEF UKMETGood
  <1>7. UKMETGood(g, i0, {})
    BY <1>1, <1>6, GoodTwice
  <1>8. /\ UKMETSound(h)
        /\ \A ids : UKMETCurrent(i0, ids, {}) /\ ReplyInOrder(reply, ids) => UKMETCurrent(h, ids, {})
    <2>1. CASE reply.what # "results"
      <3>1. h = g
        BY <2>1
      <3> QED
        BY <1>7, <3>1 DEF UKMETGood
    <2>2. CASE reply.what = "results"
      <3>1. h = UKMET!ReadSearchData(g, reply.results)
        BY <2>2
      <3> HIDE DEF h
      <3>2. /\ UKMETSound(h)
            /\ \A ids : Distinct(ids) /\ InTheirOrder(reply.results, ids) /\ UKMETCurrent(g, ids, {})
                          => UKMETCurrent(h, ids, {})
        BY <1>7, <2>2, <3>1, ReadGood DEF UKMETGood
      <3>3. \A ids : ReplyInOrder(reply, ids) => Distinct(ids) /\ InTheirOrder(reply.results, ids)
        BY <2>2 DEF ReplyInOrder
      <3> QED
        BY <1>7, <3>2, <3>3 DEF UKMETGood
    <2> QED
      BY <2>1, <2>2
  <1> HIDE DEF h
  <1>9. UKMETGood(f, h, {})
    <2>1. UKMETGood(h, h, {})
      BY <1>8 DEF UKMETGood
    <2>2. UKMETGood(UKMET!Answer(h, UKMET!ValidateSource(job.place), "timeout"), h, {})
      BY <1>8, AnswerGood
    <2>3. UKMETGood(UKMET!Validate(h, job.place), h, {})
      BY <1>8, ValidateGood
    <2> QED
      BY <1>2, <2>1, <2>2, <2>3
  <1> QED
    BY <1>8, <1>9 DEF f, UKMETGood

-----------------------------------------------------------------------------
(* BBC Weather: answers about a place *)

At(i, p) == {s \in DOMAIN i.held : s.place = p}

\* A job of the place p ends, and p has the jobs that its flags wait for.
AnswersFor(f, i, job, p) ==
    /\ Same(f, i, {"weather", "jobs", "retries"}) /\ OtherWeather(f, i, p)
    /\ \A other \in DOMAIN i.jobs \ {job} : other \in DOMAIN f.jobs
    /\ \A other \in DOMAIN f.jobs : other \in DOMAIN i.jobs \/ other.place = p

LEMMA AnswersGood ==
  ASSUME NEW i, UKMETSound(i), NEW p \in Places,
         NEW job \in DOMAIN i.jobs, job.slot # "search", job.place = p,
         NEW f, UKMETShape(f), AnswersFor(f, i, job, p), PendsAt(f, p)
  PROVE  /\ UKMETSound(f)
         /\ Pending(f.weather[p]) \/ f.weather[p] = i.weather[p] => UKMETGood(f, i, {})
         /\ \A ids : UKMETCurrent(i, ids, {})
                       => f.place[p].station = ids[p] /\ UKMETCurrent(f, ids, At(f, p))
  <1>1. UKMETShape(i) /\ UKMETPends(i) /\ UsedFit(i) /\ i.initialized = TRUE
    BY Zenon DEF UKMETSound
  <1>2. /\ f.held = i.held /\ f.place = i.place /\ f.locations = i.locations
        /\ f.used = i.used /\ f.initialized = i.initialized
    BY <1>1, Zenon DEF AnswersFor, Same, UKMETShape, UKMETFields, BasicFields
  <1>3. UKMETSound(f)
    <2>1. \A other \in DOMAIN i.jobs : other.place # p => other \in DOMAIN f.jobs
      BY DEF AnswersFor
    <2>2. UKMETPends(f)
      BY <1>1, <2>1, PendsOfOne DEF AnswersFor
    <2> QED
      BY <1>1, <1>2, <2>2, Zenon DEF UKMETSound, UsedFit
  <1>4. ASSUME NEW ids, UKMETCurrent(i, ids, {}), NEW but,
               \A s \in DOMAIN f.held \ but : s.place # p \/ Pending(f.weather[p]) \/ f.weather[p] = i.weather[p]
        PROVE  f.place[p].station = ids[p] /\ UKMETCurrent(f, ids, but)
    <2>1. IdsStay(f, i, ids)
      BY <1>2 DEF IdsStay
    <2>2. f.place[p].station = ids[p]
      BY <1>2, <1>4 DEF UKMETCurrent, JobsFit
    <2>3. ASSUME NEW s \in DOMAIN f.held \ but PROVE HeldFits(f, ids, s)
      <3>1. HeldFits(i, ids, s) /\ f.held[s] = i.held[s]
        BY <1>2, <1>4 DEF UKMETCurrent
      <3>2. s.place \in Places => Pending(f.weather[s.place]) \/ f.weather[s.place] = i.weather[s.place]
        BY <1>4 DEF AnswersFor, OtherWeather
      <3> QED
        BY <2>1, <3>1, <3>2, HeldKept
    <2>4. \A other \in DOMAIN f.jobs : \/ other \in DOMAIN i.jobs \/ other.slot = "search"
                                       \/ f.place[other.place].station = ids[other.place]
      BY <2>2 DEF AnswersFor
    <2>5. f.used \subseteq DOMAIN f.held
      BY <1>2, <1>4 DEF UKMETCurrent
    <2>6. UKMETCurrent(f, ids, but)
      BY <1>1, <1>2, <1>4, <2>1, <2>3, <2>4, <2>5, CurrentKept
    <2> QED
      BY <2>2, <2>6
  <1>5. ASSUME Pending(f.weather[p]) \/ f.weather[p] = i.weather[p] PROVE UKMETGood(f, i, {})
    BY <1>3, <1>4, <1>5 DEF UKMETGood
  <1>6. ASSUME NEW ids, UKMETCurrent(i, ids, {})
        PROVE  f.place[p].station = ids[p] /\ UKMETCurrent(f, ids, At(f, p))
    BY <1>4, <1>6 DEF At
  <1> QED
    BY <1>3, <1>5, <1>6

\* Another job keeps the place waiting.
LEMMA OtherJobStays ==
  ASSUME NEW i, NEW job, NEW f, \A other \in DOMAIN i.jobs \ {job} : other \in DOMAIN f.jobs,
         NEW p, NEW slots, job.slot \notin slots, HasJob(i, p, slots)
  PROVE  HasJob(f, p, slots)
  BY DEF HasJob

LEMMA RetryGood ==
  ASSUME NEW i0, UKMETSound(i0), NEW job \in DOMAIN i0.jobs, NEW slot,
         \/ job.slot = "observation" /\ slot = "retryObservation"
         \/ job.slot = "forecast" /\ slot = "retryForecast"
  PROVE  UKMETGood(UKMET!Retry(UKMET!EndJob(i0, job), slot, job), i0, {})
  <1> DEFINE p == job.place
             e == EndJob(i0, job)
             new == Job(slot, p, NoStation)
             g == [e EXCEPT !.retries = @ + 1]
             f == StartJob(g, new)
  <1>1. UKMET!Retry(UKMET!EndJob(i0, job), slot, job) = f
    <2>1. UKMET!EndJob(i0, job) = e
      BY Copies
    <2>2. UKMET!Job(slot, p, NoStation) = new
      BY Copies
    <2>3. UKMET!StartJob(g, new) = f
      BY Copies
    <2> QED
      BY <2>1, <2>2, <2>3, Zenon DEF UKMET!Retry
  <1>2. job.slot # "search" /\ p \in Places /\ DOMAIN i0 = UKMETFields
    <2>1. UKMETJobs(i0.jobs) /\ DOMAIN i0 = UKMETFields
      BY Zenon DEF UKMETSound, UKMETShape
    <2> QED
      BY <2>1 DEF UKMETJobs
  <1>3. new.slot = slot /\ new.place = p /\ new.slot \in UKMET!Slots
    BY DEF Job, UKMET!Slots
  <1> HIDE DEF new
  <1>4. /\ UKMETShape(e) /\ Same(e, i0, {"jobs"}) /\ DOMAIN e.jobs \subseteq DOMAIN i0.jobs
        /\ \A other \in DOMAIN i0.jobs \ {job} : other \in DOMAIN e.jobs
    BY EndEffect
  <1> HIDE DEF e
  <1>5. DOMAIN e = UKMETFields
    BY <1>4 DEF UKMETShape
  <1>6. Same(g, e, {"retries"})
    BY <1>5 DEF Same, UKMETFields
  <1> HIDE DEF g
  <1>7. {"retries"} \in SUBSET (UKMETFields \ {"jobs", "place", "weather"})
    BY DEF UKMETFields
  <1>8. UKMETShape(g) /\ g.jobs = e.jobs /\ g.weather = e.weather
    BY <1>4, <1>6, <1>7, OthersShaped
  <1>9. UKMETShape(f) /\ Same(f, g, {"jobs"}) /\ DOMAIN f.jobs = DOMAIN g.jobs \union {new}
    BY <1>2, <1>3, <1>8, StartShaped
  <1> HIDE DEF f
  <1>10. f.weather = i0.weather /\ Same(f, i0, {"weather", "jobs", "retries"})
    BY <1>2, <1>4, <1>5, <1>6, <1>9, Zenon DEF Same, UKMETFields, BasicFields
  <1>11. AnswersFor(f, i0, job, p)
    BY <1>3, <1>4, <1>8, <1>9, <1>10 DEF AnswersFor, OtherWeather
  <1>12. PendsAt(f, p)
    <2>1. PendsAt(i0, p)
      BY <1>2, Zenon DEF UKMETSound, UKMETPends
    <2>2. HasJob(f, p, {slot})
      BY <1>3, <1>9 DEF HasJob
    <2>3. \A slots : slot \in slots => HasJob(f, p, slots)
      BY <2>2 DEF HasJob
    <2>4. \A slots : job.slot \notin slots /\ HasJob(i0, p, slots) => HasJob(f, p, slots)
      BY <1>11, OtherJobStays DEF AnswersFor
    <2>5. CASE slot = "retryObservation"
      <3>1. /\ HasJob(f, p, {"observation", "retryObservation"})
            /\ HasJob(i0, p, {"forecast", "retryForecast"}) => HasJob(f, p, {"forecast", "retryForecast"})
        BY <2>3, <2>4, <2>5
      <3> QED
        BY <1>10, <2>1, <3>1, Zenon DEF PendsAt
    <2>6. CASE slot = "retryForecast"
      <3>1. /\ HasJob(f, p, {"forecast", "retryForecast"})
            /\ HasJob(i0, p, {"observation", "retryObservation"})
                 => HasJob(f, p, {"observation", "retryObservation"})
        BY <2>3, <2>4, <2>6
      <3> QED
        BY <1>10, <2>1, <3>1, Zenon DEF PendsAt
    <2> QED
      BY <2>5, <2>6
  <1> HIDE DEF p
  <1>13. UKMETGood(f, i0, {})
    BY <1>2, <1>9, <1>10, <1>11, <1>12, AnswersGood DEF p
  <1> QED
    BY <1>1, <1>13

\* The jobs that a place waits for when another of its jobs ends
LEMMA ObservationAskedGood ==
  ASSUME NEW i0, UKMETSound(i0), NEW job \in DOMAIN i0.jobs, job.slot = "retryObservation"
  PROVE  UKMETGood(UKMET!RetryObservation(i0, job), i0, {})
  <1> DEFINE p == job.place
             e == EndJob(i0, job)
             f == UKMET!GetObservation(e, p)
  <1>1. UKMET!RetryObservation(i0, job) = f
    <2>1. UKMET!EndJob(i0, job) = e
      BY Copies
    <2> QED
      BY <2>1, Zenon DEF UKMET!RetryObservation
  <1>2. job.slot # "search" /\ p \in Places /\ DOMAIN i0 = UKMETFields
    <2>1. UKMETJobs(i0.jobs) /\ DOMAIN i0 = UKMETFields
      BY Zenon DEF UKMETSound, UKMETShape
    <2> QED
      BY <2>1 DEF UKMETJobs
  <1>3. /\ UKMETShape(e) /\ Same(e, i0, {"jobs"}) /\ DOMAIN e.jobs \subseteq DOMAIN i0.jobs
        /\ \A other \in DOMAIN i0.jobs \ {job} : other \in DOMAIN e.jobs
    BY EndEffect
  <1> HIDE DEF e
  <1>4. /\ UKMETShape(f) /\ Same(f, e, {"weather", "jobs"}) /\ OtherWeather(f, e, p)
        /\ Flagged(f.weather[p], TRUE, e.weather[p].forecastsPending)
        /\ \E new : new.slot = "observation" /\ new.place = p /\ DOMAIN f.jobs = DOMAIN e.jobs \union {new}
    BY <1>2, <1>3, GetObservationEffect
  <1> HIDE DEF f
  <1>5. e.weather = i0.weather /\ Same(f, i0, {"weather", "jobs", "retries"})
    BY <1>2, <1>3, <1>4, Zenon DEF Same, UKMETFields, BasicFields
  <1>6. AnswersFor(f, i0, job, p)
    BY <1>3, <1>4, <1>5 DEF AnswersFor, OtherWeather
  <1>7. PendsAt(f, p)
    <2>1. PendsAt(i0, p)
      BY <1>2, Zenon DEF UKMETSound, UKMETPends
    <2>2. HasJob(f, p, {"observation", "retryObservation"})
      BY <1>4 DEF HasJob
    <2>3. HasJob(i0, p, {"forecast", "retryForecast"}) => HasJob(f, p, {"forecast", "retryForecast"})
      BY <1>6, OtherJobStays DEF AnswersFor
    <2> QED
      BY <1>4, <1>5, <2>1, <2>2, <2>3, Zenon DEF PendsAt, Flagged
  <1>8. Pending(f.weather[p])
    BY <1>4 DEF Pending, Flagged
  <1> HIDE DEF p
  <1>9. UKMETGood(f, i0, {})
    BY <1>2, <1>4, <1>6, <1>7, <1>8, AnswersGood DEF p
  <1> QED
    BY <1>1, <1>9

LEMMA ForecastAskedGood ==
  ASSUME NEW i0, UKMETSound(i0), NEW job \in DOMAIN i0.jobs, job.slot = "retryForecast"
  PROVE  UKMETGood(UKMET!RetryForecast(i0, job), i0, {})
  <1> DEFINE p == job.place
             e == EndJob(i0, job)
             f == UKMET!GetForecast(e, p)
  <1>1. UKMET!RetryForecast(i0, job) = f
    <2>1. UKMET!EndJob(i0, job) = e
      BY Copies
    <2> QED
      BY <2>1, Zenon DEF UKMET!RetryForecast
  <1>2. job.slot # "search" /\ p \in Places /\ DOMAIN i0 = UKMETFields
    <2>1. UKMETJobs(i0.jobs) /\ DOMAIN i0 = UKMETFields
      BY Zenon DEF UKMETSound, UKMETShape
    <2> QED
      BY <2>1 DEF UKMETJobs
  <1>3. /\ UKMETShape(e) /\ Same(e, i0, {"jobs"}) /\ DOMAIN e.jobs \subseteq DOMAIN i0.jobs
        /\ \A other \in DOMAIN i0.jobs \ {job} : other \in DOMAIN e.jobs
    BY EndEffect
  <1> HIDE DEF e
  <1>4. /\ UKMETShape(f) /\ Same(f, e, {"weather", "jobs"}) /\ OtherWeather(f, e, p)
        /\ Flagged(f.weather[p], e.weather[p].observationPending, TRUE)
        /\ \E new : new.slot = "forecast" /\ new.place = p /\ DOMAIN f.jobs = DOMAIN e.jobs \union {new}
    BY <1>2, <1>3, GetForecastEffect
  <1> HIDE DEF f
  <1>5. e.weather = i0.weather /\ Same(f, i0, {"weather", "jobs", "retries"})
    BY <1>2, <1>3, <1>4, Zenon DEF Same, UKMETFields, BasicFields
  <1>6. AnswersFor(f, i0, job, p)
    BY <1>3, <1>4, <1>5 DEF AnswersFor, OtherWeather
  <1>7. PendsAt(f, p)
    <2>1. PendsAt(i0, p)
      BY <1>2, Zenon DEF UKMETSound, UKMETPends
    <2>2. HasJob(f, p, {"forecast", "retryForecast"})
      BY <1>4 DEF HasJob
    <2>3. HasJob(i0, p, {"observation", "retryObservation"}) => HasJob(f, p, {"observation", "retryObservation"})
      BY <1>6, OtherJobStays DEF AnswersFor
    <2> QED
      BY <1>4, <1>5, <2>1, <2>2, <2>3, Zenon DEF PendsAt, Flagged
  <1>8. Pending(f.weather[p])
    BY <1>4 DEF Pending, Flagged
  <1> HIDE DEF p
  <1>9. UKMETGood(f, i0, {})
    BY <1>2, <1>4, <1>6, <1>7, <1>8, AnswersGood DEF p
  <1> QED
    BY <1>1, <1>9

\* An answer is read into the weather of its place, and nothing but it and
\* the count of the retries changes.
IsRead(g, e, p, w) ==
    /\ UKMETShape(g) /\ Same(g, e, {"weather", "retries"}) /\ OtherWeather(g, e, p)
    /\ g.weather[p] = w /\ g.jobs = e.jobs

LEMMA ReadEffect ==
  ASSUME NEW e, UKMETShape(e), NEW p \in Places, NEW w, AWeather(w)
  PROVE  IsRead([e EXCEPT !.retries = 0, !.weather[p] = w], e, p, w)
  <1> DEFINE h == [e EXCEPT !.retries = 0]
             g == [h EXCEPT !.weather[p] = w]
  <1>1. DOMAIN e = UKMETFields /\ DOMAIN e.weather = Places
    BY DEF UKMETShape
  <1>2. [e EXCEPT !.retries = 0, !.weather[p] = w] = g
    BY <1>1 DEF UKMETFields, BasicFields
  <1>3. Same(h, e, {"retries"})
    BY <1>1 DEF Same, UKMETFields
  <1> HIDE DEF h
  <1>4. {"retries"} \in SUBSET (UKMETFields \ {"jobs", "place", "weather"})
    BY DEF UKMETFields
  <1>5. UKMETShape(h) /\ h.jobs = e.jobs /\ h.weather = e.weather
    BY <1>3, <1>4, OthersShaped
  <1>6. UKMETShape(g) /\ Same(g, h, {"weather"}) /\ OtherWeather(g, h, p) /\ g.weather[p] = w
    BY <1>5, PutWeather
  <1> HIDE DEF g
  <1>7. Same(g, e, {"weather", "retries"}) /\ g.jobs = e.jobs
    BY <1>1, <1>3, <1>6, Zenon DEF Same, UKMETFields, BasicFields
  <1>8. OtherWeather(g, e, p)
    BY <1>5, <1>6 DEF OtherWeather
  <1> QED
    BY <1>2, <1>6, <1>7, <1>8 DEF IsRead

LEMMA ObservationRead ==
  ASSUME NEW v, AWeather(v), NEW st, NEW reply
  PROVE  LET read == IF reply.what # "report" THEN v ELSE UKMET!ReadObservationData(v, st, reply)
             w == [read EXCEPT !.observationPending = FALSE]
         IN  AWeather(w) /\ Flagged(w, FALSE, v.forecastsPending)
  <1> DEFINE read == IF reply.what # "report" THEN v ELSE UKMET!ReadObservationData(v, st, reply)
             w == [read EXCEPT !.observationPending = FALSE]
  <1>1. DOMAIN v = UKMETWeather /\ v.forecastsPending \in BOOLEAN
    BY Zenon DEF AWeather
  <1>2. DOMAIN read = UKMETWeather /\ read.forecastsPending = v.forecastsPending
    BY <1>1 DEF UKMET!ReadObservationData, UKMETWeather
  <1> HIDE DEF read
  <1>3. Flagged(w, FALSE, v.forecastsPending)
    BY <1>2 DEF Flagged, UKMETWeather
  <1> HIDE DEF w
  <1>4. AWeather(w)
    BY <1>1, <1>3, Zenon DEF Flagged, AWeather
  <1> QED
    BY <1>3, <1>4 DEF w, read

LEMMA ForecastRead ==
  ASSUME NEW v, AWeather(v), NEW st, NEW reply
  PROVE  LET read == IF reply.what # "report" THEN v ELSE UKMET!ReadForecast(v, st, reply)
             w == [read EXCEPT !.forecastsPending = FALSE]
         IN  AWeather(w) /\ Flagged(w, v.observationPending, FALSE)
  <1> DEFINE read == IF reply.what # "report" THEN v ELSE UKMET!ReadForecast(v, st, reply)
             w == [read EXCEPT !.forecastsPending = FALSE]
  <1>1. DOMAIN v = UKMETWeather /\ v.observationPending \in BOOLEAN
    BY Zenon DEF AWeather
  <1>2. DOMAIN read = UKMETWeather /\ read.observationPending = v.observationPending
    BY <1>1 DEF UKMET!ReadForecast, UKMETWeather
  <1> HIDE DEF read
  <1>3. Flagged(w, v.observationPending, FALSE)
    BY <1>2 DEF Flagged, UKMETWeather
  <1> HIDE DEF w
  <1>4. AWeather(w)
    BY <1>1, <1>3, Zenon DEF Flagged, AWeather
  <1> QED
    BY <1>3, <1>4 DEF w, read

LEMMA ObservationFinishedGood ==
  ASSUME NEW i0, UKMETSound(i0), NEW job \in DOMAIN i0.jobs, job.slot = "observation", NEW reply
  PROVE  UKMETGood(UKMET!ObservationFinished(i0, job, reply), i0, {})
  <1> DEFINE p == job.place
             e == UKMET!EndJob(i0, job)
             read == IF reply.what # "report" THEN e.weather[p]
                     ELSE UKMET!ReadObservationData(e.weather[p], job.station, reply)
             w == [read EXCEPT !.observationPending = FALSE]
             g == [e EXCEPT !.retries = 0, !.weather[p] = w]
             f == UKMET!GetForecast(g, p)
             retry == UKMET!Retry(e, "retryObservation", job)
  <1>1. UKMET!ObservationFinished(i0, job, reply) = IF UKMET!MayRetry(e, reply) THEN retry ELSE f
    BY Zenon DEF UKMET!ObservationFinished
  <1>2. UKMETGood(retry, i0, {})
    BY RetryGood
  <1> HIDE DEF retry
  <1>3. job.slot # "search" /\ p \in Places /\ DOMAIN i0 = UKMETFields
    <2>1. UKMETJobs(i0.jobs) /\ DOMAIN i0 = UKMETFields
      BY Zenon DEF UKMETSound, UKMETShape
    <2> QED
      BY <2>1 DEF UKMETJobs
  <1>4. /\ UKMETShape(e) /\ Same(e, i0, {"jobs"}) /\ DOMAIN e.jobs \subseteq DOMAIN i0.jobs
        /\ \A other \in DOMAIN i0.jobs \ {job} : other \in DOMAIN e.jobs
    <2>1. e = EndJob(i0, job)
      BY Copies
    <2> HIDE DEF e
    <2> QED
      BY <2>1, EndEffect
  <1> HIDE DEF e
  <1>5. AWeather(w) /\ Flagged(w, FALSE, e.weather[p].forecastsPending)
    <2>1. AWeather(e.weather[p])
      BY <1>3, <1>4, Zenon DEF UKMETShape
    <2> HIDE DEF p
    <2> QED
      BY <2>1, ObservationRead
  <1> HIDE DEF w
  <1>6. /\ UKMETShape(g) /\ Same(g, e, {"weather", "retries"}) /\ OtherWeather(g, e, p)
        /\ g.weather[p] = w /\ g.jobs = e.jobs
    <2> HIDE DEF p
    <2>1. p \in Places /\ UKMETShape(e) /\ AWeather(w)
      BY <1>3, <1>4, <1>5
    <2>2. IsRead(g, e, p, w)
      BY <2>1, ReadEffect, Zenon
    <2> QED
      BY <2>2 DEF IsRead
  <1> HIDE DEF g
  <1>7. /\ UKMETShape(f) /\ Same(f, g, {"weather", "jobs"}) /\ OtherWeather(f, g, p)
        /\ Flagged(f.weather[p], g.weather[p].observationPending, TRUE)
        /\ \E new : new.slot = "forecast" /\ new.place = p /\ DOMAIN f.jobs = DOMAIN g.jobs \union {new}
    BY <1>3, <1>6, GetForecastEffect
  <1> HIDE DEF f
  <1>8. e.weather = i0.weather /\ Same(f, i0, {"weather", "jobs", "retries"})
    BY <1>3, <1>4, <1>6, <1>7, Zenon DEF Same, UKMETFields, BasicFields
  <1>9. AnswersFor(f, i0, job, p)
    BY <1>4, <1>6, <1>7, <1>8 DEF AnswersFor, OtherWeather
  <1>10. PendsAt(f, p)
    <2>1. HasJob(f, p, {"forecast", "retryForecast"})
      BY <1>7 DEF HasJob
    <2>2. f.weather[p].observationPending = FALSE
      BY <1>5, <1>6, <1>7 DEF Flagged
    <2> QED
      BY <2>1, <2>2, Zenon DEF PendsAt
  <1>11. Pending(f.weather[p])
    BY <1>7 DEF Pending, Flagged
  <1> HIDE DEF p
  <1>12. UKMETGood(f, i0, {})
    BY <1>3, <1>7, <1>9, <1>10, <1>11, AnswersGood DEF p
  <1> QED
    BY <1>1, <1>2, <1>12

\* The report of a place that waits for nothing goes to its source.
ToReport(g, ids, p) ==
    /\ UKMETCurrent(g, ids, At(g, p)) /\ g.place[p].station = ids[p]
    /\ \A s \in At(g, p) : SourceFits(s, ids)

LEMMA UpdateWeatherGood ==
  ASSUME NEW g, UKMETSound(g), NEW p \in Places
  PROVE  LET f == UKMET!UpdateWeather(g, p)
         IN  UKMETSound(f) /\ \A ids : ToReport(g, ids, p) => UKMETCurrent(f, ids, {})
  <1> DEFINE s == WeatherSource(p, g.place[p].station)
             r == UKMET!Report(g.place[p], g.weather[p])
             c == CleanUpData(g, s)
             d == SetData(c, s, r)
             f == UKMET!UpdateWeather(g, p)
  <1>1. f = IF g.weather[p].forecastsPending \/ g.weather[p].observationPending THEN g ELSE ServeReset(d, s)
    <2>1. UKMET!WeatherSource(p, g.place[p].station) = s
      BY Copies
    <2>2. UKMET!CleanUpData(g, s) = c
      BY Copies
    <2>3. UKMET!SetData(c, s, r) = d
      BY Copies
    <2>4. UKMET!ServeReset(d, s) = ServeReset(d, s)
      BY Copies
    <2> HIDE DEF d, c, r, s
    <2> QED
      BY <2>1, <2>2, <2>3, <2>4, Zenon DEF UKMET!UpdateWeather, r, s
  <1>2. /\ DOMAIN g = UKMETFields /\ BasicFields \subseteq DOMAIN g /\ UsedFit(g)
        /\ AWeather(g.weather[p])
    BY Zenon DEF UKMETSound, UKMETShape, UKMETFields
  <1>3. s.place = p /\ s.station = g.place[p].station
    BY DEF WeatherSource
  <1> HIDE DEF f
  <1>4. CASE g.weather[p].forecastsPending \/ g.weather[p].observationPending
    <2>1. f = g
      BY <1>1, <1>4, Zenon
    <2>2. Pending(g.weather[p])
      BY <1>2, <1>4, Zenon DEF Pending, AWeather
    <2>3. ASSUME NEW ids, UKMETCurrent(g, ids, At(g, p)), g.place[p].station = ids[p],
                 \A x \in At(g, p) : SourceFits(x, ids)
          PROVE  UKMETCurrent(g, ids, {})
      <3>1. ASSUME NEW x \in At(g, p) PROVE HeldFits(g, ids, x)
        <4>1. x.place = p
          BY DEF At
        <4>2. x.action = "weather" => x = WeatherSource(p, ids[p])
          BY <2>3, <4>1 DEF SourceFits
        <4> QED
          BY <2>2, <2>3, <4>1, <4>2, Zenon DEF HeldFits
      <3> QED
        BY <2>3, <3>1 DEF UKMETCurrent
    <2> QED
      BY <2>1, <2>3 DEF f, ToReport
  <1>5. CASE ~(g.weather[p].forecastsPending \/ g.weather[p].observationPending)
    <2>1. f = ServeReset(d, s)
      BY <1>1, <1>5, Zenon
    <2>2. /\ Same(c, g, {"held", "shown", "dirty"}) /\ DOMAIN c.held = DOMAIN g.held
          /\ s \in DOMAIN g.held => c.held[s] = Nothing
          /\ \A x \in DOMAIN g.held \ {s} : c.held[x] = g.held[x]
      BY <1>2, CleanUpDataEffect
    <2> HIDE DEF c, r, s
    <2>3. BasicFields \subseteq DOMAIN c
      BY <1>2, <2>2 DEF Same
    <2>4. /\ Same(d, c, {"held", "dirty"}) /\ DOMAIN d.held = DOMAIN c.held \union {s}
          /\ s \notin DOMAIN c.held \/ c.held[s] = Nothing => d.held[s] = r
          /\ \A x \in DOMAIN c.held \ {s} : d.held[x] = c.held[x]
      BY <2>3, SetDataEffect
    <2> HIDE DEF d
    <2>5. BasicFields \subseteq DOMAIN d
      BY <2>3, <2>4 DEF Same
    <2>6. Same(f, d, {"shown", "dirty", "toReset"})
      BY <2>1, <2>5, ServeResetEffect
    <2>7. f.held = d.held
      BY <2>5, <2>6 DEF Same, BasicFields
    <2>8. /\ DOMAIN f.held = DOMAIN g.held \union {s} /\ f.held[s] = r
          /\ \A x \in DOMAIN g.held \ {s} : f.held[x] = g.held[x]
      BY <2>2, <2>4, <2>7
    <2>9. /\ Same(f, g, {"usage", "used", "shown", "held", "dirty", "toReset"}) /\ f.used = g.used
          /\ f.place = g.place /\ f.weather = g.weather
      BY <1>2, <2>2, <2>4, <2>6, Zenon DEF Same, UKMETFields, BasicFields
    <2> DEFINE but == At(g, p) \union {s}
    <2>10. \A x \in DOMAIN f.held \ but : x \in DOMAIN g.held /\ f.held[x] = g.held[x]
      BY <2>8
    <2>11. UsedFit(f)
      BY <1>2, <2>9 DEF UsedFit
    <2>12. /\ UKMETSound(f)
           /\ \A ids : UKMETCurrent(g, ids, but) /\ f.used \subseteq DOMAIN f.held => UKMETCurrent(f, ids, but)
      BY <2>9, <2>10, <2>11, UsersGood
    <2>13. ASSUME NEW ids, UKMETCurrent(g, ids, At(g, p)), g.place[p].station = ids[p],
                  \A x \in At(g, p) : SourceFits(x, ids)
           PROVE  UKMETCurrent(f, ids, {})
      <3>1. UKMETCurrent(g, ids, but)
        BY <2>13, CurrentWeaker
      <3>2. f.used \subseteq DOMAIN f.held
        BY <2>8, <2>9, <2>13 DEF UKMETCurrent
      <3>3. UKMETCurrent(f, ids, but)
        BY <2>12, <3>1, <3>2
      <3>4. s = WeatherSource(p, ids[p])
        BY <2>13 DEF s
      <3>5. HeldFits(f, ids, s)
        <4>1. f.held[s] \in {Nothing, UKMET!Report(f.place[p], f.weather[p])}
          BY <2>8, <2>9 DEF r
        <4> QED
          BY <1>3, <2>9, <2>13, <3>4, <4>1, Zenon DEF HeldFits
      <3>6. ASSUME NEW x \in At(g, p), x # s PROVE HeldFits(f, ids, x)
        <4>1. x.action # "weather"
          BY <2>13, <3>4, <3>6 DEF SourceFits, At
        <4> QED
          BY <4>1 DEF HeldFits
      <3> QED
        BY <3>3, <3>5, <3>6 DEF UKMETCurrent
    <2> QED
      BY <2>12, <2>13 DEF f, ToReport
  <1> QED
    BY <1>4, <1>5

LEMMA ForecastFinishedGood ==
  ASSUME NEW i0, UKMETSound(i0), NEW job \in DOMAIN i0.jobs, job.slot = "forecast", NEW reply
  PROVE  UKMETGood(UKMET!ForecastFinished(i0, job, reply), i0, {})
  <1> DEFINE p == job.place
             e == UKMET!EndJob(i0, job)
             read == IF reply.what # "report" THEN e.weather[p]
                     ELSE UKMET!ReadForecast(e.weather[p], job.station, reply)
             w == [read EXCEPT !.forecastsPending = FALSE]
             g == [e EXCEPT !.retries = 0, !.weather[p] = w]
             f == UKMET!UpdateWeather(g, p)
             retry == UKMET!Retry(e, "retryForecast", job)
  <1>1. UKMET!ForecastFinished(i0, job, reply) = IF UKMET!MayRetry(e, reply) THEN retry ELSE f
    BY Zenon DEF UKMET!ForecastFinished
  <1>2. UKMETGood(retry, i0, {})
    BY RetryGood
  <1> HIDE DEF retry, f
  <1>3. job.slot # "search" /\ p \in Places /\ DOMAIN i0 = UKMETFields
    <2>1. UKMETJobs(i0.jobs) /\ DOMAIN i0 = UKMETFields
      BY Zenon DEF UKMETSound, UKMETShape
    <2> QED
      BY <2>1 DEF UKMETJobs
  <1>4. /\ UKMETShape(e) /\ Same(e, i0, {"jobs"}) /\ DOMAIN e.jobs \subseteq DOMAIN i0.jobs
        /\ \A other \in DOMAIN i0.jobs \ {job} : other \in DOMAIN e.jobs
    <2>1. e = EndJob(i0, job)
      BY Copies
    <2> HIDE DEF e
    <2> QED
      BY <2>1, EndEffect
  <1> HIDE DEF e
  <1>5. AWeather(w) /\ Flagged(w, e.weather[p].observationPending, FALSE)
    <2>1. AWeather(e.weather[p])
      BY <1>3, <1>4, Zenon DEF UKMETShape
    <2> HIDE DEF p
    <2> QED
      BY <2>1, ForecastRead
  <1> HIDE DEF w
  <1>6. /\ UKMETShape(g) /\ Same(g, e, {"weather", "retries"}) /\ OtherWeather(g, e, p)
        /\ g.weather[p] = w /\ g.jobs = e.jobs
    <2> HIDE DEF p
    <2>1. p \in Places /\ UKMETShape(e) /\ AWeather(w)
      BY <1>3, <1>4, <1>5
    <2>2. IsRead(g, e, p, w)
      BY <2>1, ReadEffect, Zenon
    <2> QED
      BY <2>2 DEF IsRead
  <1> HIDE DEF g
  <1>7. e.weather = i0.weather /\ Same(g, i0, {"weather", "jobs", "retries"}) /\ g.held = i0.held
    BY <1>3, <1>4, <1>6, Zenon DEF Same, UKMETFields, BasicFields
  <1>8. AnswersFor(g, i0, job, p)
    BY <1>4, <1>6, <1>7 DEF AnswersFor, OtherWeather
  <1>9. PendsAt(g, p)
    <2>1. PendsAt(i0, p)
      BY <1>3, Zenon DEF UKMETSound, UKMETPends
    <2>2. HasJob(i0, p, {"observation", "retryObservation"}) => HasJob(g, p, {"observation", "retryObservation"})
      BY <1>8, OtherJobStays DEF AnswersFor
    <2>3. g.weather[p].forecastsPending = FALSE /\ g.weather[p].observationPending = i0.weather[p].observationPending
      BY <1>5, <1>6, <1>7, Zenon DEF Flagged
    <2> QED
      BY <2>1, <2>2, <2>3, Zenon DEF PendsAt
  <1> HIDE DEF p
  <1>10. /\ UKMETSound(g)
         /\ \A ids : UKMETCurrent(i0, ids, {})
                       => g.place[p].station = ids[p] /\ UKMETCurrent(g, ids, At(g, p))
    BY <1>3, <1>6, <1>8, <1>9, AnswersGood DEF p
  <1>11. ASSUME NEW ids, UKMETCurrent(i0, ids, {}) PROVE ToReport(g, ids, p)
    <2>1. \A s \in At(g, p) : SourceFits(s, ids)
      BY <1>7, <1>11, HeldIsAsked DEF At
    <2> QED
      BY <1>10, <1>11, <2>1 DEF ToReport
  <1>12. UKMETSound(f) /\ \A ids : ToReport(g, ids, p) => UKMETCurrent(f, ids, {})
    BY <1>3, <1>10, UpdateWeatherGood DEF f
  <1>13. UKMETGood(f, i0, {})
    BY <1>11, <1>12 DEF UKMETGood
  <1> QED
    BY <1>1, <1>2, <1>13

LEMMA SlotGood ==
  ASSUME NEW i, UKMETSound(i), NEW job \in DOMAIN i.jobs, NEW reply \in UKMET!Replies(job)
  PROVE  LET f == UKMET!SlotJobFinished(i, job, reply)
         IN  /\ UKMETSound(f)
             /\ \A ids : UKMETCurrent(i, ids, {}) /\ Distinct(ids)
                         /\ (\A r \in UKMETResults : InTheirOrder(r, ids)) => UKMETCurrent(f, ids, {})
  <1> DEFINE f == UKMET!SlotJobFinished(i, job, reply)
  <1>1. job.slot \in UKMET!Slots
    <2>1. UKMETJobs(i.jobs)
      BY Zenon DEF UKMETSound, UKMETShape
    <2> QED
      BY <2>1 DEF UKMETJobs
  <1>2. CASE job.slot = "search"
    <2>1. f = UKMET!SearchFinished(i, job, reply)
      BY <1>2 DEF UKMET!SlotJobFinished
    <2>2. reply.what = "results" => reply.results \in UKMETResults
      BY <1>2 DEF UKMET!Replies, UKMET!SearchReplies
    <2>3. reply.what = "results" => Len(reply.results) \in Nat /\ DOMAIN reply.results = 1..Len(reply.results)
      BY <2>2, WeatherAssumption
    <2> HIDE DEF f
    <2>4. /\ UKMETSound(f)
          /\ \A ids : UKMETCurrent(i, ids, {}) /\ ReplyInOrder(reply, ids) => UKMETCurrent(f, ids, {})
      BY <1>2, <2>1, <2>3, SearchFinishedGood
    <2>5. \A ids : Distinct(ids) /\ (\A r \in UKMETResults : InTheirOrder(r, ids)) => ReplyInOrder(reply, ids)
      BY <2>2 DEF ReplyInOrder
    <2> QED
      BY <2>4, <2>5 DEF f
  <1>3. CASE job.slot # "search"
    <2>1. UKMETGood(f, i, {})
      <3>1. CASE job.slot = "observation"
        BY <3>1, ObservationFinishedGood DEF UKMET!SlotJobFinished
      <3>2. CASE job.slot = "forecast"
        BY <3>2, ForecastFinishedGood DEF UKMET!SlotJobFinished
      <3>3. CASE job.slot = "retryObservation"
        BY <3>3, ObservationAskedGood DEF UKMET!SlotJobFinished
      <3>4. CASE job.slot = "retryForecast"
        BY <3>4, ForecastAskedGood DEF UKMET!SlotJobFinished
      <3> QED
        BY <1>1, <1>3, <3>1, <3>2, <3>3, <3>4 DEF UKMET!Slots
    <2> HIDE DEF f
    <2> QED
      BY <2>1 DEF f, UKMETGood
  <1> QED
    BY <1>2, <1>3

LEMMA NewUKMETGood ==
  UKMETSound(UKMET!NewIon) /\ \A ids : UKMETCurrent(UKMET!NewIon, ids, {})
  <1> DEFINE basic == UKMET!BasicIon(TRUE)
             own == [place |-> [p \in Places |-> [station |-> NoStation, named |-> FALSE]],
                     weather |-> [p \in Places |-> UKMET!NoWeather],
                     locations |-> {},
                     searches |-> 0,
                     retries |-> 0]
             i == UKMET!NewIon
  <1>1. i = UKMET!++(basic, own)
    BY DEF UKMET!NewIon
  <1>2. i = [k \in DOMAIN basic \union DOMAIN own |-> IF k \in DOMAIN basic THEN basic[k] ELSE own[k]]
    BY <1>1 DEF UKMET!++
  <1>3. /\ DOMAIN basic = BasicFields /\ DOMAIN basic.held = {} /\ basic.used = {}
        /\ basic.initialized = TRUE /\ DOMAIN basic.jobs = {}
    BY DEF UKMET!BasicIon, BasicFields, UKMET!EmptyBag, UKMET!SetToBag
  <1>4. DOMAIN own = {"place", "weather", "locations", "searches", "retries"}
    OBVIOUS
  <1> HIDE DEF basic
  <1>5. DOMAIN i = UKMETFields
    BY <1>2, <1>3, <1>4 DEF UKMETFields
  <1>6. /\ i.held = basic.held /\ i.used = basic.used /\ i.initialized = basic.initialized /\ i.jobs = basic.jobs
    BY <1>2, <1>3 DEF BasicFields
  <1>7. i.place = own.place /\ i.weather = own.weather /\ i.locations = own.locations
    BY <1>2, <1>3, <1>4 DEF BasicFields
  <1> HIDE DEF i
  <1>8. \A p \in Places : Flagged(i.weather[p], FALSE, FALSE)
    BY <1>7 DEF Flagged, UKMET!NoWeather, UKMETWeather
  <1>9. UKMETShape(i)
    <2>1. DOMAIN i.place = Places /\ DOMAIN i.weather = Places
      BY <1>7
    <2>2. \A p \in Places : AWeather(i.weather[p])
      BY <1>8, Zenon DEF Flagged, AWeather
    <2>3. UKMETJobs(i.jobs)
      BY <1>3, <1>6 DEF UKMETJobs, Counted
    <2> QED
      BY <1>5, <2>1, <2>2, <2>3, Zenon DEF UKMETShape
  <1>10. UKMETPends(i)
    BY <1>8, Zenon DEF UKMETPends, PendsAt, Flagged
  <1>11. UsedFit(i) /\ i.initialized = TRUE
    BY <1>3, <1>6, FS_EmptySet DEF UsedFit
  <1>12. UKMETSound(i)
    BY <1>9, <1>10, <1>11, Zenon DEF UKMETSound
  <1>13. i.locations = {}
    BY <1>7
  <1>14. \A ids : UKMETCurrent(i, ids, {})
    BY <1>3, <1>6, <1>13, FS_EmptySet DEF UKMETCurrent, JobsFit, FoundFit
  <1> QED
    BY <1>12, <1>14 DEF i

-----------------------------------------------------------------------------
(* Deutscher Wetterdienst: what is pending has a job *)

LEMMA DWDCopies ==
  ASSUME NEW i, NEW s, NEW d, NEW job, NEW p, NEW st
  PROVE  /\ DWD!SetData(i, s, d) = SetData(i, s, d)
         /\ DWD!Answer(i, s, d) = SetData(i, s, "validate" :> d)
         /\ DWD!ServeReset(i, s) = ServeReset(i, s)
         /\ DWD!StartJob(i, job) = StartJob(i, job)
         /\ DWD!EndJob(i, job) = EndJob(i, job)
         /\ DWD!Job(s, p, st) = Job(s, p, st)
  <1>1. DWD!Nothing = Nothing
    BY DEF DWD!Nothing, Nothing
  <1>2. DWD!SetData(i, s, d) = SetData(i, s, d)
    BY <1>1 DEF DWD!SetData, SetData
  <1>3. DWD!Answer(i, s, d) = SetData(i, s, "validate" :> d)
    BY <1>1 DEF DWD!Answer, DWD!SetData, SetData
  <1>4. DWD!ServeReset(i, s) = ServeReset(i, s)
    BY DEF DWD!ServeReset, ServeReset, DWD!Relay, Relay
  <1>5. DWD!StartJob(i, job) = StartJob(i, job) /\ DWD!EndJob(i, job) = EndJob(i, job)
    BY DEF DWD!StartJob, StartJob, DWD!EndJob, EndJob, DWD!SetToBag, SetToBag,
           DWD!(+), (+), DWD!(-), (-)
  <1>6. DWD!Job(s, p, st) = Job(s, p, st)
    BY DEF DWD!Job, Job
  <1> QED
    BY <1>2, <1>3, <1>4, <1>5, <1>6

DWDFields == BasicFields \union {"place", "weather", "locations"}
DWDWeather == {"measures", "forecasts", "warnings", "forecastsPending", "measurePending"}

DWDPendsAt(i, p) ==
    /\ i.weather[p].measurePending => HasJob(i, p, {"measure"})
    /\ i.weather[p].forecastsPending => HasJob(i, p, {"forecast"})

DWDJobs(jobs) ==
    /\ Counted(jobs)
    /\ \A job \in DOMAIN jobs : job.slot \in DWD!Slots /\ (job.slot # "setup" => job.place \in Places)

DWDWaits(i) == \A p \in Places : DOMAIN i.weather[p] = DWDWeather /\ DWDPendsAt(i, p)

DWDSound(i) ==
    /\ DOMAIN i = DWDFields /\ UsedFit(i)
    /\ DWDJobs(i.jobs)
    /\ DOMAIN i.weather = Places
    /\ DWDWaits(i)

\* What a step may change that starts and ends no job
DWDQuiet == {"held", "dirty", "used", "usage", "shown", "initialized", "toReset", "place", "locations"}

LEMMA DWDQuietGood ==
  ASSUME NEW i, DWDSound(i), NEW f, Same(f, i, DWDQuiet), UsedFit(f)
  PROVE  DWDSound(f)
  <1>1. DOMAIN i = DWDFields
    BY DEF DWDSound
  <1>2. "jobs" \in DWDFields \ DWDQuiet /\ "weather" \in DWDFields \ DWDQuiet
    BY DEF DWDFields, BasicFields, DWDQuiet
  <1>3. DOMAIN f = DWDFields /\ f.jobs = i.jobs /\ f.weather = i.weather
    BY <1>1, <1>2 DEF Same
  <1>4. DWDWaits(f)
    <2>1. \A p, slots : HasJob(i, p, slots) => HasJob(f, p, slots)
      BY <1>3 DEF HasJob
    <2> QED
      BY <1>3, <2>1, Zenon DEF DWDSound, DWDWaits, DWDPendsAt
  <1> QED
    BY <1>3, <1>4, Zenon DEF DWDSound

\* A step that leaves the users too
LEMMA DWDStepGood ==
  ASSUME NEW i, DWDSound(i), NEW f, NEW but, Same(f, i, but), but \subseteq DWDQuiet \ {"used"}
  PROVE  DWDSound(f) /\ f.used = i.used
  <1>1. DOMAIN i = DWDFields /\ UsedFit(i)
    BY DEF DWDSound
  <1>2. f.used = i.used
    BY <1>1 DEF Same, DWDFields, BasicFields
  <1>3. UsedFit(f)
    BY <1>1, <1>2 DEF UsedFit
  <1>4. Same(f, i, DWDQuiet)
    BY DEF Same
  <1> QED
    BY <1>2, <1>3, <1>4, DWDQuietGood

\* More jobs do no harm, and a place with both of its jobs may wait for both.
LEMMA DWDStartGood ==
  ASSUME NEW i, DWDSound(i), NEW job, job.slot \in DWD!Slots, job.slot # "setup" => job.place \in Places
  PROVE  LET f == StartJob(i, job)
         IN  DWDSound(f) /\ Same(f, i, {"jobs"}) /\ DOMAIN f.jobs = DOMAIN i.jobs \union {job}
  <1> DEFINE f == StartJob(i, job)
  <1>1. DOMAIN i = DWDFields /\ UsedFit(i) /\ DWDJobs(i.jobs) /\ DOMAIN i.weather = Places /\ DWDWaits(i)
    BY DEF DWDSound
  <1>2. Same(f, i, {"jobs"}) /\ DOMAIN f.jobs = DOMAIN i.jobs \union {job} /\ Counted(f.jobs)
    BY <1>1, StartJobEffect DEF DWDFields, DWDJobs
  <1> HIDE DEF f
  <1>3. f.weather = i.weather /\ f.used = i.used /\ DOMAIN f = DWDFields
    BY <1>1, <1>2, Zenon DEF Same, DWDFields, BasicFields
  <1>4. DWDJobs(f.jobs)
    BY <1>1, <1>2 DEF DWDJobs
  <1>5. \A p, slots : HasJob(i, p, slots) => HasJob(f, p, slots)
    BY <1>2 DEF HasJob
  <1>6. DWDWaits(f)
    BY <1>1, <1>3, <1>5, Zenon DEF DWDWaits, DWDPendsAt
  <1>7. UsedFit(f)
    BY <1>1, <1>3 DEF UsedFit
  <1>8. DWDSound(f)
    BY <1>1, <1>3, <1>4, <1>6, <1>7 DEF DWDSound
  <1> QED
    BY <1>2, <1>8 DEF f

LEMMA DWDSearchGood ==
  ASSUME NEW i, DWDSound(i), NEW text
  PROVE  LET f == DWD!SearchInStationList(i, text)
         IN  DWDSound(f) /\ f.used = i.used
  <1> DEFINE g == [i EXCEPT !.locations = @ \union (DOMAIN i.place \intersect Matches[text])]
             s == DWD!ValidateSource(text)
             v == IF g.locations = {} THEN "invalid"
                  ELSE IF DWD!Cardinality(g.locations) > 1 THEN "multiple" ELSE "single"
             h == SetData(g, s, "validate" :> v)
             f == [h EXCEPT !.locations = {}]
  <1>1. DWD!SearchInStationList(i, text) = f
    <2>1. DWD!Answer(g, s, v) = h
      BY DWDCopies
    <2> HIDE DEF h
    <2> QED
      BY <2>1, Zenon DEF DWD!SearchInStationList, DWD!Validate
  <1>2. DOMAIN i = DWDFields
    BY DEF DWDSound
  <1>3. Same(g, i, {"locations"})
    BY <1>2 DEF Same, DWDFields
  <1> HIDE DEF g
  <1>4. DWDSound(g) /\ g.used = i.used
    BY <1>3, DWDStepGood DEF DWDQuiet
  <1>5. DOMAIN g = DWDFields /\ BasicFields \subseteq DOMAIN g
    BY <1>4 DEF DWDSound, DWDFields
  <1> HIDE DEF s, v
  <1>6. Same(h, g, {"held", "dirty"})
    BY <1>5, SetDataEffect
  <1> HIDE DEF h
  <1>7. DWDSound(h) /\ h.used = i.used
    BY <1>4, <1>6, DWDStepGood DEF DWDQuiet
  <1>8. Same(f, h, {"locations"})
    <2>1. DOMAIN h = DWDFields
      BY <1>7 DEF DWDSound
    <2> QED
      BY <2>1 DEF Same, DWDFields
  <1> HIDE DEF f
  <1>9. DWDSound(f) /\ f.used = i.used
    BY <1>7, <1>8, DWDStepGood DEF DWDQuiet
  <1> QED
    BY <1>1, <1>9

LEMMA DWDFetchGood ==
  ASSUME NEW i, DWDSound(i), NEW p \in Places, NEW st
  PROVE  LET f == DWD!FetchWeather(i, p, st)
         IN  DWDSound(f) /\ f.used = i.used
  <1> DEFINE g == [i EXCEPT !.weather[p].forecastsPending = TRUE, !.weather[p].measurePending = TRUE]
             forecast == Job("forecast", p, st)
             measure == Job("measure", p, st)
             h == StartJob(g, forecast)
             f == StartJob(h, measure)
  <1>1. DWD!FetchWeather(i, p, st) = f
    <2>1. DWD!Job("forecast", p, st) = forecast /\ DWD!Job("measure", p, st) = measure
      BY DWDCopies
    <2>2. DWD!StartJob(g, forecast) = h
      BY DWDCopies
    <2>3. DWD!StartJob(h, measure) = f
      BY DWDCopies
    <2> HIDE DEF h, f, forecast, measure
    <2> QED
      BY <2>1, <2>2, <2>3, Zenon DEF DWD!FetchWeather
  <1>2. DOMAIN i = DWDFields /\ UsedFit(i) /\ DWDJobs(i.jobs) /\ DOMAIN i.weather = Places /\ DWDWaits(i)
    BY DEF DWDSound
  <1>3. /\ Same(g, i, {"weather"}) /\ OtherWeather(g, i, p) /\ DOMAIN g.weather = Places
        /\ DOMAIN g.weather[p] = DOMAIN i.weather[p]
    BY <1>2 DEF Same, DWDFields, OtherWeather
  <1> HIDE DEF g
  <1>4. DOMAIN g = DWDFields /\ g.jobs = i.jobs /\ g.used = i.used
    BY <1>2, <1>3, Zenon DEF Same, DWDFields, BasicFields
  <1>5. /\ forecast.slot = "forecast" /\ forecast.place = p
        /\ measure.slot = "measure" /\ measure.place = p
    BY DEF Job
  <1> HIDE DEF forecast, measure
  <1>6. Same(h, g, {"jobs"}) /\ DOMAIN h.jobs = DOMAIN g.jobs \union {forecast} /\ Counted(h.jobs)
    BY <1>2, <1>4, StartJobEffect DEF DWDFields, DWDJobs
  <1> HIDE DEF h
  <1>7. DOMAIN h = DWDFields
    BY <1>4, <1>6 DEF Same
  <1>8. Same(f, h, {"jobs"}) /\ DOMAIN f.jobs = DOMAIN h.jobs \union {measure} /\ Counted(f.jobs)
    BY <1>6, <1>7, StartJobEffect DEF DWDFields
  <1> HIDE DEF f
  <1>9. f.weather = g.weather /\ f.used = i.used /\ DOMAIN f = DWDFields
    BY <1>4, <1>6, <1>7, <1>8, Zenon DEF Same, DWDFields, BasicFields
  <1>10. DOMAIN f.jobs = DOMAIN i.jobs \union {forecast, measure}
    BY <1>4, <1>6, <1>8
  <1>11. DWDJobs(f.jobs)
    BY <1>2, <1>5, <1>8, <1>10 DEF DWDJobs, DWD!Slots
  <1>12. ASSUME NEW q \in Places PROVE DOMAIN f.weather[q] = DWDWeather /\ DWDPendsAt(f, q)
    <2>1. DOMAIN i.weather[q] = DWDWeather /\ DWDPendsAt(i, q)
      BY <1>2 DEF DWDWaits
    <2>2. CASE q = p
      <3>1. HasJob(f, p, {"measure"}) /\ HasJob(f, p, {"forecast"})
        BY <1>5, <1>10 DEF HasJob
      <3> QED
        BY <1>3, <1>9, <2>1, <2>2, <3>1, Zenon DEF DWDPendsAt
    <2>3. CASE q # p
      <3>1. f.weather[q] = i.weather[q]
        BY <1>3, <1>9, <2>3 DEF OtherWeather
      <3>2. \A slots : HasJob(i, q, slots) => HasJob(f, q, slots)
        BY <1>10 DEF HasJob
      <3> QED
        BY <2>1, <3>1, <3>2, Zenon DEF DWDPendsAt
    <2> QED
      BY <2>2, <2>3
  <1>13. DWDSound(f)
    BY <1>2, <1>3, <1>9, <1>11, <1>12 DEF DWDSound, DWDWaits, UsedFit
  <1> QED
    BY <1>1, <1>9, <1>13

LEMMA DWDUpdateGood ==
  ASSUME NEW i, DWDSound(i), NEW s, AskedFits(s)
  PROVE  LET f == DWD!UpdateIonSource(i, s)
         IN  DWDSound(f) /\ f.used = i.used
  <1>1. s.place \in Places /\ s.action \in {"weather", "validate"}
    BY AskedIsOne, Zenon
  <1>2. DOMAIN i = DWDFields /\ BasicFields \subseteq DOMAIN i
    BY DEF DWDSound, DWDFields
  <1>3. ASSUME NEW x
        PROVE  LET g == DWD!SetData(i, x, DWD!Nothing)
               IN  DWDSound(g) /\ g.used = i.used
    <2> DEFINE g == SetData(i, x, DWD!Nothing)
    <2>1. DWD!SetData(i, x, DWD!Nothing) = g
      BY DWDCopies
    <2>2. Same(g, i, {"held", "dirty"})
      BY <1>2, SetDataEffect
    <2> HIDE DEF g
    <2>3. DWDSound(g) /\ g.used = i.used
      BY <2>2, DWDStepGood DEF DWDQuiet
    <2> QED
      BY <2>1, <2>3
  <1>4. CASE s.action = "weather"
    <2> DEFINE g == DWD!SetData(i, s, DWD!Nothing)
               h == [g EXCEPT !.place = (s.place :> s.station) @@ @]
               f == DWD!FetchWeather(h, s.place, s.station)
    <2>1. DWD!UpdateIonSource(i, s) = f
      BY <1>4 DEF DWD!UpdateIonSource
    <2>2. DWDSound(g) /\ g.used = i.used
      BY <1>3
    <2> HIDE DEF g
    <2>3. Same(h, g, {"place"})
      <3>1. DOMAIN g = DWDFields
        BY <2>2 DEF DWDSound
      <3> QED
        BY <3>1 DEF Same, DWDFields
    <2> HIDE DEF h
    <2>4. DWDSound(h) /\ h.used = i.used
      BY <2>2, <2>3, DWDStepGood DEF DWDQuiet
    <2> QED
      BY <1>1, <2>1, <2>4, DWDFetchGood
  <1>5. CASE s.action = "validate"
    <2>1. DWD!UpdateIonSource(i, s) = DWD!FindPlace(i, s.place)
      BY <1>5 DEF DWD!UpdateIonSource
    <2>2. CASE DWD!StationsLoaded(i)
      <3> DEFINE g == DWD!SetData(i, DWD!ValidateSource(s.place), DWD!Nothing)
      <3>1. DWD!FindPlace(i, s.place) = DWD!SearchInStationList(g, s.place)
        BY <2>2 DEF DWD!FindPlace
      <3>2. DWDSound(g) /\ g.used = i.used
        BY <1>3
      <3> HIDE DEF g
      <3> QED
        BY <2>1, <3>1, <3>2, DWDSearchGood
    <2>3. CASE ~DWD!StationsLoaded(i)
      <3> DEFINE job == Job("setup", s.place, NoStation)
                 f == StartJob(i, job)
      <3>1. DWD!FindPlace(i, s.place) = f
        <4>1. DWD!Job("setup", s.place, NoStation) = job
          BY DWDCopies
        <4>2. DWD!StartJob(i, job) = f
          BY DWDCopies
        <4> QED
          BY <2>3, <4>1, <4>2, Zenon DEF DWD!FindPlace
      <3>2. job.slot = "setup" /\ job.slot \in DWD!Slots
        BY DEF Job, DWD!Slots
      <3> HIDE DEF job
      <3>3. DWDSound(f) /\ Same(f, i, {"jobs"})
        BY <3>2, DWDStartGood
      <3> HIDE DEF f
      <3>4. f.used = i.used
        BY <1>2, <3>3, Zenon DEF Same, DWDFields, BasicFields
      <3> QED
        BY <2>1, <3>1, <3>3, <3>4
    <2> QED
      BY <2>2, <2>3
  <1> QED
    BY <1>1, <1>4, <1>5

LEMMA DWDResets ==
  ASSUME NEW i, IsFiniteSet(i.used), DOMAIN i = DWDFields
  PROVE  LET g == [i EXCEPT !.toReset = DOMAIN i.held]
         IN  \E c \in Nat : \E f, names :
               /\ Repeats(f, "dwd", g, names, c)
               /\ \A n \in 1..c : names[n] \in i.used
               /\ DWD!Reset(i) = f[c]
  <1> DEFINE g == [i EXCEPT !.toReset = DOMAIN i.held]
             names == DWD!SetToSeq(g.used)
             c == DWD!Cardinality(g.used)
             F == CHOOSE f : f = [n \in 0..c |-> IF n = 0 THEN g ELSE DWD!UpdateIonSource(f[n - 1], names[n])]
  <1>1. \A x, e : Again("dwd", x, e) = DWD!UpdateIonSource(x, e)
    BY DEF Again
  <1>2. g.used = i.used
    BY DEF DWDFields, BasicFields
  <1>3. DWD!Cardinality(i.used) = Cardinality(i.used)
    BY DEF DWD!Cardinality, Cardinality
  <1>4. DWD!SetToSeq(i.used) = SetToSeq(i.used)
    BY <1>3 DEF DWD!SetToSeq, SetToSeq, DWD!IsInjective, IsInjective
  <1>5. c \in Nat /\ \A n \in 1..c : names[n] \in i.used
    BY <1>2, <1>3, <1>4, NamesInOrder
  <1>6. CASE ~g.initialized
    <2>1. DWD!Reset(i) = g
      BY <1>6 DEF DWD!Reset, DWD!UpdateAllSources
    <2> DEFINE f == [n \in 0..0 |-> g]
    <2>2. Repeats(f, "dwd", g, names, 0) /\ f[0] = g
      BY DEF Repeats
    <2> QED
      BY <2>1, <2>2
  <1>7. CASE g.initialized
    <2>1. DWD!Reset(i) = F[c]
      BY <1>7 DEF DWD!Reset, DWD!UpdateAllSources
    <2> HIDE DEF c, g, names
    <2>2. PICK f : Recursive(f, "dwd", g, names, c)
      BY <1>5, RepeatedExists
    <2>3. f = [n \in 0..c |-> IF n = 0 THEN g ELSE DWD!UpdateIonSource(f[n - 1], names[n])]
      BY <1>1, <2>2 DEF Recursive
    <2>4. F = [n \in 0..c |-> IF n = 0 THEN g ELSE DWD!UpdateIonSource(F[n - 1], names[n])]
      BY <2>3
    <2> HIDE DEF F
    <2>5. Recursive(F, "dwd", g, names, c)
      BY <1>1, <2>4 DEF Recursive
    <2>6. Repeats(F, "dwd", g, names, c)
      BY <1>5, <2>5, RepeatedFits
    <2> QED
      BY <1>5, <2>1, <2>6 DEF g
  <1> QED
    BY <1>6, <1>7

LEMMA DWDResetGood ==
  ASSUME NEW i, DWDSound(i)
  PROVE  DWDSound(DWD!Reset(i))
  <1> DEFINE g == [i EXCEPT !.toReset = DOMAIN i.held]
  <1>1. DOMAIN i = DWDFields /\ UsedFit(i)
    BY DEF DWDSound
  <1>2. Same(g, i, {"toReset"})
    BY <1>1 DEF Same, DWDFields
  <1>3. PICK c \in Nat : \E f, names :
          /\ Repeats(f, "dwd", g, names, c)
          /\ \A n \in 1..c : names[n] \in i.used
          /\ DWD!Reset(i) = f[c]
    BY <1>1, DWDResets DEF UsedFit
  <1> HIDE DEF g
  <1>4. PICK f, names : /\ Repeats(f, "dwd", g, names, c)
                        /\ \A n \in 1..c : names[n] \in i.used
                        /\ DWD!Reset(i) = f[c]
    BY <1>3
  <1>5. DWDSound(g) /\ g.used = i.used
    BY <1>2, DWDStepGood DEF DWDQuiet
  <1> DEFINE Ok(x) == DWDSound(x) /\ x.used = i.used
             S == {n \in Nat : n <= c => Ok(f[n])}
  <1>6. 0 \in S
    BY <1>4, <1>5 DEF Repeats
  <1>7. ASSUME NEW n \in Nat, n \in S PROVE n + 1 \in S
    <2> SUFFICES ASSUME n + 1 <= c PROVE Ok(f[n + 1])
      OBVIOUS
    <2> DEFINE x == f[n]
               s == names[n + 1]
    <2>1. n + 1 \in 1..c /\ n + 1 - 1 = n /\ n <= c
      OBVIOUS
    <2>2. DWDSound(x) /\ x.used = i.used
      BY <1>7, <2>1
    <2>3. f[n + 1] = Again("dwd", x, s) /\ s \in i.used
      BY <1>4, <2>1 DEF Repeats
    <2>4. f[n + 1] = DWD!UpdateIonSource(x, s)
      BY <2>3 DEF Again
    <2> HIDE DEF x, s
    <2>5. AskedFits(s)
      BY <1>1, <2>3 DEF UsedFit
    <2> QED
      BY <2>2, <2>4, <2>5, DWDUpdateGood
  <1>8. \A n \in Nat : n \in S
    <2> HIDE DEF S
    <2> QED
      BY <1>6, <1>7, Induction
  <1>9. Ok(f[c])
    <2>1. c \in S /\ c <= c
      BY <1>8
    <2> HIDE DEF Ok
    <2> QED
      BY <2>1
  <1> QED
    BY <1>4, <1>9

LEMMA DWDRequestGood ==
  ASSUME NEW i, DWDSound(i), NEW s, AskedFits(s), kind = "dwd"
  PROVE  DWDSound(RequestIonSource(i, s))
  <1> DEFINE f == RequestIonSource(i, s)
             counted == [i EXCEPT !.usage = @ + 1, !.used = @ \union {s},
                                  !.shown = (s :> Nothing) @@ @]
             made == SetData(counted, s, Nothing)
  <1>1. DOMAIN i = DWDFields /\ UsedFit(i)
    BY DEF DWDSound
  <1>2. /\ Same(counted, i, {"usage", "used", "shown"}) /\ counted.used = i.used \union {s}
        /\ DOMAIN counted = DWDFields
    BY <1>1 DEF Same, DWDFields, BasicFields
  <1>3. IsFiniteSet(i.used \union {s}) /\ \A x \in i.used \union {s} : AskedFits(x)
    BY <1>1, FS_AddElement DEF UsedFit
  <1>4. CASE s \in DOMAIN i.held
    <2>1. f = [counted EXCEPT !.shown[s] = i.held[s]]
      BY <1>4 DEF RequestIonSource
    <2> HIDE DEF counted, f
    <2>2. Same(f, i, DWDQuiet) /\ f.used = i.used \union {s}
      BY <1>1, <1>2, <2>1 DEF Same, DWDFields, BasicFields, DWDQuiet
    <2>3. UsedFit(f)
      BY <1>3, <2>2 DEF UsedFit
    <2>4. DWDSound(f)
      BY <2>2, <2>3, DWDQuietGood
    <2> QED
      BY <2>4 DEF f
  <1>5. CASE s \notin DOMAIN i.held
    <2>1. f = IF counted.initialized THEN DWD!UpdateIonSource(made, s) ELSE made
      <3>1. f = IonRequest(counted, s)
        BY <1>5, Zenon DEF RequestIonSource
      <3> HIDE DEF counted, f
      <3>2. f = IF counted.initialized THEN UpdateIonSource(made, s) ELSE made
        BY <3>1, Zenon DEF IonRequest
      <3>3. UpdateIonSource(made, s) = DWD!UpdateIonSource(made, s)
        BY DEF UpdateIonSource
      <3> QED
        BY <3>2, <3>3
    <2> HIDE DEF counted
    <2>2. Same(made, counted, {"held", "dirty"})
      BY <1>2, SetDataEffect DEF DWDFields
    <2> HIDE DEF made, f
    <2>3. Same(made, i, DWDQuiet) /\ made.used = i.used \union {s}
      BY <1>1, <1>2, <2>2 DEF Same, DWDQuiet, DWDFields, BasicFields
    <2>4. UsedFit(made)
      BY <1>3, <2>3 DEF UsedFit
    <2>5. DWDSound(made)
      BY <2>3, <2>4, DWDQuietGood
    <2>6. DWDSound(f)
      BY <2>1, <2>5, DWDUpdateGood
    <2> QED
      BY <2>6 DEF f
  <1> QED
    BY <1>4, <1>5

LEMMA DWDRemoveGood ==
  ASSUME NEW i, DWDSound(i), NEW s
  PROVE  DWDSound(RemoveIonSource(i, s))
  <1> DEFINE f == RemoveIonSource(i, s)
  <1>1. DOMAIN i = DWDFields /\ UsedFit(i)
    BY DEF DWDSound
  <1>2. Same(f, i, DWDQuiet) /\ f.used = i.used \ {s}
    BY <1>1 DEF RemoveIonSource, Same, DWDFields, BasicFields, DWDQuiet
  <1> HIDE DEF f
  <1>3. UsedFit(f)
    BY <1>1, <1>2, FS_RemoveElement DEF UsedFit
  <1>4. DWDSound(f)
    BY <1>2, <1>3, DWDQuietGood
  <1> QED
    BY <1>4 DEF f

LEMMA DWDRelayGood ==
  ASSUME NEW i, DWDSound(i), NEW S
  PROVE  DWDSound(Relay(i, S))
  <1>1. DOMAIN i = DWDFields
    BY DEF DWDSound
  <1>2. Same(Relay(i, S), i, {"shown", "dirty"})
    BY <1>1 DEF Relay, Same, DWDFields, BasicFields
  <1> QED
    BY <1>2, DWDStepGood DEF DWDQuiet

LEMMA DWDEndEffect ==
  ASSUME NEW i, DWDSound(i), NEW job
  PROVE  LET f == DWD!EndJob(i, job)
         IN  /\ Same(f, i, {"jobs"}) /\ DOMAIN f = DWDFields /\ DWDJobs(f.jobs)
             /\ f.weather = i.weather /\ UsedFit(f)
             /\ \A other \in DOMAIN i.jobs \ {job} : other \in DOMAIN f.jobs
  <1> DEFINE f == EndJob(i, job)
  <1>1. DWD!EndJob(i, job) = f
    BY DWDCopies
  <1>2. DOMAIN i = DWDFields /\ UsedFit(i) /\ DWDJobs(i.jobs)
    BY DEF DWDSound
  <1>3. /\ Same(f, i, {"jobs"}) /\ DOMAIN f.jobs \subseteq DOMAIN i.jobs /\ Counted(f.jobs)
        /\ \A other \in DOMAIN i.jobs \ {job} : other \in DOMAIN f.jobs
    BY <1>2, EndJobEffect DEF DWDFields, DWDJobs
  <1> HIDE DEF f
  <1>4. f.weather = i.weather /\ f.used = i.used /\ DOMAIN f = DWDFields
    BY <1>2, <1>3, Zenon DEF Same, DWDFields, BasicFields
  <1>5. DWDJobs(f.jobs)
    BY <1>2, <1>3 DEF DWDJobs
  <1>6. UsedFit(f)
    BY <1>2, <1>4 DEF UsedFit
  <1> QED
    BY <1>1, <1>3, <1>4, <1>5, <1>6

LEMMA SetupFinishedGood ==
  ASSUME NEW i0, DWDSound(i0), NEW job, job.slot = "setup", NEW reply
  PROVE  DWDSound(DWD!SetupFinished(i0, job, reply))
  <1> DEFINE i1 == DWD!EndJob(i0, job)
             s == DWD!ValidateSource(job.place)
             i2 == DWD!SetData(i1, s, DWD!Nothing)
             i3 == DWD!ParseStationData(i2, reply)
  <1>1. /\ Same(i1, i0, {"jobs"}) /\ DOMAIN i1 = DWDFields /\ DWDJobs(i1.jobs)
        /\ i1.weather = i0.weather /\ UsedFit(i1)
        /\ \A other \in DOMAIN i0.jobs \ {job} : other \in DOMAIN i1.jobs
    BY DWDEndEffect
  <1>2. DWD!SetupFinished(i0, job, reply) =
          CASE reply.what = "error" -> i1
            [] reply.what = "empty" -> i2
            [] OTHER -> DWD!SearchInStationList(i3, job.place)
    BY Zenon DEF DWD!SetupFinished
  <1> HIDE DEF i1
  <1>3. DWDSound(i1)
    <2>1. \A p, slots : HasJob(i0, p, slots) /\ "setup" \notin slots => HasJob(i1, p, slots)
      BY <1>1 DEF HasJob
    <2>2. \A p : /\ HasJob(i0, p, {"measure"}) => HasJob(i1, p, {"measure"})
                 /\ HasJob(i0, p, {"forecast"}) => HasJob(i1, p, {"forecast"})
      BY <2>1
    <2>3. DWDWaits(i0)
      BY DEF DWDSound
    <2>4. DWDWaits(i1)
      BY <1>1, <2>2, <2>3, Zenon DEF DWDWaits, DWDPendsAt
    <2> QED
      BY <1>1, <2>4, Zenon DEF DWDSound
  <1>4. Same(i2, i1, {"held", "dirty"})
    <2> HIDE DEF s
    <2>1. i2 = SetData(i1, s, DWD!Nothing)
      BY DWDCopies
    <2> HIDE DEF i2
    <2>2. BasicFields \subseteq DOMAIN i1
      BY <1>1 DEF DWDFields
    <2> QED
      BY <2>1, <2>2, SetDataEffect
  <1> HIDE DEF i2
  <1>5. DWDSound(i2)
    BY <1>3, <1>4, DWDStepGood DEF DWDQuiet
  <1>6. Same(i3, i2, {"place"})
    <2>1. DOMAIN i2 = DWDFields
      BY <1>5 DEF DWDSound
    <2> QED
      BY <2>1 DEF DWD!ParseStationData, Same, DWDFields
  <1> HIDE DEF i3
  <1>7. DWDSound(i3)
    BY <1>5, <1>6, DWDStepGood DEF DWDQuiet
  <1>8. DWDSound(DWD!SearchInStationList(i3, job.place))
    BY <1>7, DWDSearchGood
  <1> QED
    BY <1>2, <1>3, <1>5, <1>8

\* An answer is read, and the place waits for the other one at most.
LEMMA DWDReadGood ==
  ASSUME NEW i0, DWDSound(i0), NEW job \in DOMAIN i0.jobs, NEW w, DOMAIN w = DWDWeather,
         LET v == i0.weather[job.place]
         IN  \/ job.slot = "measure" /\ w.measurePending = FALSE /\ w.forecastsPending = v.forecastsPending
             \/ job.slot = "forecast" /\ w.forecastsPending = FALSE /\ w.measurePending = v.measurePending
  PROVE  LET e == DWD!EndJob(i0, job)
         IN  DWDSound([e EXCEPT !.weather[job.place] = w])
  <1> DEFINE p == job.place
             e == DWD!EndJob(i0, job)
             g == [e EXCEPT !.weather[p] = w]
  <1>1. /\ Same(e, i0, {"jobs"}) /\ DOMAIN e = DWDFields /\ DWDJobs(e.jobs)
        /\ e.weather = i0.weather /\ UsedFit(e)
        /\ \A other \in DOMAIN i0.jobs \ {job} : other \in DOMAIN e.jobs
    BY DWDEndEffect
  <1>2. DWDJobs(i0.jobs) /\ DOMAIN i0.weather = Places /\ DWDWaits(i0)
    BY DEF DWDSound
  <1>3. job.slot \in {"measure", "forecast"}
    OBVIOUS
  <1>4. p \in Places
    BY <1>2, <1>3 DEF DWDJobs
  <1> HIDE DEF e
  <1>5. /\ Same(g, e, {"weather"}) /\ DOMAIN g.weather = Places /\ g.weather[p] = w
        /\ \A q \in Places \ {p} : g.weather[q] = i0.weather[q]
    BY <1>1, <1>2, <1>4 DEF Same, DWDFields
  <1> HIDE DEF g
  <1>6. g.jobs = e.jobs /\ g.used = e.used /\ DOMAIN g = DWDFields
    BY <1>1, <1>5, Zenon DEF Same, DWDFields, BasicFields
  <1>7. \A other \in DOMAIN i0.jobs \ {job} : other \in DOMAIN g.jobs
    BY <1>1, <1>6
  <1>8. ASSUME NEW q \in Places PROVE DOMAIN g.weather[q] = DWDWeather /\ DWDPendsAt(g, q)
    <2>1. DOMAIN i0.weather[q] = DWDWeather /\ DWDPendsAt(i0, q)
      BY <1>2 DEF DWDWaits
    <2>2. CASE q = p
      <3>1. \A slots : job.slot \notin slots /\ HasJob(i0, p, slots) => HasJob(g, p, slots)
        BY <1>7, OtherJobStays
      <3>2. CASE job.slot = "measure"
        <4>1. HasJob(i0, p, {"forecast"}) => HasJob(g, p, {"forecast"})
          BY <3>1, <3>2
        <4>2. w.measurePending = FALSE /\ w.forecastsPending = i0.weather[p].forecastsPending
          BY <3>2
        <4> QED
          BY <1>5, <2>1, <2>2, <4>1, <4>2, Zenon DEF DWDPendsAt
      <3>3. CASE job.slot = "forecast"
        <4>1. HasJob(i0, p, {"measure"}) => HasJob(g, p, {"measure"})
          BY <3>1, <3>3
        <4>2. w.forecastsPending = FALSE /\ w.measurePending = i0.weather[p].measurePending
          BY <3>3
        <4> QED
          BY <1>5, <2>1, <2>2, <4>1, <4>2, Zenon DEF DWDPendsAt
      <3> QED
        BY <1>3, <3>2, <3>3
    <2>3. CASE q # p
      <3>1. \A slots : HasJob(i0, q, slots) => HasJob(g, q, slots)
        BY <1>7, <2>3 DEF HasJob
      <3>2. g.weather[q] = i0.weather[q]
        BY <1>5, <2>3
      <3> QED
        BY <2>1, <3>1, <3>2, Zenon DEF DWDPendsAt
    <2> QED
      BY <2>2, <2>3
  <1>9. DWDSound(g)
    BY <1>1, <1>5, <1>6, <1>8 DEF DWDSound, DWDWaits, UsedFit
  <1> QED
    BY <1>9 DEF g, e

LEMMA DWDReportGood ==
  ASSUME NEW i, DWDSound(i), NEW p
  PROVE  DWDSound(DWD!UpdateWeather(i, p))
  <1> DEFINE s == DWD!WeatherSource(p, i.place[p])
             r == DWD!Report(i.place[p], i.weather[p])
             d == SetData(i, s, r)
             f == ServeReset(d, s)
  <1>1. DWD!UpdateWeather(i, p) = IF i.weather[p].forecastsPending \/ i.weather[p].measurePending THEN i ELSE f
    <2>1. DWD!SetData(i, s, r) = d
      BY DWDCopies
    <2>2. DWD!ServeReset(d, s) = f
      BY DWDCopies
    <2> HIDE DEF d, f
    <2> QED
      BY <2>1, <2>2, Zenon DEF DWD!UpdateWeather
  <1>2. BasicFields \subseteq DOMAIN i
    BY DEF DWDSound, DWDFields
  <1> HIDE DEF s, r
  <1>3. Same(d, i, {"held", "dirty"})
    BY <1>2, SetDataEffect
  <1> HIDE DEF d
  <1>4. DWDSound(d) /\ BasicFields \subseteq DOMAIN d
    BY <1>3, DWDStepGood DEF DWDQuiet, DWDSound, DWDFields
  <1>5. Same(f, d, {"shown", "dirty", "toReset"})
    BY <1>4, ServeResetEffect
  <1> HIDE DEF f
  <1>6. DWDSound(f)
    BY <1>4, <1>5, DWDStepGood DEF DWDQuiet
  <1> QED
    BY <1>1, <1>6

LEMMA DWDSlotGood ==
  ASSUME NEW i0, DWDSound(i0), NEW job \in DOMAIN i0.jobs, NEW reply
  PROVE  DWDSound(DWD!SlotJobFinished(i0, job, reply))
  <1> DEFINE p == job.place
             e == DWD!EndJob(i0, job)
             f == DWD!SlotJobFinished(i0, job, reply)
  <1>1. DWDJobs(i0.jobs) /\ DWDWaits(i0) /\ e.weather = i0.weather
    BY DWDEndEffect DEF DWDSound
  <1>2. job.slot \in DWD!Slots /\ (job.slot # "setup" => p \in Places)
    BY <1>1 DEF DWDJobs
  <1>3. CASE job.slot = "setup"
    BY <1>3, SetupFinishedGood DEF DWD!SlotJobFinished
  <1>4. CASE job.slot = "measure"
    <2> DEFINE read == IF reply.what # "report" THEN e.weather[p]
                       ELSE DWD!ParseMeasureData(e.weather[p], job.station, reply)
               w == [read EXCEPT !.measurePending = FALSE]
               g == [e EXCEPT !.weather[p] = w]
    <2>1. f = DWD!UpdateWeather(g, p)
      BY <1>4, Zenon DEF DWD!SlotJobFinished, DWD!MeasureFinished
    <2>2. DOMAIN i0.weather[p] = DWDWeather
      BY <1>1, <1>2, <1>4 DEF DWDWaits
    <2> HIDE DEF e
    <2>3. DOMAIN read = DWDWeather /\ read.forecastsPending = i0.weather[p].forecastsPending
      BY <1>1, <2>2 DEF DWD!ParseMeasureData, DWDWeather
    <2> HIDE DEF read
    <2>4. DOMAIN w = DWDWeather /\ w.measurePending = FALSE /\ w.forecastsPending = i0.weather[p].forecastsPending
      BY <2>3 DEF DWDWeather
    <2> HIDE DEF w
    <2>5. DWDSound(g)
      BY <1>4, <2>4, DWDReadGood DEF e
    <2> HIDE DEF g
    <2> QED
      BY <2>1, <2>5, DWDReportGood
  <1>5. CASE job.slot = "forecast"
    <2> DEFINE read == IF reply.what # "report" THEN e.weather[p]
                       ELSE DWD!ParseForecastData(e.weather[p], job.station, reply)
               w == [read EXCEPT !.forecastsPending = FALSE]
               g == [e EXCEPT !.weather[p] = w]
    <2>1. f = DWD!UpdateWeather(g, p)
      BY <1>5, Zenon DEF DWD!SlotJobFinished, DWD!ForecastFinished
    <2>2. DOMAIN i0.weather[p] = DWDWeather
      BY <1>1, <1>2, <1>5 DEF DWDWaits
    <2> HIDE DEF e
    <2>3. DOMAIN read = DWDWeather /\ read.measurePending = i0.weather[p].measurePending
      BY <1>1, <2>2 DEF DWD!ParseForecastData, DWDWeather
    <2> HIDE DEF read
    <2>4. DOMAIN w = DWDWeather /\ w.forecastsPending = FALSE /\ w.measurePending = i0.weather[p].measurePending
      BY <2>3 DEF DWDWeather
    <2> HIDE DEF w
    <2>5. DWDSound(g)
      BY <1>5, <2>4, DWDReadGood DEF e
    <2> HIDE DEF g
    <2> QED
      BY <2>1, <2>5, DWDReportGood
  <1> QED
    BY <1>2, <1>3, <1>4, <1>5 DEF DWD!Slots

LEMMA NewDWDGood == DWDSound(DWD!NewIon)
  <1> DEFINE basic == DWD!BasicIon(TRUE)
             own == [place |-> [n \in {} |-> NoStation],
                     weather |-> [p \in Places |-> DWD!NoWeather],
                     locations |-> {}]
             i == DWD!NewIon
  <1>1. i = DWD!++(basic, own)
    BY DEF DWD!NewIon
  <1>2. i = [k \in DOMAIN basic \union DOMAIN own |-> IF k \in DOMAIN basic THEN basic[k] ELSE own[k]]
    BY <1>1 DEF DWD!++
  <1>3. DOMAIN basic = BasicFields /\ basic.used = {} /\ DOMAIN basic.jobs = {}
    BY DEF DWD!BasicIon, BasicFields, DWD!EmptyBag, DWD!SetToBag
  <1>4. DOMAIN own = {"place", "weather", "locations"}
    OBVIOUS
  <1> HIDE DEF basic
  <1>5. DOMAIN i = DWDFields
    BY <1>2, <1>3, <1>4 DEF DWDFields
  <1>6. i.used = basic.used /\ i.jobs = basic.jobs
    BY <1>2, <1>3 DEF BasicFields
  <1>7. i.weather = own.weather
    BY <1>2, <1>3, <1>4 DEF BasicFields
  <1> HIDE DEF i
  <1>8. DOMAIN i.weather = Places
    BY <1>7
  <1>9. \A p \in Places : /\ DOMAIN i.weather[p] = DWDWeather
                          /\ i.weather[p].measurePending = FALSE /\ i.weather[p].forecastsPending = FALSE
    BY <1>7 DEF DWD!NoWeather, DWDWeather
  <1>10. DWDWaits(i)
    BY <1>9, Zenon DEF DWDWaits, DWDPendsAt
  <1>11. DWDJobs(i.jobs) /\ UsedFit(i)
    BY <1>3, <1>6, FS_EmptySet DEF DWDJobs, Counted, UsedFit
  <1>12. DWDSound(i)
    BY <1>5, <1>8, <1>10, <1>11 DEF DWDSound
  <1> QED
    BY <1>12 DEF i

-----------------------------------------------------------------------------
(* The specification *)

\* Applets ask for sources of one of the scenarios.
AskedInv == \E x \in Scenarios : kind \in x.ions /\ asked = x.asked

\* The ids that NamesAgree speaks of
Agree(ids) ==
    /\ Distinct(ids)
    /\ \A x \in Scenarios : "bbcukmet" \in x.ions =>
         \A s \in x.asked : s.action = "weather" => s.station = ids[s.place]
    /\ \A r \in UKMETResults : InTheirOrder(r, ids)

LEMMA AskedAreFit ==
  ASSUME AskedInv, NEW s \in asked
  PROVE  /\ AskedFits(s)
         /\ \A ids : kind = "bbcukmet" /\ Agree(ids) => SourceFits(s, ids)
  <1>1. AskedFits(s)
    BY WeatherAssumption DEF AskedInv, AskedFits
  <1>2. ASSUME NEW ids, kind = "bbcukmet", Agree(ids), s.action = "weather"
        PROVE  s = WeatherSource(s.place, ids[s.place])
    <2>1. s.station = ids[s.place]
      BY <1>2 DEF AskedInv, Agree
    <2>2. s = WeatherSource(s.place, s.station)
      BY <1>1, <1>2, AskedIsOne, Zenon
    <2> QED
      BY <2>1, <2>2
  <1> QED
    BY <1>1, <1>2 DEF SourceFits

\* The next ion is sound, and current if this one is.
StaysGood ==
    /\ UKMETSound(ion')
    /\ \A ids : Agree(ids) /\ UKMETCurrent(ion, ids, {}) => UKMETCurrent(ion', ids, {})

LEMMA UKMETStep ==
  ASSUME kind = "bbcukmet", UKMETSound(ion), AskedInv, [Next]_vars
  PROVE  StaysGood
  <1>1. ASSUME UKMETGood(ion', ion, {}) PROVE StaysGood
    BY <1>1 DEF StaysGood, UKMETGood
  <1>2. UKMETGood(ion, ion, {})
    BY DEF UKMETGood
  <1>3. ASSUME NEW s \in Sources, Request(s) PROVE StaysGood
    <2>1. s \in asked /\ ion' = RequestIonSource(ion, s)
      BY <1>3 DEF Request
    <2>2. AskedFits(s) /\ \A ids : Agree(ids) => SourceFits(s, ids)
      BY <2>1, AskedAreFit
    <2> QED
      BY <2>1, <2>2, RequestGood DEF StaysGood
  <1>4. ASSUME NEW s \in Sources, Leave(s) PROVE StaysGood
    BY <1>1, <1>4, RemoveGood DEF Leave
  <1>5. ASSUME NEW s \in Weather, Poll(s) PROVE StaysGood
    <2>1. s \in ion.used /\ ion' = UKMET!UpdateIonSource(ion, s)
      BY <1>5 DEF Poll, UpdateIonSource
    <2>2. AskedFits(s)
      <3>1. UsedFit(ion)
        BY Zenon DEF UKMETSound
      <3> QED
        BY <2>1, <3>1 DEF UsedFit
    <2>3. ASSUME NEW ids, UKMETCurrent(ion, ids, {})
          PROVE  SourceFits(s, ids) /\ UKMETCurrent(ion, ids, {s})
      <3>1. s \in DOMAIN ion.held
        BY <2>1, <2>3 DEF UKMETCurrent
      <3> QED
        BY <2>3, <3>1, HeldIsAsked, CurrentWeaker
    <2>4. /\ UKMETSound(ion')
          /\ \A ids : SourceFits(s, ids) /\ UKMETCurrent(ion, ids, {s}) => UKMETCurrent(ion', ids, {})
      BY <2>1, <2>2, UpdateGood
    <2> QED
      BY <2>3, <2>4 DEF StaysGood
  <1>6. ASSUME CheckForUpdates PROVE StaysGood
    BY <1>1, <1>6, RelayGood DEF CheckForUpdates
  <1>7. ASSUME StartReconnect PROVE StaysGood
    BY <1>1, <1>2, <1>7, ResetGood DEF StartReconnect, Reset
  <1>8. ASSUME NEW job, Finish(job) PROVE StaysGood
    <2>1. job \in DOMAIN ion.jobs
      BY <1>8 DEF Finish, BagToSet
    <2>2. PICK reply \in Replies(job) : ion' = SlotJobFinished(ion, job, reply)
      BY <1>8 DEF Finish
    <2>3. reply \in UKMET!Replies(job) /\ ion' = UKMET!SlotJobFinished(ion, job, reply)
      BY <2>2 DEF Replies, SlotJobFinished
    <2> QED
      BY <2>1, <2>3, SlotGood DEF StaysGood, Agree
  <1>9. ASSUME UNCHANGED ion PROVE StaysGood
    BY <1>1, <1>2, <1>9
  <1>10. CASE UNCHANGED vars
    BY <1>9, <1>10 DEF vars
  <1>11. CASE GoOffline \/ GoOnline
    BY <1>9, <1>11 DEF GoOffline, GoOnline
  <1> QED
    BY <1>3, <1>4, <1>5, <1>6, <1>7, <1>8, <1>10, <1>11 DEF Next, JobFinished

LEMMA DWDStep ==
  ASSUME kind = "dwd", DWDSound(ion), AskedInv, [Next]_vars
  PROVE  DWDSound(ion')
  <1>1. ASSUME NEW s \in Sources, Request(s) PROVE DWDSound(ion')
    BY <1>1, AskedAreFit, DWDRequestGood DEF Request
  <1>2. ASSUME NEW s \in Sources, Leave(s) PROVE DWDSound(ion')
    BY <1>2, DWDRemoveGood DEF Leave
  <1>3. ASSUME NEW s \in Weather, Poll(s) PROVE DWDSound(ion')
    <2>1. s \in ion.used /\ ion' = DWD!UpdateIonSource(ion, s)
      BY <1>3 DEF Poll, UpdateIonSource
    <2>2. AskedFits(s)
      BY <2>1 DEF DWDSound, UsedFit
    <2> QED
      BY <2>1, <2>2, DWDUpdateGood
  <1>4. ASSUME CheckForUpdates PROVE DWDSound(ion')
    BY <1>4, DWDRelayGood DEF CheckForUpdates
  <1>5. ASSUME StartReconnect PROVE DWDSound(ion')
    BY <1>5, DWDResetGood DEF StartReconnect, Reset
  <1>6. ASSUME NEW job, Finish(job) PROVE DWDSound(ion')
    <2>1. job \in DOMAIN ion.jobs
      BY <1>6 DEF Finish, BagToSet
    <2>2. PICK reply \in Replies(job) : ion' = SlotJobFinished(ion, job, reply)
      BY <1>6 DEF Finish
    <2>3. ion' = DWD!SlotJobFinished(ion, job, reply)
      BY <2>2 DEF SlotJobFinished
    <2> QED
      BY <2>1, <2>3, DWDSlotGood
  <1>7. CASE UNCHANGED vars
    BY <1>7 DEF vars
  <1>8. CASE GoOffline \/ GoOnline
    BY <1>8 DEF GoOffline, GoOnline
  <1> QED
    BY <1>1, <1>2, <1>3, <1>4, <1>5, <1>6, <1>7, <1>8 DEF Next, JobFinished

\* The inductive invariant: the ion is well formed, the sources that it has are asked
\* for, and a flag of a place has its job.
IonInv ==
    /\ AskedInv
    /\ kind = "bbcukmet" => UKMETSound(ion)
    /\ kind = "dwd" => DWDSound(ion)

\* With the ids of NamesAgree: jobs are about places whose id is known, places that a
\* search found have it, and sources are those of the ids and hold reports of them.
CurrentInv(ids) == kind = "bbcukmet" => UKMETCurrent(ion, ids, {})

LEMMA InitIon == Init => IonInv /\ \A ids : CurrentInv(ids)
  <1> SUFFICES ASSUME Init PROVE IonInv /\ \A ids : CurrentInv(ids)
    OBVIOUS
  <1>1. AskedInv
    BY DEF Init, AskedInv
  <1>2. CASE kind = "bbcukmet"
    <2>1. ion = UKMET!NewIon
      BY <1>2 DEF Init
    <2> QED
      BY <1>1, <1>2, <2>1, NewUKMETGood DEF IonInv, CurrentInv
  <1>3. CASE kind = "dwd"
    <2>1. ion = DWD!NewIon
      BY <1>3 DEF Init
    <2> QED
      BY <1>1, <1>3, <2>1, NewDWDGood DEF IonInv, CurrentInv
  <1>4. CASE kind \notin {"bbcukmet", "dwd"}
    BY <1>1, <1>4 DEF IonInv, CurrentInv
  <1> QED
    BY <1>2, <1>3, <1>4

LEMMA KindStays == ASSUME [Next]_vars PROVE kind' = kind /\ asked' = asked
  BY DEF Next, vars, Request, Leave, Poll, CheckForUpdates, GoOffline, GoOnline, StartReconnect,
         JobFinished, Finish

LEMMA NextIon ==
  ASSUME IonInv, [Next]_vars
  PROVE  IonInv' /\ \A ids : Agree(ids) /\ CurrentInv(ids) => CurrentInv(ids)'
  <1>1. kind' = kind /\ asked' = asked
    BY KindStays
  <1>2. AskedInv /\ AskedInv'
    BY <1>1 DEF IonInv, AskedInv
  <1>3. CASE kind = "bbcukmet"
    <2>1. UKMETSound(ion)
      BY <1>3 DEF IonInv
    <2>2. /\ UKMETSound(ion')
          /\ \A ids : Agree(ids) /\ UKMETCurrent(ion, ids, {}) => UKMETCurrent(ion', ids, {})
      BY <1>2, <1>3, <2>1, UKMETStep DEF StaysGood
    <2> QED
      BY <1>1, <1>2, <1>3, <2>2 DEF IonInv, CurrentInv
  <1>4. CASE kind = "dwd"
    BY <1>1, <1>2, <1>4, DWDStep DEF IonInv, CurrentInv
  <1>5. CASE kind \notin {"bbcukmet", "dwd"}
    BY <1>1, <1>2, <1>5 DEF IonInv, CurrentInv
  <1> QED
    BY <1>3, <1>4, <1>5

\* A flag that a place waits with is lowered by a job or a retry under way, however the
\* jobs of BBC Weather and Deutscher Wetterdienst end.
THEOREM PendingJobs == Spec => []PendingHasJob
  <1>1. Init => IonInv
    BY InitIon
  <1>2. IonInv /\ [Next]_vars => IonInv'
    BY NextIon
  <1>3. IonInv => PendingHasJob
    <2> SUFFICES ASSUME IonInv PROVE PendingHasJob
      OBVIOUS
    <2>1. \A p, slots : HasJob(ion, p, slots) => \E job \in Running(ion, slots) : job.place = p
      BY DEF HasJob, Running, BagToSet
    <2>2. CASE kind = "bbcukmet"
      <3>1. UKMETPends(ion)
        BY <2>2, Zenon DEF IonInv, UKMETSound
      <3> QED
        BY <2>1, <2>2, <3>1, Zenon DEF PendingHasJob, UKMETPends, PendsAt
    <2>3. CASE kind = "dwd"
      <3>1. \A p \in Places : DWDPendsAt(ion, p)
        BY <2>3, Zenon DEF IonInv, DWDSound, DWDWaits
      <3>2. kind # "bbcukmet"
        BY <2>3
      <3> QED
        BY <2>1, <2>3, <3>1, <3>2, Zenon DEF PendingHasJob, DWDPendsAt
    <2>4. CASE kind \notin {"bbcukmet", "dwd"}
      BY <2>4 DEF PendingHasJob
    <2> QED
      BY <2>2, <2>3, <2>4
  <1> QED
    BY <1>1, <1>2, <1>3, PTL DEF Spec

\* The two invariants of every reachable state
LEMMA CurrentAlways ==
  ASSUME NEW CONSTANT ids, Agree(ids)
  PROVE  Spec => []CurrentInv(ids)
  <1>1. Init => IonInv /\ CurrentInv(ids)
    BY InitIon
  <1>2. IonInv /\ CurrentInv(ids) /\ [Next]_vars => IonInv' /\ CurrentInv(ids)'
    BY NextIon
  <1> QED
    BY <1>1, <1>2, PTL DEF Spec

LEMMA AgreeOfNames == ASSUME NamesAgree PROVE \E ids : Agree(ids)
  BY DEF NamesAgree, Agree, Distinct, InTheirOrder

LEMMA UsedIsHeld ==
  ASSUME NEW ids, CurrentInv(ids), kind = "bbcukmet", NEW s \in ion.used, s.action = "weather"
  PROVE  /\ ion.place[s.place].station = ids[s.place] /\ s.station = ids[s.place]
         /\ \/ Pending(ion.weather[s.place])
            \/ ion.held[s] \in {Nothing, UKMET!Report(ion.place[s.place], ion.weather[s.place])}
  <1>1. HeldFits(ion, ids, s)
    BY DEF CurrentInv, UKMETCurrent
  <1>2. s = WeatherSource(s.place, ids[s.place])
    BY <1>1, Zenon DEF HeldFits
  <1>3. s.station = ids[s.place]
    BY <1>2 DEF WeatherSource
  <1> QED
    BY <1>1, <1>3, Zenon DEF HeldFits

\* While an applet shows a place of BBC Weather, no search gives its name another id.
THEOREM PlaceStays == ASSUME NamesAgree PROVE Spec => []PlaceKept
  <1>1. PICK ids : Agree(ids)
    BY AgreeOfNames
  <1>2. Spec => []CurrentInv(ids)
    BY <1>1, CurrentAlways
  <1>3. CurrentInv(ids) => PlaceKept
    BY UsedIsHeld, Zenon DEF PlaceKept
  <1> QED
    BY <1>2, <1>3, PTL

\* A source of BBC Weather holds the report of what was read last, while no request of
\* its place is under way.
THEOREM HeldStaysCurrent == ASSUME NamesAgree PROVE Spec => []HeldIsCurrent
  <1>1. PICK ids : Agree(ids)
    BY AgreeOfNames
  <1>2. Spec => []CurrentInv(ids)
    BY <1>1, CurrentAlways
  <1>3. CurrentInv(ids) => HeldIsCurrent
    <2> SUFFICES ASSUME CurrentInv(ids), kind = "bbcukmet", NEW s \in ion.used, s.action = "weather",
                        ~ion.weather[s.place].observationPending, ~ion.weather[s.place].forecastsPending
                 PROVE  ion.held[s] \in {Nothing, UKMET!Report(ion.place[s.place], ion.weather[s.place])}
      BY Zenon DEF HeldIsCurrent
    <2>1. ~Pending(ion.weather[s.place])
      BY Zenon DEF Pending
    <2> QED
      BY <2>1, UsedIsHeld, Zenon
  <1> QED
    BY <1>2, <1>3, PTL

=============================================================================
