---------------------------- MODULE WeatherEngine ----------------------------
(***************************************************************************)
(* WeatherEngine (dataengines/weather/weatherengine.cpp) and one of its    *)
(* ions.  The ions share nothing but the engine, so a behaviour is about   *)
(* one of them, chosen at the start.  Applets ask for sources and leave;   *)
(* jobs end in any order, with any answer; the network goes and comes.     *)
(***************************************************************************)
EXTENDS Ion

CONSTANTS
    Scenarios,         \* bound: the ions a behaviour may be about, the sources its applets ask
                       \* for, its outages, failures and refusals: [ions, asked, faults]
    UKMETResults, UKMETObservations, MaxRetryAttempts,
    Catalogue, Matches, CatalogueFails,
    WetterComResults,
    PointInfos, StationFiles, Hours, FileHours, SiteReports

ASSUME WeatherAssumption ==
    /\ \A x \in Scenarios :
         \A s \in x.asked : \E p \in Places : \/ \E st \in Stations : s = WeatherSource(p, st)
                                             \/ s = ValidateSource(p)
    /\ UKMETResults \subseteq Seq([name : {p[1] : p \in Places}, id : Stations])

UKMET == INSTANCE UKMETIon WITH SearchResults <- UKMETResults, Observations <- UKMETObservations
DWD == INSTANCE DWDIon
WetterCom == INSTANCE WetterComIon WITH SearchResults <- WetterComResults
NOAA == INSTANCE NOAAIon WITH StationList <- Catalogue
EnvCanada == INSTANCE EnvCanadaIon WITH Cities <- Catalogue

VARIABLES
    kind,              \* the ion of this behaviour
    asked,             \* the sources its applets may ask for
    ion,               \* its state, and that of WeatherEngine about it
    online,            \* reachability is Online
    reconnecting,      \* m_reconnectTimer runs
    faults             \* outages, failures and refusals to come

environment == <<online, reconnecting>>
vars == <<kind, asked, ion, environment, faults>>

Sources == UNION {x.asked : x \in Scenarios}
Weather == {s \in Sources : s.action = "weather"}
Searches == {s \in Sources : s.action = "validate"}

\* BBC Weather numbers the ids of a name in one order, and applets ask for what was found.
NamesAgree ==
    \E ids \in [Places -> Stations] :
      /\ \A p, q \in Places : p[1] = q[1] /\ ids[p] = ids[q] => p = q
      /\ \A x \in Scenarios : "bbcukmet" \in x.ions =>
           \A s \in x.asked : s.action = "weather" => s.station = ids[s.place]
      /\ \A r \in UKMETResults : \A j \in DOMAIN r : \E p \in Places :
           /\ r[j] = [name |-> p[1], id |-> ids[p]]
           /\ \A n \in 1..p[2] - 1 : \E k \in 1..j - 1 :
                <<p[1], n>> \in Places /\ r[k] = [name |-> p[1], id |-> ids[<<p[1], n>>]]

Init ==
    /\ \E x \in Scenarios : kind \in x.ions /\ asked = x.asked /\ faults = x.faults
    /\ \/ kind = "bbcukmet" /\ ion = UKMET!NewIon
       \/ kind = "dwd" /\ ion = DWD!NewIon
       \/ kind = "wettercom" /\ ion = WetterCom!NewIon
       \/ kind = "noaa" /\ \E file \in StationFiles : ion = NOAA!NewIon(file)
       \/ kind = "envcan" /\ ion = EnvCanada!NewIon
    /\ online = TRUE
    /\ reconnecting = FALSE

-----------------------------------------------------------------------------
(* Virtual functions of the ions *)

UpdateIonSource(i, s) ==
    CASE kind = "bbcukmet" -> UKMET!UpdateIonSource(i, s)
      [] kind = "dwd" -> DWD!UpdateIonSource(i, s)
      [] kind = "wettercom" -> WetterCom!UpdateIonSource(i, s)
      [] kind = "noaa" -> NOAA!UpdateIonSource(i, s)
      [] kind = "envcan" -> EnvCanada!UpdateIonSource(i, s)

Reset(i) ==
    CASE kind = "bbcukmet" -> UKMET!Reset(i)
      [] kind = "dwd" -> DWD!Reset(i)
      [] kind = "wettercom" -> WetterCom!Reset(i)
      [] kind = "noaa" -> NOAA!Reset(i)
      [] kind = "envcan" -> EnvCanada!Reset(i)

-----------------------------------------------------------------------------
(* WeatherEngine *)

\* IonInterface::sourceRequestEvent
IonRequest(i, s) ==
    LET made == SetData(i, s, Nothing)
    IN  IF i.initialized THEN UpdateIonSource(made, s) ELSE made

\* Mutant: a source that exists is asked for again by nobody, and shows nothing.
RequestIonSourceFresh(i, s) ==
    LET counted == [i EXCEPT !.usage = @ + 1, !.used = @ \union {s},
                             !.shown = (s :> Nothing) @@ @]
    IN  IF s \in DOMAIN i.held THEN counted ELSE IonRequest(counted, s)

\* sourceRequestEvent: the ion is connected even when the network is down.  A
\* container the ion still has is connected as it is, and its data come at once.
RequestIonSource(i, s) ==
    LET counted == [i EXCEPT !.usage = @ + 1, !.used = @ \union {s},
                             !.shown = (s :> Nothing) @@ @]
    IN  IF s \in DOMAIN i.held THEN [counted EXCEPT !.shown[s] = i.held[s]]
        ELSE IonRequest(counted, s)

\* removeIonSource
RemoveIonSource(i, s) ==
    [i EXCEPT !.usage = @ - 1, !.used = @ \ {s}, !.dirty = @ \ {s},
              !.held = [x \in DOMAIN @ \ {s} |-> @[x]],
              !.shown = [x \in DOMAIN @ \ {s} |-> @[x]]]

\* Bound: applets do not ask again for a place with jobs under way.
Quiet(s) == \A job \in BagToSet(ion.jobs) : job.place # s.place

Request(s) ==
    /\ s \in asked \ ion.used
    /\ Quiet(s)
    /\ ion' = RequestIonSource(ion, s)
    /\ UNCHANGED <<kind, asked, environment, faults>>

Leave(s) ==
    /\ s \in ion.used
    /\ ion' = RemoveIonSource(ion, s)
    /\ UNCHANGED <<kind, asked, environment, faults>>

\* updateSourceEvent, when the polling interval of an applet ends
Poll(s) ==
    /\ s \in ion.used
    /\ online
    /\ ion.initialized
    /\ Quiet(s)
    /\ ion' = UpdateIonSource(ion, s)
    /\ UNCHANGED <<kind, asked, environment, faults>>

\* The timer of an engine passes the data of its dirty containers on.
CheckForUpdates ==
    /\ ion.dirty # {}
    /\ ion' = Relay(ion, ion.dirty)
    /\ UNCHANGED <<kind, asked, environment, faults>>

\* onOnlineStateChanged
GoOffline ==
    /\ online
    /\ faults > 0
    /\ online' = FALSE
    /\ reconnecting' = FALSE
    /\ faults' = faults - 1
    /\ UNCHANGED <<kind, asked, ion>>

GoOnline ==
    /\ ~online
    /\ online' = TRUE
    /\ reconnecting' = TRUE
    /\ UNCHANGED <<kind, asked, ion, faults>>

\* startReconnect: ions in use are reset.
StartReconnect ==
    /\ reconnecting
    /\ reconnecting' = FALSE
    /\ ion' = IF ion.usage > 0 THEN Reset(ion) ELSE ion
    /\ UNCHANGED <<kind, asked, online, faults>>

-----------------------------------------------------------------------------
(* Jobs *)

Replies(job) ==
    CASE kind = "bbcukmet" -> UKMET!Replies(job)
      [] kind = "dwd" -> DWD!Replies(job)
      [] kind = "wettercom" -> WetterCom!Replies(job)
      [] kind = "noaa" -> NOAA!Replies(job)
      [] kind = "envcan" -> EnvCanada!Replies(job)

SlotJobFinished(i, job, reply) ==
    CASE kind = "bbcukmet" -> UKMET!SlotJobFinished(i, job, reply)
      [] kind = "dwd" -> DWD!SlotJobFinished(i, job, reply)
      [] kind = "wettercom" -> WetterCom!SlotJobFinished(i, job, reply)
      [] kind = "noaa" -> NOAA!SlotJobFinished(i, job, reply)
      [] kind = "envcan" -> EnvCanada!SlotJobFinished(i, job, reply)

\* What a network that is down, or a server in trouble, answers
Failed(reply) ==
    \/ reply.what \in {"error", "timeout", "empty", "busy", "refused", "headless", "malformed"}
    \/ reply.what \in {"results", "forecast"} /\ kind = "wettercom" /\ reply.parseError

\* A job ends; without the network all it can bring is an error or a timeout.
Finish(job) ==
    /\ job \in BagToSet(ion.jobs)
    /\ \E reply \in Replies(job) :
         /\ Failed(reply) => ~online \/ faults > 0
         /\ online \/ reply.what \in {"error", "timeout", "timer"} \/ Failed(reply)
         /\ faults' = IF Failed(reply) /\ online THEN faults - 1 ELSE faults
         /\ ion' = SlotJobFinished(ion, job, reply)
    /\ UNCHANGED <<kind, asked, environment>>

JobFinished == \E job \in BagToSet(ion.jobs) : Finish(job)

Next ==
    \/ \E s \in Sources : Request(s) \/ Leave(s)
    \/ \E s \in Weather : Poll(s)
    \/ CheckForUpdates
    \/ GoOffline \/ GoOnline \/ StartReconnect
    \/ JobFinished

Spec == Init /\ [][Next]_vars

\* Jobs and timers end, applets with weather poll, and the network comes back.
Fairness ==
    /\ \A p \in Places \union {NoPlace} : WF_vars(\E job \in BagToSet(ion.jobs) : job.place = p /\ Finish(job))
    /\ \A s \in Weather : WF_vars(Poll(s))
    /\ WF_vars(CheckForUpdates)
    /\ WF_vars(GoOnline) /\ WF_vars(StartReconnect)

FairSpec == Spec /\ Fairness

-----------------------------------------------------------------------------
(* Properties *)

\* Merging searches never gives the name of a place with weather another id, as long as
\* BBC Weather lists the places of a name in one order (NamesAgree): the requests take
\* the id by the name (m_place), at any time after the search.
PlaceKept ==
    kind = "bbcukmet" =>
      \A s \in ion.used : s.action = "weather" => ion.place[s.place].station = s.station

\* A pending flag of a place is lowered by a job or a retry that is under way;
\* without one no report of the place would be published any more.
PendingHasJob ==
    CASE kind = "bbcukmet" ->
           \A p \in Places :
             /\ ion.weather[p].observationPending =>
                  \E job \in Running(ion, {"observation", "retryObservation"}) : job.place = p
             /\ ion.weather[p].forecastsPending =>
                  \E job \in Running(ion, {"forecast", "retryForecast"}) : job.place = p
      [] kind = "dwd" ->
           \A p \in Places :
             /\ ion.weather[p].measurePending =>
                  \E job \in Running(ion, {"measure"}) : job.place = p
             /\ ion.weather[p].forecastsPending =>
                  \E job \in Running(ion, {"forecast"}) : job.place = p
      [] OTHER -> TRUE

\* While nothing of its place is pending, a used source of BBC Weather holds the
\* report of what was read last, and no key of an older one (updateWeather).
HeldIsCurrent ==
    kind = "bbcukmet" =>
      \A s \in ion.used :
        s.action = "weather" /\ ~ion.weather[s.place].observationPending
          /\ ~ion.weather[s.place].forecastsPending =>
          ion.held[s] \in {Nothing, UKMET!Report(ion.place[s.place], ion.weather[s.place])}

\* The applet of a source is left, or is shown something.
Served(s) == s \notin ion.used \/ ion.shown[s] # Nothing

\* Weather that an applet asks for is shown in the end, whatever fails on the way,
\* unless the ion's list of places could not be read (updateWeather of the ions).
WeatherShown ==
    \A s \in Weather : (s \in ion.used) ~> (Served(s) \/ ~ion.initialized)

\* A search is answered: "it will return a | separated list of valid places"
\* (weatherengine.h:24), or the verdict that there is none.  Assumed: one search at a
\* time, a text that names no place in use, and for DWD a catalogue that comes; without,
\* the code leaves searches unanswered (MCSearches, MCCatalogueSearch).
SearchAnswered ==
    \A s \in Searches : (s \in ion.used) ~> (Served(s) \/ ~ion.initialized)

\* What was asked before the ion was ready is served when it is: "we'll retry once
\* the initialization is done" (ion.cpp:40).
AskedIsServed == \A s \in Weather : (s \in ion.used) ~> Served(s)

\* A source to be reset when the network came back gets its forced update
\* (m_sourcesToReset); wetter.com compares the wrong name, NOAA asks anew instead.
ResetServed ==
    \A s \in Weather :
      (s \in ion.used \intersect ion.toReset /\ kind \in {"bbcukmet", "dwd", "envcan"})
        ~> (s \notin ion.used \intersect ion.toReset \/ ~ion.initialized)

=============================================================================
