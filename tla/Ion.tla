--------------------------------- MODULE Ion ---------------------------------
(***************************************************************************)
(* What every ion of the weather engine has (dataengines/weather/ions/     *)
(* ion.cpp): a DataEngine whose only consumer is WeatherEngine, which asks *)
(* for a source by name, and network jobs whose slots read an answer into  *)
(* caches and publish a report.  An ion is a record; a slot is an operator *)
(* from the ion before the call to the ion after it, so that a slot that   *)
(* calls another one composes with it in the same step.                    *)
(*                                                                         *)
(* A report is a function from the keys it publishes to the station the    *)
(* value was fetched for; a validation answer has the key "validate".      *)
(***************************************************************************)
EXTENDS Naturals, Sequences, FiniteSets, Bags, SequencesExt

CONSTANTS
    Places,            \* place names and search texts: <<name, number>>
    Stations,          \* station ids, place codes
    NoStation,
    Measures,          \* optional keys of an observation
    DayCounts,         \* bound: how many days the forecast of a service may have
    DayLimit           \* days an ion publishes: 7 in the code

ASSUME IonAssumption ==
    /\ NoStation \notin Stations
    /\ \A p \in Places : p = <<p[1], p[2]>> /\ p[2] \in Nat \ {0}
    /\ DayCounts \subseteq Nat /\ DayLimit \in Nat

Nothing == [k \in {} |-> NoStation]

\* The fields of every ion with those of one kind (like @@, which the provers do not know)
basic ++ own == [k \in DOMAIN basic \union DOMAIN own |-> IF k \in DOMAIN basic THEN basic[k] ELSE own[k]]

WeatherSource(p, st) == [action |-> "weather", place |-> p, station |-> st]
ValidateSource(p) == [action |-> "validate", place |-> p, station |-> NoStation]

\* "Short Forecast Day d" for d = 1, 2, ...
DayKey == <<"Day 0", "Day 1", "Day 2", "Day 3", "Day 4">>

\* The keys of the days of a forecast, with where each was fetched
DayReport(days) ==
    [k \in {DayKey[d] : d \in 1..Len(days)} |-> days[CHOOSE d \in 1..Len(days) : DayKey[d] = k]]

FirstDays(days, n) == SubSeq(days, 1, IF Len(days) < n THEN Len(days) ELSE n)

\* The fields that IonInterface and DataEngine keep for every ion
BasicIon(initialized) ==
    [held |-> [s \in {} |-> Nothing],     \* the ion's containers and their data
     dirty |-> {},                        \* containers with data not passed on yet
     used |-> {},                         \* sources WeatherEngine is connected to
     usage |-> 0,                         \* WeatherEngine's m_ionUsage of this ion
     shown |-> [s \in {} |-> Nothing],    \* WeatherEngine's containers of this ion
     initialized |-> initialized,
     toReset |-> {},                      \* m_sourcesToReset
     jobs |-> EmptyBag]                   \* network jobs and timers under way

-----------------------------------------------------------------------------
(* Data of the sources *)

\* DataEngine::setData(source, data): a missing container is made, keys are merged.
SetData(i, s, data) ==
    LET old == IF s \in DOMAIN i.held THEN i.held[s] ELSE Nothing
        new == IF old = Nothing THEN data ELSE data @@ old
    IN  [i EXCEPT !.held = [x \in DOMAIN @ \union {s} |-> IF x = s THEN new ELSE @[x]],
                  !.dirty = IF data = Nothing THEN @ ELSE @ \union {s}]

\* setData(source, "validate", verdict)
Answer(i, s, verdict) == SetData(i, s, "validate" :> verdict)

\* removeAllData of a source the engine has
Cleared(containers, s) == [x \in DOMAIN containers |-> IF x = s THEN Nothing ELSE containers[x]]

\* Mutant: nobody clears the old report.
KeepData(i, s) == i

\* cleanUpData reaches the ion itself and, while it uses the ion, WeatherEngine.
CleanUpData(i, s) ==
    [i EXCEPT !.held = Cleared(@, s),
              !.shown = IF i.usage > 0 THEN Cleared(@, s) ELSE @,
              !.dirty = IF s \in DOMAIN i.held THEN @ \union {s} ELSE @]

\* Containers of S pass their data on to WeatherEngine's (its slot dataUpdated).
Relay(i, S) ==
    [i EXCEPT !.shown = [s \in DOMAIN @ |-> IF s \in S \intersect i.dirty \intersect i.used
                                            THEN i.held[s] @@ @[s] ELSE @[s]],
              !.dirty = @ \ S]

\* Mutant: the data are passed on and the source stays to be reset.
ServeResetAgain(i, s) == IF s \in i.toReset THEN Relay(i, i.dirty) ELSE i

\* The end of an updateWeather: a source to be reset is passed on at once.
ServeReset(i, s) ==
    IF s \in i.toReset THEN Relay([i EXCEPT !.toReset = @ \ {s}], i.dirty) ELSE i

\* Sources that WeatherEngine is connected to are asked for again, in some order.
UpdateAllSources(i, UpdateIonSource(_,_)) ==
    LET names == SetToSeq(i.used)
        updated[n \in 0..Cardinality(i.used)] ==
          IF n = 0 THEN i ELSE UpdateIonSource(updated[n - 1], names[n])
    IN  IF i.initialized THEN updated[Cardinality(i.used)] ELSE i

-----------------------------------------------------------------------------
(* Jobs *)

NoPlace == <<"", 0>>     \* of a job that is about no place; places are pairs too
Job(slot, p, st) == [slot |-> slot, place |-> p, station |-> st]

StartJob(i, job) == [i EXCEPT !.jobs = @ (+) SetToBag({job})]
EndJob(i, job) == [i EXCEPT !.jobs = @ (-) SetToBag({job})]

Running(i, slots) == {job \in BagToSet(i.jobs) : job.slot \in slots}
Count(i, slots) == MapThenSumSet(LAMBDA job : i.jobs[job], Running(i, slots))

=============================================================================
