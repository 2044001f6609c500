--------------------------- MODULE MCWeatherEngine ---------------------------
(* The ions of the weather engine for TLC: two places of one name. *)
EXTENDS WeatherEngine

York == <<"York", 1>>
OtherYork == <<"York", 2>>
Text == <<"Yo", 1>>
OtherText == <<"Yor", 1>>

MCPlaces == {York, OtherYork, Text}

AllIons == {"bbcukmet", "dwd", "wettercom", "noaa", "envcan"}
WeatherOf == WeatherSource(York, "st1")
WeatherOfOther == WeatherSource(OtherYork, "st2")
Search == ValidateSource(Text)
OtherSearch == ValidateSource(OtherText)

\* Weather with an outage or a failure, a search with one, both without; two places
\* where they share something; two failures where one changes most
MCScenarios ==
    {[ions |-> AllIons, asked |-> {WeatherOf}, faults |-> 1],
     [ions |-> AllIons, asked |-> {Search}, faults |-> 1],
     [ions |-> {"bbcukmet", "dwd", "wettercom"}, asked |-> {WeatherOf, Search}, faults |-> 0],
     [ions |-> {"bbcukmet", "wettercom"}, asked |-> {WeatherOf, WeatherOfOther}, faults |-> 0],
     [ions |-> {"wettercom"}, asked |-> {WeatherOf}, faults |-> 2]}

\* A source of Environment Canada, and one outage
MCSetup == {[ions |-> {"envcan"}, asked |-> {WeatherOf}, faults |-> 1]}

\* Two searches with BBC Weather, one after the other or at a time: with these as Scenarios,
\* and MCSearchPlaces as Places, SearchAnswered is violated.
MCSearchPlaces == MCPlaces \union {OtherText}
MCSearches == {[ions |-> {"bbcukmet"}, asked |-> {Search, OtherSearch}, faults |-> 0]}

\* A search with DWD, whose catalogue fails to come: with these, and CatalogueFails = TRUE,
\* SearchAnswered is violated.
MCCatalogueSearch == {[ions |-> {"dwd"}, asked |-> {Search}, faults |-> 1]}

\* Two Yorks, always found in this order
First == [name |-> "York", id |-> "st1"]
Second == [name |-> "York", id |-> "st2"]
MCUKMETResults == {<<>>, <<First, Second>>}
MCUKMETObservations ==
    {[station |-> TRUE, observed |-> TRUE, measures |-> {"Temperature"}],
     [station |-> FALSE, observed |-> TRUE, measures |-> {}]}
MCWetterComResults == {<<>>, <<[name |-> York, id |-> "st1"], [name |-> OtherYork, id |-> "st2"]>>}

MCCatalogue == York :> "st1" @@ OtherYork :> "st2"
MCMatches == [p \in Places |-> {York, OtherYork}]
MCPointInfos == {[forecast |-> TRUE, county |-> TRUE], [forecast |-> TRUE, county |-> FALSE]}

MCSiteReports ==
    {<<[name |-> "location"],
       [name |-> "currentConditions", measures |-> {"Temperature"}],
       [name |-> "warnings", complete |-> TRUE],
       [name |-> "forecastGroup", days |-> 2, normals |-> TRUE]>>,
     <<[name |-> "riseSet"], [name |-> "almanac"], [name |-> "yesterdayConditions"],
       [name |-> "currentConditions", measures |-> {}],
       [name |-> "warnings", complete |-> FALSE]>>}

ASSUME NamesAgree

=============================================================================
