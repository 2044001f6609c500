------------------------- MODULE PowermanagementEngine -------------------------
(***************************************************************************)
(* The power management engine (dataengines/powermanagement): a source for *)
(* each battery, "Battery" for all of them, and what the power service     *)
(* tells over D-Bus: the "Inhibitions", and values like the current one of *)
(* the "Power Profiles", which stands for the values of the other sources. *)
(* Its jobs ask the service to suppress the sleep or the screen, and keep  *)
(* the cookies.  All batteries are of one size, which leaves energies out. *)
(***************************************************************************)
EXTENDS Hardware

CONSTANTS
    BatteryName,       \* number -> the name of the source of a battery
    Suppressions,      \* what the jobs can suppress: the sleep, the screen
    NoCookie           \* the cookie -1

\* Sources that tell what the services say
OfService == {"Inhibitions", "Power Profiles"}

ASSUME NamesAssumption ==
    /\ DOMAIN BatteryName = 0 .. Cardinality(Udis)
    /\ \A m, n \in DOMAIN BatteryName : BatteryName[m] = BatteryName[n] => m = n
    /\ \A n \in DOMAIN BatteryName : BatteryName[n] \notin OfService \union {"Battery"}

ASSUME CookieAssumption == NoCookie \notin Nat \ {0}

\* init connects the signals of a service that is registered.
NewPowermanagementEngine(registered) ==
    [data |-> [s \in {} |-> NoData],
     listening |-> registered,
     batterySources |-> [u \in {} |-> NoData],              \* m_batterySources
     cookie |-> [what \in Suppressions |-> NoCookie]]       \* of PowerManagementJob

Names(e) == {e.batterySources[u] : u \in DOMAIN e.batterySources}

\* The sources of batteries that the hash can name
BatteryNames == {BatteryName[n] : n \in DOMAIN BatteryName}

PowerSupplies(h) == {u \in List(h, "battery") : "supply" \in Interfaces[u]}

\* qRound of the average, and 0 of nothing
Average(f) ==
    LET n == Cardinality(DOMAIN f)
    IN  IF n = 0 THEN 0 ELSE (2 * SumFunction(f) + n) \div (2 * n)

OverallPercent(h) == Average([u \in PowerSupplies(h) |-> h[u].percent])

OverallState(h) ==
    LET states == {h[u].charge : u \in PowerSupplies(h)}
    IN  CASE states = {} -> "Unknown"
          [] states = {"FullyCharged"} -> "FullyCharged"
          [] "Charging" \in states -> "Charging"
          [] "NoCharge" \in states /\ "Charging" \notin states -> "NoCharge"
          [] OTHER -> "Discharging"

\* updateOverallBattery
UpdateOverallBattery(e, h) ==
    SetData(e, "Battery", [percent |-> OverallPercent(h), charge |-> OverallState(h),
                           hasCumulative |-> PowerSupplies(h) # {}])

\* updateBatteryChargePercent, updateBatteryChargeState and the other values at once
SetBatteries(e, h, us) ==
    LET of == [s \in {e.batterySources[u] : u \in us} |-> CHOOSE u \in us : e.batterySources[u] = s]
    IN  UpdateOverallBattery(SetEach(e, [s \in DOMAIN of |-> [percent |-> h[of[s]].percent,
                                                               charge |-> h[of[s]].charge]]), h)

SetBattery(e, h, u) == SetBatteries(e, h, {u})

\* The signals of a battery are connected as long as it is in the hash.
BatteryChanged(e, h, u) == IF u \in DOMAIN e.batterySources THEN SetBattery(e, h, u) ELSE e

SetSources(e) == SetData(e, "Battery", [sources |-> Names(e), hasBattery |-> Names(e) # {}])

\* The source "Battery" is requested: the batteries are numbered from 0.
RequestBattery(e, h) ==
    LET found == List(h, "battery")
        number == CHOOSE f \in Injection(found, 0 .. Cardinality(found) - 1) : TRUE
        named == [e EXCEPT !.batterySources = [u \in found |-> BatteryName[number[u]]]]
    IN  IF found = {} THEN SetData(named, "Battery", [hasBattery |-> FALSE, hasCumulative |-> FALSE])
        ELSE SetSources(SetBatteries(named, h, found))

\* Mutant: the number of batteries is taken for the next free name.
BatteryAddedNext(e, h, u) ==
    LET named == [e EXCEPT !.batterySources = Over([v \in {u} |-> BatteryName[Cardinality(DOMAIN @)]], @)]
    IN  IF Is(h, u, "battery") THEN UpdateOverallBattery(SetSources(SetBattery(named, h, u)), h) ELSE e

\* deviceAdded, with the least name that is free
BatteryAdded(e, h, u) ==
    LET free == CHOOSE n \in DOMAIN BatteryName :
                    /\ BatteryName[n] \notin Names(e)
                    /\ \A m \in 0 .. n - 1 : BatteryName[m] \in Names(e)
        named == [e EXCEPT !.batterySources = Over([v \in {u} |-> BatteryName[free]], @)]
    IN  IF Is(h, u, "battery") THEN UpdateOverallBattery(SetSources(SetBattery(named, h, u)), h) ELSE e

\* deviceRemoved
BatteryRemoved(e, h, u) ==
    LET gone == [e EXCEPT !.batterySources = [v \in DOMAIN @ \ {u} |-> @[v]]]
    IN  IF u \notin DOMAIN e.batterySources THEN e
        ELSE UpdateOverallBattery(SetSources(RemoveSource(gone, e.batterySources[u])), h)

\* Mutant: what ended is left in the source when something began as well.
InhibitionsChangedAdd(e, added, removed) ==
    SetData(RemoveData(e, "Inhibitions", IF added = {} THEN removed ELSE {}), "Inhibitions",
            [who \in added |-> TRUE])

\* inhibitionsChanged; nothing added creates no source.
InhibitionsChanged(e, added, removed) ==
    LET less == RemoveData(e, "Inhibitions", removed)
    IN  IF added = {} THEN less ELSE SetData(less, "Inhibitions", [who \in added |-> TRUE])

\* The answer to ListInhibitions, which the request of the source asks for
InhibitionsListed(e, listed) == InhibitionsChanged(RemoveAllData(e, "Inhibitions"), listed, {})

\* updatePowerProfileCurrentProfile and its like, for the answer and for the signal
UpdateProfile(e, profile) == SetData(e, "Power Profiles", [current |-> profile])

\* The request of the source says at once whether there are profiles.
RequestProfiles(e) == SetData(e, "Power Profiles", [installed |-> TRUE])

\* PowerManagementJob::start: a suppression is asked for once.
MayBegin(e, what) == e.cookie[what] = NoCookie

SuppressionBegun(e, what, cookie) == [e EXCEPT !.cookie[what] = cookie]

SuppressionStopped(e, what, ok) == IF ok THEN [e EXCEPT !.cookie[what] = NoCookie] ELSE e

=============================================================================
