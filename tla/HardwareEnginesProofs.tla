------------------------- MODULE HardwareEnginesProofs -------------------------
(***************************************************************************)
(* What the engines for devices and power show is what the hardware and    *)
(* the services are like, for every set of devices, queries, actions and   *)
(* applications.  Each invariant is about one of the plugins, and has an   *)
(* inductive invariant of its own; Frame is what all of them rest on.      *)
(***************************************************************************)
EXTENDS HardwareEngines, SubsequenceProofs, FiniteSetTheorems, FunctionTheorems

---------------------------------------------------------------------------
(* The data of an engine *)

\* setData of several sources changes these and nothing else.
LEMMA SetEachEffect ==
  ASSUME NEW e, NEW what, "data" \in DOMAIN e
  PROVE  LET f == SetEach(e, what)
         IN  /\ DOMAIN f = DOMAIN e
             /\ \A k \in DOMAIN e : k # "data" => f[k] = e[k]
             /\ DOMAIN f.data = DOMAIN e.data \union DOMAIN what
             /\ \A s \in DOMAIN e.data : s \notin DOMAIN what => f.data[s] = e.data[s]
             /\ \A s \in DOMAIN what : f.data[s] = Over(what[s], DataOf(e, s))
  BY DEF SetEach, Over

LEMMA SetDataEffect ==
  ASSUME NEW e, NEW source, NEW what, "data" \in DOMAIN e
  PROVE  LET f == SetData(e, source, what)
         IN  /\ DOMAIN f = DOMAIN e
             /\ \A k \in DOMAIN e : k # "data" => f[k] = e[k]
             /\ DOMAIN f.data = DOMAIN e.data \union {source}
             /\ \A s \in DOMAIN e.data : s # source => f.data[s] = e.data[s]
             /\ f.data[source] = Over(what, DataOf(e, source))
  <1> DEFINE c == [s \in {source} |-> what]
  <1>1. DOMAIN c = {source} /\ c[source] = what
    OBVIOUS
  <1> QED
    BY <1>1, SetEachEffect DEF SetData

LEMMA RemoveSourcesEffect ==
  ASSUME NEW e, NEW sources, "data" \in DOMAIN e
  PROVE  LET f == RemoveSources(e, sources)
         IN  /\ DOMAIN f = DOMAIN e
             /\ \A k \in DOMAIN e : k # "data" => f[k] = e[k]
             /\ DOMAIN f.data = DOMAIN e.data \ sources
             /\ \A s \in DOMAIN e.data \ sources : f.data[s] = e.data[s]
  BY DEF RemoveSources

\* The keys that are set have the new values, and the others what they had.
LEMMA OverSays ==
  ASSUME NEW f, NEW g
  PROVE  /\ DOMAIN Over(f, g) = DOMAIN f \union DOMAIN g
         /\ \A x \in DOMAIN f : Over(f, g)[x] = f[x]
         /\ \A x \in DOMAIN g : x \notin DOMAIN f => Over(f, g)[x] = g[x]
  BY DEF Over

LEMMA AppendedSet ==
  ASSUME NEW V, NEW s \in Seq(V), NEW x \in V
  PROVE  Append(s, x) \in Seq(V) /\ ToSet(Append(s, x)) = ToSet(s) \union {x}
  <1>1. /\ Append(s, x) \in Seq(V) /\ Len(Append(s, x)) = Len(s) + 1
        /\ \A n \in 1 .. Len(s) : Append(s, x)[n] = s[n]
        /\ Append(s, x)[Len(s) + 1] = x
    OBVIOUS
  <1>2. DOMAIN s = 1 .. Len(s) /\ DOMAIN Append(s, x) = 1 .. Len(s) + 1
    OBVIOUS
  <1>3. 1 .. Len(s) + 1 = (1 .. Len(s)) \union {Len(s) + 1}
    OBVIOUS
  <1> QED
    BY <1>1, <1>2, <1>3 DEF ToSet

---------------------------------------------------------------------------
(* What all the invariants rest on *)

DeviceFields == {"accessible", "job", "size", "percent", "charge"}

\* The hardware is a function from udis to records, and applications show what the engine has
\* on request.
Frame ==
    /\ plugin \in AllPlugins
    /\ DOMAIN hardware \subseteq Udis
    /\ \A u \in DOMAIN hardware : DOMAIN hardware[u] = DeviceFields
    /\ shown \subseteq Requestable(plugin)

LEMMA FrameInit == Init => Frame
  <1> SUFFICES ASSUME Init PROVE Frame
    OBVIOUS
  <1>1. plugin \in AllPlugins
    BY EnginesAssumption DEF Init
  <1>2. PICK there \in SUBSET Devices[plugin] : hardware = [u \in there |-> Plugged]
    BY DEF Init
  <1> QED
    BY <1>1, <1>2, EnginesAssumption DEF Init, Frame, Plugged, DeviceFields

LEMMA FrameStep == Frame /\ [Next]_vars => Frame'
  <1> SUFFICES ASSUME Frame, [Next]_vars PROVE Frame'
    OBVIOUS
  <1>1. ASSUME NEW e, Engine(e), plugin' = plugin PROVE shown' \subseteq Requestable(plugin')
    BY <1>1 DEF Engine, StillShown, Frame
  <1>2. ASSUME NEW u \in Udis, Plug(u) PROVE Frame'
    BY <1>1, <1>2 DEF Plug, DeviceComes, Frame, Over, Plugged, DeviceFields
  <1>3. ASSUME NEW u \in Udis, AnnounceAgain(u) PROVE Frame'
    BY <1>1, <1>3 DEF AnnounceAgain, DeviceComes, Frame
  <1>4. ASSUME NEW u \in Udis, Unplug(u) PROVE Frame'
    BY <1>1, <1>4 DEF Unplug, Frame, DeviceFields
  <1>5. ASSUME NEW u \in Udis, RequestSetup(u) PROVE Frame'
    BY <1>1, <1>5 DEF RequestSetup, Frame, DeviceFields
  <1>6. ASSUME NEW u \in Udis, NEW error, SetupDone(u, error) PROVE Frame'
    BY <1>1, <1>6 DEF SetupDone, Frame, DeviceFields
  <1>7. ASSUME NEW u \in Udis, PercentChange(u) PROVE Frame'
    BY <1>1, <1>7 DEF PercentChange, Frame, DeviceFields
  <1>8. ASSUME NEW u \in Udis, NEW size, SizeChange(u, size) PROVE Frame'
    BY <1>1, <1>8 DEF SizeChange, Frame, DeviceFields
  <1>9. ASSUME NEW u \in Udis, NEW charge, ChargeChange(u, charge) PROVE Frame'
    BY <1>1, <1>9 DEF ChargeChange, Frame, DeviceFields
  <1>10. ASSUME NEW source \in Requested, Connect(source) PROVE Frame'
    <2>1. source \in Requestable(plugin)
      BY EnginesAssumption DEF Requested, Frame
    <2> QED
      BY <1>10, <2>1 DEF Connect, Frame
  <1>11. ASSUME NEW source, Leave(source) \/ Poll(source) PROVE Frame'
    BY <1>1, <1>11 DEF Leave, Poll, Frame
  <1>12. ASSUME EngineNext PROVE Frame'
    BY <1>1, <1>12 DEF EngineNext, StartupDevice, FreeSpaceKnown, FilesChange, StartupEnds, DirWatch, BlockingAppsKnown, Frame
  <1>13. ASSUME ServiceNext PROVE Frame'
    BY <1>13 DEF ServiceNext, InhibitionChange, ProfileChange, ServiceAnswers, MessageArrives,
                 BeginSuppressing, StopSuppressing, Frame
  <1>14. CASE UNCHANGED vars
    BY <1>14 DEF vars, Frame
  <1> QED
    BY <1>2, <1>3, <1>4, <1>5, <1>6, <1>7, <1>8, <1>9, <1>10, <1>11, <1>12, <1>13, <1>14
    DEF Next, HardwareNext, ApplicationNext

LEMMA Framed == Spec => []Frame
  BY FrameInit, FrameStep, PTL DEF Spec

---------------------------------------------------------------------------
(* Device notifications *)

NotifyFields == {"data", "devices", "waiting", "queries"}

\* The error in the notification of a device with this last reply
ErrorOf(reply) == IF reply = "Removable" THEN "NoError" ELSE reply

\* The notification of a device fits the last reply.
Fits(u) ==
    /\ replies[u] \in {"None", "NoError"} => u \notin DOMAIN engine.data
    /\ replies[u] \notin {"None", "NoError"} =>
          u \in DOMAIN engine.data /\ engine.data[u].error = ErrorOf(replies[u])

\* Devices that wait for an answer had an unmount that failed, and the notifications of all
\* others fit, whichever processes run.
NotificationInv ==
    plugin = "devicenotifications" =>
        /\ DOMAIN engine = NotifyFields /\ DOMAIN replies = Udis
        /\ engine.waiting \in Seq(Udis)
        /\ \A u \in ToSet(engine.waiting) : replies[u] = "DeviceBusy"
        /\ \A u \in DOMAIN hardware \ ToSet(engine.waiting) : Fits(u)

LEMMA NotificationSteps ==
  ASSUME plugin = "devicenotifications", Frame, Next
  PROVE  \/ \E u \in Udis : \/ Plug(u) \/ Unplug(u) \/ RequestSetup(u)
                            \/ \E error \in {"NoError", "DeviceBusy", "UserCanceled", "OperationFailed"} :
                                  SetupDone(u, error)
         \/ \E i, failed : BlockingAppsKnown(i, failed)
  <1>1. shown = {} /\ Requested = {}
    BY EnginesAssumption DEF Frame, Requestable, Requested, AllPlugins
  <1>2. ~ApplicationNext
    BY <1>1 DEF ApplicationNext
  <1>3. ~ServiceNext
    BY DEF ServiceNext, InhibitionChange, ProfileChange, ServiceAnswers, MessageArrives, BeginSuppressing,
           StopSuppressing
  <1>4. EngineNext => \E i, failed : BlockingAppsKnown(i, failed)
    BY DEF EngineNext, StartupDevice, FreeSpaceKnown, FilesChange, StartupEnds, DirWatch
  <1>5. ASSUME NEW u \in Udis
        PROVE  /\ ~AnnounceAgain(u) /\ ~PercentChange(u)
               /\ \A size : ~SizeChange(u, size)
               /\ \A charge : ~ChargeChange(u, charge)
    BY DEF AnnounceAgain, PercentChange, SizeChange, ChargeChange
  <1> QED
    BY <1>2, <1>3, <1>4, <1>5 DEF Next, HardwareNext

LEMMA NotifyEachEffect ==
  ASSUME NEW e, NEW us, NEW error, NEW apps, DOMAIN e = NotifyFields
  PROVE  LET f == NotifyEach(e, us, error, apps)
         IN  /\ DOMAIN f = NotifyFields
             /\ f.waiting = e.waiting /\ f.queries = e.queries
             /\ DOMAIN f.data = DOMAIN e.data \union us
             /\ \A v \in DOMAIN e.data \ us : f.data[v] = e.data[v]
             /\ \A v \in us : f.data[v].error = error /\ f.data[v].apps = apps
  <1> DEFINE c == [u \in us |-> [error |-> error, apps |-> apps]]
             f == NotifyEach(e, us, error, apps)
  <1>1. f = SetEach(e, c)
    BY DEF NotifyEach
  <1>2. "data" \in DOMAIN e
    BY DEF NotifyFields
  <1>3. DOMAIN c = us
    OBVIOUS
  <1>4. \A v \in us : /\ DOMAIN c[v] = {"error", "apps"}
                      /\ c[v]["error"] = error /\ c[v]["apps"] = apps
    OBVIOUS
  <1> HIDE DEF c
  <1>5. \A v \in us : f.data[v] = Over(c[v], DataOf(e, v))
    BY <1>1, <1>2, <1>3, SetEachEffect
  <1>6. ASSUME NEW v \in us PROVE f.data[v]["error"] = error /\ f.data[v]["apps"] = apps
    <2> DEFINE g == DataOf(e, v)
    <2>1. \A x \in DOMAIN c[v] : Over(c[v], g)[x] = c[v][x]
      BY OverSays
    <2> QED
      BY <1>4, <1>5, <2>1
  <1> QED
    BY <1>1, <1>2, <1>3, <1>6, SetEachEffect DEF NotifyFields

LEMMA ClearNotificationEffect ==
  ASSUME NEW e, NEW u, DOMAIN e = NotifyFields
  PROVE  LET f == ClearNotification(e, u)
         IN  /\ DOMAIN f = NotifyFields
             /\ f.waiting = e.waiting /\ f.queries = e.queries
             /\ DOMAIN f.data = DOMAIN e.data \ {u}
             /\ \A v \in DOMAIN e.data \ {u} : f.data[v] = e.data[v]
  BY RemoveSourcesEffect DEF ClearNotification, RemoveSource, NotifyFields

LEMMA NotificationInit == Init => NotificationInv
  <1> SUFFICES ASSUME Init, plugin = "devicenotifications" PROVE NotificationInv
    BY DEF NotificationInv
  <1>1. engine = NewKSolidNotify(hardware) /\ replies = [u \in Udis |-> "None"]
    BY DEF Init
  <1>2. /\ DOMAIN engine = NotifyFields /\ DOMAIN engine.data = {}
        /\ engine.waiting = <<>>
    BY <1>1 DEF NewKSolidNotify, NotifyFields, NoData
  <1>3. engine.waiting \in Seq(Udis) /\ ToSet(engine.waiting) = {}
    BY <1>2 DEF ToSet
  <1> QED
    BY <1>1, <1>2, <1>3, FrameInit DEF NotificationInv, Fits, Frame

LEMMA NotificationStep ==
  ASSUME "answerFirst" \in Assumed, Frame, NotificationInv, [Next]_vars
  PROVE  NotificationInv'
  <1> SUFFICES ASSUME plugin = "devicenotifications", plugin' = plugin PROVE NotificationInv'
    <2>1. plugin' = plugin
      BY ZenonT(60) DEF Next, vars, HardwareNext, ApplicationNext, EngineNext, ServiceNext, Plug, AnnounceAgain, Unplug,
             RequestSetup, SetupDone, PercentChange, SizeChange, ChargeChange, Connect, Leave, Poll,
             StartupDevice, FreeSpaceKnown, FilesChange, StartupEnds, DirWatch, BlockingAppsKnown, InhibitionChange,
             ProfileChange, ServiceAnswers, MessageArrives, BeginSuppressing, StopSuppressing
    <2> QED
      BY <2>1 DEF NotificationInv
  <1> DEFINE waiting == ToSet(engine.waiting)
  <1>0. /\ DOMAIN engine = NotifyFields /\ DOMAIN replies = Udis
        /\ engine.waiting \in Seq(Udis)
        /\ \A u \in waiting : replies[u] = "DeviceBusy"
        /\ \A u \in DOMAIN hardware \ waiting : Fits(u)
    BY DEF NotificationInv
  <1>1. ASSUME NEW u \in Udis, Plug(u) PROVE NotificationInv'
    <2> DEFINE f == NotifyAdded(engine, u)
    <2>1. /\ engine' = f /\ u \notin waiting /\ replies' = [replies EXCEPT ![u] = "None"]
          /\ DOMAIN hardware' = DOMAIN hardware \union {u}
      BY <1>1 DEF Plug, DeviceComes, Engine, Awaited, Over
    <2>2. /\ DOMAIN f = NotifyFields /\ f.waiting = engine.waiting
          /\ DOMAIN f.data = DOMAIN engine.data \ {u}
          /\ \A v \in DOMAIN engine.data \ {u} : f.data[v] = engine.data[v]
      BY <1>0, ClearNotificationEffect DEF NotifyAdded, NotifyFields
    <2>3. waiting' = waiting
      BY <2>1, <2>2
    <2>4. ASSUME NEW v \in DOMAIN hardware' \ waiting PROVE Fits(v)'
      <3>1. v # u => Fits(v)
        BY <1>0, <2>1, <2>4
      <3> QED
        BY <1>0, <2>1, <2>2, <3>1 DEF Fits
    <2>5. \A v \in waiting : replies'[v] = "DeviceBusy"
      BY <1>0, <2>1
    <2> HIDE DEF waiting, f
    <2> QED
      BY <1>0, <2>1, <2>2, <2>3, <2>4, <2>5 DEF NotificationInv, waiting
  <1>2. ASSUME NEW u \in Udis, Unplug(u) PROVE NotificationInv'
    <2>1. /\ engine' = NotifyRemoved(engine, u) /\ replies' = replies
          /\ DOMAIN hardware' \subseteq DOMAIN hardware
      BY <1>2 DEF Unplug, Engine
    <2>2. /\ DOMAIN engine' = NotifyFields /\ engine'.waiting = engine.waiting /\ engine'.data = engine.data
      BY <1>0, <2>1 DEF NotifyRemoved, NotifyFields
    <2> QED
      BY <1>0, <2>1, <2>2 DEF NotificationInv, Fits
  <1>3. ASSUME NEW u \in Udis, RequestSetup(u) PROVE NotificationInv'
    <2>1. engine' = engine /\ replies' = replies /\ DOMAIN hardware' = DOMAIN hardware
      BY <1>3 DEF RequestSetup, Engine
    <2> QED
      BY <1>0, <2>1 DEF NotificationInv, Fits
  <1>4. ASSUME NEW u \in Udis, NEW error \in {"NoError", "DeviceBusy", "UserCanceled", "OperationFailed"},
               SetupDone(u, error)
        PROVE  NotificationInv'
    <2> DEFINE type == IF hardware[u].job = "Unmounting" THEN "Teardown" ELSE "Setup"
    <2>1. PICK done : /\ engine' = OnSolidReply(engine, done, u, type, error)
                      /\ replies' = [replies EXCEPT ![u] =
                            CASE error = "UserCanceled" -> @
                              [] error = "NoError" /\ type = "Teardown" ->
                                    IF IsSafelyRemovable(done, u) THEN "Removable" ELSE @
                              [] OTHER -> error]
      BY <1>4 DEF SetupDone, Engine
    <2>2. u \notin waiting /\ u \in DOMAIN hardware /\ DOMAIN hardware' = DOMAIN hardware
      BY <1>4 DEF SetupDone, Awaited
    <2> HIDE DEF type
    <2>3. type \in {"Setup", "Teardown"}
      BY DEF type
    <2>4. /\ DOMAIN replies' = Udis
          /\ \A v \in Udis : v # u => replies'[v] = replies[v]
      BY <1>0, <2>1
    <2>5. ASSUME error = "DeviceBusy", type = "Teardown" PROVE NotificationInv'
      <3>1. engine' = [engine EXCEPT !.waiting = Append(@, u), !.queries = Append(@, u)]
        BY <2>1, <2>5 DEF OnSolidReply
      <3>2. /\ DOMAIN engine' = NotifyFields /\ engine'.data = engine.data
            /\ engine'.waiting = Append(engine.waiting, u)
        BY <1>0, <3>1 DEF NotifyFields
      <3>3. engine'.waiting \in Seq(Udis) /\ waiting' = waiting \union {u}
        BY <1>0, <3>2, AppendedSet
      <3>4. replies'[u] = "DeviceBusy"
        BY <1>0, <2>1, <2>5
      <3>5. \A v \in DOMAIN hardware' \ waiting' : Fits(v)'
        BY <1>0, <2>2, <2>4, <3>2, <3>3 DEF Fits, Frame
      <3>6. waiting \subseteq Udis /\ \A v \in waiting : replies[v] = "DeviceBusy"
        BY <1>0 DEF ToSet
      <3> HIDE DEF waiting
      <3>7. ASSUME NEW v \in waiting' PROVE replies'[v] = "DeviceBusy"
        <4>1. v = u \/ (v \in waiting /\ v # u)
          BY <3>3, <3>7
        <4> QED
          BY <2>4, <3>4, <3>6, <4>1
      <3> USE DEF waiting
      <3> QED
        BY <2>4, <3>2, <3>3, <3>5, <3>7 DEF NotificationInv
    <2>6. ASSUME ~(error = "DeviceBusy" /\ type = "Teardown") PROVE NotificationInv'
      <3>1. \/ engine' = engine /\ replies'[u] = replies[u]
            \/ engine' = ClearNotification(engine, u) /\ replies'[u] = "NoError"
            \/ /\ engine' = Notify(engine, u, error, {})
               /\ replies'[u] \notin {"None", "NoError"} /\ ErrorOf(replies'[u]) = error
        BY <1>0, <2>1, <2>3, <2>6 DEF OnSolidReply, ErrorOf
      <3>2. /\ DOMAIN engine' = NotifyFields /\ engine'.waiting = engine.waiting
            /\ \A v \in DOMAIN engine.data \ {u} : v \in DOMAIN engine'.data /\ engine'.data[v] = engine.data[v]
            /\ DOMAIN engine'.data \subseteq DOMAIN engine.data \union {u}
        BY <1>0, <3>1, NotifyEachEffect, ClearNotificationEffect DEF Notify
      <3>3. Fits(u)'
        <4>1. CASE engine' = engine /\ replies'[u] = replies[u]
          BY <1>0, <2>2, <4>1 DEF Fits
        <4>2. CASE engine' = ClearNotification(engine, u) /\ replies'[u] = "NoError"
          BY <1>0, <4>2, ClearNotificationEffect DEF Fits
        <4>3. CASE /\ engine' = Notify(engine, u, error, {})
                   /\ replies'[u] \notin {"None", "NoError"} /\ ErrorOf(replies'[u]) = error
          BY <1>0, <4>3, NotifyEachEffect DEF Fits, Notify
        <4> QED
          BY <3>1, <4>1, <4>2, <4>3
      <3>4. ASSUME NEW v \in DOMAIN hardware \ waiting, v # u PROVE Fits(v)'
        <4>1. Fits(v) /\ v \in Udis
          BY <1>0, <3>4 DEF Frame
        <4> QED
          BY <2>4, <3>2, <3>4, <4>1 DEF Fits
      <3>5. \A v \in waiting : replies'[v] = "DeviceBusy"
        BY <1>0, <2>2, <2>4 DEF ToSet
      <3>6. waiting' = waiting
        BY <3>2
      <3> HIDE DEF waiting
      <3> QED
        BY <1>0, <2>2, <2>4, <3>2, <3>3, <3>4, <3>5, <3>6 DEF NotificationInv, waiting
    <2> QED
      BY <2>5, <2>6
  <1>5. ASSUME NEW i, NEW failed, BlockingAppsKnown(i, failed) PROVE NotificationInv'
    <2> DEFINE e == [engine EXCEPT !.queries = RemoveAt(@, i)]
               g == [e EXCEPT !.waiting = <<>>]
               apps == IF failed THEN {} ELSE {engine.queries[i]}
    <2>1. engine' = NotifyEach(g, ToSet(e.waiting), "DeviceBusy", apps) /\ UNCHANGED <<hardware, replies>>
      BY <1>5 DEF BlockingAppsKnown, Engine, QueryFinished, BlockingAppsReady
    <2>2. /\ DOMAIN g = NotifyFields /\ g.data = engine.data /\ g.waiting = <<>>
          /\ e.waiting = engine.waiting
      BY <1>0 DEF NotifyFields
    <2> HIDE DEF g, e, apps
    <2>3. /\ DOMAIN engine' = NotifyFields /\ engine'.waiting = <<>>
          /\ DOMAIN engine'.data = DOMAIN engine.data \union waiting
          /\ \A v \in DOMAIN engine.data \ waiting : engine'.data[v] = engine.data[v]
          /\ \A v \in waiting : engine'.data[v].error = "DeviceBusy"
      BY <2>1, <2>2, NotifyEachEffect
    <2>4. ASSUME NEW v \in DOMAIN hardware PROVE Fits(v)'
      <3>1. CASE v \in waiting
        BY <1>0, <2>1, <2>3, <3>1 DEF Fits, ErrorOf
      <3>2. CASE v \notin waiting
        BY <1>0, <2>1, <2>3, <3>2 DEF Fits
      <3> QED
        BY <3>1, <3>2
    <2>5. engine'.waiting \in Seq(Udis) /\ waiting' = {}
      BY <2>3 DEF ToSet
    <2> QED
      BY <1>0, <2>1, <2>3, <2>4, <2>5 DEF NotificationInv
  <1>6. CASE UNCHANGED vars
    BY <1>6 DEF vars, NotificationInv, Fits
  <1> QED
    BY <1>1, <1>2, <1>3, <1>4, <1>5, <1>6, NotificationSteps

\* When nothing is replied about a device that waits for lsof, and it is not plugged in anew
\* either, its notification is about the last reply with something to say, for any number of
\* devices and processes, in any order (KSolidNotify::onSolidReply, blockingAppsReady).
THEOREM NotifiesOfTheLast == ASSUME "answerFirst" \in Assumed PROVE Spec => []NotificationIsLast
  <1>1. Frame /\ NotificationInv /\ [Next]_vars => NotificationInv'
    BY NotificationStep
  <1>2. NotificationInv => NotificationIsLast
    BY DEF NotificationInv, NotificationIsLast, Fits, ErrorOf
  <1> QED
    BY <1>1, <1>2, NotificationInit, Framed, PTL DEF Spec

---------------------------------------------------------------------------
(* The hotplug engine *)

HotplugFields == {"data", "devices", "startList", "predicates", "starting"}

\* The files that are for a device
Applicable(u, fs) == {f \in fs : Actions[f] \in Interfaces[u]}

\* The source of a device that is not skipped is there, and says what the files say.
Shows(e, u, fs) ==
    /\ u \in DOMAIN e.data <=> Applicable(u, fs) # {} \/ Encrypted(u)
    /\ Applicable(u, fs) # {} => e.data[u].predicateFiles = Applicable(u, fs)

\* The engine with the devices it has handled: only these have sources, the encrypted ones
\* always, and all of them the right ones unless the files have changed since.
HotplugFits(e, handled, fs, changed) ==
    /\ DOMAIN e = HotplugFields
    /\ e.devices = {u \in handled : ~Skipped(u)}
    /\ DOMAIN e.data \subseteq e.devices
    /\ \A u \in e.devices : Encrypted(u) => u \in DOMAIN e.data
    /\ ~changed => /\ e.predicates # {} => e.predicates \ {NoAction} = fs
                   /\ \A u \in e.devices : Shows(e, u, fs)

HotplugInv ==
    plugin = "hotplug" =>
        /\ files \subseteq DOMAIN Actions
        /\ engine.startList \subseteq DOMAIN hardware
        /\ HotplugFits(engine, DOMAIN hardware \ engine.startList, files, unseen)

LEMMA FindPredicatesEffect ==
  ASSUME NEW e, NEW fs \in SUBSET DOMAIN Actions, DOMAIN e = HotplugFields
  PROVE  LET f == FindPredicates(e, fs)
         IN  /\ DOMAIN f = HotplugFields
             /\ f.data = e.data /\ f.devices = e.devices /\ f.startList = e.startList
             /\ f.predicates # {} /\ f.predicates \ {NoAction} = fs
  BY ActionsAssumption DEF FindPredicates, HotplugFields

\* handleDeviceAdded leaves the engine right, with one more device handled.
LEMMA HandleDeviceAddedFits ==
  ASSUME NEW e, NEW handled, NEW fs \in SUBSET DOMAIN Actions, NEW changed, NEW u,
         NEW added, HotplugFits(e, handled, fs, changed)
  PROVE  LET f == HandleDeviceAdded(e, fs, u, added)
         IN  HotplugFits(f, handled \union {u}, fs, changed) /\ f.startList = e.startList
  <1> DEFINE f == HandleDeviceAdded(e, fs, u, added)
             known == [e EXCEPT !.devices = @ \union {u}]
             found == IF e.predicates = {} THEN FindPredicates(known, fs) ELSE known
             P == PredicatesForDevice(found, u)
             g == SetData(found, u, Description(found, u, added))
  <1>1. CASE Skipped(u)
    BY <1>1 DEF HandleDeviceAdded, HotplugFits
  <1>2. CASE ~Skipped(u)
    <2>1. /\ DOMAIN known = HotplugFields /\ known.data = e.data /\ known.devices = e.devices \union {u}
          /\ known.startList = e.startList /\ known.predicates = e.predicates
      BY DEF HotplugFits, HotplugFields
    <2>2. /\ DOMAIN found = HotplugFields /\ found.data = e.data /\ found.devices = e.devices \union {u}
          /\ found.startList = e.startList
          /\ ~changed => found.predicates \ {NoAction} = fs
      <3>1. CASE e.predicates = {}
        <4>1. found = FindPredicates(known, fs)
          BY <3>1
        <4> HIDE DEF known, found
        <4> QED
          BY <2>1, <4>1, FindPredicatesEffect
      <3>2. CASE e.predicates # {}
        <4>1. found = known
          BY <3>2
        <4> HIDE DEF known, found
        <4> QED
          BY <2>1, <3>2, <4>1 DEF HotplugFits
      <3> QED
        BY <3>1, <3>2
    <2>3. f = IF P = {} /\ ~Encrypted(u) THEN found ELSE g
      BY <1>2 DEF HandleDeviceAdded
    <2>4. ~changed => P = Applicable(u, fs)
      BY <2>2 DEF PredicatesForDevice, Applicable
    <2> HIDE DEF found, known
    <2>5. /\ DOMAIN g = HotplugFields /\ DOMAIN g.data = DOMAIN e.data \union {u}
          /\ g.devices = found.devices /\ g.startList = found.startList /\ g.predicates = found.predicates
          /\ \A v \in DOMAIN e.data : v # u => g.data[v] = e.data[v]
      BY <2>2, SetDataEffect DEF HotplugFields
    <2>6. g.data[u].predicateFiles = P
      <3> DEFINE D == Description(found, u, added)
      <3>1. DOMAIN D = {"added", "predicateFiles", "encrypted"} /\ D.predicateFiles = P
        BY DEF Description
      <3> HIDE DEF D
      <3>2. g.data[u] = Over(D, DataOf(found, u))
        BY <2>2, SetDataEffect DEF HotplugFields, D
      <3>3. \A k \in DOMAIN D : Over(D, DataOf(found, u))[k] = D[k]
        BY OverSays
      <3> QED
        BY <3>1, <3>2, <3>3
    <2>7. /\ DOMAIN f = HotplugFields /\ f.devices = e.devices \union {u} /\ f.startList = e.startList
          /\ f.predicates = found.predicates
          /\ \A v \in DOMAIN e.data : v # u => v \in DOMAIN f.data /\ f.data[v] = e.data[v]
          /\ DOMAIN f.data \subseteq DOMAIN e.data \union {u}
          /\ Encrypted(u) => u \in DOMAIN f.data
      BY <2>2, <2>3, <2>5
    <2>8. ASSUME ~changed PROVE Shows(f, u, fs)
      <3>1. CASE P = {} /\ ~Encrypted(u)
        <4>1. u \notin DOMAIN e.data
          BY <2>4, <2>8, <3>1 DEF HotplugFits, Shows
        <4> QED
          BY <2>2, <2>3, <2>4, <2>8, <3>1, <4>1 DEF Shows
      <3>2. CASE ~(P = {} /\ ~Encrypted(u))
        BY <2>3, <2>4, <2>5, <2>6, <2>8, <3>2 DEF Shows
      <3> QED
        BY <3>1, <3>2
    <2>9. ASSUME ~changed, NEW v \in e.devices, v # u PROVE Shows(f, v, fs)
      BY <2>7, <2>9 DEF HotplugFits, Shows
    <2>10. f.devices = {v \in handled \union {u} : ~Skipped(v)}
      BY <1>2, <2>7 DEF HotplugFits
    <2> QED
      BY <2>2, <2>7, <2>8, <2>9, <2>10 DEF HotplugFits
  <1> QED
    BY <1>1, <1>2

\* processNextStartupDevice forgets the files after the last device, and reads them again
\* for the next one.
LEMMA StartupDeviceFits ==
  ASSUME NEW e, NEW handled, NEW fs \in SUBSET DOMAIN Actions, NEW changed, NEW u,
         HotplugFits(e, handled, fs, changed)
  PROVE  LET f == ProcessNextStartupDevice(e, fs, u)
         IN  /\ HotplugFits(f, handled \union {u}, fs, changed)
             /\ \A v : v \in f.startList <=> v \in e.startList /\ v # u
  <1> DEFINE g == HandleDeviceAdded(e, fs, u, FALSE)
             h == [g EXCEPT !.startList = @ \ {u}]
             f == ProcessNextStartupDevice(e, fs, u)
  <1>1. HotplugFits(g, handled \union {u}, fs, changed) /\ g.startList = e.startList
    <2>1. \A added : LET k == HandleDeviceAdded(e, fs, u, added)
                     IN  HotplugFits(k, handled \union {u}, fs, changed) /\ k.startList = e.startList
      BY HandleDeviceAddedFits
    <2> QED
      BY <2>1
  <1> HIDE DEF g
  <1>2. /\ DOMAIN h = HotplugFields /\ h.startList = e.startList \ {u}
        /\ h.devices = g.devices /\ h.data = g.data /\ h.predicates = g.predicates
    BY <1>1 DEF HotplugFits, HotplugFields
  <1>3. f = IF h.startList = {} THEN ForgetPredicates(h) ELSE h
    BY DEF ProcessNextStartupDevice, g
  <1> HIDE DEF h
  <1>4. /\ DOMAIN f = HotplugFields /\ f.startList = h.startList
        /\ f.devices = g.devices /\ f.data = g.data /\ f.predicates \in {g.predicates, {}}
    BY <1>2, <1>3 DEF HotplugFields, ForgetPredicates
  <1> QED
    BY <1>1, <1>2, <1>4 DEF HotplugFits, Shows

LEMMA OnDeviceRemovedFits ==
  ASSUME NEW e, NEW handled, NEW fs, NEW changed, NEW u,
         HotplugFits(e, handled, fs, changed), u \in e.startList => u \notin handled
  PROVE  LET f == OnDeviceRemoved(e, u)
         IN  /\ HotplugFits(f, handled \ {u}, fs, changed)
             /\ \A v : v \in f.startList <=> v \in e.startList /\ v # u
  <1> DEFINE f == OnDeviceRemoved(e, u)
  <1>1. CASE u \in e.startList
    <2>1. f = [e EXCEPT !.startList = @ \ {u}]
      BY <1>1 DEF OnDeviceRemoved
    <2>2. /\ DOMAIN f = HotplugFields /\ f.startList = e.startList \ {u}
          /\ f.devices = e.devices /\ f.data = e.data /\ f.predicates = e.predicates
      BY <2>1 DEF HotplugFits, HotplugFields
    <2> QED
      BY <1>1, <2>2 DEF HotplugFits, Shows
  <1>2. CASE u \notin e.startList
    <2> DEFINE g == [e EXCEPT !.devices = @ \ {u}]
    <2>1. /\ DOMAIN g = HotplugFields /\ g.startList = e.startList
          /\ g.devices = e.devices \ {u} /\ g.data = e.data /\ g.predicates = e.predicates
      BY DEF HotplugFits, HotplugFields
    <2>2. f = RemoveSources(g, {u})
      BY <1>2 DEF OnDeviceRemoved, RemoveSource
    <2> HIDE DEF g
    <2>3. /\ DOMAIN f = HotplugFields /\ f.startList = e.startList
          /\ f.devices = e.devices \ {u} /\ f.predicates = e.predicates
          /\ DOMAIN f.data = DOMAIN e.data \ {u}
          /\ \A v \in DOMAIN e.data \ {u} : f.data[v] = e.data[v]
      BY <2>1, <2>2, RemoveSourcesEffect DEF HotplugFields
    <2> QED
      BY <1>2, <2>3 DEF HotplugFits, Shows
  <1> QED
    BY <1>1, <1>2

\* updatePredicates makes all sources right.
LEMMA UpdatePredicatesFits ==
  ASSUME NEW e, NEW handled, NEW fs \in SUBSET DOMAIN Actions, NEW changed,
         HotplugFits(e, handled, fs, changed)
  PROVE  LET f == UpdatePredicates(e, fs)
         IN  HotplugFits(f, handled, fs, FALSE) /\ f.startList = e.startList
  <1> DEFINE f == UpdatePredicates(e, fs)
             found == FindPredicates(e, fs)
             applicable == {u \in e.devices : PredicatesForDevice(found, u) # {}}
             known == applicable \intersect DOMAIN e.data
             new == {u \in applicable \ known : ~Skipped(u)}
             gone == {u \in e.devices \ applicable : ~Encrypted(u)}
             told == [u \in known \union new |->
                        IF u \in known THEN [predicateFiles |-> PredicatesForDevice(found, u)]
                        ELSE Description(found, u, FALSE)]
             g == RemoveSources(found, gone)
  <1>1. f = SetEach(g, told)
    BY DEF UpdatePredicates
  <1>2. /\ DOMAIN found = HotplugFields /\ found.data = e.data /\ found.devices = e.devices
        /\ found.startList = e.startList /\ found.predicates \ {NoAction} = fs
    BY FindPredicatesEffect DEF HotplugFits
  <1>3. \A u \in e.devices : PredicatesForDevice(found, u) = Applicable(u, fs)
    BY <1>2 DEF PredicatesForDevice, Applicable
  <1>4. applicable = {u \in e.devices : Applicable(u, fs) # {}} /\ known \union new = applicable
    BY <1>3 DEF HotplugFits
  <1>5. ASSUME NEW u \in applicable
        PROVE  "predicateFiles" \in DOMAIN told[u] /\ told[u].predicateFiles = Applicable(u, fs)
    <2>1. u \in known \/ u \in new
      BY <1>4, <1>5
    <2>2. told[u] = IF u \in known THEN [predicateFiles |-> PredicatesForDevice(found, u)]
                    ELSE Description(found, u, FALSE)
      BY <2>1
    <2> QED
      BY <1>3, <1>5, <2>2 DEF Description
  <1>6. DOMAIN told = applicable
    BY <1>4
  <1> HIDE DEF found, told, known, new
  <1>7. /\ DOMAIN g = HotplugFields /\ DOMAIN g.data = DOMAIN e.data \ gone
        /\ g.devices = e.devices /\ g.startList = e.startList /\ g.predicates = found.predicates
        /\ \A u \in DOMAIN e.data \ gone : g.data[u] = e.data[u]
    BY <1>2, RemoveSourcesEffect DEF HotplugFields
  <1> HIDE DEF g
  <1>8. /\ DOMAIN f = HotplugFields /\ DOMAIN f.data = (DOMAIN e.data \ gone) \union applicable
        /\ f.devices = e.devices /\ f.startList = e.startList /\ f.predicates = found.predicates
        /\ \A u \in applicable : f.data[u] = Over(told[u], DataOf(g, u))
    BY <1>1, <1>6, <1>7, SetEachEffect DEF HotplugFields
  <1>9. ASSUME NEW u \in applicable PROVE f.data[u].predicateFiles = Applicable(u, fs)
    <2>1. \A k \in DOMAIN told[u] : Over(told[u], DataOf(g, u))[k] = told[u][k]
      BY OverSays
    <2> QED
      BY <1>5, <1>8, <2>1
  <1>10. ASSUME NEW u \in e.devices PROVE Shows(f, u, fs)
    <2>1. CASE u \in applicable
      BY <1>4, <1>8, <1>9, <2>1 DEF Shows
    <2>2. CASE u \notin applicable
      <3>1. Applicable(u, fs) = {}
        BY <1>4, <2>2
      <3>2. u \in DOMAIN f.data <=> Encrypted(u)
        BY <1>8, <1>10, <2>2 DEF HotplugFits
      <3> QED
        BY <3>1, <3>2 DEF Shows
    <2> QED
      BY <2>1, <2>2
  <1>11. DOMAIN f.data \subseteq f.devices /\ \A u \in f.devices : Encrypted(u) => u \in DOMAIN f.data
    BY <1>4, <1>8 DEF HotplugFits
  <1> QED
    BY <1>2, <1>8, <1>10, <1>11 DEF HotplugFits

LEMMA HotplugInit == Init => HotplugInv
  <1> SUFFICES ASSUME Init, plugin = "hotplug" PROVE HotplugInv
    BY DEF HotplugInv
  <1> DEFINE new == [data |-> [s \in {} |-> NoData], devices |-> {}, startList |-> DOMAIN hardware,
                     predicates |-> {}, starting |-> DOMAIN hardware # {}]
             found == FindPredicates(new, files)
  <1>1. engine \in NewHotplugEngines(hardware, files) /\ files \in SUBSET DOMAIN Actions /\ unseen = FALSE
    BY DEF Init
  <1>2. /\ DOMAIN new = HotplugFields /\ DOMAIN new.data = {} /\ new.devices = {}
        /\ new.startList = DOMAIN hardware /\ new.predicates = {}
    BY DEF HotplugFields
  <1>3. HotplugFits(new, {}, files, FALSE)
    BY <1>2 DEF HotplugFits
  <1>4. CASE DOMAIN hardware = {}
    <2>1. engine = new
      BY <1>1, <1>4 DEF NewHotplugEngines
    <2> QED
      BY <1>1, <1>2, <1>3, <1>4, <2>1 DEF HotplugInv
  <1>5. CASE DOMAIN hardware # {}
    <2>1. PICK u \in DOMAIN hardware : engine = ProcessNextStartupDevice(found, files, u)
      BY <1>1, <1>5 DEF NewHotplugEngines
    <2> HIDE DEF new
    <2>2. HotplugFits(found, {}, files, FALSE) /\ found.startList = DOMAIN hardware
      BY <1>1, <1>2, <1>3, FindPredicatesEffect DEF HotplugFits
    <2> HIDE DEF found
    <2>3. \A c : HotplugFits(found, {}, files, c) =>
             LET f == ProcessNextStartupDevice(found, files, u)
             IN  /\ HotplugFits(f, {} \union {u}, files, c)
                 /\ \A v : v \in f.startList <=> v \in found.startList /\ v # u
      BY <1>1, StartupDeviceFits
    <2>4. HotplugFits(engine, {} \union {u}, files, FALSE) /\ engine.startList = DOMAIN hardware \ {u}
      BY <1>1, <2>1, <2>2, <2>3
    <2>5. {} \union {u} = DOMAIN hardware \ engine.startList
      BY <2>4
    <2> QED
      BY <1>1, <2>4, <2>5 DEF HotplugInv
  <1> QED
    BY <1>4, <1>5

LEMMA HotplugSteps ==
  ASSUME plugin = "hotplug", Frame, Next
  PROVE  \/ \E u \in Udis : Plug(u) \/ AnnounceAgain(u) \/ Unplug(u) \/ StartupDevice(u)
         \/ \E f \in DOMAIN Actions : FilesChange(f)
         \/ StartupEnds \/ DirWatch
  <1>1. shown = {} /\ Requested = {}
    BY EnginesAssumption DEF Frame, Requestable, Requested, AllPlugins
  <1>2. ~ApplicationNext
    BY <1>1 DEF ApplicationNext
  <1>3. ~ServiceNext
    BY DEF ServiceNext, InhibitionChange, ProfileChange, ServiceAnswers, MessageArrives, BeginSuppressing,
           StopSuppressing
  <1>4. EngineNext => \/ \E u \in Udis : StartupDevice(u)
                      \/ \E f \in DOMAIN Actions : FilesChange(f)
                      \/ StartupEnds \/ DirWatch
    BY DEF EngineNext, FreeSpaceKnown, BlockingAppsKnown
  <1>5. ASSUME NEW u \in Udis
        PROVE  /\ ~RequestSetup(u) /\ ~PercentChange(u)
               /\ \A error : ~SetupDone(u, error)
               /\ \A size : ~SizeChange(u, size)
               /\ \A charge : ~ChargeChange(u, charge)
    BY DEF RequestSetup, SetupDone, PercentChange, SizeChange, ChargeChange
  <1> QED
    BY <1>2, <1>3, <1>4, <1>5 DEF Next, HardwareNext

LEMMA PluginStays == [Next]_vars => plugin' = plugin
  BY ZenonT(60) DEF Next, vars, HardwareNext, ApplicationNext, EngineNext, ServiceNext, Plug, AnnounceAgain, Unplug,
         RequestSetup, SetupDone, PercentChange, SizeChange, ChargeChange, Connect, Leave, Poll,
         StartupDevice, FreeSpaceKnown, FilesChange, StartupEnds, DirWatch, BlockingAppsKnown, InhibitionChange,
         ProfileChange, ServiceAnswers, MessageArrives, BeginSuppressing, StopSuppressing

LEMMA HotplugStep ==
  ASSUME "handledFirst" \in Assumed, Frame, HotplugInv, [Next]_vars
  PROVE  HotplugInv'
  <1> SUFFICES ASSUME plugin = "hotplug", plugin' = plugin PROVE HotplugInv'
    BY PluginStays DEF HotplugInv
  <1> DEFINE handled == DOMAIN hardware \ engine.startList
  <1>0. /\ files \in SUBSET DOMAIN Actions
        /\ engine.startList \subseteq DOMAIN hardware
        /\ HotplugFits(engine, handled, files, unseen)
    BY DEF HotplugInv
  <1>1. ASSUME NEW u, u \notin engine.startList,
               engine' = OnDeviceAdded(engine, files, u), UNCHANGED <<files, unseen>>,
               DOMAIN hardware' = DOMAIN hardware \union {u}
        PROVE  HotplugInv'
    <2>1. \A a : LET f == HandleDeviceAdded(engine, files, u, a)
                 IN  HotplugFits(f, handled \union {u}, files, unseen) /\ f.startList = engine.startList
      BY <1>0, HandleDeviceAddedFits
    <2>2. HotplugFits(engine', handled \union {u}, files, unseen) /\ engine'.startList = engine.startList
      BY <1>1, <2>1 DEF OnDeviceAdded
    <2>3. handled' = handled \union {u}
      BY <1>1, <2>2
    <2> HIDE DEF handled
    <2> QED
      BY <1>0, <1>1, <2>2, <2>3 DEF HotplugInv, handled
  <1>2. ASSUME NEW u \in Udis, Plug(u) PROVE HotplugInv'
    <2>1. /\ engine' = OnDeviceAdded(engine, files, u) /\ UNCHANGED <<files, unseen>>
          /\ u \notin DOMAIN hardware /\ DOMAIN hardware' = DOMAIN hardware \union {u}
      BY <1>2 DEF Plug, DeviceComes, Engine, Over
    <2> QED
      BY <1>0, <1>1, <2>1
  <1>3. ASSUME NEW u \in Udis, AnnounceAgain(u) PROVE HotplugInv'
    <2>1. /\ engine' = OnDeviceAdded(engine, files, u) /\ UNCHANGED <<files, unseen>>
          /\ u \in handled /\ hardware' = hardware
      BY <1>3 DEF AnnounceAgain, DeviceComes, Engine, Handled
    <2>2. u \notin engine.startList /\ DOMAIN hardware' = DOMAIN hardware \union {u}
      BY <2>1
    <2> QED
      BY <1>1, <2>1, <2>2
  <1>4. ASSUME NEW u \in Udis, Unplug(u) PROVE HotplugInv'
    <2>1. /\ engine' = OnDeviceRemoved(engine, u) /\ UNCHANGED <<files, unseen>>
          /\ DOMAIN hardware' = DOMAIN hardware \ {u}
      BY <1>4 DEF Unplug, Engine
    <2>2. u \in engine.startList => u \notin handled
      OBVIOUS
    <2>3. /\ HotplugFits(engine', handled \ {u}, files, unseen)
          /\ \A v : v \in engine'.startList <=> v \in engine.startList /\ v # u
      BY <1>0, <2>1, <2>2, OnDeviceRemovedFits
    <2>4. DOMAIN hardware' \ engine'.startList = handled \ {u}
      BY <2>1, <2>3
    <2> QED
      BY <1>0, <2>1, <2>3, <2>4 DEF HotplugInv
  <1>5. ASSUME NEW u \in Udis, StartupDevice(u) PROVE HotplugInv'
    <2>1. /\ engine' = ProcessNextStartupDevice(engine, files, u) /\ UNCHANGED <<hardware, files, unseen>>
          /\ u \in engine.startList
      BY <1>5 DEF StartupDevice, Engine
    <2>2. /\ HotplugFits(engine', handled \union {u}, files, unseen)
          /\ \A v : v \in engine'.startList <=> v \in engine.startList /\ v # u
      BY <1>0, <2>1, StartupDeviceFits
    <2>3. DOMAIN hardware' \ engine'.startList = handled \union {u}
      BY <1>0, <2>1, <2>2
    <2> QED
      BY <1>0, <2>1, <2>2, <2>3 DEF HotplugInv
  <1>6. ASSUME NEW f \in DOMAIN Actions, FilesChange(f) PROVE HotplugInv'
    <2>1. UNCHANGED <<hardware, engine>> /\ unseen' = TRUE /\ files' \subseteq DOMAIN Actions
      BY <1>0, <1>6 DEF FilesChange
    <2>2. HotplugFits(engine, handled, files', TRUE)
      BY <1>0 DEF HotplugFits
    <2> QED
      BY <1>0, <2>1, <2>2 DEF HotplugInv
  <1>7. ASSUME DirWatch PROVE HotplugInv'
    <2>1. engine' = UpdatePredicates(engine, files) /\ UNCHANGED <<hardware, files>> /\ unseen' = FALSE
      BY <1>7 DEF DirWatch, Engine
    <2>2. HotplugFits(engine', handled, files, FALSE) /\ engine'.startList = engine.startList
      BY <1>0, <2>1, UpdatePredicatesFits
    <2> QED
      BY <1>0, <2>1, <2>2 DEF HotplugInv
  <1>8. ASSUME StartupEnds PROVE HotplugInv'
    <2>1. engine' = ForgetPredicates(engine) /\ UNCHANGED <<hardware, files, unseen>>
      BY <1>8 DEF StartupEnds, Engine
    <2>2. /\ DOMAIN engine' = HotplugFields /\ engine'.startList = engine.startList
          /\ engine'.devices = engine.devices /\ engine'.data = engine.data /\ engine'.predicates = {}
      BY <1>0, <2>1 DEF ForgetPredicates, HotplugFits, HotplugFields
    <2> QED
      BY <1>0, <2>1, <2>2 DEF HotplugInv, HotplugFits, Shows
  <1>9. CASE UNCHANGED vars
    BY <1>9 DEF vars, HotplugInv
  <1> QED
    BY <1>2, <1>3, <1>4, <1>5, <1>6, <1>7, <1>8, <1>9, HotplugSteps

\* When KDirWatch has told it all, the hotplug engine shows the devices that an action is for,
\* with these actions and no others: the start list, the announcements, removals and
\* updatePredicates in any order, if no device is announced again that the start list still has.
THEOREM HotplugShows == ASSUME "handledFirst" \in Assumed PROVE Spec => []ActionsShown
  <1>1. Frame /\ HotplugInv /\ [Next]_vars => HotplugInv'
    BY HotplugStep
  <1>2. HotplugInv => ActionsShown
    BY DEF HotplugInv, ActionsShown, HotplugFits, Shows, Applicable
  <1> QED
    BY <1>1, <1>2, HotplugInit, Framed, PTL DEF Spec

---------------------------------------------------------------------------
(* The solid device engine: queries *)

SolidFields == {"data", "devicemap", "predicatemap", "paths", "encrypted", "mapped", "heard", "staged"}

\* The queries that the engine has, with the devices that match them.
QueriesFit(e, there) ==
    /\ DOMAIN e = SolidFields
    /\ \A q \in DOMAIN Queries : q \in DOMAIN e.data <=> q \in DOMAIN e.predicatemap
    /\ \A q \in DOMAIN e.predicatemap :
          /\ q \in DOMAIN Queries
          /\ e.predicatemap[q] \in Seq(Udis)
          /\ ToSet(e.predicatemap[q]) = {u \in there : Queries[q] \in Interfaces[u]}
          /\ e.data[q].devices = e.predicatemap[q]

QueriesInv == plugin = "soliddevice" => QueriesFit(engine, DOMAIN hardware)

\* What changes only the sources of devices leaves the queries alone.
SameQueries(e, f) ==
    /\ DOMAIN f = DOMAIN e
    /\ f.predicatemap = e.predicatemap
    /\ \A q \in DOMAIN Queries : q \in DOMAIN f.data <=> q \in DOMAIN e.data
    /\ \A q \in DOMAIN Queries : q \in DOMAIN e.data => f.data[q] = e.data[q]

LEMMA SameQueriesFit ==
  ASSUME NEW e, NEW f, NEW there, QueriesFit(e, there), SameQueries(e, f)
  PROVE  QueriesFit(f, there)
  BY DEF QueriesFit, SameQueries

LEMMA SameQueriesTransitive ==
  ASSUME NEW e, NEW f, NEW g, SameQueries(e, f), SameQueries(f, g)
  PROVE  SameQueries(e, g)
  BY DEF SameQueries

LEMMA SetDataSameQueries ==
  ASSUME NEW e, NEW u \in Udis, NEW what, DOMAIN e = SolidFields
  PROVE  SameQueries(e, SetData(e, u, what))
  BY SetDataEffect, QueriesAssumption DEF SameQueries, SolidFields

\* Each handler of a device changes only the sources of devices.
LEMMA HandlersKeepQueries ==
  ASSUME NEW e, NEW h, NEW u \in Udis, DOMAIN e = SolidFields
  PROVE  /\ SameQueries(e, UpdateStorageSpace(e, h, u))
         /\ SameQueries(e, UpdateInUse(e, h, u))
         /\ SameQueries(e, ForceUpdateAccessibility(e, h, u))
         /\ SameQueries(e, UpdateSourceEvent(e, h, u))
  <1>1. SameQueries(e, e)
    BY DEF SameQueries
  <1>2. \A g : DOMAIN g = SolidFields =>
           /\ SameQueries(g, UpdateStorageSpace(g, h, u))
           /\ SameQueries(g, UpdateInUse(g, h, u))
           /\ SameQueries(g, ForceUpdateAccessibility(g, h, u))
    <2> TAKE g
    <2> HAVE DOMAIN g = SolidFields
    <2>1. SameQueries(g, UpdateStorageSpace(g, h, u))
      BY DEF UpdateStorageSpace, SameQueries, SolidFields
    <2>2. SameQueries(g, g)
      BY DEF SameQueries
    <2> QED
      BY <2>1, <2>2, SetDataSameQueries DEF UpdateInUse, ForceUpdateAccessibility
  <1>3. DOMAIN UpdateStorageSpace(e, h, u) = SolidFields
    BY <1>2 DEF SameQueries
  <1> QED
    BY <1>2, <1>3, SameQueriesTransitive DEF UpdateSourceEvent

LEMMA PopulateKeepsQueries ==
  ASSUME NEW e, NEW h, NEW u \in Udis, DOMAIN e = SolidFields, DOMAIN h \subseteq Udis
  PROVE  SameQueries(e, PopulateDeviceData(e, h, u))
  <1>1. ASSUME NEW g, DOMAIN g = SolidFields PROVE SameQueries(g, PopulateStorageAccess(g, h, u))
    <2> DEFINE a == SetData(g, u, [accessible |-> h[u].accessible])
               b == UpdateStorageSpace(a, h, u)
               c == [b EXCEPT !.mapped = @ \union {u}]
    <2>1. SameQueries(g, a) /\ DOMAIN a = SolidFields
      BY <1>1, SetDataSameQueries DEF SameQueries
    <2> HIDE DEF a
    <2>2. SameQueries(a, b) /\ DOMAIN b = SolidFields
      BY <2>1, HandlersKeepQueries DEF SameQueries
    <2> HIDE DEF b
    <2>3. SameQueries(b, c)
      BY <2>2 DEF SameQueries, SolidFields
    <2>4. SameQueries(g, g)
      BY DEF SameQueries
    <2> QED
      BY <2>1, <2>2, <2>3, <2>4, SameQueriesTransitive DEF PopulateStorageAccess, a, b
  <1>2. ASSUME NEW g, DOMAIN g = SolidFields PROVE SameQueries(g, PopulateStorageVolume(g, h, u))
    <2> DEFINE c == EncryptedContainer[u]
               used == UpdateInUse(g, h, u)
               a == SetData(used, u, [container |-> c])
               b == [a EXCEPT !.encrypted = Over([v \in {u} |-> c], @)]
    <2>1. SameQueries(g, used) /\ DOMAIN used = SolidFields
      BY <1>2, HandlersKeepQueries DEF SameQueries
    <2> HIDE DEF used
    <2>2. SameQueries(used, a) /\ DOMAIN a = SolidFields
      BY <2>1, SetDataSameQueries DEF SameQueries
    <2> HIDE DEF a
    <2>3. SameQueries(a, b) /\ DOMAIN b = SolidFields
      BY <2>2 DEF SameQueries, SolidFields
    <2> HIDE DEF b
    <2>4. c \in DOMAIN h => SameQueries(b, ForceUpdateAccessibility(b, h, c))
      BY <2>3, HandlersKeepQueries
    <2>5. SameQueries(g, g)
      BY DEF SameQueries
    <2> QED
      BY <2>1, <2>2, <2>3, <2>4, <2>5, SameQueriesTransitive DEF PopulateStorageVolume, used, a, b
  <1>3. ASSUME NEW g, DOMAIN g = SolidFields PROVE SameQueries(g, PopulateBattery(g, h, u))
    <2> DEFINE a == SetData(g, u, [percent |-> h[u].percent, charge |-> h[u].charge])
               b == [a EXCEPT !.mapped = @ \union {u}]
    <2>1. SameQueries(g, a) /\ DOMAIN a = SolidFields
      BY <1>3, SetDataSameQueries DEF SameQueries
    <2> HIDE DEF a
    <2>2. SameQueries(a, b)
      BY <2>1 DEF SameQueries, SolidFields
    <2>3. SameQueries(g, g)
      BY DEF SameQueries
    <2> QED
      BY <2>1, <2>2, <2>3, SameQueriesTransitive DEF PopulateBattery, a
  <1> DEFINE known == SetData(e, u, [known |-> h[u].size, state |-> "Idle", result |-> "Working"])
             a == PopulateStorageAccess(known, h, u)
             b == PopulateStorageVolume(a, h, u)
  <1>4. SameQueries(e, known) /\ DOMAIN known = SolidFields
    BY ZenonT(60), SetDataSameQueries DEF SameQueries
  <1> HIDE DEF known
  <1>5. SameQueries(known, a) /\ DOMAIN a = SolidFields
    BY <1>1, <1>4 DEF SameQueries
  <1> HIDE DEF a
  <1>6. SameQueries(a, b) /\ DOMAIN b = SolidFields
    BY <1>2, <1>5 DEF SameQueries
  <1> HIDE DEF b
  <1>7. SameQueries(b, PopulateBattery(b, h, u))
    BY <1>3, <1>6
  <1>8. PopulateDeviceData(e, h, u) = PopulateBattery(b, h, u)
    BY DEF PopulateDeviceData, known, a, b
  <1> QED
    BY <1>4, <1>5, <1>6, <1>7, <1>8, SameQueriesTransitive

LEMMA SignalsKeepQueries ==
  ASSUME NEW e, NEW h, NEW u \in Udis, DOMAIN e = SolidFields, DOMAIN h \subseteq Udis
  PROVE  /\ SameQueries(e, RequestDevice(e, h, u))
         /\ SameQueries(e, SetMountingState(e, u))
         /\ SameQueries(e, SetUnmountingState(e, u))
         /\ SameQueries(e, SizeChanged(e, h, u))
         /\ \A result : SameQueries(e, SetIdleState(e, h, u, result))
         /\ \A change : SameQueries(e, DeviceChanged(e, h, u, change))
         /\ \A ok : SameQueries(e, FreeSpaceJobDone(e, h, u, ok))
  <1>0. SameQueries(e, e)
    BY DEF SameQueries
  <1>1. SameQueries(e, RequestDevice(e, h, u))
    <2> DEFINE a == [e EXCEPT !.devicemap = @ \union {u}]
    <2>1. SameQueries(e, a) /\ DOMAIN a = SolidFields
      BY DEF SameQueries, SolidFields
    <2> HIDE DEF a
    <2>2. SameQueries(a, PopulateDeviceData(a, h, u))
      BY <2>1, PopulateKeepsQueries
    <2> QED
      BY <1>0, <2>1, <2>2, SameQueriesTransitive DEF RequestDevice, a
  <1>2. SameQueries(e, SetMountingState(e, u)) /\ SameQueries(e, SetUnmountingState(e, u))
    BY <1>0, SetDataSameQueries DEF SetMountingState, SetUnmountingState
  <1>3. SameQueries(e, SizeChanged(e, h, u))
    BY <1>0, PopulateKeepsQueries DEF SizeChanged
  <1>4. ASSUME NEW result PROVE SameQueries(e, SetIdleState(e, h, u, result))
    <2> DEFINE a == SetData(e, u, [state |-> "Idle", result |-> result])
    <2>1. SameQueries(e, a) /\ DOMAIN a = SolidFields
      BY SetDataSameQueries DEF SameQueries
    <2> HIDE DEF a
    <2>2. SameQueries(a, ForceUpdateAccessibility(a, h, u))
      BY <2>1, HandlersKeepQueries
    <2> QED
      BY <1>0, <2>1, <2>2, SameQueriesTransitive DEF SetIdleState, a
  <1>5. ASSUME NEW change PROVE SameQueries(e, DeviceChanged(e, h, u, change))
    <2> DEFINE a == SetData(e, u, change)
    <2>1. SameQueries(e, a) /\ DOMAIN a = SolidFields
      BY SetDataSameQueries DEF SameQueries
    <2> HIDE DEF a
    <2>2. SameQueries(a, UpdateSourceEvent(a, h, u))
      BY <2>1, HandlersKeepQueries
    <2> QED
      BY <1>0, <2>1, <2>2, SameQueriesTransitive DEF DeviceChanged, a
  <1>6. ASSUME NEW ok PROVE SameQueries(e, FreeSpaceJobDone(e, h, u, ok))
    <2> DEFINE a == [e EXCEPT !.paths = @ \ {u}]
    <2>1. SameQueries(e, a) /\ DOMAIN a = SolidFields
      BY DEF SameQueries, SolidFields
    <2> HIDE DEF a
    <2>2. SameQueries(a, SetData(a, u, [free |-> TRUE, size |-> TRUE]))
      BY <2>1, SetDataSameQueries
    <2> QED
      BY <2>1, <2>2, SameQueriesTransitive DEF FreeSpaceJobDone, a
  <1> QED
    BY <1>1, <1>2, <1>3, <1>4, <1>5, <1>6

\* The lists that are set are the data of the queries, and the others stay.
LEMMA SetListsEffect ==
  ASSUME NEW e, NEW lists, DOMAIN e = SolidFields, DOMAIN lists \subseteq DOMAIN e.predicatemap
  PROVE  LET f == SetLists(e, lists)
         IN  /\ DOMAIN f = SolidFields
             /\ DOMAIN f.predicatemap = DOMAIN e.predicatemap
             /\ \A q \in DOMAIN lists : f.predicatemap[q] = lists[q] /\ f.data[q].devices = lists[q]
             /\ \A q \in DOMAIN e.predicatemap \ DOMAIN lists : f.predicatemap[q] = e.predicatemap[q]
             /\ DOMAIN f.data = DOMAIN e.data \union DOMAIN lists
             /\ \A s \in DOMAIN e.data \ DOMAIN lists : f.data[s] = e.data[s]
             /\ \A k \in DOMAIN e : k \notin {"data", "predicatemap"} => f[k] = e[k]
  <1> DEFINE a == [e EXCEPT !.predicatemap = Over(lists, @)]
             told == [q \in DOMAIN lists |-> [devices |-> lists[q]]]
             f == SetLists(e, lists)
  <1>1. f = SetEach(a, told)
    BY DEF SetLists
  <1>2. /\ DOMAIN a = SolidFields /\ a.data = e.data
        /\ a.predicatemap = Over(lists, e.predicatemap)
        /\ \A k \in DOMAIN e : k # "predicatemap" => a[k] = e[k]
    BY DEF SolidFields
  <1>3. DOMAIN told = DOMAIN lists
    OBVIOUS
  <1>4. \A q \in DOMAIN lists : DOMAIN told[q] = {"devices"} /\ told[q]["devices"] = lists[q]
    OBVIOUS
  <1> HIDE DEF a, told
  <1>5. /\ DOMAIN f = SolidFields /\ f.predicatemap = a.predicatemap
        /\ DOMAIN f.data = DOMAIN e.data \union DOMAIN lists
        /\ \A s \in DOMAIN e.data \ DOMAIN lists : f.data[s] = e.data[s]
        /\ \A q \in DOMAIN lists : f.data[q] = Over(told[q], DataOf(a, q))
        /\ \A k \in DOMAIN a : k # "data" => f[k] = a[k]
    BY <1>1, <1>2, <1>3, SetEachEffect DEF SolidFields
  <1>6. ASSUME NEW q \in DOMAIN lists PROVE f.data[q]["devices"] = lists[q]
    <2>1. \A k \in DOMAIN told[q] : Over(told[q], DataOf(a, q))[k] = told[q][k]
      BY OverSays
    <2> QED
      BY <1>4, <1>5, <2>1
  <1>7. /\ DOMAIN f.predicatemap = DOMAIN e.predicatemap
        /\ \A q \in DOMAIN lists : f.predicatemap[q] = lists[q]
        /\ \A q \in DOMAIN e.predicatemap \ DOMAIN lists : f.predicatemap[q] = e.predicatemap[q]
    <2> DEFINE g == e.predicatemap
    <2>1. f.predicatemap = Over(lists, g)
      BY <1>2, <1>5
    <2> HIDE DEF g, f
    <2>2. /\ DOMAIN Over(lists, g) = DOMAIN lists \union DOMAIN g
          /\ \A q \in DOMAIN lists : Over(lists, g)[q] = lists[q]
          /\ \A q \in DOMAIN g : q \notin DOMAIN lists => Over(lists, g)[q] = g[q]
      BY OverSays
    <2>3. DOMAIN lists \union DOMAIN g = DOMAIN g
      BY DEF g
    <2> QED
      BY <2>1, <2>2, <2>3 DEF g
  <1>8. \A k \in DOMAIN e : k \notin {"data", "predicatemap"} => f[k] = e[k]
    BY <1>2, <1>5
  <1> QED
    BY <1>5, <1>6, <1>7, <1>8

LEMMA FilteredSet ==
  ASSUME NEW V, NEW s \in Seq(V), NEW x
  PROVE  LET r == Subsequence(s, {n \in DOMAIN s : s[n] # x})
         IN  r \in Seq(V) /\ ToSet(r) = ToSet(s) \ {x}
  <1> DEFINE places == {n \in DOMAIN s : s[n] # x}
             r == Subsequence(s, places)
  <1>1. r \in Seq(V) /\ \E g \in [1..Len(r) -> 1..Len(s)] : Picks(g, r, s, places, Len(s))
    BY SubsequencePicks
  <1>2. PICK g \in [1..Len(r) -> 1..Len(s)] : Picks(g, r, s, places, Len(s))
    BY <1>1
  <1>3. DOMAIN s = 1 .. Len(s) /\ DOMAIN r = 1 .. Len(r)
    BY <1>1
  <1> HIDE DEF r
  <1>4. \A i \in DOMAIN r : g[i] \in DOMAIN s /\ r[i] = s[g[i]] /\ s[g[i]] # x
    BY <1>2, <1>3 DEF Picks
  <1>5. \A n \in DOMAIN s : s[n] # x => \E i \in DOMAIN r : g[i] = n
    BY <1>2, <1>3 DEF Picks
  <1>6. \A n \in DOMAIN s : s[n] # x => \E i \in DOMAIN r : r[i] = s[n]
    BY <1>4, <1>5
  <1>7. ToSet(r) = ToSet(s) \ {x}
    <2>1. ASSUME NEW v \in ToSet(r) PROVE v \in ToSet(s) \ {x}
      <3>1. PICK i \in DOMAIN r : v = r[i]
        BY DEF ToSet
      <3> QED
        BY <1>4, <3>1 DEF ToSet
    <2>2. ASSUME NEW v \in ToSet(s), v # x PROVE v \in ToSet(r)
      <3>1. PICK n \in DOMAIN s : v = s[n]
        BY DEF ToSet
      <3>2. PICK i \in DOMAIN r : r[i] = s[n]
        BY <1>6, <2>2, <3>1
      <3> QED
        BY <3>1, <3>2 DEF ToSet
    <2> QED
      BY <2>1, <2>2
  <1> QED
    BY <1>1, <1>7 DEF r

\* Every element of a finite set is in its sequence.
LEMMA SequenceOfSet ==
  ASSUME NEW S, IsFiniteSet(S)
  PROVE  SetToSeq(S) \in Seq(S) /\ ToSet(SetToSeq(S)) = S
  <1> DEFINE n == Cardinality(S)
             Good(f) == f \in [1 .. n -> S] /\ IsInjective(f)
             s == SetToSeq(S)
  <1>1. n \in Nat /\ \E f \in [1 .. n -> S] : f \in Bijection(1 .. n, S)
    BY FS_CardinalityType DEF ExistsBijection, Bijection, Injection
  <1>2. \E f \in [1 .. n -> S] : IsInjective(f)
    BY <1>1 DEF Bijection, Injection
  <1>3. s \in [1 .. n -> S] /\ IsInjective(s)
    BY <1>2 DEF SetToSeq
  <1> HIDE DEF n, s
  <1>4. s \in Injection(1 .. n, S)
    BY <1>3 DEF Injection
  <1>5. IsFiniteSet(1 .. n) /\ Cardinality(1 .. n) = n
    BY <1>1, FS_Interval DEF n
  <1>6. s \in Surjection(1 .. n, S)
    BY <1>4, <1>5, FS_Injection DEF n
  <1>7. \A x \in S : \E i \in 1 .. n : s[i] = x
    BY <1>6 DEF Surjection
  <1>8. s \in Seq(S) /\ DOMAIN s = 1 .. n
    BY <1>1, <1>3
  <1>9. ToSet(s) = S
    BY <1>3, <1>7, <1>8 DEF ToSet
  <1> QED
    BY <1>8, <1>9 DEF s

LEMMA AddToQueriesFits ==
  ASSUME NEW e, NEW there, NEW u \in Udis, QueriesFit(e, there)
  PROVE  LET f == AddToQueries(e, u)
         IN  /\ QueriesFit(f, there \union {u})
             /\ DOMAIN f.data = DOMAIN e.data
             /\ \A s \in DOMAIN e.data : s \notin DOMAIN e.predicatemap => f.data[s] = e.data[s]
             /\ \A k \in SolidFields : k \notin {"data", "predicatemap"} => f[k] = e[k]
  <1> DEFINE matching == {q \in DOMAIN e.predicatemap : Queries[q] \in Interfaces[u]}
             lists == [q \in matching |-> Append(e.predicatemap[q], u)]
             f == AddToQueries(e, u)
  <1>1. f = SetLists(e, lists)
    BY DEF AddToQueries
  <1>2. DOMAIN lists = matching
    OBVIOUS
  <1>3. \A q \in matching : lists[q] = Append(e.predicatemap[q], u)
    OBVIOUS
  <1>4. matching \subseteq DOMAIN e.predicatemap /\ DOMAIN e = SolidFields
        /\ matching \subseteq DOMAIN e.data
    BY DEF QueriesFit
  <1> HIDE DEF lists, f
  <1>5. /\ DOMAIN f = SolidFields /\ DOMAIN f.predicatemap = DOMAIN e.predicatemap
        /\ \A q \in matching : f.predicatemap[q] = lists[q] /\ f.data[q].devices = lists[q]
        /\ \A q \in DOMAIN e.predicatemap \ matching : f.predicatemap[q] = e.predicatemap[q]
        /\ DOMAIN f.data = DOMAIN e.data \union matching
        /\ \A s \in DOMAIN e.data \ matching : f.data[s] = e.data[s]
        /\ \A k \in DOMAIN e : k \notin {"data", "predicatemap"} => f[k] = e[k]
    BY <1>1, <1>2, <1>4, SetListsEffect
  <1>6. ASSUME NEW q \in DOMAIN f.predicatemap
        PROVE  /\ q \in DOMAIN Queries
               /\ f.predicatemap[q] \in Seq(Udis)
               /\ ToSet(f.predicatemap[q]) = {v \in there \union {u} : Queries[q] \in Interfaces[v]}
               /\ f.data[q].devices = f.predicatemap[q]
    <2>1. /\ q \in DOMAIN Queries /\ q \in DOMAIN e.data
          /\ e.predicatemap[q] \in Seq(Udis)
          /\ ToSet(e.predicatemap[q]) = {v \in there : Queries[q] \in Interfaces[v]}
          /\ e.data[q].devices = e.predicatemap[q]
      BY <1>5 DEF QueriesFit
    <2>2. CASE q \in matching
      <3>1. f.predicatemap[q] = Append(e.predicatemap[q], u) /\ f.data[q].devices = f.predicatemap[q]
        BY <1>3, <1>5, <2>2
      <3>2. /\ Append(e.predicatemap[q], u) \in Seq(Udis)
            /\ ToSet(Append(e.predicatemap[q], u)) = ToSet(e.predicatemap[q]) \union {u}
        BY <2>1, AppendedSet
      <3>3. Queries[q] \in Interfaces[u]
        BY <2>2
      <3> QED
        BY <2>1, <3>1, <3>2, <3>3
    <2>3. CASE q \notin matching
      <3>1. Queries[q] \notin Interfaces[u]
        BY <1>5, <2>3
      <3>2. f.predicatemap[q] = e.predicatemap[q] /\ f.data[q] = e.data[q]
        BY <1>5, <2>1, <2>3
      <3> QED
        BY <2>1, <3>1, <3>2
    <2> QED
      BY <2>2, <2>3
  <1>7. DOMAIN f.data = DOMAIN e.data
    BY <1>4, <1>5
  <1>8. QueriesFit(f, there \union {u})
    <2>1. \A q \in DOMAIN Queries : q \in DOMAIN f.data <=> q \in DOMAIN f.predicatemap
      BY <1>5, <1>7 DEF QueriesFit
    <2> HIDE DEF matching
    <2> QED
      BY <1>5, <1>6, <2>1 DEF QueriesFit
  <1> QED
    BY <1>4, <1>5, <1>7, <1>8 DEF f

LEMMA RemoveFromQueriesFits ==
  ASSUME NEW e, NEW there, NEW u \in Udis, QueriesFit(e, there)
  PROVE  LET f == RemoveFromQueries(e, u)
         IN  /\ QueriesFit(f, there \ {u})
             /\ DOMAIN f.data = DOMAIN e.data
             /\ \A s \in DOMAIN e.data : s \notin DOMAIN e.predicatemap => f.data[s] = e.data[s]
             /\ \A k \in SolidFields : k \notin {"data", "predicatemap"} => f[k] = e[k]
  <1> DEFINE all == DOMAIN e.predicatemap
             left(s) == Subsequence(s, {n \in DOMAIN s : s[n] # u})
             lists == [q \in all |-> left(e.predicatemap[q])]
             f == RemoveFromQueries(e, u)
  <1>1. f = SetLists(e, lists)
    BY DEF RemoveFromQueries
  <1>2. DOMAIN lists = all /\ \A q \in all : lists[q] = left(e.predicatemap[q])
    OBVIOUS
  <1>3. DOMAIN e = SolidFields /\ all \subseteq DOMAIN e.data
    BY DEF QueriesFit
  <1> HIDE DEF lists, left, f
  <1>4. /\ DOMAIN f = SolidFields /\ DOMAIN f.predicatemap = all
        /\ \A q \in all : f.predicatemap[q] = lists[q] /\ f.data[q].devices = lists[q]
        /\ DOMAIN f.data = DOMAIN e.data \union all
        /\ \A s \in DOMAIN e.data \ all : f.data[s] = e.data[s]
        /\ \A k \in DOMAIN e : k \notin {"data", "predicatemap"} => f[k] = e[k]
    BY <1>1, <1>2, <1>3, SetListsEffect
  <1>5. ASSUME NEW q \in all
        PROVE  /\ q \in DOMAIN Queries
               /\ f.predicatemap[q] \in Seq(Udis)
               /\ ToSet(f.predicatemap[q]) = {v \in there \ {u} : Queries[q] \in Interfaces[v]}
               /\ f.data[q].devices = f.predicatemap[q]
    <2>1. /\ q \in DOMAIN Queries /\ e.predicatemap[q] \in Seq(Udis)
          /\ ToSet(e.predicatemap[q]) = {v \in there : Queries[q] \in Interfaces[v]}
      BY DEF QueriesFit
    <2>2. f.predicatemap[q] = left(e.predicatemap[q]) /\ f.data[q].devices = f.predicatemap[q]
      BY <1>2, <1>4
    <2>3. /\ left(e.predicatemap[q]) \in Seq(Udis)
          /\ ToSet(left(e.predicatemap[q])) = ToSet(e.predicatemap[q]) \ {u}
      BY <2>1, FilteredSet DEF left
    <2> QED
      BY <2>1, <2>2, <2>3
  <1>6. DOMAIN f.data = DOMAIN e.data
    BY <1>3, <1>4
  <1>7. QueriesFit(f, there \ {u})
    BY <1>4, <1>5, <1>6 DEF QueriesFit
  <1> QED
    BY <1>3, <1>4, <1>6, <1>7 DEF f

\* A source that is removed leaves the map of queries with it.
LEMMA SourceWasRemovedEffect ==
  ASSUME NEW e, NEW source, DOMAIN e = SolidFields
  PROVE  LET f == SourceWasRemoved(e, source)
         IN  /\ DOMAIN f = SolidFields
             /\ DOMAIN f.data = DOMAIN e.data \ {source}
             /\ \A s \in DOMAIN e.data : s # source => f.data[s] = e.data[s]
             /\ \A u : u \in f.devicemap <=> u \in e.devicemap /\ u # source
             /\ DOMAIN f.predicatemap = DOMAIN e.predicatemap \ {source}
             /\ \A q \in DOMAIN e.predicatemap : q # source => f.predicatemap[q] = e.predicatemap[q]
             /\ \A k \in SolidFields : k \notin {"data", "devicemap", "predicatemap"} => f[k] = e[k]
  <1> DEFINE a == [e EXCEPT !.devicemap = @ \ {source},
                            !.predicatemap = [q \in DOMAIN @ \ {source} |-> @[q]]]
             f == SourceWasRemoved(e, source)
  <1>1. /\ DOMAIN a = SolidFields /\ a.data = e.data /\ a.devicemap = e.devicemap \ {source}
        /\ a.predicatemap = [q \in DOMAIN e.predicatemap \ {source} |-> e.predicatemap[q]]
        /\ \A k \in SolidFields : k \notin {"devicemap", "predicatemap"} => a[k] = e[k]
    BY DEF SolidFields
  <1>2. f = RemoveSources(a, {source})
    BY DEF SourceWasRemoved, RemoveSource
  <1> HIDE DEF a, f
  <1>3. /\ DOMAIN f = SolidFields
        /\ DOMAIN f.data = DOMAIN e.data \ {source}
        /\ \A s \in DOMAIN e.data : s # source => f.data[s] = e.data[s]
        /\ \A k \in SolidFields : k # "data" => f[k] = a[k]
    BY <1>1, <1>2, RemoveSourcesEffect DEF SolidFields
  <1>4. f.devicemap = a.devicemap /\ f.predicatemap = a.predicatemap
    BY <1>3 DEF SolidFields
  <1>5. \A k \in SolidFields : k \notin {"data", "devicemap", "predicatemap"} => f[k] = e[k]
    BY <1>1, <1>3
  <1> QED
    BY <1>1, <1>3, <1>4, <1>5 DEF f

LEMMA SourceWasRemovedFits ==
  ASSUME NEW e, NEW there, NEW source, QueriesFit(e, there)
  PROVE  QueriesFit(SourceWasRemoved(e, source), there)
  BY SourceWasRemovedEffect DEF QueriesFit

LEMMA RequestQueryFits ==
  ASSUME NEW e, NEW h, NEW q \in DOMAIN Queries, DOMAIN h \subseteq Udis, QueriesFit(e, DOMAIN h)
  PROVE  LET f == RequestQuery(e, h, q)
         IN  /\ QueriesFit(f, DOMAIN h)
             /\ \A s \in DOMAIN e.data : s # q => s \in DOMAIN f.data /\ f.data[s] = e.data[s]
             /\ DOMAIN f.data \subseteq DOMAIN e.data \union {q}
             /\ \A k \in SolidFields : k \notin {"data", "predicatemap"} => f[k] = e[k]
  <1> DEFINE f == RequestQuery(e, h, q)
             S == List(h, Queries[q])
             found == SetToSeq(S)
             a == [e EXCEPT !.predicatemap = Over([p \in {q} |-> found], @)]
             what == [devices |-> found]
  <1>1. CASE q \in DOMAIN e.predicatemap
    BY <1>1 DEF RequestQuery
  <1>2. CASE q \notin DOMAIN e.predicatemap
    <2>1. f = SetData(a, q, what)
      BY <1>2 DEF RequestQuery
    <2>2. S \in SUBSET Udis /\ IsFiniteSet(S) /\ S = {u \in DOMAIN h : Queries[q] \in Interfaces[u]}
      BY HardwareAssumption, FS_Subset DEF List
    <2>3. found \in Seq(Udis) /\ ToSet(found) = S
      <3>1. found \in Seq(S) /\ ToSet(found) = S
        BY <2>2, SequenceOfSet
      <3> HIDE DEF found, S
      <3>2. found \in Seq(Udis)
        BY <2>2, <3>1
      <3> QED
        BY <3>1, <3>2
    <2> HIDE DEF found, S
    <2>4. /\ DOMAIN a = SolidFields /\ a.data = e.data
          /\ DOMAIN a.predicatemap = DOMAIN e.predicatemap \union {q}
          /\ a.predicatemap[q] = found
          /\ \A p \in DOMAIN e.predicatemap : p # q => a.predicatemap[p] = e.predicatemap[p]
          /\ \A k \in SolidFields : k # "predicatemap" => a[k] = e[k]
      BY DEF QueriesFit, SolidFields, Over
    <2>5. DOMAIN what = {"devices"} /\ what.devices = found
      OBVIOUS
    <2> HIDE DEF a, what, f
    <2>6. /\ DOMAIN f = SolidFields /\ DOMAIN f.data = DOMAIN e.data \union {q}
          /\ \A s \in DOMAIN e.data : s # q => f.data[s] = e.data[s]
          /\ f.data[q] = Over(what, DataOf(a, q))
          /\ \A k \in SolidFields : k # "data" => f[k] = a[k]
      BY <2>1, <2>4, SetDataEffect DEF SolidFields
    <2>7. f.data[q].devices = found
      <3>1. \A k \in DOMAIN what : Over(what, DataOf(a, q))[k] = what[k]
        BY OverSays
      <3> QED
        BY <2>5, <2>6, <3>1
    <2>8. f.predicatemap = a.predicatemap
      BY <2>6 DEF SolidFields
    <2>9. QueriesFit(f, DOMAIN h)
      <3>1. ASSUME NEW p \in DOMAIN f.predicatemap
            PROVE  /\ p \in DOMAIN Queries
                   /\ f.predicatemap[p] \in Seq(Udis)
                   /\ ToSet(f.predicatemap[p]) = {u \in DOMAIN h : Queries[p] \in Interfaces[u]}
                   /\ f.data[p].devices = f.predicatemap[p]
        <4>1. CASE p = q
          BY <2>2, <2>3, <2>4, <2>7, <2>8, <4>1
        <4>2. CASE p # q
          BY <2>4, <2>6, <2>8, <3>1, <4>2 DEF QueriesFit
        <4> QED
          BY <4>1, <4>2
      <3>2. \A p \in DOMAIN Queries : p \in DOMAIN f.data <=> p \in DOMAIN f.predicatemap
        BY <2>4, <2>6, <2>8 DEF QueriesFit
      <3> QED
        BY <2>6, <3>1, <3>2 DEF QueriesFit
    <2> QED
      BY <2>4, <2>6, <2>9 DEF f
  <1> QED
    BY <1>1, <1>2

LEMMA DeviceAddedFits ==
  ASSUME NEW e, NEW h, NEW u \in Udis, NEW there, QueriesFit(e, there)
  PROVE  QueriesFit(DeviceAdded(e, h, u), there \union {u})
  <1> DEFINE listed == AddToQueries(e, u)
             stages == IF u \in e.devicemap /\ "size" \notin DOMAIN e.data[u]
                       THEN listed.staged \union {u} ELSE listed.staged
             hears == IF Is(h, u, "access") THEN listed.heard \union {u} ELSE listed.heard
             f == [listed EXCEPT !.staged = stages, !.heard = hears]
  <1>1. QueriesFit(listed, there \union {u})
    BY AddToQueriesFits
  <1> HIDE DEF listed, stages, hears
  <1>2. SameQueries(listed, f)
    BY <1>1 DEF QueriesFit, SameQueries, SolidFields
  <1>3. DeviceAdded(e, h, u) \in {listed, f}
    BY DEF DeviceAdded, listed, stages, hears
  <1> HIDE DEF f
  <1> QED
    BY <1>1, <1>2, <1>3, SameQueriesFit

LEMMA DeviceRemovedFits ==
  ASSUME NEW e, NEW h, NEW u \in Udis, NEW there, DOMAIN h \subseteq Udis, QueriesFit(e, there)
  PROVE  QueriesFit(DeviceRemoved(e, h, u), there \ {u})
  <1> DEFINE c == e.encrypted[u]
             told == ForceUpdateAccessibility(e, h, c)
             less == [told EXCEPT !.encrypted = [v \in DOMAIN @ \ {u} |-> @[v]]]
             forced == IF u \in DOMAIN e.encrypted THEN less ELSE e
             listed == RemoveFromQueries(forced, u)
             gone == SourceWasRemoved(listed, u)
             f == [gone EXCEPT !.mapped = @ \ {u}, !.heard = @ \ {u}, !.staged = @ \ {u}]
  <1>1. SameQueries(e, e) /\ DOMAIN e = SolidFields
    BY DEF SameQueries, QueriesFit
  <1>2. SameQueries(e, told)
    <2>1. CASE c \in DOMAIN h
      BY <1>1, <2>1, HandlersKeepQueries
    <2>2. CASE c \notin DOMAIN h
      BY <1>1, <2>2 DEF ForceUpdateAccessibility, Valid
    <2> QED
      BY <2>1, <2>2
  <1> HIDE DEF told
  <1>3. SameQueries(told, less)
    BY <1>1, <1>2 DEF SameQueries, SolidFields
  <1> HIDE DEF less
  <1>4. QueriesFit(forced, there)
    BY <1>1, <1>2, <1>3, SameQueriesFit, SameQueriesTransitive
  <1> HIDE DEF forced
  <1>5. QueriesFit(listed, there \ {u})
    BY <1>4, RemoveFromQueriesFits
  <1> HIDE DEF listed
  <1>6. QueriesFit(gone, there \ {u})
    BY <1>5, SourceWasRemovedFits
  <1>7. DeviceRemoved(e, h, u) = f
    BY DEF DeviceRemoved, gone, listed, forced, less, told
  <1> HIDE DEF gone
  <1>8. SameQueries(gone, f)
    BY <1>6 DEF QueriesFit, SameQueries, SolidFields
  <1> QED
    BY <1>6, <1>7, <1>8, SameQueriesFit

LEMMA SolidSteps ==
  ASSUME plugin = "soliddevice", Frame, Next
  PROVE  \/ \E u \in Udis : \/ Plug(u) \/ AnnounceAgain(u) \/ Unplug(u) \/ RequestSetup(u) \/ PercentChange(u)
                            \/ \E error \in {"NoError", "DeviceBusy", "UserCanceled", "OperationFailed"} :
                                  SetupDone(u, error)
                            \/ \E size \in Sizes : SizeChange(u, size)
                            \/ \E charge \in ChargeStates : ChargeChange(u, charge)
                            \/ \E ok \in BOOLEAN : FreeSpaceKnown(u, ok)
         \/ \E source \in Udis \union DOMAIN Queries : Connect(source) \/ Leave(source) \/ Poll(source)
  <1>1. Requested \subseteq Udis \union DOMAIN Queries
    BY EnginesAssumption DEF Requestable, Requested, AllPlugins
  <1>2. ApplicationNext =>
          \E source \in Udis \union DOMAIN Queries : Connect(source) \/ Leave(source) \/ Poll(source)
    BY <1>1 DEF ApplicationNext
  <1>3. ~ServiceNext
    BY DEF ServiceNext, InhibitionChange, ProfileChange, ServiceAnswers, MessageArrives, BeginSuppressing,
           StopSuppressing
  <1>4. EngineNext => \E u \in Udis, ok \in BOOLEAN : FreeSpaceKnown(u, ok)
    BY DEF EngineNext, StartupDevice, FilesChange, StartupEnds, DirWatch, BlockingAppsKnown
  <1> QED
    BY <1>2, <1>3, <1>4 DEF Next, HardwareNext

LEMMA QueriesInit == Init => QueriesInv
  <1> SUFFICES ASSUME Init, plugin = "soliddevice" PROVE QueriesInv
    BY DEF QueriesInv
  <1>1. engine = NewSolidDeviceEngine
    BY DEF Init
  <1>2. DOMAIN engine = SolidFields /\ DOMAIN engine.data = {} /\ DOMAIN engine.predicatemap = {}
    BY <1>1 DEF NewSolidDeviceEngine, SolidFields
  <1> QED
    BY <1>2 DEF QueriesInv, QueriesFit

LEMMA QueriesStep ==
  ASSUME Frame, Frame', QueriesInv, [Next]_vars
  PROVE  QueriesInv'
  <1> SUFFICES ASSUME plugin = "soliddevice", plugin' = plugin PROVE QueriesInv'
    BY PluginStays DEF QueriesInv
  <1>0. /\ QueriesFit(engine, DOMAIN hardware) /\ DOMAIN engine = SolidFields
        /\ DOMAIN hardware \subseteq Udis /\ DOMAIN hardware' \subseteq Udis
    BY DEF QueriesInv, QueriesFit, Frame
  <1>1. ASSUME SameQueries(engine, engine'), DOMAIN hardware' = DOMAIN hardware PROVE QueriesInv'
    BY <1>0, <1>1, SameQueriesFit DEF QueriesInv
  <1>2. ASSUME NEW u \in Udis, Plug(u) PROVE QueriesInv'
    <2>1. engine' = DeviceAdded(engine, hardware', u) /\ DOMAIN hardware' = DOMAIN hardware \union {u}
      BY <1>2 DEF Plug, DeviceComes, Engine, Over
    <2> QED
      BY <1>0, <2>1, DeviceAddedFits DEF QueriesInv
  <1>3. ASSUME NEW u \in Udis, AnnounceAgain(u) PROVE QueriesInv'
    <2>1. /\ engine' = DeviceAdded(engine, hardware, u) /\ hardware' = hardware
          /\ DOMAIN hardware = DOMAIN hardware \union {u}
      BY <1>3 DEF AnnounceAgain, DeviceComes, Engine, Handled
    <2>2. QueriesFit(engine', DOMAIN hardware \union {u})
      BY <1>0, <2>1, DeviceAddedFits
    <2> QED
      BY <2>1, <2>2 DEF QueriesInv
  <1>4. ASSUME NEW u \in Udis, Unplug(u) PROVE QueriesInv'
    <2>1. engine' = DeviceRemoved(engine, hardware', u) /\ DOMAIN hardware' = DOMAIN hardware \ {u}
      BY <1>4 DEF Unplug, Engine
    <2>2. QueriesFit(engine', DOMAIN hardware \ {u})
      BY <1>0, <2>1, DeviceRemovedFits
    <2> QED
      BY <2>1, <2>2 DEF QueriesInv
  <1>5. ASSUME NEW u \in Udis, RequestSetup(u) PROVE QueriesInv'
    <2>1. /\ engine' = SetUnmountingState(engine, u) \/ engine' = SetMountingState(engine, u)
          /\ DOMAIN hardware' = DOMAIN hardware
      BY <1>5 DEF RequestSetup, Engine
    <2> QED
      BY <1>0, <1>1, <2>1, SignalsKeepQueries
  <1>6. ASSUME NEW u \in Udis, NEW error, SetupDone(u, error) PROVE QueriesInv'
    <2> DEFINE told == IF error = "NoError" THEN AccessibilityChanged(engine, hardware', u) ELSE engine
               result == IF error = "NoError" THEN "Successful" ELSE "Unsuccessful"
    <2>1. engine' = SetIdleState(told, hardware', u, result) /\ DOMAIN hardware' = DOMAIN hardware
      BY <1>6 DEF SetupDone, Engine
    <2>2. SameQueries(engine, engine)
      BY DEF SameQueries
    <2>3. SameQueries(engine, told)
      BY <1>0, <2>2, SignalsKeepQueries DEF AccessibilityChanged
    <2>4. DOMAIN told = SolidFields
      BY <1>0, <2>3 DEF SameQueries
    <2> HIDE DEF told, result
    <2>5. SameQueries(told, engine')
      BY <1>0, <2>1, <2>4, SignalsKeepQueries
    <2> QED
      BY <1>1, <2>1, <2>3, <2>5, SameQueriesTransitive
  <1>7. ASSUME NEW u \in Udis, PercentChange(u) PROVE QueriesInv'
    <2>1. /\ engine' = ChargePercentChanged(engine, hardware', u)
          /\ DOMAIN hardware' = DOMAIN hardware
      BY <1>7 DEF PercentChange, Engine
    <2> QED
      BY <1>0, <1>1, <2>1, SignalsKeepQueries DEF ChargePercentChanged
  <1>8. ASSUME NEW u \in Udis, NEW size, SizeChange(u, size) PROVE QueriesInv'
    <2>1. engine' = SizeChanged(engine, hardware', u) /\ DOMAIN hardware' = DOMAIN hardware
      BY <1>8 DEF SizeChange, Engine
    <2> QED
      BY <1>0, <1>1, <2>1, SignalsKeepQueries
  <1>9. ASSUME NEW u \in Udis, NEW charge, ChargeChange(u, charge) PROVE QueriesInv'
    <2>1. engine' = ChargeStateChanged(engine, hardware', u) /\ DOMAIN hardware' = DOMAIN hardware
      BY <1>9 DEF ChargeChange, Engine
    <2> QED
      BY <1>0, <1>1, <2>1, SignalsKeepQueries DEF ChargeStateChanged
  <1>10. ASSUME NEW u \in Udis, NEW ok, FreeSpaceKnown(u, ok) PROVE QueriesInv'
    <2>1. engine' = FreeSpaceJobDone(engine, hardware, u, ok) /\ hardware' = hardware
      BY <1>10 DEF FreeSpaceKnown, Engine
    <2> QED
      BY <1>0, <1>1, <2>1, SignalsKeepQueries
  <1>14. \A s \in Udis \union DOMAIN Queries : s \notin {"Battery", "Inhibitions", "Power Profiles"}
    BY EnginesAssumption DEF OfService
  <1>11. ASSUME NEW source \in Udis \union DOMAIN Queries, Connect(source) PROVE QueriesInv'
    <2>1. hardware' = hardware
      BY <1>11 DEF Connect
    <2>2. CASE source \in DOMAIN engine.data
      <3>1. engine' = engine
        BY <1>11, <2>2 DEF Connect
      <3> QED
        BY <1>0, <2>1, <3>1 DEF QueriesInv
    <2>3. CASE source \notin DOMAIN engine.data /\ source \in DOMAIN Queries
      <3>1. engine' = RequestQuery(engine, hardware, source)
        BY <1>11, <1>14, <2>3, QueriesAssumption DEF Connect, OfService
      <3> QED
        BY <1>0, <2>1, <2>3, <3>1, RequestQueryFits DEF QueriesInv
    <2>4. CASE source \notin DOMAIN engine.data /\ source \notin DOMAIN Queries
      <3>1. engine' = RequestDevice(engine, hardware, source)
        BY <1>11, <1>14, <2>4 DEF Connect, OfService
      <3> QED
        BY <1>0, <1>1, <2>1, <2>4, <3>1, SignalsKeepQueries
    <2> QED
      BY <2>2, <2>3, <2>4
  <1>12. ASSUME NEW source, Leave(source) PROVE QueriesInv'
    <2>1. engine' = SourceWasRemoved(engine, source) /\ hardware' = hardware
      BY <1>12 DEF Leave
    <2> QED
      BY <1>0, <2>1, SourceWasRemovedFits DEF QueriesInv
  <1>13. ASSUME NEW source, Poll(source) PROVE QueriesInv'
    <2>1. engine' = UpdateSourceEvent(engine, hardware, source) /\ hardware' = hardware /\ source \in Udis
      BY <1>13 DEF Poll, Engine
    <2> QED
      BY <1>0, <1>1, <2>1, HandlersKeepQueries
  <1>15. CASE UNCHANGED vars
    BY <1>15 DEF vars, QueriesInv
  <1> QED
    BY <1>2, <1>3, <1>4, <1>5, <1>6, <1>7, <1>8, <1>9, <1>10, <1>11, <1>12, <1>13, <1>15, SolidSteps

\* A query lists the devices that match it, as m_predicatemap has them, whatever came, went or
\* was announced again, and whatever applications do: no care is needed.
THEOREM QueriesAreCurrent == Spec => []QueriesCurrent
  <1>1. Frame /\ Frame' /\ QueriesInv /\ [Next]_vars => QueriesInv'
    BY QueriesStep
  <1>2. QueriesInv => QueriesCurrent
    BY DEF QueriesInv, QueriesFit, QueriesCurrent, List
  <1> QED
    BY <1>1, <1>2, QueriesInit, Framed, PTL DEF Spec

---------------------------------------------------------------------------
(* The solid device engine: devices *)

\* The value of a key is what the device is like; of a device that is heard of, the state
\* follows its operations.
True(heard, h, u, k, x) ==
    /\ k = "known" => x = h[u].size
    /\ k = "accessible" => x = h[u].accessible /\ "access" \in Interfaces[u]
    /\ k = "percent" => x = h[u].percent
    /\ k = "charge" => x = h[u].charge
    /\ k = "state" => x = h[u].job /\ (x = "Idle" \/ u \in heard)

\* f is e after it was told what is true of devices that it has.
Told(e, f, h) ==
    /\ DOMAIN f = SolidFields
    /\ f.devicemap = e.devicemap /\ f.heard = e.heard /\ f.staged = e.staged
    /\ \A u : u \in e.mapped => u \in f.mapped
    /\ \A u : u \in f.mapped => u \in e.mapped \/ u \in e.devicemap
    /\ \A u : u \in f.paths => u \in e.paths \/ u \in e.devicemap
    /\ \A u : u \in DOMAIN e.encrypted => u \in DOMAIN f.encrypted
    /\ \A u \in DOMAIN f.encrypted :
          (u \in DOMAIN e.encrypted /\ f.encrypted[u] = e.encrypted[u]) \/ f.encrypted[u] = EncryptedContainer[u]
    /\ \A u \in Udis : u \in DOMAIN f.data <=> u \in DOMAIN e.data
    /\ \A u \in Udis : u \in DOMAIN e.data => \A k : k \in DOMAIN e.data[u] => k \in DOMAIN f.data[u]
    /\ \A u \in Udis : u \in DOMAIN e.data =>
          \A k \in DOMAIN f.data[u] :
             \/ k \in DOMAIN e.data[u] /\ f.data[u][k] = e.data[u][k]
             \/ True(e.heard, h, u, k, f.data[u][k])

LEMMA ToldNothing ==
  ASSUME NEW e, NEW h, DOMAIN e = SolidFields
  PROVE  Told(e, e, h)
  BY DEF Told

LEMMA ToldTransitive ==
  ASSUME NEW e, NEW f, NEW g, NEW h, Told(e, f, h), Told(f, g, h)
  PROVE  Told(e, g, h)
  <1>1. /\ DOMAIN g = SolidFields
        /\ g.devicemap = e.devicemap /\ g.heard = e.heard /\ g.staged = e.staged /\ f.heard = e.heard
        /\ f.devicemap = e.devicemap
    BY DEF Told
  <1>2. /\ \A u : u \in e.mapped => u \in g.mapped
        /\ \A u : u \in g.mapped => u \in e.mapped \/ u \in e.devicemap
        /\ \A u : u \in g.paths => u \in e.paths \/ u \in e.devicemap
    BY DEF Told
  <1>3. /\ \A u : u \in DOMAIN e.encrypted => u \in DOMAIN g.encrypted
        /\ \A u \in DOMAIN g.encrypted :
          (u \in DOMAIN e.encrypted /\ g.encrypted[u] = e.encrypted[u]) \/ g.encrypted[u] = EncryptedContainer[u]
    BY DEF Told
  <1>4. \A u \in Udis : u \in DOMAIN g.data <=> u \in DOMAIN e.data
    BY DEF Told
  <1>5. \A u \in Udis : u \in DOMAIN e.data => \A k : k \in DOMAIN e.data[u] => k \in DOMAIN g.data[u]
    BY DEF Told
  <1>6. ASSUME NEW u \in Udis, u \in DOMAIN e.data, NEW k \in DOMAIN g.data[u]
        PROVE  \/ k \in DOMAIN e.data[u] /\ g.data[u][k] = e.data[u][k]
               \/ True(e.heard, h, u, k, g.data[u][k])
    <2>1. \/ k \in DOMAIN f.data[u] /\ g.data[u][k] = f.data[u][k]
          \/ True(e.heard, h, u, k, g.data[u][k])
      BY <1>1, <1>6 DEF Told
    <2>2. k \in DOMAIN f.data[u] => \/ k \in DOMAIN e.data[u] /\ f.data[u][k] = e.data[u][k]
                                    \/ True(e.heard, h, u, k, f.data[u][k])
      BY <1>6 DEF Told
    <2> QED
      BY <2>1, <2>2
  <1> QED
    BY <1>1, <1>2, <1>3, <1>4, <1>5, <1>6 DEF Told

LEMMA SetDataSays ==
  ASSUME NEW e, NEW source, NEW what, NEW k \in DOMAIN what, "data" \in DOMAIN e
  PROVE  SetData(e, source, what).data[source][k] = what[k]
  <1>1. SetData(e, source, what).data[source] = Over(what, DataOf(e, source))
    BY SetDataEffect
  <1>2. Over(what, DataOf(e, source))[k] = what[k]
    BY DEF Over
  <1> QED
    BY <1>1, <1>2

\* setData of a device that the engine has.
LEMMA SetDataTold ==
  ASSUME NEW e, NEW h, NEW u \in Udis, NEW what,
         DOMAIN e = SolidFields, u \in DOMAIN e.data,
         \A k \in DOMAIN what : True(e.heard, h, u, k, what[k])
  PROVE  LET f == SetData(e, u, what)
         IN  /\ Told(e, f, h)
             /\ \A k : k \in DOMAIN f.data[u] <=> k \in DOMAIN what \/ k \in DOMAIN e.data[u]
             /\ f.encrypted = e.encrypted /\ f.paths = e.paths
             /\ \A k \in DOMAIN what : f.data[u][k] = what[k]
  <1> DEFINE f == SetData(e, u, what)
  <1>1. /\ DOMAIN f = SolidFields
        /\ \A k \in SolidFields : k # "data" => f[k] = e[k]
        /\ DOMAIN f.data = DOMAIN e.data \union {u}
        /\ \A s \in DOMAIN e.data : s # u => f.data[s] = e.data[s]
        /\ f.data[u] = Over(what, e.data[u])
    BY SetDataEffect DEF SolidFields, DataOf
  <1> HIDE DEF f
  <1>2. /\ DOMAIN Over(what, e.data[u]) = DOMAIN what \union DOMAIN e.data[u]
        /\ \A k \in DOMAIN what : Over(what, e.data[u])[k] = what[k]
        /\ \A k \in DOMAIN e.data[u] : k \notin DOMAIN what => Over(what, e.data[u])[k] = e.data[u][k]
    BY OverSays
  <1>3. /\ f.devicemap = e.devicemap /\ f.heard = e.heard /\ f.staged = e.staged /\ f.mapped = e.mapped
        /\ f.paths = e.paths /\ f.encrypted = e.encrypted
    BY <1>1 DEF SolidFields
  <1>4. /\ \A v \in Udis : v \in DOMAIN f.data <=> v \in DOMAIN e.data
        /\ \A k : k \in DOMAIN f.data[u] <=> k \in DOMAIN what \/ k \in DOMAIN e.data[u]
        /\ \A k \in DOMAIN what : f.data[u][k] = what[k]
    BY <1>1, <1>2
  <1>5. \A v : v \in DOMAIN e.data /\ v # u => f.data[v] = e.data[v]
    BY <1>1
  <1>6. \A v \in Udis : v \in DOMAIN e.data => \A k : k \in DOMAIN e.data[v] => k \in DOMAIN f.data[v]
    BY <1>4, <1>5
  <1>7. ASSUME NEW v \in Udis, v \in DOMAIN e.data, NEW k \in DOMAIN f.data[v]
        PROVE  \/ k \in DOMAIN e.data[v] /\ f.data[v][k] = e.data[v][k]
               \/ True(e.heard, h, v, k, f.data[v][k])
    <2>1. CASE v # u
      BY <1>5, <1>7, <2>1
    <2>2. CASE v = u /\ k \in DOMAIN what
      BY <1>4, <2>2
    <2>3. CASE v = u /\ k \notin DOMAIN what
      BY <1>1, <1>2, <1>4, <1>7, <2>3
    <2> QED
      BY <2>1, <2>2, <2>3
  <1>8. Told(e, f, h)
    BY <1>1, <1>3, <1>4, <1>6, <1>7 DEF Told
  <1>9. /\ Told(e, f, h)
        /\ \A k : k \in DOMAIN f.data[u] <=> k \in DOMAIN what \/ k \in DOMAIN e.data[u]
        /\ f.encrypted = e.encrypted /\ f.paths = e.paths
        /\ \A k \in DOMAIN what : f.data[u][k] = what[k]
    BY <1>3, <1>4, <1>8
  <1> QED
    BY <1>9 DEF f

\* What is in m_devicemap has a source.
Has(e) == DOMAIN e = SolidFields /\ \A u \in Udis : u \in e.devicemap => u \in DOMAIN e.data

LEMMA ToldHas ==
  ASSUME NEW e, NEW f, NEW h, Has(e), Told(e, f, h)
  PROVE  Has(f)
  BY DEF Has, Told

LEMMA StorageSpaceTold ==
  ASSUME NEW e, NEW h, NEW u \in Udis, Has(e)
  PROVE  Told(e, UpdateStorageSpace(e, h, u), h)
  <1> DEFINE f == [e EXCEPT !.paths = @ \union {u}]
  <1>1. UpdateStorageSpace(e, h, u) = e \/ (UpdateStorageSpace(e, h, u) = f /\ Valid(e, h, u))
    BY DEF UpdateStorageSpace
  <1>2. Told(e, e, h)
    BY ToldNothing DEF Has
  <1>3. /\ DOMAIN f = SolidFields /\ f.data = e.data /\ f.devicemap = e.devicemap /\ f.heard = e.heard
        /\ f.staged = e.staged /\ f.mapped = e.mapped /\ f.encrypted = e.encrypted
        /\ \A v : v \in f.paths => v \in e.paths \/ v = u
    BY DEF Has, SolidFields
  <1> HIDE DEF f
  <1>4. Valid(e, h, u) => Told(e, f, h)
    BY <1>3 DEF Valid, Told
  <1> QED
    BY <1>1, <1>2, <1>4

LEMMA InUseTold ==
  ASSUME NEW e, NEW h, NEW u \in Udis, Has(e)
  PROVE  Told(e, UpdateInUse(e, h, u), h)
  <1> DEFINE what == [inUse |-> \E v \in List(h, "access") : h[v].accessible]
             f == SetData(e, u, what)
  <1>1. UpdateInUse(e, h, u) = e \/ (UpdateInUse(e, h, u) = f /\ Valid(e, h, u))
    BY DEF UpdateInUse
  <1>2. DOMAIN what = {"inUse"}
    OBVIOUS
  <1> HIDE DEF what
  <1>3. \A k \in DOMAIN what : True(e.heard, h, u, k, what[k])
    BY <1>2 DEF True
  <1>4. Valid(e, h, u) => Told(e, f, h)
    BY <1>3, SetDataTold DEF Valid, Has
  <1> HIDE DEF f
  <1> QED
    BY <1>1, <1>4, ToldNothing DEF Has

LEMMA AccessibleTold ==
  ASSUME NEW e, NEW h, NEW u \in Udis, Has(e), u \in DOMAIN e.data, "access" \in Interfaces[u]
  PROVE  LET f == SetData(e, u, [accessible |-> h[u].accessible])
         IN  /\ Told(e, f, h) /\ f.paths = e.paths /\ f.encrypted = e.encrypted
             /\ "accessible" \in DOMAIN f.data[u] /\ f.data[u]["accessible"] = h[u].accessible
  <1> DEFINE what == [accessible |-> h[u].accessible]
  <1>1. DOMAIN what = {"accessible"} /\ what["accessible"] = h[u].accessible
    OBVIOUS
  <1> HIDE DEF what
  <1>2. \A k \in DOMAIN what : True(e.heard, h, u, k, what[k])
    BY <1>1 DEF True
  <1> DEFINE f == SetData(e, u, what)
  <1>3. DOMAIN e = SolidFields
    BY DEF Has
  <1>6. Told(e, f, h) /\ f.encrypted = e.encrypted /\ f.paths = e.paths
    BY <1>2, <1>3, SetDataTold
  <1>7. \A k \in DOMAIN what : k \in DOMAIN f.data[u] /\ f.data[u][k] = what[k]
    BY <1>2, <1>3, SetDataTold
  <1> HIDE DEF f
  <1>4. "accessible" \in DOMAIN f.data[u] /\ f.data[u]["accessible"] = h[u].accessible
    BY <1>1, <1>7
  <1>5. SetData(e, u, [accessible |-> h[u].accessible]) = f
    BY DEF what, f
  <1> QED
    BY <1>4, <1>5, <1>6

LEMMA AccessibilityTold ==
  ASSUME NEW e, NEW h, NEW u \in Udis, Has(e)
  PROVE  LET f == ForceUpdateAccessibility(e, h, u)
         IN  /\ Told(e, f, h) /\ f.paths = e.paths /\ f.encrypted = e.encrypted
             /\ Valid(e, h, u) /\ "access" \in Interfaces[u] =>
                  "accessible" \in DOMAIN f.data[u] /\ f.data[u]["accessible"] = h[u].accessible
  <1> DEFINE g == SetData(e, u, [accessible |-> h[u].accessible])
             f == ForceUpdateAccessibility(e, h, u)
  <1>1. Valid(e, h, u) /\ "access" \in Interfaces[u] =>
           /\ f = g
           /\ Told(e, g, h) /\ g.paths = e.paths /\ g.encrypted = e.encrypted
           /\ "accessible" \in DOMAIN g.data[u] /\ g.data[u]["accessible"] = h[u].accessible
    <2>1. Valid(e, h, u) /\ "access" \in Interfaces[u] => f = g
      BY DEF ForceUpdateAccessibility, Valid, Is
    <2>2. Valid(e, h, u) => u \in DOMAIN e.data
      BY DEF Valid, Has
    <2> HIDE DEF f
    <2> QED
      BY <2>1, <2>2, AccessibleTold
  <1>2. ~(Valid(e, h, u) /\ "access" \in Interfaces[u]) => f = e
    BY DEF ForceUpdateAccessibility, Valid, Is
  <1> HIDE DEF f, g
  <1>3. Told(e, e, h)
    BY ToldNothing DEF Has
  <1>4. CASE Valid(e, h, u) /\ "access" \in Interfaces[u]
    BY <1>1, <1>4 DEF f
  <1>5. CASE ~(Valid(e, h, u) /\ "access" \in Interfaces[u])
    BY <1>2, <1>3, <1>5 DEF f
  <1> QED
    BY <1>4, <1>5

LEMMA SourceEventTold ==
  ASSUME NEW e, NEW h, NEW u \in Udis, Has(e)
  PROVE  Told(e, UpdateSourceEvent(e, h, u), h)
  BY StorageSpaceTold, InUseTold, ToldHas, ToldTransitive DEF UpdateSourceEvent

LEMMA MappedTold ==
  ASSUME NEW e, NEW h, NEW u \in Udis, Has(e), u \in e.devicemap
  PROVE  LET f == [e EXCEPT !.mapped = @ \union {u}]
         IN  Told(e, f, h) /\ u \in f.mapped
  <1> DEFINE f == [e EXCEPT !.mapped = @ \union {u}]
  <1>1. /\ DOMAIN f = SolidFields /\ f.data = e.data /\ f.devicemap = e.devicemap /\ f.heard = e.heard
        /\ f.staged = e.staged /\ f.paths = e.paths /\ f.encrypted = e.encrypted
        /\ \A v : v \in f.mapped <=> v \in e.mapped \/ v = u
    BY DEF Has, SolidFields
  <1> HIDE DEF f
  <1>2. Told(e, f, h) /\ u \in f.mapped
    BY <1>1 DEF Told
  <1> QED
    BY <1>2 DEF f

LEMMA StorageAccessTold ==
  ASSUME NEW e, NEW h, NEW u \in Udis, Has(e), u \in e.devicemap, u \in DOMAIN h
  PROVE  LET f == PopulateStorageAccess(e, h, u)
         IN  /\ Told(e, f, h)
             /\ "access" \in Interfaces[u] => "accessible" \in DOMAIN f.data[u] /\ u \in f.mapped
  <1> DEFINE a == SetData(e, u, [accessible |-> h[u].accessible])
             b == UpdateStorageSpace(a, h, u)
             c == [b EXCEPT !.mapped = @ \union {u}]
             f == PopulateStorageAccess(e, h, u)
  <1>1. CASE "access" \notin Interfaces[u]
    <2>1. f = e
      BY <1>1 DEF PopulateStorageAccess, Is
    <2> QED
      BY <1>1, <2>1, ToldNothing DEF Has
  <1>2. CASE "access" \in Interfaces[u]
    <2>1. f = c
      BY <1>2 DEF PopulateStorageAccess, Is
    <2>2. Told(e, a, h) /\ "accessible" \in DOMAIN a.data[u]
      BY <1>2, AccessibleTold DEF Has
    <2>3. Has(a)
      BY <2>2, ToldHas
    <2> HIDE DEF a
    <2>4. Told(a, b, h) /\ Has(b)
      BY <2>3, StorageSpaceTold, ToldHas
    <2> HIDE DEF b
    <2>5. Told(e, b, h)
      BY <2>2, <2>4, ToldTransitive
    <2>6. u \in b.devicemap
      BY <2>5 DEF Told
    <2>7. Told(b, c, h) /\ u \in c.mapped
      BY <2>4, <2>6, MappedTold
    <2> HIDE DEF c, f
    <2>8. Told(e, c, h)
      BY <2>5, <2>7, ToldTransitive
    <2>9. "accessible" \in DOMAIN c.data[u]
      <3>1. u \in DOMAIN a.data /\ u \in DOMAIN b.data
        BY <2>2, <2>4, <2>6 DEF Told, Has
      <3>2. "accessible" \in DOMAIN b.data[u]
        BY <2>2, <2>4, <3>1 DEF Told
      <3> QED
        BY <2>7, <3>1, <3>2 DEF Told
    <2>10. Told(e, f, h) /\ "accessible" \in DOMAIN f.data[u] /\ u \in f.mapped
      BY <2>1, <2>7, <2>8, <2>9
    <2> QED
      BY <2>10 DEF f
  <1> QED
    BY <1>1, <1>2

LEMMA BatteryTold ==
  ASSUME NEW e, NEW h, NEW u \in Udis, Has(e), u \in e.devicemap, u \in DOMAIN h
  PROVE  LET f == PopulateBattery(e, h, u)
         IN  /\ Told(e, f, h)
             /\ "battery" \in Interfaces[u] => "percent" \in DOMAIN f.data[u] /\ u \in f.mapped
  <1> DEFINE what == [percent |-> h[u].percent, charge |-> h[u].charge]
             a == SetData(e, u, what)
             c == [a EXCEPT !.mapped = @ \union {u}]
             f == PopulateBattery(e, h, u)
  <1>1. CASE "battery" \notin Interfaces[u]
    <2>1. f = e
      BY <1>1 DEF PopulateBattery, Is
    <2> QED
      BY <1>1, <2>1, ToldNothing DEF Has
  <1>2. CASE "battery" \in Interfaces[u]
    <2>1. f = c
      BY <1>2 DEF PopulateBattery, Is
    <2>2. DOMAIN what = {"percent", "charge"} /\ what["percent"] = h[u].percent /\ what["charge"] = h[u].charge
      OBVIOUS
    <2> HIDE DEF what
    <2>3. \A k \in DOMAIN what : True(e.heard, h, u, k, what[k])
      BY <2>2 DEF True
    <2>10. u \in DOMAIN e.data /\ DOMAIN e = SolidFields
      BY DEF Has
    <2>4. Told(e, a, h) /\ (\A k : k \in DOMAIN a.data[u] <=> k \in DOMAIN what \/ k \in DOMAIN e.data[u])
      BY <2>3, <2>10, SetDataTold
    <2> HIDE DEF a
    <2>5. Has(a) /\ u \in a.devicemap /\ u \in DOMAIN a.data
      BY <2>4, ToldHas DEF Told, Has
    <2>6. Told(a, c, h) /\ u \in c.mapped
      BY <2>5, MappedTold
    <2> HIDE DEF c, f
    <2>7. "percent" \in DOMAIN c.data[u]
      BY <2>2, <2>4, <2>5, <2>6 DEF Told
    <2>8. Told(e, c, h)
      BY <2>4, <2>6, ToldTransitive
    <2>9. Told(e, f, h) /\ "percent" \in DOMAIN f.data[u] /\ u \in f.mapped
      BY <2>1, <2>6, <2>7, <2>8
    <2> QED
      BY <2>9 DEF f
  <1> QED
    BY <1>1, <1>2

\* A volume that is in an encrypted container is remembered, and the container told.
LEMMA StorageVolumeTold ==
  ASSUME NEW e, NEW h, NEW u \in Udis, Has(e), u \in e.devicemap, u \in DOMAIN h, DOMAIN h \subseteq Udis,
         EncryptedContainer[u] \in DOMAIN h \union {NoDevice}
  PROVE  LET f == PopulateStorageVolume(e, h, u)
             c == EncryptedContainer[u]
         IN  /\ Told(e, f, h)
             /\ "volume" \in Interfaces[u] /\ c # NoDevice =>
                  /\ u \in DOMAIN f.encrypted
                  /\ c \in e.devicemap /\ "access" \in Interfaces[c] =>
                       "accessible" \in DOMAIN f.data[c] /\ f.data[c]["accessible"] = h[c].accessible
  <1> DEFINE c == EncryptedContainer[u]
             used == UpdateInUse(e, h, u)
             what == [container |-> c]
             a == SetData(used, u, what)
             m == [v \in {u} |-> c]
             b == [a EXCEPT !.encrypted = Over(m, @)]
             g == ForceUpdateAccessibility(b, h, c)
             f == PopulateStorageVolume(e, h, u)
  <1>1. Told(e, used, h) /\ Has(used)
    BY InUseTold, ToldHas
  <1>2. CASE "volume" \notin Interfaces[u]
    <2>1. f = e
      BY <1>2 DEF PopulateStorageVolume, Is
    <2> QED
      BY <1>2, <2>1, ToldNothing DEF Has
  <1>3. CASE "volume" \in Interfaces[u] /\ c \notin DOMAIN h
    <2>1. f = used /\ c = NoDevice
      BY <1>3 DEF PopulateStorageVolume, Is
    <2> QED
      BY <1>1, <2>1
  <1>4. CASE "volume" \in Interfaces[u] /\ c \in DOMAIN h
    <2>1. f = g
      BY <1>4 DEF PopulateStorageVolume, Is
    <2>2. u \in DOMAIN used.data
      BY <1>1 DEF Told, Has
    <2> HIDE DEF used, c
    <2>3. DOMAIN what = {"container"}
      OBVIOUS
    <2> HIDE DEF what
    <2>4. \A k \in DOMAIN what : True(used.heard, h, u, k, what[k])
      BY <2>3 DEF True
    <2>5. Told(used, a, h)
      BY <1>1, <2>2, <2>4, SetDataTold DEF Has
    <2>6. Has(a)
      BY <1>1, <2>5, ToldHas
    <2> HIDE DEF a
    <2>7. DOMAIN m = {u} /\ m[u] = c
      OBVIOUS
    <2> HIDE DEF m
    <2>8. /\ DOMAIN b = SolidFields /\ b.data = a.data /\ b.devicemap = a.devicemap /\ b.heard = a.heard
          /\ b.staged = a.staged /\ b.paths = a.paths /\ b.mapped = a.mapped
          /\ b.encrypted = Over(m, a.encrypted)
      BY <2>6 DEF Has, SolidFields
    <2>9. /\ DOMAIN Over(m, a.encrypted) = DOMAIN m \union DOMAIN a.encrypted
          /\ \A v \in DOMAIN m : Over(m, a.encrypted)[v] = m[v]
          /\ \A v \in DOMAIN a.encrypted : v \notin DOMAIN m => Over(m, a.encrypted)[v] = a.encrypted[v]
      BY OverSays
    <2> HIDE DEF b
    <2>10. /\ u \in DOMAIN b.encrypted
           /\ \A v \in DOMAIN a.encrypted : v \in DOMAIN b.encrypted
           /\ \A v \in DOMAIN b.encrypted : v # u => v \in DOMAIN a.encrypted /\ b.encrypted[v] = a.encrypted[v]
           /\ b.encrypted[u] = EncryptedContainer[u]
      BY <2>7, <2>8, <2>9 DEF c
    <2>11. Told(a, b, h)
      BY <2>8, <2>10 DEF Told
    <2>12. Has(b)
      BY <2>6, <2>11, ToldHas
    <2>13. c \in Udis
      BY <1>4
    <2>14. /\ Told(b, g, h) /\ g.encrypted = b.encrypted
           /\ Valid(b, h, c) /\ "access" \in Interfaces[c] =>
                "accessible" \in DOMAIN g.data[c] /\ g.data[c]["accessible"] = h[c].accessible
      BY <2>12, <2>13, AccessibilityTold
    <2> HIDE DEF g, f
    <2>15. Told(e, b, h)
      BY <1>1, <2>5, <2>11, ToldTransitive
    <2>16. c \in e.devicemap => Valid(b, h, c)
      BY <1>4, <2>15 DEF Told, Valid
    <2>17. Told(e, g, h)
      BY <2>14, <2>15, ToldTransitive
    <2> QED
      BY <2>1, <2>10, <2>14, <2>16, <2>17 DEF c, f
  <1> QED
    BY <1>2, <1>3, <1>4

\* What populateDeviceData makes sure of.
Full(e, u) ==
    /\ "known" \in DOMAIN e.data[u] /\ "state" \in DOMAIN e.data[u]
    /\ "access" \in Interfaces[u] => "accessible" \in DOMAIN e.data[u] /\ u \in e.mapped
    /\ "battery" \in Interfaces[u] => "percent" \in DOMAIN e.data[u] /\ u \in e.mapped
    /\ "volume" \in Interfaces[u] /\ EncryptedContainer[u] # NoDevice => u \in DOMAIN e.encrypted

LEMMA ToldFull ==
  ASSUME NEW e, NEW f, NEW h, NEW u \in Udis, Told(e, f, h), u \in DOMAIN e.data, Full(e, u)
  PROVE  Full(f, u)
  <1>1. /\ "known" \in DOMAIN f.data[u] /\ "state" \in DOMAIN f.data[u]
        /\ "accessible" \in DOMAIN e.data[u] => "accessible" \in DOMAIN f.data[u]
        /\ "percent" \in DOMAIN e.data[u] => "percent" \in DOMAIN f.data[u]
    BY DEF Told, Full
  <1>2. /\ u \in e.mapped => u \in f.mapped
        /\ u \in DOMAIN e.encrypted => u \in DOMAIN f.encrypted
    BY DEF Told
  <1> QED
    BY <1>1, <1>2 DEF Full

\* The sources are as the device and its container are; known is what populateDeviceData
\* begins with.
LEMMA PopulateTold ==
  ASSUME NEW e, NEW h, NEW u \in Udis,
         DOMAIN e = SolidFields, \A v \in Udis : v \in e.devicemap /\ v # u => v \in DOMAIN e.data,
         u \in e.devicemap, u \in DOMAIN h, DOMAIN h \subseteq Udis,
         EncryptedContainer[u] \in DOMAIN h \union {NoDevice}, h[u].job = "Idle"
  PROVE  LET known == SetData(e, u, [known |-> h[u].size, state |-> "Idle", result |-> "Working"])
             f == PopulateDeviceData(e, h, u)
             c == EncryptedContainer[u]
         IN  /\ DOMAIN known = SolidFields
             /\ \A k \in SolidFields : k # "data" => known[k] = e[k]
             /\ DOMAIN known.data = DOMAIN e.data \union {u}
             /\ \A s \in DOMAIN e.data : s # u => known.data[s] = e.data[s]
             /\ \A k \in DOMAIN known.data[u] :
                  \/ True(e.heard, h, u, k, known.data[u][k]) /\ k # "accessible"
                  \/ u \in DOMAIN e.data /\ k \in DOMAIN e.data[u] /\ k \notin {"known", "state"}
                       /\ known.data[u][k] = e.data[u][k]
             /\ Told(known, f, h) /\ Full(f, u)
             /\ "volume" \in Interfaces[u] /\ c # NoDevice /\ c \in e.devicemap /\ "access" \in Interfaces[c] =>
                  "accessible" \in DOMAIN f.data[c] /\ f.data[c]["accessible"] = h[c].accessible
  <1> DEFINE what == [known |-> h[u].size, state |-> "Idle", result |-> "Working"]
             known == SetData(e, u, what)
             a == PopulateStorageAccess(known, h, u)
             b == PopulateStorageVolume(a, h, u)
             f == PopulateDeviceData(e, h, u)
             c == EncryptedContainer[u]
  <1>1. f = PopulateBattery(b, h, u)
    BY DEF PopulateDeviceData
  <1>2. /\ DOMAIN what = {"known", "state", "result"} /\ what["known"] = h[u].size /\ what["state"] = "Idle"
    OBVIOUS
  <1> HIDE DEF what
  <1>3. /\ DOMAIN known = SolidFields
        /\ \A k \in SolidFields : k # "data" => known[k] = e[k]
        /\ DOMAIN known.data = DOMAIN e.data \union {u}
        /\ \A s \in DOMAIN e.data : s # u => known.data[s] = e.data[s]
        /\ known.data[u] = Over(what, DataOf(e, u))
    BY SetDataEffect DEF SolidFields
  <1> HIDE DEF known
  <1>4. /\ DOMAIN Over(what, DataOf(e, u)) = DOMAIN what \union DOMAIN DataOf(e, u)
        /\ \A k \in DOMAIN what : Over(what, DataOf(e, u))[k] = what[k]
        /\ \A k \in DOMAIN DataOf(e, u) : k \notin DOMAIN what => Over(what, DataOf(e, u))[k] = DataOf(e, u)[k]
    BY OverSays
  <1>5. \A k \in DOMAIN DataOf(e, u) : u \in DOMAIN e.data /\ DataOf(e, u) = e.data[u]
    BY DEF DataOf, NoData
  <1>6. ASSUME NEW k \in DOMAIN known.data[u]
        PROVE  \/ True(e.heard, h, u, k, known.data[u][k]) /\ k # "accessible"
               \/ u \in DOMAIN e.data /\ k \in DOMAIN e.data[u] /\ k \notin {"known", "state"}
                    /\ known.data[u][k] = e.data[u][k]
    <2>1. CASE k \in DOMAIN what
      <3>1. known.data[u][k] = what[k] /\ k \in {"known", "state", "result"}
        BY <1>2, <1>3, <1>4, <2>1
      <3> QED
        BY <1>2, <3>1 DEF True
    <2>2. CASE k \notin DOMAIN what
      BY <1>2, <1>3, <1>4, <1>5, <1>6, <2>2
    <2> QED
      BY <2>1, <2>2
  <1>7. {"known", "state"} \subseteq DOMAIN known.data[u]
    BY <1>2, <1>3, <1>4
  <1>8. known.devicemap = e.devicemap /\ known.heard = e.heard
    BY <1>3 DEF SolidFields
  <1>9. Has(known) /\ u \in known.devicemap /\ u \in DOMAIN known.data
    BY <1>3, <1>8 DEF Has
  <1>10. /\ Told(known, a, h)
         /\ "access" \in Interfaces[u] => "accessible" \in DOMAIN a.data[u] /\ u \in a.mapped
    BY <1>9, StorageAccessTold
  <1>11. Has(a) /\ u \in a.devicemap /\ u \in DOMAIN a.data
    BY <1>9, <1>10, ToldHas DEF Told
  <1> HIDE DEF a
  <1>12. /\ Told(a, b, h)
         /\ "volume" \in Interfaces[u] /\ c # NoDevice =>
              /\ u \in DOMAIN b.encrypted
              /\ c \in a.devicemap /\ "access" \in Interfaces[c] =>
                   "accessible" \in DOMAIN b.data[c] /\ b.data[c]["accessible"] = h[c].accessible
    BY <1>11, StorageVolumeTold
  <1>13. Has(b) /\ u \in b.devicemap /\ u \in DOMAIN b.data
    BY <1>11, <1>12, ToldHas DEF Told
  <1> HIDE DEF b
  <1>14. /\ Told(b, f, h)
         /\ "battery" \in Interfaces[u] => "percent" \in DOMAIN f.data[u] /\ u \in f.mapped
    BY <1>1, <1>13, BatteryTold
  <1> HIDE DEF f
  <1>15. Told(known, f, h)
    BY <1>10, <1>12, <1>14, ToldTransitive
  <1>16. "known" \in DOMAIN f.data[u] /\ "state" \in DOMAIN f.data[u]
    BY <1>7, <1>9, <1>15 DEF Told
  <1>17. "access" \in Interfaces[u] => "accessible" \in DOMAIN f.data[u] /\ u \in f.mapped
    <2>1. Told(a, f, h)
      BY <1>12, <1>14, ToldTransitive
    <2> QED
      BY <1>10, <1>11, <2>1 DEF Told
  <1>18. "volume" \in Interfaces[u] /\ c # NoDevice => u \in DOMAIN f.encrypted
    BY <1>12, <1>14 DEF Told
  <1>19. Full(f, u)
    BY <1>14, <1>16, <1>17, <1>18 DEF Full
  <1>20. ASSUME "volume" \in Interfaces[u], c # NoDevice, c \in e.devicemap, "access" \in Interfaces[c]
         PROVE  "accessible" \in DOMAIN f.data[c] /\ f.data[c]["accessible"] = h[c].accessible
    <2>1. c \in Udis /\ c \in a.devicemap /\ c \in b.devicemap
      BY <1>8, <1>10, <1>12, <1>20 DEF Told
    <2>2. "accessible" \in DOMAIN b.data[c] /\ b.data[c]["accessible"] = h[c].accessible
      BY <1>12, <1>20, <2>1
    <2>3. c \in DOMAIN b.data
      BY <1>13, <2>1 DEF Has
    <2>4. "accessible" \in DOMAIN f.data[c]
      BY <1>14, <2>1, <2>2, <2>3 DEF Told
    <2>5. \/ f.data[c]["accessible"] = b.data[c]["accessible"]
          \/ True(b.heard, h, c, "accessible", f.data[c]["accessible"])
      BY <1>14, <2>1, <2>3, <2>4 DEF Told
    <2> QED
      BY <2>2, <2>4, <2>5 DEF True
  <1> HIDE DEF c
  <1>21. /\ DOMAIN known = SolidFields
         /\ \A k \in SolidFields : k # "data" => known[k] = e[k]
         /\ DOMAIN known.data = DOMAIN e.data \union {u}
         /\ \A s \in DOMAIN e.data : s # u => known.data[s] = e.data[s]
    BY <1>3
  <1> QED
    BY <1>6, <1>15, <1>19, <1>20, <1>21 DEF known, what, f, c

\* The maps of the engine, its sources and the devices that are there belong together: a device
\* is kept as long as it is there, and its volume with its container.
Kept(e, h) ==
    /\ DOMAIN e = SolidFields
    /\ \A u \in Udis : u \in DOMAIN e.data <=> u \in e.devicemap
    /\ e.devicemap \subseteq DOMAIN h /\ DOMAIN h \subseteq Udis
    /\ e.mapped \subseteq e.devicemap /\ e.staged \subseteq e.devicemap /\ e.paths \subseteq e.devicemap
    /\ \A u \in DOMAIN e.encrypted : e.encrypted[u] = EncryptedContainer[u]
    /\ \A u \in DOMAIN h : EncryptedContainer[u] \in DOMAIN h \union {NoDevice}
    /\ \A u \in DOMAIN h : h[u].job # "Idle" => u \in e.devicemap /\ "access" \in Interfaces[u]

\* All that a source says but some keys is true, what is accessible only when all volumes of
\* the device are known, and the state of a device that is not heard of is "Idle" for good.
Right(e, h, u, but) ==
    /\ \A k \in DOMAIN e.data[u] :
          k \notin but /\ k \notin {"accessible", "state"} => True(e.heard, h, u, k, e.data[u][k])
    /\ "accessible" \in DOMAIN e.data[u] =>
          /\ "access" \in Interfaces[u]
          /\ "accessible" \notin but /\ List(h, "volume") \intersect Inside(u) \subseteq e.devicemap =>
                e.data[u]["accessible"] = h[u].accessible
    /\ "state" \notin but => /\ u \in e.heard => e.data[u]["state"] = h[u].job
                             /\ u \notin e.heard => e.data[u]["state"] = "Idle"

DevicesFit(e, h, w, but) ==
    /\ Kept(e, h)
    /\ \A u \in e.devicemap : /\ Full(e, u)
                              /\ u # w => Right(e, h, u, {})
                              /\ u = w => Right(e, h, u, but)

\* What was told makes good what is not right.
LEMMA ToldFits ==
  ASSUME NEW e, NEW f, NEW h, NEW w, NEW but, DevicesFit(e, h, w, but), Told(e, f, h),
         w \in e.devicemap =>
            \A k \in but : k \in DOMAIN f.data[w] => True(e.heard, h, w, k, f.data[w][k])
  PROVE  DevicesFit(f, h, NoDevice, {})
  <1>1. Kept(e, h)
    BY DEF DevicesFit
  <1>2. f.devicemap = e.devicemap /\ f.heard = e.heard /\ f.staged = e.staged
    BY DEF Told
  <1>3. Kept(f, h)
    <2>1. DOMAIN f = SolidFields /\ \A u \in Udis : u \in DOMAIN f.data <=> u \in f.devicemap
      BY <1>1, <1>2 DEF Told, Kept
    <2>2. f.mapped \subseteq f.devicemap /\ f.staged \subseteq f.devicemap /\ f.paths \subseteq f.devicemap
      BY <1>1, <1>2 DEF Told, Kept
    <2>3. \A u \in DOMAIN f.encrypted : f.encrypted[u] = EncryptedContainer[u]
      BY <1>1 DEF Told, Kept
    <2> QED
      BY <1>1, <1>2, <2>1, <2>2, <2>3 DEF Kept
  <1>4. ASSUME NEW u \in f.devicemap PROVE Full(f, u) /\ Right(f, h, u, {})
    <2> DEFINE b == IF u = w THEN but ELSE {}
    <2>1. /\ u \in e.devicemap /\ u \in Udis /\ u \in DOMAIN e.data /\ u \in DOMAIN f.data
          /\ Full(e, u) /\ Right(e, h, u, b)
      BY <1>1, <1>2, <1>3, <1>4 DEF DevicesFit, Kept
    <2>2. \A k \in DOMAIN f.data[u] : k \in b => True(e.heard, h, u, k, f.data[u][k])
      BY <2>1
    <2> HIDE DEF b
    <2>3. Full(f, u)
      BY <2>1, ToldFull
    <2>4. \A k \in DOMAIN f.data[u] :
             \/ k \in DOMAIN e.data[u] /\ f.data[u][k] = e.data[u][k]
             \/ True(e.heard, h, u, k, f.data[u][k])
      BY <2>1 DEF Told
    <2>5. ASSUME NEW k \in DOMAIN f.data[u], k \notin {"accessible", "state"}
          PROVE  True(f.heard, h, u, k, f.data[u][k])
      BY <1>2, <2>1, <2>2, <2>4, <2>5 DEF Right
    <2>6. ASSUME "accessible" \in DOMAIN f.data[u]
          PROVE  /\ "access" \in Interfaces[u]
                 /\ List(h, "volume") \intersect Inside(u) \subseteq f.devicemap =>
                       f.data[u]["accessible"] = h[u].accessible
      <3>1. CASE True(e.heard, h, u, "accessible", f.data[u]["accessible"])
        BY <3>1 DEF True
      <3>2. CASE /\ "accessible" \in DOMAIN e.data[u]
                 /\ f.data[u]["accessible"] = e.data[u]["accessible"]
                 /\ "accessible" \notin b
        BY <1>2, <2>1, <3>2 DEF Right
      <3> QED
        BY <2>2, <2>4, <2>6, <3>1, <3>2
    <2>7. /\ u \in f.heard => f.data[u]["state"] = h[u].job
          /\ u \notin f.heard => f.data[u]["state"] = "Idle"
      <3>1. "state" \in DOMAIN f.data[u]
        BY <2>3 DEF Full
      <3>2. CASE True(e.heard, h, u, "state", f.data[u]["state"])
        BY <1>2, <3>2 DEF True
      <3>3. CASE f.data[u]["state"] = e.data[u]["state"] /\ "state" \notin b
        BY <1>2, <2>1, <3>3 DEF Right
      <3> QED
        BY <2>2, <2>4, <3>1, <3>2, <3>3
    <2>8. Right(f, h, u, {})
      BY <2>5, <2>6, <2>7 DEF Right
    <2> QED
      BY <2>3, <2>8
  <1>5. NoDevice \notin f.devicemap
    BY <1>3, HardwareAssumption DEF Kept
  <1> QED
    BY <1>3, <1>4, <1>5 DEF DevicesFit

\* The hardware changes at one device, in what the keys are about.
SameBut(h, g, w, but) ==
    /\ DOMAIN g = DOMAIN h
    /\ \A u \in DOMAIN h : u # w => g[u] = h[u]
    /\ w \in DOMAIN h =>
          /\ "known" \notin but => g[w].size = h[w].size
          /\ "accessible" \notin but => g[w].accessible = h[w].accessible
          /\ "percent" \notin but => g[w].percent = h[w].percent
          /\ "charge" \notin but => g[w].charge = h[w].charge
          /\ "state" \notin but => g[w].job = h[w].job

LEMMA ChangedFits ==
  ASSUME NEW e, NEW h, NEW g, NEW w \in Udis, NEW but, DevicesFit(e, h, NoDevice, {}), SameBut(h, g, w, but),
         w \in DOMAIN h => (g[w].job # "Idle" => w \in e.devicemap /\ "access" \in Interfaces[w])
  PROVE  DevicesFit(e, g, w, but)
  <1>1. Kept(e, h) /\ \A u \in e.devicemap : Full(e, u) /\ Right(e, h, u, {})
    BY HardwareAssumption DEF DevicesFit, Kept
  <1>2. Kept(e, g)
    BY <1>1 DEF Kept, SameBut
  <1>3. List(g, "volume") = List(h, "volume")
    BY DEF List, SameBut
  <1>4. ASSUME NEW u \in e.devicemap, u # w PROVE Right(e, g, u, {})
    <2>1. g[u] = h[u] /\ Right(e, h, u, {})
      BY <1>1, <1>4 DEF SameBut, Kept
    <2> QED
      BY <1>3, <2>1 DEF Right, True
  <1>5. ASSUME w \in e.devicemap PROVE Right(e, g, w, but)
    <2>1. Right(e, h, w, {}) /\ w \in DOMAIN h
      BY <1>1, <1>5 DEF Kept
    <2>2. /\ "known" \notin but => g[w].size = h[w].size
          /\ "accessible" \notin but => g[w].accessible = h[w].accessible
          /\ "percent" \notin but => g[w].percent = h[w].percent
          /\ "charge" \notin but => g[w].charge = h[w].charge
          /\ "state" \notin but => g[w].job = h[w].job
      BY <2>1 DEF SameBut
    <2>3. ASSUME NEW k \in DOMAIN e.data[w], k \notin but, k \notin {"accessible", "state"}
          PROVE  True(e.heard, g, w, k, e.data[w][k])
      BY <2>1, <2>2, <2>3 DEF Right, True
    <2> QED
      BY <1>3, <2>1, <2>2, <2>3 DEF Right
  <1> QED
    BY <1>1, <1>2, <1>4, <1>5 DEF DevicesFit

\* What changes only queries tells the devices nothing.
LEMMA QueriesOnlyTold ==
  ASSUME NEW e, NEW f, NEW h, DOMAIN e = SolidFields, DOMAIN f = SolidFields,
         \A k \in SolidFields : k \notin {"data", "predicatemap"} => f[k] = e[k],
         \A u \in Udis : u \in DOMAIN f.data <=> u \in DOMAIN e.data,
         \A u \in Udis : u \in DOMAIN e.data => f.data[u] = e.data[u]
  PROVE  Told(e, f, h)
  <1>1. /\ f.devicemap = e.devicemap /\ f.heard = e.heard /\ f.staged = e.staged /\ f.mapped = e.mapped
        /\ f.paths = e.paths /\ f.encrypted = e.encrypted
    BY DEF SolidFields
  <1> QED
    BY <1>1 DEF Told

\* The signals of a device are connected, while no operation on it is under way.
LEMMA HeardFits ==
  ASSUME NEW e, NEW f, NEW h, NEW w \in Udis, DevicesFit(e, h, NoDevice, {}),
         w \in e.devicemap => h[w].job = "Idle",
         DOMAIN f = SolidFields, \A k \in SolidFields : k \notin {"staged", "heard"} => f[k] = e[k],
         \A u : u \in f.staged => u \in e.staged \/ (u = w /\ w \in e.devicemap),
         \A u : u \in f.heard => u \in e.heard \/ u = w,
         \A u : u \in e.heard => u \in f.heard
  PROVE  DevicesFit(f, h, NoDevice, {})
  <1>1. Kept(e, h) /\ \A u \in e.devicemap : u \in Udis /\ Full(e, u) /\ Right(e, h, u, {})
    BY HardwareAssumption DEF DevicesFit, Kept
  <1>2. /\ f.devicemap = e.devicemap /\ f.data = e.data /\ f.mapped = e.mapped
        /\ f.paths = e.paths /\ f.encrypted = e.encrypted
    BY DEF SolidFields
  <1>3. Kept(f, h)
    BY <1>1, <1>2 DEF Kept
  <1>4. ASSUME NEW u \in f.devicemap PROVE Full(f, u) /\ Right(f, h, u, {})
    <2>1. Full(e, u) /\ Right(e, h, u, {}) /\ u \in Udis
      BY <1>1, <1>2
    <2>2. Full(f, u)
      BY <1>2, <2>1 DEF Full
    <2>3. /\ u \in f.heard => f.data[u]["state"] = h[u].job
          /\ u \notin f.heard => f.data[u]["state"] = "Idle"
      BY <1>2, <1>4, <2>1 DEF Right
    <2>4. ASSUME NEW k \in DOMAIN f.data[u], k \notin {"accessible", "state"}
          PROVE  True(f.heard, h, u, k, f.data[u][k])
      BY <1>2, <2>1, <2>4 DEF Right, True
    <2>5. Right(f, h, u, {})
      BY <1>2, <2>1, <2>3, <2>4 DEF Right
    <2> QED
      BY <2>2, <2>5
  <1> QED
    BY <1>1, <1>2, <1>3, <1>4, HardwareAssumption DEF DevicesFit, Kept

LEMMA DeviceAddedFitsDevices ==
  ASSUME NEW e, NEW h, NEW u \in Udis, NEW there, QueriesFit(e, there), DevicesFit(e, h, NoDevice, {}),
         u \in e.devicemap => h[u].job = "Idle"
  PROVE  LET f == DeviceAdded(e, h, u)
         IN  DevicesFit(f, h, NoDevice, {}) /\ f.devicemap = e.devicemap
  <1> DEFINE listed == AddToQueries(e, u)
             stages == IF u \in e.devicemap /\ "size" \notin DOMAIN e.data[u]
                       THEN listed.staged \union {u} ELSE listed.staged
             hears == IF Is(h, u, "access") THEN listed.heard \union {u} ELSE listed.heard
             f == [listed EXCEPT !.staged = stages, !.heard = hears]
  <1>1. /\ QueriesFit(listed, there \union {u}) /\ DOMAIN listed.data = DOMAIN e.data
        /\ \A s \in DOMAIN e.data : s \notin DOMAIN e.predicatemap => listed.data[s] = e.data[s]
        /\ \A k \in SolidFields : k \notin {"data", "predicatemap"} => listed[k] = e[k]
    BY AddToQueriesFits
  <1> HIDE DEF listed
  <1>2. \A v \in Udis : v \notin DOMAIN e.predicatemap
    BY QueriesAssumption DEF QueriesFit
  <1>3. DOMAIN listed = SolidFields /\ DOMAIN e = SolidFields
    BY <1>1 DEF QueriesFit
  <1>4. Told(e, listed, h)
    BY <1>1, <1>2, <1>3, QueriesOnlyTold
  <1>5. NoDevice \notin e.devicemap
    BY HardwareAssumption DEF DevicesFit, Kept
  <1>6. DevicesFit(listed, h, NoDevice, {}) /\ listed.devicemap = e.devicemap
    BY <1>4, <1>5, ToldFits DEF Told
  <1>7. /\ \A v : v \in stages => v \in listed.staged \/ (v = u /\ u \in listed.devicemap)
        /\ \A v : v \in hears => v \in listed.heard \/ v = u
        /\ \A v : v \in listed.heard => v \in hears
    BY <1>6
  <1> HIDE DEF stages, hears
  <1>8. /\ DOMAIN f = SolidFields /\ f.staged = stages /\ f.heard = hears
        /\ \A k \in SolidFields : k \notin {"staged", "heard"} => f[k] = listed[k]
    BY <1>3 DEF SolidFields
  <1>9. DeviceAdded(e, h, u) \in {listed, f}
    BY DEF DeviceAdded, listed, stages, hears
  <1> HIDE DEF f
  <1>10. DevicesFit(f, h, NoDevice, {}) /\ f.devicemap = e.devicemap
    BY <1>6, <1>7, <1>8, HeardFits DEF SolidFields
  <1> QED
    BY <1>6, <1>9, <1>10

\* Of the container of a volume that comes, not all volumes are known.
LEMMA PluggedFits ==
  ASSUME NEW e, NEW h, NEW g, NEW w \in Udis, DevicesFit(e, h, NoDevice, {}), w \notin DOMAIN h,
         EncryptedContainer[w] \in DOMAIN h \union {NoDevice},
         DOMAIN g = DOMAIN h \union {w},
         \A u \in DOMAIN h : /\ g[u].job = h[u].job /\ g[u].size = h[u].size
                             /\ g[u].percent = h[u].percent /\ g[u].charge = h[u].charge,
         \A u \in DOMAIN h : u # EncryptedContainer[w] => g[u].accessible = h[u].accessible,
         g[w].job = "Idle"
  PROVE  DevicesFit(e, g, NoDevice, {})
  <1>1. Kept(e, h) /\ \A u \in e.devicemap : Full(e, u) /\ Right(e, h, u, {})
    BY HardwareAssumption DEF DevicesFit, Kept
  <1>2. w \notin e.devicemap
    BY <1>1 DEF Kept
  <1>3. Kept(e, g)
    BY <1>1 DEF Kept
  <1>4. ASSUME NEW u \in e.devicemap PROVE Right(e, g, u, {})
    <2>1. u \in DOMAIN h /\ Right(e, h, u, {})
      BY <1>1, <1>4 DEF Kept
    <2>2. List(h, "volume") \subseteq List(g, "volume")
      BY DEF List
    <2>3. u = EncryptedContainer[w] => ~(List(g, "volume") \intersect Inside(u) \subseteq e.devicemap)
      <3>1. SUFFICES ASSUME u = EncryptedContainer[w]
                     PROVE  w \in List(g, "volume") \intersect Inside(u)
        BY <1>2
      <3>2. EncryptedContainer[w] # NoDevice
        BY <1>1, <3>1, HardwareAssumption DEF Kept
      <3> QED
        BY <3>1, <3>2, HardwareAssumption DEF List, Inside
    <2>4. ASSUME NEW k \in DOMAIN e.data[u], k \notin {"accessible", "state"}
          PROVE  True(e.heard, g, u, k, e.data[u][k])
      BY <2>1, <2>4 DEF Right, True
    <2>5. /\ u \in e.heard => e.data[u]["state"] = g[u].job
          /\ u \notin e.heard => e.data[u]["state"] = "Idle"
      BY <2>1 DEF Right
    <2> QED
      BY <2>1, <2>2, <2>3, <2>4, <2>5 DEF Right
  <1> QED
    BY <1>1, <1>3, <1>4 DEF DevicesFit

\* The container of a volume that goes is told what it is like, and the others stay right.
LEMMA DeviceRemovedFitsDevices ==
  ASSUME NEW e, NEW h, NEW g, NEW w \in Udis, NEW there, QueriesFit(e, there),
         DevicesFit(e, h, NoDevice, {}), w \in DOMAIN h, DOMAIN g = DOMAIN h \ {w},
         \A u \in DOMAIN g : /\ g[u].job = h[u].job /\ g[u].size = h[u].size
                             /\ g[u].percent = h[u].percent /\ g[u].charge = h[u].charge,
         \A u \in DOMAIN g : u # EncryptedContainer[w] => g[u].accessible = h[u].accessible,
         \A v \in DOMAIN h : EncryptedContainer[v] # w,
         w \notin e.paths,
         EncryptedContainer[w] # NoDevice => w \in e.devicemap /\ EncryptedContainer[w] \in e.devicemap
  PROVE  LET f == DeviceRemoved(e, g, w)
         IN  DevicesFit(f, g, NoDevice, {}) /\ f.devicemap \subseteq e.devicemap
  <1> DEFINE c == EncryptedContainer[w]
             told == ForceUpdateAccessibility(e, g, e.encrypted[w])
             less == [told EXCEPT !.encrypted = [v \in DOMAIN @ \ {w} |-> @[v]]]
             t == IF w \in DOMAIN e.encrypted THEN told ELSE e
             forced == IF w \in DOMAIN e.encrypted THEN less ELSE e
             listed == RemoveFromQueries(forced, w)
             gone == SourceWasRemoved(listed, w)
             f == [gone EXCEPT !.mapped = @ \ {w}, !.heard = @ \ {w}, !.staged = @ \ {w}]
  <1>1. /\ Kept(e, h) /\ \A u \in e.devicemap : u \in Udis /\ u \in DOMAIN h /\ Full(e, u) /\ Right(e, h, u, {})
        /\ Has(e) /\ DOMAIN e = SolidFields
    BY HardwareAssumption DEF DevicesFit, Kept, Has
  <1>2. w \in DOMAIN e.encrypted => e.encrypted[w] = c
    BY <1>1 DEF Kept
  <1>3. c \in Udis \union {NoDevice} /\ c # w
    BY HardwareAssumption
  <1>4. /\ w \in DOMAIN e.encrypted => SameQueries(e, told) /\ Told(e, told, g) /\ told.paths = e.paths
        /\ w \in DOMAIN e.encrypted /\ c \in e.devicemap /\ "access" \in Interfaces[c] =>
              "accessible" \in DOMAIN told.data[c] /\ told.data[c]["accessible"] = g[c].accessible
    <2>1. CASE c = NoDevice
      <3>1. NoDevice \notin e.devicemap
        BY <1>1, HardwareAssumption
      <3>2. w \in DOMAIN e.encrypted => told = e
        BY <1>2, <2>1, <3>1 DEF ForceUpdateAccessibility, Valid
      <3> QED
        BY <1>1, <2>1, <3>1, <3>2, ToldNothing DEF SameQueries
    <2>2. CASE c \in Udis
      <3>1. c \in e.devicemap => Valid(e, g, c)
        BY <1>1, <1>3 DEF Valid
      <3>2. SameQueries(e, ForceUpdateAccessibility(e, g, c))
        BY <1>1, <2>2, HandlersKeepQueries
      <3>3. LET x == ForceUpdateAccessibility(e, g, c)
            IN  /\ Told(e, x, g) /\ x.paths = e.paths
                /\ Valid(e, g, c) /\ "access" \in Interfaces[c] =>
                     "accessible" \in DOMAIN x.data[c] /\ x.data[c]["accessible"] = g[c].accessible
        BY <1>1, <2>2, AccessibilityTold
      <3>4. w \in DOMAIN e.encrypted => told = ForceUpdateAccessibility(e, g, c)
        BY <1>2
      <3> HIDE DEF told, c
      <3> QED
        BY <3>1, <3>2, <3>3, <3>4
    <2> QED
      BY <1>3, <2>1, <2>2
  <1> HIDE DEF told
  <1>5. Told(e, t, g) /\ t.paths = e.paths
    BY <1>1, <1>4, ToldNothing
  <1>6. /\ DOMAIN forced = SolidFields /\ QueriesFit(forced, there)
        /\ forced.devicemap = t.devicemap /\ forced.heard = t.heard /\ forced.staged = t.staged
        /\ forced.mapped = t.mapped /\ forced.paths = t.paths /\ forced.data = t.data
        /\ \A v \in DOMAIN forced.encrypted : v \in DOMAIN t.encrypted /\ forced.encrypted[v] = t.encrypted[v]
        /\ \A v \in DOMAIN t.encrypted : v # w => v \in DOMAIN forced.encrypted
    <2>1. CASE w \notin DOMAIN e.encrypted
      BY <1>1, <2>1
    <2>2. CASE w \in DOMAIN e.encrypted
      <3>1. /\ DOMAIN told = SolidFields /\ forced = less /\ t = told
        BY <1>4, <2>2 DEF Told
      <3>2. /\ DOMAIN less = SolidFields /\ less.data = told.data /\ less.predicatemap = told.predicatemap
            /\ less.devicemap = told.devicemap /\ less.heard = told.heard
            /\ less.staged = told.staged /\ less.mapped = told.mapped /\ less.paths = told.paths
            /\ less.encrypted = [v \in DOMAIN told.encrypted \ {w} |-> told.encrypted[v]]
        BY <3>1 DEF SolidFields
      <3> HIDE DEF less, forced, t
      <3>3. SameQueries(told, less)
        BY <3>1, <3>2 DEF SameQueries
      <3>4. QueriesFit(less, there)
        BY <1>4, <2>2, <3>3, SameQueriesFit, SameQueriesTransitive
      <3> QED
        BY <3>1, <3>2, <3>4
    <2> QED
      BY <2>1, <2>2
  <1> HIDE DEF t, less, forced
  <1>18. QueriesFit(forced, there)
    BY <1>6
  <1>7. /\ QueriesFit(listed, there \ {w}) /\ DOMAIN listed.data = DOMAIN forced.data
        /\ \A s \in DOMAIN forced.data : s \notin DOMAIN forced.predicatemap => listed.data[s] = forced.data[s]
        /\ \A k \in SolidFields : k \notin {"data", "predicatemap"} => listed[k] = forced[k]
    BY <1>18, RemoveFromQueriesFits
  <1> HIDE DEF listed
  <1>8. DOMAIN listed = SolidFields
    BY <1>7 DEF QueriesFit
  <1>9. /\ DOMAIN gone = SolidFields
        /\ DOMAIN gone.data = DOMAIN listed.data \ {w}
        /\ \A s \in DOMAIN listed.data : s # w => gone.data[s] = listed.data[s]
        /\ \A u : u \in gone.devicemap <=> u \in listed.devicemap /\ u # w
        /\ \A k \in SolidFields : k \notin {"data", "devicemap", "predicatemap"} => gone[k] = listed[k]
    BY <1>8, SourceWasRemovedEffect
  <1> HIDE DEF gone
  <1>10. /\ DOMAIN f = SolidFields /\ f.data = gone.data /\ f.devicemap = gone.devicemap
         /\ f.paths = gone.paths /\ f.encrypted = gone.encrypted
         /\ \A u : u \in f.mapped <=> u \in gone.mapped /\ u # w
         /\ \A u : u \in f.heard <=> u \in gone.heard /\ u # w
         /\ \A u : u \in f.staged <=> u \in gone.staged /\ u # w
    BY <1>9 DEF SolidFields
  <1>11. DeviceRemoved(e, g, w) = f
    BY DEF DeviceRemoved, gone, listed, forced, less, told
  <1> HIDE DEF f
  <1>12. \A u \in Udis : u \notin DOMAIN forced.predicatemap
    BY <1>6, QueriesAssumption DEF QueriesFit
  <1>13. /\ \A u : u \in f.devicemap <=> u \in e.devicemap /\ u # w
         /\ \A u : u \in f.heard <=> u \in e.heard /\ u # w
         /\ \A u : u \in f.staged <=> u \in e.staged /\ u # w
         /\ \A u : u \in f.mapped <=> u \in t.mapped /\ u # w
         /\ f.paths = e.paths
         /\ f.encrypted = forced.encrypted
    <2>1. /\ listed.devicemap = forced.devicemap /\ listed.heard = forced.heard /\ listed.staged = forced.staged
          /\ listed.mapped = forced.mapped /\ listed.paths = forced.paths /\ listed.encrypted = forced.encrypted
      BY <1>7 DEF SolidFields
    <2>2. /\ gone.heard = listed.heard /\ gone.staged = listed.staged
          /\ gone.mapped = listed.mapped /\ gone.paths = listed.paths /\ gone.encrypted = listed.encrypted
      BY <1>9 DEF SolidFields
    <2>3. t.devicemap = e.devicemap /\ t.heard = e.heard /\ t.staged = e.staged
      BY <1>5 DEF Told
    <2> QED
      BY <1>5, <1>6, <1>9, <1>10, <2>1, <2>2, <2>3
  <1>14. /\ \A u \in Udis : u \in DOMAIN f.data <=> u \in DOMAIN t.data /\ u # w
         /\ \A u \in Udis : u \in DOMAIN t.data /\ u # w => f.data[u] = t.data[u]
    BY <1>6, <1>7, <1>9, <1>10, <1>12
  <1>15. Kept(f, g)
    <2>1. \A u \in Udis : u \in DOMAIN f.data <=> u \in f.devicemap
      BY <1>1, <1>5, <1>13, <1>14 DEF Told, Kept
    <2>2. f.devicemap \subseteq DOMAIN g /\ DOMAIN g \subseteq Udis
      BY <1>1, <1>13 DEF Kept
    <2>3. f.mapped \subseteq f.devicemap
      BY <1>1, <1>5, <1>13 DEF Told, Kept
    <2>4. f.staged \subseteq f.devicemap /\ f.paths \subseteq f.devicemap
      BY <1>1, <1>13 DEF Kept
    <2>5. \A u \in DOMAIN f.encrypted : f.encrypted[u] = EncryptedContainer[u]
      BY <1>1, <1>5, <1>6, <1>13 DEF Told, Kept
    <2>6. \A u \in DOMAIN g : EncryptedContainer[u] \in DOMAIN g \union {NoDevice}
      BY <1>1 DEF Kept
    <2>7. \A u \in DOMAIN g : g[u].job # "Idle" => u \in f.devicemap /\ "access" \in Interfaces[u]
      BY <1>1, <1>13 DEF Kept
    <2> QED
      BY <1>10, <2>1, <2>2, <2>3, <2>4, <2>5, <2>6, <2>7 DEF Kept
  <1>16. ASSUME NEW u \in f.devicemap PROVE Full(f, u) /\ Right(f, g, u, {})
    <2>1. /\ u \in e.devicemap /\ u # w /\ u \in Udis /\ u \in DOMAIN h /\ u \in DOMAIN g
          /\ Full(e, u) /\ Right(e, h, u, {}) /\ u \in DOMAIN e.data
      BY <1>1, <1>13, <1>16 DEF Kept
    <2>2. f.data[u] = t.data[u] /\ u \in DOMAIN t.data
      BY <1>5, <1>14, <2>1 DEF Told
    <2>3. Full(t, u)
      BY <1>5, <2>1, ToldFull
    <2>4. Full(f, u)
      BY <1>6, <1>13, <2>1, <2>2, <2>3 DEF Full
    <2>5. \A k \in DOMAIN t.data[u] :
             \/ k \in DOMAIN e.data[u] /\ t.data[u][k] = e.data[u][k]
             \/ True(e.heard, g, u, k, t.data[u][k])
      BY <1>5, <2>1 DEF Told
    <2>6. u \in f.heard <=> u \in e.heard
      BY <1>13, <2>1
    <2>7. ASSUME NEW k \in DOMAIN f.data[u], k \notin {"accessible", "state"}
          PROVE  True(f.heard, g, u, k, f.data[u][k])
      <3>1. True(e.heard, g, u, k, t.data[u][k])
        <4>1. CASE k \in DOMAIN e.data[u] /\ t.data[u][k] = e.data[u][k]
          <5>1. True(e.heard, h, u, k, t.data[u][k])
            BY <2>1, <2>7, <4>1 DEF Right
          <5> QED
            BY <2>1, <2>7, <5>1 DEF True
        <4> QED
          BY <2>2, <2>5, <2>7, <4>1
      <3> QED
        BY <2>2, <2>7, <3>1 DEF True
    <2>8. ASSUME "accessible" \in DOMAIN f.data[u]
          PROVE  /\ "access" \in Interfaces[u]
                 /\ List(g, "volume") \intersect Inside(u) \subseteq f.devicemap =>
                       f.data[u]["accessible"] = g[u].accessible
      <3>1. CASE True(e.heard, g, u, "accessible", t.data[u]["accessible"])
        BY <2>2, <3>1 DEF True
      <3>2. CASE "accessible" \in DOMAIN e.data[u] /\ t.data[u]["accessible"] = e.data[u]["accessible"]
        <4>1. "access" \in Interfaces[u]
          BY <2>1, <3>2 DEF Right
        <4>2. CASE u = c
          <5>1. u # NoDevice
            BY <2>1, HardwareAssumption
          <5>2. w \in e.devicemap /\ "volume" \in Interfaces[w]
            BY <4>2, <5>1, HardwareAssumption
          <5>3. w \in DOMAIN e.encrypted
            BY <1>1, <4>2, <5>1, <5>2 DEF Full
          <5>4. t = told
            BY <5>3 DEF t
          <5>5. told.data[c]["accessible"] = g[c].accessible
            BY <1>4, <2>1, <4>1, <4>2, <5>3
          <5> QED
            BY <2>2, <4>1, <4>2, <5>4, <5>5
        <4>3. CASE u # c
          <5>1. \A v \in List(h, "volume") \intersect Inside(u) : v \in List(g, "volume") \intersect Inside(u)
            BY <4>3 DEF List, Inside
          <5>2. List(g, "volume") \intersect Inside(u) \subseteq f.devicemap =>
                  List(h, "volume") \intersect Inside(u) \subseteq e.devicemap
            BY <1>13, <5>1
          <5>3. g[u].accessible = h[u].accessible
            BY <2>1, <4>3
          <5> QED
            BY <2>1, <2>2, <3>2, <4>1, <5>2, <5>3 DEF Right
        <4> QED
          BY <4>2, <4>3
      <3> QED
        BY <2>2, <2>5, <2>8, <3>1, <3>2
    <2>9. /\ u \in f.heard => f.data[u]["state"] = g[u].job
          /\ u \notin f.heard => f.data[u]["state"] = "Idle"
      <3>1. "state" \in DOMAIN t.data[u]
        BY <2>3 DEF Full
      <3>2. CASE True(e.heard, g, u, "state", t.data[u]["state"])
        BY <2>2, <2>6, <3>2 DEF True
      <3>3. CASE t.data[u]["state"] = e.data[u]["state"]
        <4>1. g[u].job = h[u].job
          BY <2>1
        <4> QED
          BY <2>1, <2>2, <2>6, <3>3, <4>1 DEF Right
      <3> QED
        BY <2>5, <3>1, <3>2, <3>3
    <2>10. Right(f, g, u, {})
      BY <2>7, <2>8, <2>9 DEF Right
    <2> QED
      BY <2>4, <2>10
  <1>17. DevicesFit(f, g, NoDevice, {}) /\ f.devicemap \subseteq e.devicemap
    BY <1>1, <1>13, <1>15, <1>16, HardwareAssumption DEF DevicesFit
  <1> QED
    BY <1>11, <1>17

\* What is true stays true, whatever is told next.
LEMMA TrueStays ==
  ASSUME NEW e, NEW f, NEW h, NEW u \in Udis, NEW k, Told(e, f, h), u \in DOMAIN e.data,
         k \in DOMAIN e.data[u] => True(e.heard, h, u, k, e.data[u][k])
  PROVE  k \in DOMAIN f.data[u] => True(e.heard, h, u, k, f.data[u][k])
  <1> SUFFICES ASSUME k \in DOMAIN f.data[u] PROVE True(e.heard, h, u, k, f.data[u][k])
    OBVIOUS
  <1>1. \/ k \in DOMAIN e.data[u] /\ f.data[u][k] = e.data[u][k]
        \/ True(e.heard, h, u, k, f.data[u][k])
    BY DEF Told
  <1> QED
    BY <1>1

LEMMA RequestDeviceFits ==
  ASSUME NEW e, NEW h, NEW u \in Udis, DevicesFit(e, h, NoDevice, {}), u \notin DOMAIN e.data
  PROVE  LET f == RequestDevice(e, h, u)
         IN  /\ DevicesFit(f, h, NoDevice, {})
             /\ \A v : v \in f.devicemap <=> v \in e.devicemap \/ (v = u /\ u \in DOMAIN f.data)
  <1> DEFINE e1 == [e EXCEPT !.devicemap = @ \union {u}]
             known == SetData(e1, u, [known |-> h[u].size, state |-> "Idle", result |-> "Working"])
             g == PopulateDeviceData(e1, h, u)
             f == RequestDevice(e, h, u)
             c == EncryptedContainer[u]
  <1>1. Kept(e, h) /\ \A v \in e.devicemap : v \in Udis /\ v \in DOMAIN h /\ Full(e, v) /\ Right(e, h, v, {})
    BY HardwareAssumption DEF DevicesFit, Kept
  <1>2. u \notin e.devicemap
    BY <1>1 DEF Kept
  <1>3. CASE u \notin DOMAIN h
    <2>1. f = e
      BY <1>3 DEF RequestDevice
    <2> QED
      BY <2>1
  <1>4. CASE u \in DOMAIN h
    <2>1. f = g
      BY <1>2, <1>4 DEF RequestDevice
    <2>2. /\ DOMAIN e1 = SolidFields /\ e1.data = e.data /\ e1.heard = e.heard /\ e1.staged = e.staged
          /\ e1.mapped = e.mapped /\ e1.paths = e.paths /\ e1.encrypted = e.encrypted
          /\ \A v : v \in e1.devicemap <=> v \in e.devicemap \/ v = u
      BY <1>1 DEF Kept, SolidFields
    <2> HIDE DEF e1
    <2>3. /\ \A v \in Udis : v \in e1.devicemap /\ v # u => v \in DOMAIN e1.data
          /\ u \in e1.devicemap /\ DOMAIN h \subseteq Udis /\ c \in DOMAIN h \union {NoDevice}
          /\ h[u].job = "Idle"
      BY <1>1, <1>2, <1>4, <2>2 DEF Kept
    <2>4. /\ DOMAIN known = SolidFields
          /\ \A k \in SolidFields : k # "data" => known[k] = e1[k]
          /\ DOMAIN known.data = DOMAIN e1.data \union {u}
          /\ \A s \in DOMAIN e1.data : s # u => known.data[s] = e1.data[s]
          /\ \A k \in DOMAIN known.data[u] :
               \/ True(e1.heard, h, u, k, known.data[u][k]) /\ k # "accessible"
               \/ u \in DOMAIN e1.data /\ k \in DOMAIN e1.data[u] /\ k \notin {"known", "state"}
                    /\ known.data[u][k] = e1.data[u][k]
          /\ Told(known, g, h) /\ Full(g, u)
          /\ "volume" \in Interfaces[u] /\ c # NoDevice /\ c \in e1.devicemap /\ "access" \in Interfaces[c] =>
               "accessible" \in DOMAIN g.data[c] /\ g.data[c]["accessible"] = h[c].accessible
      BY <1>4, <2>2, <2>3, PopulateTold
    <2> HIDE DEF known, g
    <2>5. /\ known.heard = e.heard /\ known.staged = e.staged /\ known.mapped = e.mapped
          /\ known.paths = e.paths /\ known.encrypted = e.encrypted /\ known.devicemap = e1.devicemap
      BY <2>2, <2>4 DEF SolidFields
    <2>6. g.devicemap = e1.devicemap /\ g.heard = e.heard /\ g.staged = e.staged
      BY <2>4, <2>5 DEF Told
    <2>7. /\ \A v \in Udis : v \in DOMAIN known.data <=> v \in e1.devicemap
          /\ \A v \in e.devicemap : v \in DOMAIN known.data /\ known.data[v] = e.data[v]
      BY <1>1, <1>2, <2>2, <2>4 DEF Kept
    <2>8. Kept(g, h)
      <3>1. DOMAIN g = SolidFields /\ \A v \in Udis : v \in DOMAIN g.data <=> v \in g.devicemap
        BY <2>4, <2>6, <2>7 DEF Told
      <3>2. g.devicemap \subseteq DOMAIN h /\ DOMAIN h \subseteq Udis
        BY <1>1, <1>4, <2>2, <2>6 DEF Kept
      <3>3. g.mapped \subseteq g.devicemap /\ g.staged \subseteq g.devicemap /\ g.paths \subseteq g.devicemap
        BY <1>1, <2>2, <2>4, <2>5, <2>6 DEF Told, Kept
      <3>4. \A v \in DOMAIN g.encrypted : g.encrypted[v] = EncryptedContainer[v]
        BY <1>1, <2>4, <2>5 DEF Told, Kept
      <3>5. \A v \in DOMAIN h : h[v].job # "Idle" => v \in g.devicemap /\ "access" \in Interfaces[v]
        BY <1>1, <2>2, <2>6 DEF Kept
      <3> QED
        BY <1>1, <3>1, <3>2, <3>3, <3>4, <3>5 DEF Kept
    <2>9. ASSUME NEW v \in g.devicemap PROVE Full(g, v) /\ Right(g, h, v, {})
      <3>1. v \in Udis /\ v \in DOMAIN known.data /\ v \in e1.devicemap
        BY <1>1, <2>2, <2>6, <2>7, <2>9
      <3>2. \A k \in DOMAIN g.data[v] :
               \/ k \in DOMAIN known.data[v] /\ g.data[v][k] = known.data[v][k]
               \/ True(e.heard, h, v, k, g.data[v][k])
        BY <2>4, <2>5, <3>1 DEF Told
      <3>3. CASE v = u
        <4>1. \A k \in DOMAIN g.data[u] : True(g.heard, h, u, k, g.data[u][k])
          <5>1. \A k \in DOMAIN known.data[u] : True(e.heard, h, u, k, known.data[u][k])
            BY <2>2, <2>4
          <5> QED
            BY <2>6, <3>2, <3>3, <5>1
        <4>2. "state" \in DOMAIN g.data[u]
          BY <2>4 DEF Full
        <4>3. Right(g, h, u, {})
          BY <2>3, <4>1, <4>2 DEF Right, True
        <4> QED
          BY <2>4, <3>3, <4>3
      <3>4. CASE v # u
        <4>1. v \in e.devicemap /\ Full(e, v) /\ Right(e, h, v, {}) /\ known.data[v] = e.data[v]
          BY <1>1, <2>2, <2>7, <3>1, <3>4
        <4>2. Full(known, v)
          BY <2>5, <4>1 DEF Full
        <4>3. Full(g, v)
          BY <2>4, <3>1, <4>2, ToldFull
        <4>4. ASSUME NEW k \in DOMAIN g.data[v], k \notin {"accessible", "state"}
              PROVE  True(g.heard, h, v, k, g.data[v][k])
          BY <2>6, <3>2, <4>1, <4>4 DEF Right
        <4>5. /\ v \in g.heard => g.data[v]["state"] = h[v].job
              /\ v \notin g.heard => g.data[v]["state"] = "Idle"
          <5>1. "state" \in DOMAIN g.data[v]
            BY <4>3 DEF Full
          <5>2. CASE True(e.heard, h, v, "state", g.data[v]["state"])
            BY <2>6, <5>2 DEF True
          <5>3. CASE g.data[v]["state"] = e.data[v]["state"]
            BY <2>6, <4>1, <5>3 DEF Right
          <5> QED
            BY <3>2, <4>1, <5>1, <5>2, <5>3
        <4>6. ASSUME "accessible" \in DOMAIN g.data[v]
              PROVE  /\ "access" \in Interfaces[v]
                     /\ List(h, "volume") \intersect Inside(v) \subseteq g.devicemap =>
                           g.data[v]["accessible"] = h[v].accessible
          <5>1. CASE True(e.heard, h, v, "accessible", g.data[v]["accessible"])
            BY <5>1 DEF True
          <5>2. CASE "accessible" \in DOMAIN e.data[v] /\ g.data[v]["accessible"] = e.data[v]["accessible"]
            <6>1. "access" \in Interfaces[v]
              BY <4>1, <5>2 DEF Right
            <6>2. CASE u \in List(h, "volume") \intersect Inside(v)
              <7>1. "volume" \in Interfaces[u] /\ c = v /\ v # NoDevice
                BY <3>1, <6>2, HardwareAssumption DEF List, Inside
              <7> QED
                BY <2>4, <3>1, <6>1, <7>1
            <6>3. CASE u \notin List(h, "volume") \intersect Inside(v)
              <7>1. List(h, "volume") \intersect Inside(v) \subseteq g.devicemap =>
                      List(h, "volume") \intersect Inside(v) \subseteq e.devicemap
                BY <2>2, <2>6, <6>3
              <7> QED
                BY <4>1, <5>2, <6>1, <7>1 DEF Right
            <6> QED
              BY <6>2, <6>3
          <5> QED
            BY <3>2, <4>1, <4>6, <5>1, <5>2
        <4>7. Right(g, h, v, {})
          BY <4>4, <4>5, <4>6 DEF Right
        <4> QED
          BY <4>3, <4>7
      <3> QED
        BY <3>3, <3>4
    <2>10. NoDevice \notin g.devicemap
      BY <2>8, HardwareAssumption DEF Kept
    <2>11. DevicesFit(g, h, NoDevice, {})
      BY <2>8, <2>9, <2>10 DEF DevicesFit
    <2>12. u \in DOMAIN g.data /\ \A v : v \in g.devicemap <=> v \in e.devicemap \/ v = u
      BY <2>2, <2>6, <2>8 DEF Kept
    <2> HIDE DEF f
    <2>13. /\ DevicesFit(f, h, NoDevice, {})
           /\ \A v : v \in f.devicemap <=> v \in e.devicemap \/ (v = u /\ u \in DOMAIN f.data)
      BY <2>1, <2>11, <2>12
    <2> QED
      BY <2>13 DEF f
  <1> QED
    BY <1>3, <1>4

LEMMA FitHas ==
  ASSUME NEW e, NEW h, NEW w, NEW but, DevicesFit(e, h, w, but)
  PROVE  /\ Has(e) /\ DOMAIN e = SolidFields /\ e.devicemap \subseteq Udis
         /\ \A u \in Udis : u \in DOMAIN e.data <=> u \in e.devicemap
         /\ e.mapped \subseteq e.devicemap /\ e.paths \subseteq e.devicemap /\ e.staged \subseteq e.devicemap
         /\ NoDevice \notin e.devicemap
         /\ e.devicemap \subseteq DOMAIN h
  BY HardwareAssumption DEF DevicesFit, Kept, Has

\* What changed of a device is told through its signals.
LEMMA DeviceChangedFits ==
  ASSUME NEW e, NEW h, NEW w \in Udis, NEW what, DevicesFit(e, h, w, DOMAIN what),
         w \in e.devicemap => w \in e.mapped,
         \A k \in DOMAIN what : True(e.heard, h, w, k, what[k])
  PROVE  LET f == DeviceChanged(e, h, w, what)
         IN  DevicesFit(f, h, NoDevice, {}) /\ f.devicemap = e.devicemap
  <1> DEFINE a == SetData(e, w, what)
             b == UpdateSourceEvent(a, h, w)
             f == DeviceChanged(e, h, w, what)
  <1>1. /\ Has(e) /\ DOMAIN e = SolidFields
        /\ \A u \in Udis : u \in DOMAIN e.data <=> u \in e.devicemap
        /\ e.mapped \subseteq e.devicemap
    BY FitHas
  <1>2. CASE w \notin e.mapped
    <2>1. f = e /\ w \notin e.devicemap
      BY <1>2 DEF DeviceChanged
    <2>2. Told(e, e, h)
      BY <1>1, ToldNothing
    <2>3. DevicesFit(e, h, NoDevice, {})
      BY <2>1, <2>2, ToldFits
    <2> QED
      BY <2>1, <2>3
  <1>3. CASE w \in e.mapped
    <2>1. f = b
      BY <1>3 DEF DeviceChanged
    <2>2. w \in DOMAIN e.data
      BY <1>1, <1>3
    <2>3. Told(e, a, h)
      BY <1>1, <2>2, SetDataTold
    <2>4. \A k \in DOMAIN what : a.data[w][k] = what[k]
      BY <1>1, <2>2, SetDataTold
    <2> HIDE DEF a
    <2>5. Has(a) /\ w \in DOMAIN a.data /\ a.heard = e.heard
      BY <1>1, <2>2, <2>3, ToldHas DEF Told
    <2>6. Told(a, b, h)
      BY <2>5, SourceEventTold
    <2> HIDE DEF b
    <2>7. Told(e, b, h)
      BY <2>3, <2>6, ToldTransitive
    <2>8. \A k \in DOMAIN what : k \in DOMAIN b.data[w] => True(e.heard, h, w, k, b.data[w][k])
      <3>1. \A k \in DOMAIN what : True(a.heard, h, w, k, a.data[w][k])
        BY <2>4, <2>5
      <3>2. \A k \in DOMAIN what : k \in DOMAIN b.data[w] => True(a.heard, h, w, k, b.data[w][k])
        BY <2>5, <2>6, <3>1, TrueStays
      <3> QED
        BY <2>5, <3>2
    <2>9. DevicesFit(b, h, NoDevice, {})
      BY <2>7, <2>8, ToldFits
    <2>10. b.devicemap = e.devicemap
      BY <2>7 DEF Told
    <2> QED
      BY <2>1, <2>9, <2>10
  <1> QED
    BY <1>2, <1>3

\* An idle device gets its size, and all there is to say of it is said again.
LEMMA SizeChangedFits ==
  ASSUME NEW e, NEW h, NEW w \in Udis, DevicesFit(e, h, w, {"known"}),
         w \in e.devicemap => w \in e.staged /\ ToInt(h[w].size) > 0 /\ h[w].job = "Idle"
  PROVE  LET f == SizeChanged(e, h, w)
         IN  DevicesFit(f, h, NoDevice, {}) /\ f.devicemap = e.devicemap
  <1> DEFINE known == SetData(e, w, [known |-> h[w].size, state |-> "Idle", result |-> "Working"])
             g == PopulateDeviceData(e, h, w)
             f == SizeChanged(e, h, w)
             c == EncryptedContainer[w]
  <1>1. /\ Has(e) /\ DOMAIN e = SolidFields
        /\ \A u \in Udis : u \in DOMAIN e.data <=> u \in e.devicemap
        /\ e.staged \subseteq e.devicemap /\ e.devicemap \subseteq DOMAIN h
    BY FitHas
  <1>2. CASE w \notin e.devicemap
    <2>1. f = e
      BY <1>1, <1>2 DEF SizeChanged, Valid
    <2>2. Told(e, e, h)
      BY <1>1, ToldNothing
    <2>3. DevicesFit(e, h, NoDevice, {})
      BY <1>2, <2>2, ToldFits
    <2> QED
      BY <2>1, <2>3
  <1>3. CASE w \in e.devicemap
    <2>1. Valid(e, h, w) /\ w \in e.staged /\ ToInt(h[w].size) > 0
      BY <1>1, <1>3 DEF Valid
    <2>2. f = g
      BY <2>1 DEF SizeChanged
    <2>3. /\ \A v \in Udis : v \in e.devicemap /\ v # w => v \in DOMAIN e.data
          /\ w \in DOMAIN h /\ DOMAIN h \subseteq Udis /\ c \in DOMAIN h \union {NoDevice}
          /\ h[w].job = "Idle" /\ w \in DOMAIN e.data
      BY <1>1, <1>3 DEF DevicesFit, Kept
    <2>4. /\ DOMAIN known = SolidFields
          /\ \A k \in SolidFields : k # "data" => known[k] = e[k]
          /\ DOMAIN known.data = DOMAIN e.data \union {w}
          /\ \A s \in DOMAIN e.data : s # w => known.data[s] = e.data[s]
          /\ \A k \in DOMAIN known.data[w] :
               \/ True(e.heard, h, w, k, known.data[w][k]) /\ k # "accessible"
               \/ w \in DOMAIN e.data /\ k \in DOMAIN e.data[w] /\ k \notin {"known", "state"}
                    /\ known.data[w][k] = e.data[w][k]
          /\ Told(known, g, h) /\ Full(g, w)
          /\ "volume" \in Interfaces[w] /\ c # NoDevice /\ c \in e.devicemap /\ "access" \in Interfaces[c] =>
               "accessible" \in DOMAIN g.data[c] /\ g.data[c]["accessible"] = h[c].accessible
      BY <1>1, <1>3, <2>3, PopulateTold
    <2> HIDE DEF g, c
    <2>5. Told(e, known, h)
      <3> DEFINE what == [known |-> h[w].size, state |-> "Idle", result |-> "Working"]
      <3>1. DOMAIN what = {"known", "state", "result"} /\ what["known"] = h[w].size /\ what["state"] = "Idle"
        OBVIOUS
      <3> HIDE DEF what
      <3>2. \A k \in DOMAIN what : True(e.heard, h, w, k, what[k])
        BY <2>3, <3>1 DEF True
      <3>3. Told(e, SetData(e, w, what), h)
        BY <1>1, <2>3, <3>2, SetDataTold
      <3> QED
        BY <3>3 DEF what
    <2> HIDE DEF known
    <2>6. Told(e, g, h)
      BY <2>4, <2>5, ToldTransitive
    <2>7. known.heard = e.heard /\ w \in DOMAIN known.data
      BY <2>3, <2>5 DEF Told
    <2>8. "known" \in DOMAIN known.data[w] => True(known.heard, h, w, "known", known.data[w]["known"])
      BY <2>4, <2>7
    <2>9. "known" \in DOMAIN g.data[w] => True(known.heard, h, w, "known", g.data[w]["known"])
      BY <2>4, <2>7, <2>8, TrueStays
    <2>10. DevicesFit(g, h, NoDevice, {})
      BY <2>6, <2>7, <2>9, ToldFits
    <2>11. g.devicemap = e.devicemap
      BY <2>6 DEF Told
    <2> HIDE DEF f
    <2> QED
      BY <2>2, <2>10, <2>11 DEF f
  <1> QED
    BY <1>2, <1>3

\* The state of a device that is heard of follows what is done about it.
LEMMA StateTold ==
  ASSUME NEW e, NEW h, NEW u \in Udis, NEW state, NEW result, Has(e), u \in DOMAIN e.data, u \in e.heard,
         h[u].job = state
  PROVE  LET f == SetData(e, u, [state |-> state, result |-> result])
         IN  Told(e, f, h) /\ True(e.heard, h, u, "state", f.data[u]["state"])
  <1> DEFINE what == [state |-> state, result |-> result]
             f == SetData(e, u, what)
  <1>1. DOMAIN what = {"state", "result"} /\ what["state"] = state
    OBVIOUS
  <1> HIDE DEF what
  <1>2. \A k \in DOMAIN what : True(e.heard, h, u, k, what[k])
    BY <1>1 DEF True
  <1>3. DOMAIN e = SolidFields
    BY DEF Has
  <1>4. Told(e, f, h)
    BY <1>2, <1>3, SetDataTold
  <1>5. f.data[u]["state"] = what["state"]
    <2>1. "data" \in DOMAIN e
      BY <1>3 DEF SolidFields
    <2> QED
      BY <1>1, <2>1, SetDataSays
  <1> HIDE DEF f
  <1>6. Told(e, f, h) /\ True(e.heard, h, u, "state", f.data[u]["state"])
    BY <1>1, <1>2, <1>4, <1>5
  <1> QED
    BY <1>6 DEF f, what

LEMMA SetIdleTold ==
  ASSUME NEW e, NEW h, NEW u \in Udis, NEW result, Has(e), u \in DOMAIN e.data, h[u].job = "Idle"
  PROVE  LET f == SetIdleState(e, h, u, result)
         IN  /\ Told(e, f, h)
             /\ u \in e.heard /\ "state" \in DOMAIN f.data[u] => True(e.heard, h, u, "state", f.data[u]["state"])
  <1> DEFINE a == SetData(e, u, [state |-> "Idle", result |-> result])
             b == ForceUpdateAccessibility(a, h, u)
             f == SetIdleState(e, h, u, result)
  <1>1. CASE u \notin e.heard
    <2>1. f = e
      BY <1>1 DEF SetIdleState
    <2> QED
      BY <1>1, <2>1, ToldNothing DEF Has
  <1>2. CASE u \in e.heard
    <2>1. f = b
      BY <1>2 DEF SetIdleState
    <2>2. Told(e, a, h) /\ True(e.heard, h, u, "state", a.data[u]["state"])
      BY <1>2, StateTold
    <2> HIDE DEF a
    <2>3. Has(a) /\ a.heard = e.heard /\ u \in DOMAIN a.data
      BY <2>2, ToldHas DEF Told
    <2>4. Told(a, b, h)
      BY <2>3, AccessibilityTold
    <2> HIDE DEF b
    <2>5. Told(e, b, h)
      BY <2>2, <2>4, ToldTransitive
    <2>6. "state" \in DOMAIN b.data[u] => True(e.heard, h, u, "state", b.data[u]["state"])
      BY <2>2, <2>3, <2>4, TrueStays
    <2> QED
      BY <2>1, <2>5, <2>6
  <1> QED
    BY <1>1, <1>2

LEMMA RequestQueryTold ==
  ASSUME NEW e, NEW h, NEW q \in DOMAIN Queries, DOMAIN e = SolidFields
  PROVE  Told(e, RequestQuery(e, h, q), h)
  <1> DEFINE found == SetToSeq(List(h, Queries[q]))
             a == [e EXCEPT !.predicatemap = Over([p \in {q} |-> found], @)]
             b == SetData(a, q, [devices |-> found])
             f == RequestQuery(e, h, q)
  <1>1. f \in {e, b}
    BY DEF RequestQuery
  <1> HIDE DEF found
  <1>2. DOMAIN a = SolidFields /\ a.data = e.data /\ \A k \in SolidFields : k # "predicatemap" => a[k] = e[k]
    BY DEF SolidFields
  <1> HIDE DEF a
  <1>3. /\ DOMAIN b = SolidFields
        /\ \A k \in SolidFields : k # "data" => b[k] = a[k]
        /\ DOMAIN b.data = DOMAIN a.data \union {q}
        /\ \A s \in DOMAIN a.data : s # q => b.data[s] = a.data[s]
    BY <1>2, SetDataEffect DEF SolidFields
  <1> HIDE DEF b
  <1>4. q \notin Udis
    BY QueriesAssumption
  <1>5. /\ \A k \in SolidFields : k \notin {"data", "predicatemap"} => b[k] = e[k]
        /\ \A u \in Udis : u \in DOMAIN b.data <=> u \in DOMAIN e.data
        /\ \A u \in Udis : u \in DOMAIN e.data => b.data[u] = e.data[u]
    BY <1>2, <1>3, <1>4
  <1>6. Told(e, b, h)
    BY <1>3, <1>5, QueriesOnlyTold
  <1> HIDE DEF f
  <1> QED
    BY <1>1, <1>6, ToldNothing DEF f

\* What the devices that are shown are described right under
DeviceNeeds ==
    {"announcedIdle", "operatedShown", "containerShown", "pulledIdle", "sizedIdle", "stagedFirst", "sizeFits",
     "chargeNamed", "sourceKept"}

\* What is shown of the devices is what m_devicemap has.
DeviceInv ==
    plugin = "soliddevice" =>
        /\ DevicesFit(engine, hardware, NoDevice, {})
        /\ \A u \in Udis : u \in engine.devicemap <=> u \in shown

LEMMA DeviceInit == Init => DeviceInv
  <1> SUFFICES ASSUME Init, plugin = "soliddevice" PROVE DeviceInv
    BY DEF DeviceInv
  <1>1. engine = NewSolidDeviceEngine
    BY DEF Init
  <1>2. /\ DOMAIN engine = SolidFields /\ DOMAIN engine.data = {} /\ engine.devicemap = {} /\ engine.mapped = {}
        /\ engine.staged = {} /\ engine.paths = {} /\ DOMAIN engine.encrypted = {}
    BY <1>1 DEF NewSolidDeviceEngine, SolidFields
  <1>3. /\ DOMAIN hardware \subseteq Udis /\ shown = {}
        /\ \A u \in DOMAIN hardware : EncryptedContainer[u] = NoDevice /\ hardware[u].job = "Idle"
    BY EnginesAssumption DEF Init, Plugged, AllPlugins
  <1>4. Kept(engine, hardware)
    BY <1>2, <1>3 DEF Kept
  <1> QED
    BY <1>2, <1>3, <1>4 DEF DeviceInv, DevicesFit

LEMMA DeviceStep ==
  ASSUME DeviceNeeds \subseteq Assumed, Frame, Frame', QueriesInv, DeviceInv, [Next]_vars
  PROVE  DeviceInv'
  <1> SUFFICES ASSUME plugin = "soliddevice", plugin' = plugin PROVE DeviceInv'
    BY PluginStays DEF DeviceInv
  <1>0. /\ QueriesFit(engine, DOMAIN hardware) /\ DevicesFit(engine, hardware, NoDevice, {})
        /\ \A u \in Udis : u \in engine.devicemap <=> u \in shown
        /\ DOMAIN hardware \subseteq Udis
    BY DEF QueriesInv, DeviceInv, Frame
  <1>1. /\ Has(engine) /\ DOMAIN engine = SolidFields /\ engine.devicemap \subseteq Udis
        /\ \A u \in Udis : u \in DOMAIN engine.data <=> u \in engine.devicemap
        /\ engine.mapped \subseteq engine.devicemap /\ engine.paths \subseteq engine.devicemap
        /\ engine.staged \subseteq engine.devicemap /\ engine.devicemap \subseteq DOMAIN hardware
        /\ NoDevice \notin engine.devicemap
    BY <1>0, FitHas
  <1>2. \A u \in DOMAIN hardware : hardware[u].job # "Idle" => u \in engine.devicemap /\ "access" \in Interfaces[u]
    BY <1>0 DEF DevicesFit, Kept
  <1>3. ASSUME NEW f, Engine(f), DevicesFit(f, hardware', NoDevice, {}), f.devicemap \subseteq engine.devicemap
        PROVE  DeviceInv'
    <2>1. \A u \in Udis : u \in DOMAIN f.data <=> u \in f.devicemap
      BY <1>3, FitHas
    <2>2. engine' = f /\ shown' = {s \in shown : s \in DOMAIN f.data}
      BY <1>3 DEF Engine, StillShown
    <2>3. \A u \in Udis : u \in f.devicemap <=> u \in shown'
      BY <1>0, <1>3, <2>1, <2>2
    <2> QED
      BY <1>3, <2>2, <2>3 DEF DeviceInv
  <1>4. ASSUME NEW u \in Udis, Plug(u) PROVE DeviceInv'
    <2> DEFINE c == EncryptedContainer[u]
               opened == [v \in DOMAIN hardware |->
                            IF v = c THEN [hardware[v] EXCEPT !.accessible = TRUE] ELSE hardware[v]]
               new == [v \in {u} |-> Plugged]
    <2>1. /\ Engine(DeviceAdded(engine, hardware', u)) /\ hardware' = Over(new, opened)
          /\ u \notin DOMAIN hardware /\ c \in DOMAIN hardware \union {NoDevice}
      BY <1>4 DEF Plug, DeviceComes
    <2>2. DOMAIN new = {u} /\ new[u].job = "Idle"
      BY DEF Plugged
    <2>3. /\ DOMAIN opened = DOMAIN hardware
          /\ \A v \in DOMAIN hardware :
                /\ opened[v].job = hardware[v].job /\ opened[v].size = hardware[v].size
                /\ opened[v].percent = hardware[v].percent /\ opened[v].charge = hardware[v].charge
          /\ \A v \in DOMAIN hardware : v # c => opened[v].accessible = hardware[v].accessible
      BY DEF Frame, DeviceFields
    <2> HIDE DEF opened, new
    <2>4. /\ DOMAIN Over(new, opened) = DOMAIN new \union DOMAIN opened
          /\ \A v \in DOMAIN new : Over(new, opened)[v] = new[v]
          /\ \A v \in DOMAIN opened : v \notin DOMAIN new => Over(new, opened)[v] = opened[v]
      BY OverSays
    <2>5. /\ DOMAIN hardware' = DOMAIN hardware \union {u} /\ hardware'[u].job = "Idle"
          /\ \A v \in DOMAIN hardware : hardware'[v] = opened[v]
      BY <2>1, <2>2, <2>3, <2>4
    <2>6. DevicesFit(engine, hardware', NoDevice, {})
      BY <1>0, <2>1, <2>3, <2>5, PluggedFits
    <2>7. u \notin engine.devicemap
      BY <1>1, <2>1
    <2>8. LET f == DeviceAdded(engine, hardware', u)
          IN  DevicesFit(f, hardware', NoDevice, {}) /\ f.devicemap = engine.devicemap
      BY <1>0, <2>6, <2>7, DeviceAddedFitsDevices
    <2> QED
      BY <1>3, <2>1, <2>8
  <1>5. ASSUME NEW u \in Udis, AnnounceAgain(u) PROVE DeviceInv'
    <2>1. /\ Engine(DeviceAdded(engine, hardware, u)) /\ hardware' = hardware
          /\ hardware[u].job = "Idle"
      BY <1>5 DEF AnnounceAgain, DeviceComes, DeviceNeeds
    <2>2. LET f == DeviceAdded(engine, hardware, u)
          IN  DevicesFit(f, hardware, NoDevice, {}) /\ f.devicemap = engine.devicemap
      BY <1>0, <2>1, DeviceAddedFitsDevices
    <2> QED
      BY <1>3, <2>1, <2>2
  <1>6. ASSUME NEW u \in Udis, Unplug(u) PROVE DeviceInv'
    <2> DEFINE c == EncryptedContainer[u]
               left == [v \in DOMAIN hardware \ {u} |->
                          IF v = c THEN [hardware[v] EXCEPT !.accessible = FALSE] ELSE hardware[v]]
    <2>1. /\ Engine(DeviceRemoved(engine, hardware', u)) /\ hardware' = left
          /\ u \in DOMAIN hardware /\ \A v \in DOMAIN hardware : EncryptedContainer[v] # u
          /\ u \notin engine.paths /\ (c = NoDevice \/ {u, c} \subseteq shown)
      BY <1>6 DEF Unplug, DeviceNeeds
    <2>2. /\ DOMAIN left = DOMAIN hardware \ {u}
          /\ \A v \in DOMAIN left :
                /\ left[v].job = hardware[v].job /\ left[v].size = hardware[v].size
                /\ left[v].percent = hardware[v].percent /\ left[v].charge = hardware[v].charge
          /\ \A v \in DOMAIN left : v # c => left[v].accessible = hardware[v].accessible
      BY DEF Frame, DeviceFields
    <2> HIDE DEF left
    <2>3. c # NoDevice => u \in engine.devicemap /\ c \in engine.devicemap
      BY <1>0, <2>1, HardwareAssumption
    <2>4. LET f == DeviceRemoved(engine, left, u)
          IN  DevicesFit(f, left, NoDevice, {}) /\ f.devicemap \subseteq engine.devicemap
      BY <1>0, <2>1, <2>2, <2>3, DeviceRemovedFitsDevices
    <2> QED
      BY <1>3, <2>1, <2>4

  <1>7. ASSUME NEW u \in Udis, RequestSetup(u) PROVE DeviceInv'
    <2> DEFINE state == IF hardware[u].accessible THEN "Unmounting" ELSE "Mounting"
               f == SetData(engine, u, [state |-> state, result |-> "Working"])
               but == IF u \in engine.heard THEN {"state"} ELSE {}
    <2>1. /\ hardware' = [hardware EXCEPT ![u].job = state] /\ u \in shown /\ u \in DOMAIN hardware
          /\ "access" \in Interfaces[u] /\ hardware[u].job = "Idle"
      BY <1>7 DEF RequestSetup, Is, DeviceNeeds
    <2>2. /\ u \in engine.heard => Engine(f)
          /\ u \notin engine.heard => Engine(engine)
      BY <1>7 DEF RequestSetup, SetUnmountingState, SetMountingState
    <2> HIDE DEF state
    <2>3. hardware'[u].job = state /\ SameBut(hardware, hardware', u, {"state"})
      BY <2>1 DEF SameBut, Frame, DeviceFields
    <2>4. u \in engine.devicemap /\ u \in DOMAIN engine.data
      BY <1>0, <1>1, <2>1
    <2>5. DevicesFit(engine, hardware', u, {"state"})
      BY <1>0, <2>1, <2>3, <2>4, ChangedFits
    <2>6. CASE u \in engine.heard
      <3>1. Told(engine, f, hardware') /\ True(engine.heard, hardware', u, "state", f.data[u]["state"])
        BY <1>1, <2>3, <2>4, <2>6, StateTold
      <3> HIDE DEF f
      <3>2. DevicesFit(f, hardware', NoDevice, {}) /\ f.devicemap = engine.devicemap
        BY <2>5, <3>1, ToldFits DEF Told
      <3> QED
        BY <1>3, <2>2, <2>6, <3>2
    <2>7. CASE u \notin engine.heard
      <3>1. Full(engine, u) /\ Right(engine, hardware', u, {"state"})
        BY <2>4, <2>5 DEF DevicesFit
      <3>2. Right(engine, hardware, u, {})
        BY <1>0, <1>1, <2>4 DEF DevicesFit
      <3>3. engine.data[u]["state"] = "Idle"
        BY <2>7, <3>2 DEF Right
      <3>4. Right(engine, hardware', u, {})
        BY <2>7, <3>1, <3>3 DEF Right
      <3>5. DevicesFit(engine, hardware', NoDevice, {})
        BY <1>1, <2>5, <3>1, <3>4 DEF DevicesFit
      <3> QED
        BY <1>3, <2>2, <2>7, <3>5
    <2> QED
      BY <2>6, <2>7
  <1>8. ASSUME NEW u \in Udis, NEW error, SetupDone(u, error) PROVE DeviceInv'
    <2> DEFINE ok == error = "NoError"
               told == IF ok THEN AccessibilityChanged(engine, hardware', u) ELSE engine
               result == IF ok THEN "Successful" ELSE "Unsuccessful"
               f == SetIdleState(told, hardware', u, result)
    <2>1. /\ hardware' = [hardware EXCEPT ![u].job = "Idle", ![u].accessible = IF ok THEN ~@ ELSE @]
          /\ u \in DOMAIN hardware /\ hardware[u].job # "Idle" /\ Engine(f)
      BY <1>8 DEF SetupDone
    <2>2. u \in engine.devicemap /\ u \in DOMAIN engine.data /\ "access" \in Interfaces[u]
      BY <1>1, <1>2, <2>1
    <2>3. u \in engine.mapped /\ Full(engine, u) /\ Right(engine, hardware, u, {})
      BY <1>0, <1>1, <2>2 DEF DevicesFit, Full
    <2>4. hardware'[u].job = "Idle" /\ SameBut(hardware, hardware', u, {"state", "accessible"})
      BY <2>1 DEF SameBut, Frame, DeviceFields
    <2>5. ~ok => SameBut(hardware, hardware', u, {"state"})
      BY <2>1 DEF SameBut, Frame, DeviceFields
    <2> HIDE DEF ok, result
    <2>6. DevicesFit(engine, hardware', u, {"state", "accessible"})
      BY <1>0, <2>4, ChangedFits
    <2>7. ~ok => DevicesFit(engine, hardware', u, {"state"})
      BY <1>0, <2>4, <2>5, ChangedFits
    <2>8. /\ Told(engine, told, hardware')
          /\ ok => ("accessible" \in DOMAIN told.data[u] =>
                      True(engine.heard, hardware', u, "accessible", told.data[u]["accessible"]))
      <3> DEFINE a == SetData(engine, u, [accessible |-> hardware'[u].accessible])
                 b == UpdateSourceEvent(a, hardware', u)
      <3>1. ok => told = b
        BY <2>3 DEF AccessibilityChanged, DeviceChanged
      <3>2. /\ Told(engine, a, hardware')
            /\ "accessible" \in DOMAIN a.data[u] /\ a.data[u]["accessible"] = hardware'[u].accessible
        BY <1>1, <2>2, AccessibleTold
      <3>3. ~ok => told = engine
        OBVIOUS
      <3> HIDE DEF a, told
      <3>4. Has(a) /\ a.heard = engine.heard /\ u \in DOMAIN a.data
        BY <1>1, <2>2, <3>2, ToldHas DEF Told
      <3>5. Told(a, b, hardware')
        BY <3>4, SourceEventTold
      <3> HIDE DEF b
      <3>6. Told(engine, b, hardware')
        BY <3>2, <3>5, ToldTransitive
      <3>7. True(a.heard, hardware', u, "accessible", a.data[u]["accessible"])
        BY <2>2, <3>2 DEF True
      <3>8. "accessible" \in DOMAIN b.data[u] =>
              True(engine.heard, hardware', u, "accessible", b.data[u]["accessible"])
        BY <3>4, <3>5, <3>7, TrueStays
      <3>9. Told(engine, engine, hardware')
        BY <1>1, ToldNothing
      <3> QED
        BY <3>1, <3>3, <3>6, <3>8, <3>9
    <2> HIDE DEF told
    <2>9. Has(told) /\ told.heard = engine.heard /\ u \in DOMAIN told.data
      BY <1>1, <2>2, <2>8, ToldHas DEF Told
    <2>10. /\ Told(told, f, hardware')
           /\ u \in told.heard /\ "state" \in DOMAIN f.data[u] =>
                True(told.heard, hardware', u, "state", f.data[u]["state"])
      BY <2>4, <2>9, SetIdleTold
    <2> HIDE DEF f
    <2>11. Told(engine, f, hardware')
      BY <2>8, <2>10, ToldTransitive
    <2>12. "state" \in DOMAIN f.data[u] => True(engine.heard, hardware', u, "state", f.data[u]["state"])
      <3>1. CASE u \in told.heard
        BY <2>9, <2>10, <3>1
      <3>2. CASE u \notin told.heard
        <4>1. engine.data[u]["state"] = "Idle"
          BY <2>3, <2>9, <3>2 DEF Right
        <4>2. "state" \in DOMAIN engine.data[u] =>
                 True(engine.heard, hardware', u, "state", engine.data[u]["state"])
          BY <2>4, <4>1 DEF True
        <4> QED
          BY <2>2, <2>11, <4>2, TrueStays
      <3> QED
        BY <3>1, <3>2
    <2>13. ok => ("accessible" \in DOMAIN f.data[u] =>
                    True(engine.heard, hardware', u, "accessible", f.data[u]["accessible"]))
      <3>1. ok => ("accessible" \in DOMAIN f.data[u] =>
                     True(told.heard, hardware', u, "accessible", f.data[u]["accessible"]))
        BY <2>8, <2>9, <2>10, TrueStays
      <3> QED
        BY <2>9, <3>1
    <2>14. DevicesFit(f, hardware', NoDevice, {})
      <3>1. CASE ok
        BY <2>6, <2>11, <2>12, <2>13, <3>1, ToldFits
      <3>2. CASE ~ok
        BY <2>7, <2>11, <2>12, <3>2, ToldFits
      <3> QED
        BY <3>1, <3>2
    <2>15. f.devicemap = engine.devicemap
      BY <2>11 DEF Told
    <2> QED
      BY <1>3, <2>1, <2>14, <2>15
  <1>9. ASSUME NEW u \in Udis, NEW what, DevicesFit(engine, hardware', u, DOMAIN what),
               Engine(DeviceChanged(engine, hardware', u, what)), "battery" \in Interfaces[u],
               \A k \in DOMAIN what : True(engine.heard, hardware', u, k, what[k])
        PROVE  DeviceInv'
    <2>1. u \in engine.devicemap => u \in engine.mapped
      BY <1>9 DEF DevicesFit, Full
    <2>2. LET f == DeviceChanged(engine, hardware', u, what)
          IN  DevicesFit(f, hardware', NoDevice, {}) /\ f.devicemap = engine.devicemap
      BY <1>9, <2>1, DeviceChangedFits
    <2> QED
      BY <1>3, <1>9, <2>2
  <1>10. ASSUME NEW u \in Udis, PercentChange(u) PROVE DeviceInv'
    <2> DEFINE what == [percent |-> hardware'[u].percent]
    <2>1. /\ hardware' = [hardware EXCEPT ![u].percent = 3 - @] /\ u \in DOMAIN hardware
          /\ "battery" \in Interfaces[u] /\ Engine(DeviceChanged(engine, hardware', u, what))
      BY <1>10 DEF PercentChange, ChargePercentChanged, Is
    <2>2. DOMAIN what = {"percent"} /\ what["percent"] = hardware'[u].percent
      OBVIOUS
    <2> HIDE DEF what
    <2>3. SameBut(hardware, hardware', u, DOMAIN what) /\ hardware'[u].job = hardware[u].job
      BY <2>1, <2>2 DEF SameBut, Frame, DeviceFields
    <2>4. DevicesFit(engine, hardware', u, DOMAIN what)
      BY <1>0, <1>2, <2>1, <2>3, ChangedFits
    <2>5. \A k \in DOMAIN what : True(engine.heard, hardware', u, k, what[k])
      BY <2>2 DEF True
    <2> QED
      BY <1>9, <2>1, <2>4, <2>5
  <1>11. ASSUME NEW u \in Udis, NEW charge, ChargeChange(u, charge) PROVE DeviceInv'
    <2> DEFINE what == [charge |-> IF hardware'[u].charge = "NoCharge" THEN "FullyCharged" ELSE hardware'[u].charge]
    <2>1. /\ hardware' = [hardware EXCEPT ![u].charge = charge] /\ u \in DOMAIN hardware
          /\ "battery" \in Interfaces[u] /\ Engine(DeviceChanged(engine, hardware', u, what))
          /\ charge # "NoCharge"
      BY <1>11 DEF ChargeChange, ChargeStateChanged, Is, DeviceNeeds
    <2>2. hardware'[u].charge = charge
      BY <2>1 DEF Frame, DeviceFields
    <2>3. DOMAIN what = {"charge"} /\ what["charge"] = hardware'[u].charge
      BY <2>1, <2>2
    <2> HIDE DEF what
    <2>4. SameBut(hardware, hardware', u, DOMAIN what) /\ hardware'[u].job = hardware[u].job
      BY <2>1, <2>3 DEF SameBut, Frame, DeviceFields
    <2>5. DevicesFit(engine, hardware', u, DOMAIN what)
      BY <1>0, <1>2, <2>1, <2>4, ChangedFits
    <2>6. \A k \in DOMAIN what : True(engine.heard, hardware', u, k, what[k])
      BY <2>3 DEF True
    <2> QED
      BY <1>9, <2>1, <2>5, <2>6
  <1>12. ASSUME NEW u \in Udis, NEW size, SizeChange(u, size) PROVE DeviceInv'
    <2>1. /\ hardware' = [hardware EXCEPT ![u].size = size] /\ u \in DOMAIN hardware
          /\ Engine(SizeChanged(engine, hardware', u))
          /\ hardware[u].job = "Idle" /\ (u \in shown => u \in engine.staged) /\ ToInt(size) > 0
      BY <1>12 DEF SizeChange, Is, DeviceNeeds
    <2>2. /\ hardware'[u].size = size /\ hardware'[u].job = hardware[u].job
          /\ SameBut(hardware, hardware', u, {"known"})
      BY <2>1 DEF SameBut, Frame, DeviceFields
    <2>3. DevicesFit(engine, hardware', u, {"known"})
      BY <1>0, <1>2, <2>1, <2>2, ChangedFits
    <2>4. u \in engine.devicemap =>
             u \in engine.staged /\ ToInt(hardware'[u].size) > 0 /\ hardware'[u].job = "Idle"
      BY <1>0, <2>1, <2>2
    <2>5. LET f == SizeChanged(engine, hardware', u)
          IN  DevicesFit(f, hardware', NoDevice, {}) /\ f.devicemap = engine.devicemap
      BY <2>3, <2>4, SizeChangedFits
    <2> QED
      BY <1>3, <2>1, <2>5
  <1>13. ASSUME NEW u \in Udis, NEW ok, FreeSpaceKnown(u, ok) PROVE DeviceInv'
    <2> DEFINE done == [engine EXCEPT !.paths = @ \ {u}]
               what == [free |-> TRUE, size |-> TRUE]
               g == SetData(done, u, what)
               f == FreeSpaceJobDone(engine, hardware, u, ok)
    <2>1. Engine(f) /\ hardware' = hardware /\ u \in engine.paths
      BY <1>13 DEF FreeSpaceKnown
    <2>2. f \in {done, g}
      BY DEF FreeSpaceJobDone
    <2>3. /\ DOMAIN done = SolidFields /\ done.data = engine.data /\ done.devicemap = engine.devicemap
          /\ done.heard = engine.heard /\ done.staged = engine.staged /\ done.mapped = engine.mapped
          /\ done.encrypted = engine.encrypted /\ \A v : v \in done.paths => v \in engine.paths
      BY <1>1 DEF SolidFields
    <2> HIDE DEF done
    <2>4. Told(engine, done, hardware)
      BY <2>3 DEF Told
    <2>5. Has(done) /\ u \in DOMAIN done.data
      BY <1>1, <2>1, <2>3, <2>4, ToldHas
    <2>6. DOMAIN what = {"free", "size"}
      OBVIOUS
    <2> HIDE DEF what
    <2>7. \A k \in DOMAIN what : True(done.heard, hardware, u, k, what[k])
      BY <2>6 DEF True
    <2>8. Told(done, g, hardware)
      BY <2>3, <2>5, <2>7, SetDataTold
    <2> HIDE DEF f, g
    <2>9. Told(engine, f, hardware)
      BY <2>2, <2>4, <2>8, ToldTransitive
    <2>10. DevicesFit(f, hardware, NoDevice, {})
      BY <1>0, <1>1, <2>9, ToldFits
    <2>11. f.devicemap = engine.devicemap
      BY <2>9 DEF Told
    <2> QED
      BY <1>3, <2>1, <2>10, <2>11
  <1>14. \A s \in Udis \union DOMAIN Queries : s \notin {"Battery", "Inhibitions", "Power Profiles"}
    BY EnginesAssumption DEF OfService
  <1>15. ASSUME NEW source \in Udis \union DOMAIN Queries, Connect(source) PROVE DeviceInv'
    <2>1. /\ hardware' = hardware /\ source \notin shown
          /\ shown' = shown \union ({source} \intersect DOMAIN engine'.data)
      BY <1>14, <1>15 DEF Connect, OfService
    <2>2. CASE source \in DOMAIN engine.data
      <3>1. engine' = engine
        BY <1>15, <2>2 DEF Connect
      <3>2. source \notin Udis
        BY <1>0, <1>1, <2>1, <2>2
      <3>3. \A u \in Udis : u \in shown' <=> u \in shown
        BY <2>1, <3>2
      <3> QED
        BY <1>0, <2>1, <3>1, <3>3 DEF DeviceInv
    <2>3. CASE source \notin DOMAIN engine.data /\ source \in DOMAIN Queries
      <3>1. engine' = RequestQuery(engine, hardware, source)
        BY <1>14, <1>15, <2>3, QueriesAssumption DEF Connect, OfService
      <3>2. Told(engine, engine', hardware)
        BY <1>0, <1>1, <2>3, <3>1, RequestQueryTold
      <3>3. DevicesFit(engine', hardware, NoDevice, {})
        BY <1>0, <1>1, <3>2, ToldFits
      <3>4. engine'.devicemap = engine.devicemap /\ source \notin Udis
        BY <2>3, <3>2, QueriesAssumption DEF Told
      <3>5. \A u \in Udis : u \in shown' <=> u \in shown
        BY <2>1, <3>4
      <3> QED
        BY <1>0, <2>1, <3>3, <3>4, <3>5 DEF DeviceInv
    <2>4. CASE source \notin DOMAIN engine.data /\ source \notin DOMAIN Queries
      <3>1. engine' = RequestDevice(engine, hardware, source)
        BY <1>14, <1>15, <2>4 DEF Connect, OfService
      <3>2. /\ DevicesFit(engine', hardware, NoDevice, {})
            /\ \A v : v \in engine'.devicemap <=>
                  v \in engine.devicemap \/ (v = source /\ source \in DOMAIN engine'.data)
        BY <1>0, <2>4, <3>1, RequestDeviceFits
      <3>3. \A u \in Udis : u \in engine'.devicemap <=> u \in shown'
        BY <1>0, <2>1, <3>2
      <3> QED
        BY <2>1, <3>2, <3>3 DEF DeviceInv
    <2> QED
      BY <2>2, <2>3, <2>4
  <1>16. ASSUME NEW source, Leave(source) PROVE DeviceInv'
    <2>1. /\ engine' = SourceWasRemoved(engine, source) /\ hardware' = hardware
          /\ source \in DOMAIN engine.data /\ source \notin DOMAIN hardware /\ shown' = shown \ {source}
      BY <1>16 DEF Leave, DeviceNeeds
    <2>2. source \notin Udis
      BY <1>1, <2>1
    <2>3. LET f == SourceWasRemoved(engine, source)
          IN  /\ DOMAIN f = SolidFields
              /\ DOMAIN f.data = DOMAIN engine.data \ {source}
              /\ \A s \in DOMAIN engine.data : s # source => f.data[s] = engine.data[s]
              /\ \A u : u \in f.devicemap <=> u \in engine.devicemap /\ u # source
              /\ \A k \in SolidFields : k \notin {"data", "devicemap", "predicatemap"} => f[k] = engine[k]
      BY <1>1, SourceWasRemovedEffect
    <2>4. /\ DOMAIN engine' = SolidFields
          /\ \A k \in SolidFields : k \notin {"data", "devicemap", "predicatemap"} => engine'[k] = engine[k]
          /\ \A u : u \in engine'.devicemap <=> u \in engine.devicemap
      BY <1>1, <2>1, <2>2, <2>3
    <2>5. /\ \A u \in Udis : u \in DOMAIN engine'.data <=> u \in DOMAIN engine.data
          /\ \A u \in Udis : u \in DOMAIN engine.data => engine'.data[u] = engine.data[u]
      BY <2>1, <2>2, <2>3
    <2>6. engine'.devicemap = engine.devicemap
      BY <2>4
    <2>7. \A k \in SolidFields : k \notin {"data", "predicatemap"} => engine'[k] = engine[k]
      BY <2>4, <2>6
    <2>8. Told(engine, engine', hardware)
      BY <1>1, <2>4, <2>5, <2>7, QueriesOnlyTold
    <2>9. DevicesFit(engine', hardware, NoDevice, {})
      BY <1>0, <1>1, <2>8, ToldFits
    <2>10. \A u \in Udis : u \in shown' <=> u \in shown
      BY <2>1, <2>2
    <2> QED
      BY <1>0, <2>1, <2>6, <2>9, <2>10 DEF DeviceInv
  <1>17. ASSUME NEW source, Poll(source) PROVE DeviceInv'
    <2>1. Engine(UpdateSourceEvent(engine, hardware, source)) /\ hardware' = hardware /\ source \in Udis
      BY <1>17 DEF Poll
    <2>2. Told(engine, UpdateSourceEvent(engine, hardware, source), hardware)
      BY <1>1, <2>1, SourceEventTold
    <2>3. DevicesFit(UpdateSourceEvent(engine, hardware, source), hardware, NoDevice, {})
      BY <1>0, <1>1, <2>2, ToldFits
    <2>4. UpdateSourceEvent(engine, hardware, source).devicemap = engine.devicemap
      BY <2>2 DEF Told
    <2> QED
      BY <1>3, <2>1, <2>3, <2>4
  <1>18. CASE UNCHANGED vars
    BY <1>0, <1>18 DEF vars, DeviceInv
  <1> QED
    BY <1>4, <1>5, <1>6, <1>7, <1>8, <1>10, <1>11, <1>12, <1>13, <1>15, <1>16, <1>17, <1>18, SolidSteps

\* Under DeviceNeeds every device that an application shows is described in full as it is now:
\* by populateDeviceData, a second announcement, the signals of its mounts, unmounts and
\* charge, its free-space jobs, and for a container by what is in it, in any order.  No device
\* that is gone has a source.
THEOREM DevicesAreShown == ASSUME DeviceNeeds \subseteq Assumed PROVE Spec => []DevicesShown
  <1>1. Frame /\ Frame' /\ QueriesInv /\ DeviceInv /\ [Next]_vars => DeviceInv'
    BY DeviceStep
  <1>2. Frame /\ Frame' /\ QueriesInv /\ [Next]_vars => QueriesInv'
    BY QueriesStep
  <1>3. Frame /\ DeviceInv => DevicesShown
    <2> SUFFICES ASSUME Frame, DeviceInv, plugin = "soliddevice" PROVE DevicesShown
      BY DEF DevicesShown
    <2>1. /\ DevicesFit(engine, hardware, NoDevice, {}) /\ \A u \in Udis : u \in engine.devicemap <=> u \in shown
          /\ NoDevice \notin engine.devicemap
      BY FitHas DEF DeviceInv
    <2>2. /\ \A u \in Udis : u \in DOMAIN engine.data <=> u \in engine.devicemap
          /\ engine.devicemap \subseteq DOMAIN hardware
      BY <2>1, FitHas
    <2>3. Udis \intersect DOMAIN engine.data \subseteq DOMAIN hardware \intersect engine.devicemap
      BY <2>2
    <2>4. ASSUME NEW u \in shown \intersect Udis
          PROVE  /\ "known" \in DOMAIN engine.data[u] /\ Current(u, "known", hardware[u].size)
                 /\ Is(hardware, u, "access") => "accessible" \in DOMAIN engine.data[u]
                 /\ List(hardware, "volume") \intersect Inside(u) \subseteq shown =>
                       Current(u, "accessible", hardware[u].accessible)
                 /\ Is(hardware, u, "battery") => "percent" \in DOMAIN engine.data[u]
                 /\ Current(u, "percent", hardware[u].percent)
                 /\ Current(u, "charge", hardware[u].charge)
                 /\ u \in engine.heard => Current(u, "state", hardware[u].job)
      <3>1. u \in engine.devicemap /\ Full(engine, u) /\ Right(engine, hardware, u, {})
        BY <2>1 DEF DevicesFit
      <3>2. /\ "known" \in DOMAIN engine.data[u] /\ Current(u, "known", hardware[u].size)
            /\ Current(u, "percent", hardware[u].percent) /\ Current(u, "charge", hardware[u].charge)
        BY <3>1 DEF Full, Right, True, Current
      <3>3. /\ Is(hardware, u, "access") => "accessible" \in DOMAIN engine.data[u]
            /\ Is(hardware, u, "battery") => "percent" \in DOMAIN engine.data[u]
        BY <3>1 DEF Full, Is
      <3>4. List(hardware, "volume") \intersect Inside(u) \subseteq shown =>
               List(hardware, "volume") \intersect Inside(u) \subseteq engine.devicemap
        BY <2>1 DEF Inside
      <3>5. List(hardware, "volume") \intersect Inside(u) \subseteq shown =>
               Current(u, "accessible", hardware[u].accessible)
        BY <3>1, <3>4 DEF Right, Current
      <3>6. u \in engine.heard => Current(u, "state", hardware[u].job)
        BY <3>1 DEF Right, Current
      <3> QED
        BY <3>2, <3>3, <3>5, <3>6
    <2> QED
      BY <2>3, <2>4 DEF DevicesShown
  <1> QED
    BY <1>1, <1>2, <1>3, QueriesInit, DeviceInit, Framed, PTL DEF Spec

---------------------------------------------------------------------------
(* The power management engine: its batteries *)

PowerFields == {"data", "listening", "batterySources", "cookie"}

\* Changes of the batteries leave the other sources alone.
Apart(e, f) ==
    /\ DOMAIN f = DOMAIN e
    /\ f.listening = e.listening /\ f.cookie = e.cookie
    /\ \A s \in OfService : /\ s \in DOMAIN f.data <=> s \in DOMAIN e.data
                            /\ s \in DOMAIN e.data => f.data[s] = e.data[s]

\* The batteries have different names, which are the sources there are, and these say what
\* the batteries are like.
Numbered(e, h) ==
    /\ \A u : u \in DOMAIN e.batterySources <=> u \in List(h, "battery")
    /\ \A u \in DOMAIN e.batterySources : e.batterySources[u] \in BatteryNames
    /\ \A u, v \in DOMAIN e.batterySources : e.batterySources[u] = e.batterySources[v] => u = v
    /\ \A s \in BatteryNames : s \in DOMAIN e.data <=> s \in Names(e)
    /\ \A u \in DOMAIN e.batterySources :
          /\ e.data[e.batterySources[u]].percent = h[u].percent
          /\ e.data[e.batterySources[u]].charge = h[u].charge

\* "Battery" lists the sources of the batteries.
ListsSources(e) ==
    /\ "Battery" \in DOMAIN e.data
    /\ {"hasBattery", "sources"} \subseteq DOMAIN e.data["Battery"]
    /\ e.data["Battery"].hasBattery = (Names(e) # {})
    /\ e.data["Battery"].sources = Names(e)

\* "Battery" sums up the batteries.
SaysOverall(e, h) ==
    /\ "Battery" \in DOMAIN e.data
    /\ {"percent", "charge"} \subseteq DOMAIN e.data["Battery"]
    /\ e.data["Battery"].percent = OverallPercent(h)
    /\ e.data["Battery"].charge = OverallState(h)

\* The source was asked for when there was no battery, and nothing was said of one since.
SaysNone(e) ==
    /\ "Battery" \in DOMAIN e.data
    /\ "hasBattery" \in DOMAIN e.data["Battery"]
    /\ e.data["Battery"].hasBattery = (Names(e) # {})
    /\ Names(e) = {}
    /\ DOMAIN e.data["Battery"] \intersect {"sources", "percent", "charge"} = {}

Summed(e, h) == SaysNone(e) \/ (ListsSources(e) /\ SaysOverall(e, h))

LEMMA NamesAreApart ==
  /\ "Battery" \notin BatteryNames /\ "Battery" \notin OfService
  /\ \A s \in BatteryNames : s \notin OfService
  BY NamesAssumption DEF BatteryNames, OfService

LEMMA ApartTransitive ==
  ASSUME NEW e, NEW f, NEW g, Apart(e, f), Apart(f, g)
  PROVE  Apart(e, g)
  BY DEF Apart

LEMMA UpdateOverallBatteryEffect ==
  ASSUME NEW e, NEW h, DOMAIN e = PowerFields
  PROVE  LET f == UpdateOverallBattery(e, h)
         IN  /\ Apart(e, f) /\ f.batterySources = e.batterySources
             /\ SaysOverall(f, h)
             /\ \A s : s \in DOMAIN f.data <=> s \in DOMAIN e.data \/ s = "Battery"
             /\ \A s \in DOMAIN e.data : s # "Battery" => f.data[s] = e.data[s]
             /\ ListsSources(e) => ListsSources(f)
  <1> DEFINE f == UpdateOverallBattery(e, h)
             c == [percent |-> OverallPercent(h), charge |-> OverallState(h),
                   hasCumulative |-> PowerSupplies(h) # {}]
             g == DataOf(e, "Battery")
  <1>1. f = SetData(e, "Battery", c)
    BY DEF UpdateOverallBattery
  <1>2. "data" \in DOMAIN e
    BY DEF PowerFields
  <1>3. /\ DOMAIN c = {"percent", "charge", "hasCumulative"}
        /\ c["percent"] = OverallPercent(h) /\ c["charge"] = OverallState(h)
    OBVIOUS
  <1> HIDE DEF c
  <1>4. /\ DOMAIN f = DOMAIN e
        /\ \A k \in DOMAIN e : k # "data" => f[k] = e[k]
        /\ DOMAIN f.data = DOMAIN e.data \union {"Battery"}
        /\ \A s \in DOMAIN e.data : s # "Battery" => f.data[s] = e.data[s]
        /\ f.data["Battery"] = Over(c, g)
    BY <1>1, <1>2, SetDataEffect
  <1>5. f.listening = e.listening /\ f.cookie = e.cookie /\ f.batterySources = e.batterySources
    BY <1>4 DEF PowerFields
  <1>6. Apart(e, f)
    BY <1>4, <1>5, NamesAreApart DEF Apart
  <1>7. /\ DOMAIN Over(c, g) = DOMAIN c \union DOMAIN g
        /\ \A k \in DOMAIN c : Over(c, g)[k] = c[k]
        /\ \A k \in DOMAIN g : k \notin DOMAIN c => Over(c, g)[k] = g[k]
    BY OverSays
  <1>8. SaysOverall(f, h)
    BY <1>3, <1>4, <1>7 DEF SaysOverall
  <1>9. ASSUME ListsSources(e) PROVE ListsSources(f)
    <2>1. Names(f) = Names(e)
      BY <1>5 DEF Names
    <2>2. g = e.data["Battery"]
      BY <1>9 DEF ListsSources, DataOf
    <2>3. \A k \in {"hasBattery", "sources"} : k \in DOMAIN f.data["Battery"] /\ f.data["Battery"][k] = e.data["Battery"][k]
      BY <1>3, <1>4, <1>7, <1>9, <2>2 DEF ListsSources
    <2> HIDE DEF f, g
    <2> QED
      BY <1>4, <1>9, <2>1, <2>3 DEF ListsSources
  <1> QED
    BY <1>4, <1>5, <1>6, <1>8, <1>9

LEMMA SetSourcesEffect ==
  ASSUME NEW e, NEW h, DOMAIN e = PowerFields
  PROVE  LET f == SetSources(e)
         IN  /\ Apart(e, f) /\ f.batterySources = e.batterySources
             /\ ListsSources(f)
             /\ \A s : s \in DOMAIN f.data <=> s \in DOMAIN e.data \/ s = "Battery"
             /\ \A s \in DOMAIN e.data : s # "Battery" => f.data[s] = e.data[s]
             /\ SaysOverall(e, h) => SaysOverall(f, h)
  <1> DEFINE f == SetSources(e)
             c == [sources |-> Names(e), hasBattery |-> Names(e) # {}]
             g == DataOf(e, "Battery")
  <1>1. f = SetData(e, "Battery", c)
    BY DEF SetSources
  <1>2. "data" \in DOMAIN e
    BY DEF PowerFields
  <1>3. DOMAIN c = {"sources", "hasBattery"} /\ c["sources"] = Names(e)
    OBVIOUS
  <1>30. c["hasBattery"] = (Names(e) # {})
    OBVIOUS
  <1> HIDE DEF c
  <1>4. /\ DOMAIN f = DOMAIN e
        /\ \A k \in DOMAIN e : k # "data" => f[k] = e[k]
        /\ DOMAIN f.data = DOMAIN e.data \union {"Battery"}
        /\ \A s \in DOMAIN e.data : s # "Battery" => f.data[s] = e.data[s]
        /\ f.data["Battery"] = Over(c, g)
    BY <1>1, <1>2, SetDataEffect
  <1>5. f.listening = e.listening /\ f.cookie = e.cookie /\ f.batterySources = e.batterySources
    BY <1>4 DEF PowerFields
  <1>6. Apart(e, f)
    BY <1>4, <1>5, NamesAreApart DEF Apart
  <1>7. /\ DOMAIN Over(c, g) = DOMAIN c \union DOMAIN g
        /\ \A k \in DOMAIN c : Over(c, g)[k] = c[k]
        /\ \A k \in DOMAIN g : k \notin DOMAIN c => Over(c, g)[k] = g[k]
    BY OverSays
  <1>8. Names(f) = Names(e)
    BY <1>5 DEF Names
  <1>9. /\ \A k \in {"sources", "hasBattery"} : k \in DOMAIN f.data["Battery"] /\ f.data["Battery"][k] = c[k]
        /\ "Battery" \in DOMAIN f.data
    BY <1>3, <1>4, <1>7
  <1>11. ASSUME SaysOverall(e, h) PROVE SaysOverall(f, h)
    <2>1. g = e.data["Battery"]
      BY <1>11 DEF SaysOverall, DataOf
    <2> QED
      BY <1>3, <1>4, <1>7, <1>11, <2>1 DEF SaysOverall
  <1> HIDE DEF f, g
  <1>10. ListsSources(f)
    <2>1. f.data["Battery"].hasBattery = (Names(f) # {})
      BY <1>8, <1>9, <1>30
    <2>2. f.data["Battery"].sources = Names(f)
      BY <1>3, <1>8, <1>9
    <2> QED
      BY <1>9, <2>1, <2>2 DEF ListsSources
  <1> QED
    BY <1>4, <1>5, <1>6, <1>10, <1>11 DEF f

\* The sources of some batteries are set, and the sum of all.
LEMMA SetBatteriesEffect ==
  ASSUME NEW e, NEW h, NEW us, DOMAIN e = PowerFields,
         us \subseteq DOMAIN e.batterySources,
         \A u \in us : e.batterySources[u] \in BatteryNames,
         \A u, v \in us : e.batterySources[u] = e.batterySources[v] => u = v
  PROVE  LET f == SetBatteries(e, h, us)
         IN  /\ Apart(e, f) /\ f.batterySources = e.batterySources
             /\ SaysOverall(f, h) /\ (ListsSources(e) => ListsSources(f))
             /\ \A s : s \in DOMAIN f.data <=> s \in DOMAIN e.data \/ s = "Battery"
                                               \/ \E u \in us : s = e.batterySources[u]
             /\ \A s \in DOMAIN e.data : s # "Battery" /\ (\A u \in us : s # e.batterySources[u])
                                         => f.data[s] = e.data[s]
             /\ \A u \in us : /\ f.data[e.batterySources[u]].percent = h[u].percent
                              /\ f.data[e.batterySources[u]].charge = h[u].charge
  <1> DEFINE of == [s \in {e.batterySources[u] : u \in us} |-> CHOOSE u \in us : e.batterySources[u] = s]
             c == [s \in DOMAIN of |-> [percent |-> h[of[s]].percent, charge |-> h[of[s]].charge]]
             d == SetEach(e, c)
             f == SetBatteries(e, h, us)
  <1>1. f = UpdateOverallBattery(d, h)
    BY DEF SetBatteries
  <1>2. \A u \in us : e.batterySources[u] \in DOMAIN of /\ of[e.batterySources[u]] = u
    OBVIOUS
  <1>3. \A s : s \in DOMAIN c <=> \E u \in us : s = e.batterySources[u]
    OBVIOUS
  <1>4. ASSUME NEW u \in us
        PROVE  LET s == e.batterySources[u]
               IN  DOMAIN c[s] = {"percent", "charge"} /\ c[s]["percent"] = h[u].percent /\ c[s]["charge"] = h[u].charge
    BY <1>2
  <1> HIDE DEF c
  <1>5. /\ DOMAIN d = DOMAIN e
        /\ \A k \in DOMAIN e : k # "data" => d[k] = e[k]
        /\ DOMAIN d.data = DOMAIN e.data \union DOMAIN c
        /\ \A s \in DOMAIN e.data : s \notin DOMAIN c => d.data[s] = e.data[s]
        /\ \A s \in DOMAIN c : d.data[s] = Over(c[s], DataOf(e, s))
    <2>1. "data" \in DOMAIN e
      BY DEF PowerFields
    <2> QED
      BY <2>1, SetEachEffect
  <1> HIDE DEF d, f, of
  <1>6. d.listening = e.listening /\ d.cookie = e.cookie /\ d.batterySources = e.batterySources
    BY <1>5 DEF PowerFields
  <1>7. "Battery" \notin DOMAIN c /\ \A s \in DOMAIN c : s \notin OfService
    BY <1>3, NamesAreApart
  <1>8. Apart(e, d)
    BY <1>5, <1>6, <1>7 DEF Apart
  <1>9. ListsSources(e) => ListsSources(d)
    <2>1. Names(d) = Names(e)
      BY <1>6 DEF Names
    <2>2. "Battery" \in DOMAIN e.data => "Battery" \in DOMAIN d.data /\ d.data["Battery"] = e.data["Battery"]
      BY <1>5, <1>7
    <2> QED
      BY <2>1, <2>2 DEF ListsSources
  <1>10. /\ Apart(d, f) /\ f.batterySources = d.batterySources
         /\ SaysOverall(f, h)
         /\ \A s : s \in DOMAIN f.data <=> s \in DOMAIN d.data \/ s = "Battery"
         /\ \A s \in DOMAIN d.data : s # "Battery" => f.data[s] = d.data[s]
         /\ ListsSources(d) => ListsSources(f)
    <2>1. DOMAIN d = PowerFields
      BY <1>5
    <2> QED
      BY <1>1, <2>1, UpdateOverallBatteryEffect
  <1>11. ASSUME NEW u \in us
         PROVE  /\ f.data[e.batterySources[u]].percent = h[u].percent
                /\ f.data[e.batterySources[u]].charge = h[u].charge
    <2> DEFINE s == e.batterySources[u]
               g == DataOf(e, s)
    <2>1. s \in DOMAIN c /\ f.data[s] = Over(c[s], g)
      BY <1>3, <1>5, <1>7, <1>10
    <2>2. /\ DOMAIN c[s] = {"percent", "charge"}
          /\ c[s]["percent"] = h[u].percent /\ c[s]["charge"] = h[u].charge
      BY <1>4
    <2> DEFINE w == c[s]
    <2> HIDE DEF g, w, s
    <2>3. /\ DOMAIN Over(w, g) = DOMAIN w \union DOMAIN g
          /\ \A k \in DOMAIN w : Over(w, g)[k] = w[k]
          /\ \A k \in DOMAIN g : k \notin DOMAIN w => Over(w, g)[k] = g[k]
      BY OverSays
    <2>4. f.data[s].percent = h[u].percent /\ f.data[s].charge = h[u].charge
      BY <2>1, <2>2, <2>3 DEF w
    <2> QED
      BY <2>4 DEF s
  <1>12. \A s : s \in DOMAIN f.data <=> s \in DOMAIN e.data \/ s = "Battery" \/ \E u \in us : s = e.batterySources[u]
    BY <1>3, <1>5, <1>10
  <1>13. ASSUME NEW s \in DOMAIN e.data, s # "Battery", \A u \in us : s # e.batterySources[u]
         PROVE  f.data[s] = e.data[s]
    BY <1>3, <1>5, <1>10, <1>13
  <1>14. Apart(e, f)
    BY <1>8, <1>10, ApartTransitive
  <1> QED
    BY <1>6, <1>9, <1>10, <1>11, <1>12, <1>13, <1>14 DEF f

\* Some number of a battery is free: there are more names than devices.
LEMMA FreeName ==
  ASSUME NEW e, DOMAIN e.batterySources \subseteq Udis
  PROVE  LET free == CHOOSE n \in DOMAIN BatteryName :
                         /\ BatteryName[n] \notin Names(e)
                         /\ \A m \in 0 .. n - 1 : BatteryName[m] \in Names(e)
         IN  BatteryName[free] \in BatteryNames /\ BatteryName[free] \notin Names(e)
  <1> DEFINE ns == 0 .. Cardinality(Udis)
  <1>1. /\ IsFiniteSet(Udis) /\ Cardinality(Udis) \in Nat
        /\ DOMAIN BatteryName = ns /\ \A m, n \in ns : BatteryName[m] = BatteryName[n] => m = n
    BY HardwareAssumption, NamesAssumption, FS_CardinalityType
  <1>2. \E n \in ns : BatteryName[n] \notin Names(e)
    <2> SUFFICES ASSUME \A n \in ns : BatteryName[n] \in Names(e) PROVE FALSE
      OBVIOUS
    <2> DEFINE f == [n \in ns |-> CHOOSE u \in DOMAIN e.batterySources : e.batterySources[u] = BatteryName[n]]
    <2>1. \A n \in ns : f[n] \in Udis /\ e.batterySources[f[n]] = BatteryName[n]
      BY DEF Names
    <2>2. f \in [ns -> Udis]
      BY <2>1
    <2>3. IsFiniteSet(ns) /\ Cardinality(Udis) < Cardinality(ns)
      BY <1>1, FS_Interval
    <2> HIDE DEF f
    <2>4. PICK m, n \in ns : m # n /\ f[m] = f[n]
      BY <1>1, <2>2, <2>3, FS_PigeonHole
    <2> QED
      BY <1>1, <2>1, <2>4
  <1>3. PICK n \in {n \in Nat : n \in ns /\ BatteryName[n] \notin Names(e)} :
           \A m \in {m \in Nat : m \in ns /\ BatteryName[m] \notin Names(e)} : n <= m
    <2> DEFINE S == {n \in Nat : n \in ns /\ BatteryName[n] \notin Names(e)}
    <2>1. S \subseteq Nat /\ S # {}
      BY <1>2
    <2> QED
      BY <2>1, LeastNatural
  <1>4. \A m \in 0 .. n - 1 : BatteryName[m] \in Names(e)
    BY <1>1, <1>3
  <1> QED
    BY <1>1, <1>3, <1>4 DEF BatteryNames

\* A finite set can be numbered from 0.
LEMMA Numbering ==
  ASSUME NEW S, IsFiniteSet(S)
  PROVE  \E f \in Injection(S, 0 .. Cardinality(S) - 1) : TRUE
  <1> DEFINE n == Cardinality(S)
  <1>1. n \in Nat /\ ExistsBijection(1 .. n, S)
    BY FS_CardinalityType
  <1>2. ExistsBijection(S, 1 .. n)
    BY <1>1, Fun_ExistsBijSymmetric
  <1>3. PICK g : g \in Bijection(S, 1 .. n)
    BY <1>2 DEF ExistsBijection
  <1>4. g \in [S -> 1 .. n] /\ \A a, b \in S : g[a] = g[b] => a = b
    BY <1>3, Fun_BijectionProperties
  <1> DEFINE f == [x \in S |-> g[x] - 1]
  <1>5. f \in [S -> 0 .. n - 1]
    BY <1>1, <1>4
  <1>6. \A a, b \in S : f[a] = f[b] => a = b
    BY <1>1, <1>4
  <1>7. f \in Injection(S, 0 .. n - 1)
    BY <1>5, <1>6, Fun_IsInj
  <1> QED
    BY <1>7

\* The batteries are the same, and in the same state.
SameBatteries(h, k) ==
    /\ \A u : u \in List(h, "battery") <=> u \in List(k, "battery")
    /\ \A u \in List(h, "battery") : h[u].percent = k[u].percent /\ h[u].charge = k[u].charge

LEMMA SameSums ==
  ASSUME NEW h, NEW k, SameBatteries(h, k)
  PROVE  OverallPercent(h) = OverallPercent(k) /\ OverallState(h) = OverallState(k)
  <1>1. PowerSupplies(h) = PowerSupplies(k)
    BY DEF SameBatteries, PowerSupplies
  <1>2. \A u \in PowerSupplies(h) : h[u].percent = k[u].percent /\ h[u].charge = k[u].charge
    BY DEF SameBatteries, PowerSupplies
  <1>3. [u \in PowerSupplies(h) |-> h[u].percent] = [u \in PowerSupplies(k) |-> k[u].percent]
    BY <1>1, <1>2
  <1>4. {h[u].charge : u \in PowerSupplies(h)} = {k[u].charge : u \in PowerSupplies(k)}
    BY <1>1, <1>2
  <1> QED
    BY <1>3, <1>4 DEF OverallPercent, OverallState

LEMMA SameBatteriesFit ==
  ASSUME NEW e, NEW h, NEW k, SameBatteries(h, k), Numbered(e, h), Summed(e, h)
  PROVE  Numbered(e, k) /\ Summed(e, k)
  <1>1. Numbered(e, k)
    BY DEF SameBatteries, Numbered
  <1>2. SaysOverall(e, h) => SaysOverall(e, k)
    BY SameSums DEF SaysOverall
  <1> QED
    BY <1>1, <1>2 DEF Summed

\* deviceAdded of another device
LEMMA BatteryAddedFits ==
  ASSUME NEW e, NEW h, NEW k, NEW u, DOMAIN e = PowerFields, Numbered(e, h), Summed(e, h),
         DOMAIN h \subseteq Udis, u \in Udis, u \notin DOMAIN h, DOMAIN k = DOMAIN h \union {u},
         \A v \in DOMAIN h : k[v].percent = h[v].percent /\ k[v].charge = h[v].charge
  PROVE  LET f == BatteryAdded(e, k, u)
         IN  Apart(e, f) /\ Numbered(f, k) /\ Summed(f, k)
  <1>1. CASE ~Is(k, u, "battery")
    <2>1. BatteryAdded(e, k, u) = e
      BY <1>1 DEF BatteryAdded
    <2>2. SameBatteries(h, k)
      BY <1>1 DEF SameBatteries, Is, List
    <2> QED
      BY <2>1, <2>2, SameBatteriesFit DEF Apart
  <1>2. CASE Is(k, u, "battery")
    <2> DEFINE free == CHOOSE n \in DOMAIN BatteryName :
                         /\ BatteryName[n] \notin Names(e)
                         /\ \A m \in 0 .. n - 1 : BatteryName[m] \in Names(e)
               name == BatteryName[free]
               c == [v \in {u} |-> name]
               bs == Over(c, e.batterySources)
               e1 == [e EXCEPT !.batterySources = bs]
               e2 == SetBatteries(e1, k, {u})
               e3 == SetSources(e2)
               e4 == UpdateOverallBattery(e3, k)
    <2>1. BatteryAdded(e, k, u) = e4
      BY <1>2 DEF BatteryAdded, SetBattery
    <2>2. DOMAIN e.batterySources \subseteq Udis
      BY DEF Numbered, List
    <2>3. name \in BatteryNames /\ name \notin Names(e)
      BY <2>2, FreeName
    <2>4. DOMAIN c = {u} /\ c[u] = name
      OBVIOUS
    <2> HIDE DEF free, name, c
    <2>5. /\ DOMAIN bs = DOMAIN c \union DOMAIN e.batterySources
          /\ \A v \in DOMAIN c : bs[v] = c[v]
          /\ \A v \in DOMAIN e.batterySources : v \notin DOMAIN c => bs[v] = e.batterySources[v]
      BY ZenonT(60), OverSays
    <2>6. u \notin DOMAIN e.batterySources
      BY DEF Numbered, List
    <2> HIDE DEF bs
    <2>7. /\ DOMAIN e1 = PowerFields /\ e1.batterySources = bs /\ e1.data = e.data /\ Apart(e, e1)
      BY DEF PowerFields, Apart
    <2> HIDE DEF e1
    <2>8. /\ DOMAIN bs = DOMAIN e.batterySources \union {u}
          /\ bs[u] = name
          /\ \A v \in DOMAIN e.batterySources : bs[v] = e.batterySources[v]
      BY <2>4, <2>5, <2>6
    <2>9. /\ Apart(e1, e2) /\ e2.batterySources = bs /\ SaysOverall(e2, k)
          /\ \A s : s \in DOMAIN e2.data <=> s \in DOMAIN e.data \/ s = "Battery" \/ s = name
          /\ \A s \in DOMAIN e.data : s # "Battery" /\ s # name => e2.data[s] = e.data[s]
          /\ e2.data[name].percent = k[u].percent /\ e2.data[name].charge = k[u].charge
      BY <2>3, <2>7, <2>8, SetBatteriesEffect
    <2> HIDE DEF e2
    <2>10. DOMAIN e2 = PowerFields
      BY <2>7, <2>9 DEF Apart
    <2>11. /\ Apart(e2, e3) /\ e3.batterySources = bs
           /\ ListsSources(e3) /\ SaysOverall(e3, k)
           /\ \A s : s \in DOMAIN e3.data <=> s \in DOMAIN e2.data \/ s = "Battery"
           /\ \A s \in DOMAIN e2.data : s # "Battery" => e3.data[s] = e2.data[s]
      BY <2>9, <2>10, SetSourcesEffect
    <2> HIDE DEF e3
    <2>12. DOMAIN e3 = PowerFields
      BY <2>10, <2>11 DEF Apart
    <2>13. /\ Apart(e3, e4) /\ e4.batterySources = bs
           /\ ListsSources(e4) /\ SaysOverall(e4, k)
           /\ \A s : s \in DOMAIN e4.data <=> s \in DOMAIN e3.data \/ s = "Battery"
           /\ \A s \in DOMAIN e3.data : s # "Battery" => e4.data[s] = e3.data[s]
      BY <2>11, <2>12, UpdateOverallBatteryEffect
    <2> HIDE DEF e4
    <2>14. Apart(e, e4)
      BY <2>7, <2>9, <2>11, <2>13, ApartTransitive
    <2>15. /\ \A s \in BatteryNames : s \in DOMAIN e4.data <=> s \in DOMAIN e.data \/ s = name
           /\ \A s \in BatteryNames : s \in DOMAIN e.data /\ s # name => e4.data[s] = e.data[s]
           /\ e4.data[name].percent = k[u].percent /\ e4.data[name].charge = k[u].charge
      BY <2>3, <2>9, <2>11, <2>13, NamesAreApart
    <2>16. \A s : s \in Names(e4) <=> s \in Names(e) \/ s = name
      BY <2>8, <2>13 DEF Names
    <2>17. \A v : v \in DOMAIN e4.batterySources <=> v \in List(k, "battery")
      BY <1>2, <2>8, <2>13 DEF Numbered, List, Is
    <2>18. \A v \in DOMAIN e4.batterySources : e4.batterySources[v] \in BatteryNames
      BY <2>3, <2>8, <2>13 DEF Numbered
    <2>19. \A v, w \in DOMAIN e4.batterySources : e4.batterySources[v] = e4.batterySources[w] => v = w
      BY <2>3, <2>8, <2>13 DEF Numbered, Names
    <2>20. \A s \in BatteryNames : s \in DOMAIN e4.data <=> s \in Names(e4)
      BY <2>15, <2>16 DEF Numbered
    <2>21. ASSUME NEW v \in DOMAIN e4.batterySources
           PROVE  /\ e4.data[e4.batterySources[v]].percent = k[v].percent
                  /\ e4.data[e4.batterySources[v]].charge = k[v].charge
      <3>1. CASE v = u
        BY <2>8, <2>13, <2>15, <3>1
      <3>2. CASE v # u
        <4> DEFINE s == e.batterySources[v]
        <4>1. /\ v \in DOMAIN e.batterySources /\ e4.batterySources[v] = s
              /\ v \in DOMAIN h
          BY <2>8, <2>13, <2>21, <3>2 DEF Numbered, List
        <4>2. s \in BatteryNames /\ s \in Names(e) /\ s \in DOMAIN e.data
          BY <4>1 DEF Numbered, Names
        <4>3. s # name
          BY <2>3, <4>2
        <4>4. e4.data[s] = e.data[s]
          BY <2>15, <4>2, <4>3
        <4>5. e.data[s].percent = h[v].percent /\ e.data[s].charge = h[v].charge
          BY <4>1 DEF Numbered
        <4> QED
          BY <4>1, <4>4, <4>5
      <3> QED
        BY <3>1, <3>2
    <2>22. Numbered(e4, k)
      BY <2>17, <2>18, <2>19, <2>20, <2>21 DEF Numbered
    <2> QED
      BY <2>1, <2>13, <2>14, <2>22 DEF Summed
  <1> QED
    BY <1>1, <1>2

\* deviceRemoved
LEMMA BatteryRemovedFits ==
  ASSUME NEW e, NEW h, NEW k, NEW u, DOMAIN e = PowerFields, Numbered(e, h), Summed(e, h),
         DOMAIN k = DOMAIN h \ {u},
         \A v \in DOMAIN k : k[v].percent = h[v].percent /\ k[v].charge = h[v].charge
  PROVE  LET f == BatteryRemoved(e, k, u)
         IN  Apart(e, f) /\ Numbered(f, k) /\ Summed(f, k)
  <1>1. CASE u \notin DOMAIN e.batterySources
    <2>1. BatteryRemoved(e, k, u) = e
      BY <1>1 DEF BatteryRemoved
    <2>2. SameBatteries(h, k)
      BY <1>1 DEF SameBatteries, Numbered, List
    <2> QED
      BY <2>1, <2>2, SameBatteriesFit DEF Apart
  <1>2. CASE u \in DOMAIN e.batterySources
    <2> DEFINE name == e.batterySources[u]
               bs == [v \in DOMAIN e.batterySources \ {u} |-> e.batterySources[v]]
               e1 == [e EXCEPT !.batterySources = bs]
               e2 == RemoveSource(e1, name)
               e3 == SetSources(e2)
               e4 == UpdateOverallBattery(e3, k)
    <2>1. BatteryRemoved(e, k, u) = e4
      BY <1>2 DEF BatteryRemoved
    <2>2. name \in BatteryNames
      BY <1>2 DEF Numbered
    <2>3. /\ DOMAIN bs = DOMAIN e.batterySources \ {u}
          /\ \A v \in DOMAIN bs : bs[v] = e.batterySources[v]
      OBVIOUS
    <2>4. \A v \in DOMAIN bs : bs[v] # name
      BY <1>2 DEF Numbered
    <2> HIDE DEF bs
    <2>5. /\ DOMAIN e1 = PowerFields /\ e1.batterySources = bs /\ e1.data = e.data /\ Apart(e, e1)
      BY DEF PowerFields, Apart
    <2> HIDE DEF e1, name
    <2>6. /\ DOMAIN e2 = DOMAIN e1
          /\ \A x \in DOMAIN e1 : x # "data" => e2[x] = e1[x]
          /\ DOMAIN e2.data = DOMAIN e.data \ {name}
          /\ \A s \in DOMAIN e.data \ {name} : e2.data[s] = e.data[s]
      <3>1. "data" \in DOMAIN e1
        BY <2>5 DEF PowerFields
      <3> QED
        BY <2>5, <3>1, RemoveSourcesEffect DEF RemoveSource
    <2> HIDE DEF e2
    <2>7. DOMAIN e2 = PowerFields /\ e2.batterySources = bs
      BY <2>5, <2>6 DEF PowerFields
    <2>8. Apart(e1, e2)
      BY <2>2, <2>5, <2>6, NamesAreApart DEF Apart, PowerFields
    <2>9. /\ Apart(e2, e3) /\ e3.batterySources = bs
          /\ ListsSources(e3)
          /\ \A s : s \in DOMAIN e3.data <=> s \in DOMAIN e2.data \/ s = "Battery"
          /\ \A s \in DOMAIN e2.data : s # "Battery" => e3.data[s] = e2.data[s]
      BY <2>7, SetSourcesEffect
    <2> HIDE DEF e3
    <2>10. DOMAIN e3 = PowerFields
      BY <2>7, <2>9 DEF Apart
    <2>11. /\ Apart(e3, e4) /\ e4.batterySources = bs
           /\ ListsSources(e4) /\ SaysOverall(e4, k)
           /\ \A s : s \in DOMAIN e4.data <=> s \in DOMAIN e3.data \/ s = "Battery"
           /\ \A s \in DOMAIN e3.data : s # "Battery" => e4.data[s] = e3.data[s]
      BY <2>9, <2>10, UpdateOverallBatteryEffect
    <2> HIDE DEF e4
    <2>12. Apart(e, e4)
      BY <2>5, <2>8, <2>9, <2>11, ApartTransitive
    <2>13. \A s \in BatteryNames : /\ s \in DOMAIN e4.data <=> s \in DOMAIN e.data /\ s # name
                                   /\ s \in DOMAIN e.data /\ s # name => e4.data[s] = e.data[s]
      BY <2>2, <2>6, <2>9, <2>11, NamesAreApart
    <2>14. \A s : s \in Names(e4) <=> s \in Names(e) /\ s # name
      <3>1. \A v \in DOMAIN e.batterySources : v # u => e.batterySources[v] # name
        BY <2>3, <2>4
      <3>2. e.batterySources[u] = name
        BY DEF name
      <3> QED
        BY <2>3, <2>4, <2>11, <3>1, <3>2 DEF Names
    <2>15. \A v : v \in DOMAIN e4.batterySources <=> v \in List(k, "battery")
      BY <2>3, <2>11 DEF Numbered, List
    <2>16. /\ \A v \in DOMAIN e4.batterySources : e4.batterySources[v] \in BatteryNames
           /\ \A v, w \in DOMAIN e4.batterySources : e4.batterySources[v] = e4.batterySources[w] => v = w
      BY <2>3, <2>11 DEF Numbered
    <2>17. \A s \in BatteryNames : s \in DOMAIN e4.data <=> s \in Names(e4)
      BY <2>13, <2>14 DEF Numbered
    <2>18. ASSUME NEW v \in DOMAIN e4.batterySources
           PROVE  /\ e4.data[e4.batterySources[v]].percent = k[v].percent
                  /\ e4.data[e4.batterySources[v]].charge = k[v].charge
      <3> DEFINE s == e.batterySources[v]
      <3>1. v \in DOMAIN e.batterySources /\ e4.batterySources[v] = s /\ s # name
        BY <2>3, <2>4, <2>11
      <3>2. s \in BatteryNames /\ s \in DOMAIN e.data
        BY <3>1 DEF Numbered, Names
      <3>3. e4.data[s] = e.data[s]
        BY <2>13, <3>1, <3>2
      <3>4. v \in DOMAIN k
        BY <2>15 DEF List
      <3>5. e.data[s].percent = h[v].percent /\ e.data[s].charge = h[v].charge
        BY <3>1 DEF Numbered
      <3> QED
        BY <3>1, <3>3, <3>4, <3>5
    <2>19. Numbered(e4, k)
      BY <2>15, <2>16, <2>17, <2>18 DEF Numbered
    <2> QED
      BY <2>1, <2>11, <2>12, <2>19 DEF Summed
  <1> QED
    BY <1>1, <1>2

\* A signal of one battery
LEMMA BatteryChangedFits ==
  ASSUME NEW e, NEW h, NEW k, NEW u, DOMAIN e = PowerFields, Numbered(e, h), Summed(e, h),
         DOMAIN k = DOMAIN h, u \in List(h, "battery"),
         \A v \in DOMAIN k : v # u => k[v].percent = h[v].percent /\ k[v].charge = h[v].charge
  PROVE  LET f == BatteryChanged(e, k, u)
         IN  Apart(e, f) /\ Numbered(f, k) /\ Summed(f, k)
  <1> DEFINE f == SetBatteries(e, k, {u})
  <1>1. u \in DOMAIN e.batterySources
    BY DEF Numbered
  <1>2. BatteryChanged(e, k, u) = f
    BY <1>1 DEF BatteryChanged, SetBattery
  <1>3. e.batterySources[u] \in BatteryNames
    BY <1>1 DEF Numbered
  <1>4. /\ Apart(e, f) /\ f.batterySources = e.batterySources
        /\ SaysOverall(f, k) /\ (ListsSources(e) => ListsSources(f))
        /\ \A s : s \in DOMAIN f.data <=> s \in DOMAIN e.data \/ s = "Battery" \/ s = e.batterySources[u]
        /\ \A s \in DOMAIN e.data : s # "Battery" /\ s # e.batterySources[u] => f.data[s] = e.data[s]
        /\ f.data[e.batterySources[u]].percent = k[u].percent
        /\ f.data[e.batterySources[u]].charge = k[u].charge
    BY <1>1, <1>3, SetBatteriesEffect
  <1> HIDE DEF f
  <1>5. Names(f) = Names(e) /\ e.batterySources[u] \in Names(e)
    BY <1>1, <1>4 DEF Names
  <1>6. ListsSources(e)
    BY <1>5 DEF Summed, SaysNone
  <1>7. \A s \in BatteryNames : s \in DOMAIN f.data <=> s \in Names(f)
    BY <1>4, <1>5, NamesAreApart DEF Numbered
  <1>8. ASSUME NEW v \in DOMAIN f.batterySources
        PROVE  /\ f.data[f.batterySources[v]].percent = k[v].percent
               /\ f.data[f.batterySources[v]].charge = k[v].charge
    <2>1. CASE v = u
      BY <1>4, <2>1
    <2>2. CASE v # u
      <3> DEFINE s == e.batterySources[v]
      <3>1. v \in DOMAIN e.batterySources /\ f.batterySources[v] = s /\ s # e.batterySources[u]
        BY <1>1, <1>4, <2>2 DEF Numbered
      <3>2. s \in BatteryNames /\ s \in DOMAIN e.data
        BY <3>1 DEF Numbered, Names
      <3>3. f.data[s] = e.data[s]
        BY <1>4, <3>1, <3>2, NamesAreApart
      <3>4. v \in DOMAIN k
        BY <3>1 DEF Numbered, List
      <3>5. e.data[s].percent = h[v].percent /\ e.data[s].charge = h[v].charge
        BY <3>1 DEF Numbered
      <3> QED
        BY <2>2, <3>1, <3>3, <3>4, <3>5
    <2> QED
      BY <2>1, <2>2
  <1>9. \A v : v \in DOMAIN f.batterySources <=> v \in List(k, "battery")
    BY <1>4 DEF Numbered, List
  <1>10. Numbered(f, k)
    BY <1>4, <1>7, <1>8, <1>9 DEF Numbered
  <1> QED
    BY <1>2, <1>4, <1>6, <1>10 DEF Summed

\* The request of the source "Battery", before which there are no sources of batteries
LEMMA RequestBatteryFits ==
  ASSUME NEW e, NEW h, DOMAIN e = PowerFields, DOMAIN h \subseteq Udis,
         "Battery" \notin DOMAIN e.data, \A s \in BatteryNames : s \notin DOMAIN e.data
  PROVE  LET f == RequestBattery(e, h)
         IN  Apart(e, f) /\ Numbered(f, h) /\ Summed(f, h)
  <1> DEFINE found == List(h, "battery")
             number == CHOOSE f \in Injection(found, 0 .. Cardinality(found) - 1) : TRUE
             bs == [u \in found |-> BatteryName[number[u]]]
             e1 == [e EXCEPT !.batterySources = bs]
  <1>1. DOMAIN bs = found /\ \A u \in found : bs[u] = BatteryName[number[u]]
    OBVIOUS
  <1>2. /\ IsFiniteSet(found) /\ Cardinality(found) <= Cardinality(Udis)
        /\ Cardinality(found) \in Nat /\ Cardinality(Udis) \in Nat
    <2>1. found \in SUBSET Udis
      BY DEF List
    <2> QED
      BY <2>1, HardwareAssumption, FS_Subset, FS_CardinalityType
  <1>3. number \in Injection(found, 0 .. Cardinality(found) - 1)
    BY <1>2, Numbering
  <1>4. \A u \in found : number[u] \in DOMAIN BatteryName
    BY <1>2, <1>3, NamesAssumption DEF Injection
  <1>5. \A u, v \in found : number[u] = number[v] => u = v
    BY <1>3 DEF Injection, IsInjective
  <1>6. \A u \in found : bs[u] \in BatteryNames
    BY <1>1, <1>4 DEF BatteryNames
  <1>7. \A u, v \in found : bs[u] = bs[v] => u = v
    BY <1>1, <1>4, <1>5, NamesAssumption
  <1>8. RequestBattery(e, h) = IF found = {} THEN SetData(e1, "Battery", [hasBattery |-> FALSE, hasCumulative |-> FALSE])
                               ELSE SetSources(SetBatteries(e1, h, found))
    BY DEF RequestBattery
  <1> HIDE DEF bs, number
  <1>9. DOMAIN e1 = PowerFields /\ e1.batterySources = bs /\ e1.data = e.data /\ Apart(e, e1)
    BY DEF PowerFields, Apart
  <1> HIDE DEF e1
  <1>10. CASE found = {}
    <2> DEFINE c == [hasBattery |-> FALSE, hasCumulative |-> FALSE]
               f == SetData(e1, "Battery", c)
    <2>1. DOMAIN c = {"hasBattery", "hasCumulative"}
      OBVIOUS
    <2>2. c["hasBattery"] = FALSE
      OBVIOUS
    <2>3. DataOf(e1, "Battery") = NoData
      BY <1>9 DEF DataOf
    <2> HIDE DEF c
    <2>4. "data" \in DOMAIN e1
      BY <1>9 DEF PowerFields
    <2>5. /\ DOMAIN f = DOMAIN e1
          /\ \A x \in DOMAIN e1 : x # "data" => f[x] = e1[x]
          /\ DOMAIN f.data = DOMAIN e1.data \union {"Battery"}
          /\ \A s \in DOMAIN e1.data : s # "Battery" => f.data[s] = e1.data[s]
          /\ f.data["Battery"] = Over(c, NoData)
      BY <2>3, <2>4, SetDataEffect
    <2> HIDE DEF f
    <2>6. Apart(e1, f) /\ f.batterySources = bs
      BY <1>9, <2>5, NamesAreApart DEF Apart, PowerFields
    <2>7. Names(f) = {}
      BY <1>1, <1>10, <2>6 DEF Names
    <2>8. DOMAIN NoData = {}
      BY DEF NoData
    <2>9. /\ DOMAIN Over(c, NoData) = DOMAIN c \union DOMAIN NoData
          /\ \A x \in DOMAIN c : Over(c, NoData)[x] = c[x]
          /\ \A x \in DOMAIN NoData : x \notin DOMAIN c => Over(c, NoData)[x] = NoData[x]
      BY ZenonT(60), OverSays
    <2>10. DOMAIN f.data["Battery"] = {"hasBattery", "hasCumulative"} /\ "Battery" \in DOMAIN f.data
      BY <2>1, <2>5, <2>8, <2>9
    <2>11. f.data["Battery"].hasBattery = (Names(f) # {})
      <3>1. "hasBattery" \in DOMAIN c
        BY <2>1
      <3>2. f.data["Battery"]["hasBattery"] = c["hasBattery"]
        BY <2>5, <2>9, <3>1
      <3> QED
        BY <2>2, <2>7, <3>2
    <2>12. SaysNone(f)
      BY <2>7, <2>10, <2>11 DEF SaysNone
    <2>13. \A s \in BatteryNames : s \in DOMAIN f.data <=> s \in Names(f)
      BY <1>9, <2>5, <2>7, NamesAreApart
    <2>14. Numbered(f, h)
      BY <1>1, <1>10, <2>6, <2>13 DEF Numbered
    <2>15. Apart(e, f)
      BY <1>9, <2>6, ApartTransitive
    <2> QED
      BY <1>8, <1>10, <2>12, <2>14, <2>15 DEF Summed, c, f
  <1>11. CASE found # {}
    <2> DEFINE e2 == SetBatteries(e1, h, found)
               f == SetSources(e2)
    <2>1. /\ Apart(e1, e2) /\ e2.batterySources = bs /\ SaysOverall(e2, h)
          /\ \A s : s \in DOMAIN e2.data <=> s \in DOMAIN e.data \/ s = "Battery" \/ \E u \in found : s = bs[u]
          /\ \A u \in found : e2.data[bs[u]].percent = h[u].percent /\ e2.data[bs[u]].charge = h[u].charge
      <3> HIDE DEF found
      <3> QED
        BY <1>1, <1>6, <1>7, <1>9, SetBatteriesEffect
    <2> HIDE DEF e2
    <2>2. DOMAIN e2 = PowerFields
      BY <1>9, <2>1 DEF Apart
    <2>3. /\ Apart(e2, f) /\ f.batterySources = bs
          /\ ListsSources(f) /\ SaysOverall(f, h)
          /\ \A s : s \in DOMAIN f.data <=> s \in DOMAIN e2.data \/ s = "Battery"
          /\ \A s \in DOMAIN e2.data : s # "Battery" => f.data[s] = e2.data[s]
      BY <2>1, <2>2, SetSourcesEffect
    <2> HIDE DEF f
    <2>4. Apart(e, f)
      BY <1>9, <2>1, <2>3, ApartTransitive
    <2>5. \A s : s \in Names(f) <=> \E u \in found : s = bs[u]
      BY <1>1, <2>3 DEF Names
    <2>6. \A s \in BatteryNames : s \in DOMAIN f.data <=> s \in Names(f)
      BY <2>1, <2>3, <2>5, NamesAreApart
    <2>7. \A u \in found : f.data[bs[u]].percent = h[u].percent /\ f.data[bs[u]].charge = h[u].charge
      BY <1>6, <2>1, <2>3, NamesAreApart
    <2>8. Numbered(f, h)
      BY <1>1, <1>6, <1>7, <2>3, <2>6, <2>7 DEF Numbered
    <2> QED
      BY <1>8, <1>11, <2>3, <2>4, <2>8 DEF Summed, e2, f
  <1> QED
    BY <1>10, <1>11


\* What the sources of the power management engine are right under
PowerNeeds == {"sourceKept", "askedFirst", "serviceFirst"}

\* The steps that are about the batteries, and the others of this engine
BatterySteps == \E u \in Udis : \/ Plug(u) \/ Unplug(u) \/ PercentChange(u)
                                \/ \E charge \in ChargeStates : ChargeChange(u, charge)

LEMMA PowerSteps ==
  ASSUME PowerNeeds \subseteq Assumed, plugin = "powermanagement", Frame, Next
  PROVE  \/ BatterySteps
         \/ \E source \in OfService \union {"Battery"} : Connect(source)
         \/ ServiceNext
  <1>1. Requested \subseteq OfService \union {"Battery"} /\ shown \subseteq OfService \union {"Battery"}
    BY EnginesAssumption DEF Frame, Requestable, Requested, AllPlugins
  <1>2. ApplicationNext => \E source \in OfService \union {"Battery"} : Connect(source)
    BY <1>1 DEF ApplicationNext, Leave, Poll, PowerNeeds
  <1>3. ~EngineNext
    BY DEF EngineNext, StartupDevice, FreeSpaceKnown, FilesChange, StartupEnds, DirWatch, BlockingAppsKnown
  <1>4. ASSUME NEW u \in Udis
        PROVE  /\ ~AnnounceAgain(u) /\ ~RequestSetup(u)
               /\ \A error : ~SetupDone(u, error)
               /\ \A size : ~SizeChange(u, size)
    BY DEF AnnounceAgain, RequestSetup, SetupDone, SizeChange
  <1> QED
    BY <1>2, <1>3, <1>4 DEF Next, HardwareNext, BatterySteps

\* The service and the jobs leave the batteries alone.
Beside(e, f) ==
    /\ DOMAIN f = DOMAIN e /\ f.batterySources = e.batterySources
    /\ \A s : s \notin OfService => /\ s \in DOMAIN f.data <=> s \in DOMAIN e.data
                                    /\ s \in DOMAIN e.data => f.data[s] = e.data[s]

LEMMA BesideFits ==
  ASSUME NEW e, NEW f, NEW h, Beside(e, f)
  PROVE  /\ "Battery" \in DOMAIN f.data <=> "Battery" \in DOMAIN e.data
         /\ Numbered(e, h) => Numbered(f, h)
         /\ Summed(e, h) => Summed(f, h)
  <1>1. Names(f) = Names(e)
    BY DEF Beside, Names
  <1>2. \A s \in BatteryNames \union {"Battery"} : /\ s \in DOMAIN f.data <=> s \in DOMAIN e.data
                                                   /\ s \in DOMAIN e.data => f.data[s] = e.data[s]
    BY NamesAreApart DEF Beside
  <1>3. f.batterySources = e.batterySources
    BY DEF Beside
  <1>4. ASSUME Numbered(e, h) PROVE Numbered(f, h)
    <2>1. \A u \in DOMAIN e.batterySources : f.data[e.batterySources[u]] = e.data[e.batterySources[u]]
      BY <1>2, <1>4 DEF Numbered, Names
    <2> QED
      BY <1>1, <1>2, <1>3, <1>4, <2>1 DEF Numbered
  <1>5. SaysOverall(e, h) => SaysOverall(f, h)
    BY <1>2 DEF SaysOverall
  <1>6. (ListsSources(e) => ListsSources(f)) /\ (SaysNone(e) => SaysNone(f))
    BY <1>1, <1>2 DEF ListsSources, SaysNone
  <1> QED
    BY <1>2, <1>4, <1>5, <1>6 DEF Summed

\* When "Battery" was asked for, the batteries have their sources, and not before.
BatteryInv ==
    plugin = "powermanagement" =>
        /\ DOMAIN engine = PowerFields
        /\ "Battery" \in shown <=> "Battery" \in DOMAIN engine.data
        /\ "Battery" \in DOMAIN engine.data => Numbered(engine, hardware) /\ Summed(engine, hardware)
        /\ "Battery" \notin DOMAIN engine.data => \A s \in BatteryNames : s \notin DOMAIN engine.data

LEMMA BatteryInit == Init => BatteryInv
  <1> SUFFICES ASSUME Init, plugin = "powermanagement" PROVE BatteryInv
    BY DEF BatteryInv
  <1>1. PICK on : engine = NewPowermanagementEngine(on)
    BY DEF Init
  <1>2. DOMAIN engine = PowerFields /\ DOMAIN engine.data = {} /\ shown = {}
    BY <1>1 DEF NewPowermanagementEngine, PowerFields, Init
  <1> QED
    BY <1>2 DEF BatteryInv

---------------------------------------------------------------------------
(* The power management engine: what the service tells it *)

ServiceFields == {"inhibitors", "held", "profile", "calls", "queue", "answered"}

Everyone == Applications \union {Shell}

Messages == [kind : {"listed"}, who : SUBSET Everyone, answer : {TRUE}]
            \union [kind : {"changed"}, added : SUBSET Everyone, removed : SUBSET Everyone, answer : {FALSE}]
            \union [kind : {"profile"}, profile : Profiles, answer : BOOLEAN]

\* A message tells of an inhibitor, and that it is one.
TellsOf(m, who) == m.kind = "listed" \/ (m.kind = "changed" /\ who \in m.added \union m.removed)

Affirms(m, who) == (m.kind = "listed" /\ who \in m.who) \/ (m.kind = "changed" /\ who \in m.added)

\* Of the messages under way, the last that tells of an inhibitor is right.
LastIsRight(q, inhibitors) ==
    \A who : \A i \in 1 .. Len(q) :
        TellsOf(q[i], who) /\ (\A j \in i + 1 .. Len(q) : ~TellsOf(q[j], who))
        => (Affirms(q[i], who) <=> who \in inhibitors)

SaysNothingOf(q, who) == \A i \in 1 .. Len(q) : ~TellsOf(q[i], who)

LastProfileIsRight(q, profile) ==
    \A i \in 1 .. Len(q) : q[i].kind = "profile" /\ (\A j \in i + 1 .. Len(q) : q[j].kind # "profile")
                           => q[i].profile = profile

SaysNoProfile(q) == \A i \in 1 .. Len(q) : q[i].kind # "profile"

\* What the source "Inhibitions" shows
Known(e) == IF "Inhibitions" \in DOMAIN e.data THEN DOMAIN e.data["Inhibitions"] ELSE {}

\* What the messages under way do not tell of, the engine has, once it had an answer.
Synchronous(e, s) ==
    /\ LastIsRight(s.queue, s.inhibitors)
    /\ "listed" \in s.answered =>
          \A who : SaysNothingOf(s.queue, who) => (who \in s.inhibitors <=> who \in Known(e))
    /\ LastProfileIsRight(s.queue, s.profile)
    /\ "profile" \in s.answered =>
          /\ "Power Profiles" \in DOMAIN e.data
          /\ SaysNoProfile(s.queue) => e.data["Power Profiles"].current = s.profile

TypedService(s) ==
    /\ DOMAIN s = ServiceFields
    /\ s.inhibitors \subseteq Everyone /\ s.profile \in Profiles
    /\ s.queue \in Seq(Messages) /\ s.calls \in Seq(OfService)

\* The service holds of each kind what the engine has the cookie of, and nothing else.
CookiesHeld(e, s) ==
    /\ DOMAIN s.held = Suppressions /\ DOMAIN e.cookie = Suppressions
    /\ \A what \in Suppressions :
          \A cookie : cookie \in s.held[what] <=> cookie = e.cookie[what] /\ cookie # NoCookie

ServiceInv ==
    plugin = "powermanagement" =>
        /\ DOMAIN engine = PowerFields /\ engine.listening
        /\ TypedService(service) /\ CookiesHeld(engine, service) /\ Synchronous(engine, service)

LEMMA AppendedMessage ==
  ASSUME NEW q \in Seq(Messages), NEW m \in Messages
  PROVE  /\ Append(q, m) \in Seq(Messages)
         /\ \A old, new :
               LastIsRight(q, old) /\ (\A who : IF TellsOf(m, who) THEN Affirms(m, who) <=> who \in new
                                                ELSE who \in old <=> who \in new)
               => LastIsRight(Append(q, m), new)
         /\ \A who : SaysNothingOf(Append(q, m), who) <=> SaysNothingOf(q, who) /\ ~TellsOf(m, who)
         /\ \A old, new :
               LastProfileIsRight(q, old) /\ (IF m.kind = "profile" THEN m.profile = new ELSE old = new)
               => LastProfileIsRight(Append(q, m), new)
         /\ SaysNoProfile(Append(q, m)) <=> SaysNoProfile(q) /\ m.kind # "profile"
  <1> DEFINE p == Append(q, m)
             n == Len(q)
  <1>1. /\ p \in Seq(Messages) /\ n \in Nat /\ Len(p) = n + 1
        /\ \A i \in 1 .. n : p[i] = q[i]
        /\ p[n + 1] = m
    OBVIOUS
  <1> HIDE DEF p, n
  <1>2. ASSUME NEW old, NEW new, LastIsRight(q, old),
               \A who : IF TellsOf(m, who) THEN Affirms(m, who) <=> who \in new ELSE who \in old <=> who \in new
        PROVE  LastIsRight(p, new)
    <2> SUFFICES ASSUME NEW who, NEW i \in 1 .. Len(p), TellsOf(p[i], who),
                        \A j \in i + 1 .. Len(p) : ~TellsOf(p[j], who)
                 PROVE  Affirms(p[i], who) <=> who \in new
      BY DEF LastIsRight
    <2>1. CASE i = n + 1
      BY <1>1, <1>2, <2>1
    <2>2. CASE i # n + 1
      <3>1. i \in 1 .. n /\ p[i] = q[i] /\ n + 1 \in i + 1 .. Len(p)
        BY <1>1, <2>2
      <3>2. ~TellsOf(m, who)
        BY <1>1, <3>1
      <3>3. \A j \in i + 1 .. n : j \in i + 1 .. Len(p) /\ p[j] = q[j]
        BY <1>1, <3>1
      <3>4. \A j \in i + 1 .. n : ~TellsOf(q[j], who)
        BY <3>3
      <3>5. Affirms(q[i], who) <=> who \in old
        BY <1>2, <3>1, <3>4 DEF LastIsRight, n
      <3> QED
        BY <1>2, <3>1, <3>2, <3>5
    <2> QED
      BY <2>1, <2>2
  <1>3. ASSUME NEW who PROVE SaysNothingOf(p, who) <=> SaysNothingOf(q, who) /\ ~TellsOf(m, who)
    <2>1. \A i : i \in 1 .. Len(p) <=> i \in 1 .. n \/ i = n + 1
      BY <1>1
    <2> QED
      BY <1>1, <2>1 DEF SaysNothingOf, n
  <1>4. ASSUME NEW old, NEW new, LastProfileIsRight(q, old),
               IF m.kind = "profile" THEN m.profile = new ELSE old = new
        PROVE  LastProfileIsRight(p, new)
    <2> SUFFICES ASSUME NEW i \in 1 .. Len(p), p[i].kind = "profile",
                        \A j \in i + 1 .. Len(p) : p[j].kind # "profile"
                 PROVE  p[i].profile = new
      BY DEF LastProfileIsRight
    <2>1. CASE i = n + 1
      BY <1>1, <1>4, <2>1
    <2>2. CASE i # n + 1
      <3>1. i \in 1 .. n /\ p[i] = q[i] /\ n + 1 \in i + 1 .. Len(p)
        BY <1>1, <2>2
      <3>2. m.kind # "profile"
        BY <1>1, <3>1
      <3>3. \A j \in i + 1 .. n : j \in i + 1 .. Len(p) /\ p[j] = q[j]
        BY <1>1, <3>1
      <3>4. \A j \in i + 1 .. n : q[j].kind # "profile"
        BY <3>3
      <3>5. q[i].profile = old
        BY <1>4, <3>1, <3>4 DEF LastProfileIsRight, n
      <3> QED
        BY <1>4, <3>1, <3>2, <3>5
    <2> QED
      BY <2>1, <2>2
  <1>5. SaysNoProfile(p) <=> SaysNoProfile(q) /\ m.kind # "profile"
    <2>1. \A i : i \in 1 .. Len(p) <=> i \in 1 .. n \/ i = n + 1
      BY <1>1
    <2> QED
      BY <1>1, <2>1 DEF SaysNoProfile, n
  <1> QED
    BY <1>1, <1>2, <1>3, <1>4, <1>5 DEF p

LEMMA FirstMessage ==
  ASSUME NEW q \in Seq(Messages), q # <<>>
  PROVE  /\ Head(q) \in Messages /\ Tail(q) \in Seq(Messages)
         /\ \A inhibitors : LastIsRight(q, inhibitors) =>
               /\ LastIsRight(Tail(q), inhibitors)
               /\ \A who : SaysNothingOf(Tail(q), who) /\ TellsOf(Head(q), who)
                           => (Affirms(Head(q), who) <=> who \in inhibitors)
         /\ \A who : SaysNothingOf(Tail(q), who) /\ ~TellsOf(Head(q), who) => SaysNothingOf(q, who)
         /\ \A profile : LastProfileIsRight(q, profile) =>
               /\ LastProfileIsRight(Tail(q), profile)
               /\ SaysNoProfile(Tail(q)) /\ Head(q).kind = "profile" => Head(q).profile = profile
         /\ SaysNoProfile(Tail(q)) /\ Head(q).kind # "profile" => SaysNoProfile(q)
  <1> DEFINE t == Tail(q)
             n == Len(t)
  <1>1. /\ Head(q) \in Messages /\ t \in Seq(Messages) /\ n \in Nat /\ Len(q) = n + 1
        /\ \A i \in 1 .. n : t[i] = q[i + 1]
        /\ q[1] = Head(q)
    OBVIOUS
  <1> HIDE DEF t, n
  <1>2. \A i \in 2 .. Len(q) : i - 1 \in 1 .. n /\ q[i] = t[i - 1]
    BY <1>1
  <1>3. ASSUME NEW inhibitors, LastIsRight(q, inhibitors)
        PROVE  /\ LastIsRight(t, inhibitors)
               /\ \A who : SaysNothingOf(t, who) /\ TellsOf(Head(q), who)
                           => (Affirms(Head(q), who) <=> who \in inhibitors)
    <2>1. ASSUME NEW who, NEW i \in 1 .. Len(t), TellsOf(t[i], who),
                 \A j \in i + 1 .. Len(t) : ~TellsOf(t[j], who)
          PROVE  Affirms(t[i], who) <=> who \in inhibitors
      <3>1. i + 1 \in 1 .. Len(q) /\ q[i + 1] = t[i]
        BY <1>1, <2>1 DEF n
      <3>2. ASSUME NEW j \in (i + 1) + 1 .. Len(q) PROVE ~TellsOf(q[j], who)
        <4>1. j - 1 \in i + 1 .. Len(t) /\ q[j] = t[j - 1]
          BY <1>1, <1>2, <2>1 DEF n
        <4> QED
          BY <2>1, <4>1
      <3> QED
        BY <1>3, <2>1, <3>1, <3>2 DEF LastIsRight
    <2>2. ASSUME NEW who, SaysNothingOf(t, who), TellsOf(Head(q), who)
          PROVE  Affirms(Head(q), who) <=> who \in inhibitors
      <3>1. 1 \in 1 .. Len(q) /\ \A j \in 1 + 1 .. Len(q) : ~TellsOf(q[j], who)
        BY <1>1, <1>2, <2>2 DEF SaysNothingOf, n
      <3> QED
        BY <1>1, <1>3, <2>2, <3>1 DEF LastIsRight
    <2> QED
      BY <2>1, <2>2 DEF LastIsRight
  <1>4. ASSUME NEW who, SaysNothingOf(t, who), ~TellsOf(Head(q), who) PROVE SaysNothingOf(q, who)
    <2>1. \A i \in 1 .. Len(q) : i = 1 \/ i \in 2 .. Len(q)
      BY <1>1
    <2> QED
      BY <1>1, <1>2, <1>4, <2>1 DEF SaysNothingOf, n
  <1>5. ASSUME NEW profile, LastProfileIsRight(q, profile)
        PROVE  /\ LastProfileIsRight(t, profile)
               /\ SaysNoProfile(t) /\ Head(q).kind = "profile" => Head(q).profile = profile
    <2>1. ASSUME NEW i \in 1 .. Len(t), t[i].kind = "profile", \A j \in i + 1 .. Len(t) : t[j].kind # "profile"
          PROVE  t[i].profile = profile
      <3>1. i + 1 \in 1 .. Len(q) /\ q[i + 1] = t[i]
        BY <1>1, <2>1 DEF n
      <3>2. ASSUME NEW j \in (i + 1) + 1 .. Len(q) PROVE q[j].kind # "profile"
        <4>1. j - 1 \in i + 1 .. Len(t) /\ q[j] = t[j - 1]
          BY <1>1, <1>2, <2>1 DEF n
        <4> QED
          BY <2>1, <4>1
      <3> QED
        BY <1>5, <2>1, <3>1, <3>2 DEF LastProfileIsRight
    <2>2. ASSUME SaysNoProfile(t), Head(q).kind = "profile" PROVE Head(q).profile = profile
      <3>1. 1 \in 1 .. Len(q) /\ \A j \in 1 + 1 .. Len(q) : q[j].kind # "profile"
        BY <1>1, <1>2, <2>2 DEF SaysNoProfile, n
      <3> QED
        BY <1>1, <1>5, <2>2, <3>1 DEF LastProfileIsRight
    <2> QED
      BY <2>1, <2>2 DEF LastProfileIsRight
  <1>6. ASSUME SaysNoProfile(t), Head(q).kind # "profile" PROVE SaysNoProfile(q)
    <2>1. \A i \in 1 .. Len(q) : i = 1 \/ i \in 2 .. Len(q)
      BY <1>1
    <2> QED
      BY <1>1, <1>2, <1>6, <2>1 DEF SaysNoProfile, n
  <1> QED
    BY <1>1, <1>3, <1>4, <1>5, <1>6 DEF t

LEMMA SameSynchronous ==
  ASSUME NEW e, NEW f, NEW s, NEW t, Synchronous(e, s),
         t.queue = s.queue, t.inhibitors = s.inhibitors, t.profile = s.profile, t.answered = s.answered,
         \A x \in OfService : /\ x \in DOMAIN f.data <=> x \in DOMAIN e.data
                              /\ x \in DOMAIN e.data => f.data[x] = e.data[x]
  PROVE  Synchronous(f, t)
  <1>1. Known(f) = Known(e)
    BY DEF Known, OfService
  <1> QED
    BY <1>1 DEF Synchronous, OfService

LEMMA TellsFits ==
  ASSUME NEW e, NEW s, NEW added \in SUBSET Everyone, NEW removed \in SUBSET Everyone,
         TypedService(s), Synchronous(e, s)
  PROVE  LET t == Tells(s, added, removed)
         IN  TypedService(t) /\ Synchronous(e, t) /\ t.held = s.held
  <1> DEFINE m == [kind |-> "changed", added |-> added, removed |-> removed, answer |-> FALSE]
             t == Tells(s, added, removed)
             q == Append(s.queue, m)
  <1>1. m \in Messages
    BY DEF Messages
  <1>2. m.kind = "changed" /\ m.added = added /\ m.removed = removed
    OBVIOUS
  <1>3. /\ DOMAIN t = ServiceFields /\ t.held = s.held /\ t.queue = q /\ t.answered = s.answered
        /\ t.profile = s.profile /\ t.calls = s.calls
        /\ t.inhibitors = (s.inhibitors \ removed) \union added
    BY DEF Tells, TypedService, ServiceFields
  <1> HIDE DEF m, t
  <1>4. s.queue \in Seq(Messages)
    BY DEF TypedService
  <1>5. \A who : IF TellsOf(m, who) THEN Affirms(m, who) <=> who \in t.inhibitors
                 ELSE who \in s.inhibitors <=> who \in t.inhibitors
    BY <1>2, <1>3 DEF TellsOf, Affirms
  <1>6. q \in Seq(Messages) /\ LastIsRight(q, t.inhibitors)
    BY <1>1, <1>4, <1>5, AppendedMessage DEF Synchronous
  <1>7. LastProfileIsRight(q, s.profile) /\ (SaysNoProfile(q) <=> SaysNoProfile(s.queue))
    BY <1>1, <1>2, <1>4, AppendedMessage DEF Synchronous
  <1>8. \A who : SaysNothingOf(q, who) <=> SaysNothingOf(s.queue, who) /\ ~TellsOf(m, who)
    BY <1>1, <1>4, AppendedMessage
  <1> HIDE DEF q
  <1>9. TypedService(t)
    BY <1>3, <1>6 DEF TypedService
  <1>10. Synchronous(e, t)
    BY <1>3, <1>5, <1>6, <1>7, <1>8 DEF Synchronous
  <1> QED
    BY <1>3, <1>9, <1>10 DEF t

\* inhibitionsChanged
LEMMA InhibitionsChangedEffect ==
  ASSUME NEW e, NEW added, NEW removed, DOMAIN e = PowerFields
  PROVE  LET f == InhibitionsChanged(e, added, removed)
         IN  /\ Beside(e, f) /\ f.listening = e.listening /\ f.cookie = e.cookie
             /\ \A s \in DOMAIN e.data : s # "Inhibitions" => s \in DOMAIN f.data /\ f.data[s] = e.data[s]
             /\ \A who : who \in Known(f) <=> (who \in Known(e) /\ who \notin removed) \/ who \in added
  <1> DEFINE less == RemoveData(e, "Inhibitions", removed)
             c == [who \in added |-> TRUE]
             f == SetData(less, "Inhibitions", c)
  <1>1. /\ DOMAIN less = PowerFields /\ less.listening = e.listening /\ less.cookie = e.cookie
        /\ less.batterySources = e.batterySources
        /\ DOMAIN less.data = DOMAIN e.data
        /\ \A s \in DOMAIN e.data : s # "Inhibitions" => less.data[s] = e.data[s]
        /\ "Inhibitions" \in DOMAIN e.data =>
              DOMAIN less.data["Inhibitions"] = DOMAIN e.data["Inhibitions"] \ removed
    BY DEF RemoveData, PowerFields
  <1>2. DOMAIN c = added
    OBVIOUS
  <1>3. \A who : who \in Known(less) <=> who \in Known(e) /\ who \notin removed
    BY <1>1 DEF Known
  <1> HIDE DEF less, c
  <1>4. Beside(e, less)
    BY <1>1 DEF Beside, OfService
  <1>5. CASE added = {}
    BY <1>1, <1>3, <1>4, <1>5 DEF InhibitionsChanged, less
  <1>6. CASE added # {}
    <2>1. /\ DOMAIN f = DOMAIN less
          /\ \A x \in DOMAIN less : x # "data" => f[x] = less[x]
          /\ DOMAIN f.data = DOMAIN less.data \union {"Inhibitions"}
          /\ \A s \in DOMAIN less.data : s # "Inhibitions" => f.data[s] = less.data[s]
          /\ f.data["Inhibitions"] = Over(c, DataOf(less, "Inhibitions"))
      <3>1. "data" \in DOMAIN less
        BY <1>1 DEF PowerFields
      <3> QED
        BY <3>1, SetDataEffect
    <2> HIDE DEF f
    <2>2. /\ f.listening = e.listening /\ f.cookie = e.cookie /\ f.batterySources = e.batterySources
      BY <1>1, <2>1 DEF PowerFields
    <2>3. DOMAIN f.data["Inhibitions"] = DOMAIN c \union DOMAIN DataOf(less, "Inhibitions")
      <3> DEFINE g == DataOf(less, "Inhibitions")
      <3>1. /\ DOMAIN Over(c, g) = DOMAIN c \union DOMAIN g
            /\ \A k \in DOMAIN c : Over(c, g)[k] = c[k]
            /\ \A k \in DOMAIN g : k \notin DOMAIN c => Over(c, g)[k] = g[k]
        BY OverSays
      <3> QED
        BY <2>1, <3>1
    <2>4. DOMAIN DataOf(less, "Inhibitions") = Known(less)
      BY DEF DataOf, Known, NoData
    <2>5. \A who : who \in Known(f) <=> (who \in Known(e) /\ who \notin removed) \/ who \in added
      BY <1>2, <1>3, <2>1, <2>3, <2>4 DEF Known
    <2>6. Beside(e, f)
      BY <1>1, <2>1, <2>2 DEF Beside, OfService
    <2>7. \A s \in DOMAIN e.data : s # "Inhibitions" => s \in DOMAIN f.data /\ f.data[s] = e.data[s]
      BY <1>1, <2>1
    <2>8. f = InhibitionsChanged(e, added, removed)
      BY <1>6 DEF InhibitionsChanged, less, c, f
    <2> QED
      BY <2>2, <2>5, <2>6, <2>7, <2>8
  <1> QED
    BY <1>5, <1>6

LEMMA InhibitionsListedEffect ==
  ASSUME NEW e, NEW who, DOMAIN e = PowerFields
  PROVE  LET f == InhibitionsListed(e, who)
         IN  /\ Beside(e, f) /\ f.listening = e.listening /\ f.cookie = e.cookie
             /\ \A s \in DOMAIN e.data : s # "Inhibitions" => s \in DOMAIN f.data /\ f.data[s] = e.data[s]
             /\ \A x : x \in Known(f) <=> x \in who
  <1> DEFINE none == RemoveAllData(e, "Inhibitions")
             f == InhibitionsChanged(none, who, {})
  <1>1. /\ DOMAIN none = PowerFields /\ none.listening = e.listening /\ none.cookie = e.cookie
        /\ none.batterySources = e.batterySources
        /\ DOMAIN none.data = DOMAIN e.data
        /\ \A s \in DOMAIN e.data : s # "Inhibitions" => none.data[s] = e.data[s]
        /\ "Inhibitions" \in DOMAIN e.data => none.data["Inhibitions"] = NoData
    BY DEF RemoveAllData, PowerFields
  <1>2. Known(none) = {}
    BY <1>1 DEF Known, NoData
  <1> HIDE DEF none
  <1>3. /\ Beside(none, f) /\ f.listening = none.listening /\ f.cookie = none.cookie
        /\ \A s \in DOMAIN none.data : s # "Inhibitions" => s \in DOMAIN f.data /\ f.data[s] = none.data[s]
        /\ \A x : x \in Known(f) <=> (x \in Known(none) /\ x \notin {}) \/ x \in who
    BY <1>1, InhibitionsChangedEffect
  <1>4. f = InhibitionsListed(e, who)
    BY DEF InhibitionsListed, none
  <1> HIDE DEF f
  <1>5. Beside(e, f)
    BY <1>1, <1>3 DEF Beside, OfService
  <1> QED
    BY <1>1, <1>2, <1>3, <1>4, <1>5

\* updatePowerProfileCurrentProfile, and the request of the source
LEMMA SetProfilesEffect ==
  ASSUME NEW e, NEW c, DOMAIN e = PowerFields
  PROVE  LET f == SetData(e, "Power Profiles", c)
         IN  /\ Beside(e, f) /\ f.listening = e.listening /\ f.cookie = e.cookie
             /\ Known(f) = Known(e)
             /\ "Power Profiles" \in DOMAIN f.data
             /\ f.data["Power Profiles"] = Over(c, DataOf(e, "Power Profiles"))
  <1> DEFINE f == SetData(e, "Power Profiles", c)
             g == DataOf(e, "Power Profiles")
  <1>1. "data" \in DOMAIN e
    BY DEF PowerFields
  <1>2. /\ DOMAIN f = DOMAIN e
        /\ \A x \in DOMAIN e : x # "data" => f[x] = e[x]
        /\ DOMAIN f.data = DOMAIN e.data \union {"Power Profiles"}
        /\ \A s \in DOMAIN e.data : s # "Power Profiles" => f.data[s] = e.data[s]
        /\ f.data["Power Profiles"] = Over(c, g)
    BY <1>1, SetDataEffect
  <1> HIDE DEF f
  <1>4. /\ f.listening = e.listening /\ f.cookie = e.cookie /\ f.batterySources = e.batterySources
    BY <1>2 DEF PowerFields
  <1>5. Beside(e, f)
    BY <1>2, <1>4 DEF Beside, OfService
  <1>6. Known(f) = Known(e)
    BY <1>2 DEF Known
  <1> QED
    BY <1>2, <1>4, <1>5, <1>6 DEF f

LEMMA ServiceInit == ASSUME PowerNeeds \subseteq Assumed PROVE Init => ServiceInv
  <1> SUFFICES ASSUME Init, plugin = "powermanagement" PROVE ServiceInv
    BY DEF ServiceInv
  <1>1. PICK on \in {"serviceFirst" \in Assumed, TRUE} : engine = NewPowermanagementEngine(on)
    BY DEF Init
  <1>2. /\ DOMAIN engine = PowerFields /\ DOMAIN engine.data = {} /\ engine.listening = on
        /\ engine.cookie = [what \in Suppressions |-> NoCookie]
    BY <1>1 DEF NewPowermanagementEngine, PowerFields
  <1>3. engine.listening
    BY <1>1, <1>2 DEF PowerNeeds
  <1>4. /\ DOMAIN service = ServiceFields
        /\ service.inhibitors = {} /\ service.profile = 1 /\ service.calls = <<>> /\ service.queue = <<>>
        /\ service.answered = {} /\ service.held = [what \in Suppressions |-> {}]
    BY DEF Init, ServiceFields
  <1>5. TypedService(service)
    BY <1>4 DEF TypedService, Profiles
  <1>6. CookiesHeld(engine, service)
    BY <1>2, <1>4 DEF CookiesHeld
  <1>7. Synchronous(engine, service)
    BY <1>4 DEF Synchronous, LastIsRight, LastProfileIsRight
  <1> QED
    BY <1>2, <1>3, <1>5, <1>6, <1>7 DEF ServiceInv

\* A message of the service that arrives
LEMMA MessageFits ==
  ASSUME plugin = "powermanagement", ServiceInv, MessageArrives
  PROVE  /\ Beside(engine, engine')
         /\ engine'.listening = engine.listening
         /\ TypedService(service)' /\ CookiesHeld(engine, service)' /\ Synchronous(engine, service)'
  <1> DEFINE q == service.queue
             m == Head(q)
  <1>1. /\ DOMAIN engine = PowerFields /\ engine.listening
        /\ TypedService(service) /\ CookiesHeld(engine, service) /\ Synchronous(engine, service)
    BY DEF ServiceInv
  <1>11. DOMAIN engine = PowerFields /\ CookiesHeld(engine, service)
    BY <1>1
  <1>2. q \in Seq(Messages) /\ q # <<>> /\ LastIsRight(q, service.inhibitors) /\ LastProfileIsRight(q, service.profile)
    BY <1>1 DEF MessageArrives, TypedService, Synchronous
  <1>3. /\ m \in Messages /\ Tail(q) \in Seq(Messages)
        /\ LastIsRight(Tail(q), service.inhibitors)
        /\ \A who : SaysNothingOf(Tail(q), who) /\ TellsOf(m, who)
                    => (Affirms(m, who) <=> who \in service.inhibitors)
        /\ \A who : SaysNothingOf(Tail(q), who) /\ ~TellsOf(m, who) => SaysNothingOf(q, who)
        /\ LastProfileIsRight(Tail(q), service.profile)
        /\ SaysNoProfile(Tail(q)) /\ m.kind = "profile" => m.profile = service.profile
        /\ SaysNoProfile(Tail(q)) /\ m.kind # "profile" => SaysNoProfile(q)
    BY <1>2, FirstMessage
  <1>4. /\ DOMAIN service' = ServiceFields
        /\ service'.queue = Tail(q)
        /\ service'.answered = IF m.answer THEN service.answered \union {m.kind} ELSE service.answered
        /\ service'.inhibitors = service.inhibitors /\ service'.profile = service.profile
        /\ service'.calls = service.calls /\ service'.held = service.held
    BY <1>1 DEF MessageArrives, TypedService, ServiceFields
  <1>10. engine' = CASE ~m.answer /\ ~engine.listening -> engine
                     [] m.kind = "listed" -> InhibitionsListed(engine, m.who)
                     [] m.kind = "changed" /\ engine.listening -> InhibitionsChanged(engine, m.added, m.removed)
                     [] m.kind = "profile" /\ (m.answer \/ engine.listening) -> UpdateProfile(engine, m.profile)
    BY DEF MessageArrives
  <1> HIDE DEF m
  <1>5. TypedService(service')
    BY <1>1, <1>3, <1>4 DEF TypedService
  <1>6. CASE m.kind = "listed"
    <2>1. m.answer
      BY <1>3, <1>6 DEF Messages
    <2>2. engine' = InhibitionsListed(engine, m.who)
      BY <1>1, <1>10, <1>6, <2>1
    <2>3. /\ Beside(engine, engine') /\ engine'.listening = engine.listening /\ engine'.cookie = engine.cookie
          /\ \A s \in DOMAIN engine.data : s # "Inhibitions" => s \in DOMAIN engine'.data /\ engine'.data[s] = engine.data[s]
          /\ \A x : x \in Known(engine') <=> x \in m.who
      BY <1>11, <2>2, InhibitionsListedEffect
    <2>4. \A who : TellsOf(m, who) /\ (Affirms(m, who) <=> who \in Known(engine'))
      BY <1>6, <2>3 DEF TellsOf, Affirms
    <2>5. "profile" \in service'.answered <=> "profile" \in service.answered
      BY <1>4, <1>6, <2>1
    <2>6. Synchronous(engine', service')
      BY <1>1, <1>3, <1>4, <1>6, <2>3, <2>4, <2>5 DEF Synchronous
    <2>7. CookiesHeld(engine', service')
      BY <1>11, <1>4, <2>3 DEF CookiesHeld
    <2> QED
      BY <1>5, <2>3, <2>6, <2>7
  <1>7. CASE m.kind = "changed"
    <2>1. ~m.answer
      BY <1>3, <1>7 DEF Messages
    <2>2. engine' = InhibitionsChanged(engine, m.added, m.removed)
      BY <1>1, <1>10, <1>7, <2>1
    <2>3. /\ Beside(engine, engine') /\ engine'.listening = engine.listening /\ engine'.cookie = engine.cookie
          /\ \A s \in DOMAIN engine.data : s # "Inhibitions" => s \in DOMAIN engine'.data /\ engine'.data[s] = engine.data[s]
          /\ \A who : who \in Known(engine') <=> (who \in Known(engine) /\ who \notin m.removed) \/ who \in m.added
      <3> DEFINE a == m.added
                 r == m.removed
      <3> HIDE DEF a, r
      <3>1. engine' = InhibitionsChanged(engine, a, r)
        BY <2>2 DEF a, r
      <3>2. /\ Beside(engine, engine') /\ engine'.listening = engine.listening /\ engine'.cookie = engine.cookie
            /\ \A s \in DOMAIN engine.data : s # "Inhibitions" => s \in DOMAIN engine'.data /\ engine'.data[s] = engine.data[s]
            /\ \A who : who \in Known(engine') <=> (who \in Known(engine) /\ who \notin r) \/ who \in a
        BY <1>11, <3>1, InhibitionsChangedEffect
      <3> QED
        BY <3>2 DEF a, r
    <2>4. \A who : /\ TellsOf(m, who) => (Affirms(m, who) <=> who \in Known(engine'))
                   /\ ~TellsOf(m, who) => (who \in Known(engine) <=> who \in Known(engine'))
      BY <1>7, <2>3 DEF TellsOf, Affirms
    <2>5. service'.answered = service.answered
      BY <1>4, <2>1
    <2>6. ASSUME "listed" \in service'.answered, NEW who, SaysNothingOf(Tail(q), who)
          PROVE  who \in service'.inhibitors <=> who \in Known(engine')
      <3>1. CASE TellsOf(m, who)
        BY <1>3, <1>4, <2>4, <2>6, <3>1
      <3>2. CASE ~TellsOf(m, who)
        <4>1. SaysNothingOf(service.queue, who)
          BY <1>3, <2>6, <3>2
        <4> QED
          BY <1>1, <1>4, <2>4, <2>5, <2>6, <3>2, <4>1 DEF Synchronous
      <3> QED
        BY <3>1, <3>2
    <2>7. Synchronous(engine', service')
      BY <1>1, <1>3, <1>4, <1>7, <2>3, <2>5, <2>6 DEF Synchronous
    <2>8. CookiesHeld(engine', service')
      BY <1>11, <1>4, <2>3 DEF CookiesHeld
    <2> QED
      BY <1>5, <2>3, <2>7, <2>8
  <1>8. CASE m.kind = "profile"
    <2>1. engine' = UpdateProfile(engine, m.profile)
      BY <1>1, <1>10, <1>8
    <2> DEFINE c == [current |-> m.profile]
    <2>2. "current" \in DOMAIN c /\ c["current"] = m.profile
      OBVIOUS
    <2>3. engine' = SetData(engine, "Power Profiles", c)
      BY <2>1 DEF UpdateProfile
    <2> HIDE DEF c
    <2>4. /\ Beside(engine, engine') /\ engine'.listening = engine.listening /\ engine'.cookie = engine.cookie
          /\ Known(engine') = Known(engine)
          /\ "Power Profiles" \in DOMAIN engine'.data
          /\ engine'.data["Power Profiles"]["current"] = m.profile
      <3> DEFINE g == DataOf(engine, "Power Profiles")
      <3>1. /\ Beside(engine, engine') /\ engine'.listening = engine.listening /\ engine'.cookie = engine.cookie
            /\ Known(engine') = Known(engine)
            /\ "Power Profiles" \in DOMAIN engine'.data
            /\ engine'.data["Power Profiles"] = Over(c, g)
        BY <1>11, <2>3, SetProfilesEffect
      <3>2. /\ DOMAIN Over(c, g) = DOMAIN c \union DOMAIN g
            /\ \A k \in DOMAIN c : Over(c, g)[k] = c[k]
            /\ \A k \in DOMAIN g : k \notin DOMAIN c => Over(c, g)[k] = g[k]
        BY OverSays
      <3> QED
        BY <2>2, <3>1, <3>2
    <2>5. "listed" \in service'.answered <=> "listed" \in service.answered
      BY <1>4, <1>8
    <2>6. \A who : ~TellsOf(m, who)
      BY <1>8 DEF TellsOf
    <2>7. ASSUME "listed" \in service'.answered, NEW who, SaysNothingOf(Tail(q), who)
          PROVE  who \in service'.inhibitors <=> who \in Known(engine')
      <3>1. SaysNothingOf(service.queue, who)
        BY <1>3, <2>6, <2>7
      <3> QED
        BY <1>1, <1>4, <2>4, <2>5, <2>7, <3>1 DEF Synchronous
    <2>8. Synchronous(engine', service')
      BY <1>3, <1>4, <1>8, <2>4, <2>7 DEF Synchronous
    <2>9. CookiesHeld(engine', service')
      BY <1>11, <1>4, <2>4 DEF CookiesHeld
    <2> QED
      BY <1>5, <2>4, <2>8, <2>9
  <1>9. m.kind \in {"listed", "changed", "profile"}
    BY <1>3 DEF Messages
  <1> QED
    BY <1>6, <1>7, <1>8, <1>9

LEMMA BeginSuppressingFits ==
  ASSUME plugin = "powermanagement", ServiceInv, NEW what \in Suppressions, NEW ok \in BOOLEAN,
         BeginSuppressing(what, ok)
  PROVE  /\ Beside(engine, engine')
         /\ engine'.listening = engine.listening
         /\ TypedService(service)' /\ CookiesHeld(engine, service)' /\ Synchronous(engine, service)'
  <1> DEFINE cookie == CHOOSE n \in 1 .. Cardinality(service.held[what]) + 1 : n \notin service.held[what]
             told == IF what = "sleep" /\ service.held[what] = {} THEN Tells(service, {Shell}, {}) ELSE service
  <1>1. /\ DOMAIN engine = PowerFields
        /\ TypedService(service) /\ CookiesHeld(engine, service) /\ Synchronous(engine, service)
    BY DEF ServiceInv
  <1>2. service.held[what] = {}
    BY <1>1 DEF BeginSuppressing, MayBegin, CookiesHeld
  <1>3. cookie = 1
    <2>1. Cardinality(service.held[what]) = 0
      BY <1>2, FS_EmptySet
    <2>2. 1 .. Cardinality(service.held[what]) + 1 = {1}
      BY <2>1
    <2> QED
      BY <1>2, <2>2
  <1>4. NoCookie # 1
    BY CookieAssumption
  <1>5. /\ DOMAIN engine' = PowerFields /\ engine'.data = engine.data
        /\ engine'.batterySources = engine.batterySources /\ engine'.listening = engine.listening
        /\ engine'.cookie = [engine.cookie EXCEPT ![what] = IF ok THEN 1 ELSE NoCookie]
    BY <1>1, <1>3 DEF BeginSuppressing, SuppressionBegun, PowerFields
  <1>6. Beside(engine, engine')
    BY <1>1, <1>5 DEF Beside
  <1>7. CASE ~ok
    <2>1. service' = service
      BY <1>7 DEF BeginSuppressing
    <2>2. CookiesHeld(engine', service)
      BY <1>1, <1>2, <1>5, <1>7 DEF CookiesHeld
    <2>3. Synchronous(engine', service)
      BY <1>1, <1>5, SameSynchronous
    <2> QED
      BY <1>1, <1>5, <1>6, <2>1, <2>2, <2>3
  <1>8. CASE ok
    <2>1. /\ TypedService(told) /\ Synchronous(engine, told) /\ told.held = service.held
      <3>1. {Shell} \in SUBSET Everyone /\ {} \in SUBSET Everyone
        BY DEF Everyone
      <3> DEFINE t == Tells(service, {Shell}, {})
      <3>2. TypedService(t) /\ Synchronous(engine, t) /\ t.held = service.held
        BY <1>1, <3>1, TellsFits
      <3>3. told = t \/ told = service
        OBVIOUS
      <3> HIDE DEF told, t
      <3> QED
        BY <1>1, <3>2, <3>3
    <2>2. service' = [told EXCEPT !.held[what] = @ \union {1}]
      BY <1>3, <1>8 DEF BeginSuppressing
    <2> HIDE DEF told
    <2>3. /\ DOMAIN service' = ServiceFields
          /\ service'.queue = told.queue /\ service'.inhibitors = told.inhibitors
          /\ service'.profile = told.profile /\ service'.answered = told.answered /\ service'.calls = told.calls
          /\ service'.held = [service.held EXCEPT ![what] = @ \union {1}]
      BY <2>1, <2>2 DEF TypedService, ServiceFields
    <2>4. TypedService(service')
      BY <2>1, <2>3 DEF TypedService
    <2>5. CookiesHeld(engine', service')
      BY <1>1, <1>2, <1>4, <1>5, <1>8, <2>3 DEF CookiesHeld
    <2>6. Synchronous(engine', service')
      BY <1>5, <2>1, <2>3, SameSynchronous
    <2> QED
      BY <1>5, <1>6, <2>4, <2>5, <2>6
  <1> QED
    BY <1>7, <1>8

LEMMA StopSuppressingFits ==
  ASSUME plugin = "powermanagement", ServiceInv, NEW what \in Suppressions, NEW ok \in BOOLEAN,
         StopSuppressing(what, ok)
  PROVE  /\ Beside(engine, engine')
         /\ engine'.listening = engine.listening
         /\ TypedService(service)' /\ CookiesHeld(engine, service)' /\ Synchronous(engine, service)'
  <1> DEFINE left == service.held[what] \ {engine.cookie[what]}
             told == IF what = "sleep" /\ left = {} /\ Shell \in service.inhibitors
                     THEN Tells(service, {}, {Shell}) ELSE service
  <1>1. /\ DOMAIN engine = PowerFields
        /\ TypedService(service) /\ CookiesHeld(engine, service) /\ Synchronous(engine, service)
    BY DEF ServiceInv
  <1>2. left = {}
    BY <1>1 DEF CookiesHeld
  <1>3. CASE ~ok
    <2>1. service' = service /\ engine' = engine
      BY <1>3 DEF StopSuppressing, SuppressionStopped
    <2> QED
      BY <1>1, <2>1 DEF Beside
  <1>4. CASE ok
    <2>1. /\ DOMAIN engine' = PowerFields /\ engine'.data = engine.data
          /\ engine'.batterySources = engine.batterySources /\ engine'.listening = engine.listening
          /\ engine'.cookie = [engine.cookie EXCEPT ![what] = NoCookie]
      BY <1>1, <1>4 DEF StopSuppressing, SuppressionStopped, PowerFields
    <2>2. Beside(engine, engine')
      BY <1>1, <2>1 DEF Beside
    <2>3. /\ TypedService(told) /\ Synchronous(engine, told) /\ told.held = service.held
      <3>1. {Shell} \in SUBSET Everyone /\ {} \in SUBSET Everyone
        BY DEF Everyone
      <3> DEFINE t == Tells(service, {}, {Shell})
      <3>2. TypedService(t) /\ Synchronous(engine, t) /\ t.held = service.held
        BY <1>1, <3>1, TellsFits
      <3>3. told = t \/ told = service
        OBVIOUS
      <3> HIDE DEF told, t
      <3> QED
        BY <1>1, <3>2, <3>3
    <2>4. service' = [told EXCEPT !.held[what] = {}]
      BY <1>2, <1>4 DEF StopSuppressing
    <2> HIDE DEF told, left
    <2>5. /\ DOMAIN service' = ServiceFields
          /\ service'.queue = told.queue /\ service'.inhibitors = told.inhibitors
          /\ service'.profile = told.profile /\ service'.answered = told.answered /\ service'.calls = told.calls
          /\ service'.held = [service.held EXCEPT ![what] = {}]
      BY <2>3, <2>4 DEF TypedService, ServiceFields
    <2>6. TypedService(service')
      BY <2>3, <2>5 DEF TypedService
    <2>7. CookiesHeld(engine', service')
      BY <1>1, <2>1, <2>5 DEF CookiesHeld
    <2>8. Synchronous(engine', service')
      BY <2>1, <2>3, <2>5, SameSynchronous
    <2> QED
      BY <2>1, <2>2, <2>6, <2>7, <2>8
  <1> QED
    BY <1>3, <1>4

\* The other steps of the service, which the engine does not see
LEMMA ServiceFits ==
  ASSUME plugin = "powermanagement", ServiceInv,
         \/ \E added, removed \in SUBSET Applications : InhibitionChange(added, removed)
         \/ \E profile \in Profiles : ProfileChange(profile)
         \/ \E ok \in BOOLEAN : ServiceAnswers(ok)
  PROVE  /\ engine' = engine
         /\ TypedService(service)' /\ CookiesHeld(engine, service)' /\ Synchronous(engine, service)'
  <1>1. /\ TypedService(service) /\ CookiesHeld(engine, service) /\ Synchronous(engine, service)
    BY DEF ServiceInv
  <1>2. engine' = engine
    BY DEF InhibitionChange, ProfileChange, ServiceAnswers
  <1>3. ASSUME service'.held = service.held PROVE CookiesHeld(engine', service')
    BY <1>1, <1>2, <1>3 DEF CookiesHeld
  <1>4. ASSUME NEW added \in SUBSET Applications, NEW removed \in SUBSET Applications,
               InhibitionChange(added, removed)
        PROVE  TypedService(service') /\ CookiesHeld(engine', service') /\ Synchronous(engine', service')
    <2>1. service' = Tells(service, added, removed) /\ added \in SUBSET Everyone /\ removed \in SUBSET Everyone
      BY <1>4 DEF InhibitionChange, Everyone
    <2> QED
      BY <1>1, <1>2, <1>3, <2>1, TellsFits
  <1>5. ASSUME NEW profile \in Profiles, ProfileChange(profile)
        PROVE  TypedService(service') /\ CookiesHeld(engine', service') /\ Synchronous(engine', service')
    <2> DEFINE m == [kind |-> "profile", profile |-> profile, answer |-> FALSE]
               q == Append(service.queue, m)
    <2>1. m \in Messages /\ m.kind = "profile" /\ m.profile = profile
      BY DEF Messages
    <2>2. /\ DOMAIN service' = ServiceFields
          /\ service'.queue = q /\ service'.profile = profile
          /\ service'.inhibitors = service.inhibitors /\ service'.answered = service.answered
          /\ service'.calls = service.calls /\ service'.held = service.held
      BY <1>1, <1>5 DEF ProfileChange, TypedService, ServiceFields
    <2> HIDE DEF m
    <2>3. service.queue \in Seq(Messages)
      BY <1>1 DEF TypedService
    <2>4. \A who : ~TellsOf(m, who)
      BY <2>1 DEF TellsOf
    <2>5. /\ q \in Seq(Messages)
          /\ LastIsRight(q, service.inhibitors)
          /\ \A who : SaysNothingOf(q, who) <=> SaysNothingOf(service.queue, who)
          /\ LastProfileIsRight(q, profile)
          /\ ~SaysNoProfile(q)
      BY <1>1, <2>1, <2>3, <2>4, AppendedMessage DEF Synchronous
    <2> HIDE DEF q
    <2>6. TypedService(service')
      BY <1>1, <2>2, <2>5 DEF TypedService
    <2>7. Synchronous(engine, service')
      BY <1>1, <2>2, <2>5 DEF Synchronous
    <2> QED
      BY <1>2, <1>3, <2>2, <2>6, <2>7
  <1>6. ASSUME NEW ok \in BOOLEAN, ServiceAnswers(ok)
        PROVE  TypedService(service') /\ CookiesHeld(engine', service') /\ Synchronous(engine', service')
    <2> DEFINE m == IF Head(service.calls) = "Inhibitions"
                    THEN [kind |-> "listed", who |-> service.inhibitors, answer |-> TRUE]
                    ELSE [kind |-> "profile", profile |-> service.profile, answer |-> TRUE]
               q == IF ok THEN Append(service.queue, m) ELSE service.queue
    <2>1. m \in Messages
      BY <1>1 DEF Messages, TypedService
    <2>2. \/ m.kind = "listed" /\ m.who = service.inhibitors
          \/ m.kind = "profile" /\ m.profile = service.profile
      OBVIOUS
    <2>3. /\ DOMAIN service' = ServiceFields
          /\ service'.queue = q /\ service'.profile = service.profile
          /\ service'.inhibitors = service.inhibitors /\ service'.answered = service.answered
          /\ service'.calls = Tail(service.calls) /\ service'.held = service.held
      BY <1>1, <1>6 DEF ServiceAnswers, TypedService, ServiceFields
    <2> HIDE DEF m
    <2>4. service.queue \in Seq(Messages) /\ Tail(service.calls) \in Seq(OfService)
      <3>1. service.queue \in Seq(Messages) /\ service.calls \in Seq(OfService)
        BY <1>1 DEF TypedService
      <3>2. service.calls # <<>>
        BY <1>6 DEF ServiceAnswers
      <3> QED
        BY <3>1, <3>2
    <2>5. \A who : TellsOf(m, who) => (Affirms(m, who) <=> who \in service.inhibitors)
      BY <2>2 DEF TellsOf, Affirms
    <2>6. /\ q \in Seq(Messages)
          /\ LastIsRight(q, service.inhibitors)
          /\ \A who : SaysNothingOf(q, who) => SaysNothingOf(service.queue, who)
          /\ LastProfileIsRight(q, service.profile)
          /\ SaysNoProfile(q) => SaysNoProfile(service.queue)
      <3>1. CASE ok
        BY <1>1, <2>1, <2>2, <2>4, <2>5, <3>1, AppendedMessage DEF Synchronous
      <3>2. CASE ~ok
        BY <1>1, <2>4, <3>2 DEF Synchronous
      <3> QED
        BY <3>1, <3>2
    <2> HIDE DEF q
    <2>7. TypedService(service')
      BY <1>1, <2>3, <2>4, <2>6 DEF TypedService
    <2>8. Synchronous(engine, service')
      BY <1>1, <2>3, <2>6 DEF Synchronous
    <2> QED
      BY <1>2, <1>3, <2>3, <2>7, <2>8
  <1> QED
    BY <1>2, <1>4, <1>5, <1>6

\* The engine as the batteries, or the request of "Battery", leave it
LEMMA ApartServiceFits ==
  ASSUME plugin = "powermanagement", ServiceInv, Apart(engine, engine'), service' = service
  PROVE  /\ DOMAIN engine' = PowerFields /\ engine'.listening = engine.listening
         /\ TypedService(service') /\ CookiesHeld(engine', service') /\ Synchronous(engine', service')
  <1>1. DOMAIN engine = PowerFields /\ CookiesHeld(engine, service)
    BY DEF ServiceInv
  <1>2. TypedService(service) /\ Synchronous(engine, service)
    BY DEF ServiceInv
  <1>3. DOMAIN engine' = PowerFields /\ engine'.listening = engine.listening /\ engine'.cookie = engine.cookie
    BY <1>1 DEF Apart
  <1>4. CookiesHeld(engine', service')
    BY <1>1, <1>3 DEF CookiesHeld
  <1>5. Synchronous(engine', service')
    BY <1>2, SameSynchronous DEF Apart
  <1> QED
    BY <1>2, <1>3, <1>4, <1>5

\* The request of a source that tells what the services say
LEMMA ConnectServiceFits ==
  ASSUME plugin = "powermanagement", ServiceInv, NEW source \in OfService, Connect(source)
  PROVE  /\ Beside(engine, engine')
         /\ engine'.listening = engine.listening
         /\ TypedService(service)' /\ CookiesHeld(engine, service)' /\ Synchronous(engine, service)'
  <1>1. DOMAIN engine = PowerFields /\ CookiesHeld(engine, service)
    BY DEF ServiceInv
  <1>2. TypedService(service) /\ Synchronous(engine, service)
    BY DEF ServiceInv
  <1>3. source \notin DOMAIN Queries /\ source \notin Udis /\ source # "Battery"
    BY EnginesAssumption DEF OfService
  <1>4. service' = service \/ service' = [service EXCEPT !.calls = Append(@, source)]
    BY DEF Connect
  <1>5. /\ TypedService(service')
        /\ service'.queue = service.queue /\ service'.inhibitors = service.inhibitors
        /\ service'.profile = service.profile /\ service'.answered = service.answered
        /\ service'.held = service.held
    BY SMTT(30), <1>2, <1>4 DEF TypedService, ServiceFields
  <1>6. CASE engine' = engine
    <2>1. CookiesHeld(engine', service')
      BY <1>1, <1>5, <1>6 DEF CookiesHeld
    <2>2. Synchronous(engine', service')
      BY <1>2, <1>5, <1>6, SameSynchronous
    <2>3. Beside(engine, engine')
      BY <1>6 DEF Beside
    <2> QED
      BY <1>5, <1>6, <2>1, <2>2, <2>3
  <1>7. CASE engine' # engine
    <2> DEFINE c == [installed |-> TRUE]
    <2>1. source = "Power Profiles" /\ source \notin DOMAIN engine.data /\ engine' = SetData(engine, source, c)
      <3>1. source \notin DOMAIN engine.data /\ source \in {"Inhibitions", "Power Profiles"}
        BY <1>7 DEF Connect, OfService
      <3>2. source = "Inhibitions" => engine' = engine
        BY <1>3 DEF Connect
      <3>3. source = "Power Profiles"
        BY <1>7, <3>1, <3>2
      <3>4. engine' = RequestProfiles(engine)
        BY <1>3, <3>1, <3>3 DEF Connect
      <3> QED
        BY <3>1, <3>3, <3>4 DEF RequestProfiles
    <2> HIDE DEF c
    <2>2. /\ Beside(engine, engine') /\ engine'.listening = engine.listening /\ engine'.cookie = engine.cookie
          /\ Known(engine') = Known(engine)
      BY <1>1, <2>1, SetProfilesEffect
    <2>3. "profile" \notin service.answered
      BY <1>2, <2>1 DEF Synchronous
    <2>4. CookiesHeld(engine', service')
      BY <1>1, <1>5, <2>2 DEF CookiesHeld
    <2>5. Synchronous(engine', service')
      BY <1>2, <1>5, <2>2, <2>3 DEF Synchronous
    <2> QED
      BY <1>5, <2>2, <2>4, <2>5
  <1> QED
    BY <1>6, <1>7

\* The steps of the batteries, after "Battery" was asked for
LEMMA BatteryStepsFit ==
  ASSUME PowerNeeds \subseteq Assumed, plugin = "powermanagement", Frame, BatteryInv, BatterySteps
  PROVE  /\ Apart(engine, engine') /\ service' = service
         /\ "Battery" \in DOMAIN engine'.data /\ "Battery" \in shown'
         /\ Numbered(engine', hardware') /\ Summed(engine', hardware')
  <1>1. DOMAIN engine = PowerFields /\ DOMAIN hardware \subseteq Udis
    BY DEF BatteryInv, Frame
  <1>2. "Battery" \in shown /\ service' = service
    BY DEF BatterySteps, Plug, Unplug, PercentChange, ChargeChange, AsksFirst, PowerNeeds
  <1>3. Numbered(engine, hardware) /\ Summed(engine, hardware)
    BY <1>2 DEF BatteryInv
  <1>4. shown' = StillShown(engine')
    BY DEF BatterySteps, Plug, DeviceComes, Unplug, PercentChange, ChargeChange, Engine
  <1>5. Summed(engine', hardware') => "Battery" \in DOMAIN engine'.data /\ "Battery" \in shown'
    BY <1>2, <1>4 DEF Summed, SaysNone, ListsSources, StillShown
  <1>6. ASSUME NEW u \in Udis, Plug(u)
        PROVE  Apart(engine, engine') /\ Numbered(engine', hardware') /\ Summed(engine', hardware')
    <2>1. /\ engine' = BatteryAdded(engine, hardware', u)
          /\ u \notin DOMAIN hardware /\ DOMAIN hardware' = DOMAIN hardware \union {u}
      BY <1>6 DEF Plug, DeviceComes, Engine, Over
    <2>2. \A v \in DOMAIN hardware : hardware'[v].percent = hardware[v].percent /\ hardware'[v].charge = hardware[v].charge
      BY <1>6 DEF Plug, DeviceComes, Over, Frame, DeviceFields
    <2> QED
      BY <1>1, <1>3, <2>1, <2>2, BatteryAddedFits
  <1>7. ASSUME NEW u \in Udis, Unplug(u)
        PROVE  Apart(engine, engine') /\ Numbered(engine', hardware') /\ Summed(engine', hardware')
    <2>1. engine' = BatteryRemoved(engine, hardware', u) /\ DOMAIN hardware' = DOMAIN hardware \ {u}
      BY <1>7 DEF Unplug, Engine
    <2>2. \A v \in DOMAIN hardware' : hardware'[v].percent = hardware[v].percent /\ hardware'[v].charge = hardware[v].charge
      BY <1>7 DEF Unplug, Frame, DeviceFields
    <2> QED
      BY <1>1, <1>3, <2>1, <2>2, BatteryRemovedFits
  <1>8. ASSUME NEW u \in Udis, PercentChange(u) \/ \E charge \in ChargeStates : ChargeChange(u, charge)
        PROVE  Apart(engine, engine') /\ Numbered(engine', hardware') /\ Summed(engine', hardware')
    <2>1. /\ engine' = BatteryChanged(engine, hardware', u) /\ DOMAIN hardware' = DOMAIN hardware
          /\ u \in List(hardware, "battery")
      BY <1>8 DEF PercentChange, ChargeChange, Engine, Is, List
    <2>2. \A v \in DOMAIN hardware' : v # u => hardware'[v].percent = hardware[v].percent /\ hardware'[v].charge = hardware[v].charge
      BY <1>8 DEF PercentChange, ChargeChange
    <2> QED
      BY <1>1, <1>3, <2>1, <2>2, BatteryChangedFits
  <1>9. Apart(engine, engine') /\ Numbered(engine', hardware') /\ Summed(engine', hardware')
    BY <1>6, <1>7, <1>8 DEF BatterySteps
  <1> QED
    BY <1>2, <1>5, <1>9

LEMMA ConnectBatteryFits ==
  ASSUME plugin = "powermanagement", Frame, BatteryInv, Connect("Battery")
  PROVE  /\ Apart(engine, engine') /\ service' = service
         /\ "Battery" \in DOMAIN engine'.data /\ "Battery" \in shown'
         /\ Numbered(engine', hardware') /\ Summed(engine', hardware')
  <1>1. DOMAIN engine = PowerFields /\ DOMAIN hardware \subseteq Udis
    BY DEF BatteryInv, Frame
  <1>2. "Battery" \notin DOMAIN Queries /\ "Battery" \notin Udis
    BY EnginesAssumption
  <1>3. "Battery" \notin DOMAIN engine.data /\ \A s \in BatteryNames : s \notin DOMAIN engine.data
    BY DEF Connect, BatteryInv
  <1>4. engine' = RequestBattery(engine, hardware) /\ hardware' = hardware /\ service' = service
    BY <1>2, <1>3, NamesAreApart DEF Connect
  <1>5. Apart(engine, engine') /\ Numbered(engine', hardware) /\ Summed(engine', hardware)
    BY <1>1, <1>3, <1>4, RequestBatteryFits
  <1>6. "Battery" \in DOMAIN engine'.data
    BY <1>5 DEF Summed, SaysNone, ListsSources
  <1>7. shown' = shown \union ({"Battery"} \intersect DOMAIN engine'.data)
    BY NamesAreApart DEF Connect
  <1> QED
    BY <1>4, <1>5, <1>6, <1>7

\* One step of the engine, whatever it is about
LEMMA PowerStep ==
  ASSUME PowerNeeds \subseteq Assumed, Frame, BatteryInv, ServiceInv, [Next]_vars
  PROVE  BatteryInv' /\ ServiceInv'
  <1> SUFFICES ASSUME plugin = "powermanagement", plugin' = plugin PROVE BatteryInv' /\ ServiceInv'
    BY PluginStays DEF BatteryInv, ServiceInv
  <1>1. ASSUME Apart(engine, engine'), service' = service,
               "Battery" \in DOMAIN engine'.data, "Battery" \in shown',
               Numbered(engine', hardware'), Summed(engine', hardware')
        PROVE  BatteryInv' /\ ServiceInv'
    <2>1. /\ DOMAIN engine' = PowerFields /\ engine'.listening = engine.listening
          /\ TypedService(service') /\ CookiesHeld(engine', service') /\ Synchronous(engine', service')
      BY <1>1, ApartServiceFits
    <2>2. BatteryInv'
      BY <1>1, <2>1 DEF BatteryInv
    <2>3. engine.listening
      BY DEF ServiceInv
    <2> QED
      BY <2>1, <2>2, <2>3 DEF ServiceInv
  <1>2. ASSUME Beside(engine, engine'), engine'.listening = engine.listening, hardware' = hardware,
               "Battery" \in shown' <=> "Battery" \in shown,
               TypedService(service'), CookiesHeld(engine', service'), Synchronous(engine', service')
        PROVE  BatteryInv' /\ ServiceInv'
    <2>1. engine.listening /\ DOMAIN engine = PowerFields
      BY DEF ServiceInv
    <2>2. DOMAIN engine' = PowerFields
      BY <1>2, <2>1 DEF Beside
    <2>3. /\ "Battery" \in DOMAIN engine'.data <=> "Battery" \in DOMAIN engine.data
          /\ Numbered(engine, hardware) => Numbered(engine', hardware)
          /\ Summed(engine, hardware) => Summed(engine', hardware)
      BY <1>2, BesideFits
    <2>4. \A s \in BatteryNames : s \in DOMAIN engine'.data <=> s \in DOMAIN engine.data
      BY <1>2, NamesAreApart DEF Beside
    <2>5. BatteryInv'
      BY <1>2, <2>2, <2>3, <2>4 DEF BatteryInv
    <2> QED
      BY <1>2, <2>1, <2>2, <2>5 DEF ServiceInv
  <1>3. CASE BatterySteps
    BY <1>1, <1>3, BatteryStepsFit
  <1>4. CASE Connect("Battery")
    BY <1>1, <1>4, ConnectBatteryFits
  <1>5. ASSUME NEW source \in OfService, Connect(source) PROVE BatteryInv' /\ ServiceInv'
    <2>1. shown' = shown \union {source} /\ hardware' = hardware
      BY <1>5 DEF Connect
    <2>2. "Battery" \in shown' <=> "Battery" \in shown
      BY <2>1, NamesAreApart
    <2> QED
      BY <1>2, <1>5, <2>1, <2>2, ConnectServiceFits
  <1>6. CASE ServiceNext
    <2>1. shown' = shown /\ hardware' = hardware
      BY <1>6 DEF ServiceNext, InhibitionChange, ProfileChange, ServiceAnswers, MessageArrives, BeginSuppressing,
                  StopSuppressing
    <2>2. /\ Beside(engine, engine') /\ engine'.listening = engine.listening
          /\ TypedService(service') /\ CookiesHeld(engine', service') /\ Synchronous(engine', service')
      <3>1. CASE MessageArrives
        BY <3>1, MessageFits
      <3>2. CASE \E what \in Suppressions, ok \in BOOLEAN : BeginSuppressing(what, ok) \/ StopSuppressing(what, ok)
        BY <3>2, BeginSuppressingFits, StopSuppressingFits
      <3>3. CASE \/ \E added, removed \in SUBSET Applications : InhibitionChange(added, removed)
                 \/ \E profile \in Profiles : ProfileChange(profile)
                 \/ \E ok \in BOOLEAN : ServiceAnswers(ok)
        BY <3>3, ServiceFits DEF Beside
      <3> QED
        BY <1>6, <3>1, <3>2, <3>3 DEF ServiceNext
    <2> QED
      BY <1>2, <2>1, <2>2
  <1>7. CASE UNCHANGED vars
    BY <1>7 DEF vars, BatteryInv, ServiceInv
  <1>8. CASE Next
    BY <1>3, <1>4, <1>5, <1>6, <1>8, PowerSteps
  <1> QED
    BY <1>7, <1>8

\* The batteries have sources of their own with different names, and "Battery" lists them and
\* sums them up, whichever batteries come, go and change (PowermanagementEngine::deviceAdded),
\* when "Battery" was asked for first and is kept.
THEOREM BatteriesAreShown == ASSUME PowerNeeds \subseteq Assumed PROVE Spec => []BatteriesShown
  <1>1. Frame /\ BatteryInv /\ ServiceInv /\ [Next]_vars => BatteryInv' /\ ServiceInv'
    BY PowerStep
  <1>2. Frame /\ BatteryInv => BatteriesShown
    <2> SUFFICES ASSUME Frame, BatteryInv, plugin = "powermanagement", "Battery" \in shown PROVE BatteriesShown
      BY DEF BatteriesShown
    <2>1. Numbered(engine, hardware) /\ Summed(engine, hardware)
      BY DEF BatteryInv
    <2> DEFINE bs == engine.batterySources
    <2>2. DOMAIN bs = List(hardware, "battery")
      BY <2>1 DEF Numbered
    <2>3. Cardinality(Names(engine)) = Cardinality(DOMAIN bs)
      <3> DEFINE S == DOMAIN bs
                 T == Names(engine)
                 f == [u \in S |-> bs[u]]
      <3>1. IsFiniteSet(S)
        <4>1. S \in SUBSET Udis
          BY <2>2 DEF List, Frame
        <4> QED
          BY <4>1, HardwareAssumption, FS_Subset
      <3>2. f \in [S -> T] /\ (\A u, v \in S : f[u] = f[v] => u = v) /\ \A s \in T : \E u \in S : f[u] = s
        BY <2>1 DEF Numbered, Names
      <3>3. f \in Bijection(S, T)
        BY <3>2, Fun_IsBij
      <3>4. ExistsBijection(S, T)
        BY <3>3 DEF ExistsBijection
      <3> QED
        BY <3>1, <3>4, FS_Bijection
    <2>4. BatteryNames \intersect DOMAIN engine.data = Names(engine)
      BY <2>1 DEF Numbered, Names
    <2>5. \A u \in DOMAIN bs : Current(bs[u], "percent", hardware[u].percent) /\ Current(bs[u], "charge", hardware[u].charge)
      BY <2>1 DEF Numbered, Current
    <2>6. engine.data["Battery"].hasBattery = (Names(engine) # {})
      BY <2>1 DEF Summed, SaysNone, ListsSources
    <2>7. /\ Current("Battery", "sources", Names(engine))
          /\ Names(engine) # {} => {"sources", "percent"} \subseteq DOMAIN engine.data["Battery"]
          /\ Current("Battery", "percent", OverallPercent(hardware))
          /\ Current("Battery", "charge", OverallState(hardware))
      BY <2>1 DEF Summed, SaysNone, ListsSources, SaysOverall, Current
    <2> QED
      BY <2>2, <2>3, <2>4, <2>5, <2>6, <2>7 DEF BatteriesShown
  <1> QED
    BY <1>1, <1>2, BatteryInit, ServiceInit, Framed, PTL DEF Spec

\* The jobs can take back every suppression that the service holds, and once an answer and all
\* signals have arrived, the sources say what the services say: for any number of calls, signals
\* and answers under way (PowermanagementEngine::inhibitionsChanged, PowerManagementJob), under
\* PowerNeeds and with the answers to the jobs' calls never lost.
THEOREM ServiceIsShown == ASSUME PowerNeeds \subseteq Assumed PROVE Spec => []ServiceShown
  <1>1. Frame /\ BatteryInv /\ ServiceInv /\ [Next]_vars => BatteryInv' /\ ServiceInv'
    BY PowerStep
  <1>2. ServiceInv => ServiceShown
    <2> SUFFICES ASSUME ServiceInv, plugin = "powermanagement" PROVE ServiceShown
      BY DEF ServiceShown
    <2>1. CookiesHeld(engine, service) /\ Synchronous(engine, service)
      BY DEF ServiceInv
    <2>2. \A what \in Suppressions : service.held[what] = {engine.cookie[what]} \ {NoCookie}
      BY <2>1 DEF CookiesHeld
    <2>3. service.queue = <<>> => SaysNoProfile(service.queue) /\ \A who : SaysNothingOf(service.queue, who)
      BY DEF SaysNoProfile, SaysNothingOf
    <2>4. "listed" \in service.answered /\ service.queue = <<>> =>
             \A who : who \in service.inhibitors <=> who \in Known(engine)
      BY <2>1, <2>3 DEF Synchronous
    <2>5. "profile" \in service.answered /\ service.queue = <<>> =>
             engine.data["Power Profiles"].current = service.profile
      BY <2>1, <2>3 DEF Synchronous
    <2> QED
      BY <2>2, <2>4, <2>5 DEF ServiceShown, Known
  <1> QED
    BY <1>1, <1>2, BatteryInit, ServiceInit, Framed, PTL DEF Spec

=============================================================================
