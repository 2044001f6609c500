----------------------------- MODULE KSolidNotify -----------------------------
(***************************************************************************)
(* Notifications of what became of a mount or an unmount                   *)
(* (dataengines/devicenotifications): a source for each device whose       *)
(* operation ended with something to say.  Which applications keep a       *)
(* device busy is asked of lsof, in a process of its own for each device.  *)
(***************************************************************************)
EXTENDS Hardware

NewKSolidNotify(h) ==
    [data |-> [s \in {} |-> NoData],
     devices |-> DOMAIN h,
     waiting |-> <<>>,     \* connections to blockingAppsReady, by the device they notify of
     queries |-> <<>>]     \* processes, by the device they look at

NotifyEach(e, devices, error, apps) == SetEach(e, [u \in devices |-> [error |-> error, apps |-> apps]])

Notify(e, u, error, apps) == NotifyEach(e, {u}, error, apps)

ClearNotification(e, u) == RemoveSource(e, u)

\* onDeviceAdded clears what is left of a former instance.
NotifyAdded(e, u) == [ClearNotification(e, u) EXCEPT !.devices = @ \union {u}]

\* The notification of a device that is removed stays.
NotifyRemoved(e, u) == [e EXCEPT !.devices = @ \ {u}]

\* Mutant: a mount that succeeds leaves the last error.
OnSolidReplyKept(e, h, u, type, error) ==
    CASE error = "NoError" -> e
      [] error = "DeviceBusy" -> [e EXCEPT !.waiting = Append(@, u), !.queries = Append(@, u)]
      [] error = "UserCanceled" -> e
      [] OTHER -> Notify(e, u, error, {})

\* isSafelyRemovable: the drive of the device is not in use.
IsSafelyRemovable(h, u) == \A v \in List(h, "access") : ~h[v].accessible

\* onSolidReply
OnSolidReply(e, h, u, type, error) ==
    CASE error = "NoError" /\ type = "Setup" -> ClearNotification(e, u)
      [] error = "NoError" /\ type = "Teardown" ->
           IF IsSafelyRemovable(h, u) THEN Notify(e, u, error, {}) ELSE e
      [] error = "DeviceBusy" /\ type = "Setup" -> Notify(e, u, error, {})
      [] error = "DeviceBusy" /\ type = "Teardown" ->
           [e EXCEPT !.waiting = Append(@, u), !.queries = Append(@, u)]
      [] error = "UserCanceled" -> e
      [] error = "OperationFailed" -> Notify(e, u, error, {})

\* blockingAppsReady: whoever waits takes the answer for his own.
BlockingAppsReady(e, apps) ==
    NotifyEach([e EXCEPT !.waiting = <<>>], ToSet(e.waiting), "DeviceBusy", apps)

\* A process ends, or fails, which is an answer too.
QueryFinished(e, i, failed) ==
    BlockingAppsReady([e EXCEPT !.queries = RemoveAt(@, i)], IF failed THEN {} ELSE {e.queries[i]})

=============================================================================
