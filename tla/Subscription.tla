---------------------------- MODULE Subscription ----------------------------
(***************************************************************************)
(* What a data source promises its subscribers, with no relay, timer or    *)
(* signal in it: a subscriber is eventually told of the latest version, or *)
(* leaves; a source made on request is retired when it is left unused, and *)
(* never while it is used.                                                 *)
(***************************************************************************)
EXTENDS Naturals

CONSTANTS
    Subscribers,
    Retires        \* the source is retired when nobody subscribes to it

VARIABLES
    alive,         \* the source exists
    subscribers,   \* who is subscribed
    latest,        \* number of the last version published
    told           \* subscriber -> last version it was told of

vars == <<alive, subscribers, latest, told>>

Init ==
    /\ alive = ~Retires
    /\ subscribers = {}
    /\ latest = 0
    /\ told = [s \in Subscribers |-> 0]

\* Subscribing makes the source if need be, and shows what there is.
Subscribe(s) ==
    /\ s \notin subscribers
    /\ alive' = TRUE
    /\ subscribers' = subscribers \union {s}
    /\ latest' \in IF alive THEN {latest} ELSE {latest, latest + 1}
    /\ told' = [told EXCEPT ![s] = latest']

Unsubscribe(s) ==
    /\ s \in subscribers
    /\ subscribers' = subscribers \ {s}
    /\ UNCHANGED <<alive, latest, told>>

Publish ==
    /\ alive
    /\ latest' = latest + 1
    /\ UNCHANGED <<alive, subscribers, told>>

Tell(s) ==
    /\ s \in subscribers
    /\ told[s] # latest
    /\ told' = [told EXCEPT ![s] = latest]
    /\ UNCHANGED <<alive, subscribers, latest>>

Retire ==
    /\ Retires /\ alive /\ subscribers = {}
    /\ alive' = FALSE
    /\ UNCHANGED <<subscribers, latest, told>>

Next ==
    \/ \E s \in Subscribers : Subscribe(s) \/ Unsubscribe(s) \/ Tell(s)
    \/ Publish
    \/ Retire

Fairness ==
    /\ \A s \in Subscribers : WF_vars(Tell(s))
    /\ WF_vars(Retire)

Spec == Init /\ [][Next]_vars /\ Fairness

=============================================================================
