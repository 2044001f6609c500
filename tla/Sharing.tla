------------------------------ MODULE Sharing ------------------------------
(***************************************************************************)
(* What the consumers of data engines are promised (dataengineconsumer.h): *)
(* engines are shared between all their users; an engine stays the same    *)
(* object as long as it has a user and is deleted with its last one.       *)
(***************************************************************************)
EXTENDS Naturals

CONSTANTS Users, Engines,
          Objects   \* the numbers an engine object may have, 0 excluded

VARIABLES users,     \* engine -> its users
          instance   \* engine -> number of the object, 0 if there is none

vars == <<users, instance>>

Init ==
    /\ users = [n \in Engines |-> {}]
    /\ instance = [n \in Engines |-> 0]

\* A user obtains the object there is, or the first one a new one.
Acquire(u, n) ==
    /\ users' = [users EXCEPT ![n] = @ \union {u}]
    /\ \/ instance[n] # 0 /\ UNCHANGED instance
       \/ \E k \in Objects : instance[n] = 0 /\ instance' = [instance EXCEPT ![n] = k]

\* A user gives back every engine it has; those it was the last user of are deleted.
Release(u) ==
    /\ users' = [n \in Engines |-> users[n] \ {u}]
    /\ instance' = [n \in Engines |-> IF users[n] = {u} THEN 0 ELSE instance[n]]

Next == \E u \in Users : Release(u) \/ \E n \in Engines : Acquire(u, n)

Spec == Init /\ [][Next]_vars

=============================================================================
