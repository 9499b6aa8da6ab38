---------------------------- MODULE PublishPromise ----------------------------
(***************************************************************************)
(* What the application is promised of a QoS 1 publish: the call returns a *)
(* packet id or an error, once, and until it has failed an event tells     *)
(* what became of the message; of an accepted one it will be told.  A      *)
(* timeout may turn out to have been a success; nothing else is taken      *)
(* back.  The event may come before the call returns.                      *)
(***************************************************************************)
CONSTANT Publishes

VARIABLES
    outcome,     \* what the call has returned
    event        \* what the application was told; "late" is success after timeout

Init ==
    /\ outcome = [n \in Publishes |-> "none"]
    /\ event = [n \in Publishes |-> "none"]

Start(n) ==
    /\ outcome[n] = "none"
    /\ outcome' = [outcome EXCEPT ![n] = "sending"]
    /\ UNCHANGED event

Return(n, result) ==
    /\ outcome[n] = "sending"
    /\ outcome' = [outcome EXCEPT ![n] = result]
    /\ UNCHANGED event

Raise(n, e) ==
    /\ outcome[n] \in {"sending", "accepted"}
    /\ event[n] = "none"
    /\ event' = [event EXCEPT ![n] = e]
    /\ UNCHANGED outcome

Resolve(n) == Raise(n, "success") \/ Raise(n, "timeout")

\* The broker answers after the timeout: the application is told again.
Correct(n) ==
    /\ outcome[n] \in {"sending", "accepted"}
    /\ event[n] = "timeout"
    /\ event' = [event EXCEPT ![n] = "late"]
    /\ UNCHANGED outcome

Next ==
    \E n \in Publishes :
        Start(n) \/ Return(n, "accepted") \/ Return(n, "failed") \/ Resolve(n) \/ Correct(n)

Spec == Init /\ [][Next]_<<outcome, event>>
===============================================================================
