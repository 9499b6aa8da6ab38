---------------------------- MODULE SessionPromise ----------------------------
(***************************************************************************)
(* What the application is promised of a client's connection: a loss is    *)
(* told, and until it has been the client does not reconnect by itself;    *)
(* only a client constructed so reconnects by itself, until it gives up;   *)
(* and a reconnection is told after every topic has been asked for again.  *)
(***************************************************************************)
CONSTANT Topics

VARIABLES
    client,      \* none, down, resuming, announcing, up, lost or gave_up
    auto,        \* it reconnects by itself
    topics,      \* what the application has subscribed
    asked        \* those of them the broker has been asked for on this connection

vars == <<client, auto, topics, asked>>

Init == client = "none" /\ auto = FALSE /\ topics = {} /\ asked = {}

Construct ==
    /\ client = "none"
    /\ \/ client' = "up" /\ auto' = TRUE
       \/ client' = "down" /\ auto' \in BOOLEAN
    /\ UNCHANGED <<topics, asked>>

\* By the application, also from the callback that tells it of the loss.  The broker
\* is asked for nothing.
Connect ==
    /\ client \in {"down", "gave_up", "lost"}
    /\ client' = "up"
    /\ UNCHANGED <<auto, topics, asked>>

\* A reconnection by the client itself.
Reconnect ==
    /\ client = "down"
    /\ auto
    /\ client' = "resuming"
    /\ UNCHANGED <<auto, topics, asked>>

Ask(t) ==
    /\ client = "resuming"
    /\ t \in topics \ asked
    /\ asked' = asked \cup {t}
    /\ UNCHANGED <<client, auto, topics>>

\* MQTT_EVENT_RECONNECT begins, and ends.
Announce ==
    /\ client = "resuming"
    /\ asked = topics
    /\ client' = "announcing"
    /\ UNCHANGED <<auto, topics, asked>>

Announced ==
    /\ client = "announcing"
    /\ client' = "up"
    /\ UNCHANGED <<auto, topics, asked>>

\* A topic could not be asked for: the client is connected, and does not say so.
NotResumed ==
    /\ client = "resuming"
    /\ asked # topics
    /\ client' = "up"
    /\ UNCHANGED <<auto, topics, asked>>

\* MQTT_EVENT_DISCONNECT begins, and ends.
Lose ==
    /\ client = "up"
    /\ client' = "lost"
    /\ asked' = {}
    /\ UNCHANGED <<auto, topics>>

Lost ==
    /\ client = "lost"
    /\ client' = "down"
    /\ UNCHANGED <<auto, topics, asked>>

GiveUp ==
    /\ client = "down"
    /\ auto
    /\ client' = "gave_up"
    /\ UNCHANGED <<auto, topics, asked>>

Subscribe(t) ==
    /\ client = "up"
    /\ topics' = topics \cup {t}
    /\ asked' = asked \cup {t}
    /\ UNCHANGED <<client, auto>>

Unsubscribe(t) ==
    /\ client = "up"
    /\ topics' = topics \ {t}
    /\ asked' = asked \ {t}
    /\ UNCHANGED <<client, auto>>

Destroy ==
    /\ client \in {"up", "down", "gave_up"}
    /\ client' = "none"
    /\ auto' = FALSE
    /\ topics' = {}
    /\ asked' = {}

Next ==
    \/ Construct \/ Connect \/ Reconnect \/ Announce \/ Announced \/ NotResumed
    \/ Lose \/ Lost \/ GiveUp \/ Destroy
    \/ \E t \in Topics : Ask(t) \/ Subscribe(t) \/ Unsubscribe(t)

Spec == Init /\ [][Next]_vars
===============================================================================
