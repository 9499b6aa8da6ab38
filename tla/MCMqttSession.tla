----------------------------- MODULE MCMqttSession -----------------------------
(* MqttSession on small instances: see MCSession*.cfg. *)
EXTENDS MqttSession

CONSTANTS a, b                               \* topic filters
===============================================================================
