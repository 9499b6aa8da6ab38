---------------------------- MODULE MCMqttSubscribe ----------------------------
(* MqttSubscribe on small instances: see MCSubscribe*.cfg. *)
EXTENDS MqttSubscribe, TLC

CONSTANTS a, b, c, w                         \* topic filters; w has a wildcard

UnsignedChar == {128}
SignedChar   == {-128}
AnyChar      == UnsignedChar \cup SignedChar

Filters == Permutations(Topics \ Wildcards)
===============================================================================
