----------------------------- MODULE MCMqttPublish -----------------------------
(* MqttPublish on small instances: see MCPublish*.cfg. *)
EXTENDS MqttPublish, TLC

CONSTANTS t1, t2

\* The application threads of the threaded instances are interchangeable.
ThreadSymmetry == Permutations(Threads)
===============================================================================
