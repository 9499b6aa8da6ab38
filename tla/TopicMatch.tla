------------------------------ MODULE TopicMatch ------------------------------
(***************************************************************************)
(* One call of _is_topic_matched, and what is said of it: the run of       *)
(* MCAlgorithms checks it of short topics, MqttInbound_proofs shows it of  *)
(* all of them.                                                            *)
(***************************************************************************)
EXTENDS Sequences

CONSTANTS TopicFilters, TopicNames    \* of TopicFilter

ASSUME TopicAssumption == \A s \in TopicFilters \cup TopicNames : s \in Seq(STRING)

VARIABLES topic_filter, topic_name, curf, curn, scan

Topic == INSTANCE TopicFilter

topicVars == <<topic_filter, topic_name, curf, curn, scan>>

\* _is_topic_matched finds a match exactly where the levels of the filter and of the topic
\* pair up by the rules of MQTT, "#" standing for one level or more, as long as the topic
\* has no empty level.
TopicMatchAgrees == Topic!MatchIsRight
===============================================================================
