----------------------------- MODULE LinkedList -----------------------------
(***************************************************************************)
(* One list of utils_list.c, and what is said of it: the run of            *)
(* MCAlgorithms checks it of a small list, MqttPublish_proofs shows it of  *)
(* every list.                                                             *)
(***************************************************************************)
CONSTANTS
    Cells,          \* the addresses a node can have
    Vals, MaxLen, NULL

VARIABLES exists, heap, allocated, self, iterator

List == INSTANCE UtilsList WITH Nodes <- Cells, list <- self

linkedVars == <<exists, heap, allocated, self, iterator>>

\* The pointers of a list and of its nodes make one chain of the nodes in use, in both
\* directions: no node is lost, and none that was freed is in the list.
ListIsLinked == List!ChainHolds

\* The list does to its values what utils_list.h promises: each step of utils_list.c is
\* a step of ListSequence, or invisible, and loses no node.
ListIsSequence == List!IsSequence /\ []ListIsLinked
===============================================================================
