--------------------------- MODULE MqttPublish_proofs ---------------------------
(***************************************************************************)
(* What holds of MqttPublish for every number of threads, publishes and    *)
(* packet identifiers.  The properties are not inductive by themselves:    *)
(* IInv adds who holds which lock at which program counter, and which      *)
(* thread still refers to which node of list_pub_wait_ack.                 *)
(***************************************************************************)
EXTENDS MqttPublish, LinkedList, SequenceFacts, TLAPS, FiniteSetTheorems

\* Between serialization and the end of the write, write_buf belongs to the thread
\* that holds lock_write_buf and contains its packet.
WriterInv ==
    /\ \A p \in Procs : pc[p] \in {"serialize", "send"} => lock_write_buf = p
    /\ \A p \in Procs : pc[p] = "send" => write_buf = node[p]
    /\ ypc = "own_send" => lock_write_buf = Y /\ write_buf = 0
    /\ SentOwnPacket

\* A thread refers to a node only from the push to the end of its call, to one that
\* no other thread refers to, and a publish is "sending" exactly that long.
NodeInv ==
    /\ \A p \in Procs : node[p] # 0 => pc[p] \in {"send", "remove"} /\ node[p] <= pushed
    /\ \A p \in Procs : pc[p] = "remove" => node[p] # 0
    /\ \A p \in Procs : pc[p] = "send" => (qos[p] = 1 <=> node[p] # 0)
    /\ \A p, q \in Procs : node[p] = node[q] /\ node[p] # 0 => p = q
    /\ \A p \in Procs : node[p] # 0 => outcome[node[p]] = "sending"
    /\ \A n \in Nodes : outcome[n] = "sending" => \E p \in Procs : node[p] = n
    /\ \A n \in Nodes : outcome[n] # "none" <=> n <= pushed

\* The waiting list: pushed nodes only, and each publish that has neither failed nor
\* been answered.
ListInv ==
    /\ \A n \in list : n <= pushed
    /\ \A n \in Nodes : event[n] # "none" => n <= pushed
    /\ \A n \in Nodes : outcome[n] \in {"sending", "accepted"} /\ event[n] = "none" => n \in list
    /\ NoStaleNode

\* The yielding thread holds the lock of the list throughout a traversal, so iter,
\* the node it visits next, stays in the list and differs from the node in hand.
LockInv ==
    /\ list_lock = Y <=> ypc \in {"scan", "timeout_cb"}
    /\ pc[Y] # "idle" => ypc \in {"idle", "ack_cb", "timeout_cb"}
    /\ iter # 0 => iter \in list /\ ypc \in {"scan", "timeout_cb"}
    /\ ypc = "timeout_cb" => cur \in Nodes /\ event[cur] # "none" /\ cur # iter
    /\ iter # 0 => node[Y] # iter /\ event[iter] = "none"

\* next_packet_id is not 0 when it is read back, nor is an id that has been read.
IdInv ==
    /\ \A p \in Procs : pc[p] = "read_id" => next_packet_id # 0
    /\ \A p \in Procs : qos[p] = 1 /\ pc[p] \in {"lock", "serialize"} => id[p] # 0
    /\ \A n \in Nodes : n <= pushed => packet_id[n] # 0

\* Without a second thread, a node that is still to be removed is in the list.
SoleInv == Threads = {} => ~misused /\ (node[Y] # 0 => node[Y] \in list)

IInv ==
    /\ TypeOK
    /\ WriterInv
    /\ NodeInv
    /\ ListInv
    /\ LockInv
    /\ IdInv
    /\ SoleInv

\* First is the head of a list that is not empty, NULL (0) for an empty one.
LEMMA FirstIsNode ==
  ASSUME NEW S \in SUBSET Nodes
  PROVE  /\ S = {} => First(S) = 0
         /\ S # {} => First(S) \in S
  <1>1. CASE S = {}
    BY <1>1 DEF First
  <1>2. CASE S # {}
    <2>1. S \in SUBSET Nat
      BY PublishAssumption DEF Nodes, PublishAssumption
    <2>2. \E n \in S : \A m \in S : n <= m
      BY <1>2, <2>1, LeastElement
    <2> QED
      BY <2>2, <1>2 DEF First
  <1> QED
    BY <1>1, <1>2

\* What the traversals of the list pick: a node of the list or NULL, and after a
\* node another one.
LEMMA PickedNodes ==
  ASSUME TypeOK
  PROVE  /\ First(list) \in list \cup {0}
         /\ \A i : First(WithId(i)) \in list \cup {0}
         /\ \A n : First(Succ(n)) \in list \cup {0}
         /\ \A n \in Nodes : First(Succ(n)) # n
         /\ list \cup {0} \subseteq 0..MaxPubs
  <1>1. First(list) \in list \cup {0}
    BY FirstIsNode DEF TypeOK
  <1>2. ASSUME NEW i PROVE First(WithId(i)) \in list \cup {0}
    <2>1. WithId(i) \in SUBSET Nodes /\ WithId(i) \subseteq list
      BY DEF TypeOK, WithId
    <2> QED
      BY <2>1, FirstIsNode
  <1>3. ASSUME NEW n PROVE First(Succ(n)) \in Succ(n) \cup {0}
    <2>1. Succ(n) \in SUBSET Nodes
      BY DEF TypeOK, Succ
    <2> QED
      BY <2>1, FirstIsNode
  <1>4. ASSUME NEW n PROVE First(Succ(n)) \in list \cup {0}
    BY <1>3 DEF Succ
  <1>5. ASSUME NEW n \in Nodes PROVE First(Succ(n)) # n
    BY <1>3, PublishAssumption DEF Succ, Nodes, PublishAssumption
  <1>6. list \cup {0} \subseteq 0..MaxPubs
    BY PublishAssumption DEF TypeOK, Nodes, PublishAssumption
  <1> QED
    BY <1>1, <1>2, <1>4, <1>5, <1>6

\* Every step keeps the types.
LEMMA TypeStep ==
  ASSUME TypeOK, [Next]_vars
  PROVE  TypeOK'
<1> USE DEF publishVars, listVars, writeVars, yieldVars
<1>1. ASSUME NEW p \in Procs, Publish(p) PROVE TypeOK'
  <2>1. calls' \in 0..MaxPubs /\ 0 \in Ids
    BY <1>1, PublishAssumption DEF PublishAssumption, Publish, TypeOK, Ids
  <2> QED
    BY <1>1, <2>1 DEF Publish, TypeOK
<1>2. ASSUME NEW p \in Procs, AllocId(p) PROVE TypeOK'
  <2>1. next_packet_id' \in Ids
    BY <1>2, PublishAssumption DEF PublishAssumption, AllocId, NextPacketId, TypeOK, Ids
  <2> QED
    BY <1>2, <2>1 DEF AllocId, TypeOK
<1>3. ASSUME NEW p \in Procs, ReadId(p) PROVE TypeOK'
  BY <1>3 DEF ReadId, TypeOK
<1>4. ASSUME NEW p \in Procs, LockWriteBuf(p) PROVE TypeOK'
  BY <1>4 DEF LockWriteBuf, TypeOK
<1>5. ASSUME NEW p \in Procs, FailEarly(p) PROVE TypeOK'
  BY <1>5 DEF FailEarly, TypeOK, UnlockWriteBuf
<1>6. ASSUME NEW p \in Procs, SerializeQos0(p) PROVE TypeOK'
  <2>1. 0 \in Packets
    BY <1>6, PublishAssumption DEF PublishAssumption, Packets
  <2> QED
    BY <1>6, <2>1 DEF SerializeQos0, TypeOK
<1>7. ASSUME NEW p \in Procs, PushPubInfo(p) PROVE TypeOK'
  <2>1. pushed' \in Nodes /\ pushed' \in Packets /\ pushed' \in 0..MaxPubs
    BY <1>7, PublishAssumption DEF PublishAssumption, PushPubInfo, TypeOK, Nodes,
       Packets
  <2> QED
    BY <1>7, <2>1 DEF PushPubInfo, TypeOK
<1>8. ASSUME NEW p \in Procs, SendOk(p) PROVE TypeOK'
  <2>1. wire' \subseteq Nodes
    BY <1>8, PublishAssumption DEF PublishAssumption, SendOk, TypeOK, Nodes, Packets
  <2>2. sent' \in (0..MaxPubs) \X Packets
    BY <1>8 DEF SendOk, TypeOK
  <2>3. node' \in [Procs -> 0..MaxPubs]
    BY <1>8, PublishAssumption DEF PublishAssumption, SendOk, TypeOK
  <2> QED
    BY <1>8, <2>1, <2>2, <2>3 DEF SendOk, TypeOK
<1>9. ASSUME NEW p \in Procs, SendFail(p) PROVE TypeOK'
  BY <1>9 DEF SendFail, TypeOK
<1>10. ASSUME NEW p \in Procs, RemoveFailed(p) PROVE TypeOK'
  <2>1. node' \in [Procs -> 0..MaxPubs]
    BY <1>10, PublishAssumption DEF PublishAssumption, RemoveFailed, TypeOK
  <2> QED
    BY <1>10, <2>1 DEF RemoveFailed, TypeOK, Unlink
<1>11. CASE YieldBegin
  BY <1>11 DEF YieldBegin, TypeOK
<1>12. CASE ReadNothing
  BY <1>12 DEF ReadNothing, TypeOK
<1>13. ASSUME NEW i \in acks, HandlePuback(i) PROVE TypeOK'
  <2>1. cur' \in 0..MaxPubs
    BY <1>13, PickedNodes, PublishAssumption DEF PublishAssumption, HandlePuback, TypeOK
  <2>2. event' \in [Nodes -> {"none", "success", "timeout", "late"}]
    BY <1>13 DEF HandlePuback, TypeOK
  <2> QED
    BY <1>13, <2>1, <2>2 DEF HandlePuback, TypeOK, Unlink
<1>14. CASE AckCallbackReturns
  BY <1>14 DEF AckCallbackReturns, TypeOK
<1>15. CASE WriteOwnPacket
  <2>1. 0 \in Packets
    BY <1>15, PublishAssumption DEF PublishAssumption, Packets
  <2> QED
    BY <1>15, <2>1 DEF WriteOwnPacket, TypeOK, Procs
<1>16. CASE SendOwnPacket
  <2>1. 0 \in 0..MaxPubs
    BY <1>16, PublishAssumption DEF PublishAssumption, SendOwnPacket
  <2> QED
    BY <1>16, <2>1 DEF SendOwnPacket, TypeOK
<1>17. CASE ScanBegin
  <2>1. iter' \in 0..MaxPubs
    BY <1>17, PickedNodes, PublishAssumption DEF PublishAssumption, ScanBegin, TypeOK
  <2> QED
    BY <1>17, <2>1 DEF ScanBegin, TypeOK
<1>18. CASE ScanLive
  <2>1. iter' \in 0..MaxPubs
    BY <1>18, PickedNodes, PublishAssumption DEF PublishAssumption, ScanLive, TypeOK
  <2> QED
    BY <1>18, <2>1 DEF ScanLive, TypeOK
<1>19. CASE ScanExpired
  <2>1. iter' \in 0..MaxPubs
    BY <1>19, PickedNodes, PublishAssumption DEF PublishAssumption, ScanExpired, TypeOK
  <2>2. iter \in Nodes
    BY <1>19, PublishAssumption DEF PublishAssumption, ScanExpired, TypeOK, Nodes
  <2> QED
    BY <1>19, <2>1, <2>2 DEF ScanExpired, TypeOK
<1>20. CASE TimeoutCallbackReturns
  BY <1>20 DEF TimeoutCallbackReturns, TypeOK, Unlink
<1>21. CASE ScanEnd
  BY <1>21 DEF ScanEnd, TypeOK
<1>22. ASSUME NEW n \in Nodes, Expire(n) PROVE TypeOK'
  BY <1>22 DEF Expire, TypeOK
<1>23. ASSUME NEW n \in Nodes, BrokerAcks(n) PROVE TypeOK'
  <2>1. packet_id[n] \in Ids
    BY <1>23 DEF TypeOK
  <2> QED
    BY <1>23, <2>1 DEF BrokerAcks, TypeOK
<1>24. CASE ConnectionLost
  BY <1>24 DEF ConnectionLost, TypeOK
<1>25. CASE UNCHANGED vars
  BY <1>25 DEF vars, TypeOK
<1> QED
  BY <1>1, <1>2, <1>3, <1>4, <1>5, <1>6, <1>7, <1>8, <1>9, <1>10, <1>11, <1>12, <1>13,
     <1>14, <1>15, <1>16, <1>17, <1>18, <1>19, <1>20, <1>21, <1>22, <1>23, <1>24,
     <1>25 DEF Next, PublishStep, YieldStep, Environment

\* Every step keeps write_buf with the thread that has locked it.
LEMMA WriterStep ==
  ASSUME TypeOK, TypeOK', WriterInv, NodeInv, LockInv, [Next]_vars
  PROVE  WriterInv'
<1> USE PublishAssumption DEF PublishAssumption, publishVars, listVars, writeVars,
   yieldVars
<1>1. CASE UNCHANGED <<pc, node, lock_write_buf, write_buf, ypc, sent>>
  BY <1>1 DEF WriterInv, SentOwnPacket
<1>2. ASSUME NEW p \in Procs, Publish(p) PROVE WriterInv'
  BY <1>2 DEF Publish, WriterInv, SentOwnPacket
<1>3. ASSUME NEW p \in Procs, AllocId(p) PROVE WriterInv'
  BY <1>3 DEF AllocId, WriterInv, SentOwnPacket
<1>4. ASSUME NEW p \in Procs, ReadId(p) PROVE WriterInv'
  BY <1>4 DEF ReadId, WriterInv, SentOwnPacket
<1>5. ASSUME NEW p \in Procs, LockWriteBuf(p) PROVE WriterInv'
  BY <1>5 DEF LockWriteBuf, WriterInv, SentOwnPacket, Procs, WriteBufFree
<1>6. ASSUME NEW p \in Procs, FailEarly(p) PROVE WriterInv'
  BY <1>6 DEF FailEarly, WriterInv, SentOwnPacket, TypeOK, LockInv, UnlockWriteBuf
<1>7. ASSUME NEW p \in Procs, SerializeQos0(p) PROVE WriterInv'
  BY <1>7 DEF SerializeQos0, WriterInv, SentOwnPacket, NodeInv
<1>8. ASSUME NEW p \in Procs, PushPubInfo(p) PROVE WriterInv'
  BY <1>8 DEF PushPubInfo, WriterInv, SentOwnPacket, TypeOK, LockInv
<1>9. ASSUME NEW p \in Procs, SendOk(p) PROVE WriterInv'
  BY <1>9 DEF SendOk, WriterInv, SentOwnPacket, TypeOK, LockInv
<1>10. ASSUME NEW p \in Procs, SendFail(p) PROVE WriterInv'
  BY <1>10 DEF SendFail, WriterInv, SentOwnPacket, TypeOK, LockInv
<1>11. ASSUME NEW p \in Procs, RemoveFailed(p) PROVE WriterInv'
  BY <1>11 DEF RemoveFailed, WriterInv, SentOwnPacket
<1>12. CASE YieldBegin
  BY <1>12 DEF YieldBegin, WriterInv, SentOwnPacket
<1>13. CASE ReadNothing
  BY <1>13 DEF ReadNothing, WriterInv, SentOwnPacket
<1>14. ASSUME NEW i \in acks, HandlePuback(i) PROVE WriterInv'
  BY <1>14 DEF HandlePuback, WriterInv, SentOwnPacket
<1>15. CASE AckCallbackReturns
  BY <1>15 DEF AckCallbackReturns, WriterInv, SentOwnPacket
<1>16. CASE WriteOwnPacket
  BY <1>16 DEF WriteOwnPacket, WriterInv, SentOwnPacket, Procs, WriteBufFree
<1>17. CASE SendOwnPacket
  BY <1>17 DEF SendOwnPacket, WriterInv, SentOwnPacket, LockInv
<1>18. CASE ScanBegin
  BY <1>18 DEF ScanBegin, WriterInv, SentOwnPacket
<1>19. CASE ScanExpired
  BY <1>19 DEF ScanExpired, WriterInv, SentOwnPacket
<1>20. CASE TimeoutCallbackReturns
  BY <1>20 DEF TimeoutCallbackReturns, WriterInv, SentOwnPacket
<1>21. CASE ScanEnd
  BY <1>21 DEF ScanEnd, WriterInv, SentOwnPacket
<1> QED
  BY <1>1, <1>2, <1>3, <1>4, <1>5, <1>6, <1>7, <1>8, <1>9, <1>10, <1>11, <1>12, <1>13,
     <1>14, <1>15, <1>16, <1>17, <1>18, <1>19, <1>20, <1>21 DEF Next, PublishStep,
     YieldStep, Environment, ScanLive, Expire, BrokerAcks, ConnectionLost, vars

\* Every step keeps the nodes that threads refer to apart.
LEMMA NodeStep ==
  ASSUME TypeOK, TypeOK', NodeInv, ListInv, [Next]_vars
  PROVE  NodeInv'
<1> USE PublishAssumption DEF PublishAssumption, publishVars, listVars, writeVars,
   yieldVars
<1>1. CASE UNCHANGED <<node, pc, qos, outcome, pushed>>
  BY <1>1 DEF NodeInv
<1>2. ASSUME NEW p \in Procs, Publish(p) PROVE NodeInv'
  BY <1>2 DEF Publish, NodeInv
<1>3. ASSUME NEW p \in Procs, AllocId(p) PROVE NodeInv'
  BY <1>3 DEF AllocId, NodeInv
<1>4. ASSUME NEW p \in Procs, ReadId(p) PROVE NodeInv'
  BY <1>4 DEF ReadId, NodeInv
<1>5. ASSUME NEW p \in Procs, LockWriteBuf(p) PROVE NodeInv'
  BY <1>5 DEF LockWriteBuf, NodeInv
<1>6. ASSUME NEW p \in Procs, FailEarly(p) PROVE NodeInv'
  BY <1>6 DEF FailEarly, NodeInv
<1>7. ASSUME NEW p \in Procs, SerializeQos0(p) PROVE NodeInv'
  BY <1>7 DEF SerializeQos0, NodeInv
<1>8. ASSUME NEW p \in Procs, PushPubInfo(p) PROVE NodeInv'
  <2>1. pushed' = pushed + 1 /\ pushed' \in Nodes /\ pushed \in Nat
    BY <1>8 DEF PushPubInfo, TypeOK, Nodes
  <2>2. \A q \in Procs : /\ node'[q] = IF q = p THEN pushed' ELSE node[q]
                         /\ pc'[q] = IF q = p THEN "send" ELSE pc[q]
    BY <1>8 DEF PushPubInfo, TypeOK
  <2>3. \A n \in Nodes : outcome'[n] = IF n = pushed' THEN "sending" ELSE outcome[n]
    BY <1>8 DEF PushPubInfo, TypeOK
  <2>4. \A q \in Procs : node[q] # pushed' /\ node[q] \in Nat
    BY <2>1 DEF NodeInv, TypeOK
  <2>5. \A q \in Procs : node[q] # 0 => node[q] \in Nodes
    BY DEF Nodes, TypeOK
  <2>6. \A n \in Nodes : outcome'[n] = "sending" => \E q \in Procs : node'[q] = n
    <3> SUFFICES ASSUME NEW n \in Nodes, outcome'[n] = "sending"
                 PROVE  \E q \in Procs : node'[q] = n
      OBVIOUS
    <3>1. CASE n = pushed'
      BY <2>2, <3>1
    <3>2. CASE n # pushed'
      <4>1. PICK q \in Procs : node[q] = n
        BY <2>3, <3>2 DEF NodeInv
      <4>2. q # p
        BY <1>8, <4>1 DEF PushPubInfo, NodeInv, Nodes
      <4> QED
        BY <2>2, <4>1, <4>2
    <3> QED
      BY <3>1, <3>2
  <2>7. \A n \in Nodes : outcome'[n] # "none" <=> n <= pushed'
    BY <2>1, <2>3 DEF NodeInv, Nodes
  <2>8. \A q \in Procs : node'[q] # 0 => /\ pc'[q] \in {"send", "remove"}
                                         /\ node'[q] <= pushed'
                                         /\ outcome'[node'[q]] = "sending"
    BY <2>1, <2>2, <2>3, <2>4, <2>5 DEF NodeInv
  <2>9. \A q, r \in Procs : node'[q] = node'[r] /\ node'[q] # 0 => q = r
    BY <2>2, <2>4 DEF NodeInv
  <2> QED
    BY <1>8, <2>1, <2>2, <2>6, <2>7, <2>8, <2>9 DEF PushPubInfo, NodeInv, Nodes
<1>9. ASSUME NEW p \in Procs, SendOk(p) PROVE NodeInv'
  <2>1. \A q \in Procs : node'[q] = IF q = p THEN 0 ELSE node[q]
    BY <1>9 DEF SendOk, TypeOK
  <2>2. \A n \in Nodes : outcome'[n] = IF n = node[p] THEN "accepted" ELSE outcome[n]
    BY <1>9 DEF SendOk, TypeOK
  <2>3. \A q \in Procs : node[q] # 0 => node[q] \in Nodes
    BY DEF Nodes, TypeOK
  <2>4. \A q \in Procs \ {p} : node[q] # 0 => outcome'[node[q]] = "sending"
    BY <2>2, <2>3 DEF NodeInv
  <2>5. \A n \in Nodes : outcome'[n] = "sending" => \E q \in Procs : node'[q] = n
    <3> SUFFICES ASSUME NEW n \in Nodes, outcome'[n] = "sending"
                 PROVE  \E q \in Procs : node'[q] = n
      OBVIOUS
    <3>1. PICK q \in Procs : node[q] = n
      BY <2>2 DEF NodeInv
    <3> QED
      BY <2>1, <2>2, <3>1
  <2>6. \A n \in Nodes : outcome'[n] # "none" => n <= pushed'
    <3>1. pushed' = pushed
      BY <1>9 DEF SendOk
    <3>2. \A n \in Nodes : n = node[p] => n <= pushed
      BY DEF NodeInv, Nodes
    <3> QED
      BY <2>2, <3>1, <3>2 DEF NodeInv
  <2>7. \A q \in Procs : /\ q # p => pc'[q] = pc[q] /\ qos'[q] = qos[q]
                         /\ pc'[p] = "idle"
    BY <1>9 DEF SendOk, TypeOK
  <2> QED
    BY <1>9, <2>1, <2>4, <2>5, <2>6, <2>7 DEF SendOk, NodeInv, TypeOK, listVars
<1>10. ASSUME NEW p \in Procs, SendFail(p) PROVE NodeInv'
  BY <1>10 DEF SendFail, NodeInv, HasNode
<1>11. ASSUME NEW p \in Procs, RemoveFailed(p) PROVE NodeInv'
  <2>1. \A q \in Procs : node'[q] = IF q = p THEN 0 ELSE node[q]
    BY <1>11 DEF RemoveFailed, TypeOK
  <2>2. \A n \in Nodes : outcome'[n] = IF n = node[p] THEN "failed" ELSE outcome[n]
    BY <1>11 DEF RemoveFailed, TypeOK
  <2>3. \A q \in Procs : node[q] # 0 => node[q] \in Nodes
    BY DEF Nodes, TypeOK
  <2>4. \A q \in Procs \ {p} : node[q] # 0 => outcome'[node[q]] = "sending"
    BY <2>2, <2>3 DEF NodeInv
  <2>5. \A n \in Nodes : outcome'[n] = "sending" => \E q \in Procs : node'[q] = n
    <3> SUFFICES ASSUME NEW n \in Nodes, outcome'[n] = "sending"
                 PROVE  \E q \in Procs : node'[q] = n
      OBVIOUS
    <3>1. PICK q \in Procs : node[q] = n
      BY <2>2 DEF NodeInv
    <3> QED
      BY <2>1, <2>2, <3>1
  <2>6. \A n \in Nodes : outcome'[n] # "none" => n <= pushed'
    <3>1. pushed' = pushed
      BY <1>11 DEF RemoveFailed
    <3>2. \A n \in Nodes : n = node[p] => n <= pushed
      BY DEF NodeInv, Nodes
    <3> QED
      BY <2>2, <3>1, <3>2 DEF NodeInv
  <2>7. \A q \in Procs : /\ q # p => pc'[q] = pc[q] /\ qos'[q] = qos[q]
                         /\ pc'[p] = "idle"
    BY <1>11 DEF RemoveFailed, TypeOK
  <2> QED
    BY <1>11, <2>1, <2>4, <2>5, <2>6, <2>7 DEF RemoveFailed, NodeInv, TypeOK, listVars
<1> QED
  BY <1>1, <1>2, <1>3, <1>4, <1>5, <1>6, <1>7, <1>8, <1>9, <1>10, <1>11 DEF Next,
     PublishStep, YieldStep, Environment, YieldBegin, ReadNothing, HandlePuback,
     AckCallbackReturns, WriteOwnPacket, SendOwnPacket, ScanBegin, ScanLive,
     ScanExpired, TimeoutCallbackReturns, ScanEnd, Expire, BrokerAcks, ConnectionLost,
     vars

\* Every step keeps the identifiers from being 0.
LEMMA IdStep ==
  ASSUME TypeOK, TypeOK', IdInv, NodeInv, ListInv, [Next]_vars
  PROVE  IdInv'
<1> USE PublishAssumption DEF PublishAssumption, publishVars, listVars, writeVars,
   yieldVars
<1>1. CASE UNCHANGED <<pc, next_packet_id, qos, id, pushed, packet_id>>
  BY <1>1 DEF IdInv
<1>2. ASSUME NEW p \in Procs, Publish(p) PROVE IdInv'
  <2>1. \A q \in Procs : /\ pc'[q] \notin {"read_id", "serialize"} \/ q # p
                         /\ qos'[q] = 1 /\ pc'[q] = "lock" => q # p
                         /\ q # p => pc'[q] = pc[q] /\ qos'[q] = qos[q] /\ id'[q] = id[q]
    BY <1>2 DEF Publish, TypeOK
  <2>2. UNCHANGED <<next_packet_id, pushed, packet_id>>
    BY <1>2 DEF Publish
  <2> QED
    BY <2>1, <2>2 DEF IdInv
<1>3. ASSUME NEW p \in Procs, AllocId(p) PROVE IdInv'
  BY <1>3 DEF AllocId, IdInv, TypeOK, NextPacketId, Ids
<1>4. ASSUME NEW p \in Procs, ReadId(p) PROVE IdInv'
  BY <1>4 DEF ReadId, IdInv, TypeOK
<1>5. ASSUME NEW p \in Procs, LockWriteBuf(p) PROVE IdInv'
  BY <1>5 DEF LockWriteBuf, IdInv
<1>6. ASSUME NEW p \in Procs, FailEarly(p) PROVE IdInv'
  BY <1>6 DEF FailEarly, IdInv
<1>7. ASSUME NEW p \in Procs, SerializeQos0(p) PROVE IdInv'
  BY <1>7 DEF SerializeQos0, IdInv
<1>8. ASSUME NEW p \in Procs, PushPubInfo(p) PROVE IdInv'
  <2>1. pushed' = pushed + 1 /\ pushed \in Nat
    BY <1>8 DEF PushPubInfo, TypeOK
  <2>2. \A n \in Nodes : packet_id'[n] = IF n = pushed' THEN id[p] ELSE packet_id[n]
    BY <1>8 DEF PushPubInfo, TypeOK
  <2>3. id[p] # 0
    BY <1>8 DEF PushPubInfo, IdInv
  <2>4. \A n \in Nodes : n <= pushed' => packet_id'[n] # 0
    BY <2>1, <2>2, <2>3 DEF IdInv, Nodes
  <2>5. \A q \in Procs : pc'[q] = IF q = p THEN "send" ELSE pc[q]
    BY <1>8 DEF PushPubInfo, TypeOK
  <2> QED
    BY <1>8, <2>4, <2>5 DEF PushPubInfo, IdInv
<1>9. ASSUME NEW p \in Procs, SendOk(p) PROVE IdInv'
  BY <1>9 DEF SendOk, IdInv
<1>10. ASSUME NEW p \in Procs, SendFail(p) PROVE IdInv'
  BY <1>10 DEF SendFail, IdInv
<1>11. ASSUME NEW p \in Procs, RemoveFailed(p) PROVE IdInv'
  BY <1>11 DEF RemoveFailed, IdInv
<1> QED
  BY <1>1, <1>2, <1>3, <1>4, <1>5, <1>6, <1>7, <1>8, <1>9, <1>10, <1>11 DEF Next,
     PublishStep, YieldStep, Environment, YieldBegin, ReadNothing, HandlePuback,
     AckCallbackReturns, WriteOwnPacket, SendOwnPacket, ScanBegin, ScanLive,
     ScanExpired, TimeoutCallbackReturns, ScanEnd, Expire, BrokerAcks, ConnectionLost,
     vars

\* Every step keeps the traversal of the list valid.
LEMMA LockStep ==
  ASSUME TypeOK, TypeOK', NodeInv, ListInv, LockInv, [Next]_vars
  PROVE  LockInv'
<1> USE PublishAssumption DEF PublishAssumption, publishVars, listVars, writeVars,
   yieldVars
<1>1. CASE UNCHANGED <<list_lock, ypc, pc, iter, list, cur, event, node>>
  BY <1>1 DEF LockInv
<1>2. ASSUME NEW p \in Procs, Publish(p) PROVE LockInv'
  <2>1. \A q \in Procs : q # p => pc'[q] = pc[q]
    BY <1>2 DEF Publish, TypeOK
  <2>2. UNCHANGED <<list_lock, list, ypc, iter, cur, event, node>>
    BY <1>2 DEF Publish
  <2>3. p = Y => ypc \in {"idle", "ack_cb", "timeout_cb"}
    BY <1>2 DEF Publish, MayPublish
  <2> QED
    BY <2>1, <2>2, <2>3 DEF LockInv, Procs
<1>3. ASSUME NEW p \in Procs, AllocId(p) PROVE LockInv'
  BY <1>3 DEF AllocId, LockInv
<1>4. ASSUME NEW p \in Procs, ReadId(p) PROVE LockInv'
  BY <1>4 DEF ReadId, LockInv
<1>5. ASSUME NEW p \in Procs, LockWriteBuf(p) PROVE LockInv'
  BY <1>5 DEF LockWriteBuf, LockInv
<1>6. ASSUME NEW p \in Procs, FailEarly(p) PROVE LockInv'
  BY <1>6 DEF FailEarly, LockInv
<1>7. ASSUME NEW p \in Procs, SerializeQos0(p) PROVE LockInv'
  BY <1>7 DEF SerializeQos0, LockInv
<1>8. ASSUME NEW p \in Procs, PushPubInfo(p) PROVE LockInv'
  BY <1>8 DEF PushPubInfo, ListInv, LockInv, TypeOK, Nodes
<1>9. ASSUME NEW p \in Procs, SendOk(p) PROVE LockInv'
  BY <1>9 DEF SendOk, LockInv
<1>10. ASSUME NEW p \in Procs, SendFail(p) PROVE LockInv'
  BY <1>10 DEF SendFail, LockInv
<1>11. ASSUME NEW p \in Procs, RemoveFailed(p) PROVE LockInv'
  <2>1. list_lock = Y => p = Y
    BY <1>11 DEF RemoveFailed, ListFree, Procs
  <2>2. iter # 0 => p = Y
    BY <2>1 DEF LockInv
  <2>3. iter # 0 => iter \in list'
    BY <1>11, <2>2 DEF RemoveFailed, Unlink, LockInv
  <2>4. \A q \in Procs : /\ node'[q] = IF q = p THEN 0 ELSE node[q]
                         /\ pc'[q] = IF q = p THEN "idle" ELSE pc[q]
    BY <1>11 DEF RemoveFailed, TypeOK
  <2> QED
    BY <1>11, <2>3, <2>4 DEF RemoveFailed, LockInv, Procs
<1>12. CASE YieldBegin
  BY <1>12 DEF YieldBegin, LockInv
<1>13. CASE ReadNothing
  BY <1>13 DEF ReadNothing, LockInv
<1>14. ASSUME NEW i \in acks, HandlePuback(i) PROVE LockInv'
  BY <1>14 DEF HandlePuback, LockInv
<1>15. CASE AckCallbackReturns
  BY <1>15 DEF AckCallbackReturns, LockInv
<1>16. CASE WriteOwnPacket
  BY <1>16 DEF WriteOwnPacket, LockInv
<1>17. CASE SendOwnPacket
  BY <1>17 DEF SendOwnPacket, LockInv
<1>18. CASE ScanBegin
  <2>1. iter' \in list \cup {0}
    BY <1>18, PickedNodes DEF ScanBegin
  <2>2. node[Y] = 0 /\ \A n \in list : event[n] = "none"
    BY <1>18 DEF ScanBegin, LockInv, NodeInv, ListInv, NoStaleNode, Procs
  <2> QED
    BY <1>18, <2>1, <2>2 DEF ScanBegin, LockInv
<1>19. CASE ScanLive
  <2>1. iter' \in list \cup {0}
    BY <1>19, PickedNodes DEF ScanLive
  <2>2. node[Y] = 0 /\ \A n \in list : event[n] = "none"
    BY <1>19 DEF ScanLive, LockInv, NodeInv, ListInv, NoStaleNode, Procs
  <2> QED
    BY <1>19, <2>1, <2>2 DEF ScanLive, LockInv
<1>20. CASE ScanExpired
  <2>1. iter' \in list \cup {0} /\ iter' # iter /\ iter \in Nodes
    BY <1>20, PickedNodes DEF ScanExpired, LockInv, TypeOK
  <2>2. node[Y] = 0 /\ \A n \in list : event[n] = "none"
    BY <1>20 DEF ScanExpired, LockInv, NodeInv, ListInv, NoStaleNode, Procs
  <2>3. \A n \in Nodes : event'[n] = IF n = iter THEN "timeout" ELSE event[n]
    BY <1>20 DEF ScanExpired, TypeOK
  <2>4. iter' # 0 => event'[iter'] = "none"
    BY <2>1, <2>2, <2>3 DEF TypeOK
  <2> QED
    BY <1>20, <2>1, <2>2, <2>3, <2>4 DEF ScanExpired, LockInv
<1>21. CASE TimeoutCallbackReturns
  BY <1>21 DEF TimeoutCallbackReturns, LockInv, Unlink
<1>22. CASE ScanEnd
  BY <1>22 DEF ScanEnd, LockInv
<1> QED
  BY <1>1, <1>2, <1>3, <1>4, <1>5, <1>6, <1>7, <1>8, <1>9, <1>10, <1>11, <1>12, <1>13,
     <1>14, <1>15, <1>16, <1>17, <1>18, <1>19, <1>20, <1>21, <1>22 DEF Next,
     PublishStep, YieldStep, Environment, Expire, BrokerAcks, ConnectionLost, vars

\* What a PUBACK tells: the first success of a listed publish, or the success of one whose
\* timeout has been told, or nothing new.
LEMMA PubackTells ==
  ASSUME TypeOK, NodeInv, ListInv, NEW i \in acks, HandlePuback(i)
  PROVE  /\ First(WithId(i)) \in list \cup {0} /\ 0 \notin list
         /\ \/ event' = event /\ First(WithId(i)) = 0
            \/ \E n \in 1..pushed :
                  /\ n \in Nodes /\ packet_id[n] = i /\ outcome[n] \in {"sending", "accepted"}
                  /\ \/ /\ n = First(WithId(i)) /\ event[n] = "none"
                        /\ event' = [event EXCEPT ![n] = "success"]
                     \/ /\ First(WithId(i)) = 0 /\ event[n] = "timeout"
                        /\ event' = [event EXCEPT ![n] = "late"]
<1> DEFINE f == First(WithId(i))
<1>1. f \in list \cup {0} /\ 0 \notin list
  BY PickedNodes DEF TypeOK, Nodes
<1>2. /\ WithId(i) = {} => f = 0
      /\ WithId(i) # {} => f \in WithId(i)
  <2>1. WithId(i) \in SUBSET Nodes
    BY DEF TypeOK, WithId
  <2> QED
    BY <2>1, FirstIsNode
<1>3. /\ ypc = "read" /\ pushed \in 0..MaxPubs /\ MaxPubs \in Nat
      /\ event \in [Nodes -> {"none", "success", "timeout", "late"}]
      /\ outcome \in [Nodes -> {"none", "sending", "accepted", "failed"}]
  BY PublishAssumption DEF HandlePuback, TypeOK, PublishAssumption
<1>4. \A n \in Nodes : event'[n] = IF ~TellsOf(n, i) THEN event[n]
                                 ELSE IF event[n] \in {"timeout", "late"} THEN "late" ELSE "success"
  BY DEF HandlePuback
<1>5. event' \in [Nodes -> {"none", "success", "timeout", "late"}]
  BY <1>3 DEF HandlePuback
<1>6. CASE WithId(i) # {}
  <2>1. f \in list /\ packet_id[f] = i /\ f \in Nodes
    BY <1>2, <1>6 DEF WithId, TypeOK
  <2>2. outcome[f] \in {"sending", "accepted"} /\ event[f] = "none" /\ f \in 1..pushed
    <3>1. f <= pushed /\ f \in 1..MaxPubs
      BY <2>1 DEF ListInv, Nodes
    <3>2. f \in 1..pushed
      BY <1>3, <3>1
    <3> QED
      BY <1>3, <2>1, <3>2 DEF ListInv, NoStaleNode
  <2>3. \A n \in Nodes : TellsOf(n, i) <=> n = f
    BY <1>6 DEF TellsOf
  <2> HIDE DEF f
  <2>4. event' = [event EXCEPT ![f] = "success"]
    BY <1>3, <1>4, <1>5, <2>2, <2>3
  <2> QED
    BY <1>1, <2>1, <2>2, <2>4 DEF f
<1>7. CASE WithId(i) = {} /\ \A n \in Nodes : ~TellsOf(n, i)
  <2>1. event' = event
    BY <1>3, <1>4, <1>5, <1>7
  <2> QED
    BY <1>1, <1>2, <1>7, <2>1
<1>8. ASSUME WithId(i) = {}, NEW n \in Nodes, TellsOf(n, i)
      PROVE  \/ event' = event
             \/ /\ n \in 1..pushed /\ packet_id[n] = i /\ outcome[n] \in {"sending", "accepted"}
                /\ event[n] = "timeout" /\ event' = [event EXCEPT ![n] = "late"]
  <2>1. n \in 1..pushed /\ packet_id[n] = i /\ outcome[n] # "failed"
    BY <1>8 DEF TellsOf, Returned
  <2>2. outcome[n] \in {"sending", "accepted"}
    <3>1. n <= pushed
      BY <1>3, <2>1
    <3> QED
      BY <1>3, <2>1, <3>1 DEF NodeInv
  <2>3. event[n] # "none"
    BY <1>8, <2>1, <2>2 DEF ListInv, WithId
  <2>4. \A m \in Nodes : TellsOf(m, i) => m = n
    <3> SUFFICES ASSUME NEW m \in Nodes, TellsOf(m, i) PROVE m = n
      OBVIOUS
    <3>1. m \in Returned(i) /\ n \in Returned(i) /\ m <= n /\ n <= m
      BY <1>8 DEF TellsOf
    <3>2. m \in 1..MaxPubs /\ n \in 1..MaxPubs
      BY DEF Nodes
    <3> QED
      BY <1>3, <3>1, <3>2
  <2>5. CASE event[n] = "timeout"
    <3>1. event' = [event EXCEPT ![n] = "late"]
      BY <1>3, <1>4, <1>5, <1>8, <2>4, <2>5
    <3> QED
      BY <2>1, <2>2, <2>5, <3>1
  <2>6. CASE event[n] # "timeout"
    <3>1. event[n] \in {"success", "late"}
      BY <1>3, <2>3, <2>6
    <3>2. \A m \in Nodes : event'[m] = event[m]
      BY <1>4, <2>4, <3>1
    <3> QED
      BY <1>3, <1>5, <3>2
  <2> QED
    BY <2>5, <2>6
<1> QED
  BY <1>1, <1>2, <1>6, <1>7, <1>8

\* Every step keeps the list in accord with outcomes and events.
LEMMA ListStep ==
  ASSUME TypeOK, TypeOK', NodeInv, ListInv, LockInv, [Next]_vars
  PROVE  ListInv'
<1> USE PublishAssumption DEF PublishAssumption, publishVars, listVars, writeVars,
   yieldVars
<1>1. CASE UNCHANGED <<list, pushed, event, outcome, ypc, cur>>
  BY <1>1 DEF ListInv, NoStaleNode
<1>2. ASSUME NEW p \in Procs, PushPubInfo(p) PROVE ListInv'
  <2>1. pushed' = pushed + 1 /\ pushed' \in Nodes /\ pushed \in Nat
    BY <1>2 DEF PushPubInfo, TypeOK, Nodes
  <2>2. \A n \in Nodes : outcome'[n] = IF n = pushed' THEN "sending" ELSE outcome[n]
    BY <1>2 DEF PushPubInfo, TypeOK
  <2>3. list' = list \cup {pushed'} /\ UNCHANGED <<event, ypc, cur>>
    BY <1>2 DEF PushPubInfo
  <2>4. event[pushed'] = "none"
    BY <2>1 DEF ListInv
  <2>5. \A n \in list' : n <= pushed'
    BY <2>1, <2>3 DEF ListInv, TypeOK, Nodes
  <2>6. \A n \in Nodes : event[n] # "none" => n <= pushed'
    BY <2>1 DEF ListInv, Nodes
  <2>7. NoStaleNode'
    BY <2>2, <2>3, <2>4 DEF ListInv, NoStaleNode, TypeOK
  <2> QED
    BY <2>2, <2>3, <2>5, <2>6, <2>7 DEF ListInv
<1>3. ASSUME NEW p \in Procs, SendOk(p) PROVE ListInv'
  <2>1. \A n \in Nodes : outcome'[n] = IF n = node[p] THEN "accepted" ELSE outcome[n]
    BY <1>3 DEF SendOk, TypeOK
  <2>2. UNCHANGED <<list, event, ypc, cur, pushed>>
    BY <1>3 DEF SendOk
  <2>3. \A n \in Nodes : n = node[p] => outcome[n] = "sending"
    BY DEF NodeInv, Nodes
  <2> QED
    BY <2>1, <2>2, <2>3 DEF ListInv, NoStaleNode, TypeOK
<1>4. ASSUME NEW p \in Procs, RemoveFailed(p) PROVE ListInv'
  <2>1. \A n \in Nodes : outcome'[n] = IF n = node[p] THEN "failed" ELSE outcome[n]
    BY <1>4 DEF RemoveFailed, TypeOK
  <2>2. list' = list \ {node[p]} /\ UNCHANGED <<event, ypc, cur, pushed>>
    BY <1>4 DEF RemoveFailed, Unlink
  <2> QED
    BY <2>1, <2>2 DEF ListInv, NoStaleNode, TypeOK
<1>5. CASE YieldBegin
  BY <1>5 DEF YieldBegin, ListInv, NoStaleNode
<1>6. CASE ReadNothing
  BY <1>6 DEF ReadNothing, ListInv, NoStaleNode
<1>7. ASSUME NEW i \in acks, HandlePuback(i) PROVE ListInv'
  <2> DEFINE n == First(WithId(i))
  <2>1. n \in list \cup {0} /\ 0 \notin list
    BY <1>7, PubackTells
  <2>2. /\ \A m \in Nodes : event'[m] = "none" => event[m] = "none" /\ m # n
        /\ \A m \in Nodes : event'[m] # event[m] => m <= pushed /\ (m = n \/ event[m] # "none")
    <3>1. event \in [Nodes -> {"none", "success", "timeout", "late"}] /\ pushed \in Nat /\ 0 \notin Nodes
      BY DEF TypeOK, Nodes
    <3>2. CASE event' = event /\ n = 0
      BY <3>1, <3>2
    <3>3. ASSUME NEW k \in 1..pushed, k \in Nodes,
                 \/ k = n /\ event' = [event EXCEPT ![k] = "success"]
                 \/ n = 0 /\ event[k] = "timeout" /\ event' = [event EXCEPT ![k] = "late"]
          PROVE  /\ \A m \in Nodes : event'[m] = "none" => event[m] = "none" /\ m # n
                 /\ \A m \in Nodes : event'[m] # event[m] => m <= pushed /\ (m = n \/ event[m] # "none")
      <4>1. k <= pushed
        BY <3>1
      <4> HIDE DEF n
      <4> QED
        BY <3>1, <3>3, <4>1
    <3> HIDE DEF n
    <3> QED
      BY <1>7, <3>2, <3>3, PubackTells DEF n
  <2>3. list' = list \ {n} /\ UNCHANGED <<outcome, pushed>> /\ ypc = "read"
    BY <1>7 DEF HandlePuback, Unlink
  <2> HIDE DEF n
  <2>4. \A m \in Nodes : event'[m] # "none" => m <= pushed
    BY <2>2 DEF ListInv
  <2>5. \A m \in list' : event'[m] = "none"
    BY <2>2, <2>3 DEF ListInv, NoStaleNode, TypeOK
  <2> QED
    BY <2>1, <2>2, <2>3, <2>4, <2>5 DEF ListInv, NoStaleNode, TypeOK
<1>8. CASE AckCallbackReturns
  BY <1>8 DEF AckCallbackReturns, ListInv, NoStaleNode
<1>9. CASE WriteOwnPacket
  BY <1>9 DEF WriteOwnPacket, ListInv, NoStaleNode
<1>10. CASE SendOwnPacket
  BY <1>10 DEF SendOwnPacket, ListInv, NoStaleNode
<1>11. CASE ScanBegin
  BY <1>11 DEF ScanBegin, ListInv, NoStaleNode
<1>12. CASE ScanExpired
  <2>1. iter \in list /\ iter \in Nodes
    BY <1>12 DEF ScanExpired, LockInv, TypeOK
  <2>2. \A m \in Nodes : event'[m] = IF m = iter THEN "timeout" ELSE event[m]
    BY <1>12 DEF ScanExpired, TypeOK
  <2>3. UNCHANGED <<list, outcome, pushed>> /\ ypc = "scan" /\ ypc' = "timeout_cb"
        /\ cur' = iter
    BY <1>12 DEF ScanExpired
  <2> QED
    BY <2>1, <2>2, <2>3 DEF ListInv, NoStaleNode, TypeOK
<1>13. CASE TimeoutCallbackReturns
  <2>1. list' = list \ {cur} /\ UNCHANGED <<event, outcome, pushed>>
        /\ ypc = "timeout_cb"
    BY <1>13 DEF TimeoutCallbackReturns, Unlink
  <2>2. event[cur] # "none"
    BY <2>1 DEF LockInv
  <2> QED
    BY <2>1, <2>2 DEF ListInv, NoStaleNode, TypeOK
<1>14. CASE ScanEnd
  BY <1>14 DEF ScanEnd, ListInv, NoStaleNode
<1> QED
  BY <1>1, <1>2, <1>3, <1>4, <1>5, <1>6, <1>7, <1>8, <1>9, <1>10, <1>11, <1>12, <1>13,
     <1>14 DEF Next, PublishStep, YieldStep, Environment, Publish, AllocId, ReadId,
     LockWriteBuf, FailEarly, SerializeQos0, SendFail, ScanLive, Expire, BrokerAcks,
     ConnectionLost, vars

\* Without a second thread, every step removes only nodes of the list.
LEMMA SoleStep ==
  ASSUME TypeOK, TypeOK', NodeInv, ListInv, LockInv, SoleInv, [Next]_vars
  PROVE  SoleInv'
<1> USE PublishAssumption DEF PublishAssumption, publishVars, listVars, writeVars,
   yieldVars
<1>1. CASE UNCHANGED <<misused, node, list>>
  BY <1>1 DEF SoleInv
<1>2. ASSUME NEW p \in Procs, PushPubInfo(p) PROVE SoleInv'
  BY <1>2 DEF PushPubInfo, SoleInv
<1>3. ASSUME NEW p \in Procs, SendOk(p) PROVE SoleInv'
  BY <1>3 DEF SendOk, SoleInv
<1>4. ASSUME NEW p \in Procs, RemoveFailed(p) PROVE SoleInv'
  BY <1>4 DEF RemoveFailed, SoleInv, NodeInv, TypeOK, Procs
<1>5. ASSUME NEW i \in acks, HandlePuback(i) PROVE SoleInv'
  BY <1>5 DEF HandlePuback, SoleInv, NodeInv, LockInv, Procs
<1>6. CASE TimeoutCallbackReturns
  BY <1>6 DEF TimeoutCallbackReturns, SoleInv, NodeInv, Procs
<1> QED
  BY <1>1, <1>2, <1>3, <1>4, <1>5, <1>6 DEF Next, PublishStep, YieldStep, Environment,
     Publish, AllocId, ReadId, LockWriteBuf, FailEarly, SerializeQos0, SendFail,
     YieldBegin, ReadNothing, AckCallbackReturns, WriteOwnPacket, SendOwnPacket,
     ScanBegin, ScanLive, ScanExpired, ScanEnd, Expire, BrokerAcks, ConnectionLost, vars

\* The initial states satisfy the inductive invariant.
LEMMA Initially ==
  Init => IInv
  <1>1. ASSUME Init PROVE TypeOK
    <2>1. 0 \in Ids /\ 0 \in Packets /\ 0 \in 0..MaxPubs
      BY PublishAssumption DEF PublishAssumption, Ids, Packets
    <2>2. sent \in (0..MaxPubs) \X Packets
      BY <1>1, <2>1 DEF Init
    <2> QED
      BY <1>1, <2>1, <2>2 DEF Init, TypeOK
  <1> SUFFICES ASSUME Init PROVE IInv
    OBVIOUS
  <1>2. WriterInv
    BY DEF Init, WriterInv, SentOwnPacket
  <1>3. NodeInv
    BY PublishAssumption DEF Init, NodeInv, Nodes, PublishAssumption
  <1>4. ListInv
    BY DEF Init, ListInv, NoStaleNode
  <1>5. LockInv
    BY PublishAssumption DEF PublishAssumption, Init, LockInv, Procs
  <1>6. IdInv
    BY DEF Init, IdInv, Nodes
  <1>7. SoleInv
    BY DEF Init, SoleInv, Procs
  <1> QED
    BY <1>1, <1>2, <1>3, <1>4, <1>5, <1>6, <1>7 DEF IInv

\* Every step preserves the inductive invariant.
LEMMA Inductive ==
  IInv /\ [Next]_vars => IInv'
  BY TypeStep, WriterStep, NodeStep, ListStep, LockStep, IdStep, SoleStep DEF IInv

\* The inductive invariant holds in every reachable state.
THEOREM Invariance ==
  Spec => []IInv
  BY Initially, Inductive, PTL DEF Spec

\* Every variable keeps its type, whatever the number of threads, publishes and
\* identifiers.
THEOREM TypeCorrect ==
  Spec => []TypeOK
  <1>1. IInv => TypeOK
    BY DEF IInv
  <1> QED
    BY <1>1, Invariance, PTL

\* send_mqtt_packet writes the packet its caller serialized: lock_write_buf is held
\* from the serialization to the end of the write.
THEOREM WritersSeparated ==
  Spec => []SentOwnPacket
  <1>1. IInv => SentOwnPacket
    BY DEF IInv, WriterInv
  <1> QED
    BY <1>1, Invariance, PTL

\* list_pub_wait_ack holds a publish from the moment it was accepted until its
\* event is raised, and nothing else.
THEOREM WaitListCorrect ==
  Spec => []WaitListIsExact
  <1>1. IInv => WaitListIsExact
    BY DEF IInv, ListInv, NoLostPublish, WaitListIsExact
  <1> QED
    BY <1>1, Invariance, PTL

\* The node that utils_list_process visits next survives the handler that is
\* running, whatever its callback publishes and the other threads do.
THEOREM IteratorValid ==
  Spec => []IteratorInList
  <1>1. IInv => IteratorInList
    BY DEF IInv, LockInv, IteratorInList
  <1> QED
    BY <1>1, Invariance, PTL

\* No QoS 1 publish is sent with packet id 0.
THEOREM IdsAreNonzero ==
  Spec => []IdsNonzero
  <1>1. IInv => IdsNonzero
    BY PublishAssumption DEF PublishAssumption, IInv, IdInv, IdsNonzero, TypeOK, Nodes
  <1> QED
    BY <1>1, Invariance, PTL

\* Two events of one publish are the timeout and, later, the success: nothing else that the
\* application was told is changed by an event.
THEOREM EventsAreOrdered ==
  Spec => EventsFollow
  <1> USE DEF publishVars, listVars, writeVars, yieldVars
  <1>1. IInv /\ [Next]_vars
        => [\A n \in Nodes : event'[n] # event[n] =>
               event[n] = "none" \/ (event[n] = "timeout" /\ event'[n] = "late")]_vars
    <2> SUFFICES ASSUME IInv, Next, NEW n \in Nodes, event'[n] # event[n]
                 PROVE  event[n] = "none" \/ (event[n] = "timeout" /\ event'[n] = "late")
      OBVIOUS
    <2>1. ASSUME NEW i \in acks, HandlePuback(i)
          PROVE  event[n] = "none" \/ (event[n] = "timeout" /\ event'[n] = "late")
      <3>1. PICK m \in Nodes :
                \/ event[m] = "none" /\ event' = [event EXCEPT ![m] = "success"]
                \/ event[m] = "timeout" /\ event' = [event EXCEPT ![m] = "late"]
        BY <2>1, PubackTells DEF IInv
      <3> QED
        BY <3>1 DEF IInv, TypeOK
    <2>2. CASE ScanExpired
      <3>1. event[iter] = "none"
        BY <2>2 DEF ScanExpired, IInv, LockInv
      <3> QED
        BY <2>2, <3>1 DEF ScanExpired, IInv, TypeOK
    <2>3. CASE UNCHANGED event
      BY <2>3
    <2>4. (\E i \in acks : HandlePuback(i)) \/ ScanExpired \/ UNCHANGED event
      BY DEF Next, PublishStep, YieldStep, Environment, Publish, AllocId, ReadId,
         LockWriteBuf, FailEarly, SerializeQos0, PushPubInfo, SendOk, SendFail,
         RemoveFailed, YieldBegin, ReadNothing, AckCallbackReturns, WriteOwnPacket,
         SendOwnPacket, ScanBegin, ScanLive, TimeoutCallbackReturns, ScanEnd, Expire,
         BrokerAcks, ConnectionLost
    <2> QED
      BY <2>1, <2>2, <2>3, <2>4
  <1> QED
    BY <1>1, Invariance, PTL DEF Spec, EventsFollow

\* The implementation keeps the promise made to the application, for any number of
\* threads: each step on the outcome or the event of a publish is one that
\* PublishPromise allows.
THEOREM PromiseKept ==
  Spec => KeepsPromise
  <1> USE DEF publishVars, listVars, writeVars, yieldVars
  <1>1. Init => Promise!Init
    BY DEF Init, Promise!Init
  <1>2. IInv /\ [Next]_vars => [Promise!Next]_<<outcome, event>>
    <2> SUFFICES ASSUME IInv, Next
                 PROVE  Promise!Next \/ UNCHANGED <<outcome, event>>
      BY DEF vars
    <2>1. ASSUME NEW p \in Procs, PushPubInfo(p) PROVE Promise!Next
      <3>1. pushed + 1 \in Nodes
        BY <2>1, PublishAssumption DEF PushPubInfo, PublishAssumption, Nodes, IInv, TypeOK
      <3>2. outcome[pushed + 1] = "none"
        BY <3>1 DEF IInv, NodeInv, TypeOK, Nodes
      <3>3. Promise!Start(pushed + 1)
        BY <2>1, <3>2 DEF PushPubInfo, Promise!Start
      <3> QED
        BY <3>1, <3>3 DEF Promise!Next
    <2>2. ASSUME NEW p \in Procs, SendOk(p) \/ RemoveFailed(p)
          PROVE  Promise!Next \/ UNCHANGED <<outcome, event>>
      <3>1. CASE node[p] \notin Nodes
        BY <2>2, <3>1 DEF SendOk, RemoveFailed, IInv, TypeOK
      <3>2. CASE node[p] \in Nodes
        <4>1. outcome[node[p]] = "sending"
          BY <3>2 DEF IInv, NodeInv, Nodes
        <4>2. Promise!Return(node[p], "accepted") \/ Promise!Return(node[p], "failed")
          BY <2>2, <3>2, <4>1 DEF SendOk, RemoveFailed, IInv, TypeOK, Promise!Return
        <4> QED
          BY <3>2, <4>2 DEF Promise!Next
      <3> QED
        BY <3>1, <3>2
    <2>3. ASSUME NEW i \in acks, HandlePuback(i)
          PROVE  Promise!Next \/ UNCHANGED <<outcome, event>>
      <3>1. CASE event' = event
        BY <2>3, <3>1 DEF HandlePuback
      <3>2. ASSUME NEW n \in Nodes, outcome[n] \in {"sending", "accepted"},
                   \/ event[n] = "none" /\ event' = [event EXCEPT ![n] = "success"]
                   \/ event[n] = "timeout" /\ event' = [event EXCEPT ![n] = "late"]
            PROVE  Promise!Next
        <4>1. outcome' = outcome
          BY <2>3 DEF HandlePuback
        <4>2. Promise!Raise(n, "success") \/ Promise!Correct(n)
          BY <3>2, <4>1 DEF Promise!Raise, Promise!Correct
        <4> QED
          BY <4>2 DEF Promise!Next, Promise!Resolve
      <3> QED
        BY <2>3, <3>1, <3>2, PubackTells DEF IInv
    <2>4. CASE ScanExpired
      <3>1. iter \in list /\ event[iter] = "none"
        BY <2>4 DEF ScanExpired, IInv, LockInv
      <3>2. iter \in Nodes /\ outcome[iter] \in {"sending", "accepted"}
        BY <3>1 DEF IInv, ListInv, NoStaleNode, TypeOK
      <3>3. Promise!Raise(iter, "timeout")
        BY <2>4, <3>1, <3>2 DEF ScanExpired, Promise!Raise
      <3> QED
        BY <3>2, <3>3 DEF Promise!Next, Promise!Resolve
    <2>5. \/ \E p \in Procs : PushPubInfo(p) \/ SendOk(p) \/ RemoveFailed(p)
          \/ \E i \in acks : HandlePuback(i)
          \/ ScanExpired
          \/ UNCHANGED <<outcome, event>>
      BY DEF Next, PublishStep, YieldStep, Environment, Publish, AllocId, ReadId,
         LockWriteBuf, FailEarly, SerializeQos0, SendFail, YieldBegin, ReadNothing,
         AckCallbackReturns, WriteOwnPacket, SendOwnPacket, ScanBegin, ScanLive,
         TimeoutCallbackReturns, ScanEnd, Expire, BrokerAcks, ConnectionLost
    <2> QED
      BY <2>1, <2>2, <2>3, <2>4, <2>5
  <1> QED
    BY <1>1, <1>2, Invariance, PTL DEF Spec, KeepsPromise, Promise!Spec

\* In a build without threads no node is removed twice, however the callbacks
\* publish and fail: the double removal needs a second thread.
THEOREM SoleThreadRemovesListedNode ==
  ASSUME Threads = {}
  PROVE  Spec => []RemovesListedNode
  <1>1. IInv => RemovesListedNode
    BY DEF IInv, SoleInv, RemovesListedNode
  <1> QED
    BY <1>1, Invariance, PTL

-------------------------------------------------------------------------------
(* What the application of one thread is told, while the counter of packet *)
(* ids does not come round: MaxPubs calls take each id once at most.       *)

\* A publish that has failed, or can still fail, has no event.
FailedInv ==
    /\ \A n \in Nodes : outcome[n] = "failed" => event[n] = "none"
    /\ node[Y] # 0 => event[node[Y]] = "none"

\* How many ids have been taken since i, if c was the last.
Since(i, c) == IF i <= c THEN c - i ELSE c + MaxPacketId - i

\* Each node has an id of its own, the one in hand is that of no node yet.
ApartInv ==
    /\ pc[Y] # "idle" => calls > 0
    /\ \A m, n \in 1..pushed : packet_id[m] = packet_id[n] => m = n
    /\ \A n \in 1..pushed : Since(packet_id[n], next_packet_id) < calls
    /\ pc[Y] = "alloc" => \A n \in 1..pushed : Since(packet_id[n], next_packet_id) + 1 < calls
    /\ pc[Y] = "read_id" \/ (qos[Y] = 1 /\ pc[Y] \in {"lock", "serialize"}) =>
          \A n \in 1..pushed : Since(packet_id[n], next_packet_id) > 0
    /\ qos[Y] = 1 /\ pc[Y] \in {"lock", "serialize"} => id[Y] = next_packet_id

\* A PUBACK is for a node that the broker has received, and so is each success.
AnswerInv ==
    /\ wire \cup received \subseteq 1..pushed
    /\ \A i \in acks : \E n \in received : packet_id[n] = i
    /\ \A n \in Nodes : event[n] \in {"success", "late"} => n \in received

EventInv == FailedInv /\ ApartInv /\ AnswerInv

\* An id that is taken is the last one; every other is one further back, but for the one
\* that is as far back as there are ids.
LEMMA SinceFacts ==
  ASSUME NEW i \in 1..MaxPacketId, NEW c \in Ids
  PROVE  /\ Since(i, c) \in Nat
         /\ Since(i, c) + 1 < MaxPacketId => Since(i, NextPacketId(c)) = Since(i, c) + 1
         /\ Since(i, c) = 0 => i = c \/ (c = 0 /\ i = MaxPacketId)
         /\ c # 0 => Since(c, c) = 0
<1>1. MaxPacketId \in Nat \ {0} /\ c \in 0..MaxPacketId
  BY PublishAssumption DEF PublishAssumption, Ids
<1>2. Since(i, c) \in Nat
  BY <1>1 DEF Since
<1>3. Since(i, c) + 1 < MaxPacketId => Since(i, NextPacketId(c)) = Since(i, c) + 1
  <2>1. CASE c = MaxPacketId
    BY <1>1, <2>1 DEF Since, NextPacketId
  <2>2. CASE c # MaxPacketId
    BY <1>1, <2>2 DEF Since, NextPacketId
  <2> QED
    BY <2>1, <2>2
<1>4. Since(i, c) = 0 => i = c \/ (c = 0 /\ i = MaxPacketId)
  BY <1>1 DEF Since
<1>5. c # 0 => Since(c, c) = 0
  BY <1>1 DEF Since
<1> QED
  BY <1>2, <1>3, <1>4, <1>5

LEMMA PushedIds ==
  ASSUME IInv
  PROVE  /\ pushed \in Nat /\ 1..pushed \subseteq Nodes /\ calls \in Nat /\ calls <= MaxPubs /\ MaxPubs \in Nat
         /\ \A n \in 1..pushed : packet_id[n] \in 1..MaxPacketId
         /\ next_packet_id \in Ids /\ MaxPacketId \in Nat \ {0}
<1>1. MaxPubs \in Nat /\ MaxPacketId \in Nat \ {0}
  BY PublishAssumption DEF PublishAssumption
<1>2. pushed \in 0..MaxPubs /\ calls \in 0..MaxPubs /\ packet_id \in [Nodes -> Ids] /\ next_packet_id \in Ids
  BY DEF IInv, TypeOK
<1>3. 1..pushed \subseteq Nodes
  BY <1>1, <1>2 DEF Nodes
<1>4. ASSUME NEW n \in 1..pushed
      PROVE  packet_id[n] \in 1..MaxPacketId
  <2>1. n \in Nodes /\ n <= pushed
    BY <1>2, <1>3
  <2>2. packet_id[n] \in 0..MaxPacketId /\ packet_id[n] # 0
    BY <1>2, <2>1 DEF IInv, IdInv, Ids
  <2> QED
    BY <1>1, <2>2
<1> QED
  BY <1>1, <1>2, <1>3, <1>4

\* While Y reads, or goes through the list, it has no publish in hand.
LEMMA NoneInHand ==
  ASSUME IInv, ypc \in {"read", "own_send", "timeouts", "scan"}
  PROVE  node[Y] = 0
<1>1. Y \in Procs /\ pc[Y] = "idle"
  BY DEF IInv, LockInv, Procs
<1> QED
  BY <1>1 DEF IInv, NodeInv

LEMMA FailedStep ==
  ASSUME Threads = {}, IInv, FailedInv, [Next]_vars
  PROVE  FailedInv'
<1> USE DEF publishVars, listVars, writeVars, yieldVars
<1>1. Procs = {Y}
  BY DEF Procs
<1>2. node \in [Procs -> 0..MaxPubs] /\ outcome \in [Nodes -> {"none", "sending", "accepted", "failed"}]
      /\ event \in [Nodes -> {"none", "success", "timeout", "late"}]
  BY DEF IInv, TypeOK
<1>3. CASE PushPubInfo(Y)
  <2>1. pushed' \in Nodes /\ pushed' = pushed + 1 /\ pushed \in Nat
    BY <1>3, PublishAssumption DEF PushPubInfo, Nodes, IInv, TypeOK, PublishAssumption
  <2>2. event[pushed'] = "none"
    <3>1. ~(pushed' <= pushed)
      BY <2>1
    <3> QED
      BY <2>1, <3>1 DEF IInv, ListInv
  <2>3. node'[Y] = pushed' /\ event' = event
    BY <1>1, <1>2, <1>3 DEF PushPubInfo
  <2>4. \A n \in Nodes : outcome'[n] = "failed" => outcome[n] = "failed"
    BY <1>2, <1>3 DEF PushPubInfo
  <2> QED
    BY <2>2, <2>3, <2>4 DEF FailedInv
<1>4. CASE SendOk(Y)
  <2>1. node'[Y] = 0 /\ event' = event
    BY <1>1, <1>2, <1>4 DEF SendOk
  <2>2. \A n \in Nodes : outcome'[n] = "failed" => outcome[n] = "failed"
    BY <1>2, <1>4 DEF SendOk
  <2> QED
    BY <2>1, <2>2 DEF FailedInv
<1>5. CASE RemoveFailed(Y)
  <2>1. node'[Y] = 0 /\ event' = event /\ node[Y] # 0
    <3>1. node[Y] # 0
      BY <1>1, <1>5 DEF RemoveFailed, IInv, NodeInv
    <3> QED
      BY <1>1, <1>2, <1>5, <3>1 DEF RemoveFailed
  <2>2. \A n \in Nodes : outcome'[n] = "failed" => outcome[n] = "failed" \/ n = node[Y]
    BY <1>2, <1>5 DEF RemoveFailed
  <2> QED
    BY <2>1, <2>2 DEF FailedInv
<1>6. ASSUME NEW i \in acks, HandlePuback(i)
      PROVE  FailedInv'
  <2>1. node[Y] = 0 /\ node' = node /\ outcome' = outcome
    BY <1>6, NoneInHand DEF HandlePuback
  <2>2. \A k \in Nodes : outcome[k] = "failed" => event'[k] = event[k]
    BY <1>2, <1>6, PubackTells DEF IInv
  <2> QED
    BY <2>1, <2>2 DEF FailedInv
<1>7. CASE ScanExpired
  <2>1. iter \in list /\ outcome[iter] \in {"sending", "accepted"}
    BY <1>7 DEF ScanExpired, IInv, LockInv, ListInv, NoStaleNode
  <2>2. node[Y] = 0 /\ node' = node /\ outcome' = outcome
    BY <1>7, NoneInHand DEF ScanExpired
  <2>3. \A k \in Nodes : k # iter => event'[k] = event[k]
    BY <1>2, <1>7 DEF ScanExpired
  <2> QED
    BY <2>1, <2>2, <2>3 DEF FailedInv
<1>8. CASE UNCHANGED <<outcome, event, node>>
  BY <1>8 DEF FailedInv
<1>9. \/ \E p \in Procs : PushPubInfo(p) \/ SendOk(p) \/ RemoveFailed(p)
      \/ \E i \in acks : HandlePuback(i)
      \/ ScanExpired
      \/ UNCHANGED <<outcome, event, node>>
  BY DEF Next, PublishStep, YieldStep, Environment, Publish, AllocId, ReadId,
     LockWriteBuf, FailEarly, SerializeQos0, SendFail, YieldBegin, ReadNothing,
     AckCallbackReturns, WriteOwnPacket, SendOwnPacket, ScanBegin, ScanLive,
     TimeoutCallbackReturns, ScanEnd, Expire, BrokerAcks, ConnectionLost, vars
<1> QED
  BY <1>1, <1>3, <1>4, <1>5, <1>6, <1>7, <1>8, <1>9

\* The id that is taken is that of no node: as many ids as there are calls are different.
LEMMA ApartStep ==
  ASSUME Threads = {}, MaxPubs <= MaxPacketId, IInv, ApartInv, [Next]_vars
  PROVE  ApartInv'
<1> USE DEF publishVars, listVars, writeVars, yieldVars
<1>1. Procs = {Y} /\ Y \in Procs
  BY DEF Procs
<1>2. /\ pc \in [Procs -> {"idle", "alloc", "read_id", "lock", "serialize", "send", "remove"}]
      /\ qos \in [Procs -> {0, 1}] /\ id \in [Procs -> Ids] /\ packet_id \in [Nodes -> Ids]
  BY DEF IInv, TypeOK
<1>3. /\ pushed \in Nat /\ 1..pushed \subseteq Nodes /\ calls \in Nat /\ calls <= MaxPubs /\ MaxPubs \in Nat
      /\ \A n \in 1..pushed : packet_id[n] \in 1..MaxPacketId
      /\ next_packet_id \in Ids /\ MaxPacketId \in Nat \ {0}
  BY PushedIds
<1>4. \A n \in 1..pushed : Since(packet_id[n], next_packet_id) \in Nat
  BY <1>3, SinceFacts
<1>5. CASE Publish(Y)
  <2>1. calls' = calls + 1 /\ UNCHANGED <<next_packet_id, pushed, packet_id>> /\ pc'[Y] \in {"alloc", "lock"}
        /\ (pc'[Y] = "lock" => qos'[Y] = 0)
    BY <1>1, <1>2, <1>5 DEF Publish
  <2>2. \A n \in 1..pushed : Since(packet_id[n], next_packet_id) + 1 < calls'
    BY <1>3, <1>4, <2>1 DEF ApartInv
  <2>3. \A n \in 1..pushed : Since(packet_id[n], next_packet_id) < calls'
    BY <1>3, <1>4, <2>1, <2>2
  <2> QED
    BY <1>3, <2>1, <2>2, <2>3 DEF ApartInv
<1>6. CASE AllocId(Y)
  <2>1. pc[Y] = "alloc" /\ pc'[Y] = "read_id" /\ next_packet_id' = NextPacketId(next_packet_id)
        /\ UNCHANGED <<calls, pushed, packet_id>>
    BY <1>1, <1>2, <1>6 DEF AllocId
  <2>2. ASSUME NEW n \in 1..pushed
        PROVE  /\ Since(packet_id[n], next_packet_id') < calls
               /\ Since(packet_id[n], next_packet_id') > 0
    <3> DEFINE s == Since(packet_id[n], next_packet_id)
    <3>1. s \in Nat /\ s + 1 < calls
      BY <1>4, <2>1 DEF ApartInv
    <3>2. s + 1 < MaxPacketId
      BY <1>3, <3>1
    <3>3. Since(packet_id[n], next_packet_id') = s + 1
      BY <1>3, <2>1, <3>2, SinceFacts
    <3> QED
      BY <3>1, <3>3
  <2> QED
    BY <2>1, <2>2 DEF ApartInv
<1>7. CASE ReadId(Y)
  <2>1. pc[Y] = "read_id" /\ pc'[Y] = "lock" /\ id'[Y] = next_packet_id
        /\ UNCHANGED <<next_packet_id, calls, pushed, packet_id>>
    BY <1>1, <1>2, <1>7 DEF ReadId
  <2> QED
    BY <2>1 DEF ApartInv
<1>8. CASE LockWriteBuf(Y)
  <2>1. pc[Y] = "lock" /\ pc'[Y] = "serialize" /\ UNCHANGED <<next_packet_id, calls, pushed, packet_id, qos, id>>
    BY <1>1, <1>2, <1>8 DEF LockWriteBuf
  <2> QED
    BY <2>1 DEF ApartInv
<1>9. CASE FailEarly(Y) \/ SerializeQos0(Y) \/ SendOk(Y) \/ SendFail(Y) \/ RemoveFailed(Y)
  <2>1. pc'[Y] \in {"idle", "send", "remove"} /\ pc[Y] # "idle" /\ UNCHANGED <<next_packet_id, calls, pushed, packet_id>>
    BY <1>1, <1>2, <1>9 DEF FailEarly, SerializeQos0, SendOk, SendFail, RemoveFailed
  <2> QED
    BY <2>1 DEF ApartInv
<1>10. CASE PushPubInfo(Y)
  <2>1. pc[Y] = "serialize" /\ qos[Y] = 1 /\ pc'[Y] = "send" /\ UNCHANGED <<next_packet_id, calls>>
        /\ pushed' = pushed + 1 /\ pushed' \in Nodes
    BY <1>1, <1>2, <1>3, <1>10 DEF PushPubInfo, Nodes
  <2>2. id[Y] = next_packet_id /\ id[Y] # 0
    BY <1>1, <2>1 DEF ApartInv, IInv, IdInv
  <2>3. packet_id'[pushed'] = next_packet_id /\ \A n \in 1..pushed : packet_id'[n] = packet_id[n]
    <3>1. packet_id' = [packet_id EXCEPT ![pushed'] = id[Y]]
      BY <1>10 DEF PushPubInfo
    <3>2. \A n \in 1..pushed : n # pushed' /\ n \in Nodes
      BY <1>3, <2>1
    <3> QED
      BY <1>2, <2>1, <2>2, <3>1, <3>2
  <2>4. next_packet_id \in 1..MaxPacketId
    BY <1>3, <2>2 DEF Ids
  <2>5. Since(next_packet_id, next_packet_id) = 0
    BY <1>3, <2>2, <2>4, SinceFacts
  <2>6. \A n \in 1..pushed : packet_id[n] # next_packet_id
    <3> TAKE n \in 1..pushed
    <3>1. Since(packet_id[n], next_packet_id) > 0
      BY <2>1 DEF ApartInv
    <3> QED
      BY <2>5, <3>1
  <2>7. \A n \in 1..pushed' : n \in 1..pushed \/ n = pushed'
    BY <1>3, <2>1
  <2>8. \A m, n \in 1..pushed' : packet_id'[m] = packet_id'[n] => m = n
    <3> TAKE m, n \in 1..pushed'
    <3>1. CASE m \in 1..pushed /\ n \in 1..pushed
      BY <2>3, <3>1 DEF ApartInv
    <3>2. CASE m = pushed' \/ n = pushed'
      BY <2>3, <2>6, <2>7, <3>2
    <3> QED
      BY <2>7, <3>1, <3>2
  <2>9. \A n \in 1..pushed' : Since(packet_id'[n], next_packet_id) < calls
    <3> TAKE n \in 1..pushed'
    <3>1. CASE n \in 1..pushed
      BY <2>3, <3>1 DEF ApartInv
    <3>2. CASE n = pushed'
      BY <2>1, <2>3, <2>5, <3>2 DEF ApartInv
    <3> QED
      BY <2>7, <3>1, <3>2
  <2> QED
    BY <2>1, <2>8, <2>9 DEF ApartInv
<1>11. CASE UNCHANGED <<calls, pc, qos, id, next_packet_id, pushed, packet_id>>
  BY <1>11 DEF ApartInv
<1>12. \/ \E p \in Procs : Publish(p) \/ PublishStep(p)
       \/ UNCHANGED <<calls, pc, qos, id, next_packet_id, pushed, packet_id>>
  BY DEF Next, YieldStep, Environment, YieldBegin, ReadNothing, HandlePuback,
     AckCallbackReturns, WriteOwnPacket, SendOwnPacket, ScanBegin, ScanLive, ScanExpired,
     TimeoutCallbackReturns, ScanEnd, Expire, BrokerAcks, ConnectionLost, vars
<1> QED
  BY <1>1, <1>5, <1>6, <1>7, <1>8, <1>9, <1>10, <1>11, <1>12 DEF PublishStep

\* A PUBACK finds the node it is for, or none.
LEMMA AnswerStep ==
  ASSUME IInv, ApartInv, AnswerInv, [Next]_vars
  PROVE  AnswerInv'
<1> USE DEF publishVars, listVars, writeVars, yieldVars
<1>1. pushed \in Nat /\ 1..pushed \subseteq Nodes
  BY PushedIds
<1>2. ASSUME NEW p \in Procs, PushPubInfo(p)
      PROVE  AnswerInv'
  <2>1. pushed' = pushed + 1 /\ UNCHANGED <<wire, received, acks, event>>
    BY <1>2 DEF PushPubInfo
  <2>2. 1..pushed \subseteq 1..pushed'
    BY <1>1, <2>1
  <2>3. \A n \in 1..pushed : packet_id'[n] = packet_id[n]
    <3>1. \A n \in 1..pushed : n # pushed' /\ n \in Nodes
      BY <1>1, <2>1
    <3> QED
      BY <1>2, <3>1 DEF PushPubInfo, IInv, TypeOK
  <2> QED
    BY <2>1, <2>2, <2>3 DEF AnswerInv
<1>3. ASSUME NEW p \in Procs, SendOk(p)
      PROVE  AnswerInv'
  <2>1. write_buf = node[p] /\ (node[p] # 0 => node[p] \in 1..pushed)
    <3>1. write_buf = node[p] /\ node[p] \in 0..MaxPubs /\ (node[p] # 0 => node[p] <= pushed)
      BY <1>3 DEF SendOk, IInv, WriterInv, NodeInv, TypeOK
    <3> QED
      BY <1>1, <3>1, PublishAssumption DEF PublishAssumption
  <2>2. wire' = wire \cup ({write_buf} \ {0}) /\ UNCHANGED <<pushed, packet_id, received, acks, event>>
    BY <1>3 DEF SendOk
  <2> QED
    BY <2>1, <2>2 DEF AnswerInv
<1>4. ASSUME NEW n \in Nodes, BrokerAcks(n)
      PROVE  AnswerInv'
  BY <1>4 DEF BrokerAcks, AnswerInv
<1>5. CASE ConnectionLost
  BY <1>5 DEF ConnectionLost, AnswerInv
<1>6. ASSUME NEW i \in acks, HandlePuback(i)
      PROVE  AnswerInv'
  <2>1. acks' = acks \ {i} /\ UNCHANGED <<wire, received, pushed, packet_id>>
    BY <1>6 DEF HandlePuback
  <2>2. ASSUME NEW n \in 1..pushed, packet_id[n] = i
        PROVE  n \in received
    <3>1. PICK m \in received : packet_id[m] = i
      BY DEF AnswerInv
    <3>2. m \in 1..pushed
      BY DEF AnswerInv
    <3> QED
      BY <2>2, <3>1, <3>2 DEF ApartInv
  <2>3. \A n \in Nodes : event'[n] # event[n] => n \in received
    BY <1>6, <2>2, PubackTells DEF IInv, TypeOK
  <2> QED
    BY <2>1, <2>3 DEF AnswerInv
<1>7. CASE ScanExpired
  <2>1. \A n \in Nodes : event'[n] \in {"success", "late"} => event'[n] = event[n]
    BY <1>7 DEF ScanExpired, IInv, TypeOK
  <2>2. UNCHANGED <<wire, received, pushed, packet_id, acks>>
    BY <1>7 DEF ScanExpired
  <2> QED
    BY <2>1, <2>2 DEF AnswerInv
<1>8. CASE UNCHANGED <<wire, received, pushed, packet_id, acks, event>>
  BY <1>8 DEF AnswerInv
<1>9. \/ \E p \in Procs : PushPubInfo(p) \/ SendOk(p)
      \/ \E n \in Nodes : BrokerAcks(n)
      \/ \E i \in acks : HandlePuback(i)
      \/ ConnectionLost \/ ScanExpired
      \/ UNCHANGED <<wire, received, pushed, packet_id, acks, event>>
  BY DEF Next, PublishStep, YieldStep, Environment, Publish, AllocId, ReadId,
     LockWriteBuf, FailEarly, SerializeQos0, SendFail, RemoveFailed, YieldBegin, ReadNothing,
     AckCallbackReturns, WriteOwnPacket, SendOwnPacket, ScanBegin, ScanLive,
     TimeoutCallbackReturns, ScanEnd, Expire, vars
<1> QED
  BY <1>2, <1>3, <1>4, <1>5, <1>6, <1>7, <1>8, <1>9

LEMMA EventInit == Init => EventInv
<1> SUFFICES ASSUME Init PROVE EventInv
  OBVIOUS
<1>1. FailedInv
  BY DEF Init, FailedInv, Procs
<1>2. pc[Y] = "idle" /\ pushed = 0
  BY DEF Init, Procs
<1>3. ApartInv
  BY <1>2 DEF ApartInv
<1>4. AnswerInv
  BY DEF Init, AnswerInv
<1> QED
  BY <1>1, <1>3, <1>4 DEF EventInv

\* In a build without threads the application is told the truth, as long as the counter of
\* packet ids does not come round: a success is of a message the broker has received, a
\* publish that has failed gets no event, and no two wait under one id, however late
\* the answers are and however the callbacks publish and fail.
THEOREM EventsTellTheTruth ==
  ASSUME Threads = {}, MaxPubs <= MaxPacketId
  PROVE  Spec => []EventsAreTrue
<1>1. IInv /\ EventInv /\ [Next]_vars => EventInv'
  BY FailedStep, ApartStep, AnswerStep DEF EventInv
<1>2. IInv /\ EventInv => EventsAreTrue
  <2> SUFFICES ASSUME IInv, EventInv PROVE EventsAreTrue
    OBVIOUS
  <2>1. \A n \in list : n \in 1..pushed
    <3> TAKE n \in list
    <3>1. n <= pushed /\ n \in 1..MaxPubs /\ MaxPubs \in Nat /\ pushed \in Nat
      BY PublishAssumption, PushedIds DEF IInv, ListInv, TypeOK, Nodes, PublishAssumption
    <3> QED
      BY <3>1
  <2>2. WaitingIdsDiffer
    BY <2>1 DEF WaitingIdsDiffer, EventInv, ApartInv
  <2> QED
    BY <2>2 DEF EventsAreTrue, EventInv, FailedInv, AnswerInv
<1> QED
  BY <1>1, <1>2, EventInit, Invariance, PTL DEF Spec

-------------------------------------------------------------------------------
(* list_pub_wait_ack, taken here for a set of numbers, is a list of utils_list.c:    *)
(* linked nodes at any addresses.  That such a list is the sequence that the clients *)
(* of utils_list.h take it for is shown of every list, in the words of UtilsList.    *)

OrNull == Cells \cup {NULL}

\* A list l, of the nodes h, is made of the chain c of different nodes, which are the ones
\* in use.
IsMadeOf(l, h, used, c) ==
    /\ c \in [1..l.len -> Cells]
    /\ \A i, j \in 1..l.len : c[i] = c[j] => i = j
    /\ used = {c[k] : k \in 1..l.len}
    /\ \A k \in 1..l.len :
          /\ h[c[k]].prev = IF k = 1 THEN NULL ELSE c[k - 1]
          /\ h[c[k]].next = IF k = l.len THEN NULL ELSE c[k + 1]
          /\ h[c[k]].val \in Vals
    /\ l.head = IF l.len > 0 THEN c[1] ELSE NULL
    /\ l.tail = IF l.len > 0 THEN c[l.len] ELSE NULL

LinkedTypes ==
    /\ exists \in BOOLEAN
    /\ heap \in [Cells -> [prev : OrNull, next : OrNull, val : Vals \cup {NULL}]]
    /\ self \in [head : OrNull, tail : OrNull, len : Nat]
    /\ iterator \in [direction : {"LIST_HEAD", "LIST_TAIL"}, next : OrNull, node : OrNull,
                     pc : {"idle", "while", "handle"}]

\* What a traversal stands on is in the list, and the node in hand is not the next one.
TraversalInv ==
    /\ iterator.next \in allocated \cup {NULL}
    /\ iterator.node \in allocated \cup {NULL}
    /\ iterator.node # NULL => iterator.node # iterator.next
    /\ iterator.pc = "idle" => iterator = List!Idle
    /\ iterator.pc = "while" => iterator.node = NULL
    /\ ~exists => self.len = 0 /\ iterator.pc = "idle"

LinkedInv ==
    /\ LinkedTypes
    /\ IsMadeOf(self, heap, allocated, List!Chain)
    /\ TraversalInv

\* The pointers of the nodes h lead from the head of l along the chain.
Links(l, h, chain) ==
    \A k \in 1..l.len :
        chain[k] = IF k = 1 THEN l.head
                   ELSE IF chain[k - 1] = NULL THEN NULL ELSE h[chain[k - 1]].next

\* There is one chain at most: the pointers lead from one node to one other.
LEMMA OneChain ==
  ASSUME NEW l, l.len \in Nat, NEW h, NEW c \in [1..l.len -> OrNull], NEW d \in [1..l.len -> OrNull],
         Links(l, h, c), Links(l, h, d)
  PROVE  c = d
<1> DEFINE Differ == {k \in 1..l.len : c[k] # d[k]}
<1>1. CASE Differ = {}
  BY <1>1
<1>2. CASE Differ # {}
  <2>1. PICK k \in Differ : \A m \in Differ : k <= m
    <3>1. Differ \in SUBSET Nat
      OBVIOUS
    <3> HIDE DEF Differ
    <3> QED
      BY <1>2, <3>1, LeastElement
  <2>2. k # 1
    BY <2>1 DEF Links
  <2>3. k - 1 \in 1..l.len /\ k - 1 \notin Differ
    BY <2>1, <2>2
  <2> QED
    BY <2>1, <2>2, <2>3 DEF Links
<1> QED
  BY <1>1, <1>2

\* What a list is made of is what Chain follows the pointers to.
LEMMA ChainIsUnique ==
  ASSUME NULL \notin Cells, NEW l, l.len \in Nat, NEW h, NEW used, NEW c, IsMadeOf(l, h, used, c)
  PROVE  c = CHOOSE chain \in [1..l.len -> OrNull] : Links(l, h, chain)
<1> DEFINE d == CHOOSE chain \in [1..l.len -> OrNull] : Links(l, h, chain)
<1>1. c \in [1..l.len -> OrNull]
  BY DEF IsMadeOf, OrNull
<1>2. ASSUME NEW k \in 1..l.len
      PROVE  c[k] = IF k = 1 THEN l.head ELSE IF c[k - 1] = NULL THEN NULL ELSE h[c[k - 1]].next
  <2>1. CASE k = 1
    BY <2>1 DEF IsMadeOf
  <2>2. CASE k # 1
    <3>1. k - 1 \in 1..l.len /\ k - 1 # l.len /\ (k - 1) + 1 = k
      BY <2>2
    <3>2. c[k - 1] \in Cells /\ h[c[k - 1]].next = c[k]
      BY <3>1 DEF IsMadeOf
    <3> QED
      BY <2>2, <3>2
  <2> QED
    BY <2>1, <2>2
<1>3. Links(l, h, c)
  BY <1>2 DEF Links
<1>4. d \in [1..l.len -> OrNull] /\ Links(l, h, d)
  BY <1>1, <1>3
<1>5. c = d
  <2> HIDE DEF d
  <2> QED
    BY <1>1, <1>3, <1>4, OneChain
<1> QED
  BY <1>5

LEMMA ChainIs ==
  ASSUME NULL \notin Cells, self.len \in Nat, NEW used, NEW c, IsMadeOf(self, heap, used, c)
  PROVE  List!Chain = c
<1>1. List!Chain = CHOOSE chain \in [1..self.len -> OrNull] : Links(self, heap, chain)
  BY DEF List!Chain, OrNull, Links
<1> QED
  BY <1>1, ChainIsUnique

LEMMA ChainWillBe ==
  ASSUME NULL \notin Cells, self'.len \in Nat, NEW used, NEW c, IsMadeOf(self', heap', used, c)
  PROVE  List!Chain' = c
<1>1. List!Chain' = CHOOSE chain \in [1..self'.len -> OrNull] : Links(self', heap', chain)
  BY DEF List!Chain, OrNull, Links
<1> QED
  BY <1>1, ChainIsUnique

\* The values of the list and where the traversal is, as the promise has them.
Items == [k \in DOMAIN List!Chain |-> IF List!Chain[k] = NULL THEN NULL ELSE heap[List!Chain[k]].val]
Hand  == List!Place(iterator.node)
Turn  == List!Place(iterator.next)
Step  == IF iterator.pc = "idle" THEN 0 ELSE IF iterator.direction = "LIST_HEAD" THEN 1 ELSE -1

\* What LinkedInv says of the values.
LEMMA ItemsFacts ==
  ASSUME NULL \notin Cells, LinkedInv
  PROVE  /\ Items = [k \in 1..self.len |-> heap[List!Chain[k]].val]
         /\ Items \in Seq(Vals) /\ Len(Items) = self.len /\ DOMAIN Items = 1..self.len
         /\ \A k \in 1..self.len : Items[k] = heap[List!Chain[k]].val
<1>1. DOMAIN List!Chain = 1..self.len /\ \A k \in 1..self.len : List!Chain[k] \in Cells /\ List!Chain[k] # NULL
  BY DEF LinkedInv, IsMadeOf
<1>2. Items = [k \in 1..self.len |-> heap[List!Chain[k]].val]
  BY <1>1 DEF Items
<1>3. \A k \in 1..self.len : heap[List!Chain[k]].val \in Vals
  BY DEF LinkedInv, IsMadeOf
<1>4. self.len \in Nat
  BY DEF LinkedInv, LinkedTypes
<1> QED
  BY <1>2, <1>3, <1>4

\* A node of the chain has one place, and what is none has no place.
LEMMA PlaceFacts ==
  ASSUME NULL \notin Cells, LinkedInv
  PROVE  /\ \A k \in 1..self.len : /\ iterator.node = List!Chain[k] => Hand = k
                                   /\ iterator.next = List!Chain[k] => Turn = k
         /\ iterator.node = NULL => Hand = 0
         /\ iterator.next = NULL => Turn = 0
<1>1. DOMAIN List!Chain = 1..self.len /\ \A k \in 1..self.len : List!Chain[k] \in Cells
  BY DEF LinkedInv, IsMadeOf
<1>2. \A i, j \in 1..self.len : List!Chain[i] = List!Chain[j] => i = j
  BY DEF LinkedInv, IsMadeOf
<1>3. ASSUME NEW k \in 1..self.len PROVE List!Place(List!Chain[k]) = k
  BY <1>1, <1>2 DEF List!Place
<1>4. List!Place(NULL) = 0
  BY <1>1 DEF List!Place
<1> QED
  BY <1>3, <1>4 DEF Hand, Turn

\* The same of the next state, when a chain is known that its list is made of.
LEMMA WillBeFacts ==
  ASSUME NULL \notin Cells, LinkedTypes', NEW d, IsMadeOf(self', heap', allocated', d), TraversalInv'
  PROVE  /\ LinkedInv'
         /\ Items' = [k \in 1..self'.len |-> heap'[d[k]].val]
         /\ \A k \in 1..self'.len : /\ iterator'.node = d[k] => Hand' = k
                                    /\ iterator'.next = d[k] => Turn' = k
         /\ iterator'.node = NULL => Hand' = 0
         /\ iterator'.next = NULL => Turn' = 0
<1>1. List!Chain' = d
  <2>1. self'.len \in Nat
    BY DEF LinkedTypes
  <2> QED
    BY <2>1, ChainWillBe
<1>2. DOMAIN d = 1..self'.len /\ \A k \in 1..self'.len : d[k] \in Cells /\ d[k] # NULL
  BY DEF IsMadeOf
<1>3. \A i, j \in 1..self'.len : d[i] = d[j] => i = j
  BY DEF IsMadeOf
<1>4. Items' = [k \in 1..self'.len |-> heap'[d[k]].val]
  BY <1>1, <1>2 DEF Items
<1>5. ASSUME NEW k \in 1..self'.len
      PROVE  (iterator'.node = d[k] => Hand' = k) /\ (iterator'.next = d[k] => Turn' = k)
  BY <1>1, <1>2, <1>3 DEF List!Place, Hand, Turn
<1>6. (iterator'.node = NULL => Hand' = 0) /\ (iterator'.next = NULL => Turn' = 0)
  BY <1>1, <1>2 DEF List!Place, Hand, Turn
<1>7. LinkedInv'
  BY <1>1 DEF LinkedInv
<1> QED
  BY <1>4, <1>5, <1>6, <1>7

\* A sequence is given by its length and its elements.
LEMMA SameSequence ==
  ASSUME NEW S, NEW s \in Seq(S), NEW t, t = [k \in 1..Len(s) |-> t[k]],
         \A k \in 1..Len(s) : t[k] = s[k]
  PROVE  t = s
OBVIOUS

\* utils_list_push.
LEMMA PushStep ==
  ASSUME NULL \notin Cells, LinkedInv, NEW v \in Vals, NEW n \in Cells, List!Push(v, n)
  PROVE  LinkedInv' /\ List!Promised!Push(v)
<1> DEFINE c == List!Chain
           d == [k \in 1..(self.len + 1) |-> IF k <= self.len THEN c[k] ELSE n]
<1>1. /\ self.len \in Nat
      /\ c \in [1..self.len -> Cells]
      /\ allocated = {c[k] : k \in 1..self.len}
      /\ \A k \in 1..self.len : c[k] # n
  BY DEF LinkedInv, LinkedTypes, IsMadeOf, List!Push
<1>2. self' = [head |-> IF self.len > 0 THEN self.head ELSE n, tail |-> n, len |-> self.len + 1]
  BY DEF List!Push
<1>3. \A m \in Cells :
         /\ heap'[m].prev = IF m = n THEN (IF self.len > 0 THEN self.tail ELSE NULL) ELSE heap[m].prev
         /\ heap'[m].next = IF m = n THEN NULL
                            ELSE IF self.len > 0 /\ m = self.tail THEN n ELSE heap[m].next
         /\ heap'[m].val = IF m = n THEN v ELSE heap[m].val
  BY DEF List!Push, LinkedInv, LinkedTypes
<1>4. IsMadeOf(self', heap', allocated', d)
  <2>1. d \in [1..self'.len -> Cells]
    BY <1>1, <1>2
  <2>2. \A i, j \in 1..self'.len : d[i] = d[j] => i = j
    BY <1>1, <1>2 DEF LinkedInv, IsMadeOf
  <2>3. allocated' = {d[k] : k \in 1..self'.len}
    <3>1. allocated' = allocated \cup {n}
      BY DEF List!Push
    <3>2. \A k \in 1..self.len : k \in 1..(self.len + 1) /\ d[k] = c[k]
      BY <1>1
    <3>3. self.len + 1 \in 1..(self.len + 1) /\ d[self.len + 1] = n
      BY <1>1
    <3>4. \A k \in 1..(self.len + 1) : d[k] = n \/ (k \in 1..self.len /\ d[k] = c[k])
      BY <1>1
    <3> HIDE DEF d
    <3> QED
      BY <1>1, <1>2, <3>1, <3>2, <3>3, <3>4
  <2>4. ASSUME NEW k \in 1..self'.len
        PROVE  /\ heap'[d[k]].prev = IF k = 1 THEN NULL ELSE d[k - 1]
               /\ heap'[d[k]].next = IF k = self'.len THEN NULL ELSE d[k + 1]
               /\ heap'[d[k]].val \in Vals
    <3>1. CASE k = self.len + 1
      <4>1. d[k] = n /\ (k # 1 => d[k - 1] = c[self.len]) /\ (k = 1 <=> ~(self.len > 0))
        BY <1>1, <3>1
      <4>2. self.tail = IF self.len > 0 THEN c[self.len] ELSE NULL
        BY DEF LinkedInv, IsMadeOf
      <4>3. /\ heap'[n].prev = IF self.len > 0 THEN self.tail ELSE NULL
            /\ heap'[n].next = NULL
            /\ heap'[n].val = v
        BY <1>3
      <4> HIDE DEF c, d
      <4> QED
        BY <1>2, <3>1, <4>1, <4>2, <4>3
    <3>2. CASE k <= self.len
      <4>1. /\ heap[c[k]].prev = IF k = 1 THEN NULL ELSE c[k - 1]
            /\ heap[c[k]].next = IF k = self.len THEN NULL ELSE c[k + 1]
            /\ heap[c[k]].val \in Vals
            /\ self.tail = c[self.len]
            /\ c[k] = c[self.len] => k = self.len
        BY <1>1, <3>2 DEF LinkedInv, IsMadeOf
      <4>2. d[k] = c[k] /\ c[k] # n /\ c[k] \in Cells
        BY <1>1, <3>2
      <4> QED
        BY <1>1, <1>2, <1>3, <3>2, <4>1, <4>2
    <3> QED
      BY <1>1, <1>2, <3>1, <3>2
  <2>5. /\ self'.head = IF self'.len > 0 THEN d[1] ELSE NULL
        /\ self'.tail = IF self'.len > 0 THEN d[self'.len] ELSE NULL
    BY <1>1, <1>2 DEF LinkedInv, IsMadeOf
  <2> QED
    BY <2>1, <2>2, <2>3, <2>4, <2>5 DEF IsMadeOf
<1>5. LinkedTypes'
  BY DEF LinkedInv, LinkedTypes, List!Push, OrNull
<1>6. TraversalInv'
  BY DEF LinkedInv, TraversalInv, List!Push, List!Callable
<1>7. /\ LinkedInv'
      /\ Items' = [k \in 1..self'.len |-> heap'[d[k]].val]
      /\ \A k \in 1..self'.len : /\ iterator'.node = d[k] => Hand' = k
                                 /\ iterator'.next = d[k] => Turn' = k
      /\ iterator'.node = NULL => Hand' = 0
      /\ iterator'.next = NULL => Turn' = 0
  <2> HIDE DEF d
  <2> QED
    BY <1>4, <1>5, <1>6, WillBeFacts
<1>8. Items' = Append(Items, v) /\ Len(Items) = self.len
  <2>1. Items \in Seq(Vals) /\ Len(Items) = self.len
    BY ItemsFacts
  <2>2. /\ Append(Items, v) \in Seq(Vals) /\ Len(Append(Items, v)) = self.len + 1
        /\ \A k \in 1..self.len : Append(Items, v)[k] = Items[k]
        /\ Append(Items, v)[self.len + 1] = v
    BY <2>1, AppendProperties
  <2>3. ASSUME NEW k \in 1..(self.len + 1)
        PROVE  heap'[d[k]].val = Append(Items, v)[k]
    <3>1. CASE k <= self.len
      <4>1. k \in 1..self.len /\ d[k] = c[k] /\ c[k] # n /\ c[k] \in Cells
        BY <1>1, <3>1
      <4>2. Items[k] = heap[c[k]].val
        BY <4>1, ItemsFacts
      <4> HIDE DEF c, d
      <4> QED
        BY <1>3, <2>2, <3>1, <4>1, <4>2
    <3>2. CASE ~(k <= self.len)
      <4>1. k = self.len + 1 /\ d[k] = n
        BY <1>1, <3>2
      <4> HIDE DEF d
      <4> QED
        BY <1>3, <2>2, <4>1
    <3> QED
      BY <3>1, <3>2
  <2>4. self'.len = self.len + 1
    BY <1>2
  <2>5. /\ Items' = [k \in 1..(self.len + 1) |-> heap'[d[k]].val]
        /\ \A k \in 1..(self.len + 1) : Items'[k] = heap'[d[k]].val
    <3> HIDE DEF d
    <3> QED
      BY <1>7, <2>4
  <2>6. /\ Items' = [k \in 1..(self.len + 1) |-> Items'[k]]
        /\ \A k \in 1..(self.len + 1) : Items'[k] = Append(Items, v)[k]
    <3> HIDE DEF d
    <3> QED
      BY <2>3, <2>5
  <2> QED
    BY <2>1, <2>2, <2>6, SameSequence
<1>9. UNCHANGED <<Step, Hand, Turn>>
  <2>1. UNCHANGED iterator /\ iterator.node \in allocated \cup {NULL} /\ iterator.next \in allocated \cup {NULL}
    BY DEF List!Push, LinkedInv, TraversalInv
  <2>2. \A k \in 1..self.len : k \in 1..self'.len /\ d[k] = c[k]
    BY <1>1, <1>2
  <2> HIDE DEF d
  <2> QED
    BY <1>1, <1>7, <2>1, <2>2, PlaceFacts DEF Step
<1> QED
  BY <1>7, <1>8, <1>9 DEF List!Promised!Push, List!Push, Items, Step, Hand, Turn

\* What the node at place k is taken from and the pointers to it lead past leaves the
\* other nodes in their order.
Without(k) == [j \in 1..(self.len - 1) |-> IF j < k THEN List!Chain[j] ELSE List!Chain[j + 1]]

RemovedAt(k) ==
    LET n == List!Chain[k]
    IN  /\ self'.len = self.len - 1
        /\ allocated' = allocated \ {n}
        /\ self'.head = IF k = 1 THEN heap[n].next ELSE self.head
        /\ self'.tail = IF k = self.len THEN heap[n].prev ELSE self.tail
        /\ \A m \in allocated \ {n} :
              /\ heap'[m].prev = IF m = heap[n].next THEN heap[n].prev ELSE heap[m].prev
              /\ heap'[m].next = IF m = heap[n].prev THEN heap[n].next ELSE heap[m].next
              /\ heap'[m].val = heap[m].val

LEMMA RemovalLeaves ==
  ASSUME NULL \notin Cells, LinkedInv, NEW k \in 1..self.len, RemovedAt(k)
  PROVE  /\ IsMadeOf(self', heap', allocated', Without(k))
         /\ \A j \in 1..(self.len - 1) :
               heap'[Without(k)[j]].val = IF j < k THEN Items[j] ELSE Items[j + 1]
<1> DEFINE c == List!Chain
           d == Without(k)
           n == List!Chain[k]
           from(j) == IF j < k THEN j ELSE j + 1
<1>1. /\ self.len \in Nat /\ self'.len = self.len - 1
      /\ c \in [1..self.len -> Cells]
      /\ \A i, j \in 1..self.len : c[i] = c[j] => i = j
      /\ allocated = {c[j] : j \in 1..self.len}
      /\ n = c[k] /\ k \in 1..self.len
      /\ \A j \in 1..self.len : /\ heap[c[j]].prev = IF j = 1 THEN NULL ELSE c[j - 1]
                                /\ heap[c[j]].next = IF j = self.len THEN NULL ELSE c[j + 1]
                                /\ heap[c[j]].val \in Vals
  BY DEF LinkedInv, LinkedTypes, IsMadeOf, RemovedAt
<1>13. /\ self'.head = IF k = 1 THEN heap[n].next ELSE self.head
       /\ self'.tail = IF k = self.len THEN heap[n].prev ELSE self.tail
       /\ allocated' = allocated \ {n}
       /\ \A m \in allocated \ {n} :
             /\ heap'[m].prev = IF m = heap[n].next THEN heap[n].prev ELSE heap[m].prev
             /\ heap'[m].next = IF m = heap[n].prev THEN heap[n].next ELSE heap[m].next
             /\ heap'[m].val = heap[m].val
  BY DEF RemovedAt
<1>2. \A j \in 1..(self.len - 1) : /\ from(j) \in 1..self.len /\ from(j) # k
                                   /\ d[j] = c[from(j)]
  BY <1>1 DEF Without
<1>3. \A i, j \in 1..(self.len - 1) : from(i) = from(j) => i = j
  BY <1>1
<1>4. \A i \in 1..self.len : i # k => \E j \in 1..(self.len - 1) : i = from(j)
  <2> SUFFICES ASSUME NEW i \in 1..self.len, i # k
               PROVE  \E j \in 1..(self.len - 1) : i = from(j)
    OBVIOUS
  <2>1. CASE i < k
    <3>1. i \in 1..(self.len - 1) /\ i = from(i)
      BY <1>1, <2>1
    <3> QED
      BY <3>1
  <2>2. CASE i > k
    <3>1. i - 1 \in 1..(self.len - 1) /\ i = from(i - 1)
      BY <1>1, <2>2
    <3> QED
      BY <3>1
  <2> QED
    BY <1>1, <2>1, <2>2
<1>5. ASSUME NEW j \in 1..(self.len - 1)
      PROVE  /\ j = 1 => from(j) = IF k = 1 THEN 2 ELSE 1
             /\ j # 1 => j - 1 \in 1..(self.len - 1) /\ from(j - 1) = IF j = k THEN k - 1 ELSE from(j) - 1
             /\ j # self.len - 1 => j + 1 \in 1..(self.len - 1)
                                    /\ from(j + 1) = IF j = k - 1 THEN k + 1 ELSE from(j) + 1
             /\ j = self.len - 1 => from(j) = IF k = self.len THEN self.len - 1 ELSE self.len
  <2> HIDE DEF c
  <2>0. k \in Nat /\ k >= 1 /\ k <= self.len /\ self.len \in Nat
    BY <1>1
  <2>1. j = 1 => from(j) = IF k = 1 THEN 2 ELSE 1
    BY <2>0
  <2>2. j # 1 => j - 1 \in 1..(self.len - 1) /\ from(j - 1) = IF j = k THEN k - 1 ELSE from(j) - 1
    BY <2>0
  <2>3. j # self.len - 1 => j + 1 \in 1..(self.len - 1)
                            /\ from(j + 1) = IF j = k - 1 THEN k + 1 ELSE from(j) + 1
    BY <2>0
  <2>4. j = self.len - 1 => from(j) = IF k = self.len THEN self.len - 1 ELSE self.len
    BY <2>0
  <2> QED
    BY <2>1, <2>2, <2>3, <2>4
<1> HIDE DEF from, d, n
<1>6. d \in [1..self'.len -> Cells]
  BY <1>1, <1>2 DEF d, Without, from
<1>7. \A i, j \in 1..self'.len : d[i] = d[j] => i = j
  BY <1>1, <1>2, <1>3
<1>8. allocated' = {d[j] : j \in 1..self'.len}
  <2>1. ASSUME NEW m \in allocated' PROVE \E j \in 1..self'.len : m = d[j]
    <3>1. PICK i \in 1..self.len : m = c[i] /\ i # k
      BY <1>1, <1>13
    <3>2. PICK j \in 1..(self.len - 1) : i = from(j)
      BY <1>4, <3>1
    <3> QED
      BY <1>1, <1>2, <3>1, <3>2
  <2>2. ASSUME NEW j \in 1..self'.len PROVE d[j] \in allocated'
    <3>1. from(j) \in 1..self.len /\ from(j) # k /\ d[j] = c[from(j)]
      BY <1>1, <1>2
    <3>2. c[from(j)] \in allocated /\ c[from(j)] # n
      BY <1>1, <3>1
    <3> QED
      BY <1>13, <3>1, <3>2
  <2> QED
    BY <2>1, <2>2
<1>9. ASSUME NEW j \in 1..(self.len - 1)
      PROVE  /\ heap'[d[j]].prev = IF j = 1 THEN NULL ELSE d[j - 1]
             /\ heap'[d[j]].next = IF j = self.len - 1 THEN NULL ELSE d[j + 1]
             /\ heap'[d[j]].val = heap[d[j]].val /\ heap[d[j]].val \in Vals
  <2>1. /\ from(j) \in 1..self.len /\ from(j) # k /\ d[j] = c[from(j)]
        /\ d[j] \in allocated \ {n} /\ d[j] \in Cells
    BY <1>1, <1>2
  <2>2. /\ heap[n].next = IF k = self.len THEN NULL ELSE c[k + 1]
        /\ heap[n].prev = IF k = 1 THEN NULL ELSE c[k - 1]
    BY <1>1
  <2>3. d[j] = heap[n].next <=> from(j) = k + 1
    BY <1>1, <2>1, <2>2
  <2>4. d[j] = heap[n].prev <=> from(j) = k - 1
    BY <1>1, <2>1, <2>2
  <2>5. (from(j) = k + 1 <=> j = k) /\ (from(j) = k - 1 <=> j = k - 1)
    BY <1>1 DEF from
  <2>6. heap'[d[j]].prev = IF j = 1 THEN NULL ELSE d[j - 1]
    <3>1. heap'[d[j]].prev = IF j = k THEN heap[n].prev ELSE heap[c[from(j)]].prev
      BY <1>13, <2>1, <2>3, <2>5
    <3>2. heap[c[from(j)]].prev = IF from(j) = 1 THEN NULL ELSE c[from(j) - 1]
      BY <1>1, <2>1
    <3>3. j # 1 => d[j - 1] = c[from(j - 1)]
      BY <1>1, <1>2, <1>5
    <3>4. j # 1 /\ j # k => from(j) # 1
      BY <1>1 DEF from
    <3> QED
      BY <1>1, <1>5, <2>2, <3>1, <3>2, <3>3, <3>4
  <2>7. heap'[d[j]].next = IF j = self.len - 1 THEN NULL ELSE d[j + 1]
    <3>1. heap'[d[j]].next = IF j = k - 1 THEN heap[n].next ELSE heap[c[from(j)]].next
      BY <1>13, <2>1, <2>4, <2>5
    <3>2. heap[c[from(j)]].next = IF from(j) = self.len THEN NULL ELSE c[from(j) + 1]
      BY <1>1, <2>1
    <3>3. j # self.len - 1 => d[j + 1] = c[from(j + 1)]
      BY <1>1, <1>2, <1>5
    <3>4. j # self.len - 1 => from(j) # self.len
      BY <1>1 DEF from
    <3>5. k = self.len /\ j = self.len - 1 => j = k - 1
      BY <1>1
    <3>6. j = k - 1 /\ j # self.len - 1 => k # self.len
      BY <1>1
    <3>7. j = self.len - 1 /\ j = k - 1 => k = self.len
      BY <1>1
    <3> QED
      BY <1>1, <1>5, <2>2, <3>1, <3>2, <3>3, <3>4, <3>5, <3>6, <3>7
  <2> QED
    BY <1>1, <1>13, <2>1, <2>6, <2>7
<1>10. /\ self'.head = IF self'.len > 0 THEN d[1] ELSE NULL
       /\ self'.tail = IF self'.len > 0 THEN d[self'.len] ELSE NULL
  <2>1. self.head = c[1] /\ self.tail = c[self.len]
    BY <1>1 DEF LinkedInv, IsMadeOf
  <2>2. CASE self.len = 1
    BY <1>1, <1>13, <2>1, <2>2
  <2>3. CASE self.len > 1
    <3>1. 1 \in 1..(self.len - 1) /\ self.len - 1 \in 1..(self.len - 1)
      BY <1>1, <2>3
    <3>2. /\ d[1] = c[IF k = 1 THEN 2 ELSE 1]
          /\ d[self.len - 1] = c[IF k = self.len THEN self.len - 1 ELSE self.len]
      BY <1>2, <1>5, <3>1
    <3> QED
      BY <1>1, <1>13, <2>1, <2>3, <3>2
  <2> QED
    BY <1>1, <2>2, <2>3
<1>11. IsMadeOf(self', heap', allocated', d)
  <2>1. ASSUME NEW j \in 1..self'.len
        PROVE  /\ heap'[d[j]].prev = IF j = 1 THEN NULL ELSE d[j - 1]
               /\ heap'[d[j]].next = IF j = self'.len THEN NULL ELSE d[j + 1]
               /\ heap'[d[j]].val \in Vals
    <3>1. j \in 1..(self.len - 1) /\ (j = self'.len <=> j = self.len - 1)
      BY <1>1
    <3>2. heap'[d[j]].val \in Vals
      BY <1>9, <3>1
    <3> HIDE DEF c
    <3> QED
      BY <1>9, <3>1, <3>2
  <2>2. allocated' = {d[j] : j \in 1..self'.len}
    BY <1>8
  <2> HIDE DEF c
  <2> QED
    BY <1>6, <1>7, <1>10, <2>1, <2>2 DEF IsMadeOf
<1>12. ASSUME NEW j \in 1..(self.len - 1)
       PROVE  heap'[d[j]].val = IF j < k THEN Items[j] ELSE Items[j + 1]
  <2>1. heap'[d[j]].val = heap[c[from(j)]].val
    BY <1>2, <1>9
  <2>2. Items[from(j)] = heap[c[from(j)]].val
    BY <1>2, ItemsFacts
  <2> QED
    BY <2>1, <2>2 DEF from
<1> QED
  BY <1>11, <1>12 DEF d

\* _list_remove, of the node at any place, and under a traversal of the one in hand.
LEMMA RemoveStep ==
  ASSUME NULL \notin Cells, LinkedInv, NEW n \in Cells, List!ListRemove(n)
  PROVE  LinkedInv' /\ \E k \in DOMAIN Items : List!Promised!Delete(k)
<1>1. PICK k \in 1..self.len : n = List!Chain[k]
  BY DEF List!ListRemove, LinkedInv, IsMadeOf
<1> DEFINE d == Without(k)
<1>2. /\ self.len \in Nat /\ self.len >= 1 /\ n \in Cells
      /\ List!Chain \in [1..self.len -> Cells]
      /\ heap[n].prev = IF k = 1 THEN NULL ELSE List!Chain[k - 1]
      /\ heap[n].next = IF k = self.len THEN NULL ELSE List!Chain[k + 1]
  BY <1>1 DEF LinkedInv, LinkedTypes, IsMadeOf
<1>3. (heap[n].prev = NULL <=> k = 1) /\ (heap[n].next = NULL <=> k = self.len)
  BY <1>2
<1>4. /\ self'.len = self.len - 1 /\ allocated' = allocated \ {n}
      /\ self'.head = IF k = 1 THEN heap[n].next ELSE self.head
      /\ self'.tail = IF k = self.len THEN heap[n].prev ELSE self.tail
      /\ self' \in [head : OrNull, tail : OrNull, len : Nat]
  <2>1. self \in [head : OrNull, tail : OrNull, len : Nat] /\ n \in Cells /\ heap[n].next \in OrNull
        /\ heap[n].prev \in OrNull
    BY <1>2 DEF LinkedInv, LinkedTypes
  <2>2. List!Unlinked(n) = [self EXCEPT !.head = IF k = 1 THEN heap[n].next ELSE @,
                                        !.tail = IF k = self.len THEN heap[n].prev ELSE @]
    BY <1>3 DEF List!Unlinked
  <2>3. /\ List!Unlinked(n) \in [head : OrNull, tail : OrNull, len : Nat]
        /\ List!Unlinked(n).head = IF k = 1 THEN heap[n].next ELSE self.head
        /\ List!Unlinked(n).tail = IF k = self.len THEN heap[n].prev ELSE self.tail
        /\ List!Unlinked(n).len = self.len
    BY <2>1, <2>2
  <2>4. self' = [List!Unlinked(n) EXCEPT !.len = IF @ > 0 THEN @ - 1 ELSE @] /\ allocated' = allocated \ {n}
    BY DEF List!ListRemove
  <2> QED
    BY <1>2, <2>3, <2>4
<1>5. RemovedAt(k)
  <2>1. allocated \subseteq Cells
    BY DEF LinkedInv, IsMadeOf
  <2>2. \A m \in allocated \ {n} :
           /\ heap'[m].prev = IF m = heap[n].next THEN heap[n].prev ELSE heap[m].prev
           /\ heap'[m].next = IF m = heap[n].prev THEN heap[n].next ELSE heap[m].next
           /\ heap'[m].val = heap[m].val
    <3>1. heap' = [m \in Cells |->
                   [heap[m] EXCEPT !.next = IF m = heap[n].prev THEN heap[n].next ELSE @,
                                   !.prev = IF m = heap[n].next THEN heap[n].prev ELSE @]]
        /\ heap \in [Cells -> [prev : OrNull, next : OrNull, val : Vals \cup {NULL}]]
      BY DEF List!ListRemove, LinkedInv, LinkedTypes
    <3> QED
      BY <2>1, <3>1
  <2> QED
    BY <1>1, <1>4, <2>2 DEF RemovedAt
<1>6. /\ IsMadeOf(self', heap', allocated', d)
      /\ \A j \in 1..(self.len - 1) : heap'[d[j]].val = IF j < k THEN Items[j] ELSE Items[j + 1]
  BY <1>5, RemovalLeaves
<1>7. LinkedTypes'
  <2>1. heap' \in [Cells -> [prev : OrNull, next : OrNull, val : Vals \cup {NULL}]]
    <3>1. heap' = [m \in Cells |->
                   [heap[m] EXCEPT !.next = IF m = heap[n].prev THEN heap[n].next ELSE @,
                                   !.prev = IF m = heap[n].next THEN heap[n].prev ELSE @]]
        /\ heap \in [Cells -> [prev : OrNull, next : OrNull, val : Vals \cup {NULL}]]
      BY DEF List!ListRemove, LinkedInv, LinkedTypes
    <3>2. heap[n].next \in OrNull /\ heap[n].prev \in OrNull
      BY <3>1
    <3> QED
      BY <3>1, <3>2
  <2>2. iterator' = [iterator EXCEPT !.node = NULL] /\ exists' = exists
    BY DEF List!ListRemove
  <2> QED
    BY <1>4, <2>1, <2>2 DEF LinkedInv, LinkedTypes, OrNull
<1>8. /\ iterator' = [iterator EXCEPT !.node = NULL] /\ exists' = exists /\ exists
      /\ iterator.pc = "idle" \/ (iterator.pc = "handle" /\ n = iterator.node)
      /\ iterator.next # n
  <2>1. n # NULL /\ n \in Cells
    BY <1>2
  <2>2. List!Idle.next = NULL
    BY DEF List!Idle
  <2>3. iterator.pc = "idle" => iterator.next = NULL
    BY <2>2 DEF LinkedInv, TraversalInv
  <2>4. iterator.pc = "handle" => n = iterator.node /\ iterator.node # iterator.next
    BY <2>1 DEF List!ListRemove, LinkedInv, TraversalInv
  <2> QED
    BY <2>1, <2>3, <2>4 DEF List!ListRemove, List!Callable
<1>9. TraversalInv'
  <2>1. /\ iterator'.node = NULL /\ iterator'.next = iterator.next /\ iterator'.pc = iterator.pc
    BY <1>8 DEF LinkedInv, LinkedTypes
  <2>2. iterator.pc = "idle" => iterator' = List!Idle
    <3>1. iterator.pc = "idle" => iterator = List!Idle
      BY DEF LinkedInv, TraversalInv
    <3>2. [List!Idle EXCEPT !.node = NULL] = List!Idle
      BY DEF List!Idle
    <3> QED
      BY <1>8, <3>1, <3>2
  <2>3. iterator.next \in allocated' \cup {NULL}
    BY <1>4, <1>8 DEF LinkedInv, TraversalInv
  <2> QED
    BY <1>8, <2>1, <2>2, <2>3 DEF TraversalInv, List!Idle
<1> HIDE DEF d
<1>10. /\ LinkedInv'
       /\ Items' = [j \in 1..self'.len |-> heap'[d[j]].val]
       /\ \A j \in 1..self'.len : iterator'.next = d[j] => Turn' = j
       /\ iterator'.node = NULL => Hand' = 0
       /\ iterator'.next = NULL => Turn' = 0
  BY <1>6, <1>7, <1>9, WillBeFacts
<1>11. Items' = RemoveAt(Items, k)
  <2>1. Items \in Seq(Vals) /\ Len(Items) = self.len
    BY ItemsFacts
  <2>2. /\ RemoveAt(Items, k) \in Seq(Vals) /\ Len(RemoveAt(Items, k)) = self.len - 1
        /\ \A j \in 1..(self.len - 1) : RemoveAt(Items, k)[j] = IF j < k THEN Items[j] ELSE Items[j + 1]
    BY <2>1, RemoveAtFacts
  <2>3. /\ Items' = [j \in 1..(self.len - 1) |-> Items'[j]]
        /\ \A j \in 1..(self.len - 1) : Items'[j] = RemoveAt(Items, k)[j]
    BY <1>4, <1>6, <1>10, <2>2
  <2> QED
    BY <2>2, <2>3, SameSequence
<1>12. Hand' = 0
  BY <1>8, <1>10 DEF LinkedInv, LinkedTypes
<1>13. Turn' = IF Turn > k THEN Turn - 1 ELSE Turn
  <2>0. iterator'.next = iterator.next
    BY <1>8 DEF LinkedInv, LinkedTypes
  <2>1. CASE iterator.next = NULL
    BY <1>10, <2>0, <2>1, PlaceFacts
  <2>2. CASE iterator.next # NULL
    <3>1. PICK i \in 1..self.len : iterator.next = List!Chain[i]
      BY <2>2 DEF LinkedInv, TraversalInv, IsMadeOf
    <3>2. i # k /\ Turn = i
      BY <1>1, <1>8, <3>1, PlaceFacts
    <3>3. CASE i < k
      <4>1. i \in 1..self'.len /\ d[i] = List!Chain[i]
        BY <1>2, <1>4, <3>3 DEF d, Without
      <4> QED
        BY <1>10, <2>0, <3>1, <3>2, <3>3, <4>1
    <3>4. CASE i > k
      <4>1. i - 1 \in 1..self'.len /\ d[i - 1] = List!Chain[i]
        BY <1>2, <1>4, <3>4 DEF d, Without
      <4> QED
        BY <1>10, <2>0, <3>1, <3>2, <3>4, <4>1
    <3> QED
      BY <3>2, <3>3, <3>4
  <2> QED
    BY <2>1, <2>2
<1>14. Step # 0 => k = Hand
  BY <1>1, <1>8, PlaceFacts DEF Step
<1>15. Step' = Step
  BY <1>8 DEF Step, LinkedInv, LinkedTypes
<1>16. List!Promised!Delete(k)
  <2>1. List!Promised!RemoveAt(Items, k) = RemoveAt(Items, k)
    BY DEF List!Promised!RemoveAt, RemoveAt
  <2> QED
    BY <1>11, <1>12, <1>13, <1>14, <1>15, <2>1 DEF List!Promised!Delete, Items, Step, Hand, Turn
<1> QED
  BY <1>10, <1>16, ItemsFacts

\* utils_list_pop.
LEMMA PopStep ==
  ASSUME NULL \notin Cells, LinkedInv, List!Pop
  PROVE  LinkedInv' /\ List!Promised!Pop
<1> DEFINE n == self.head
           d == Without(1)
<1>1. /\ self.len \in Nat /\ self.len >= 1 /\ 1 \in 1..self.len
      /\ n = List!Chain[1] /\ n \in Cells
      /\ List!Chain \in [1..self.len -> Cells]
      /\ heap[n].prev = NULL
      /\ heap[n].next = IF self.len = 1 THEN NULL ELSE List!Chain[2]
      /\ self.len > 1 => List!Chain[2] \in Cells
      /\ self.len > 1 => heap[n].next # NULL
  <2>1. self.len \in Nat /\ self.len >= 1 /\ 1 \in 1..self.len
    <3>1. self.len > 0
      BY DEF List!Pop
    <3>2. self.len \in Nat
      BY DEF LinkedInv, LinkedTypes
    <3> QED
      BY <3>1, <3>2
  <2>2. List!Chain \in [1..self.len -> Cells]
    BY DEF LinkedInv, IsMadeOf
  <2>3. n = List!Chain[1]
    BY <2>1 DEF LinkedInv, IsMadeOf
  <2>4. /\ heap[List!Chain[1]].prev = NULL
        /\ heap[List!Chain[1]].next = IF self.len = 1 THEN NULL ELSE List!Chain[2]
    BY <2>1 DEF LinkedInv, IsMadeOf
  <2>5. self.len > 1 => List!Chain[2] \in Cells
    BY <2>1, <2>2
  <2> QED
    BY <2>1, <2>2, <2>3, <2>4, <2>5
<1>2. /\ self'.len = self.len - 1 /\ allocated' = allocated \ {n}
      /\ self'.head = heap[n].next
      /\ self'.tail = IF 1 = self.len THEN heap[n].prev ELSE self.tail
      /\ self' \in [head : OrNull, tail : OrNull, len : Nat]
  <2> DEFINE h == IF self.len > 1 THEN heap[n].next ELSE NULL
  <2>1. self' = [head |-> h, tail |-> IF h = NULL THEN NULL ELSE self.tail, len |-> self.len - 1]
        /\ allocated' = allocated \ {n}
    BY DEF List!Pop
  <2>2. h = heap[n].next /\ (h = NULL <=> 1 = self.len)
    BY <1>1
  <2>3. h \in OrNull /\ self.tail \in OrNull /\ self.len - 1 \in Nat
    BY <1>1, <2>2 DEF LinkedInv, LinkedTypes, OrNull
  <2> HIDE DEF h
  <2> QED
    BY <1>1, <2>1, <2>2, <2>3 DEF OrNull
<1>3. RemovedAt(1)
  <2>1. allocated \subseteq Cells /\ NULL \notin allocated
    BY DEF LinkedInv, IsMadeOf
  <2>2. (IF self.len > 1 THEN heap[n].next ELSE NULL) = heap[n].next
    BY <1>1
  <2>3. \A m \in allocated \ {n} :
           /\ heap'[m].prev = IF m = heap[n].next THEN heap[n].prev ELSE heap[m].prev
           /\ heap'[m].next = IF m = heap[n].prev THEN heap[n].next ELSE heap[m].next
           /\ heap'[m].val = heap[m].val
    <3> DEFINE h == IF self.len > 1 THEN heap[n].next ELSE NULL
    <3>1. heap' = [m \in Cells |-> IF m = n THEN [heap[m] EXCEPT !.prev = NULL, !.next = NULL]
                                 ELSE IF m = h THEN [heap[m] EXCEPT !.prev = NULL]
                                 ELSE heap[m]]
          /\ heap \in [Cells -> [prev : OrNull, next : OrNull, val : Vals \cup {NULL}]]
      BY DEF List!Pop, LinkedInv, LinkedTypes
    <3>2. h = heap[n].next /\ heap[n].prev = NULL
      BY <1>1, <2>2
    <3> HIDE DEF h
    <3> QED
      BY <2>1, <3>1, <3>2
  <2> QED
    BY <1>1, <1>2, <2>3 DEF RemovedAt
<1>4. /\ IsMadeOf(self', heap', allocated', d)
      /\ \A j \in 1..(self.len - 1) : heap'[d[j]].val = IF j < 1 THEN Items[j] ELSE Items[j + 1]
  BY <1>1, <1>3, RemovalLeaves
<1>5. LinkedTypes'
  <2>1. heap' \in [Cells -> [prev : OrNull, next : OrNull, val : Vals \cup {NULL}]]
    <3> DEFINE h == IF self.len > 1 THEN heap[n].next ELSE NULL
    <3>1. heap' = [m \in Cells |-> IF m = n THEN [heap[m] EXCEPT !.prev = NULL, !.next = NULL]
                                 ELSE IF m = h THEN [heap[m] EXCEPT !.prev = NULL]
                                 ELSE heap[m]]
          /\ heap \in [Cells -> [prev : OrNull, next : OrNull, val : Vals \cup {NULL}]]
      BY DEF List!Pop, LinkedInv, LinkedTypes
    <3> HIDE DEF h
    <3> QED
      BY <3>1 DEF OrNull
  <2> QED
    BY <1>2, <2>1 DEF List!Pop, LinkedInv, LinkedTypes, OrNull
<1>6. UNCHANGED <<exists, iterator>> /\ exists /\ iterator = List!Idle
  BY DEF List!Pop, LinkedInv, TraversalInv
<1>7. TraversalInv'
  BY <1>6 DEF TraversalInv, List!Idle
<1> HIDE DEF d
<1>8. /\ LinkedInv'
      /\ Items' = [j \in 1..self'.len |-> heap'[d[j]].val]
      /\ iterator'.node = NULL => Hand' = 0
      /\ iterator'.next = NULL => Turn' = 0
  BY <1>4, <1>5, <1>7, WillBeFacts
<1>9. Items \in Seq(Vals) /\ Len(Items) = self.len /\ Items # <<>>
  BY <1>1, ItemsFacts
<1>10. Items' = Tail(Items)
  <2>2. /\ Tail(Items) \in Seq(Vals) /\ Len(Tail(Items)) = self.len - 1
        /\ \A j \in 1..(self.len - 1) : Tail(Items)[j] = Items[j + 1]
    BY <1>9, HeadTailProperties
  <2>3. /\ Items' = [j \in 1..(self.len - 1) |-> Items'[j]]
        /\ \A j \in 1..(self.len - 1) : Items'[j] = Tail(Items)[j]
    BY <1>1, <1>2, <1>4, <1>8, <2>2
  <2> QED
    BY <2>2, <2>3, SameSequence
<1>11. UNCHANGED <<Step, Hand, Turn>> /\ Step = 0
  BY <1>6, <1>8, PlaceFacts DEF Step, List!Idle
<1> QED
  BY <1>8, <1>9, <1>10, <1>11 DEF List!Promised!Pop, Items, Step, Hand, Turn

\* An empty list is made of no nodes.
LEMMA NoNodes ==
  ASSUME NEW l, l.len = 0, l.head = NULL, l.tail = NULL, NEW h
  PROVE  IsMadeOf(l, h, {}, <<>>)
BY DEF IsMadeOf

LEMMA InitHolds ==
  ASSUME NULL \notin Cells, List!Init
  PROVE  LinkedInv /\ List!Promised!Init
<1>1. self = [head |-> NULL, tail |-> NULL, len |-> 0] /\ allocated = {} /\ iterator = List!Idle /\ exists = FALSE
  BY DEF List!Init
<1>2. IsMadeOf(self, heap, allocated, <<>>)
  BY <1>1, NoNodes
<1>3. List!Chain = <<>>
  BY <1>1, <1>2, ChainIs
<1>4. LinkedTypes
  <2>1. heap \in [Cells -> [prev : OrNull, next : OrNull, val : Vals \cup {NULL}]]
    BY DEF List!Init, OrNull
  <2>2. self \in [head : OrNull, tail : OrNull, len : Nat]
    BY <1>1 DEF OrNull
  <2>3. iterator \in [direction : {"LIST_HEAD", "LIST_TAIL"}, next : OrNull, node : OrNull,
                      pc : {"idle", "while", "handle"}]
    BY <1>1 DEF List!Idle, OrNull
  <2> QED
    BY <1>1, <2>1, <2>2, <2>3 DEF LinkedTypes
<1>5. TraversalInv
  BY <1>1 DEF TraversalInv, List!Idle
<1>6. LinkedInv
  BY <1>2, <1>3, <1>4, <1>5 DEF LinkedInv
<1>7. Items = <<>> /\ Step = 0 /\ Hand = 0 /\ Turn = 0
  <2>1. iterator.node = NULL /\ iterator.next = NULL /\ iterator.pc = "idle"
    BY <1>1 DEF List!Idle
  <2>2. Len(Items) = 0 /\ Items \in Seq(Vals)
    BY <1>1, <1>6, ItemsFacts
  <2> QED
    BY <1>6, <2>1, <2>2, PlaceFacts DEF Step
<1> QED
  BY <1>6, <1>7 DEF List!Promised!Init, Items, Step, Hand, Turn

\* utils_list_create and utils_list_destroy leave an empty list.
LEMMA CreateStep ==
  ASSUME NULL \notin Cells, LinkedInv, List!Create
  PROVE  LinkedInv' /\ UNCHANGED <<Items, Step, Hand, Turn>>
<1>1. self.len = 0 /\ iterator.pc = "idle"
  BY DEF List!Create, LinkedInv, TraversalInv
<1>2. /\ self.head = NULL /\ self.tail = NULL /\ allocated = {}
  BY <1>1 DEF LinkedInv, IsMadeOf
<1>3. self' = self
  <2>1. self \in [head : OrNull, tail : OrNull, len : Nat]
    BY DEF LinkedInv, LinkedTypes
  <2> QED
    BY <1>1, <1>2, <2>1 DEF List!Create
<1>4. UNCHANGED <<heap, allocated, self, iterator>> /\ exists' = TRUE
  BY <1>3 DEF List!Create
<1>5. UNCHANGED List!Chain
  BY <1>4 DEF List!Chain
<1>6. LinkedInv'
  BY <1>4, <1>5 DEF LinkedInv, LinkedTypes, TraversalInv, IsMadeOf, List!Idle
<1> QED
  BY <1>4, <1>5, <1>6 DEF Items, Step, Hand, Turn, List!Place

LEMMA DestroyStep ==
  ASSUME NULL \notin Cells, LinkedInv, List!Destroy
  PROVE  LinkedInv' /\ List!Promised!Clear
<1>1. self' = [head |-> NULL, tail |-> NULL, len |-> 0] /\ iterator' = iterator /\ iterator = List!Idle
      /\ exists' = FALSE /\ heap' = heap
  BY DEF List!Destroy, LinkedInv, TraversalInv
<1>2. allocated' = {}
  BY DEF List!Destroy, LinkedInv, IsMadeOf
<1>3. IsMadeOf(self', heap', allocated', <<>>)
  BY <1>1, <1>2, NoNodes
<1>4. LinkedTypes'
  BY <1>1 DEF LinkedInv, LinkedTypes, OrNull
<1>5. TraversalInv'
  BY <1>1 DEF TraversalInv, List!Idle
<1>6. /\ LinkedInv'
      /\ Items' = [k \in 1..self'.len |-> heap'[<<>>[k]].val]
      /\ iterator'.node = NULL => Hand' = 0
      /\ iterator'.next = NULL => Turn' = 0
  BY <1>3, <1>4, <1>5, WillBeFacts
<1>7. Items' = <<>>
  BY <1>1, <1>6
<1>8. iterator.node = NULL /\ iterator.next = NULL /\ iterator.pc = "idle"
  BY <1>1 DEF List!Idle
<1>9. UNCHANGED <<Step, Hand, Turn>> /\ Step = 0
  BY <1>1, <1>6, <1>8, PlaceFacts DEF Step
<1> QED
  BY <1>6, <1>7, <1>9 DEF List!Promised!Clear, Items, Step, Hand, Turn

\* A step of utils_list_process leaves the list alone.
LEMMA TraversalLeaves ==
  ASSUME NULL \notin Cells, LinkedInv, UNCHANGED <<exists, heap, allocated, self>>, TraversalInv',
         iterator' \in [direction : {"LIST_HEAD", "LIST_TAIL"}, next : OrNull, node : OrNull,
                        pc : {"idle", "while", "handle"}]
  PROVE  /\ LinkedInv' /\ Items' = Items
         /\ \A k \in 1..self.len : /\ iterator'.node = List!Chain[k] => Hand' = k
                                   /\ iterator'.next = List!Chain[k] => Turn' = k
         /\ iterator'.node = NULL => Hand' = 0
         /\ iterator'.next = NULL => Turn' = 0
<1>1. UNCHANGED List!Chain
  BY DEF List!Chain
<1>2. LinkedTypes'
  BY DEF LinkedInv, LinkedTypes
<1>3. IsMadeOf(self', heap', allocated', List!Chain')
  BY <1>1 DEF LinkedInv
<1>4. Items' = Items
  BY <1>1 DEF Items
<1>5. /\ LinkedInv'
      /\ \A k \in 1..self'.len : /\ iterator'.node = List!Chain'[k] => Hand' = k
                                 /\ iterator'.next = List!Chain'[k] => Turn' = k
      /\ iterator'.node = NULL => Hand' = 0
      /\ iterator'.next = NULL => Turn' = 0
  BY <1>2, <1>3, WillBeFacts
<1> QED
  BY <1>1, <1>4, <1>5

\* utils_list_process, up to its loop.
LEMMA ProcessStep ==
  ASSUME NULL \notin Cells, LinkedInv, NEW direction \in {"LIST_HEAD", "LIST_TAIL"}, List!Process(direction)
  PROVE  LinkedInv' /\ List!Promised!Traverse
<1> DEFINE first == IF direction = "LIST_HEAD" THEN self.head ELSE self.tail
           at == IF direction = "LIST_HEAD" THEN 1 ELSE self.len
<1>1. self.len \in Nat /\ self.len > 0 /\ exists
  BY DEF LinkedInv, LinkedTypes, List!Process
<1>2. at \in 1..self.len /\ first = List!Chain[at] /\ first \in Cells /\ first \in allocated
  <2>1. at \in 1..self.len
    BY <1>1
  <2>2. first = List!Chain[at]
    BY <1>1 DEF LinkedInv, IsMadeOf
  <2> QED
    BY <2>1, <2>2 DEF LinkedInv, IsMadeOf
<1>3. /\ iterator' = [direction |-> direction, next |-> first, node |-> NULL, pc |-> "while"]
      /\ UNCHANGED <<exists, heap, allocated, self>>
      /\ iterator = List!Idle
  BY DEF List!Process, List!Idle, LinkedInv, TraversalInv
<1>4. TraversalInv'
  BY <1>1, <1>2, <1>3 DEF TraversalInv
<1>5. iterator' \in [direction : {"LIST_HEAD", "LIST_TAIL"}, next : OrNull, node : OrNull,
                     pc : {"idle", "while", "handle"}]
  BY <1>2, <1>3 DEF OrNull
<1>6. LinkedInv' /\ Items' = Items /\ Turn' = at /\ Hand' = 0
  <2>1. iterator'.node = NULL /\ iterator'.next = List!Chain[at]
    BY <1>2, <1>3
  <2> HIDE DEF at
  <2> QED
    BY <1>2, <1>3, <1>4, <1>5, <2>1, TraversalLeaves
<1>7. Hand = 0 /\ Step = 0 /\ Step' = IF direction = "LIST_HEAD" THEN 1 ELSE -1
  <2>1. iterator.node = NULL /\ iterator.pc = "idle"
    BY <1>3 DEF List!Idle
  <2> QED
    BY <1>3, <2>1, PlaceFacts DEF Step
<1>8. Items # <<>> /\ Len(Items) = self.len
  BY <1>1, ItemsFacts
<1>9. Step' \in {1, -1} /\ Turn' = IF Step' = 1 THEN 1 ELSE Len(Items)
  BY <1>6, <1>7, <1>8
<1> QED
  BY <1>6, <1>7, <1>8, <1>9 DEF List!Promised!Traverse, Items, Step, Hand, Turn

\* A handle is called for the node that is next.
LEMMA CallStep ==
  ASSUME NULL \notin Cells, LinkedInv, List!CallHandle
  PROVE  LinkedInv' /\ List!Promised!HandOut
<1>1. PICK k \in 1..self.len : iterator.next = List!Chain[k]
  BY DEF List!CallHandle, LinkedInv, TraversalInv, IsMadeOf
<1> DEFINE n == iterator.next
           beside == IF iterator.direction = "LIST_HEAD"
                     THEN (IF k = self.len THEN 0 ELSE k + 1) ELSE (IF k = 1 THEN 0 ELSE k - 1)
<1>2. /\ self.len \in Nat /\ n = List!Chain[k] /\ n \in Cells /\ n \in allocated
      /\ beside \in 0..self.len /\ beside # k
      /\ List!NextOf(n) = IF beside = 0 THEN NULL ELSE List!Chain[beside]
  <2>1. self.len \in Nat /\ n = List!Chain[k] /\ n \in Cells /\ n \in allocated
    BY <1>1 DEF LinkedInv, LinkedTypes, IsMadeOf
  <2>2. /\ heap[n].prev = IF k = 1 THEN NULL ELSE List!Chain[k - 1]
        /\ heap[n].next = IF k = self.len THEN NULL ELSE List!Chain[k + 1]
    BY <1>1 DEF LinkedInv, IsMadeOf
  <2>3. beside \in 0..self.len /\ beside # k
    BY <2>1
  <2> QED
    BY <2>1, <2>2, <2>3 DEF List!NextOf
<1>3. /\ iterator' = [iterator EXCEPT !.node = n, !.next = List!NextOf(n), !.pc = "handle"]
      /\ UNCHANGED <<exists, heap, allocated, self>>
      /\ iterator.pc = "while" /\ exists
  BY DEF List!CallHandle, LinkedInv, TraversalInv
<1> HIDE DEF beside
<1>4. /\ List!NextOf(n) \in allocated \cup {NULL} /\ List!NextOf(n) # n /\ List!NextOf(n) \in OrNull
  <2>1. CASE beside = 0
    BY <1>2, <2>1 DEF OrNull
  <2>2. CASE beside # 0
    <3>1. beside \in 1..self.len
      BY <1>2, <2>2
    <3> QED
      BY <1>2, <2>2, <3>1 DEF LinkedInv, IsMadeOf, OrNull
  <2> QED
    BY <2>1, <2>2
<1>5. /\ iterator'.node = n /\ iterator'.next = List!NextOf(n) /\ iterator'.pc = "handle"
      /\ iterator'.direction = iterator.direction
  BY <1>3 DEF LinkedInv, LinkedTypes
<1>6. TraversalInv'
  BY <1>2, <1>3, <1>4, <1>5 DEF TraversalInv
<1>7. iterator' \in [direction : {"LIST_HEAD", "LIST_TAIL"}, next : OrNull, node : OrNull,
                     pc : {"idle", "while", "handle"}]
  BY <1>2, <1>3, <1>4 DEF LinkedInv, LinkedTypes, OrNull
<1>8. LinkedInv' /\ Items' = Items /\ Hand' = k
      /\ (beside # 0 => Turn' = beside) /\ (beside = 0 => Turn' = 0)
  <2>1. beside # 0 => beside \in 1..self.len
    BY <1>2
  <2> QED
    BY <1>2, <1>3, <1>5, <1>6, <1>7, <2>1, TraversalLeaves
<1>9. Turn = k /\ Step' = Step /\ Step = IF iterator.direction = "LIST_HEAD" THEN 1 ELSE -1
  BY <1>1, <1>3, <1>5, PlaceFacts DEF Step
<1>10. Turn' = IF Turn + Step \in DOMAIN Items THEN Turn + Step ELSE 0
  <2>1. DOMAIN Items = 1..self.len
    BY ItemsFacts
  <2> QED
    BY <1>2, <1>8, <1>9, <2>1 DEF beside
<1>11. Step # 0 /\ Turn # 0
  BY <1>9
<1> QED
  BY <1>8, <1>9, <1>10, <1>11 DEF List!Promised!HandOut, List!Promised!Beside, Items, Step, Hand, Turn

\* The handle has returned, or the loop has ended.
LEMMA ReturnStep ==
  ASSUME NULL \notin Cells, LinkedInv, iterator.pc # "idle", UNCHANGED <<exists, heap, allocated, self>>,
         iterator' = [iterator EXCEPT !.node = NULL, !.pc = "while"]
  PROVE  LinkedInv' /\ List!Promised!Return
<1>1. /\ iterator'.node = NULL /\ iterator'.next = iterator.next /\ iterator'.pc = "while"
      /\ iterator'.direction = iterator.direction
  BY DEF LinkedInv, LinkedTypes
<1>2. TraversalInv'
  BY <1>1 DEF LinkedInv, TraversalInv
<1>3. iterator' \in [direction : {"LIST_HEAD", "LIST_TAIL"}, next : OrNull, node : OrNull,
                     pc : {"idle", "while", "handle"}]
  BY DEF LinkedInv, LinkedTypes, OrNull
<1>4. /\ LinkedInv' /\ Items' = Items
      /\ \A k \in 1..self.len : iterator'.next = List!Chain[k] => Turn' = k
      /\ iterator'.node = NULL => Hand' = 0
      /\ iterator'.next = NULL => Turn' = 0
  BY <1>2, <1>3, TraversalLeaves
<1>5. iterator.next = NULL \/ \E k \in 1..self.len : iterator.next = List!Chain[k]
  BY DEF LinkedInv, TraversalInv, IsMadeOf
<1>6. Turn' = Turn
  BY <1>1, <1>4, <1>5, PlaceFacts
<1>7. Step' = Step
  BY <1>1 DEF Step
<1> QED
  BY <1>1, <1>4, <1>6, <1>7 DEF List!Promised!Return, Items, Step, Hand, Turn

LEMMA LeaveStep ==
  ASSUME NULL \notin Cells, LinkedInv, iterator.pc # "idle", UNCHANGED <<exists, heap, allocated, self>>,
         iterator' = List!Idle
  PROVE  LinkedInv' /\ List!Promised!Leave
<1>1. iterator'.node = NULL /\ iterator'.next = NULL /\ iterator'.pc = "idle"
  BY DEF List!Idle
<1>2. TraversalInv'
  BY <1>1 DEF LinkedInv, TraversalInv, List!Idle
<1>3. iterator' \in [direction : {"LIST_HEAD", "LIST_TAIL"}, next : OrNull, node : OrNull,
                     pc : {"idle", "while", "handle"}]
  BY DEF List!Idle, OrNull
<1>4. LinkedInv' /\ Items' = Items /\ Hand' = 0 /\ Turn' = 0
  BY <1>1, <1>2, <1>3, TraversalLeaves
<1>5. Step # 0 /\ Step' = 0
  BY <1>1 DEF Step
<1> QED
  BY <1>4, <1>5 DEF List!Promised!Leave, Items, Step, Hand, Turn

\* Each step of the list is one of the sequence, or leaves the sequence as it is.
LEMMA LinkedStep ==
  ASSUME NULL \notin Cells, LinkedInv, [List!Next]_List!vars
  PROVE  LinkedInv' /\ [List!Promised!Next]_<<Items, Step, Hand, Turn>>
<1>1. ASSUME NEW n \in Cells, NEW v \in Vals, List!Push(v, n)
      PROVE  LinkedInv' /\ List!Promised!Next
  BY <1>1, PushStep DEF List!Promised!Next
<1>2. ASSUME NEW n \in Cells, List!ListRemove(n) PROVE LinkedInv' /\ List!Promised!Next
  <2>1. LinkedInv' /\ \E k \in DOMAIN Items : List!Promised!Delete(k)
    BY <1>2, RemoveStep
  <2> QED
    BY <2>1 DEF List!Promised!Next, Items
<1>3. CASE List!Pop
  BY <1>3, PopStep DEF List!Promised!Next
<1>4. CASE List!Create
  BY <1>4, CreateStep
<1>5. CASE List!Destroy
  BY <1>5, DestroyStep DEF List!Promised!Next
<1>6. ASSUME NEW direction \in {"LIST_HEAD", "LIST_TAIL"}, List!Process(direction)
      PROVE  LinkedInv' /\ List!Promised!Next
  BY <1>6, ProcessStep DEF List!Promised!Next
<1>7. CASE List!CallHandle
  BY <1>7, CallStep DEF List!Promised!Next
<1>8. ASSUME NEW rc, List!HandleReturns(rc) PROVE LinkedInv' /\ List!Promised!Next
  <2>1. iterator.pc # "idle" /\ UNCHANGED <<exists, heap, allocated, self>>
        /\ (iterator' = List!Idle \/ iterator' = [iterator EXCEPT !.node = NULL, !.pc = "while"])
    BY <1>8 DEF List!HandleReturns
  <2> QED
    BY <2>1, ReturnStep, LeaveStep DEF List!Promised!Next
<1>9. CASE List!ProcessEnds
  <2>1. iterator.pc # "idle" /\ UNCHANGED <<exists, heap, allocated, self>> /\ iterator' = List!Idle
    BY <1>9 DEF List!ProcessEnds
  <2> QED
    BY <2>1, LeaveStep DEF List!Promised!Next
<1>10. CASE UNCHANGED List!vars
  <2>1. UNCHANGED <<exists, heap, allocated, self, iterator>>
    BY <1>10 DEF List!vars
  <2>2. UNCHANGED List!Chain
    BY <2>1 DEF List!Chain
  <2> QED
    BY <2>1, <2>2 DEF LinkedInv, LinkedTypes, TraversalInv, IsMadeOf, Items, Step, Hand, Turn, List!Place
<1> QED
  BY <1>1, <1>2, <1>3, <1>4, <1>5, <1>6, <1>7, <1>8, <1>9, <1>10 DEF List!Next

LEMMA LinkedInvariance ==
  ASSUME NULL \notin Cells
  PROVE  List!Spec => []LinkedInv
<1>1. List!Init => LinkedInv
  BY InitHolds
<1>2. LinkedInv /\ [List!Next]_List!vars => LinkedInv'
  BY LinkedStep
<1> QED
  BY <1>1, <1>2, PTL DEF List!Spec

\* The nodes that are allocated are the ones that the pointers lead through, forth and
\* back: no operation, under a traversal or not, loses a node or leaves one that was freed.
THEOREM ListCorrect ==
  ASSUME NULL \notin Cells
  PROVE  List!Spec => []ListIsLinked
<1>1. LinkedInv => ListIsLinked
  <2> SUFFICES ASSUME LinkedInv PROVE ListIsLinked
    OBVIOUS
  <2>1. DOMAIN List!Chain = 1..self.len
    BY DEF LinkedInv, IsMadeOf
  <2> QED
    BY <2>1 DEF LinkedInv, IsMadeOf, TraversalInv, ListIsLinked, List!ChainHolds
<1> QED
  BY <1>1, LinkedInvariance, PTL

\* For any number of values and of addresses the list is a sequence, as utils_list.h has it:
\* each operation does to the linked nodes what is promised of the values, and a traversal
\* calls the handle for one after the other while nodes are removed and pushed under it.
THEOREM ListRefines ==
  ASSUME NULL \notin Cells
  PROVE  List!Spec => ListIsSequence
<1>1. List!Init => List!Promised!Init
  BY InitHolds
<1>2. LinkedInv /\ [List!Next]_List!vars => [List!Promised!Next]_List!Promised!vars
  BY LinkedStep DEF List!Promised!vars, Items, Step, Hand, Turn
<1> QED
  BY <1>1, <1>2, LinkedInvariance, ListCorrect, PTL
     DEF List!Spec, ListIsSequence, List!IsSequence, List!Promised!Spec
===============================================================================
