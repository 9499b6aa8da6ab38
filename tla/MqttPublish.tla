------------------------------ MODULE MqttPublish ------------------------------
(***************************************************************************)
(* Outgoing QoS 1 messages of the MQTT client.                             *)
(*                                                                         *)
(* Application threads call IOT_MQTT_Publish while one thread Y drives     *)
(* IOT_MQTT_Yield.  They share the packet id counter (lock_generic), the   *)
(* write buffer (lock_write_buf) and list_pub_wait_ack (the lock of the    *)
(* list).  A build without MULTITHREAD_ENABLED is Threads = {}: the only   *)
(* thread publishes between two calls of yield, or from a callback.        *)
(*                                                                         *)
(* A publish is numbered when its node is pushed: the nodes of the list    *)
(* are then numbers, and their order from head to tail is the order of     *)
(* the numbers.  lock_generic is released within each of its uses, so one  *)
(* use is one step.                                                        *)
(***************************************************************************)
EXTENDS Naturals, FiniteSets

CONSTANTS
    Threads,      \* application threads that only publish
    Y,            \* the thread that yields (and publishes, too)
    None,         \* no thread
    MaxPacketId,  \* MAX_PACKET_ID
    MaxRepub,     \* MAX_REPUB_NUM
    MaxPubs,      \* bound of the model: calls of IOT_MQTT_Publish
    RepublishOn   \* the events whose callback publishes again

ASSUME PublishAssumption ==
    /\ Y \notin Threads
    /\ None \notin Threads \cup {Y}
    /\ MaxPacketId \in Nat \ {0}
    /\ MaxRepub \in Nat \ {0}
    /\ MaxPubs \in Nat
    /\ RepublishOn \subseteq {"success", "timeout"}

Procs == Threads \cup {Y}
Nodes == 1..MaxPubs
Ids == 0..MaxPacketId

\* What the write buffer holds: the PUBLISH of a node, or a packet of the
\* yield thread (PUBACK, PINGREQ), written here as 0.
Packets == 0..MaxPubs

VARIABLES
    next_packet_id,  \* client->next_packet_id
    calls,           \* calls of IOT_MQTT_Publish so far (bounded by MaxPubs)
    pc,              \* where each thread is in qcloud_iot_mqtt_publish
    qos,             \* its params->qos
    id,              \* its local packet_id
    node,            \* its local node (0: none)
    lock_write_buf,  \* owner of the mutex
    write_buf,       \* contents of client->write_buf
    list_lock,       \* owner of the lock of list_pub_wait_ack
    list,            \* nodes in list_pub_wait_ack
    pushed,          \* nodes pushed so far
    packet_id,       \* packet_id of each node
    expired,         \* nodes whose pub_start_time has run out
    outcome,         \* what the call of publish of a node returned
    event,           \* what the application was told of a node, by the id in the events;
                     \* "late" is success after timeout
    ypc,             \* where Y is in qcloud_iot_mqtt_yield
    iter,            \* iterator.next of utils_list_process (0: NULL)
    cur,             \* the node or packet id an event is raised for
    wire,            \* PUBLISH packets on their way to the broker
    received,        \* history: nodes whose PUBLISH reached the broker
    acks,            \* PUBACK packet ids on their way back
    sent,            \* history: <<thread's node, packet that was sent>>
    misused          \* utils_list_remove was called with a released node

publishVars == <<calls, pc, qos, id, node, outcome>>
listVars    == <<list_lock, list, pushed, packet_id, expired>>
writeVars   == <<lock_write_buf, write_buf, wire, received, sent>>
yieldVars   == <<ypc, iter, cur, event>>

vars == <<next_packet_id, publishVars, listVars, writeVars, yieldVars, acks, misused>>

-------------------------------------------------------------------------------
(* The list, from head to tail in the order of the numbers. *)

Succ(n)  == {m \in list : m > n}
First(S) == IF S = {} THEN 0 ELSE CHOOSE n \in S : \A m \in S : n <= m

\* _pub_wait_list_process_remove_info: the nodes a PUBACK is for.
WithId_Any(i) == list
WithId(i)     == {n \in list : packet_id[n] = i}

\* _list_remove.  A node that is not in the list any more has been released.
Unlink_DropsNext(n) == list \ {n, First(Succ(n))}
Unlink_Nothing(n)   == list
Unlink(n)           == list \ {n}

ListFree(p) == list_lock \in {None, p}       \* the mutexes are recursive

WriteBufFree_NotTaken == TRUE
WriteBufFree          == lock_write_buf = None

\* The early returns of qcloud_iot_mqtt_publish unlock the write buffer.
UnlockWriteBuf_Forgotten == UNCHANGED lock_write_buf
UnlockWriteBuf           == lock_write_buf' = None

-------------------------------------------------------------------------------
Init ==
    /\ next_packet_id \in Ids               \* _get_random_start_packet_id
    /\ calls = 0
    /\ pc = [p \in Procs |-> "idle"]
    /\ qos = [p \in Procs |-> 0]
    /\ id = [p \in Procs |-> 0]
    /\ node = [p \in Procs |-> 0]
    /\ lock_write_buf = None
    /\ write_buf = 0
    /\ list_lock = None
    /\ list = {}
    /\ pushed = 0
    /\ packet_id = [n \in Nodes |-> 0]
    /\ expired = {}
    /\ outcome = [n \in Nodes |-> "none"]
    /\ event = [n \in Nodes |-> "none"]
    /\ ypc = "idle"
    /\ iter = 0
    /\ cur = 0
    /\ wire = {}
    /\ received = {}
    /\ acks = {}
    /\ sent = <<0, 0>>
    /\ misused = FALSE

-------------------------------------------------------------------------------
(* qcloud_iot_mqtt_publish. *)

\* Y publishes between two yields, or from a callback of the event it raises.
MayPublish(p) ==
    \/ p \in Threads
    \/ ypc = "idle"
    \/ ypc = "ack_cb" /\ "success" \in RepublishOn
    \/ ypc = "timeout_cb" /\ "timeout" \in RepublishOn

Publish(p) ==
    /\ pc[p] = "idle"
    /\ MayPublish(p)
    /\ calls < MaxPubs
    /\ calls' = calls + 1
    /\ \E q \in {0, 1} :
          /\ qos' = [qos EXCEPT ![p] = q]
          /\ pc' = [pc EXCEPT ![p] = IF q = 1 THEN "alloc" ELSE "lock"]
    /\ id' = [id EXCEPT ![p] = 0]
    /\ UNCHANGED <<next_packet_id, node, outcome, listVars, writeVars, yieldVars, acks, misused>>

\* get_next_packet_id, the part under lock_generic.
NextPacketId_NoWrap(i) == i + 1
NextPacketId(i)        == IF i = MaxPacketId THEN 1 ELSE i + 1

AllocId(p) ==
    /\ pc[p] = "alloc"
    /\ next_packet_id' = NextPacketId(next_packet_id)
    /\ pc' = [pc EXCEPT ![p] = "read_id"]
    /\ UNCHANGED <<calls, qos, id, node, outcome, listVars, writeVars, yieldVars, acks, misused>>

\* get_next_packet_id returns client->next_packet_id after it has unlocked.
ReadId(p) ==
    /\ pc[p] = "read_id"
    /\ id' = [id EXCEPT ![p] = next_packet_id]
    /\ pc' = [pc EXCEPT ![p] = "lock"]
    /\ UNCHANGED <<next_packet_id, calls, qos, node, outcome, listVars, writeVars, yieldVars,
                   acks, misused>>

LockWriteBuf(p) ==
    /\ pc[p] = "lock"
    /\ WriteBufFree
    /\ lock_write_buf' = p
    /\ pc' = [pc EXCEPT ![p] = "serialize"]
    /\ UNCHANGED <<next_packet_id, calls, qos, id, node, outcome, listVars,
                   write_buf, wire, received, sent, yieldVars, acks, misused>>

\* The call fails before anything is sent: the packet does not fit the buffer,
\* its node cannot be allocated, or the list is full.
FailEarly(p) ==
    /\ pc[p] = "serialize"
    /\ ListFree(p)
    /\ UnlockWriteBuf
    /\ pc' = [pc EXCEPT ![p] = "idle"]
    /\ UNCHANGED <<next_packet_id, calls, qos, id, node, outcome, listVars,
                   write_buf, wire, received, sent, yieldVars, acks, misused>>

SerializeQos0(p) ==
    /\ pc[p] = "serialize"
    /\ qos[p] = 0
    /\ write_buf' = 0
    /\ pc' = [pc EXCEPT ![p] = "send"]
    /\ UNCHANGED <<next_packet_id, calls, qos, id, node, outcome, listVars,
                   lock_write_buf, wire, received, sent, yieldVars, acks, misused>>

\* With QoS 1 a node for the packet is pushed before the packet is sent.
PushPubInfo(p) ==
    /\ pc[p] = "serialize"
    /\ qos[p] = 1
    /\ ListFree(p)
    /\ Cardinality(list) < MaxRepub
    /\ pushed < MaxPubs                   \* at most one node per call
    /\ pushed' = pushed + 1
    /\ list' = list \cup {pushed'}
    /\ packet_id' = [packet_id EXCEPT ![pushed'] = id[p]]
    /\ write_buf' = pushed'
    /\ node' = [node EXCEPT ![p] = pushed']
    /\ outcome' = [outcome EXCEPT ![pushed'] = "sending"]
    /\ pc' = [pc EXCEPT ![p] = "send"]
    /\ UNCHANGED <<next_packet_id, calls, qos, id, list_lock, expired,
                   lock_write_buf, wire, received, sent, yieldVars, acks, misused>>

\* send_mqtt_packet writes write_buf, and the write buffer is released.
SendOk(p) ==
    /\ pc[p] = "send"
    /\ wire' = wire \cup ({write_buf} \ {0})
    /\ sent' = <<node[p], write_buf>>
    /\ lock_write_buf' = None
    /\ outcome' = [n \in Nodes |-> IF n = node[p] THEN "accepted" ELSE outcome[n]]
    /\ node' = [node EXCEPT ![p] = 0]
    /\ pc' = [pc EXCEPT ![p] = "idle"]
    /\ UNCHANGED <<next_packet_id, calls, qos, id, listVars, write_buf, received,
                   yieldVars, acks, misused>>

\* Only a QoS 1 publish has pushed a node that a failed send must remove.
HasNode_Always(p) == TRUE
HasNode(p)        == qos[p] = 1

\* The write failed or timed out: the write buffer is released first ...
SendFail(p) ==
    /\ pc[p] = "send"
    /\ lock_write_buf' = None
    /\ pc' = [pc EXCEPT ![p] = IF HasNode(p) THEN "remove" ELSE "idle"]
    /\ UNCHANGED <<next_packet_id, calls, qos, id, node, outcome, listVars,
                   write_buf, wire, received, sent, yieldVars, acks, misused>>

\* ... and then the node is removed, whether or not it is still in the list.
RemoveFailed(p) ==
    /\ pc[p] = "remove"
    /\ ListFree(p)
    /\ misused' = (node[p] \notin list)
    /\ list' = Unlink(node[p])
    /\ outcome' = [n \in Nodes |-> IF n = node[p] THEN "failed" ELSE outcome[n]]
    /\ node' = [node EXCEPT ![p] = 0]
    /\ pc' = [pc EXCEPT ![p] = "idle"]
    /\ UNCHANGED <<next_packet_id, calls, qos, id, list_lock, pushed, packet_id, expired,
                   writeVars, yieldVars, acks>>

-------------------------------------------------------------------------------
(* One turn of the loop of qcloud_iot_mqtt_yield: a packet is read and      *)
(* handled, then the waiting publishes are checked for their timeout.       *)

YieldBegin ==
    /\ ypc = "idle"
    /\ pc[Y] = "idle"
    /\ ypc' = "read"
    /\ UNCHANGED <<next_packet_id, publishVars, listVars, writeVars, iter, cur, event, acks, misused>>

ReadNothing ==
    /\ ypc = "read"
    /\ ypc' = "timeouts"
    /\ UNCHANGED <<next_packet_id, publishVars, listVars, writeVars, iter, cur, event, acks, misused>>

\* MQTT_EVENT_PUBLISH_SUCCESS carries a packet id and nothing else: it tells of the node
\* that waits under the id or, when there is none, of the last publish that returned it.
Returned(i) == {n \in 1..pushed : packet_id[n] = i /\ outcome[n] # "failed"}
TellsOf(n, i) ==
    IF WithId(i) # {} THEN n = First(WithId(i))
    ELSE n \in Returned(i) /\ \A m \in Returned(i) : m <= n

\* qcloud_iot_mqtt_handle_puback: the first node with the packet id leaves the
\* list; the event is raised whether or not there was one.
HandlePuback(i) ==
    /\ ypc = "read"
    /\ list_lock = None
    /\ acks' = acks \ {i}
    /\ list' = Unlink(First(WithId(i)))
    /\ event' = [n \in Nodes |-> IF ~TellsOf(n, i) THEN event[n]
                                ELSE IF event[n] \in {"timeout", "late"} THEN "late" ELSE "success"]
    /\ cur' = First(WithId(i))
    /\ ypc' = "ack_cb"
    /\ UNCHANGED <<next_packet_id, publishVars, list_lock, pushed, packet_id, expired,
                   writeVars, iter, misused>>

AckCallbackReturns ==
    /\ ypc = "ack_cb"
    /\ pc[Y] = "idle"
    /\ ypc' = "timeouts"
    /\ UNCHANGED <<next_packet_id, publishVars, listVars, writeVars, iter, cur, event, acks, misused>>

\* A packet that Y sends itself: the PUBACK of a QoS 1 message it received,
\* or a PINGREQ.  It uses the same buffer under the same lock.
WriteOwnPacket ==
    /\ ypc = "read"
    /\ WriteBufFree
    /\ lock_write_buf' = Y
    /\ write_buf' = 0
    /\ ypc' = "own_send"
    /\ UNCHANGED <<next_packet_id, publishVars, listVars, wire, received, sent, iter, cur, event, acks, misused>>

SendOwnPacket ==
    /\ ypc = "own_send"
    /\ lock_write_buf' = None
    /\ sent' = <<0, write_buf>>
    /\ ypc' \in {"timeouts", "idle"}      \* a write error returns from yield
    /\ UNCHANGED <<next_packet_id, publishVars, listVars, write_buf, wire, received, iter, cur, event, acks, misused>>

\* qcloud_iot_mqtt_check_pub_timeout: utils_list_process keeps the list locked
\* from the first node to the last.
ScanBegin ==
    /\ ypc = "timeouts"
    /\ list_lock = None
    /\ list_lock' = Y
    /\ iter' = First(list)
    /\ ypc' = "scan"
    /\ UNCHANGED <<next_packet_id, publishVars, list, pushed, packet_id, expired,
                   writeVars, cur, event, acks, misused>>

ScanLive ==
    /\ ypc = "scan"
    /\ iter # 0
    /\ iter \notin expired
    /\ iter' = First(Succ(iter))
    /\ UNCHANGED <<next_packet_id, publishVars, listVars, writeVars, ypc, cur, event, acks, misused>>

ScanExpired ==
    /\ ypc = "scan"
    /\ iter # 0
    /\ iter \in expired
    /\ cur' = iter
    /\ iter' = First(Succ(iter))
    /\ event' = [event EXCEPT ![iter] = "timeout"]
    /\ ypc' = "timeout_cb"
    /\ UNCHANGED <<next_packet_id, publishVars, listVars, writeVars, acks, misused>>

TimeoutCallbackReturns ==
    /\ ypc = "timeout_cb"
    /\ pc[Y] = "idle"
    /\ list' = Unlink(cur)
    /\ ypc' = "scan"
    /\ UNCHANGED <<next_packet_id, publishVars, list_lock, pushed, packet_id, expired,
                   writeVars, iter, cur, event, acks, misused>>

ScanEnd ==
    /\ ypc = "scan"
    /\ iter = 0
    /\ list_lock' = None
    /\ ypc' = "idle"
    /\ UNCHANGED <<next_packet_id, publishVars, list, pushed, packet_id, expired,
                   writeVars, iter, cur, event, acks, misused>>

-------------------------------------------------------------------------------
(* Time, the broker and the network. *)

Expire(n) ==
    /\ n \in list \ expired
    /\ expired' = expired \cup {n}
    /\ UNCHANGED <<next_packet_id, publishVars, list_lock, list, pushed, packet_id,
                   writeVars, yieldVars, acks, misused>>

BrokerAcks(n) ==
    /\ n \in wire
    /\ wire' = wire \ {n}
    /\ received' = received \cup {n}
    /\ acks' = acks \cup {packet_id[n]}
    /\ UNCHANGED <<next_packet_id, publishVars, listVars, lock_write_buf, write_buf, sent,
                   yieldVars, misused>>

\* The connection is lost with what was under way in it.
ConnectionLost ==
    /\ wire \cup acks # {}
    /\ wire' = {}
    /\ acks' = {}
    /\ UNCHANGED <<next_packet_id, publishVars, listVars, lock_write_buf, write_buf, received, sent,
                   yieldVars, misused>>

-------------------------------------------------------------------------------
PublishStep(p) ==
    \/ AllocId(p) \/ ReadId(p) \/ LockWriteBuf(p)
    \/ FailEarly(p) \/ SerializeQos0(p) \/ PushPubInfo(p)
    \/ SendOk(p) \/ SendFail(p) \/ RemoveFailed(p)

\* The steps of a publish that may have to wait for a mutex.
AcquireLock(p) == LockWriteBuf(p) \/ FailEarly(p) \/ PushPubInfo(p) \/ RemoveFailed(p)

YieldStep ==
    \/ YieldBegin \/ ReadNothing \/ (\E i \in acks : HandlePuback(i)) \/ AckCallbackReturns
    \/ WriteOwnPacket \/ SendOwnPacket
    \/ ScanBegin \/ ScanLive \/ ScanExpired \/ TimeoutCallbackReturns \/ ScanEnd

Environment ==
    \/ \E n \in Nodes : Expire(n) \/ BrokerAcks(n)
    \/ ConnectionLost

\* Nothing is known of a program that released a node twice.
Next ==
    /\ ~misused
    /\ \/ \E p \in Procs : Publish(p) \/ PublishStep(p)
       \/ YieldStep
       \/ Environment

Spec == Init /\ [][Next]_vars

\* The scheduler runs every thread that can run, a mutex that is released again
\* and again is not withheld from one thread for ever, the application keeps
\* calling yield, and time passes.  The timeouts are only checked in a turn of
\* yield that read without an error, so such turns must recur (while the client
\* is not connected yield checks no timeout at all).  Nothing is assumed of the
\* broker.
Fairness ==
    /\ \A p \in Procs : WF_vars(~misused /\ PublishStep(p))
    /\ \A p \in Procs : SF_vars(~misused /\ AcquireLock(p))
    /\ WF_vars(~misused /\ YieldStep)
    /\ SF_vars(~misused /\ ReadNothing)
    /\ \A n \in Nodes : WF_vars(~misused /\ Expire(n))

FairSpec == Spec /\ Fairness

-------------------------------------------------------------------------------
(* Properties. *)

TypeOK ==
    /\ next_packet_id \in Ids
    /\ calls \in 0..MaxPubs
    /\ pc \in [Procs -> {"idle", "alloc", "read_id", "lock", "serialize", "send", "remove"}]
    /\ qos \in [Procs -> {0, 1}]
    /\ id \in [Procs -> Ids]
    /\ node \in [Procs -> 0..MaxPubs]
    /\ lock_write_buf \in Procs \cup {None}
    /\ write_buf \in Packets
    /\ list_lock \in {Y, None}
    /\ list \subseteq Nodes
    /\ pushed \in 0..MaxPubs
    /\ packet_id \in [Nodes -> Ids]
    /\ expired \subseteq Nodes
    /\ outcome \in [Nodes -> {"none", "sending", "accepted", "failed"}]
    /\ event \in [Nodes -> {"none", "success", "timeout", "late"}]
    /\ ypc \in {"idle", "read", "ack_cb", "own_send", "timeouts", "scan", "timeout_cb"}
    /\ iter \in 0..MaxPubs
    /\ cur \in 0..MaxPubs
    /\ wire \subseteq Nodes
    /\ received \subseteq Nodes
    /\ acks \subseteq Ids
    /\ sent \in (0..MaxPubs) \X Packets
    /\ misused \in BOOLEAN

\* What is written to the network is the packet the writing thread serialized,
\* although all of them serialize into the one buffer (lock_write_buf).
SentOwnPacket == sent[1] = sent[2]

\* MQTT requires a nonzero packet identifier in a QoS 1 PUBLISH; the counter
\* wraps to 1 and the identifier is read back outside lock_generic.
IdsNonzero == \A n \in 1..pushed : packet_id[n] # 0

\* A publish that returned a packet id is never dropped without a word: until
\* its event is raised its node stays in list_pub_wait_ack.
NoLostPublish ==
    \A n \in Nodes : outcome[n] = "accepted" /\ event[n] = "none" => n \in list

\* The list holds nothing but publishes that are under way: no node survives a
\* failed send or an event that was raised for it.
NoStaleNode ==
    \A n \in list :
        /\ outcome[n] \in {"sending", "accepted"}
        /\ event[n] = "none" \/ (ypc = "timeout_cb" /\ n = cur)

\* list_pub_wait_ack is exactly the publishes that are under way.
WaitListIsExact == NoLostPublish /\ NoStaleNode

\* utils_list_process saves iterator.next before it calls the handler.  The
\* saved node is still in the list when the callback of the handler, which may
\* publish and fail, returns.
IteratorInList == iter # 0 => iter \in list

\* Every step of threads, locks, list and broker is one of the promise or invisible to
\* the application: no event for a publish that has failed, no timeout after a success, no
\* second return, and a second event only where a PUBACK comes after the timeout.
Promise == INSTANCE PublishPromise WITH Publishes <- Nodes
KeepsPromise == Promise!Spec

\* What the application was told of a publish is only corrected where a timeout was told
\* and the PUBACK comes after it; no timeout follows a success.
EventsFollow ==
    [][\A n \in Nodes :
          event'[n] # event[n] => event[n] = "none" \/ (event[n] = "timeout" /\ event'[n] = "late")]_vars

\* get_next_packet_id gives the publishes that wait for their PUBACK different
\* packet ids.
WaitingIdsDiffer ==
    \A m, n \in list : packet_id[m] = packet_id[n] => m = n

\* The application is told the truth, although PUBACK is matched by its packet id
\* alone, comes after the timeout or not at all: MQTT_EVENT_PUBLISH_SUCCESS tells of a publish that
\* reached the broker, no event of one that returned an error, and no two publishes
\* wait under one id.
EventsAreTrue ==
    /\ \A n \in Nodes : event[n] \in {"success", "late"} => n \in received
    /\ \A n \in Nodes : outcome[n] = "failed" => event[n] = "none"
    /\ WaitingIdsDiffer

\* The node passed to utils_list_remove is a node of the list.
RemovesListedNode == ~misused

\* Every publish that returned a packet id gets its event.
AcceptedIsResolved ==
    \A n \in Nodes : outcome[n] = "accepted" ~> event[n] # "none"

\* Every call of IOT_MQTT_Publish returns: no thread waits for ever for the
\* write buffer or the list while another one waits for it.
PublishReturns == \A p \in Procs : pc[p] # "idle" ~> (pc[p] = "idle" \/ misused)
===============================================================================
