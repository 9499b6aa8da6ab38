----------------------------- MODULE MqttSubscribe -----------------------------
(***************************************************************************)
(* The subscriptions of the MQTT client: the table sub_handles, the list   *)
(* of requests that wait for SUBACK or UNSUBACK, and the memory the two    *)
(* share.  One thread subscribes, unsubscribes and yields; the broker      *)
(* answers in order, refuses, or is cut off and forgets the session.       *)
(*                                                                         *)
(* Call n of subscribe or unsubscribe copies the topic filter, takes over  *)
(* the user data and gets a packet id; copy, data and id are all n here.   *)
(* The handle in the table and the one in the waiting list are copies of   *)
(* the same structure: both point to what call n allocated.  0 is NULL.    *)
(* The model ends with a misuse of released memory: nothing is known of    *)
(* what a program does after one.                                          *)
(***************************************************************************)
EXTENDS Integers, Sequences, FiniteSets, SequencesExt

CONSTANTS
    Topics,         \* topic filters
    Wildcards,      \* those with "/#" or "/+" in them
    MaxHandles,     \* MAX_MESSAGE_HANDLERS
    MaxWaiting,     \* MAX_REPUB_NUM
    MaxCalls,       \* bound of the model: calls of subscribe and unsubscribe
    Mishaps,        \* what may go wrong
    Nacks           \* what the client may read 0x80 as, in a SUBACK: 128, or -128
                    \* where plain char is signed

ASSUME SubscribeAssumption ==
    /\ Wildcards \subseteq Topics
    /\ {MaxHandles, MaxWaiting, MaxCalls} \subseteq Nat \ {0}
    /\ Nacks # {} /\ Nacks \subseteq {128, -128}
    /\ Mishaps \subseteq {"slow",       \* an answer may come after the timeout, or never
                          "nack",       \* the broker may refuse a filter
                          "sendfail",   \* a packet may not be sent
                          "impatient",  \* a call for a filter whose last call still waits
                          "full"}       \* a call with the table or the list full

VARIABLES
    sub_handles,        \* per slot: the call it was filled by, and its status
    list_sub_wait_ack,  \* requests that wait, oldest first
    is_connected,
    link,               \* the connection works
    requests,           \* packets the broker has not handled yet
    answers,            \* packets the client has not read yet
    granted,            \* the filters the broker knows for this session
    refused,            \* history: those of its last answer a refusal, in this session
    filter,             \* the filter of each call made so far
    heap,               \* the calls whose memory is allocated
    accepted,           \* history: the requests whose call returned a packet id
    events,             \* history: events raised for each call
    misused,            \* history: released memory was read or released again
    destroyed

tableVars   == <<sub_handles, list_sub_wait_ack>>
linkVars    == <<is_connected, link>>
brokerVars  == <<requests, answers, granted, refused>>
callVars    == <<filter, accepted>>
vars == <<tableVars, linkVars, brokerVars, callVars, heap, events, misused, destroyed>>

Slots == 1..MaxHandles
Calls == 1..MaxCalls

-------------------------------------------------------------------------------
(* The table. *)

Holders(t) == {i \in Slots : sub_handles[i].call # 0 /\ filter[sub_handles[i].call] = t}
Unused     == {i \in Slots : sub_handles[i].call = 0}
Dangling   == {i \in Slots : sub_handles[i].call \notin heap \cup {0}}
Least(S)   == CHOOSE i \in S : \A j \in S : i <= j

\* A search for t compares it with every filter up to the first that is equal.
SearchMisuses(t) == \E j \in Dangling : \A i \in Holders(t) : j <= i

\* _add_sub_handle_to_array takes the slot that holds t, or else the first unused.
SlotFor_Unused(t) == Unused
SlotFor(t)        == IF Holders(t) # {} THEN Holders(t) ELSE Unused

\* _remove_sub_handle_from_array clears every slot when the filter has a wildcard.
Removed(t) == IF t \in Wildcards THEN Slots ELSE Holders(t)

CallsIn(S) == {sub_handles[i].call : i \in S} \ {0}
ClearHandles_Kept(S) == UNCHANGED sub_handles
ClearHandles(S) ==
    sub_handles' = [i \in Slots |-> IF i \in S THEN [sub_handles[i] EXCEPT !.call = 0] ELSE sub_handles[i]]

\* _add_sub_handle_to_array: call n takes slot i.
AddHandle(i, n) ==
    /\ heap' = (heap \ CallsIn({i})) \cup {n}
    /\ sub_handles' = [sub_handles EXCEPT ![i] = [call |-> n, status |-> FALSE]]

\* _set_sub_handle_status_to_array.
SetStatus(t) ==
    sub_handles' = IF Holders(t) = {} THEN sub_handles
                   ELSE [sub_handles EXCEPT ![Least(Holders(t))].status = TRUE]

\* It goes on comparing after it has released the string it was given, which is
\* the handle's own when the caller passes handle.topic_filter.
OwnFilterLost(i) == i < MaxHandles

-------------------------------------------------------------------------------
(* The application. *)

Waits(n) == \E k \in DOMAIN list_sub_wait_ack : list_sub_wait_ack[k].id = n

\* A call for t: the client is connected, and an application that is patient lets
\* the last request for t be answered first.
MayCall(t) ==
    /\ ~destroyed
    /\ is_connected
    /\ Len(filter) < MaxCalls
    /\ link \/ "sendfail" \in Mishaps
    /\ "impatient" \in Mishaps \/ \A n \in DOMAIN filter : Waits(n) => filter[n] # t
    /\ filter' = Append(filter, t)

ListFull == Len(list_sub_wait_ack) >= MaxWaiting

\* The request is pushed to the list and the packet is sent.
Request(n, type) ==
    /\ link
    /\ ~ListFull
    /\ list_sub_wait_ack' = Append(list_sub_wait_ack, [id |-> n, type |-> type])
    /\ requests' = Append(requests, [id |-> n, type |-> type, topic |-> filter'[n]])
    /\ accepted' = accepted \cup {[id |-> n, type |-> type]}
    /\ UNCHANGED <<answers, granted, refused>>

\* The list is full, or the packet cannot be sent and the node is removed again.
RequestFails ==
    /\ IF ListFull THEN "full" \in Mishaps ELSE "sendfail" \in Mishaps
    /\ UNCHANGED <<list_sub_wait_ack, brokerVars, accepted>>

\* qcloud_iot_mqtt_subscribe.  The handle that held the filter is cleared without
\* a word to its owner.
Subscribe(t) ==
    LET n == Len(filter) + 1 IN
    /\ MayCall(t)
    /\ SlotFor(t) # {}
    /\ AddHandle(Least(SlotFor(t)), n)
    /\ Request(n, "SUBSCRIBE")
    /\ misused' = SearchMisuses(t)
    /\ UNCHANGED <<linkVars, events, destroyed>>

\* The handle is removed again, by the very string the handle owns.
SubscribeFails(t) ==
    /\ MayCall(t)
    /\ SlotFor(t) # {}
    /\ RequestFails
    /\ LET i == Least(SlotFor(t)) IN
       /\ ClearHandles({i} \cup Removed(t))
       /\ heap' = heap \ CallsIn({i} \cup Removed(t))
       /\ misused' = (SearchMisuses(t) \/ Dangling # {} \/ OwnFilterLost(i))
    /\ UNCHANGED <<linkVars, events, destroyed>>

\* There is no free slot: the copy of the filter is not released.
SubscribeNoRoom(t) ==
    /\ "full" \in Mishaps
    /\ MayCall(t)
    /\ SlotFor(t) = {}
    /\ ClearHandles(Removed(t))
    /\ heap' = (heap \ CallsIn(Removed(t))) \cup {Len(filter')}
    /\ misused' = (Dangling # {})
    /\ UNCHANGED <<list_sub_wait_ack, linkVars, brokerVars, accepted, events, destroyed>>

\* qcloud_iot_mqtt_unsubscribe: whatever becomes of the request, the handle is gone.
Unsubscribe(t) ==
    LET n == Len(filter) + 1 IN
    /\ MayCall(t)
    /\ Removed(t) # {}
    /\ ClearHandles(Removed(t))
    /\ \/ Request(n, "UNSUBSCRIBE") /\ heap' = (heap \ CallsIn(Removed(t))) \cup {n}
       \/ RequestFails              /\ heap' = heap \ CallsIn(Removed(t))
    /\ misused' = (Dangling # {})
    /\ UNCHANGED <<linkVars, events, destroyed>>

\* IOT_MQTT_IsSubReady.
IsSubReady(t) == Removed(t) # {} /\ sub_handles[Least(Removed(t))].status

\* _sub_wait_list_process_clear: a node of unsubscribe owns its handle.
WaitListOwns == {n \in Calls : \E k \in DOMAIN list_sub_wait_ack :
                                  list_sub_wait_ack[k] = [id |-> n, type |-> "UNSUBSCRIBE"]}

\* IOT_MQTT_Destroy clears the table, then the list.
Destroy ==
    /\ ~destroyed
    /\ destroyed' = TRUE
    /\ is_connected' = FALSE
    /\ ClearHandles(Slots)
    /\ list_sub_wait_ack' = <<>>
    /\ heap' = heap \ (CallsIn(Slots) \cup WaitListOwns)
    /\ misused' = (Dangling # {})
    /\ UNCHANGED <<link, brokerVars, callVars, events>>

-------------------------------------------------------------------------------
(* yield. *)

\* The answer at the head of the connection is read.
Reads(type) ==
    /\ is_connected
    /\ answers # <<>>
    /\ Head(answers).type = type
    /\ answers' = Tail(answers)
    /\ UNCHANGED <<requests, granted, refused, linkVars, callVars, destroyed>>

\* _pop_sub_info_from_list.
Popped_None(n) == list_sub_wait_ack
Popped(n) ==
    IF Waits(n)
    THEN RemoveAt(list_sub_wait_ack, Least({k \in DOMAIN list_sub_wait_ack : list_sub_wait_ack[k].id = n}))
    ELSE list_sub_wait_ack

Raise(S) == events' = [n \in Calls |-> IF n \in S THEN events[n] + 1 ELSE events[n]]

\* granted_qos as mqtt_suback_packet_deserialize leaves it.  Only 128 is a refusal to
\* qcloud_iot_mqtt_handle_suback: where char is signed a refusal is taken for a grant.
GrantedQos(ok) == IF ok THEN {0} ELSE Nacks

\* qcloud_iot_mqtt_handle_suback; no node waits for the answer to a SUBSCRIBE that
\* resubscribe sent.
SubackUnknown ==
    /\ Reads("SUBACK")
    /\ ~Waits(Head(answers).id)
    /\ UNCHANGED <<tableVars, heap, events, misused>>

SubackGranted ==
    LET n == Head(answers).id
        t == filter[n]
    IN
    /\ Reads("SUBACK")
    /\ Waits(n)
    /\ \E granted_qos \in GrantedQos(Head(answers).ok) : granted_qos # 128
    /\ list_sub_wait_ack' = Popped(n)
    /\ SetStatus(t)
    /\ Raise({n})
    /\ misused' = (n \notin heap \/ SearchMisuses(t))
    /\ UNCHANGED heap

\* The handle is removed by the string it owns, and its user data is passed to
\* on_sub_event_handler afterwards.
SubackRefused ==
    LET n == Head(answers).id
        t == filter[n]
    IN
    /\ Reads("SUBACK")
    /\ Waits(n)
    /\ 128 \in GrantedQos(Head(answers).ok)
    /\ list_sub_wait_ack' = Popped(n)
    /\ ClearHandles(Removed(t))
    /\ heap' = heap \ CallsIn(Removed(t))
    /\ Raise({n})
    /\ misused' = (n \notin heap' \/ Dangling # {})

\* qcloud_iot_mqtt_handle_unsuback, for a node that waits or for one that has
\* timed out.
UnsubackReleases_Nothing(n) == {}
UnsubackReleases(n)         == IF Waits(n) THEN {n} ELSE {}

Unsuback ==
    LET n == Head(answers).id IN
    /\ Reads("UNSUBACK")
    /\ list_sub_wait_ack' = Popped(n)
    /\ heap' = heap \ UnsubackReleases(n)
    /\ Raise({n})
    /\ UNCHANGED <<sub_handles, misused>>

\* qcloud_iot_mqtt_check_sub_timeout: the first k nodes have expired.  Each clears
\* its copy of the handle.
CheckSubTimeout ==
    /\ "slow" \in Mishaps
    /\ is_connected
    /\ \E k \in DOMAIN list_sub_wait_ack :
         LET expired == {list_sub_wait_ack[j].id : j \in 1..k} IN
         /\ list_sub_wait_ack' = SubSeq(list_sub_wait_ack, k + 1, Len(list_sub_wait_ack))
         /\ heap' = heap \ expired
         /\ Raise(expired)
         /\ misused' = ~(expired \subseteq heap)
    /\ UNCHANGED <<sub_handles, linkVars, brokerVars, callVars, destroyed>>

\* yield notices that the connection is lost.
HandleDisconnect ==
    /\ is_connected
    /\ ~link
    /\ is_connected' = FALSE
    /\ requests' = <<>>
    /\ answers' = <<>>
    /\ granted' = {}
    /\ refused' = {}
    /\ UNCHANGED <<tableVars, link, callVars, heap, events, misused, destroyed>>

\* The slots of S, from the first to the last.
InOrder(S) ==
    {f \in [1..Cardinality(S) -> S] :
        /\ \A j, k \in DOMAIN f : j < k => f[j] < f[k]
        /\ \A i \in S : \E k \in DOMAIN f : f[k] = i}

\* The requests for the filters in these slots.
Resubscribed_None(order) == <<>>
Resubscribed(order) ==
    [k \in DOMAIN order |-> [id |-> 0, type |-> "SUBSCRIBE", topic |-> filter[sub_handles[order[k]].call]]]

\* The connection is established again and qcloud_iot_mqtt_resubscribe runs.
HandleReconnect ==
    /\ ~destroyed
    /\ ~is_connected
    /\ is_connected' = TRUE
    /\ link' = TRUE
    /\ \E order \in InOrder(Slots \ Unused) : requests' = Resubscribed(order)
    /\ misused' = (Dangling # {})
    /\ UNCHANGED <<tableVars, answers, granted, refused, callVars, heap, events, destroyed>>

-------------------------------------------------------------------------------
(* The broker and the network. *)

BrokerGrants ==
    /\ link
    /\ requests # <<>>
    /\ LET r == Head(requests) IN
       /\ granted' = IF r.type = "SUBSCRIBE" THEN granted \cup {r.topic} ELSE granted \ {r.topic}
       /\ refused' = refused \ {r.topic}
       /\ answers' = Append(answers, [id   |-> r.id,
                                      type |-> IF r.type = "SUBSCRIBE" THEN "SUBACK" ELSE "UNSUBACK",
                                      ok   |-> TRUE])
    /\ requests' = Tail(requests)
    /\ UNCHANGED <<tableVars, linkVars, callVars, heap, events, misused, destroyed>>

\* The broker may refuse any SUBSCRIBE, that of resubscribe too; what it had granted
\* before under the filter it keeps or not.
BrokerRefuses ==
    /\ "nack" \in Mishaps
    /\ link
    /\ requests # <<>>
    /\ LET r == Head(requests) IN
       /\ r.type = "SUBSCRIBE"
       /\ granted' \in {granted, granted \ {r.topic}}
       /\ refused' = refused \cup {r.topic}
       /\ answers' = Append(answers, [id |-> r.id, type |-> "SUBACK", ok |-> FALSE])
    /\ requests' = Tail(requests)
    /\ UNCHANGED <<tableVars, linkVars, callVars, heap, events, misused, destroyed>>

\* When nothing is slow, the connection does not fail under a request.
LinkFails ==
    /\ is_connected
    /\ link
    /\ "slow" \in Mishaps \/ list_sub_wait_ack = <<>>
    /\ link' = FALSE
    /\ UNCHANGED <<tableVars, is_connected, brokerVars, callVars, heap, events, misused, destroyed>>

-------------------------------------------------------------------------------
Init ==
    /\ sub_handles = [i \in Slots |-> [call |-> 0, status |-> FALSE]]
    /\ list_sub_wait_ack = <<>>
    /\ is_connected = TRUE
    /\ link = TRUE
    /\ requests = <<>>
    /\ answers = <<>>
    /\ granted = {}
    /\ refused = {}
    /\ filter = <<>>
    /\ heap = {}
    /\ accepted = {}
    /\ events = [n \in Calls |-> 0]
    /\ misused = FALSE
    /\ destroyed = FALSE

Application ==
    \/ \E t \in Topics : Subscribe(t) \/ SubscribeFails(t) \/ SubscribeNoRoom(t) \/ Unsubscribe(t)
    \/ Destroy

Yield ==
    \/ SubackUnknown \/ SubackGranted \/ SubackRefused \/ Unsuback
    \/ CheckSubTimeout
    \/ HandleDisconnect \/ HandleReconnect

Environment == BrokerGrants \/ BrokerRefuses \/ LinkFails

Next == ~misused /\ (Application \/ Yield \/ Environment)

Spec == Init /\ [][Next]_vars

-------------------------------------------------------------------------------
(* Properties. *)

Requests == [id : 0..MaxCalls, type : {"SUBSCRIBE", "UNSUBSCRIBE"}, topic : Topics]
Answers  == [id : 0..MaxCalls, type : {"SUBACK", "UNSUBACK"}, ok : BOOLEAN]
Nodes    == [id : Calls, type : {"SUBSCRIBE", "UNSUBSCRIBE"}]

TypeOK ==
    /\ sub_handles \in [Slots -> [call : 0..MaxCalls, status : BOOLEAN]]
    /\ list_sub_wait_ack \in Seq(Nodes) /\ Len(list_sub_wait_ack) <= MaxWaiting
    /\ is_connected \in BOOLEAN /\ link \in BOOLEAN /\ misused \in BOOLEAN /\ destroyed \in BOOLEAN
    /\ requests \in Seq(Requests)
    /\ answers \in Seq(Answers)
    /\ granted \subseteq Topics /\ refused \subseteq Topics
    /\ filter \in Seq(Topics) /\ Len(filter) <= MaxCalls
    /\ heap \subseteq Calls
    /\ accepted \subseteq Nodes
    /\ events \in [Calls -> Nat]

\* A topic filter and its user data are there as long as a handle, in the table or
\* in the waiting list, points to them.
HandlesValid ==
    /\ Dangling = {}
    /\ \A n \in Calls : Waits(n) => n \in heap

\* No handler reads or passes on what another one has released, and nothing is
\* released twice.
ReleasedIsNotUsed == ~misused

\* What is allocated is what some handle will release.
NothingLeaks ==
    heap \subseteq CallsIn(Slots) \cup {n \in Calls : Waits(n)}

\* While every request is answered in time and granted, table and waiting list own
\* the copies of filters and the user data they share: nothing dangles, is
\* released twice or is lost.
MemoryIsOwned == TypeOK /\ HandlesValid /\ ReleasedIsNotUsed /\ NothingLeaks

\* A subscription that is accepted is answered once, by success, refusal or
\* timeout, however late or often the broker is heard; an unsubscription at least.
AcceptedIsAnswered ==
    ~destroyed => \A r \in accepted :
        \/ Waits(r.id) /\ events[r.id] = 0
        \/ ~Waits(r.id) /\ events[r.id] >= 1 /\ (r.type = "SUBSCRIBE" => events[r.id] = 1)

Settled == is_connected /\ link /\ requests = <<>> /\ answers = <<>>

\* When nothing is on its way, the broker knows every filter IOT_MQTT_IsSubReady
\* is true of, or has refused it last: after any number of reconnections, lost requests
\* and late answers no filter is taken for ready of which the broker was not asked.
\* (Of a filter with a wildcard it tells the status of another slot.)
ReadyIsHeard ==
    Settled => \A t \in Topics \ Wildcards : IsSubReady(t) => t \in granted \cup refused

\* IOT_MQTT_IsSubReady is true of topics that have been subscribed (as its comment has
\* it), and 0x80 in a SUBACK is a failure.
ReadyIsSubscribed ==
    Settled => \A t \in Topics \ Wildcards : IsSubReady(t) => t \in granted

\* For every filter the broker knows, deliver_message finds the one handle whose
\* user data belongs to it.
GrantedHasOneHandle == Settled => \A t \in granted : Cardinality(Holders(t)) = 1
===============================================================================
