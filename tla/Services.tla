------------------------------- MODULE Services -------------------------------
(***************************************************************************)
(* The services on top of the client: system time, broadcast, OTA, data    *)
(* template and the service topic with file management.  Each call         *)
(* allocates a context, subscribes its topics with SubscribeSync and goes  *)
(* on while it yields; the context then belongs to the handle.  One thread *)
(* calls and yields; callbacks may end a service while a call waits.       *)
(*                                                                         *)
(* A yield of QCLOUD_IOT_MQTT_YIELD_TIMEOUT is one unit of time.  The      *)
(* broker grants every filter before SubscribeSync gives up.               *)
(***************************************************************************)
EXTENDS Integers, Sequences, FiniteSets, SequencesExt

CONSTANTS
    Programs,       \* sets of calls: what an application makes use of
    MaxContexts,    \* contexts there is memory for: HAL_Malloc fails behind them
    MaxMessages,    \* bound of the model: messages of the cloud
    MaxLosses,      \* bound of the model: connections lost
    MaxTime,        \* bound of the model: yields
    CommandYields,  \* command_timeout_ms / QCLOUD_IOT_MQTT_YIELD_TIMEOUT
    WaitYields,     \* QCLOUD_IOT_MQTT_WAIT_ACK_TIMEOUT, in yields
    MaxDelay,       \* time from a request for the time to the last moment its answer is read
    Drifts          \* what the clock may be wrong by at the start

\* The calls that allocate and subscribe, and their topics.
TopicsOf == [IOT_FileManage_Init   |-> <<"service">>,
             IOT_Broadcast_Init    |-> <<"broadcast">>,
             IOT_DataTemplate_Init |-> <<"property", "action">>,
             IOT_OTA_Init          |-> <<"ota">>,
             IOT_Sys_GetTime       |-> <<"result">>,
             IOT_Sys_SyncNTPTime   |-> <<"result">>]
Topics == UNION {ToSet(TopicsOf[a]) : a \in DOMAIN TopicsOf}

ASSUME ServicesAssumption ==
    /\ Programs \subseteq SUBSET DOMAIN TopicsOf
    /\ {MaxContexts, MaxDelay, CommandYields, WaitYields} \subseteq Nat
    /\ Drifts \subseteq Int

\* The methods of file management and the types of OTA messages.  Two methods begin alike.
sg_file_manage_method_str == {<<"update">>, <<"del">>, <<"re", "port">>, <<"re", "quest">>}
ota_update_str            == {<<"report_version_rsp">>, <<"update_firmware">>}

Known(t) == CASE t = "service" -> sg_file_manage_method_str [] t = "ota" -> ota_update_str [] OTHER -> {<<>>}

\* What the cloud sends: on the service topic a part of a method, or another one, as well.
Sent == [service   |-> sg_file_manage_method_str \cup {<<>>, <<"re">>, <<"other">>},
         ota       |-> ota_update_str \cup {<<"other">>},
         broadcast |-> {<<>>}]

VARIABLES
    apis,           \* the calls this application makes
    call,           \* the call in progress
    sub_handles,    \* per topic: context and status of its handle
    waiting,        \* the requests that wait for SUBACK or UNSUBACK
    heap,           \* contexts that are allocated
    allocs,         \* contexts allocated so far
    service_list,   \* per context of the service topic: its services
    result,         \* per context of the result topic: SystemResultInfo
    requests,       \* packets on their way to the broker
    inbox,          \* packets on their way to the client
    replies,        \* answers to requests for the time
    granted,        \* broker: the filters of the session
    now,            \* true time, which is the broker's
    drift,          \* the device's clock minus now
    messages,       \* messages sent
    losses,         \* connections lost
    registered,     \* history: per topic, what the application began there and has not ended
    synced,         \* history: the clock was set
    last,           \* history: callbacks of the last message, and those it was for
    misused         \* history: a released context was used or released again

table   == <<sub_handles, waiting>>
memory  == <<heap, allocs>>
network == <<requests, inbox, replies, granted, messages, losses>>
clock   == <<now, drift, synced>>
lists   == <<service_list, registered>>
vars    == <<apis, call, table, memory, lists, result, network, clock, last, misused>>

NoCall   == [api |-> "none", todo |-> <<>>, step |-> "idle", context |-> 0, left |-> 0, before |-> 0]
NoHandle == [context |-> 0, status |-> FALSE]
NoResult == [result_recv_ok |-> FALSE, ntptime1 |-> 0, ntptime2 |-> 0, result_recv_time |-> 0]
Contexts == 1..MaxContexts

Init ==
    /\ apis \in Programs
    /\ call = NoCall
    /\ sub_handles = [t \in Topics |-> NoHandle] /\ waiting = <<>>
    /\ heap = {} /\ allocs = 0
    /\ service_list = [c \in Contexts |-> <<>>]
    /\ result = [c \in Contexts |-> NoResult]
    /\ requests = <<>> /\ inbox = <<>> /\ replies = {} /\ granted = {} /\ messages = 0 /\ losses = 0
    /\ now = 0 /\ drift \in Drifts /\ synced = FALSE
    /\ registered = [t \in Topics |-> <<>>]
    /\ last = [calls |-> {}, due |-> {}]
    /\ misused = FALSE

-------------------------------------------------------------------------------
(* Subscriptions, as the services use them. *)

IsSubReady_Never(t)  == FALSE
IOT_MQTT_IsSubReady(t) == sub_handles[t].status
IOT_MQTT_GetSubUsrData(t) == sub_handles[t].context

\* qcloud_iot_mqtt_subscribe: a handle that holds the filter is cleared, with its context.
Subscribe(t, c) ==
    /\ sub_handles' = [sub_handles EXCEPT ![t] = [context |-> c, status |-> FALSE]]
    /\ waiting' = Append(waiting, [type |-> "SUBSCRIBE", topic |-> t, context |-> c])
    /\ requests' = Append(requests, [type |-> "SUBSCRIBE", topic |-> t, context |-> c, sent |-> now])
    /\ heap' = (heap \ {sub_handles[t].context}) \cup {c}
    /\ misused' = (misused \/ sub_handles[t].context \notin heap \cup {0})

\* qcloud_iot_mqtt_unsubscribe: the waiting node takes the context over.
Unsubscribe(S) ==
    LET held   == SetToSeq({t \in S : sub_handles[t].context # 0})
        Asks   == [k \in DOMAIN held |-> [type    |-> "UNSUBSCRIBE", topic |-> held[k],
                                          context |-> sub_handles[held[k]].context]]
    IN
    /\ sub_handles' = [t \in Topics |-> IF t \in S THEN NoHandle ELSE sub_handles[t]]
    /\ waiting' = waiting \o Asks
    /\ requests' = requests \o [k \in DOMAIN held |->
                       [type |-> "UNSUBSCRIBE", topic |-> held[k], context |-> Asks[k].context, sent |-> now]]

\* A call begins.
Call(api) ==
    /\ call.step = "idle"
    /\ call' = [NoCall EXCEPT !.api = api, !.todo = TopicsOf[api], !.step = "check"]
    /\ UNCHANGED <<apis, table, memory, lists, result, network, clock, last, misused>>

\* IOT_MQTT_SubscribeSync begins: with the topic subscribed already it releases the new
\* context and is done.
IOT_MQTT_SubscribeSync(t, c) ==
    \/ /\ IOT_MQTT_IsSubReady(t)
       /\ call' = [call EXCEPT !.todo = Tail(@)]
       /\ UNCHANGED <<table, heap, requests, misused>>
    \/ /\ ~IOT_MQTT_IsSubReady(t)
       /\ Subscribe(t, c)
       /\ call' = [call EXCEPT !.step = "subscribe", !.context = c, !.left = CommandYields]

\* Each service allocates a context of its own for its topic.
CheckAndSub(t) ==
    /\ call.step = "check" /\ call.todo # <<>> /\ t = Head(call.todo)
    /\ allocs + 1 \in Contexts
    /\ allocs' = allocs + 1
    /\ IOT_MQTT_SubscribeSync(t, allocs + 1)
    /\ registered' = [registered EXCEPT ![t] = IF t = "service" THEN @ ELSE Append(@, allocs + 1)]
    /\ UNCHANGED <<apis, service_list, result, inbox, replies, granted, messages, losses, clock, last>>

service_mqtt_topic_check_and_sub       == CheckAndSub("service")
system_mqtt_result_topic_check_and_sub == CheckAndSub("result")
ota_mqtt_update_topic_check_and_sub    == CheckAndSub("ota")
broadcast_check_and_sub                == CheckAndSub("broadcast")
data_template_topic_check_and_sub      == \E t \in {"property", "action"} : CheckAndSub(t)

\* There is no memory for the context: the call fails, but IOT_DataTemplate_Init goes on
\* with its next topic.
MallocFails ==
    /\ call.step = "check" /\ call.todo # <<>>
    /\ allocs = MaxContexts
    /\ call' = IF call.api = "IOT_DataTemplate_Init" THEN [call EXCEPT !.todo = Tail(@)] ELSE NoCall
    /\ UNCHANGED <<apis, table, memory, lists, result, network, clock, last, misused>>

\* The topics are subscribed and the call goes on.
Subscribed(api) == call.step = "check" /\ call.todo = <<>> /\ call.api = api

\* IOT_FileManage_Init registers its methods with the service topic.  The service is
\* known by its turn.
service_mqtt_service_register ==
    LET c == IOT_MQTT_GetSubUsrData("service") IN
    /\ Subscribed("IOT_FileManage_Init")
    /\ call' = NoCall
    /\ service_list' = [service_list EXCEPT ![c] = Append(@, allocs)]
    /\ registered' = [registered EXCEPT !["service"] = Append(@, allocs)]
    /\ misused' = (misused \/ c \notin heap)
    /\ UNCHANGED <<apis, table, memory, result, network, clock, last>>

InitReturns ==
    /\ \E api \in {"IOT_Broadcast_Init", "IOT_DataTemplate_Init", "IOT_OTA_Init"} : Subscribed(api)
    /\ call' = NoCall
    /\ UNCHANGED <<apis, table, memory, lists, result, network, clock, last, misused>>

-------------------------------------------------------------------------------
(* System time. *)

\* SyncNTPTime, and not GetTime, forgets the last answer first.
Forgotten_Kept(r) == r
Forgotten(r)      == IF call.api = "IOT_Sys_SyncNTPTime" THEN [r EXCEPT !.result_recv_ok = FALSE] ELSE r

PublishTime ==
    LET c == IOT_MQTT_GetSubUsrData("result") IN
    /\ Subscribed("IOT_Sys_GetTime") \/ Subscribed("IOT_Sys_SyncNTPTime")
    /\ result' = [result EXCEPT ![c] = Forgotten(@)]
    /\ requests' = Append(requests, [type |-> "TIME", topic |-> "result", context |-> 0, sent |-> now])
    /\ call' = [call EXCEPT !.step = "wait", !.context = c, !.left = WaitYields, !.before = now + drift]
    /\ misused' = (misused \/ c \notin heap)
    /\ UNCHANGED <<apis, table, memory, lists, inbox, replies, granted, messages, losses, clock, last>>

\* _system_mqtt_message_callback.
TakeTime(r) ==
    LET c == IOT_MQTT_GetSubUsrData("result") IN
    /\ replies' = replies \ {r}
    /\ result' = IF c = 0 THEN result
                 ELSE [result EXCEPT ![c] = [result_recv_ok |-> TRUE, ntptime1 |-> r.ntptime1,
                                             ntptime2 |-> r.ntptime2, result_recv_time |-> now + drift]]
    /\ misused' = (misused \/ c \notin heap \cup {0})
    /\ UNCHANGED <<apis, call, table, memory, lists, requests, inbox, granted, messages, losses, clock, last>>

\* The time of the answer and half of the way it took.
LocalNtptime(r) == (r.ntptime2 + r.ntptime1 + r.result_recv_time - call.before) \div 2

-------------------------------------------------------------------------------
(* IOT_MQTT_Yield returns, to the application or to a call that waits. *)

Elapses ==
    /\ now < MaxTime
    /\ now' = now + 1
    /\ replies' = {r \in replies : now < r.sent + MaxDelay}
    /\ UNCHANGED <<apis, table, memory, lists, result, requests, inbox, granted, messages, losses, last, misused>>

YieldIdle == call.step = "idle" /\ Elapses /\ UNCHANGED <<call, drift, synced>>

\* The loop of IOT_MQTT_SubscribeSync.
YieldSubscribe ==
    LET t == Head(call.todo) IN
    /\ call.step = "subscribe"
    /\ Elapses
    /\ \/ /\ sub_handles[t].status
          /\ call' = [call EXCEPT !.step = "check", !.todo = Tail(@)]
       \/ /\ ~sub_handles[t].status /\ call.left > 0
          /\ call' = [call EXCEPT !.left = @ - 1]
    /\ UNCHANGED <<drift, synced>>

\* The loop of _system_mqtt_result_wait goes on, or ends with a timeout.
YieldWait ==
    /\ call.step = "wait"
    /\ ~result[call.context].result_recv_ok
    /\ Elapses
    /\ call' = IF call.left > 1 THEN [call EXCEPT !.left = @ - 1] ELSE NoCall
    /\ UNCHANGED <<drift, synced>>

\* It ends with an answer; SyncNTPTime sets the clock, which may be refused.
WaitReturns ==
    /\ call.step = "wait"
    /\ result[call.context].result_recv_ok
    /\ Elapses
    /\ \/ UNCHANGED <<drift, synced>>
       \/ /\ call.api = "IOT_Sys_SyncNTPTime"
          /\ drift' = LocalNtptime(result[call.context]) - now'
          /\ synced' = TRUE
    /\ call' = NoCall

-------------------------------------------------------------------------------
(* The service topic and file management. *)

\* service_mqtt_service_unregister takes the first service of its type off the list.
service_mqtt_service_unregister(c) ==
    service_list' = [service_list EXCEPT ![c] = IF @ = <<>> THEN @ ELSE Tail(@)]

\* service_mqtt_deinit unsubscribes when no service is left.
service_mqtt_deinit(c) ==
    IF service_list'[c] = <<>> THEN Unsubscribe({"service"}) ELSE UNCHANGED <<table, requests>>

IOT_FileManage_Deinit ==
    LET c == IOT_MQTT_GetSubUsrData("service") IN
    /\ "IOT_FileManage_Init" \in apis
    /\ call.step \in {"idle", "wait"}
    /\ c # 0
    /\ service_mqtt_service_unregister(c)
    /\ service_mqtt_deinit(c)
    /\ registered' = [registered EXCEPT !["service"] = IF @ = <<>> THEN <<>> ELSE Tail(@)]
    /\ misused' = (misused \/ c \notin heap)
    /\ UNCHANGED <<apis, call, memory, result, inbox, replies, granted, messages, losses, clock, last>>

\* The other services unsubscribe their topics.
Deinit(api) ==
    /\ api \in apis
    /\ call.step \in {"idle", "wait"}
    /\ \E t \in ToSet(TopicsOf[api]) : sub_handles[t].context # 0
    /\ Unsubscribe(ToSet(TopicsOf[api]))
    /\ registered' = [t \in Topics |-> IF t \in ToSet(TopicsOf[api]) THEN <<>> ELSE registered[t]]
    /\ UNCHANGED <<apis, call, memory, service_list, result, inbox, replies, granted, messages, losses, clock, last, misused>>

IOT_Broadcast_Deinit    == Deinit("IOT_Broadcast_Init")
IOT_OTA_Deinit          == Deinit("IOT_OTA_Init")
IOT_DataTemplate_Deinit == Deinit("IOT_DataTemplate_Init")

-------------------------------------------------------------------------------
(* What is called for a message of a topic whose handle leads to context c; a message  *)
(* that lacks a field calls nothing.                                                   *)

Called(service, methods) == {[service |-> service, method |-> m] : m \in methods}

\* _server_list_process_message_callback compares length and text.
Serves_Prefix(method) == \E m \in sg_file_manage_method_str : IsPrefix(method, m)
Serves(method)        == method \in sg_file_manage_method_str

\* Each method has fields of its own; with one missing its callback is not called.
file_manage_parse(service, m, p) == IF p.complete THEN Called(service, {m}) ELSE {}
ota_parse_update_payload(c, m, p) == IF p.complete THEN Called(c, {m}) ELSE {}

\* Both go through every method that begins like the message's.
file_manage_message_callback(service, p) ==
    UNION {file_manage_parse(service, m, p) : m \in {n \in sg_file_manage_method_str : IsPrefix(p.method, n)}}

ota_mqtt_message_callback(c, p) ==
    UNION {ota_parse_update_payload(c, m, p) : m \in {n \in ota_update_str : IsPrefix(p.method, n)}}

service_mqtt_message_handle(c, p) ==
    IF service_list[c] # <<>> /\ Serves(p.method)
    THEN file_manage_message_callback(Head(service_list[c]), p) ELSE {}

broadcast_message_cb(c, p) == Called(c, {p.method})

Dispatch(c, p) ==
    CASE p.topic = "service"   -> service_mqtt_message_handle(c, p)
      [] p.topic = "ota"       -> ota_mqtt_message_callback(c, p)
      [] p.topic = "broadcast" -> broadcast_message_cb(c, p)

-------------------------------------------------------------------------------
(* What the yield reads. *)

Reads(type) ==
    /\ inbox # <<>> /\ Head(inbox).type = type
    /\ inbox' = Tail(inbox)
    /\ UNCHANGED <<apis, call, allocs, lists, result, requests, replies, granted, messages, losses, clock>>

Answered(p, type) == RemoveFirst(waiting, [type |-> type, topic |-> p.topic, context |-> p.context])

ReadSuback ==
    LET p == Head(inbox) IN
    /\ Reads("SUBACK")
    /\ waiting' = Answered(p, "SUBSCRIBE")
    /\ sub_handles' = [sub_handles EXCEPT ![p.topic].status = @ \/ sub_handles[p.topic].context # 0]
    /\ UNCHANGED <<heap, last, misused>>

\* The context that the node took over is released.
Releases_Kept(c) == {}
Releases(c)      == {c}

ReadUnsuback ==
    LET p == Head(inbox) IN
    /\ Reads("UNSUBACK")
    /\ waiting' = Answered(p, "UNSUBSCRIBE")
    /\ heap' = heap \ Releases(p.context)
    /\ misused' = (misused \/ p.context \notin heap)
    /\ UNCHANGED <<sub_handles, last>>

ReadMessage ==
    LET p   == Head(inbox)
        c   == IOT_MQTT_GetSubUsrData(p.topic)
        had == registered[p.topic]
    IN
    /\ Reads("MESSAGE")
    /\ last' = [calls |-> IF c = 0 THEN {} ELSE Dispatch(c, p),
                due   |-> IF had = <<>> \/ ~p.complete \/ p.method \notin Known(p.topic) THEN {}
                          ELSE Called(Head(had), {p.method})]
    /\ misused' = (misused \/ c \notin heap \cup {0})
    /\ UNCHANGED <<apis, table, heap>>

\* qcloud_iot_mqtt_check_sub_timeout, for an UNSUBSCRIBE lost with the connection.
UnsubExpires ==
    /\ \E k \in DOMAIN waiting :
         LET w == waiting[k] IN
         /\ w.type = "UNSUBSCRIBE"
         /\ \A i \in DOMAIN requests : requests[i].context # w.context
         /\ \A i \in DOMAIN inbox : inbox[i].context # w.context
         /\ waiting' = RemoveAt(waiting, k)
         /\ heap' = heap \ {w.context}
         /\ misused' = (misused \/ w.context \notin heap)
    /\ UNCHANGED <<apis, call, sub_handles, allocs, lists, result, network, clock, last>>

\* A connection is lost and made again: what was on its way is gone, the broker has
\* forgotten the session and the filters of the table are subscribed again.  The yield
\* returns an error, which ends a wait.
Reconnect ==
    LET held == SetToSeq({t \in Topics : sub_handles[t].context # 0}) IN
    /\ call.step # "subscribe"
    /\ granted # {} /\ losses < MaxLosses
    /\ losses' = losses + 1
    /\ granted' = {} /\ inbox' = <<>> /\ replies' = {}
    /\ requests' = [k \in DOMAIN held |-> [type |-> "RESUBSCRIBE", topic |-> held[k], context |-> 0, sent |-> now]]
    /\ call' = IF call.step = "wait" /\ ~result[call.context].result_recv_ok THEN NoCall ELSE call
    /\ UNCHANGED <<apis, table, memory, lists, result, messages, clock, last, misused>>

-------------------------------------------------------------------------------
(* The broker.  A request for the time that is on its way too long is not answered. *)

Packet(type, topic, c, method, complete) ==
    [type |-> type, topic |-> topic, context |-> c, method |-> method, complete |-> complete]

Broker ==
    LET r == Head(requests) IN
    /\ requests # <<>>
    /\ requests' = Tail(requests)
    /\ CASE r.type = "TIME" ->
              /\ replies' = IF now > r.sent + MaxDelay THEN replies
                            ELSE replies \cup {[sent |-> r.sent, ntptime1 |-> (r.sent + now + 1) \div 2, ntptime2 |-> now]}
              /\ UNCHANGED <<granted, inbox>>
         [] r.type = "UNSUBSCRIBE" ->
              /\ granted' = granted \ {r.topic}
              /\ inbox' = Append(inbox, Packet("UNSUBACK", r.topic, r.context, <<>>, TRUE))
              /\ UNCHANGED replies
         [] OTHER ->
              /\ granted' = granted \cup {r.topic}
              /\ inbox' = IF r.type = "SUBSCRIBE" THEN Append(inbox, Packet("SUBACK", r.topic, r.context, <<>>, TRUE)) ELSE inbox
              /\ UNCHANGED replies
    /\ UNCHANGED <<apis, call, table, memory, lists, result, messages, losses, clock, last, misused>>

BrokerSends(t, method, complete) ==
    /\ t \in granted
    /\ t = "broadcast" => complete
    /\ messages < MaxMessages
    /\ messages' = messages + 1
    /\ inbox' = Append(inbox, Packet("MESSAGE", t, 0, method, complete))
    /\ UNCHANGED <<apis, call, table, memory, lists, result, requests, replies, granted, losses, clock, last, misused>>

-------------------------------------------------------------------------------
Application ==
    \/ \E api \in apis : Call(api)
    \/ service_mqtt_topic_check_and_sub \/ system_mqtt_result_topic_check_and_sub
    \/ ota_mqtt_update_topic_check_and_sub \/ broadcast_check_and_sub \/ data_template_topic_check_and_sub
    \/ MallocFails \/ service_mqtt_service_register \/ InitReturns \/ PublishTime
    \/ IOT_FileManage_Deinit \/ IOT_Broadcast_Deinit \/ IOT_OTA_Deinit \/ IOT_DataTemplate_Deinit

Yield ==
    \/ YieldIdle \/ YieldSubscribe \/ YieldWait \/ WaitReturns
    \/ ReadSuback \/ ReadUnsuback \/ ReadMessage \/ UnsubExpires \/ Reconnect
    \/ \E r \in replies : TakeTime(r)

Environment == Broker \/ \E t \in DOMAIN Sent, complete \in BOOLEAN : \E m \in Sent[t] : BrokerSends(t, m, complete)

Next == Application \/ Yield \/ Environment
Spec == Init /\ [][Next]_vars

-------------------------------------------------------------------------------
(* Properties. *)

\* Whatever is initialised, ended and initialised again, and however often the
\* connection is lost, what the application began on a topic is what the topic's handle
\* leads to, and the broker knows the topic or is about to.  A message calls one callback,
\* that of its method, of the first that began; and none when it lacks a field or all have
\* ended.
ServicesAreReached ==
    /\ \A t \in Topics : registered[t] # <<>> =>
         /\ sub_handles[t].context # 0
         /\ IF t = "service" THEN service_list[sub_handles[t].context] = registered[t]
                             ELSE sub_handles[t].context = Head(registered[t])
         /\ requests = <<>> => t \in granted
    /\ last.calls = last.due

\* A context is released once, when its handle and the node that took it over are gone,
\* and is not used afterwards.
ContextsAreOwned ==
    /\ heap = ({sub_handles[t].context : t \in Topics} \ {0})
              \cup {waiting[k].context : k \in {j \in DOMAIN waiting : waiting[j].type = "UNSUBSCRIBE"}}
    /\ ~misused

\* SyncNTPTime sets the clock from an answer of its own waiting time: it is wrong by no
\* more than an answer can be late, and the rest of the yield that read it.  An answer of
\* an earlier call does not pass for a new one.
ClockIsClose == synced => drift \in -(MaxDelay + 1)..MaxDelay
===============================================================================
