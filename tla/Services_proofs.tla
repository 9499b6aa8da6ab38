--------------------------- MODULE Services_proofs ---------------------------
(***************************************************************************)
(* What holds of Services for any programs, any number of contexts,        *)
(* messages and lost connections, and at any time.                         *)
(***************************************************************************)
EXTENDS Services, SequenceFacts, TLAPS

APIs    == DOMAIN TopicsOf
Handle  == [context : 0..MaxContexts, status : BOOLEAN]
Node    == [type : {"SUBSCRIBE", "UNSUBSCRIBE"}, topic : Topics, context : Contexts]
Request == [type : {"SUBSCRIBE", "UNSUBSCRIBE", "RESUBSCRIBE", "TIME"}, topic : Topics,
            context : 0..MaxContexts, sent : Nat]
Methods == {<<>>} \cup UNION {Sent[t] : t \in DOMAIN Sent}
Arrival == [type : {"SUBACK", "UNSUBACK", "MESSAGE"}, topic : Topics, context : 0..MaxContexts,
            method : Methods, complete : BOOLEAN]
Reply   == [sent : Nat, ntptime1 : Int, ntptime2 : Int]
Answer  == [result_recv_ok : BOOLEAN, ntptime1 : Int, ntptime2 : Int, result_recv_time : Int]
InCall  == [api : APIs \cup {"none"}, todo : Seq(Topics), step : {"idle", "check", "subscribe", "wait"},
            context : 0..MaxContexts, left : Int, before : Int]

\* The types of what the properties are about.
TypeInv ==
    /\ apis \subseteq APIs
    /\ call \in InCall
    /\ sub_handles \in [Topics -> Handle]
    /\ waiting \in Seq(Node)
    /\ heap \subseteq Contexts
    /\ allocs \in 0..MaxContexts
    /\ service_list \in [Contexts -> Seq(Nat)]
    /\ result \in [Contexts -> Answer]
    /\ requests \in Seq(Request)
    /\ inbox \in Seq(Arrival)
    /\ replies \subseteq Reply
    /\ granted \subseteq Topics
    /\ now \in Nat
    /\ drift \in Int
    /\ registered \in [Topics -> Seq(Nat)]

\* A handle that is granted has a context.  A call that subscribes one topic has found
\* it with a context when it goes on, and one that waits for the time knows its context.
CallInv ==
    /\ \A t \in Topics : sub_handles[t].status => sub_handles[t].context # 0
    /\ call.step \in {"check", "subscribe"} /\ call.api # "IOT_DataTemplate_Init" =>
         /\ call.api \in APIs
         /\ \/ call.todo = TopicsOf[call.api]
            \/ call.todo = <<>> /\ sub_handles[Head(TopicsOf[call.api])].context # 0
    /\ call.step = "subscribe" => call.todo # <<>>
    /\ call.step = "wait" => call.context # 0

-------------------------------------------------------------------------------
(* The tables. *)

LEMMA TopicFacts ==
  /\ APIs = {"IOT_FileManage_Init", "IOT_Broadcast_Init", "IOT_DataTemplate_Init",
             "IOT_OTA_Init", "IOT_Sys_GetTime", "IOT_Sys_SyncNTPTime"}
  /\ TopicsOf["IOT_FileManage_Init"] = <<"service">>
  /\ TopicsOf["IOT_Broadcast_Init"] = <<"broadcast">>
  /\ TopicsOf["IOT_DataTemplate_Init"] = <<"property", "action">>
  /\ TopicsOf["IOT_OTA_Init"] = <<"ota">>
  /\ TopicsOf["IOT_Sys_GetTime"] = <<"result">>
  /\ TopicsOf["IOT_Sys_SyncNTPTime"] = <<"result">>
BY DEF APIs, TopicsOf

LEMMA TopicSets ==
  /\ ToSet(<<"service">>) = {"service"}
  /\ ToSet(<<"broadcast">>) = {"broadcast"}
  /\ ToSet(<<"property", "action">>) = {"property", "action"}
  /\ ToSet(<<"ota">>) = {"ota"}
  /\ ToSet(<<"result">>) = {"result"}
BY DEF ToSet

LEMMA AllTopics == Topics = {"service", "broadcast", "property", "action", "ota", "result"}
<1>1. Topics = UNION {ToSet(TopicsOf[a]) : a \in APIs}
  BY DEF Topics, APIs
<1>2. \A a \in APIs : ToSet(TopicsOf[a]) \subseteq {"service", "broadcast", "property", "action", "ota", "result"}
  BY TopicFacts, TopicSets
<1>3. /\ {"service"} \subseteq Topics /\ {"broadcast"} \subseteq Topics /\ {"ota"} \subseteq Topics
      /\ {"property", "action"} \subseteq Topics /\ {"result"} \subseteq Topics
  <2>1. \A a \in APIs : ToSet(TopicsOf[a]) \subseteq Topics
    BY <1>1
  <2> QED
    BY <2>1, TopicFacts, TopicSets
<1> QED
  BY <1>1, <1>2, <1>3

LEMMA TopicsFinite ==
  ASSUME NEW S \in SUBSET Topics
  PROVE  IsFiniteSet(S)
<1>1. IsFiniteSet({"service"} \cup {"broadcast"})
  BY FS_Singleton, FS_Union
<1>2. IsFiniteSet({"property"} \cup {"action"})
  BY FS_Singleton, FS_Union
<1>3. IsFiniteSet({"ota"} \cup {"result"})
  BY FS_Singleton, FS_Union
<1>4. IsFiniteSet(({"service"} \cup {"broadcast"}) \cup ({"property"} \cup {"action"}))
  BY <1>1, <1>2, FS_Union
<1>5. IsFiniteSet((({"service"} \cup {"broadcast"}) \cup ({"property"} \cup {"action"})) \cup ({"ota"} \cup {"result"}))
  BY <1>3, <1>4, FS_Union
<1>6. Topics = (({"service"} \cup {"broadcast"}) \cup ({"property"} \cup {"action"})) \cup ({"ota"} \cup {"result"})
  BY AllTopics
<1> QED
  BY <1>5, <1>6, FS_Subset

LEMMA TopicsOfType ==
  ASSUME NEW a \in APIs
  PROVE  TopicsOf[a] \in Seq(Topics)
<1>1. /\ <<"service">> \in Seq(Topics) /\ <<"broadcast">> \in Seq(Topics) /\ <<"ota">> \in Seq(Topics)
      /\ <<"result">> \in Seq(Topics)
  BY AllTopics
<1>2. <<"property", "action">> \in Seq(Topics)
  BY AllTopics
<1> QED
  BY <1>1, <1>2, TopicFacts

LEMMA HeadTail ==
  ASSUME NEW S, NEW q \in Seq(S), q # <<>>
  PROVE  /\ Head(q) \in S /\ Head(q) = q[1] /\ Tail(q) \in Seq(S)
         /\ Len(Tail(q)) = Len(q) - 1 /\ Len(q) \in Nat \ {0}
         /\ \A i \in 1..Len(Tail(q)) : Tail(q)[i] = q[i + 1]
BY HeadTailProperties, EmptySeq, LenProperties

-------------------------------------------------------------------------------
(* Types. *)

\* The topics whose handle leads to a context, in the order in which they are asked for.
Held(S) == SetToSeq({t \in S : sub_handles[t].context # 0})

LEMMA HeldFacts ==
  ASSUME TypeInv, NEW S \in SUBSET Topics
  PROVE  /\ Held(S) \in Seq(Topics)
         /\ DOMAIN Held(S) = 1..Len(Held(S))
         /\ \A i \in DOMAIN Held(S) : Held(S)[i] \in S /\ sub_handles[Held(S)[i]].context \in Contexts
         /\ \A t \in S : sub_handles[t].context # 0 => \E i \in DOMAIN Held(S) : Held(S)[i] = t
         /\ \A i, j \in DOMAIN Held(S) : Held(S)[i] = Held(S)[j] => i = j
<1> DEFINE H == {t \in S : sub_handles[t].context # 0}
<1>1. IsFiniteSet(H)
  BY TopicsFinite
<1>2. /\ SetToSeq(H) \in Seq(H)
      /\ DOMAIN SetToSeq(H) = 1..Len(SetToSeq(H))
      /\ \A x \in H : \E i \in DOMAIN SetToSeq(H) : SetToSeq(H)[i] = x
      /\ \A i, j \in DOMAIN SetToSeq(H) : SetToSeq(H)[i] = SetToSeq(H)[j] => i = j
  <2> HIDE DEF H
  <2> QED
    BY <1>1, SetToSeqFacts
<1>3. Held(S) = SetToSeq(H)
  BY DEF Held
<1>4. Seq(H) \subseteq Seq(Topics)
  OBVIOUS
<1>5. \A i \in DOMAIN SetToSeq(H) : SetToSeq(H)[i] \in H
  BY <1>2
<1>6. \A t \in H : t \in S /\ sub_handles[t].context \in Contexts
  BY ServicesAssumption DEF TypeInv, Handle, Contexts
<1> QED
  BY <1>2, <1>3, <1>4, <1>5, <1>6

\* What an unsubscription of S adds: a node and a request for each topic that is held.
Asked(S) == [k \in DOMAIN Held(S) |-> [type |-> "UNSUBSCRIBE", topic |-> Held(S)[k],
                                       context |-> sub_handles[Held(S)[k]].context]]
Asking(S) == [k \in DOMAIN Held(S) |-> [type |-> "UNSUBSCRIBE", topic |-> Held(S)[k],
                                        context |-> sub_handles[Held(S)[k]].context, sent |-> now]]

LEMMA UnsubscribeIs ==
  ASSUME TypeInv, NEW S \in SUBSET Topics, Unsubscribe(S)
  PROVE  /\ sub_handles' = [t \in Topics |-> IF t \in S THEN NoHandle ELSE sub_handles[t]]
         /\ waiting' = waiting \o Asked(S) /\ Asked(S) \in Seq(Node)
         /\ requests' = requests \o Asking(S) /\ Asking(S) \in Seq(Request)
<1>1. /\ DOMAIN Held(S) = 1..Len(Held(S)) /\ Len(Held(S)) \in Nat
      /\ \A i \in DOMAIN Held(S) : Held(S)[i] \in Topics /\ sub_handles[Held(S)[i]].context \in Contexts
  BY HeldFacts, LenProperties
<1>2. /\ waiting' = waiting \o Asked(S)
      /\ requests' = requests \o [k \in DOMAIN Held(S) |->
                        [type |-> "UNSUBSCRIBE", topic |-> Held(S)[k], context |-> Asked(S)[k].context, sent |-> now]]
      /\ sub_handles' = [t \in Topics |-> IF t \in S THEN NoHandle ELSE sub_handles[t]]
  BY DEF Unsubscribe, Held, Asked
<1> HIDE DEF Held
<1>3. \A k \in DOMAIN Held(S) : Asked(S)[k].context = sub_handles[Held(S)[k]].context
  BY DEF Asked
<1>4. [k \in DOMAIN Held(S) |->
          [type |-> "UNSUBSCRIBE", topic |-> Held(S)[k], context |-> Asked(S)[k].context, sent |-> now]] = Asking(S)
  BY <1>3 DEF Asking
<1>5. Asked(S) \in Seq(Node)
  <2>1. \A k \in DOMAIN Held(S) : [type |-> "UNSUBSCRIBE", topic |-> Held(S)[k],
                                    context |-> sub_handles[Held(S)[k]].context] \in Node
    BY <1>1 DEF Node
  <2>2. Asked(S) \in [1..Len(Held(S)) -> Node]
    BY <1>1, <2>1 DEF Asked
  <2> QED
    BY <1>1, <2>2
<1>6. Asking(S) \in Seq(Request)
  <2>1. \A k \in DOMAIN Held(S) : [type |-> "UNSUBSCRIBE", topic |-> Held(S)[k],
                                    context |-> sub_handles[Held(S)[k]].context, sent |-> now] \in Request
    BY <1>1, ServicesAssumption DEF Request, Contexts, TypeInv
  <2>2. Asking(S) \in [1..Len(Held(S)) -> Request]
    BY <1>1, <2>1 DEF Asking
  <2> QED
    BY <1>1, <2>2
<1> QED
  BY <1>2, <1>4, <1>5, <1>6

LEMMA TypeInit == Init => TypeInv
<1> SUFFICES ASSUME Init
             PROVE  TypeInv
  OBVIOUS
<1>1. call \in InCall /\ 0 \in 0..MaxContexts /\ apis \subseteq APIs
  BY ServicesAssumption DEF Init, NoCall, InCall, APIs
<1>2. sub_handles \in [Topics -> Handle]
  BY <1>1 DEF Init, NoHandle, Handle
<1>3. result \in [Contexts -> Answer] /\ service_list \in [Contexts -> Seq(Nat)] /\ registered \in [Topics -> Seq(Nat)]
  BY DEF Init, NoResult, Answer
<1> QED
  BY <1>1, <1>2, <1>3, ServicesAssumption DEF Init, TypeInv

\* A call goes on.
LEMMA CallTypes ==
  ASSUME TypeInv
  PROVE  /\ NoCall \in InCall
         /\ call.todo # <<>> => [call EXCEPT !.todo = Tail(@)] \in InCall
         /\ call.todo # <<>> => [call EXCEPT !.step = "check", !.todo = Tail(@)] \in InCall
         /\ [call EXCEPT !.left = @ - 1] \in InCall
<1>1. call \in InCall /\ 0 \in 0..MaxContexts
  BY ServicesAssumption DEF TypeInv
<1>2. NoCall \in InCall
  BY <1>1 DEF NoCall, InCall
<1>3. call.todo \in Seq(Topics)
  BY <1>1 DEF InCall
<1>4. call.todo # <<>> => Tail(call.todo) \in Seq(Topics)
  BY <1>3, HeadTail
<1>5. [call EXCEPT !.left = @ - 1] \in InCall
  BY <1>1 DEF InCall
<1>6. ASSUME call.todo # <<>>
      PROVE  /\ [call EXCEPT !.todo = Tail(@)] \in InCall
             /\ [call EXCEPT !.step = "check", !.todo = Tail(@)] \in InCall
  <2>1. Tail(call.todo) \in Seq(Topics)
    BY <1>4, <1>6
  <2>2. \A q \in Seq(Topics) : /\ [call EXCEPT !.todo = q] \in InCall
                              /\ [call EXCEPT !.step = "check", !.todo = q] \in InCall
    BY <1>1 DEF InCall
  <2> QED
    BY <2>1, <2>2
<1> QED
  BY <1>2, <1>5, <1>6

\* A topic is checked and, unless it is subscribed, asked for with a new context.
LEMMA CheckIs ==
  ASSUME TypeInv, NEW t \in Topics, CheckAndSub(t)
  PROVE  /\ call.step = "check" /\ call.todo # <<>> /\ t = Head(call.todo)
         /\ allocs' = allocs + 1 /\ allocs + 1 \in Contexts
         /\ registered' = [registered EXCEPT ![t] = IF t = "service" THEN @ ELSE Append(@, allocs + 1)]
         /\ UNCHANGED <<apis, service_list, result, inbox, replies, granted, now, drift, synced, last>>
         /\ \/ /\ sub_handles[t].status
               /\ call' = [call EXCEPT !.todo = Tail(@)]
               /\ UNCHANGED <<sub_handles, waiting, heap, requests, misused>>
            \/ /\ ~sub_handles[t].status
               /\ Subscribe(t, allocs + 1)
               /\ call' = [call EXCEPT !.step = "subscribe", !.context = allocs + 1, !.left = CommandYields]
BY DEF CheckAndSub, IOT_MQTT_SubscribeSync, IOT_MQTT_IsSubReady, table, clock

LEMMA TypeCheck ==
  ASSUME TypeInv, NEW t \in Topics, CheckAndSub(t)
  PROVE  TypeInv'
<1> DEFINE c == allocs + 1
<1>1. c \in Contexts /\ c \in 0..MaxContexts /\ c \in Nat /\ allocs' = c
  BY CheckIs, ServicesAssumption DEF Contexts
<1>2. registered' \in [Topics -> Seq(Nat)]
  <2>1. registered' = [registered EXCEPT ![t] = IF t = "service" THEN @ ELSE Append(@, c)]
    BY CheckIs
  <2>2. Append(registered[t], c) \in Seq(Nat)
    BY <1>1, AppendProperties DEF TypeInv
  <2> QED
    BY <2>1, <2>2 DEF TypeInv
<1>3. CASE /\ call' = [call EXCEPT !.todo = Tail(@)]
           /\ UNCHANGED <<sub_handles, waiting, heap, requests, misused>>
  BY <1>1, <1>2, <1>3, CheckIs, CallTypes DEF TypeInv
<1>4. CASE Subscribe(t, c) /\ call' = [call EXCEPT !.step = "subscribe", !.context = c, !.left = CommandYields]
  <2>1. call' \in InCall
    <3>1. call \in InCall /\ CommandYields \in Int
      BY ServicesAssumption DEF TypeInv
    <3>2. \A n \in 0..MaxContexts, y \in Int :
             [call EXCEPT !.step = "subscribe", !.context = n, !.left = y] \in InCall
      BY <3>1 DEF InCall
    <3> HIDE DEF c
    <3> QED
      BY <1>1, <1>4, <3>1, <3>2
  <2>2. sub_handles' \in [Topics -> Handle]
    <3>1. [context |-> c, status |-> FALSE] \in Handle
      BY <1>1 DEF Handle
    <3> QED
      BY <1>4, <3>1 DEF Subscribe, TypeInv
  <2>3. waiting' \in Seq(Node)
    <3>1. [type |-> "SUBSCRIBE", topic |-> t, context |-> c] \in Node
      BY <1>1 DEF Node
    <3> QED
      BY <1>4, <3>1, AppendProperties DEF Subscribe, TypeInv
  <2>4. requests' \in Seq(Request)
    <3>1. [type |-> "SUBSCRIBE", topic |-> t, context |-> c, sent |-> now] \in Request
      BY <1>1 DEF Request, TypeInv
    <3> QED
      BY <1>4, <3>1, AppendProperties DEF Subscribe, TypeInv
  <2>5. heap' \subseteq Contexts
    BY <1>1, <1>4 DEF Subscribe, TypeInv
  <2>6. /\ UNCHANGED <<apis, service_list, result, inbox, replies, granted, now, drift, synced, last>>
    BY CheckIs
  <2> QED
    BY <1>1, <1>2, <2>1, <2>2, <2>3, <2>4, <2>5, <2>6 DEF TypeInv
<1> QED
  BY <1>3, <1>4, CheckIs

LEMMA TypeUnsubscribe ==
  ASSUME TypeInv, NEW S \in SUBSET Topics, Unsubscribe(S)
  PROVE  sub_handles' \in [Topics -> Handle] /\ waiting' \in Seq(Node) /\ requests' \in Seq(Request)
<1>1. NoHandle \in Handle
  BY ServicesAssumption DEF NoHandle, Handle
<1>2. sub_handles' \in [Topics -> Handle]
  BY <1>1, UnsubscribeIs DEF TypeInv
<1>3. waiting' \in Seq(Node)
  <2>1. waiting' = waiting \o Asked(S) /\ Asked(S) \in Seq(Node) /\ waiting \in Seq(Node)
    BY UnsubscribeIs DEF TypeInv
  <2> QED
    BY <2>1, ConcatProperties
<1>4. requests' \in Seq(Request)
  <2>1. requests' = requests \o Asking(S) /\ Asking(S) \in Seq(Request) /\ requests \in Seq(Request)
    BY UnsubscribeIs DEF TypeInv
  <2> QED
    BY <2>1, ConcatProperties
<1> QED
  BY <1>2, <1>3, <1>4

\* A wait of the application, or of a call: time goes on.
LEMMA TypeElapses ==
  ASSUME TypeInv, Elapses, call' \in InCall, drift' \in Int
  PROVE  TypeInv'
<1>1. now' \in Nat /\ replies' \subseteq Reply
  BY DEF Elapses, TypeInv
<1> QED
  BY <1>1 DEF Elapses, TypeInv, table, memory, lists

\* What is read, and a node that is answered.
LEMMA ReadsIs ==
  ASSUME TypeInv, NEW type, Reads(type)
  PROVE  /\ inbox # <<>> /\ Head(inbox) \in Arrival /\ Head(inbox).type = type
         /\ inbox' = Tail(inbox) /\ inbox' \in Seq(Arrival)
         /\ UNCHANGED <<apis, call, allocs, service_list, registered, result, requests, replies, granted, now, drift, synced>>
BY HeadTail DEF Reads, TypeInv, lists, clock

LEMMA AnsweredIs ==
  ASSUME TypeInv, NEW p, NEW type
  PROVE  /\ Answered(p, type) \in Seq(Node)
         /\ LET e == [type |-> type, topic |-> p.topic, context |-> p.context] IN
            \/ /\ \A i \in 1..Len(waiting) : waiting[i] # e
               /\ Answered(p, type) = waiting
            \/ \E k \in 1..Len(waiting) : waiting[k] = e /\ Answered(p, type) = RemoveAt(waiting, k)
<1> DEFINE e == [type |-> type, topic |-> p.topic, context |-> p.context]
<1>1. waiting \in Seq(Node) /\ Answered(p, type) = RemoveFirst(waiting, e)
  BY DEF TypeInv, Answered
<1> HIDE DEF e
<1>2. \/ /\ \A i \in 1..Len(waiting) : waiting[i] # e
         /\ Answered(p, type) = waiting
      \/ \E k \in 1..Len(waiting) : waiting[k] = e /\ Answered(p, type) = RemoveAt(waiting, k)
  BY <1>1, RemoveFirstFacts
<1>3. Answered(p, type) \in Seq(Node)
  BY <1>1, <1>2, RemoveAtFacts
<1> QED
  BY <1>2, <1>3 DEF e

LEMMA TypeApplication ==
  ASSUME TypeInv, Application
  PROVE  TypeInv'
<1>1. ASSUME NEW api \in apis, Call(api)
      PROVE  TypeInv'
  <2>1. TopicsOf[api] \in Seq(Topics) /\ api \in APIs
    BY TopicsOfType DEF TypeInv
  <2>2. \A q \in Seq(Topics) : [NoCall EXCEPT !.api = api, !.todo = q, !.step = "check"] \in InCall
    <3>1. NoCall \in InCall
      BY CallTypes
    <3> QED
      BY <2>1, <3>1 DEF InCall
  <2> QED
    BY <1>1, <2>1, <2>2 DEF Call, TypeInv, table, memory, lists, network, clock
<1>2. CASE \/ service_mqtt_topic_check_and_sub \/ system_mqtt_result_topic_check_and_sub
           \/ ota_mqtt_update_topic_check_and_sub \/ broadcast_check_and_sub \/ data_template_topic_check_and_sub
  <2>1. \E t \in Topics : CheckAndSub(t)
    BY <1>2, AllTopics DEF service_mqtt_topic_check_and_sub, system_mqtt_result_topic_check_and_sub,
         ota_mqtt_update_topic_check_and_sub, broadcast_check_and_sub, data_template_topic_check_and_sub
  <2> QED
    BY <2>1, TypeCheck
<1>3. CASE MallocFails
  BY <1>3, CallTypes DEF MallocFails, TypeInv, table, memory, lists, network, clock
<1>4. CASE service_mqtt_service_register
  <2> DEFINE c == IOT_MQTT_GetSubUsrData("service")
  <2>1. service_list' \in [Contexts -> Seq(Nat)]
    <3>1. allocs \in Nat
      BY ServicesAssumption DEF TypeInv
    <3>2. \A x \in Contexts : Append(service_list[x], allocs) \in Seq(Nat)
      BY <3>1, AppendProperties DEF TypeInv
    <3> QED
      BY <1>4, <3>2 DEF service_mqtt_service_register, TypeInv
  <2>2. registered' \in [Topics -> Seq(Nat)]
    <3>1. Append(registered["service"], allocs) \in Seq(Nat)
      BY ServicesAssumption, AppendProperties, AllTopics DEF TypeInv
    <3> QED
      BY <1>4, <3>1 DEF service_mqtt_service_register, TypeInv
  <2> QED
    BY <1>4, <2>1, <2>2, CallTypes DEF service_mqtt_service_register, TypeInv, table, memory, network, clock
<1>5. CASE InitReturns
  BY <1>5, CallTypes DEF InitReturns, TypeInv, table, memory, lists, network, clock
<1>6. CASE PublishTime
  <2> DEFINE c == IOT_MQTT_GetSubUsrData("result")
  <2>1. c \in 0..MaxContexts
    BY AllTopics DEF IOT_MQTT_GetSubUsrData, TypeInv, Handle
  <2>2. result' \in [Contexts -> Answer]
    <3>1. \A x \in Contexts : Forgotten(result[x]) \in Answer
      BY DEF Forgotten, TypeInv, Answer
    <3> QED
      BY <1>6, <3>1 DEF PublishTime, TypeInv
  <2>3. requests' \in Seq(Request)
    <3>1. [type |-> "TIME", topic |-> "result", context |-> 0, sent |-> now] \in Request
      BY AllTopics, ServicesAssumption DEF Request, TypeInv
    <3> QED
      BY <1>6, <3>1, AppendProperties DEF PublishTime, TypeInv
  <2>4. call' \in InCall
    <3>1. call \in InCall /\ WaitYields \in Int /\ now + drift \in Int
      BY ServicesAssumption DEF TypeInv
    <3>2. \A n \in 0..MaxContexts, y, b \in Int :
             [call EXCEPT !.step = "wait", !.context = n, !.left = y, !.before = b] \in InCall
      BY <3>1 DEF InCall
    <3>3. call' = [call EXCEPT !.step = "wait", !.context = c, !.left = WaitYields, !.before = now + drift]
      BY <1>6 DEF PublishTime
    <3> QED
      BY <2>1, <3>1, <3>2, <3>3
  <2> QED
    BY <1>6, <2>2, <2>3, <2>4 DEF PublishTime, TypeInv, table, memory, lists, clock
<1>7. CASE IOT_FileManage_Deinit
  <2> DEFINE c == IOT_MQTT_GetSubUsrData("service")
  <2>1. service_list' \in [Contexts -> Seq(Nat)]
    <3>1. \A x \in Contexts : service_list[x] # <<>> => Tail(service_list[x]) \in Seq(Nat)
      BY HeadTail DEF TypeInv
    <3> QED
      BY <1>7, <3>1 DEF IOT_FileManage_Deinit, service_mqtt_service_unregister, TypeInv
  <2>2. registered' \in [Topics -> Seq(Nat)]
    <3>1. registered["service"] # <<>> => Tail(registered["service"]) \in Seq(Nat)
      BY HeadTail, AllTopics DEF TypeInv
    <3> QED
      BY <1>7, <3>1 DEF IOT_FileManage_Deinit, TypeInv
  <2>3. sub_handles' \in [Topics -> Handle] /\ waiting' \in Seq(Node) /\ requests' \in Seq(Request)
    <3>1. CASE Unsubscribe({"service"})
      BY <3>1, TypeUnsubscribe, AllTopics
    <3>2. CASE UNCHANGED <<table, requests>>
      BY <3>2 DEF table, TypeInv
    <3> QED
      BY <1>7, <3>1, <3>2 DEF IOT_FileManage_Deinit, service_mqtt_deinit
  <2> QED
    BY <1>7, <2>1, <2>2, <2>3 DEF IOT_FileManage_Deinit, TypeInv, memory, clock
<1>8. ASSUME NEW api \in APIs, Deinit(api)
      PROVE  TypeInv'
  <2> DEFINE S == ToSet(TopicsOf[api])
  <2>1. S \in SUBSET Topics
    BY DEF Topics, APIs
  <2>2. Unsubscribe(S)
    BY <1>8 DEF Deinit
  <2>3. registered' \in [Topics -> Seq(Nat)]
    BY <1>8 DEF Deinit, TypeInv
  <2> HIDE DEF S
  <2>4. sub_handles' \in [Topics -> Handle] /\ waiting' \in Seq(Node) /\ requests' \in Seq(Request)
    BY <2>1, <2>2, TypeUnsubscribe
  <2> QED
    BY <1>8, <2>3, <2>4 DEF Deinit, TypeInv, memory, clock
<1>9. CASE IOT_Broadcast_Deinit \/ IOT_OTA_Deinit \/ IOT_DataTemplate_Deinit
  BY <1>8, <1>9, TopicFacts DEF IOT_Broadcast_Deinit, IOT_OTA_Deinit, IOT_DataTemplate_Deinit
<1> QED
  BY <1>1, <1>2, <1>3, <1>4, <1>5, <1>6, <1>7, <1>9 DEF Application

LEMMA TypeYield ==
  ASSUME TypeInv, CallInv, Yield
  PROVE  TypeInv'
<1>1. CASE YieldIdle
  BY <1>1, TypeElapses DEF YieldIdle, TypeInv
<1>2. CASE YieldSubscribe
  <2>1. call' \in InCall
    BY <1>2, CallTypes DEF YieldSubscribe, CallInv
  <2> QED
    BY <1>2, <2>1, TypeElapses DEF YieldSubscribe, TypeInv
<1>3. CASE YieldWait
  BY <1>3, TypeElapses, CallTypes DEF YieldWait, TypeInv
<1>4. CASE WaitReturns
  <2>1. drift' \in Int
    <3>1. CASE UNCHANGED drift
      BY <3>1 DEF TypeInv
    <3>2. CASE drift' = LocalNtptime(result[call.context]) - now'
      <4>1. call.context \in Contexts /\ call.before \in Int /\ now \in Nat
        BY <1>4, ServicesAssumption DEF WaitReturns, CallInv, TypeInv, InCall, Contexts
      <4>2. result[call.context] \in Answer
        BY <4>1 DEF TypeInv
      <4>3. LocalNtptime(result[call.context]) \in Int
        BY <4>1, <4>2 DEF LocalNtptime, Answer
      <4>4. now' \in Int
        BY <1>4, <4>1 DEF WaitReturns, Elapses
      <4> QED
        BY <3>2, <4>3, <4>4
    <3> QED
      BY <1>4, <3>1, <3>2 DEF WaitReturns
  <2>2. call' \in InCall /\ Elapses
    BY <1>4, CallTypes DEF WaitReturns
  <2> QED
    BY <2>1, <2>2, TypeElapses
<1>5. ASSUME NEW r \in replies, TakeTime(r)
      PROVE  TypeInv'
  <2> DEFINE c == IOT_MQTT_GetSubUsrData("result")
  <2>1. result' \in [Contexts -> Answer]
    <3>1. r \in Reply /\ now + drift \in Int
      BY DEF TypeInv
    <3>2. [result_recv_ok |-> TRUE, ntptime1 |-> r.ntptime1, ntptime2 |-> r.ntptime2,
           result_recv_time |-> now + drift] \in Answer
      BY <3>1 DEF Reply, Answer
    <3> QED
      BY <1>5, <3>2 DEF TakeTime, TypeInv
  <2> QED
    BY <1>5, <2>1 DEF TakeTime, TypeInv, table, memory, lists, clock
<1>6. CASE ReadSuback
  <2> DEFINE p == Head(inbox)
  <2>1. /\ inbox' \in Seq(Arrival) /\ p \in Arrival
        /\ UNCHANGED <<apis, call, allocs, service_list, registered, result, requests, replies, granted, now, drift, synced>>
    BY <1>6, ReadsIs DEF ReadSuback
  <2>2. sub_handles' \in [Topics -> Handle]
    <3>1. \A t \in Topics, b \in BOOLEAN : [sub_handles[t] EXCEPT !.status = b] \in Handle
      BY DEF TypeInv, Handle
    <3>2. PICK b \in BOOLEAN : b = (sub_handles[p.topic].status \/ sub_handles[p.topic].context # 0)
      OBVIOUS
    <3>3. sub_handles' = [sub_handles EXCEPT ![p.topic].status = b]
      BY <1>6, <3>2 DEF ReadSuback
    <3> QED
      BY <3>1, <3>3 DEF TypeInv
  <2>3. waiting' \in Seq(Node)
    BY <1>6, AnsweredIs DEF ReadSuback
  <2> QED
    BY <1>6, <2>1, <2>2, <2>3 DEF ReadSuback, TypeInv
<1>7. CASE ReadUnsuback
  <2>1. waiting' \in Seq(Node)
    BY <1>7, AnsweredIs DEF ReadUnsuback
  <2>2. /\ inbox' \in Seq(Arrival)
        /\ UNCHANGED <<apis, call, allocs, service_list, registered, result, requests, replies, granted, now, drift, synced>>
    BY <1>7, ReadsIs DEF ReadUnsuback
  <2> QED
    BY <1>7, <2>1, <2>2 DEF ReadUnsuback, TypeInv
<1>8. CASE ReadMessage
  <2>1. /\ inbox' \in Seq(Arrival)
        /\ UNCHANGED <<apis, call, allocs, service_list, registered, result, requests, replies, granted, now, drift, synced>>
    BY <1>8, ReadsIs DEF ReadMessage
  <2> QED
    BY <1>8, <2>1 DEF ReadMessage, TypeInv, table
<1>9. CASE UnsubExpires
  <2>1. PICK k \in DOMAIN waiting : /\ waiting' = RemoveAt(waiting, k)
                                    /\ heap' = heap \ {waiting[k].context}
    BY <1>9 DEF UnsubExpires
  <2>2. waiting \in Seq(Node) /\ k \in 1..Len(waiting)
    BY <2>1 DEF TypeInv
  <2>3. waiting' \in Seq(Node)
    BY <2>1, <2>2, RemoveAtFacts
  <2> QED
    BY <1>9, <2>1, <2>3 DEF UnsubExpires, TypeInv, lists, network, clock
<1>10. CASE Reconnect
  <2> DEFINE held == Held(Topics)
  <2>1. held \in Seq(Topics) /\ DOMAIN held = 1..Len(held) /\ Len(held) \in Nat
    BY HeldFacts, LenProperties
  <2>2. requests' = [k \in DOMAIN held |-> [type |-> "RESUBSCRIBE", topic |-> held[k], context |-> 0, sent |-> now]]
    BY <1>10 DEF Reconnect, Held
  <2> HIDE DEF held
  <2>3. requests' \in Seq(Request)
    <3>1. \A t \in Topics : [type |-> "RESUBSCRIBE", topic |-> t, context |-> 0, sent |-> now] \in Request
      BY ServicesAssumption DEF Request, TypeInv
    <3>2. requests' \in [1..Len(held) -> Request]
      BY <2>1, <2>2, <3>1
    <3> QED
      BY <2>1, <3>2
  <2>4. inbox' \in Seq(Arrival) /\ replies' \subseteq Reply /\ granted' \subseteq Topics
    BY <1>10 DEF Reconnect
  <2>5. call' \in InCall
    BY <1>10, CallTypes DEF Reconnect, TypeInv
  <2> QED
    BY <1>10, <2>3, <2>4, <2>5 DEF Reconnect, TypeInv, table, memory, lists, clock
<1> QED
  BY <1>1, <1>2, <1>3, <1>4, <1>5, <1>6, <1>7, <1>8, <1>9, <1>10 DEF Yield

\* What the broker does with a request.
LEMMA BrokerIs ==
  ASSUME TypeInv, Broker
  PROVE  /\ requests # <<>> /\ Head(requests) \in Request /\ requests' = Tail(requests) /\ requests' \in Seq(Request)
         /\ UNCHANGED <<apis, call, sub_handles, waiting, heap, allocs, service_list, registered, result,
                        now, drift, synced, last, misused>>
         /\ LET r == Head(requests) IN
            \/ /\ r.type = "TIME"
               /\ UNCHANGED <<granted, inbox>>
               /\ \/ replies' = replies
                  \/ /\ now <= r.sent + MaxDelay
                     /\ replies' = replies \cup {[sent |-> r.sent, ntptime1 |-> (r.sent + now + 1) \div 2, ntptime2 |-> now]}
            \/ /\ r.type = "UNSUBSCRIBE"
               /\ granted' = granted \ {r.topic}
               /\ inbox' = Append(inbox, Packet("UNSUBACK", r.topic, r.context, <<>>, TRUE))
               /\ replies' = replies
            \/ /\ r.type = "SUBSCRIBE"
               /\ granted' = granted \cup {r.topic}
               /\ inbox' = Append(inbox, Packet("SUBACK", r.topic, r.context, <<>>, TRUE))
               /\ replies' = replies
            \/ /\ r.type = "RESUBSCRIBE"
               /\ granted' = granted \cup {r.topic}
               /\ UNCHANGED <<inbox, replies>>
<1> DEFINE r == Head(requests)
<1>1. requests # <<>> /\ requests \in Seq(Request) /\ requests' = Tail(requests)
  BY DEF Broker, TypeInv
<1>2. r \in Request /\ requests' \in Seq(Request)
  BY <1>1, HeadTail
<1>3. UNCHANGED <<apis, call, sub_handles, waiting, heap, allocs, service_list, registered, result, now, drift, synced, last, misused>>
  BY DEF Broker, table, memory, lists, clock
<1>4. r.type \in {"SUBSCRIBE", "UNSUBSCRIBE", "RESUBSCRIBE", "TIME"} /\ r.sent \in Nat /\ now \in Nat /\ MaxDelay \in Nat
  BY <1>2, ServicesAssumption DEF Request, TypeInv
<1>5. CASE r.type = "TIME"
  <2>1. UNCHANGED <<granted, inbox>>
    BY <1>5 DEF Broker
  <2>2. replies' = IF now > r.sent + MaxDelay THEN replies
                   ELSE replies \cup {[sent |-> r.sent, ntptime1 |-> (r.sent + now + 1) \div 2, ntptime2 |-> now]}
    BY <1>5 DEF Broker
  <2>3. now > r.sent + MaxDelay \/ now <= r.sent + MaxDelay
    BY <1>4
  <2>4. CASE now > r.sent + MaxDelay
    <3>1. replies' = replies
      BY <2>2, <2>4
    <3> QED
      BY <1>1, <1>2, <1>3, <1>5, <2>1, <3>1
  <2>5. CASE now <= r.sent + MaxDelay
    <3>1. replies' = replies \cup {[sent |-> r.sent, ntptime1 |-> (r.sent + now + 1) \div 2, ntptime2 |-> now]}
      BY <1>4, <2>2, <2>5
    <3> QED
      BY <1>1, <1>2, <1>3, <1>5, <2>1, <2>5, <3>1
  <2> QED
    BY <2>3, <2>4, <2>5
<1>6. CASE r.type = "UNSUBSCRIBE"
  BY <1>1, <1>2, <1>3, <1>6 DEF Broker
<1>7. CASE r.type = "SUBSCRIBE"
  BY <1>1, <1>2, <1>3, <1>7 DEF Broker
<1>8. CASE r.type = "RESUBSCRIBE"
  BY <1>1, <1>2, <1>3, <1>8 DEF Broker
<1> QED
  BY <1>4, <1>5, <1>6, <1>7, <1>8

LEMMA TypeEnvironment ==
  ASSUME TypeInv, Environment
  PROVE  TypeInv'
<1>1. CASE Broker
  <2> DEFINE r == Head(requests)
  <2>1. r \in Request /\ requests' \in Seq(Request)
    BY <1>1, BrokerIs
  <2>2. r.topic \in Topics /\ r.context \in 0..MaxContexts /\ r.sent \in Nat /\ now \in Nat
    BY <2>1 DEF Request, TypeInv
  <2>3. /\ Packet("UNSUBACK", r.topic, r.context, <<>>, TRUE) \in Arrival
        /\ Packet("SUBACK", r.topic, r.context, <<>>, TRUE) \in Arrival
    <3>1. <<>> \in Methods
      BY DEF Methods
    <3> QED
      BY <2>2, <3>1 DEF Packet, Arrival
  <2>4. [sent |-> r.sent, ntptime1 |-> (r.sent + now + 1) \div 2, ntptime2 |-> now] \in Reply
    BY <2>2 DEF Reply
  <2>5. inbox \in Seq(Arrival) /\ replies \subseteq Reply /\ granted \subseteq Topics
    BY DEF TypeInv
  <2>6. inbox' \in Seq(Arrival)
    <3>1. \/ inbox' = inbox
          \/ inbox' = Append(inbox, Packet("UNSUBACK", r.topic, r.context, <<>>, TRUE))
          \/ inbox' = Append(inbox, Packet("SUBACK", r.topic, r.context, <<>>, TRUE))
      BY <1>1, BrokerIs
    <3>2. \A p \in Arrival : Append(inbox, p) \in Seq(Arrival)
      BY <2>5, AppendProperties
    <3> QED
      BY <2>3, <2>5, <3>1, <3>2
  <2>7. replies' \subseteq Reply
    BY <1>1, <2>4, <2>5, BrokerIs
  <2>8. granted' \subseteq Topics
    BY <1>1, <2>2, <2>5, BrokerIs
  <2> QED
    BY <1>1, <2>1, <2>6, <2>7, <2>8, BrokerIs DEF TypeInv
<1>2. ASSUME NEW t \in DOMAIN Sent, NEW complete \in BOOLEAN, NEW m \in Sent[t], BrokerSends(t, m, complete)
      PROVE  TypeInv'
  <2>1. t \in Topics /\ m \in Methods /\ 0 \in 0..MaxContexts
    BY <1>2, ServicesAssumption DEF BrokerSends, TypeInv, Methods
  <2>2. Packet("MESSAGE", t, 0, m, complete) \in Arrival
    BY <2>1 DEF Packet, Arrival
  <2>3. inbox' \in Seq(Arrival)
    BY <1>2, <2>2, AppendProperties DEF BrokerSends, TypeInv
  <2> QED
    BY <1>2, <2>3 DEF BrokerSends, TypeInv, table, memory, lists, clock
<1> QED
  BY <1>1, <1>2 DEF Environment

-------------------------------------------------------------------------------
(* Calls. *)

LEMMA HeadOfTopics ==
  ASSUME NEW a \in APIs, a # "IOT_DataTemplate_Init"
  PROVE  /\ TopicsOf[a] # <<>> /\ Tail(TopicsOf[a]) = <<>>
         /\ Head(TopicsOf[a]) \in Topics
<1>1. \A t : <<t>> # <<>> /\ Tail(<<t>>) = <<>> /\ Head(<<t>>) = t
  OBVIOUS
<1>2. \E t \in Topics : TopicsOf[a] = <<t>>
  BY TopicFacts, AllTopics
<1> QED
  BY <1>1, <1>2

LEMMA CallInit == Init => CallInv
<1>1. ASSUME Init
      PROVE  call.step = "idle" /\ \A t \in Topics : ~sub_handles[t].status
  BY <1>1 DEF Init, NoCall, NoHandle
<1> QED
  BY <1>1 DEF CallInv

\* A step that changes neither the call nor the handles, or leaves no call behind.
LEMMA CallUntouched ==
  ASSUME CallInv, sub_handles' = sub_handles, call' = call \/ call' = NoCall
  PROVE  CallInv'
<1>1. CASE call' = call
  BY <1>1 DEF CallInv
<1>2. CASE call' = NoCall
  <2>1. call'.step = "idle"
    BY <1>2 DEF NoCall
  <2> QED
    BY <2>1 DEF CallInv
<1> QED
  BY <1>1, <1>2

\* Topics are given up only by a call that is not in the middle of subscribing.
LEMMA CallUnsubscribes ==
  ASSUME TypeInv, CallInv, call' = call, call.step \in {"idle", "wait"},
         NEW S \in SUBSET Topics, Unsubscribe(S)
  PROVE  CallInv'
<1>1. \A t \in Topics : sub_handles'[t] = IF t \in S THEN NoHandle ELSE sub_handles[t]
  BY UnsubscribeIs
<1>2. \A t \in Topics : sub_handles'[t].status => sub_handles'[t].context # 0
  BY <1>1 DEF NoHandle, CallInv
<1> QED
  BY <1>2 DEF CallInv

\* Every step keeps what calls rely on.
LEMMA CallStep ==
  ASSUME TypeInv, CallInv, [Next]_vars
  PROVE  CallInv'
<1>1. ASSUME NEW api \in apis, Call(api)
      PROVE  CallInv'
  <2>1. /\ call'.step = "check" /\ call'.api = api /\ call'.todo = TopicsOf[api] /\ sub_handles' = sub_handles
        /\ api \in APIs
    BY <1>1 DEF Call, NoCall, table, TypeInv
  <2> QED
    BY <2>1 DEF CallInv
<1>2. ASSUME NEW t \in Topics, CheckAndSub(t)
      PROVE  CallInv'
  <2>1. call.step = "check" /\ call.todo # <<>> /\ t = Head(call.todo) /\ call \in InCall
    BY <1>2, CheckIs DEF TypeInv
  <2>2. call.api # "IOT_DataTemplate_Init" => call.api \in APIs /\ call.todo = TopicsOf[call.api]
    BY <2>1 DEF CallInv
  <2>3. CASE /\ sub_handles[t].status
             /\ call' = [call EXCEPT !.todo = Tail(@)]
             /\ sub_handles' = sub_handles
    <3>1. call'.step = "check" /\ call'.api = call.api /\ call'.todo = Tail(call.todo)
      BY <2>1, <2>3 DEF InCall
    <3>2. sub_handles'[t].context # 0
      BY <2>3 DEF CallInv
    <3>3. call.api # "IOT_DataTemplate_Init" =>
             call'.todo = <<>> /\ sub_handles'[Head(TopicsOf[call.api])].context # 0
      BY <2>1, <2>2, <3>1, <3>2, HeadOfTopics
    <3> QED
      BY <2>2, <2>3, <3>1, <3>3 DEF CallInv
  <2>4. CASE /\ Subscribe(t, allocs + 1)
             /\ call' = [call EXCEPT !.step = "subscribe", !.context = allocs + 1, !.left = CommandYields]
    <3>1. call'.step = "subscribe" /\ call'.api = call.api /\ call'.todo = call.todo
      BY <2>1, <2>4 DEF InCall
    <3>2. \A u \in Topics : sub_handles'[u] = IF u = t THEN [context |-> allocs + 1, status |-> FALSE] ELSE sub_handles[u]
      BY <2>4 DEF Subscribe, TypeInv
    <3>3. \A u \in Topics : sub_handles'[u].status => sub_handles'[u].context # 0
      BY <3>2 DEF CallInv
    <3> QED
      BY <2>1, <2>2, <3>1, <3>3 DEF CallInv
  <2> QED
    BY <1>2, <2>3, <2>4, CheckIs
<1>3. CASE \/ service_mqtt_topic_check_and_sub \/ system_mqtt_result_topic_check_and_sub
           \/ ota_mqtt_update_topic_check_and_sub \/ broadcast_check_and_sub \/ data_template_topic_check_and_sub
  <2>1. \E t \in Topics : CheckAndSub(t)
    BY <1>3, AllTopics DEF service_mqtt_topic_check_and_sub, system_mqtt_result_topic_check_and_sub,
         ota_mqtt_update_topic_check_and_sub, broadcast_check_and_sub, data_template_topic_check_and_sub
  <2> QED
    BY <1>2, <2>1
<1>4. CASE MallocFails
  <2>1. CASE call.api = "IOT_DataTemplate_Init"
    <3>1. /\ call'.step = "check" /\ call'.api = "IOT_DataTemplate_Init" /\ sub_handles' = sub_handles
      BY <1>4, <2>1 DEF MallocFails, table, TypeInv, InCall
    <3> QED
      BY <3>1 DEF CallInv
  <2>2. CASE call.api # "IOT_DataTemplate_Init"
    BY <1>4, <2>2, CallUntouched DEF MallocFails, table
  <2> QED
    BY <2>1, <2>2
<1>5. CASE service_mqtt_service_register \/ InitReturns
  BY <1>5, CallUntouched DEF service_mqtt_service_register, InitReturns, table
<1>6. CASE PublishTime
  <2> DEFINE c == IOT_MQTT_GetSubUsrData("result")
  <2>1. call.step = "check" /\ call.todo = <<>> /\ call.api \in {"IOT_Sys_GetTime", "IOT_Sys_SyncNTPTime"}
    BY <1>6 DEF PublishTime, Subscribed
  <2>2. Head(TopicsOf[call.api]) = "result" /\ TopicsOf[call.api] # <<>>
    BY <2>1, TopicFacts
  <2>3. c # 0
    BY <2>1, <2>2 DEF CallInv, IOT_MQTT_GetSubUsrData
  <2>4. call'.step = "wait" /\ call'.context = c /\ sub_handles' = sub_handles
    BY <1>6 DEF PublishTime, table, TypeInv, InCall
  <2> QED
    BY <2>3, <2>4 DEF CallInv
<1>7. CASE IOT_FileManage_Deinit
  <2>1. call' = call /\ call.step \in {"idle", "wait"}
    BY <1>7 DEF IOT_FileManage_Deinit
  <2>2. CASE Unsubscribe({"service"})
    BY <2>1, <2>2, CallUnsubscribes, AllTopics
  <2>3. CASE UNCHANGED <<table, requests>>
    BY <2>1, <2>3, CallUntouched DEF table
  <2> QED
    BY <1>7, <2>2, <2>3 DEF IOT_FileManage_Deinit, service_mqtt_deinit
<1>8. ASSUME NEW api \in APIs, Deinit(api)
      PROVE  CallInv'
  <2> DEFINE S == ToSet(TopicsOf[api])
  <2>1. S \in SUBSET Topics
    BY DEF Topics, APIs
  <2>2. call' = call /\ call.step \in {"idle", "wait"} /\ Unsubscribe(S)
    BY <1>8 DEF Deinit
  <2> HIDE DEF S
  <2> QED
    BY <2>1, <2>2, CallUnsubscribes
<1>9. CASE IOT_Broadcast_Deinit \/ IOT_OTA_Deinit \/ IOT_DataTemplate_Deinit
  BY <1>8, <1>9, TopicFacts DEF IOT_Broadcast_Deinit, IOT_OTA_Deinit, IOT_DataTemplate_Deinit
<1>10. CASE YieldIdle
  BY <1>10, CallUntouched DEF YieldIdle, Elapses, table
<1>11. CASE YieldSubscribe
  <2> DEFINE t == Head(call.todo)
  <2>1. call.step = "subscribe" /\ call.todo # <<>> /\ sub_handles' = sub_handles /\ call \in InCall
    BY <1>11 DEF YieldSubscribe, Elapses, table, CallInv, TypeInv
  <2>2. call.api # "IOT_DataTemplate_Init" => call.api \in APIs /\ call.todo = TopicsOf[call.api]
    BY <2>1 DEF CallInv
  <2>3. CASE sub_handles[t].status /\ call' = [call EXCEPT !.step = "check", !.todo = Tail(@)]
    <3>1. call'.step = "check" /\ call'.api = call.api /\ call'.todo = Tail(call.todo)
      BY <2>1, <2>3 DEF InCall
    <3>2. t \in Topics
      BY <2>1, HeadTail DEF InCall
    <3>3. sub_handles'[t].context # 0
      BY <2>1, <2>3, <3>2 DEF CallInv
    <3>4. call.api # "IOT_DataTemplate_Init" =>
             call'.todo = <<>> /\ sub_handles'[Head(TopicsOf[call.api])].context # 0
      BY <2>2, <3>1, <3>3, HeadOfTopics
    <3> QED
      BY <2>1, <2>2, <3>1, <3>4 DEF CallInv
  <2>4. CASE call' = [call EXCEPT !.left = @ - 1]
    <3>1. call'.step = call.step /\ call'.api = call.api /\ call'.todo = call.todo
      BY <2>1, <2>4 DEF InCall
    <3> QED
      BY <2>1, <3>1 DEF CallInv
  <2> QED
    BY <1>11, <2>3, <2>4 DEF YieldSubscribe
<1>12. CASE YieldWait
  <2>1. call.step = "wait" /\ sub_handles' = sub_handles /\ call \in InCall
    BY <1>12 DEF YieldWait, Elapses, table, TypeInv
  <2>2. CASE call' = [call EXCEPT !.left = @ - 1]
    <3>1. call'.step = "wait" /\ call'.context = call.context
      BY <2>1, <2>2 DEF InCall
    <3> QED
      BY <2>1, <3>1 DEF CallInv
  <2>3. CASE call' = NoCall
    BY <2>1, <2>3, CallUntouched
  <2> QED
    BY <1>12, <2>2, <2>3 DEF YieldWait
<1>13. CASE WaitReturns
  BY <1>13, CallUntouched DEF WaitReturns, Elapses, table
<1>14. ASSUME NEW r \in replies, TakeTime(r)
       PROVE  CallInv'
  BY <1>14, CallUntouched DEF TakeTime, table
<1>15. CASE ReadSuback
  <2> DEFINE p == Head(inbox)
  <2>1. call' = call
    BY <1>15 DEF ReadSuback, Reads
  <2>2. sub_handles' = [sub_handles EXCEPT ![p.topic].status = @ \/ sub_handles[p.topic].context # 0]
    BY <1>15 DEF ReadSuback
  <2>3. \A t \in Topics : /\ sub_handles'[t].context = sub_handles[t].context
                          /\ sub_handles'[t].status => sub_handles[t].status \/ sub_handles[t].context # 0
    BY <2>2 DEF TypeInv, Handle
  <2>4. call.api \in APIs /\ call.api # "IOT_DataTemplate_Init" => Head(TopicsOf[call.api]) \in Topics
    BY HeadOfTopics
  <2> QED
    BY <2>1, <2>3, <2>4 DEF CallInv
<1>16. CASE ReadUnsuback \/ ReadMessage
  BY <1>16, CallUntouched DEF ReadUnsuback, ReadMessage, Reads, table
<1>17. CASE UnsubExpires
  BY <1>17, CallUntouched DEF UnsubExpires
<1>18. CASE Reconnect
  BY <1>18, CallUntouched DEF Reconnect, table
<1>19. CASE Broker
  BY <1>19, CallUntouched, BrokerIs
<1>20. ASSUME NEW t \in DOMAIN Sent, NEW complete \in BOOLEAN, NEW m \in Sent[t], BrokerSends(t, m, complete)
       PROVE  CallInv'
  BY <1>20, CallUntouched DEF BrokerSends, table
<1>21. CASE UNCHANGED vars
  BY <1>21, CallUntouched DEF vars, table
<1> QED
  BY <1>1, <1>3, <1>4, <1>5, <1>6, <1>7, <1>9, <1>10, <1>11, <1>12, <1>13, <1>14, <1>15, <1>16, <1>17,
     <1>18, <1>19, <1>20, <1>21 DEF Next, Application, Yield, Environment

BaseInv == TypeInv /\ CallInv

\* Whatever is called, ended, read and lost, every variable keeps its type, and a call
\* that goes on has the context it needs.
THEOREM TypeCorrect == Spec => []BaseInv
<1>1. Init => BaseInv
  BY TypeInit, CallInit DEF BaseInv
<1>2. BaseInv /\ [Next]_vars => BaseInv'
  <2> SUFFICES ASSUME TypeInv, CallInv, [Next]_vars
               PROVE  TypeInv' /\ CallInv'
    BY DEF BaseInv
  <2>1. CASE Next
    BY <2>1, TypeApplication, TypeYield, TypeEnvironment, CallStep DEF Next
  <2>2. CASE UNCHANGED vars
    BY <2>2, CallStep DEF TypeInv, vars, table, memory, lists, network, clock
  <2> QED
    BY <2>1, <2>2
<1> QED
  BY <1>1, <1>2, PTL DEF Spec

-------------------------------------------------------------------------------
(* The clock. *)

\* The true time at which the call in progress read the clock.
Asked_at == call.before - drift

Awaited == call.step = "wait" /\ call.api = "IOT_Sys_SyncNTPTime"

\* Requests and answers are not of the future, and an answer is not read too late.
\* While SyncNTPTime waits, nothing was asked after it, and the answer it has was read
\* at this very time.
RequestsInv ==
    \A i \in DOMAIN requests : requests[i].type = "TIME" =>
        /\ requests[i].sent <= now
        /\ Awaited => requests[i].sent <= Asked_at
RepliesInv ==
    \A r \in replies :
        /\ r.sent <= now /\ now <= r.sent + MaxDelay
        /\ r.sent <= r.ntptime1 /\ r.ntptime1 <= now
        /\ r.sent <= r.ntptime2 /\ r.ntptime2 <= now
        /\ Awaited => r.sent <= Asked_at
ResultInv ==
    Awaited =>
        /\ Asked_at <= now
        /\ result[call.context].result_recv_ok =>
             LET r == result[call.context] IN
             /\ now - MaxDelay <= r.ntptime1 /\ r.ntptime1 <= now
             /\ now - MaxDelay <= r.ntptime2 /\ r.ntptime2 <= now
             /\ now - MaxDelay <= Asked_at
             /\ r.result_recv_time = now + drift
ClockInv == RequestsInv /\ RepliesInv /\ ResultInv /\ ClockIsClose

\* A step that asks for nothing, answers nothing, and leaves the clock alone.
LEMMA ClockUntouched ==
  ASSUME ClockInv,
         now' = now, drift' = drift, synced' = synced, result' = result,
         call' = call \/ call'.step # "wait",
         replies' \subseteq replies,
         \A i \in DOMAIN requests' : requests'[i].type = "TIME" =>
             \E j \in DOMAIN requests : requests'[i] = requests[j]
  PROVE  ClockInv'
<1>1. Awaited' => call' = call /\ Awaited
  BY DEF Awaited
<1>2. Awaited' => Asked_at' = Asked_at
  BY <1>1 DEF Asked_at
<1>3. RequestsInv'
  BY <1>1, <1>2 DEF ClockInv, RequestsInv
<1>4. RepliesInv'
  BY <1>1, <1>2 DEF ClockInv, RepliesInv
<1>5. ResultInv'
  BY <1>1, <1>2 DEF ClockInv, ResultInv
<1>6. ClockIsClose'
  BY DEF ClockInv, ClockIsClose
<1> QED
  BY <1>3, <1>4, <1>5, <1>6 DEF ClockInv

\* Requests of other kinds are added, or the first is taken.
LEMMA RequestsAdded ==
  ASSUME NEW S, NEW q \in Seq(S), NEW p \in Seq(S), \A i \in DOMAIN p : p[i].type # "TIME"
  PROVE  \A i \in DOMAIN (q \o p) : (q \o p)[i].type = "TIME" => \E j \in DOMAIN q : (q \o p)[i] = q[j]
<1> DEFINE r == q \o p
<1>1. /\ Len(r) = Len(q) + Len(p) /\ Len(q) \in Nat /\ Len(p) \in Nat
      /\ \A i \in 1..Len(r) : r[i] = IF i <= Len(q) THEN q[i] ELSE p[i - Len(q)]
      /\ DOMAIN r = 1..Len(r) /\ DOMAIN q = 1..Len(q) /\ DOMAIN p = 1..Len(p)
  BY ConcatProperties, LenProperties
<1> HIDE DEF r
<1>2. ASSUME NEW i \in DOMAIN r, r[i].type = "TIME"
      PROVE  \E j \in DOMAIN q : r[i] = q[j]
  <2>1. CASE i <= Len(q)
    BY <1>1, <2>1
  <2>2. CASE ~(i <= Len(q))
    <3>1. i - Len(q) \in DOMAIN p /\ r[i] = p[i - Len(q)]
      BY <1>1, <2>2
    <3> QED
      BY <1>2, <3>1
  <2> QED
    BY <2>1, <2>2
<1> QED
  BY <1>2 DEF r

LEMMA RequestAdded ==
  ASSUME NEW S, NEW q \in Seq(S), NEW m \in S
  PROVE  \A i \in DOMAIN Append(q, m) : \/ i \in DOMAIN q /\ Append(q, m)[i] = q[i]
                                        \/ Append(q, m)[i] = m
<1> DEFINE p == Append(q, m)
<1>1. /\ p \in Seq(S) /\ Len(p) = Len(q) + 1 /\ Len(q) \in Nat /\ p[Len(q) + 1] = m
      /\ \A i \in 1..Len(q) : p[i] = q[i]
      /\ DOMAIN q = 1..Len(q)
  BY AppendProperties, LenProperties
<1>2. DOMAIN p = 1..Len(p)
  BY <1>1, LenProperties
<1> HIDE DEF p
<1>3. ASSUME NEW i \in DOMAIN p
      PROVE  (i \in DOMAIN q /\ p[i] = q[i]) \/ p[i] = m
  <2>1. i \in 1..Len(q) \/ i = Len(q) + 1
    BY <1>1, <1>2
  <2> QED
    BY <1>1, <2>1
<1> QED
  BY <1>3 DEF p

LEMMA RequestTaken ==
  ASSUME NEW S, NEW q \in Seq(S), q # <<>>
  PROVE  \A i \in DOMAIN Tail(q) : i + 1 \in DOMAIN q /\ Tail(q)[i] = q[i + 1]
BY HeadTail, LenProperties

LEMMA ClockUnsubscribes ==
  ASSUME TypeInv, ClockInv, NEW S \in SUBSET Topics, Unsubscribe(S),
         now' = now, drift' = drift, synced' = synced, result' = result, call' = call, replies' = replies
  PROVE  ClockInv'
<1>1. requests \in Seq(Request) /\ requests' = requests \o Asking(S) /\ Asking(S) \in Seq(Request)
  BY UnsubscribeIs DEF TypeInv
<1>2. \A i \in DOMAIN Asking(S) : Asking(S)[i].type # "TIME"
  BY DEF Asking
<1>3. \A i \in DOMAIN requests' : requests'[i].type = "TIME" => \E j \in DOMAIN requests : requests'[i] = requests[j]
  BY <1>1, <1>2, RequestsAdded
<1> QED
  BY <1>3, ClockUntouched

\* Time goes on, but not for an answer that was read.
LEMMA ClockElapses ==
  ASSUME TypeInv, ClockInv, Elapses, drift' = drift, synced' = synced,
         \/ call'.step # "wait"
         \/ call'.before = call.before /\ Awaited /\ ~result[call.context].result_recv_ok /\ call'.context = call.context
         \/ ~Awaited'
  PROVE  ClockInv'
<1>1. /\ now' = now + 1 /\ now \in Nat /\ result' = result /\ requests' = requests
      /\ replies' = {r \in replies : now < r.sent + MaxDelay}
      /\ MaxDelay \in Nat /\ replies \subseteq Reply /\ requests \in Seq(Request) /\ drift \in Int /\ call \in InCall
  BY ServicesAssumption DEF Elapses, TypeInv
<1>2. Awaited' => Awaited /\ Asked_at' = Asked_at /\ ~result'[call'.context].result_recv_ok
  BY <1>1 DEF Awaited, Asked_at
<1>3. \A i \in DOMAIN requests : requests[i].sent \in Nat
  <2>1. \A i \in DOMAIN requests : requests[i] \in Request
    BY <1>1
  <2> QED
    BY <2>1 DEF Request
<1>4. \A r \in replies : r.sent \in Nat /\ r.ntptime1 \in Int /\ r.ntptime2 \in Int
  BY <1>1 DEF Reply
<1>5. Asked_at \in Int
  BY <1>1 DEF Asked_at, InCall
<1>6. RequestsInv'
  BY <1>1, <1>2, <1>3 DEF ClockInv, RequestsInv
<1>7. RepliesInv'
  BY <1>1, <1>2, <1>4 DEF ClockInv, RepliesInv
<1>8. ResultInv'
  BY <1>1, <1>2, <1>5 DEF ClockInv, ResultInv
<1>9. ClockIsClose'
  BY DEF ClockInv, ClockIsClose
<1> QED
  BY <1>6, <1>7, <1>8, <1>9 DEF ClockInv

\* The clock is set from an answer of the waiting time.
LEMMA ClockSet ==
  ASSUME TypeInv, CallInv, ClockInv, WaitReturns
  PROVE  ClockInv'
<1>1. call' = NoCall /\ Elapses /\ call'.step # "wait"
  BY DEF WaitReturns, NoCall
<1>2. CASE UNCHANGED <<drift, synced>>
  BY <1>1, <1>2, ClockElapses
<1>3. CASE /\ call.api = "IOT_Sys_SyncNTPTime"
           /\ drift' = LocalNtptime(result[call.context]) - now'
  <2> DEFINE r == result[call.context]
             x == r.ntptime2 + r.ntptime1 + r.result_recv_time - call.before
  <2>1. Awaited /\ r.result_recv_ok
    BY <1>3 DEF WaitReturns, Awaited
  <2>2. /\ now' = now + 1 /\ now \in Nat /\ requests' = requests
        /\ replies' = {a \in replies : now < a.sent + MaxDelay}
        /\ MaxDelay \in Nat /\ replies \subseteq Reply /\ requests \in Seq(Request) /\ drift \in Int
        /\ call.before \in Int /\ call.context \in Contexts
    BY <1>1, <2>1, ServicesAssumption DEF Elapses, TypeInv, InCall, CallInv, Awaited, Contexts
  <2>3. r \in Answer
    BY <2>2 DEF TypeInv
  <2>4. r.ntptime1 \in Int /\ r.ntptime2 \in Int /\ r.result_recv_time \in Int
    BY <2>3 DEF Answer
  <2>5. /\ now - MaxDelay <= r.ntptime1 /\ r.ntptime1 <= now
        /\ now - MaxDelay <= r.ntptime2 /\ r.ntptime2 <= now
        /\ now - MaxDelay <= call.before - drift /\ call.before - drift <= now
        /\ r.result_recv_time = now + drift
    BY <2>1 DEF ClockInv, ResultInv, Asked_at
  <2> HIDE DEF r
  <2>6. x \in Int /\ 2 * (now - MaxDelay) <= x /\ x <= 2 * now + MaxDelay
    <3>1. x = r.ntptime2 + r.ntptime1 + (now - (call.before - drift))
      BY <2>2, <2>4, <2>5
    <3> QED
      BY <2>2, <2>4, <2>5, <3>1
  <2>7. drift' = (x \div 2) - (now + 1)
    BY <1>3, <2>2 DEF LocalNtptime, r
  <2> HIDE DEF x
  <2>8. x \div 2 \in Int /\ 2 * (x \div 2) <= x /\ x <= 2 * (x \div 2) + 1
    BY <2>6
  <2>9. drift' \in -(MaxDelay + 1)..MaxDelay
    BY <2>2, <2>6, <2>7, <2>8
  <2>10. ClockIsClose'
    BY <2>9 DEF ClockIsClose
  <2>11. ~Awaited'
    BY <1>1 DEF Awaited
  <2>12. RequestsInv'
    <3>1. \A i \in DOMAIN requests : requests[i] \in Request
      BY <2>2
    <3>2. \A i \in DOMAIN requests : requests[i].sent \in Nat
      BY <3>1 DEF Request
    <3> QED
      BY <2>2, <2>11, <3>2 DEF ClockInv, RequestsInv
  <2>13. RepliesInv'
    <3>1. \A a \in replies : a.sent \in Nat /\ a.ntptime1 \in Int /\ a.ntptime2 \in Int
      BY <2>2 DEF Reply
    <3> QED
      BY <2>2, <2>11, <3>1 DEF ClockInv, RepliesInv
  <2>14. ResultInv'
    BY <2>11 DEF ResultInv
  <2> QED
    BY <2>10, <2>12, <2>13, <2>14 DEF ClockInv
<1> QED
  BY <1>2, <1>3 DEF WaitReturns

\* The time is asked for: whatever was asked before was asked before this.
LEMMA ClockAsks ==
  ASSUME TypeInv, CallInv, ClockInv, PublishTime
  PROVE  ClockInv'
<1> DEFINE c == IOT_MQTT_GetSubUsrData("result")
           m == [type |-> "TIME", topic |-> "result", context |-> 0, sent |-> now]
<1>1. /\ now' = now /\ drift' = drift /\ synced' = synced /\ replies' = replies
      /\ requests' = Append(requests, m)
      /\ result' = [result EXCEPT ![c] = Forgotten(@)]
      /\ requests \in Seq(Request) /\ now \in Nat /\ drift \in Int /\ MaxDelay \in Nat /\ replies \subseteq Reply
  BY ServicesAssumption DEF PublishTime, clock, TypeInv
<1>2. call'.step = "wait" /\ call'.api = call.api /\ call'.context = c /\ call'.before = now + drift
  BY DEF PublishTime, TypeInv, InCall
<1>3. Asked_at' = now /\ ~Awaited
  BY <1>1, <1>2 DEF Asked_at, Awaited, PublishTime, Subscribed
<1>4. m \in Request
  BY <1>1, AllTopics, ServicesAssumption DEF Request
<1>5. RequestsInv'
  <2>1. \A i \in DOMAIN requests' : \/ i \in DOMAIN requests /\ requests'[i] = requests[i]
                                    \/ requests'[i] = m
    BY <1>1, <1>4, RequestAdded
  <2>2. m.sent = now
    OBVIOUS
  <2> HIDE DEF m
  <2>3. ASSUME NEW i \in DOMAIN requests', requests'[i].type = "TIME"
        PROVE  requests'[i].sent <= now
    BY <1>1, <2>1, <2>2, <2>3 DEF ClockInv, RequestsInv
  <2> QED
    BY <1>1, <1>3, <2>3 DEF RequestsInv
<1>6. RepliesInv'
  BY <1>1, <1>3 DEF ClockInv, RepliesInv
<1>7. ResultInv'
  <2>1. SUFFICES ASSUME Awaited'
                 PROVE  now <= now /\ ~result'[c].result_recv_ok
    BY <1>1, <1>2, <1>3 DEF ResultInv
  <2>2. call.api = "IOT_Sys_SyncNTPTime"
    BY <1>2, <2>1 DEF Awaited
  <2>3. c \in Contexts
    <3>1. Head(TopicsOf["IOT_Sys_SyncNTPTime"]) = "result" /\ TopicsOf["IOT_Sys_SyncNTPTime"] # <<>>
      BY TopicFacts
    <3>2. c # 0
      BY <2>2, <3>1 DEF CallInv, PublishTime, Subscribed, IOT_MQTT_GetSubUsrData
    <3>3. c \in 0..MaxContexts
      BY AllTopics DEF IOT_MQTT_GetSubUsrData, TypeInv, Handle
    <3> QED
      BY <3>2, <3>3, ServicesAssumption DEF Contexts
  <2>4. result'[c] = [result[c] EXCEPT !.result_recv_ok = FALSE] /\ result[c] \in Answer
    BY <1>1, <2>2, <2>3 DEF Forgotten, TypeInv
  <2>5. result'[c].result_recv_ok = FALSE
    BY <2>4 DEF Answer
  <2> QED
    BY <1>1, <2>5
<1>8. ClockIsClose'
  BY <1>1 DEF ClockInv, ClockIsClose
<1> QED
  BY <1>5, <1>6, <1>7, <1>8 DEF ClockInv

\* An answer is read.
LEMMA ClockTakes ==
  ASSUME TypeInv, CallInv, ClockInv, NEW r \in replies, TakeTime(r)
  PROVE  ClockInv'
<1> DEFINE c == IOT_MQTT_GetSubUsrData("result")
           a == [result_recv_ok |-> TRUE, ntptime1 |-> r.ntptime1, ntptime2 |-> r.ntptime2,
                 result_recv_time |-> now + drift]
<1>1. /\ now' = now /\ drift' = drift /\ synced' = synced /\ call' = call /\ requests' = requests
      /\ replies' = replies \ {r} /\ result' = IF c = 0 THEN result ELSE [result EXCEPT ![c] = a]
  BY DEF TakeTime, clock
<1>2. Awaited' = Awaited /\ Asked_at' = Asked_at
  BY <1>1 DEF Awaited, Asked_at
<1>3. RequestsInv' /\ RepliesInv' /\ ClockIsClose'
  BY <1>1, <1>2 DEF ClockInv, RequestsInv, RepliesInv, ClockIsClose
<1>4. ResultInv'
  <2>1. SUFFICES ASSUME Awaited
                 PROVE  ResultInv'
    BY <1>2 DEF ResultInv
  <2>2. call.context \in Contexts
    BY <2>1, ServicesAssumption DEF Awaited, CallInv, TypeInv, InCall, Contexts
  <2>3. CASE result'[call.context] = result[call.context]
    BY <1>1, <1>2, <2>3 DEF ClockInv, ResultInv
  <2>4. CASE result'[call.context] # result[call.context]
    <3>1. result'[call.context] = a
      BY <1>1, <2>2, <2>4 DEF TypeInv
    <3>2. r \in Reply /\ now \in Nat /\ MaxDelay \in Nat /\ Asked_at \in Int
      BY ServicesAssumption DEF TypeInv, Asked_at, InCall
    <3>3. r.sent \in Nat /\ r.ntptime1 \in Int /\ r.ntptime2 \in Int
      BY <3>2 DEF Reply
    <3>4. /\ r.sent <= now /\ now <= r.sent + MaxDelay
          /\ r.sent <= r.ntptime1 /\ r.ntptime1 <= now
          /\ r.sent <= r.ntptime2 /\ r.ntptime2 <= now
          /\ r.sent <= Asked_at /\ Asked_at <= now
      BY <2>1 DEF ClockInv, RepliesInv, ResultInv
    <3>5. a.ntptime1 = r.ntptime1 /\ a.ntptime2 = r.ntptime2 /\ a.result_recv_time = now + drift
      OBVIOUS
    <3> HIDE DEF a
    <3>6. /\ now - MaxDelay <= a.ntptime1 /\ a.ntptime1 <= now
          /\ now - MaxDelay <= a.ntptime2 /\ a.ntptime2 <= now
          /\ now - MaxDelay <= Asked_at /\ Asked_at <= now
      BY <3>2, <3>3, <3>4, <3>5
    <3> QED
      BY <1>1, <1>2, <3>1, <3>5, <3>6 DEF ResultInv
  <2> QED
    BY <2>3, <2>4
<1> QED
  BY <1>3, <1>4 DEF ClockInv

\* The broker answers in time, or not at all.
LEMMA ClockBroker ==
  ASSUME TypeInv, ClockInv, Broker
  PROVE  ClockInv'
<1> DEFINE r == Head(requests)
           a == [sent |-> r.sent, ntptime1 |-> (r.sent + now + 1) \div 2, ntptime2 |-> now]
<1>1. /\ requests # <<>> /\ requests \in Seq(Request) /\ r \in Request /\ requests' = Tail(requests)
      /\ now' = now /\ drift' = drift /\ synced' = synced /\ call' = call /\ result' = result
      /\ now \in Nat /\ MaxDelay \in Nat
  BY BrokerIs, ServicesAssumption DEF TypeInv
<1>2. \A i \in DOMAIN requests' : \E j \in DOMAIN requests : requests'[i] = requests[j]
  BY <1>1, RequestTaken
<1>3. CASE replies' = replies
  BY <1>1, <1>2, <1>3, ClockUntouched
<1>4. CASE r.type = "TIME" /\ now <= r.sent + MaxDelay /\ replies' = replies \cup {a}
  <2>1. Awaited' = Awaited /\ Asked_at' = Asked_at
    BY <1>1 DEF Awaited, Asked_at
  <2>2. RequestsInv' /\ ResultInv' /\ ClockIsClose'
    BY <1>1, <1>2, <2>1 DEF ClockInv, RequestsInv, ResultInv, ClockIsClose
  <2>3. r.sent \in Nat /\ r.sent <= now /\ (Awaited => r.sent <= Asked_at)
    <3>1. 1 \in DOMAIN requests /\ r = requests[1]
      BY <1>1, HeadTail, LenProperties
    <3> QED
      BY <1>1, <1>4, <3>1 DEF ClockInv, RequestsInv, Request
  <2>4. /\ a.sent = r.sent /\ a.ntptime2 = now
        /\ r.sent <= a.ntptime1 /\ a.ntptime1 <= now
    BY <1>1, <2>3
  <2> HIDE DEF a
  <2>5. RepliesInv'
    <3>1. ASSUME NEW b \in replies'
          PROVE  /\ b.sent <= now /\ now <= b.sent + MaxDelay
                 /\ b.sent <= b.ntptime1 /\ b.ntptime1 <= now
                 /\ b.sent <= b.ntptime2 /\ b.ntptime2 <= now
                 /\ Awaited => b.sent <= Asked_at
      <4>1. CASE b \in replies
        BY <4>1 DEF ClockInv, RepliesInv
      <4>2. CASE b = a
        BY <1>1, <1>4, <2>3, <2>4, <4>2
      <4> QED
        BY <1>4, <3>1, <4>1, <4>2
    <3> QED
      BY <1>1, <2>1, <3>1 DEF RepliesInv
  <2> QED
    BY <2>2, <2>5 DEF ClockInv
<1> QED
  BY <1>3, <1>4, BrokerIs

\* Every step keeps the clock close.
LEMMA ClockStep ==
  ASSUME TypeInv, CallInv, ClockInv, [Next]_vars
  PROVE  ClockInv'
<1> DEFINE Same == /\ now' = now /\ drift' = drift /\ synced' = synced /\ result' = result
                   /\ replies' \subseteq replies
<1>1. ASSUME NEW api \in apis, Call(api)
      PROVE  ClockInv'
  <2>1. call'.step = "check"
    BY <1>1 DEF Call, NoCall
  <2> QED
    BY <1>1, <2>1, ClockUntouched DEF Call, network, clock
<1>2. ASSUME NEW t \in Topics, CheckAndSub(t)
      PROVE  ClockInv'
  <2>1. Same /\ call.step = "check" /\ call \in InCall
    BY <1>2, CheckIs DEF TypeInv
  <2>2. call'.step # "wait"
    BY <1>2, <2>1, CheckIs DEF InCall
  <2>3. \A i \in DOMAIN requests' : requests'[i].type = "TIME" => \E j \in DOMAIN requests : requests'[i] = requests[j]
    <3>1. CASE requests' = requests
      BY <3>1
    <3>2. CASE Subscribe(t, allocs + 1)
      <4> DEFINE m == [type |-> "SUBSCRIBE", topic |-> t, context |-> allocs + 1, sent |-> now]
      <4>1. requests' = Append(requests, m) /\ requests \in Seq(Request)
        BY <3>2 DEF Subscribe, TypeInv
      <4>2. m \in Request /\ m.type # "TIME"
        BY <1>2, CheckIs, ServicesAssumption DEF Request, TypeInv, Contexts
      <4> HIDE DEF m
      <4> QED
        BY <4>1, <4>2, RequestAdded
    <3> QED
      BY <1>2, <3>1, <3>2, CheckIs
  <2> QED
    BY <2>1, <2>2, <2>3, ClockUntouched
<1>3. CASE \/ service_mqtt_topic_check_and_sub \/ system_mqtt_result_topic_check_and_sub
           \/ ota_mqtt_update_topic_check_and_sub \/ broadcast_check_and_sub \/ data_template_topic_check_and_sub
  <2>1. \E t \in Topics : CheckAndSub(t)
    BY <1>3, AllTopics DEF service_mqtt_topic_check_and_sub, system_mqtt_result_topic_check_and_sub,
         ota_mqtt_update_topic_check_and_sub, broadcast_check_and_sub, data_template_topic_check_and_sub
  <2> QED
    BY <1>2, <2>1
<1>4. CASE MallocFails \/ service_mqtt_service_register \/ InitReturns
  <2>1. Same /\ requests' = requests
    BY <1>4 DEF MallocFails, service_mqtt_service_register, InitReturns, network, clock
  <2>2. call'.step # "wait"
    <3>1. call \in InCall /\ NoCall.step # "wait"
      BY DEF TypeInv, NoCall
    <3>2. CASE MallocFails
      <4>1. call' = NoCall \/ (call.step = "check" /\ call' = [call EXCEPT !.todo = Tail(@)])
        BY <3>2 DEF MallocFails
      <4> QED
        BY <3>1, <4>1 DEF InCall
    <3>3. CASE service_mqtt_service_register \/ InitReturns
      BY <3>1, <3>3 DEF service_mqtt_service_register, InitReturns
    <3> QED
      BY <1>4, <3>2, <3>3
  <2> QED
    BY <2>1, <2>2, ClockUntouched
<1>5. CASE PublishTime
  BY <1>5, ClockAsks
<1>6. CASE IOT_FileManage_Deinit
  <2>1. Same /\ call' = call /\ replies' = replies
    BY <1>6 DEF IOT_FileManage_Deinit, clock
  <2>2. CASE Unsubscribe({"service"})
    BY <2>1, <2>2, ClockUnsubscribes, AllTopics
  <2>3. CASE UNCHANGED <<table, requests>>
    BY <2>1, <2>3, ClockUntouched
  <2> QED
    BY <1>6, <2>2, <2>3 DEF IOT_FileManage_Deinit, service_mqtt_deinit
<1>7. ASSUME NEW api \in APIs, Deinit(api)
      PROVE  ClockInv'
  <2> DEFINE S == ToSet(TopicsOf[api])
  <2>1. S \in SUBSET Topics
    BY DEF Topics, APIs
  <2>2. Same /\ call' = call /\ replies' = replies /\ Unsubscribe(S)
    BY <1>7 DEF Deinit, clock
  <2> HIDE DEF S
  <2> QED
    BY <2>1, <2>2, ClockUnsubscribes
<1>8. CASE IOT_Broadcast_Deinit \/ IOT_OTA_Deinit \/ IOT_DataTemplate_Deinit
  BY <1>7, <1>8, TopicFacts DEF IOT_Broadcast_Deinit, IOT_OTA_Deinit, IOT_DataTemplate_Deinit
<1>9. CASE YieldIdle
  BY <1>9, ClockElapses DEF YieldIdle
<1>10. CASE YieldSubscribe
  <2>1. call'.step # "wait"
    <3>1. call \in InCall
      BY DEF TypeInv
    <3> QED
      BY <1>10, <3>1 DEF YieldSubscribe, InCall
  <2> QED
    BY <1>10, <2>1, ClockElapses DEF YieldSubscribe
<1>11. CASE YieldWait
  <2>1. Elapses /\ drift' = drift /\ synced' = synced /\ ~result[call.context].result_recv_ok /\ call \in InCall
    BY <1>11 DEF YieldWait, TypeInv
  <2>2. CASE call' = [call EXCEPT !.left = @ - 1]
    <3>1. call'.before = call.before /\ call'.context = call.context /\ call'.step = call.step /\ call'.api = call.api
      BY <2>1, <2>2 DEF InCall
    <3>2. Awaited' <=> Awaited
      BY <3>1 DEF Awaited
    <3>3. Awaited \/ ~Awaited'
      BY <3>2
    <3> QED
      BY <2>1, <3>1, <3>3, ClockElapses
  <2>3. CASE call' = NoCall
    <3>1. call'.step # "wait"
      BY <2>3 DEF NoCall
    <3> QED
      BY <2>1, <3>1, ClockElapses
  <2> QED
    BY <1>11, <2>2, <2>3 DEF YieldWait
<1>12. CASE WaitReturns
  BY <1>12, ClockSet
<1>13. ASSUME NEW r \in replies, TakeTime(r)
       PROVE  ClockInv'
  BY <1>13, ClockTakes
<1>14. CASE ReadSuback \/ ReadUnsuback \/ ReadMessage
  <2>1. Same /\ call' = call /\ requests' = requests
    BY <1>14 DEF ReadSuback, ReadUnsuback, ReadMessage, Reads, clock
  <2> QED
    BY <2>1, ClockUntouched
<1>15. CASE UnsubExpires
  BY <1>15, ClockUntouched DEF UnsubExpires, network, clock
<1>16. CASE Reconnect
  <2>1. Same /\ (call' = call \/ call'.step # "wait")
    BY <1>16 DEF Reconnect, clock, NoCall
  <2>2. requests' = [k \in DOMAIN Held(Topics) |-> [type |-> "RESUBSCRIBE", topic |-> Held(Topics)[k], context |-> 0, sent |-> now]]
    BY <1>16 DEF Reconnect, Held
  <2>3. \A i \in DOMAIN requests' : requests'[i].type # "TIME"
    BY <2>2
  <2> QED
    BY <2>1, <2>3, ClockUntouched
<1>17. CASE Broker
  BY <1>17, ClockBroker
<1>18. ASSUME NEW t \in DOMAIN Sent, NEW complete \in BOOLEAN, NEW m \in Sent[t], BrokerSends(t, m, complete)
       PROVE  ClockInv'
  BY <1>18, ClockUntouched DEF BrokerSends, clock
<1>19. CASE UNCHANGED vars
  BY <1>19, ClockUntouched DEF vars, network, clock
<1> QED
  BY <1>1, <1>3, <1>4, <1>5, <1>6, <1>8, <1>9, <1>10, <1>11, <1>12, <1>13, <1>14, <1>15, <1>16, <1>17,
     <1>18, <1>19 DEF Next, Application, Yield, Environment

\* SyncNTPTime leaves the clock as close as the network allows, however late answers come,
\* whatever an earlier call left behind and however often connections are lost.
THEOREM ClockStaysClose == Spec => []ClockIsClose
<1>1. Init => ClockInv
  <2> SUFFICES ASSUME Init
               PROVE  ClockInv
    OBVIOUS
  <2>1. requests = <<>> /\ replies = {} /\ ~synced /\ call.step = "idle"
    BY DEF Init, NoCall
  <2> QED
    BY <2>1 DEF ClockInv, RequestsInv, RepliesInv, ResultInv, Awaited, ClockIsClose
<1>2. BaseInv /\ ClockInv /\ [Next]_vars => ClockInv'
  BY ClockStep DEF BaseInv
<1>3. ClockInv => ClockIsClose
  BY DEF ClockInv
<1> QED
  BY <1>1, <1>2, <1>3, TypeCorrect, PTL DEF Spec

-------------------------------------------------------------------------------
(* Contexts.  The nodes and packets of one type in a sequence, as pairs of topic and *)
(* context.                                                                          *)

Nodes(q, type) == {k \in DOMAIN q : q[k].type = type}
Pairs(q, type) == {<<q[k].topic, q[k].context>> : k \in Nodes(q, type)}
Once(q, type)  == \A j, k \in Nodes(q, type) : q[j].context = q[k].context => j = k

\* p is q without element k.
Dropped(q, p, k) ==
    /\ Len(p) = Len(q) - 1
    /\ \A i \in 1..Len(p) : p[i] = IF i < k THEN q[i] ELSE q[i + 1]

\* Element k goes, of this type or another.
LEMMA PairsDropped ==
  ASSUME NEW S, NEW q \in Seq(S), NEW p \in Seq(S), NEW k \in 1..Len(q), NEW type,
         Dropped(q, p, k), Once(q, type)
  PROVE  /\ Once(p, type)
         /\ q[k].type # type => Pairs(p, type) = Pairs(q, type)
         /\ q[k].type = type => Pairs(p, type) = Pairs(q, type) \ {<<q[k].topic, q[k].context>>}
<1> DEFINE d(i) == IF i < k THEN i ELSE i + 1
<1>1. /\ Len(q) \in Nat /\ DOMAIN q = 1..Len(q) /\ DOMAIN p = 1..Len(p) /\ Len(p) \in Nat
      /\ Len(p) = Len(q) - 1 /\ \A i \in 1..Len(p) : p[i] = IF i < k THEN q[i] ELSE q[i + 1]
  BY LenProperties DEF Dropped
<1>2. \A i \in DOMAIN p : d(i) \in DOMAIN q /\ d(i) # k /\ p[i] = q[d(i)]
  BY <1>1
<1>3. \A i, j \in DOMAIN p : d(i) = d(j) => i = j
  BY <1>1
<1>4. ASSUME NEW j \in DOMAIN q, j # k
      PROVE  \E i \in DOMAIN p : p[i] = q[j]
  <2>1. CASE j < k
    <3>1. j \in DOMAIN p /\ p[j] = q[j]
      BY <1>1, <2>1
    <3> QED
      BY <3>1
  <2>2. CASE ~(j < k)
    <3>1. j - 1 \in DOMAIN p /\ p[j - 1] = q[(j - 1) + 1]
      BY <1>1, <1>4, <2>2
    <3>2. (j - 1) + 1 = j
      BY <1>1
    <3> QED
      BY <3>1, <3>2
  <2> QED
    BY <2>1, <2>2
<1> HIDE DEF d
<1>5. \A i \in Nodes(p, type) : i \in DOMAIN p /\ d(i) \in Nodes(q, type) /\ d(i) # k /\ p[i] = q[d(i)]
  BY <1>2 DEF Nodes
<1>6. Once(p, type)
  BY <1>3, <1>5 DEF Once
<1>7. ASSUME NEW j \in Nodes(q, type), j # k
      PROVE  \E i \in Nodes(p, type) : p[i] = q[j]
  BY <1>4, <1>7 DEF Nodes
<1>8. Pairs(p, type) \subseteq Pairs(q, type)
  BY <1>5 DEF Pairs
<1>9. CASE q[k].type # type
  <2>1. k \notin Nodes(q, type)
    BY <1>9 DEF Nodes
  <2>2. Pairs(q, type) \subseteq Pairs(p, type)
    BY <1>7, <2>1 DEF Pairs
  <2> QED
    BY <1>6, <1>8, <1>9, <2>2
<1>10. CASE q[k].type = type
  <2> DEFINE x == <<q[k].topic, q[k].context>>
  <2>1. k \in Nodes(q, type)
    BY <1>1, <1>10 DEF Nodes
  <2>2. x \notin Pairs(p, type)
    <3>1. SUFFICES ASSUME x \in Pairs(p, type)
                   PROVE  FALSE
      OBVIOUS
    <3>2. PICK i \in Nodes(p, type) : x = <<p[i].topic, p[i].context>>
      BY <3>1 DEF Pairs
    <3>3. p[i].context = q[k].context /\ p[i] = q[d(i)] /\ d(i) \in Nodes(q, type) /\ d(i) # k
      BY <1>5, <3>2
    <3> QED
      BY <2>1, <3>3 DEF Once
  <2>3. ASSUME NEW y \in Pairs(q, type), y # x
        PROVE  y \in Pairs(p, type)
    <3>1. PICK j \in Nodes(q, type) : y = <<q[j].topic, q[j].context>>
      BY <2>3 DEF Pairs
    <3>2. j # k
      BY <2>3, <3>1
    <3>3. PICK i \in Nodes(p, type) : p[i] = q[j]
      BY <1>7, <3>2
    <3> QED
      BY <3>1, <3>3 DEF Pairs
  <2> QED
    BY <1>6, <1>8, <1>10, <2>2, <2>3
<1> QED
  BY <1>9, <1>10

LEMMA PairsTail ==
  ASSUME NEW S, NEW q \in Seq(S), q # <<>>, NEW type, Once(q, type)
  PROVE  /\ Once(Tail(q), type)
         /\ Head(q).type # type => Pairs(Tail(q), type) = Pairs(q, type)
         /\ Head(q).type = type =>
              /\ Pairs(Tail(q), type) = Pairs(q, type) \ {<<Head(q).topic, Head(q).context>>}
              /\ <<Head(q).topic, Head(q).context>> \in Pairs(q, type)
<1> DEFINE p == Tail(q)
<1>1. /\ p \in Seq(S) /\ Len(p) = Len(q) - 1 /\ Len(q) \in Nat \ {0} /\ Head(q) = q[1]
      /\ \A i \in 1..Len(p) : p[i] = q[i + 1]
  BY HeadTail
<1>2. 1 \in 1..Len(q) /\ DOMAIN q = 1..Len(q)
  BY <1>1, LenProperties
<1> HIDE DEF p
<1>3. p \in Seq(S) /\ Dropped(q, p, 1)
  BY <1>1 DEF Dropped
<1>4. /\ Once(p, type)
      /\ q[1].type # type => Pairs(p, type) = Pairs(q, type)
      /\ q[1].type = type => Pairs(p, type) = Pairs(q, type) \ {<<q[1].topic, q[1].context>>}
  BY <1>2, <1>3, PairsDropped
<1>5. q[1].type = type => <<q[1].topic, q[1].context>> \in Pairs(q, type)
  BY <1>2 DEF Pairs, Nodes
<1> QED
  BY <1>1, <1>4, <1>5 DEF p

LEMMA PairsRemoved ==
  ASSUME NEW S, NEW q \in Seq(S), NEW k \in 1..Len(q), NEW type, Once(q, type)
  PROVE  /\ Once(RemoveAt(q, k), type)
         /\ q[k].type # type => Pairs(RemoveAt(q, k), type) = Pairs(q, type)
         /\ q[k].type = type => Pairs(RemoveAt(q, k), type) = Pairs(q, type) \ {<<q[k].topic, q[k].context>>}
<1> DEFINE p == RemoveAt(q, k)
<1>1. /\ p \in Seq(S) /\ Len(p) = Len(q) - 1
      /\ \A i \in 1..(Len(q) - 1) : p[i] = IF i < k THEN q[i] ELSE q[i + 1]
  BY RemoveAtFacts
<1> HIDE DEF p
<1>2. /\ Once(p, type)
      /\ q[k].type # type => Pairs(p, type) = Pairs(q, type)
      /\ q[k].type = type => Pairs(p, type) = Pairs(q, type) \ {<<q[k].topic, q[k].context>>}
  <2>1. p \in Seq(S) /\ Dropped(q, p, k)
    BY <1>1 DEF Dropped
  <2> QED
    BY <2>1, PairsDropped
<1> QED
  BY <1>2 DEF p

\* Others follow.
LEMMA PairsJoined ==
  ASSUME NEW S, NEW q \in Seq(S), NEW p \in Seq(S), NEW type
  PROVE  /\ Pairs(q \o p, type) = Pairs(q, type) \cup Pairs(p, type)
         /\ Once(q, type) /\ Once(p, type) /\ (\A x \in Pairs(q, type), y \in Pairs(p, type) : x[2] # y[2])
              => Once(q \o p, type)
<1> DEFINE r == q \o p
<1>1. /\ Len(r) = Len(q) + Len(p) /\ Len(q) \in Nat /\ Len(p) \in Nat
      /\ \A i \in 1..Len(r) : r[i] = IF i <= Len(q) THEN q[i] ELSE p[i - Len(q)]
      /\ DOMAIN r = 1..Len(r) /\ DOMAIN q = 1..Len(q) /\ DOMAIN p = 1..Len(p)
  BY ConcatProperties, LenProperties
<1> HIDE DEF r
<1>2. \A i \in DOMAIN q : i \in DOMAIN r /\ r[i] = q[i]
  BY <1>1
<1>3. \A i \in DOMAIN p : i + Len(q) \in DOMAIN r /\ r[i + Len(q)] = p[i]
  <2>1. SUFFICES ASSUME NEW i \in DOMAIN p
                 PROVE  i + Len(q) \in DOMAIN r /\ r[i + Len(q)] = p[i]
    OBVIOUS
  <2>2. i + Len(q) \in DOMAIN r /\ ~(i + Len(q) <= Len(q)) /\ (i + Len(q)) - Len(q) = i
    BY <1>1
  <2> QED
    BY <1>1, <2>2
<1>4. \A i \in DOMAIN r : \/ i \in DOMAIN q /\ r[i] = q[i]
                          \/ i - Len(q) \in DOMAIN p /\ r[i] = p[i - Len(q)] /\ i \in Nat
  BY <1>1
<1>5. \A i \in Nodes(r, type) : \/ i \in Nodes(q, type) /\ r[i] = q[i]
                                \/ i - Len(q) \in Nodes(p, type) /\ r[i] = p[i - Len(q)] /\ i \in Nat
  BY <1>4 DEF Nodes
<1>6. Pairs(r, type) = Pairs(q, type) \cup Pairs(p, type)
  <2>1. ASSUME NEW x \in Pairs(r, type)
        PROVE  x \in Pairs(q, type) \cup Pairs(p, type)
    <3>1. PICK i \in Nodes(r, type) : x = <<r[i].topic, r[i].context>>
      BY DEF Pairs
    <3>2. CASE i \in Nodes(q, type) /\ r[i] = q[i]
      BY <3>1, <3>2 DEF Pairs
    <3>3. CASE i - Len(q) \in Nodes(p, type) /\ r[i] = p[i - Len(q)]
      BY <3>1, <3>3 DEF Pairs
    <3> QED
      BY <1>5, <3>2, <3>3
  <2>2. ASSUME NEW x \in Pairs(q, type)
        PROVE  x \in Pairs(r, type)
    <3>1. PICK i \in Nodes(q, type) : x = <<q[i].topic, q[i].context>>
      BY DEF Pairs
    <3>2. i \in Nodes(r, type) /\ r[i] = q[i]
      BY <1>2 DEF Nodes
    <3> QED
      BY <3>1, <3>2 DEF Pairs
  <2>3. ASSUME NEW x \in Pairs(p, type)
        PROVE  x \in Pairs(r, type)
    <3>1. PICK i \in Nodes(p, type) : x = <<p[i].topic, p[i].context>>
      BY DEF Pairs
    <3>2. i + Len(q) \in Nodes(r, type) /\ r[i + Len(q)] = p[i]
      BY <1>3 DEF Nodes
    <3> QED
      BY <3>1, <3>2 DEF Pairs
  <2> QED
    BY <2>1, <2>2, <2>3
<1>7. ASSUME Once(q, type), Once(p, type), \A x \in Pairs(q, type), y \in Pairs(p, type) : x[2] # y[2]
      PROVE  Once(r, type)
  <2>1. \A i \in Nodes(q, type), j \in Nodes(p, type) : q[i].context # p[j].context
    <3>1. SUFFICES ASSUME NEW i \in Nodes(q, type), NEW j \in Nodes(p, type)
                   PROVE  q[i].context # p[j].context
      OBVIOUS
    <3>2. <<q[i].topic, q[i].context>> \in Pairs(q, type) /\ <<p[j].topic, p[j].context>> \in Pairs(p, type)
      BY DEF Pairs
    <3> QED
      BY <1>7, <3>2
  <2>2. SUFFICES ASSUME NEW i \in Nodes(r, type), NEW j \in Nodes(r, type), r[i].context = r[j].context
                 PROVE  i = j
    BY DEF Once
  <2>3. CASE i \in Nodes(q, type) /\ r[i] = q[i] /\ j \in Nodes(q, type) /\ r[j] = q[j]
    BY <1>7, <2>2, <2>3 DEF Once
  <2>4. CASE /\ i - Len(q) \in Nodes(p, type) /\ r[i] = p[i - Len(q)] /\ i \in Nat
             /\ j - Len(q) \in Nodes(p, type) /\ r[j] = p[j - Len(q)] /\ j \in Nat
    <3>1. i - Len(q) = j - Len(q)
      BY <1>7, <2>2, <2>4 DEF Once
    <3> QED
      BY <1>1, <2>4, <3>1
  <2> QED
    BY <1>5, <2>1, <2>2, <2>3, <2>4
<1> QED
  BY <1>6, <1>7 DEF r

\* One more follows.
LEMMA PairsAppended ==
  ASSUME NEW S, NEW q \in Seq(S), NEW m \in S, NEW type, Once(q, type)
  PROVE  /\ m.type # type => /\ Pairs(Append(q, m), type) = Pairs(q, type)
                             /\ Once(Append(q, m), type)
         /\ m.type = type => /\ Pairs(Append(q, m), type) = Pairs(q, type) \cup {<<m.topic, m.context>>}
                             /\ (\A x \in Pairs(q, type) : x[2] # m.context) => Once(Append(q, m), type)
<1> DEFINE p == <<m>>
<1>1. p \in Seq(S) /\ Append(q, m) = q \o p /\ DOMAIN p = {1} /\ p[1] = m
  OBVIOUS
<1> HIDE DEF p
<1>2. Once(p, type)
  BY <1>1 DEF Once, Nodes
<1>3. CASE m.type # type
  <2>1. Pairs(p, type) = {}
    BY <1>1, <1>3 DEF Pairs, Nodes
  <2>2. Pairs(q \o p, type) = Pairs(q, type) \cup Pairs(p, type)
    BY <1>1, PairsJoined
  <2>3. Once(q \o p, type)
    BY <1>1, <1>2, <2>1, PairsJoined
  <2> QED
    BY <1>1, <1>3, <2>1, <2>2, <2>3
<1>4. CASE m.type = type
  <2>1. Nodes(p, type) = {1}
    BY <1>1, <1>4 DEF Nodes
  <2>2. Pairs(p, type) = {<<m.topic, m.context>>}
    BY <1>1, <2>1 DEF Pairs
  <2>3. \A y \in Pairs(p, type) : y[2] = m.context
    BY <2>2
  <2> QED
    BY <1>1, <1>2, <1>4, <2>2, <2>3, PairsJoined
<1> QED
  BY <1>3, <1>4

\* Who owns a context: a handle h[t] of the table, or a node of W that waits for UNSUBACK.
\* R and A are the requests and answers on their way for such nodes, each in one place.
OwnSets(h, n, W, R, A, mem) ==
    /\ \A t \in Topics : h[t].context <= n
    /\ \A t, u \in Topics : h[t].context = h[u].context /\ h[t].context # 0 => t = u
    /\ \A x \in W : x[2] \in 1..n /\ \A t \in Topics : h[t].context # x[2]
    /\ \A x, y \in W : x[2] = y[2] => x = y
    /\ R \subseteq W /\ A \subseteq W
    /\ \A x \in R : x \notin A
    /\ mem = ({h[t].context : t \in Topics} \ {0}) \cup {x[2] : x \in W}

Handles == [Topics -> Handle]

\* A new context takes the place of what the handle leads to.
LEMMA SetsSubscribe ==
  ASSUME NEW h \in Handles, NEW n \in Nat, NEW W, NEW R, NEW A, NEW mem,
         OwnSets(h, n, W, R, A, mem), NEW t \in Topics, NEW g,
         \A u \in Topics : g[u].context = IF u = t THEN n + 1 ELSE h[u].context
  PROVE  /\ OwnSets(g, n + 1, W, R, A, (mem \ {h[t].context}) \cup {n + 1})
         /\ h[t].context \in mem \cup {0}
<1>1. \A u \in Topics : h[u].context \in Nat
  BY ServicesAssumption DEF Handles, Handle
<1>2. /\ \A u \in Topics : h[u].context <= n
      /\ \A u, v \in Topics : h[u].context = h[v].context /\ h[u].context # 0 => u = v
      /\ \A x \in W : x[2] \in 1..n /\ \A u \in Topics : h[u].context # x[2]
      /\ mem = ({h[u].context : u \in Topics} \ {0}) \cup {x[2] : x \in W}
  BY DEF OwnSets
<1>3. h[t].context \in mem \cup {0}
  BY <1>2
<1>4. \A u \in Topics : g[u].context <= n + 1
  BY <1>1, <1>2
<1>5. \A u, v \in Topics : g[u].context = g[v].context /\ g[u].context # 0 => u = v
  BY <1>1, <1>2
<1>6. \A x \in W : x[2] \in 1..(n + 1) /\ \A u \in Topics : g[u].context # x[2]
  BY <1>1, <1>2
<1>7. (mem \ {h[t].context}) \cup {n + 1} = ({g[u].context : u \in Topics} \ {0}) \cup {x[2] : x \in W}
  <2>1. ASSUME NEW c \in mem, c # h[t].context
        PROVE  c \in ({g[u].context : u \in Topics} \ {0}) \cup {x[2] : x \in W}
    <3>1. CASE c \in {x[2] : x \in W}
      BY <3>1
    <3>2. CASE c \in {h[u].context : u \in Topics} \ {0}
      <4>1. PICK u \in Topics : c = h[u].context /\ c # 0
        BY <3>2
      <4>2. u # t /\ g[u].context = c
        BY <2>1, <4>1
      <4> QED
        BY <4>1, <4>2
    <3> QED
      BY <1>2, <2>1, <3>1, <3>2
  <2>2. n + 1 \in ({g[u].context : u \in Topics} \ {0})
    <3>1. g[t].context = n + 1 /\ n + 1 # 0
      OBVIOUS
    <3> QED
      BY <3>1
  <2>3. ASSUME NEW u \in Topics, g[u].context # 0, u # t
        PROVE  g[u].context \in mem \ {h[t].context}
    <3>1. g[u].context = h[u].context
      BY <2>3
    <3>2. h[u].context \in mem /\ h[u].context # h[t].context
      BY <1>2, <2>3, <3>1
    <3> QED
      BY <3>1, <3>2
  <2>4. \A x \in W : x[2] \in mem \ {h[t].context}
    BY <1>2
  <2> QED
    BY <2>1, <2>2, <2>3, <2>4
<1> QED
  BY <1>3, <1>4, <1>5, <1>6, <1>7 DEF OwnSets

\* The topics of S whose handles lead to contexts.
Taken(h, S) == {<<t, h[t].context>> : t \in {u \in S : h[u].context # 0}}

\* The nodes take over the contexts of the handles that are cleared.
LEMMA SetsUnsubscribe ==
  ASSUME NEW h \in Handles, NEW n \in Nat, NEW W, NEW R, NEW A, NEW mem,
         OwnSets(h, n, W, R, A, mem), NEW S \in SUBSET Topics, NEW g,
         \A u \in Topics : g[u].context = IF u \in S THEN 0 ELSE h[u].context
  PROVE  /\ OwnSets(g, n, W \cup Taken(h, S), R \cup Taken(h, S), A, mem)
         /\ \A x \in W, y \in Taken(h, S) : x[2] # y[2]
<1> DEFINE P == Taken(h, S)
<1>1. \A u \in Topics : h[u].context \in Nat
  BY ServicesAssumption DEF Handles, Handle
<1>2. /\ \A u \in Topics : h[u].context <= n
      /\ \A u, v \in Topics : h[u].context = h[v].context /\ h[u].context # 0 => u = v
      /\ \A x \in W : x[2] \in 1..n /\ \A u \in Topics : h[u].context # x[2]
      /\ \A x, y \in W : x[2] = y[2] => x = y
      /\ R \subseteq W /\ A \subseteq W
      /\ \A x \in R : x \notin A
      /\ mem = ({h[u].context : u \in Topics} \ {0}) \cup {x[2] : x \in W}
  BY DEF OwnSets
<1>3. \A y \in P : \E t \in S : y = <<t, h[t].context>> /\ h[t].context # 0 /\ y[2] = h[t].context
  BY DEF Taken
<1>4. \A t \in S : h[t].context # 0 => <<t, h[t].context>> \in P
  BY DEF Taken
<1> HIDE DEF P
<1>5. \A x \in W, y \in P : x[2] # y[2]
  BY <1>2, <1>3
<1>6. \A u \in Topics : g[u].context <= n
  BY <1>1, <1>2
<1>7. \A u, v \in Topics : g[u].context = g[v].context /\ g[u].context # 0 => u = v
  BY <1>2
<1>8. \A x \in W \cup P : x[2] \in 1..n /\ \A u \in Topics : g[u].context # x[2]
  <2>1. ASSUME NEW x \in W
        PROVE  x[2] \in 1..n /\ \A u \in Topics : g[u].context # x[2]
    <3>1. x[2] \in 1..n /\ \A u \in Topics : h[u].context # x[2]
      BY <1>2
    <3>2. x[2] # 0
      BY <3>1
    <3> QED
      BY <3>1, <3>2
  <2>2. ASSUME NEW x \in P
        PROVE  x[2] \in 1..n /\ \A u \in Topics : g[u].context # x[2]
    <3>1. PICK t \in S : h[t].context # 0 /\ x[2] = h[t].context
      BY <1>3
    <3>2. h[t].context \in 1..n
      BY <1>1, <1>2, <3>1
    <3> QED
      BY <1>2, <3>1, <3>2
  <2> QED
    BY <2>1, <2>2
<1>9. \A x, y \in W \cup P : x[2] = y[2] => x = y
  <2>1. \A x, y \in P : x[2] = y[2] => x = y
    BY <1>2, <1>3
  <2> QED
    BY <1>2, <1>5, <2>1
<1>10. \A x \in R \cup P : x \notin A
  BY <1>2, <1>5
<1>11. mem = ({g[u].context : u \in Topics} \ {0}) \cup {x[2] : x \in W \cup P}
  <2>1. ASSUME NEW c \in mem
        PROVE  c \in ({g[u].context : u \in Topics} \ {0}) \cup {x[2] : x \in W \cup P}
    <3>1. CASE c \in {x[2] : x \in W}
      BY <3>1
    <3>2. CASE c \in {h[u].context : u \in Topics} \ {0}
      <4>1. PICK u \in Topics : c = h[u].context /\ c # 0
        BY <3>2
      <4>2. CASE u \in S
        <5>1. <<u, h[u].context>> \in P /\ <<u, h[u].context>>[2] = c
          BY <1>4, <4>1, <4>2
        <5> QED
          BY <5>1
      <4>3. CASE u \notin S
        <5>1. g[u].context = c
          BY <4>1, <4>3
        <5> QED
          BY <4>1, <5>1
      <4> QED
        BY <4>2, <4>3
    <3> QED
      BY <1>2, <3>1, <3>2
  <2>2. ASSUME NEW u \in Topics, g[u].context # 0
        PROVE  g[u].context \in mem
    <3>1. g[u].context = h[u].context
      BY <2>2
    <3> QED
      BY <1>2, <2>2, <3>1
  <2>3. \A x \in W : x[2] \in mem
    BY <1>2
  <2>4. \A x \in P : x[2] \in mem
    BY <1>2, <1>3
  <2> QED
    BY <2>1, <2>2, <2>3, <2>4
<1> QED
  BY <1>2, <1>5, <1>6, <1>7, <1>8, <1>9, <1>10, <1>11 DEF OwnSets, P

\* A node is answered or given up, and its context released.
LEMMA SetsReleased ==
  ASSUME NEW h \in Handles, NEW n \in Nat, NEW W, NEW R, NEW A, NEW mem,
         OwnSets(h, n, W, R, A, mem), NEW x \in W, x \notin R
  PROVE  /\ OwnSets(h, n, W \ {x}, R, A \ {x}, mem \ {x[2]})
         /\ x[2] \in mem
<1>1. /\ \A u \in Topics : h[u].context <= n
      /\ \A u, v \in Topics : h[u].context = h[v].context /\ h[u].context # 0 => u = v
      /\ \A y \in W : y[2] \in 1..n /\ \A u \in Topics : h[u].context # y[2]
      /\ \A y, z \in W : z[2] = y[2] => z = y
      /\ R \subseteq W /\ A \subseteq W
      /\ \A y \in R : y \notin A
      /\ mem = ({h[u].context : u \in Topics} \ {0}) \cup {y[2] : y \in W}
  BY DEF OwnSets
<1>2. mem \ {x[2]} = ({h[u].context : u \in Topics} \ {0}) \cup {y[2] : y \in W \ {x}}
  <2>1. \A c \in {h[u].context : u \in Topics} : c # x[2]
    BY <1>1
  <2>2. \A y \in W \ {x} : y[2] # x[2]
    BY <1>1
  <2>3. \A c \in {y[2] : y \in W} : c # x[2] => c \in {y[2] : y \in W \ {x}}
    OBVIOUS
  <2> QED
    BY <1>1, <2>1, <2>2, <2>3
<1>3. x[2] \in mem
  BY <1>1
<1> QED
  BY <1>1, <1>2, <1>3 DEF OwnSets

\* The broker answers a request.
LEMMA SetsAnswered ==
  ASSUME NEW h, NEW n, NEW W, NEW R, NEW A, NEW mem, OwnSets(h, n, W, R, A, mem), NEW x \in R
  PROVE  /\ OwnSets(h, n, W, R \ {x}, A \cup {x}, mem)
         /\ \A y \in A : y[2] # x[2]
BY DEF OwnSets

\* Contexts are counted; what is on its way is lost.
LEMMA SetsMore ==
  ASSUME NEW h \in Handles, NEW n \in Nat, NEW W, NEW R, NEW A, NEW mem, OwnSets(h, n, W, R, A, mem)
  PROVE  OwnSets(h, n + 1, W, R, A, mem) /\ OwnSets(h, n, W, {}, {}, mem)
<1>1. \A u \in Topics : h[u].context \in Nat
  BY ServicesAssumption DEF Handles, Handle
<1> QED
  BY <1>1 DEF OwnSets

\* Every context has one owner, and nothing that was released has been used.
OwnInv ==
    /\ Once(waiting, "UNSUBSCRIBE") /\ Once(requests, "UNSUBSCRIBE") /\ Once(inbox, "UNSUBACK")
    /\ OwnSets(sub_handles, allocs, Pairs(waiting, "UNSUBSCRIBE"), Pairs(requests, "UNSUBSCRIBE"),
               Pairs(inbox, "UNSUBACK"), heap)
    /\ ~misused

LEMMA OwnTypes ==
  ASSUME TypeInv
  PROVE  /\ sub_handles \in Handles /\ allocs \in Nat /\ allocs + 1 \in Nat
         /\ waiting \in Seq(Node) /\ requests \in Seq(Request) /\ inbox \in Seq(Arrival)
BY ServicesAssumption DEF TypeInv, Handles

\* A step that leaves alone all that contexts are about.
LEMMA OwnUntouched ==
  ASSUME TypeInv, OwnInv, sub_handles' = sub_handles, waiting' = waiting, heap' = heap, ~misused',
         allocs' = allocs \/ allocs' = allocs + 1,
         Once(requests', "UNSUBSCRIBE"), Once(inbox', "UNSUBACK"),
         Pairs(requests', "UNSUBSCRIBE") = Pairs(requests, "UNSUBSCRIBE"),
         Pairs(inbox', "UNSUBACK") = Pairs(inbox, "UNSUBACK")
  PROVE  OwnInv'
<1> DEFINE W == Pairs(waiting, "UNSUBSCRIBE")
           R == Pairs(requests, "UNSUBSCRIBE")
           A == Pairs(inbox, "UNSUBACK")
<1>1. OwnSets(sub_handles, allocs, W, R, A, heap) /\ sub_handles \in Handles /\ allocs \in Nat
  BY OwnTypes DEF OwnInv
<1>2. OwnSets(sub_handles, allocs + 1, W, R, A, heap)
  BY <1>1, SetsMore
<1>3. OwnSets(sub_handles', allocs', W, R, A, heap')
  BY <1>1, <1>2
<1> QED
  BY <1>3 DEF OwnInv

\* The context of a handle is allocated.
LEMMA HandleAllocated ==
  ASSUME OwnInv, NEW t \in Topics
  PROVE  sub_handles[t].context \in heap \cup {0}
BY DEF OwnInv, OwnSets

\* A topic is checked, and subscribed.
LEMMA OwnCheck ==
  ASSUME TypeInv, OwnInv, NEW t \in Topics, CheckAndSub(t)
  PROVE  OwnInv'
<1> DEFINE c == allocs + 1
           m == [type |-> "SUBSCRIBE", topic |-> t, context |-> c, sent |-> now]
           w == [type |-> "SUBSCRIBE", topic |-> t, context |-> c]
<1>1. allocs' = c /\ c \in Contexts /\ inbox' = inbox
  BY CheckIs
<1>2. CASE UNCHANGED <<sub_handles, waiting, heap, requests, misused>>
  BY <1>1, <1>2, OwnUntouched DEF OwnInv
<1>3. CASE Subscribe(t, c)
  <2>1. m \in Request /\ m.type # "UNSUBSCRIBE" /\ w \in Node /\ w.type # "UNSUBSCRIBE"
    BY <1>1, ServicesAssumption DEF Request, Node, Contexts, TypeInv
  <2>2. /\ requests' = Append(requests, m) /\ waiting' = Append(waiting, w)
        /\ heap' = (heap \ {sub_handles[t].context}) \cup {c}
        /\ misused' = (misused \/ sub_handles[t].context \notin heap \cup {0})
    BY <1>3 DEF Subscribe
  <2>3. \A u \in Topics : sub_handles'[u].context = IF u = t THEN c ELSE sub_handles[u].context
    BY <1>3 DEF Subscribe, TypeInv
  <2> HIDE DEF m, w
  <2>4. /\ Pairs(requests', "UNSUBSCRIBE") = Pairs(requests, "UNSUBSCRIBE") /\ Once(requests', "UNSUBSCRIBE")
    BY <2>1, <2>2, OwnTypes, PairsAppended DEF OwnInv
  <2>5. /\ Pairs(waiting', "UNSUBSCRIBE") = Pairs(waiting, "UNSUBSCRIBE") /\ Once(waiting', "UNSUBSCRIBE")
    BY <2>1, <2>2, OwnTypes, PairsAppended DEF OwnInv
  <2> DEFINE W == Pairs(waiting, "UNSUBSCRIBE")
             R == Pairs(requests, "UNSUBSCRIBE")
             A == Pairs(inbox, "UNSUBACK")
  <2>6. OwnSets(sub_handles, allocs, W, R, A, heap) /\ sub_handles \in Handles /\ allocs \in Nat
    BY OwnTypes DEF OwnInv
  <2> HIDE DEF W, R, A
  <2>7. /\ OwnSets(sub_handles', c, W, R, A, heap')
        /\ sub_handles[t].context \in heap \cup {0}
    BY <2>2, <2>3, <2>6, SetsSubscribe
  <2>8. ~misused'
    BY <2>2, <2>7 DEF OwnInv
  <2> QED
    BY <1>1, <2>4, <2>5, <2>7, <2>8 DEF OwnInv, W, R, A
<1> QED
  BY <1>2, <1>3, CheckIs

\* An unsubscription asks once for each topic that is held.
LEMMA AskedPairs ==
  ASSUME TypeInv, OwnInv, NEW S \in SUBSET Topics, NEW q \in {Asked(S), Asking(S)}
  PROVE  Once(q, "UNSUBSCRIBE") /\ Pairs(q, "UNSUBSCRIBE") = Taken(sub_handles, S)
<1>1. /\ DOMAIN q = DOMAIN Held(S)
      /\ \A k \in DOMAIN Held(S) : /\ q[k].type = "UNSUBSCRIBE" /\ q[k].topic = Held(S)[k]
                                   /\ q[k].context = sub_handles[Held(S)[k]].context
  BY DEF Asked, Asking
<1>2. /\ \A i \in DOMAIN Held(S) : Held(S)[i] \in S /\ sub_handles[Held(S)[i]].context \in Contexts
      /\ \A t \in S : sub_handles[t].context # 0 => \E i \in DOMAIN Held(S) : Held(S)[i] = t
      /\ \A i, j \in DOMAIN Held(S) : Held(S)[i] = Held(S)[j] => i = j
  BY HeldFacts
<1>3. Nodes(q, "UNSUBSCRIBE") = DOMAIN Held(S)
  BY <1>1 DEF Nodes
<1>4. \A t, u \in Topics : sub_handles[t].context = sub_handles[u].context /\ sub_handles[t].context # 0 => t = u
  BY DEF OwnInv, OwnSets
<1>5. \A c \in Contexts : c # 0
  BY ServicesAssumption DEF Contexts
<1>6. Once(q, "UNSUBSCRIBE")
  <2>1. SUFFICES ASSUME NEW i \in DOMAIN Held(S), NEW j \in DOMAIN Held(S), q[i].context = q[j].context
                 PROVE  i = j
    BY <1>3 DEF Once
  <2>2. sub_handles[Held(S)[i]].context = sub_handles[Held(S)[j]].context /\ sub_handles[Held(S)[i]].context # 0
    BY <1>1, <1>2, <1>5, <2>1
  <2>3. Held(S)[i] = Held(S)[j]
    BY <1>2, <1>4, <2>2
  <2> QED
    BY <1>2, <2>3
<1>7. Pairs(q, "UNSUBSCRIBE") = Taken(sub_handles, S)
  <2>1. ASSUME NEW k \in DOMAIN Held(S)
        PROVE  <<q[k].topic, q[k].context>> \in Taken(sub_handles, S)
    BY <1>1, <1>2, <1>5 DEF Taken
  <2>2. ASSUME NEW t \in S, sub_handles[t].context # 0
        PROVE  <<t, sub_handles[t].context>> \in Pairs(q, "UNSUBSCRIBE")
    <3>1. PICK i \in DOMAIN Held(S) : Held(S)[i] = t
      BY <1>2, <2>2
    <3>2. <<q[i].topic, q[i].context>> = <<t, sub_handles[t].context>>
      BY <1>1, <3>1
    <3> QED
      BY <1>3, <3>2 DEF Pairs
  <2> QED
    BY <1>3, <2>1, <2>2 DEF Pairs, Taken
<1> QED
  BY <1>6, <1>7

\* Topics are given up: their contexts go to the nodes.
LEMMA OwnUnsubscribe ==
  ASSUME TypeInv, OwnInv, NEW S \in SUBSET Topics, Unsubscribe(S),
         heap' = heap, allocs' = allocs, inbox' = inbox, ~misused'
  PROVE  OwnInv'
<1> DEFINE W == Pairs(waiting, "UNSUBSCRIBE")
           R == Pairs(requests, "UNSUBSCRIBE")
           A == Pairs(inbox, "UNSUBACK")
           P == Taken(sub_handles, S)
<1>1. /\ waiting' = waiting \o Asked(S) /\ Asked(S) \in Seq(Node)
      /\ requests' = requests \o Asking(S) /\ Asking(S) \in Seq(Request)
      /\ waiting \in Seq(Node) /\ requests \in Seq(Request)
      /\ \A t \in Topics : sub_handles'[t] = IF t \in S THEN NoHandle ELSE sub_handles[t]
  BY UnsubscribeIs, OwnTypes
<1>2. /\ Once(Asked(S), "UNSUBSCRIBE") /\ Pairs(Asked(S), "UNSUBSCRIBE") = P
      /\ Once(Asking(S), "UNSUBSCRIBE") /\ Pairs(Asking(S), "UNSUBSCRIBE") = P
  BY AskedPairs
<1>3. \A t \in Topics : sub_handles'[t].context = IF t \in S THEN 0 ELSE sub_handles[t].context
  BY <1>1 DEF NoHandle
<1>4. OwnSets(sub_handles, allocs, W, R, A, heap) /\ sub_handles \in Handles /\ allocs \in Nat
  BY OwnTypes DEF OwnInv
<1> HIDE DEF W, R, A
<1>5. /\ OwnSets(sub_handles', allocs, W \cup P, R \cup P, A, heap)
      /\ \A x \in W, y \in P : x[2] # y[2]
  <2>1. OwnSets(sub_handles', allocs, W \cup Taken(sub_handles, S), R \cup Taken(sub_handles, S), A, heap)
    BY <1>3, <1>4, SetsUnsubscribe
  <2>2. \A x \in W, y \in Taken(sub_handles, S) : x[2] # y[2]
    BY <1>3, <1>4, SetsUnsubscribe
  <2> QED
    BY <2>1, <2>2
<1>6. R \subseteq W
  BY <1>4 DEF OwnSets
<1> HIDE DEF P
<1>7. Pairs(waiting', "UNSUBSCRIBE") = W \cup P /\ Once(waiting', "UNSUBSCRIBE")
  <2>1. Pairs(waiting', "UNSUBSCRIBE") = W \cup P
    BY <1>1, <1>2, PairsJoined DEF W
  <2>2. \A x \in Pairs(waiting, "UNSUBSCRIBE"), y \in Pairs(Asked(S), "UNSUBSCRIBE") : x[2] # y[2]
    BY <1>2, <1>5 DEF W
  <2>3. Once(waiting, "UNSUBSCRIBE")
    BY DEF OwnInv
  <2> QED
    BY <1>1, <1>2, <2>1, <2>2, <2>3, PairsJoined
<1>8. Pairs(requests', "UNSUBSCRIBE") = R \cup P /\ Once(requests', "UNSUBSCRIBE")
  <2>1. Pairs(requests', "UNSUBSCRIBE") = R \cup P
    BY <1>1, <1>2, PairsJoined DEF R
  <2>2. \A x \in Pairs(requests, "UNSUBSCRIBE"), y \in Pairs(Asking(S), "UNSUBSCRIBE") : x[2] # y[2]
    BY <1>2, <1>5, <1>6 DEF R
  <2>3. Once(requests, "UNSUBSCRIBE")
    BY DEF OwnInv
  <2> QED
    BY <1>1, <1>2, <2>1, <2>2, <2>3, PairsJoined
<1> QED
  BY <1>5, <1>7, <1>8 DEF OwnInv, A

\* A SUBACK is read: a node that waits for it goes, which owns nothing.
LEMMA OwnSuback ==
  ASSUME TypeInv, OwnInv, ReadSuback
  PROVE  OwnInv'
<1> DEFINE p == Head(inbox)
           W == Pairs(waiting, "UNSUBSCRIBE")
           R == Pairs(requests, "UNSUBSCRIBE")
           A == Pairs(inbox, "UNSUBACK")
           e == [type |-> "SUBSCRIBE", topic |-> p.topic, context |-> p.context]
<1>1. /\ inbox # <<>> /\ p.type = "SUBACK" /\ inbox' = Tail(inbox) /\ requests' = requests /\ allocs' = allocs
      /\ heap' = heap /\ misused' = misused /\ waiting' = Answered(p, "SUBSCRIBE")
      /\ inbox \in Seq(Arrival) /\ waiting \in Seq(Node)
  BY ReadsIs DEF ReadSuback, TypeInv
<1>2. Pairs(inbox', "UNSUBACK") = A /\ Once(inbox', "UNSUBACK")
  BY <1>1, PairsTail DEF OwnInv
<1>3. Pairs(waiting', "UNSUBSCRIBE") = W /\ Once(waiting', "UNSUBSCRIBE")
  <2>1. Once(waiting, "UNSUBSCRIBE") /\ e.type # "UNSUBSCRIBE"
    BY DEF OwnInv
  <2>2. waiting' = waiting \/ \E k \in 1..Len(waiting) : waiting[k] = e /\ waiting' = RemoveAt(waiting, k)
    BY <1>1, AnsweredIs
  <2> HIDE DEF e
  <2>3. CASE waiting' = waiting
    BY <2>1, <2>3
  <2>4. ASSUME NEW k \in 1..Len(waiting), waiting[k] = e, waiting' = RemoveAt(waiting, k)
        PROVE  Pairs(waiting', "UNSUBSCRIBE") = W /\ Once(waiting', "UNSUBSCRIBE")
    <3>1. waiting[k].type # "UNSUBSCRIBE"
      BY <2>1, <2>4
    <3> QED
      BY <1>1, <2>1, <2>4, <3>1, PairsRemoved
  <2> QED
    BY <2>2, <2>3, <2>4
<1>4. OwnSets(sub_handles, allocs, W, R, A, heap) /\ sub_handles \in Handles /\ allocs \in Nat
  BY OwnTypes DEF OwnInv
<1> HIDE DEF W, R, A
<1>5. \A t \in Topics : sub_handles'[t].context = sub_handles[t].context
  BY DEF ReadSuback, TypeInv, Handle
<1>6. OwnSets(sub_handles', allocs, W, R, A, heap)
  BY <1>4, <1>5 DEF OwnSets
<1> QED
  BY <1>1, <1>2, <1>3, <1>6 DEF OwnInv, W, R, A

\* An UNSUBACK is read: the context of its node is released, once.
LEMMA OwnUnsuback ==
  ASSUME TypeInv, OwnInv, ReadUnsuback
  PROVE  OwnInv'
<1> DEFINE p == Head(inbox)
           x == <<p.topic, p.context>>
           W == Pairs(waiting, "UNSUBSCRIBE")
           R == Pairs(requests, "UNSUBSCRIBE")
           A == Pairs(inbox, "UNSUBACK")
           e == [type |-> "UNSUBSCRIBE", topic |-> p.topic, context |-> p.context]
<1>1. /\ inbox # <<>> /\ p.type = "UNSUBACK" /\ inbox' = Tail(inbox) /\ requests' = requests /\ allocs' = allocs
      /\ sub_handles' = sub_handles
      /\ heap' = heap \ {p.context} /\ misused' = (misused \/ p.context \notin heap)
      /\ waiting' = Answered(p, "UNSUBSCRIBE")
      /\ inbox \in Seq(Arrival) /\ waiting \in Seq(Node)
  BY ReadsIs DEF ReadUnsuback, Releases, TypeInv
<1>2. Once(inbox, "UNSUBACK") /\ Once(waiting, "UNSUBSCRIBE") /\ Once(requests, "UNSUBSCRIBE") /\ ~misused
  BY DEF OwnInv
<1>3. Pairs(inbox', "UNSUBACK") = A \ {x} /\ Once(inbox', "UNSUBACK") /\ x \in A
  BY <1>1, <1>2, PairsTail
<1>4. OwnSets(sub_handles, allocs, W, R, A, heap) /\ sub_handles \in Handles /\ allocs \in Nat
  BY OwnTypes DEF OwnInv
<1>5. x \in W /\ x \notin R
  <2> HIDE DEF W, R, A, x
  <2> QED
    BY <1>3, <1>4 DEF OwnSets
<1>6. PICK k \in 1..Len(waiting) : waiting[k] = e /\ waiting' = RemoveAt(waiting, k)
  <2>1. PICK k \in Nodes(waiting, "UNSUBSCRIBE") : x = <<waiting[k].topic, waiting[k].context>>
    BY <1>5 DEF Pairs
  <2>2. k \in 1..Len(waiting) /\ waiting[k] \in Node /\ waiting[k].type = "UNSUBSCRIBE"
        /\ waiting[k].topic = p.topic /\ waiting[k].context = p.context
    BY <1>1, <2>1, LenProperties DEF Nodes
  <2>3. waiting[k] = e
    BY <2>2 DEF Node
  <2> QED
    BY <1>1, <2>2, <2>3, AnsweredIs
<1>7. waiting[k].type = "UNSUBSCRIBE" /\ x = <<waiting[k].topic, waiting[k].context>>
  BY <1>6
<1>8. Pairs(waiting', "UNSUBSCRIBE") = W \ {x} /\ Once(waiting', "UNSUBSCRIBE")
  <2>1. Once(RemoveAt(waiting, k), "UNSUBSCRIBE")
    BY <1>1, <1>2, <1>6, PairsRemoved
  <2>2. Pairs(RemoveAt(waiting, k), "UNSUBSCRIBE") = W \ {<<waiting[k].topic, waiting[k].context>>}
    BY <1>1, <1>2, <1>6, <1>7, PairsRemoved
  <2> HIDE DEF W, R, A, x
  <2> QED
    BY <1>6, <1>7, <2>1, <2>2
<1>9. x[2] = p.context
  OBVIOUS
<1> HIDE DEF W, R, A, x
<1>10. OwnSets(sub_handles, allocs, W \ {x}, R, A \ {x}, heap \ {p.context}) /\ p.context \in heap
  <2>1. OwnSets(sub_handles, allocs, W \ {x}, R, A \ {x}, heap \ {x[2]})
    BY <1>4, <1>5, SetsReleased
  <2>2. x[2] \in heap
    BY <1>4, <1>5, SetsReleased
  <2> QED
    BY <1>9, <2>1, <2>2
<1>11. Pairs(requests', "UNSUBSCRIBE") = R
  BY <1>1 DEF R
<1> QED
  BY <1>1, <1>2, <1>3, <1>8, <1>10, <1>11 DEF OwnInv

\* A node whose UNSUBSCRIBE went with the connection is given up.
LEMMA OwnExpires ==
  ASSUME TypeInv, OwnInv, UnsubExpires
  PROVE  OwnInv'
<1> DEFINE W == Pairs(waiting, "UNSUBSCRIBE")
           R == Pairs(requests, "UNSUBSCRIBE")
           A == Pairs(inbox, "UNSUBACK")
<1>1. /\ requests' = requests /\ inbox' = inbox /\ sub_handles' = sub_handles /\ allocs' = allocs
      /\ waiting \in Seq(Node)
  BY DEF UnsubExpires, network, TypeInv
<1>2. PICK k \in DOMAIN waiting :
         /\ waiting[k].type = "UNSUBSCRIBE"
         /\ \A i \in DOMAIN requests : requests[i].context # waiting[k].context
         /\ \A i \in DOMAIN inbox : inbox[i].context # waiting[k].context
         /\ waiting' = RemoveAt(waiting, k)
         /\ heap' = heap \ {waiting[k].context}
         /\ misused' = (misused \/ waiting[k].context \notin heap)
  BY DEF UnsubExpires
<1> DEFINE x == <<waiting[k].topic, waiting[k].context>>
<1>3. k \in 1..Len(waiting)
  BY <1>1, LenProperties
<1>4. Once(inbox, "UNSUBACK") /\ Once(waiting, "UNSUBSCRIBE") /\ Once(requests, "UNSUBSCRIBE") /\ ~misused
  BY DEF OwnInv
<1>5. x \in W
  BY <1>2 DEF Pairs, Nodes
<1>6. x \notin R
  <2>1. \A y \in R : \E i \in DOMAIN requests : y = <<requests[i].topic, requests[i].context>>
    BY DEF Pairs, Nodes
  <2> QED
    BY <1>2, <2>1
<1>7. x \notin A
  <2>1. \A y \in A : \E i \in DOMAIN inbox : y = <<inbox[i].topic, inbox[i].context>>
    BY DEF Pairs, Nodes
  <2> QED
    BY <1>2, <2>1
<1>8. Pairs(waiting', "UNSUBSCRIBE") = W \ {x} /\ Once(waiting', "UNSUBSCRIBE")
  BY <1>1, <1>2, <1>3, <1>4, PairsRemoved
<1>9. OwnSets(sub_handles, allocs, W, R, A, heap) /\ sub_handles \in Handles /\ allocs \in Nat
  BY OwnTypes DEF OwnInv
<1>10. x[2] = waiting[k].context
  OBVIOUS
<1> HIDE DEF W, R, A, x
<1>11. OwnSets(sub_handles, allocs, W \ {x}, R, A \ {x}, heap \ {x[2]}) /\ x[2] \in heap
  BY <1>5, <1>6, <1>9, SetsReleased
<1>12. A \ {x} = A
  BY <1>7
<1>13. Pairs(requests', "UNSUBSCRIBE") = R /\ Pairs(inbox', "UNSUBACK") = A
  BY <1>1 DEF R, A
<1> QED
  BY <1>1, <1>2, <1>4, <1>8, <1>10, <1>11, <1>12, <1>13 DEF OwnInv

\* What was on its way is lost with the connection.
LEMMA OwnReconnect ==
  ASSUME TypeInv, OwnInv, Reconnect
  PROVE  OwnInv'
<1>1. /\ requests' = [k \in DOMAIN Held(Topics) |-> [type |-> "RESUBSCRIBE", topic |-> Held(Topics)[k], context |-> 0, sent |-> now]]
      /\ inbox' = <<>> /\ sub_handles' = sub_handles /\ waiting' = waiting /\ heap' = heap /\ allocs' = allocs
      /\ misused' = misused
  BY DEF Reconnect, Held, table, memory
<1>2. Nodes(requests', "UNSUBSCRIBE") = {} /\ Nodes(inbox', "UNSUBACK") = {}
  BY <1>1 DEF Nodes
<1>3. /\ Pairs(requests', "UNSUBSCRIBE") = {} /\ Once(requests', "UNSUBSCRIBE")
      /\ Pairs(inbox', "UNSUBACK") = {} /\ Once(inbox', "UNSUBACK")
  BY <1>2 DEF Pairs, Once
<1> DEFINE W == Pairs(waiting, "UNSUBSCRIBE")
           R == Pairs(requests, "UNSUBSCRIBE")
           A == Pairs(inbox, "UNSUBACK")
<1>4. OwnSets(sub_handles, allocs, W, R, A, heap) /\ sub_handles \in Handles /\ allocs \in Nat
  BY OwnTypes DEF OwnInv
<1> HIDE DEF R, A
<1>5. OwnSets(sub_handles, allocs, W, {}, {}, heap)
  BY <1>4, SetsMore
<1> QED
  BY <1>1, <1>3, <1>5 DEF OwnInv

\* A request becomes its answer.
LEMMA OwnBroker ==
  ASSUME TypeInv, OwnInv, Broker
  PROVE  OwnInv'
<1> DEFINE r == Head(requests)
           x == <<r.topic, r.context>>
           W == Pairs(waiting, "UNSUBSCRIBE")
           R == Pairs(requests, "UNSUBSCRIBE")
           A == Pairs(inbox, "UNSUBACK")
           u == Packet("UNSUBACK", r.topic, r.context, <<>>, TRUE)
           s == Packet("SUBACK", r.topic, r.context, <<>>, TRUE)
<1>1. /\ requests # <<>> /\ r \in Request /\ requests' = Tail(requests)
      /\ UNCHANGED <<sub_handles, waiting, heap, allocs, misused>>
      /\ requests \in Seq(Request) /\ inbox \in Seq(Arrival)
  BY BrokerIs, OwnTypes
<1>2. Once(inbox, "UNSUBACK") /\ Once(waiting, "UNSUBSCRIBE") /\ Once(requests, "UNSUBSCRIBE") /\ ~misused
  BY DEF OwnInv
<1>3. /\ Once(requests', "UNSUBSCRIBE")
      /\ r.type # "UNSUBSCRIBE" => Pairs(requests', "UNSUBSCRIBE") = R
      /\ r.type = "UNSUBSCRIBE" => Pairs(requests', "UNSUBSCRIBE") = R \ {x} /\ x \in R
  BY <1>1, <1>2, PairsTail
<1>4. u \in Arrival /\ s \in Arrival
  <2>1. <<>> \in Methods
    BY DEF Methods
  <2> QED
    BY <1>1, <2>1 DEF Packet, Arrival, Request
<1>5. u.type = "UNSUBACK" /\ u.topic = r.topic /\ u.context = r.context /\ s.type = "SUBACK"
  BY DEF Packet
<1> HIDE DEF u, s
<1>6. CASE r.type # "UNSUBSCRIBE"
  <2>1. inbox' = inbox \/ inbox' = Append(inbox, s)
    BY <1>6, BrokerIs DEF s
  <2>2. Pairs(Append(inbox, s), "UNSUBACK") = A /\ Once(Append(inbox, s), "UNSUBACK")
    BY <1>1, <1>2, <1>4, <1>5, PairsAppended
  <2>3. Pairs(inbox', "UNSUBACK") = A /\ Once(inbox', "UNSUBACK")
    BY <1>2, <2>1, <2>2
  <2> QED
    BY <1>1, <1>2, <1>3, <1>6, <2>3, OwnUntouched
<1>7. CASE r.type = "UNSUBSCRIBE"
  <2>1. inbox' = Append(inbox, u)
    BY <1>7, BrokerIs DEF u
  <2>2. OwnSets(sub_handles, allocs, W, R, A, heap) /\ sub_handles \in Handles /\ allocs \in Nat
    BY OwnTypes DEF OwnInv
  <2>3. x[2] = r.context
    OBVIOUS
  <2>4. OwnSets(sub_handles, allocs, W, R \ {x}, A \cup {x}, heap) /\ \A y \in A : y[2] # r.context
    <3> HIDE DEF W, R, A, x
    <3> QED
      BY <1>3, <1>7, <2>2, <2>3, SetsAnswered
  <2>5. Pairs(inbox', "UNSUBACK") = A \cup {x} /\ Once(inbox', "UNSUBACK")
    <3>1. <<u.topic, u.context>> = x /\ \A y \in Pairs(inbox, "UNSUBACK") : y[2] # u.context
      BY <1>5, <2>4
    <3>2. Pairs(Append(inbox, u), "UNSUBACK") = Pairs(inbox, "UNSUBACK") \cup {<<u.topic, u.context>>}
      BY <1>1, <1>2, <1>4, <1>5, PairsAppended
    <3>3. Once(Append(inbox, u), "UNSUBACK")
      BY <1>1, <1>2, <1>4, <1>5, <3>1, PairsAppended
    <3> QED
      BY <2>1, <3>1, <3>2, <3>3
  <2> HIDE DEF W, R, A, x
  <2>6. Pairs(waiting', "UNSUBSCRIBE") = W
    BY <1>1 DEF W
  <2> QED
    BY <1>1, <1>2, <1>3, <1>7, <2>4, <2>5, <2>6 DEF OwnInv
<1> QED
  BY <1>6, <1>7

\* A step that leaves alone all that contexts are about, and what is on its way.
LEMMA OwnSame ==
  ASSUME TypeInv, OwnInv, ~misused',
         UNCHANGED <<sub_handles, waiting, heap, allocs, requests, inbox>>
  PROVE  OwnInv'
BY OwnUntouched DEF OwnInv

\* Every step keeps each context with its owner.
LEMMA OwnStep ==
  ASSUME TypeInv, CallInv, OwnInv, [Next]_vars
  PROVE  OwnInv'
<1> DEFINE Table == UNCHANGED <<sub_handles, waiting, heap, allocs>>
<1>1. ~misused
  BY DEF OwnInv
<1>2. CASE \/ service_mqtt_topic_check_and_sub \/ system_mqtt_result_topic_check_and_sub
           \/ ota_mqtt_update_topic_check_and_sub \/ broadcast_check_and_sub \/ data_template_topic_check_and_sub
  <2>1. \E t \in Topics : CheckAndSub(t)
    BY <1>2, AllTopics DEF service_mqtt_topic_check_and_sub, system_mqtt_result_topic_check_and_sub,
         ota_mqtt_update_topic_check_and_sub, broadcast_check_and_sub, data_template_topic_check_and_sub
  <2> QED
    BY <2>1, OwnCheck
<1>3. CASE (\E api \in apis : Call(api)) \/ MallocFails \/ InitReturns
  <2>1. Table /\ requests' = requests /\ inbox' = inbox /\ misused' = misused
    BY <1>3 DEF Call, MallocFails, InitReturns, table, memory, network
  <2> QED
    BY <1>1, <2>1, OwnSame
<1>4. CASE service_mqtt_service_register
  <2> DEFINE c == IOT_MQTT_GetSubUsrData("service")
  <2>1. call.step = "check" /\ call.todo = <<>> /\ call.api = "IOT_FileManage_Init"
    BY <1>4 DEF service_mqtt_service_register, Subscribed
  <2>2. Head(TopicsOf[call.api]) = "service" /\ TopicsOf[call.api] # <<>>
    BY <2>1, TopicFacts
  <2>3. c # 0
    BY <2>1, <2>2 DEF CallInv, IOT_MQTT_GetSubUsrData
  <2>4. c \in heap
    BY <2>3, HandleAllocated, AllTopics DEF IOT_MQTT_GetSubUsrData
  <2>5. ~misused'
    BY <1>1, <1>4, <2>4 DEF service_mqtt_service_register
  <2> QED
    BY <1>4, <2>5, OwnSame DEF service_mqtt_service_register, table, memory, network
<1>5. CASE PublishTime
  <2> DEFINE c == IOT_MQTT_GetSubUsrData("result")
             m == [type |-> "TIME", topic |-> "result", context |-> 0, sent |-> now]
  <2>1. call.step = "check" /\ call.todo = <<>> /\ call.api \in {"IOT_Sys_GetTime", "IOT_Sys_SyncNTPTime"}
    BY <1>5 DEF PublishTime, Subscribed
  <2>2. Head(TopicsOf[call.api]) = "result" /\ TopicsOf[call.api] # <<>>
    BY <2>1, TopicFacts
  <2>3. c # 0
    BY <2>1, <2>2 DEF CallInv, IOT_MQTT_GetSubUsrData
  <2>4. c \in heap
    BY <2>3, HandleAllocated, AllTopics DEF IOT_MQTT_GetSubUsrData
  <2>5. ~misused' /\ Table /\ inbox' = inbox
    BY <1>1, <1>5, <2>4 DEF PublishTime, table, memory
  <2>6. requests' = Append(requests, m) /\ requests \in Seq(Request)
    BY <1>5 DEF PublishTime, TypeInv
  <2>7. m \in Request /\ m.type # "UNSUBSCRIBE"
    BY AllTopics, ServicesAssumption DEF Request, TypeInv
  <2> HIDE DEF m, c
  <2>8. Once(requests, "UNSUBSCRIBE") /\ Once(inbox, "UNSUBACK")
    BY DEF OwnInv
  <2>9. Pairs(Append(requests, m), "UNSUBSCRIBE") = Pairs(requests, "UNSUBSCRIBE")
        /\ Once(Append(requests, m), "UNSUBSCRIBE")
    BY <2>6, <2>7, <2>8, PairsAppended
  <2> QED
    BY <2>5, <2>6, <2>8, <2>9, OwnUntouched
<1>6. CASE IOT_FileManage_Deinit
  <2> DEFINE c == IOT_MQTT_GetSubUsrData("service")
  <2>1. c \in heap
    BY <1>6, HandleAllocated, AllTopics DEF IOT_FileManage_Deinit, IOT_MQTT_GetSubUsrData
  <2>2. ~misused' /\ heap' = heap /\ allocs' = allocs /\ inbox' = inbox
    BY <1>1, <1>6, <2>1 DEF IOT_FileManage_Deinit, memory
  <2>3. CASE Unsubscribe({"service"})
    BY <2>2, <2>3, OwnUnsubscribe, AllTopics
  <2>4. CASE UNCHANGED <<table, requests>>
    BY <2>2, <2>4, OwnSame DEF table
  <2> QED
    BY <1>6, <2>3, <2>4 DEF IOT_FileManage_Deinit, service_mqtt_deinit
<1>7. ASSUME NEW api \in APIs, Deinit(api)
      PROVE  OwnInv'
  <2> DEFINE S == ToSet(TopicsOf[api])
  <2>1. S \in SUBSET Topics
    BY DEF Topics, APIs
  <2>2. heap' = heap /\ allocs' = allocs /\ inbox' = inbox /\ ~misused' /\ Unsubscribe(S)
    BY <1>1, <1>7 DEF Deinit, memory
  <2> HIDE DEF S
  <2> QED
    BY <2>1, <2>2, OwnUnsubscribe
<1>8. CASE IOT_Broadcast_Deinit \/ IOT_OTA_Deinit \/ IOT_DataTemplate_Deinit
  BY <1>7, <1>8, TopicFacts DEF IOT_Broadcast_Deinit, IOT_OTA_Deinit, IOT_DataTemplate_Deinit
<1>9. CASE YieldIdle \/ YieldSubscribe \/ YieldWait \/ WaitReturns
  <2>1. Elapses
    BY <1>9 DEF YieldIdle, YieldSubscribe, YieldWait, WaitReturns
  <2> QED
    BY <1>1, <2>1, OwnSame DEF Elapses, table, memory
<1>10. ASSUME NEW r \in replies, TakeTime(r)
       PROVE  OwnInv'
  <2>1. IOT_MQTT_GetSubUsrData("result") \in heap \cup {0}
    BY HandleAllocated, AllTopics DEF IOT_MQTT_GetSubUsrData
  <2>2. ~misused'
    BY <1>1, <1>10, <2>1 DEF TakeTime
  <2> QED
    BY <1>10, <2>2, OwnSame DEF TakeTime, table, memory
<1>11. CASE ReadMessage
  <2> DEFINE p == Head(inbox)
  <2>1. /\ inbox # <<>> /\ p \in Arrival /\ p.type = "MESSAGE" /\ inbox' = Tail(inbox)
        /\ inbox \in Seq(Arrival) /\ requests' = requests /\ Table
    BY <1>11, ReadsIs DEF ReadMessage, TypeInv, table
  <2>2. IOT_MQTT_GetSubUsrData(p.topic) \in heap \cup {0}
    BY <2>1, HandleAllocated DEF IOT_MQTT_GetSubUsrData, Arrival
  <2>3. ~misused'
    BY <1>1, <1>11, <2>2 DEF ReadMessage
  <2>4. Once(requests, "UNSUBSCRIBE") /\ Once(inbox, "UNSUBACK")
    BY DEF OwnInv
  <2>5. Pairs(inbox', "UNSUBACK") = Pairs(inbox, "UNSUBACK") /\ Once(inbox', "UNSUBACK")
    BY <2>1, <2>4, PairsTail
  <2> QED
    BY <2>1, <2>3, <2>4, <2>5, OwnUntouched
<1>12. ASSUME NEW t \in DOMAIN Sent, NEW complete \in BOOLEAN, NEW m \in Sent[t], BrokerSends(t, m, complete)
       PROVE  OwnInv'
  <2> DEFINE p == Packet("MESSAGE", t, 0, m, complete)
  <2>1. inbox' = Append(inbox, p) /\ inbox \in Seq(Arrival) /\ requests' = requests /\ Table /\ ~misused'
    BY <1>1, <1>12 DEF BrokerSends, TypeInv, table, memory
  <2>2. p \in Arrival /\ p.type # "UNSUBACK"
    BY <1>12, ServicesAssumption DEF BrokerSends, TypeInv, Packet, Arrival, Methods
  <2> HIDE DEF p
  <2>3. Once(requests, "UNSUBSCRIBE") /\ Once(inbox, "UNSUBACK")
    BY DEF OwnInv
  <2>4. Pairs(Append(inbox, p), "UNSUBACK") = Pairs(inbox, "UNSUBACK") /\ Once(Append(inbox, p), "UNSUBACK")
    BY <2>1, <2>2, <2>3, PairsAppended
  <2> QED
    BY <2>1, <2>3, <2>4, OwnUntouched
<1>13. CASE UNCHANGED vars
  BY <1>1, <1>13, OwnSame DEF vars, table, memory, network
<1> QED
  BY <1>2, <1>3, <1>4, <1>5, <1>6, <1>8, <1>9, <1>10, <1>11, <1>12, <1>13, OwnSuback, OwnUnsuback, OwnExpires,
     OwnReconnect, OwnBroker DEF Next, Application, Yield, Environment

LEMMA OwnInit == Init => OwnInv
<1> SUFFICES ASSUME Init
             PROVE  OwnInv
  OBVIOUS
<1>1. waiting = <<>> /\ requests = <<>> /\ inbox = <<>> /\ heap = {} /\ allocs = 0 /\ ~misused
      /\ \A t \in Topics : sub_handles[t].context = 0
  BY DEF Init, NoHandle
<1>2. \A type : Nodes(<<>>, type) = {}
  BY DEF Nodes
<1>3. \A type : Once(<<>>, type) /\ Pairs(<<>>, type) = {}
  BY <1>2 DEF Once, Pairs
<1>4. OwnSets(sub_handles, 0, {}, {}, {}, {})
  BY <1>1 DEF OwnSets
<1> QED
  BY <1>1, <1>3, <1>4 DEF OwnInv

\* Whatever is initialised, ended and lost, and whichever of an UNSUBACK and a timeout ends
\* a request, each allocated context has one owner, is released once and never used again.
THEOREM ContextsHaveOwners == Spec => []ContextsAreOwned
<1>1. BaseInv /\ OwnInv /\ [Next]_vars => OwnInv'
  BY OwnStep DEF BaseInv
<1>2. OwnInv => ContextsAreOwned
  <2> SUFFICES ASSUME OwnInv
               PROVE  ContextsAreOwned
    OBVIOUS
  <2> DEFINE N == Nodes(waiting, "UNSUBSCRIBE")
             W == Pairs(waiting, "UNSUBSCRIBE")
  <2>1. heap = ({sub_handles[t].context : t \in Topics} \ {0}) \cup {x[2] : x \in W} /\ ~misused
    BY DEF OwnInv, OwnSets
  <2>2. {x[2] : x \in W} = {waiting[k].context : k \in N}
    <3>1. ASSUME NEW k \in N
          PROVE  waiting[k].context \in {x[2] : x \in W}
      <4>1. <<waiting[k].topic, waiting[k].context>> \in W
        BY DEF Pairs
      <4> QED
        BY <4>1
    <3>2. ASSUME NEW x \in W
          PROVE  x[2] \in {waiting[k].context : k \in N}
      BY DEF Pairs
    <3> QED
      BY <3>1, <3>2
  <2>3. N = {j \in DOMAIN waiting : waiting[j].type = "UNSUBSCRIBE"}
    BY DEF Nodes
  <2> QED
    BY <2>1, <2>2, <2>3 DEF ContextsAreOwned
<1> QED
  BY <1>1, <1>2, OwnInit, TypeCorrect, PTL DEF Spec
-------------------------------------------------------------------------------
(* The services behind the topics. *)

\* The requests for a filter that are on their way, and those against it.
Asks(q, t)  == {k \in DOMAIN q : q[k].topic = t /\ q[k].type \in {"SUBSCRIBE", "RESUBSCRIBE"}}
Drops(q, t) == {k \in DOMAIN q : q[k].topic = t /\ q[k].type = "UNSUBSCRIBE"}

\* When the broker has answered the requests q, it grants t.
Settled(q, g, t) ==
    /\ t \in g \/ Asks(q, t) # {}
    /\ \A k \in Drops(q, t) : \E j \in Asks(q, t) : j > k

SettledInv == \A t \in Topics : sub_handles[t].context # 0 => Settled(requests, granted, t)

\* A handle leads to what began first on its topic; it is not granted only while the call
\* in progress subscribes it.
LeadsTo(t, c) == IF t = "service" THEN service_list[c] = registered[t]
                                  ELSE registered[t] # <<>> /\ Head(registered[t]) = c

HandlesInv ==
    /\ \A t \in Topics :
         /\ sub_handles[t].context <= allocs
         /\ sub_handles[t].context # 0 /\ ~sub_handles[t].status => call.step = "subscribe" /\ t = Head(call.todo)
         /\ IF sub_handles[t].context = 0 THEN registered[t] = <<>> ELSE LeadsTo(t, sub_handles[t].context)
    /\ \A c \in Contexts : c > allocs => service_list[c] = <<>>

\* A message is one that the cloud sends.
Sendable(p) ==
    p.type = "MESSAGE" => /\ p.topic \in DOMAIN Sent /\ p.method \in Sent[p.topic]
                          /\ p.topic = "broadcast" => p.complete

MessagesInv == \A k \in DOMAIN inbox : Sendable(inbox[k])

LEMMA SettledAppended ==
  ASSUME NEW S, NEW q \in Seq(S), NEW m \in S, NEW g, NEW t,
         \/ Settled(q, g, t) /\ (m.topic # t \/ m.type = "TIME")
         \/ m.topic = t /\ m.type = "SUBSCRIBE"
  PROVE  Settled(Append(q, m), g, t)
<1> DEFINE p == Append(q, m)
<1>1. /\ Len(p) = Len(q) + 1 /\ Len(q) \in Nat /\ p[Len(q) + 1] = m
      /\ \A i \in 1..Len(q) : p[i] = q[i]
      /\ DOMAIN q = 1..Len(q) /\ DOMAIN p = 1..Len(p)
  BY AppendProperties, LenProperties
<1> HIDE DEF p
<1>2. Asks(q, t) \subseteq Asks(p, t)
  BY <1>1 DEF Asks
<1>3. CASE Settled(q, g, t) /\ (m.topic # t \/ m.type = "TIME")
  <2>1. Drops(p, t) \subseteq Drops(q, t)
    BY <1>1, <1>3 DEF Drops
  <2> QED
    BY <1>2, <1>3, <2>1 DEF Settled, p
<1>4. CASE m.topic = t /\ m.type = "SUBSCRIBE"
  <2>1. Len(q) + 1 \in Asks(p, t)
    BY <1>1, <1>4 DEF Asks
  <2>2. \A k \in Drops(p, t) : Len(q) + 1 > k
    BY <1>1, <1>4 DEF Drops
  <2> QED
    BY <2>1, <2>2 DEF Settled, p
<1> QED
  BY <1>3, <1>4

LEMMA SettledJoined ==
  ASSUME NEW S, NEW q \in Seq(S), NEW p \in Seq(S), NEW g, NEW t, Settled(q, g, t),
         \A i \in DOMAIN p : p[i].topic # t
  PROVE  Settled(q \o p, g, t)
<1> DEFINE r == q \o p
<1>1. /\ Len(r) = Len(q) + Len(p) /\ Len(q) \in Nat /\ Len(p) \in Nat
      /\ \A i \in 1..Len(r) : r[i] = IF i <= Len(q) THEN q[i] ELSE p[i - Len(q)]
      /\ DOMAIN r = 1..Len(r) /\ DOMAIN q = 1..Len(q) /\ DOMAIN p = 1..Len(p)
  BY ConcatProperties, LenProperties
<1> HIDE DEF r
<1>2. Asks(q, t) \subseteq Asks(r, t)
  BY <1>1 DEF Asks
<1>3. Drops(r, t) \subseteq Drops(q, t)
  <2>1. SUFFICES ASSUME NEW i \in DOMAIN r, r[i].topic = t
                 PROVE  i \in DOMAIN q /\ q[i] = r[i]
    BY DEF Drops
  <2>2. CASE i <= Len(q)
    BY <1>1, <2>2
  <2>3. CASE ~(i <= Len(q))
    <3>1. i - Len(q) \in DOMAIN p /\ r[i] = p[i - Len(q)]
      BY <1>1, <2>3
    <3> QED
      BY <2>1, <3>1
  <2> QED
    BY <2>2, <2>3
<1> QED
  BY <1>2, <1>3 DEF Settled, r

LEMMA SettledTail ==
  ASSUME NEW S, NEW q \in Seq(S), q # <<>>, NEW g, NEW h, NEW t, Settled(q, g, t),
         \/ (Head(q).topic # t \/ Head(q).type = "TIME") /\ (t \in g => t \in h)
         \/ Head(q).topic = t /\ Head(q).type = "UNSUBSCRIBE"
         \/ t \in h
  PROVE  Settled(Tail(q), h, t)
<1> DEFINE p == Tail(q)
<1>1. /\ Len(p) = Len(q) - 1 /\ Len(q) \in Nat \ {0} /\ Head(q) = q[1]
      /\ \A i \in 1..Len(p) : p[i] = q[i + 1]
      /\ DOMAIN q = 1..Len(q) /\ DOMAIN p = 1..Len(p)
  BY HeadTail, LenProperties
<1> HIDE DEF p
<1>2. \A j \in Asks(q, t) : j = 1 \/ j - 1 \in Asks(p, t)
  BY <1>1 DEF Asks
<1>3. \A k \in Drops(p, t) : k + 1 \in Drops(q, t)
  BY <1>1 DEF Drops
<1>4. \A k \in Drops(p, t) : \E j \in Asks(p, t) : j > k
  <2>1. SUFFICES ASSUME NEW k \in Drops(p, t)
                 PROVE  \E j \in Asks(p, t) : j > k
    OBVIOUS
  <2>2. PICK j \in Asks(q, t) : j > k + 1
    BY <1>3 DEF Settled
  <2>3. k \in Nat /\ j \in Nat /\ j # 1 /\ k >= 1
    BY <1>1, <2>2 DEF Asks, Drops
  <2>4. j - 1 \in Asks(p, t) /\ j - 1 > k
    BY <1>2, <2>2, <2>3
  <2> QED
    BY <2>4
<1>5. t \in h \/ Asks(p, t) # {}
  <2>1. CASE (Head(q).topic # t \/ Head(q).type = "TIME") /\ (t \in g => t \in h)
    <3>1. 1 \notin Asks(q, t)
      BY <1>1, <2>1 DEF Asks
    <3>2. t \in g \/ \E j \in Asks(q, t) : TRUE
      BY DEF Settled
    <3> QED
      BY <1>2, <2>1, <3>1, <3>2
  <2>2. CASE Head(q).topic = t /\ Head(q).type = "UNSUBSCRIBE"
    <3>1. 1 \in Drops(q, t)
      BY <1>1, <2>2 DEF Drops
    <3>2. PICK j \in Asks(q, t) : j > 1
      BY <3>1 DEF Settled
    <3>3. j # 1
      BY <1>1, <3>2 DEF Asks
    <3> QED
      BY <1>2, <3>3
  <2> QED
    BY <2>1, <2>2
<1> QED
  BY <1>4, <1>5 DEF Settled, p

\* A step that asks nothing of the broker, and gives no handle a context.
LEMMA SettledUntouched ==
  ASSUME SettledInv, requests' = requests, granted' = granted,
         \A t \in Topics : sub_handles'[t].context # 0 => sub_handles[t].context # 0
  PROVE  SettledInv'
<1>1. \A t \in Topics : Settled(requests', granted', t) <=> Settled(requests, granted, t)
  OBVIOUS
<1> QED
  BY <1>1 DEF SettledInv

LEMMA SettledUnsubscribes ==
  ASSUME TypeInv, SettledInv, granted' = granted, NEW S \in SUBSET Topics, Unsubscribe(S)
  PROVE  SettledInv'
<1>1. /\ requests' = requests \o Asking(S) /\ Asking(S) \in Seq(Request) /\ requests \in Seq(Request)
      /\ \A t \in Topics : sub_handles'[t] = IF t \in S THEN NoHandle ELSE sub_handles[t]
  BY UnsubscribeIs DEF TypeInv
<1>2. \A i \in DOMAIN Asking(S) : Asking(S)[i].topic \in S
  BY HeldFacts DEF Asking
<1>3. ASSUME NEW t \in Topics, sub_handles'[t].context # 0
      PROVE  Settled(requests \o Asking(S), granted, t)
  <2>1. t \notin S /\ sub_handles[t].context # 0
    BY <1>1, <1>3 DEF NoHandle
  <2>2. Settled(requests, granted, t) /\ \A i \in DOMAIN Asking(S) : Asking(S)[i].topic # t
    BY <1>2, <2>1 DEF SettledInv
  <2> QED
    BY <1>1, <2>2, SettledJoined
<1> QED
  BY <1>1, <1>3 DEF SettledInv

LEMMA SettledBroker ==
  ASSUME TypeInv, SettledInv, Broker
  PROVE  SettledInv'
<1> DEFINE r == Head(requests)
<1>1. /\ requests # <<>> /\ r \in Request /\ requests' = Tail(requests) /\ requests \in Seq(Request)
      /\ sub_handles' = sub_handles
      /\ \/ r.type = "TIME" /\ granted' = granted
         \/ r.type = "UNSUBSCRIBE" /\ granted' = granted \ {r.topic}
         \/ r.type \in {"SUBSCRIBE", "RESUBSCRIBE"} /\ granted' = granted \cup {r.topic}
  BY BrokerIs DEF TypeInv
<1>2. ASSUME NEW t \in Topics, sub_handles[t].context # 0
      PROVE  Settled(Tail(requests), granted', t)
  <2>1. Settled(requests, granted, t)
    BY <1>2 DEF SettledInv
  <2>2. \/ (r.topic # t \/ r.type = "TIME") /\ (t \in granted => t \in granted')
        \/ r.topic = t /\ r.type = "UNSUBSCRIBE"
        \/ t \in granted'
    BY <1>1
  <2>3. \A h : (\/ (r.topic # t \/ r.type = "TIME") /\ (t \in granted => t \in h)
                \/ r.topic = t /\ r.type = "UNSUBSCRIBE"
                \/ t \in h) => Settled(Tail(requests), h, t)
    BY <1>1, <2>1, SettledTail
  <2> QED
    BY <2>2, <2>3
<1> QED
  BY <1>1, <1>2 DEF SettledInv

\* Every step keeps what the broker knows, or is about to.
LEMMA SettledStep ==
  ASSUME TypeInv, SettledInv, [Next]_vars
  PROVE  SettledInv'
<1>1. ASSUME NEW t \in Topics, CheckAndSub(t)
      PROVE  SettledInv'
  <2>1. granted' = granted
    BY <1>1, CheckIs
  <2>2. CASE UNCHANGED <<sub_handles, requests>>
    BY <2>1, <2>2, SettledUntouched
  <2>3. CASE Subscribe(t, allocs + 1)
    <3> DEFINE m == [type |-> "SUBSCRIBE", topic |-> t, context |-> allocs + 1, sent |-> now]
    <3>1. requests' = Append(requests, m) /\ requests \in Seq(Request)
      BY <2>3 DEF Subscribe, TypeInv
    <3>2. m \in Request /\ m.topic = t /\ m.type = "SUBSCRIBE"
      <4>1. allocs + 1 \in Contexts /\ now \in Nat
        BY <1>1, CheckIs DEF TypeInv
      <4> QED
        BY <4>1, ServicesAssumption DEF Request, Contexts
    <3> HIDE DEF m
    <3>3. \A u \in Topics : sub_handles'[u].context # 0 => u = t \/ sub_handles[u].context # 0
      BY <2>3 DEF Subscribe, TypeInv
    <3>4. \A u \in Topics : u = t \/ Settled(requests, granted, u) => Settled(Append(requests, m), granted, u)
      BY <3>1, <3>2, SettledAppended
    <3> QED
      BY <2>1, <3>1, <3>3, <3>4 DEF SettledInv
  <2> QED
    BY <1>1, <2>2, <2>3, CheckIs
<1>2. CASE \/ service_mqtt_topic_check_and_sub \/ system_mqtt_result_topic_check_and_sub
           \/ ota_mqtt_update_topic_check_and_sub \/ broadcast_check_and_sub \/ data_template_topic_check_and_sub
  <2>1. \E t \in Topics : CheckAndSub(t)
    BY <1>2, AllTopics DEF service_mqtt_topic_check_and_sub, system_mqtt_result_topic_check_and_sub,
         ota_mqtt_update_topic_check_and_sub, broadcast_check_and_sub, data_template_topic_check_and_sub
  <2> QED
    BY <1>1, <2>1
<1>3. CASE (\E api \in apis : Call(api)) \/ MallocFails \/ service_mqtt_service_register \/ InitReturns
  <2>1. UNCHANGED <<sub_handles, requests, granted>>
    BY <1>3 DEF Call, MallocFails, service_mqtt_service_register, InitReturns, table, network
  <2> QED
    BY <2>1, SettledUntouched
<1>4. CASE PublishTime
  <2> DEFINE m == [type |-> "TIME", topic |-> "result", context |-> 0, sent |-> now]
  <2>1. requests' = Append(requests, m) /\ requests \in Seq(Request) /\ granted' = granted /\ sub_handles' = sub_handles
    BY <1>4 DEF PublishTime, TypeInv, table
  <2>2. m \in Request /\ m.type = "TIME"
    BY AllTopics, ServicesAssumption DEF Request, TypeInv
  <2> HIDE DEF m
  <2>3. \A t \in Topics : Settled(requests, granted, t) => Settled(Append(requests, m), granted, t)
    BY <2>1, <2>2, SettledAppended
  <2> QED
    BY <2>1, <2>3 DEF SettledInv
<1>5. CASE IOT_FileManage_Deinit
  <2>1. granted' = granted
    BY <1>5 DEF IOT_FileManage_Deinit
  <2>2. CASE Unsubscribe({"service"})
    BY <2>1, <2>2, SettledUnsubscribes, AllTopics
  <2>3. CASE UNCHANGED <<table, requests>>
    BY <2>1, <2>3, SettledUntouched DEF table
  <2> QED
    BY <1>5, <2>2, <2>3 DEF IOT_FileManage_Deinit, service_mqtt_deinit
<1>6. ASSUME NEW api \in APIs, Deinit(api)
      PROVE  SettledInv'
  <2> DEFINE S == ToSet(TopicsOf[api])
  <2>1. S \in SUBSET Topics
    BY DEF Topics, APIs
  <2>2. granted' = granted /\ Unsubscribe(S)
    BY <1>6 DEF Deinit
  <2> HIDE DEF S
  <2> QED
    BY <2>1, <2>2, SettledUnsubscribes
<1>7. CASE IOT_Broadcast_Deinit \/ IOT_OTA_Deinit \/ IOT_DataTemplate_Deinit
  BY <1>6, <1>7, TopicFacts DEF IOT_Broadcast_Deinit, IOT_OTA_Deinit, IOT_DataTemplate_Deinit
<1>8. CASE YieldIdle \/ YieldSubscribe \/ YieldWait \/ WaitReturns
  <2>1. Elapses
    BY <1>8 DEF YieldIdle, YieldSubscribe, YieldWait, WaitReturns
  <2> QED
    BY <2>1, SettledUntouched DEF Elapses, table
<1>9. ASSUME NEW r \in replies, TakeTime(r)
      PROVE  SettledInv'
  BY <1>9, SettledUntouched DEF TakeTime, table
<1>10. CASE ReadSuback
  <2>1. requests' = requests /\ granted' = granted
    BY <1>10 DEF ReadSuback, Reads
  <2>2. \A t \in Topics : sub_handles'[t].context = sub_handles[t].context
    BY <1>10 DEF ReadSuback, TypeInv, Handle
  <2> QED
    BY <2>1, <2>2, SettledUntouched
<1>11. CASE ReadUnsuback \/ ReadMessage \/ UnsubExpires
  <2>1. UNCHANGED <<sub_handles, requests, granted>>
    BY <1>11 DEF ReadUnsuback, ReadMessage, Reads, UnsubExpires, table, network
  <2> QED
    BY <2>1, SettledUntouched
<1>12. CASE Reconnect
  <2> DEFINE held == Held(Topics)
  <2>1. requests' = [k \in DOMAIN held |-> [type |-> "RESUBSCRIBE", topic |-> held[k], context |-> 0, sent |-> now]]
        /\ sub_handles' = sub_handles
    BY <1>12 DEF Reconnect, Held, table
  <2>2. \A t \in Topics : sub_handles[t].context # 0 => \E i \in DOMAIN held : held[i] = t
    BY HeldFacts
  <2> HIDE DEF held
  <2>3. \A t : Drops(requests', t) = {}
    BY <2>1 DEF Drops
  <2>4. \A i \in DOMAIN held : i \in Asks(requests', held[i])
    BY <2>1 DEF Asks
  <2> QED
    BY <2>1, <2>2, <2>3, <2>4 DEF SettledInv, Settled
<1>13. ASSUME NEW t \in DOMAIN Sent, NEW complete \in BOOLEAN, NEW m \in Sent[t], BrokerSends(t, m, complete)
       PROVE  SettledInv'
  BY <1>13, SettledUntouched DEF BrokerSends, table
<1>14. CASE UNCHANGED vars
  BY <1>14, SettledUntouched DEF vars, table, network
<1> QED
  BY <1>2, <1>3, <1>4, <1>5, <1>7, <1>8, <1>9, <1>10, <1>11, <1>12, <1>13, <1>14, SettledBroker
     DEF Next, Application, Yield, Environment

\* A step that leaves alone what began and what the handles lead to.
LEMMA HandlesUntouched ==
  ASSUME HandlesInv, UNCHANGED <<sub_handles, registered, service_list, allocs>>,
         call' = call \/ call.step # "subscribe"
  PROVE  HandlesInv'
BY DEF HandlesInv, LeadsTo

LEMMA HandlesInit == Init => HandlesInv
<1> SUFFICES ASSUME Init
             PROVE  HandlesInv
  OBVIOUS
<1>1. allocs = 0 /\ \A t \in Topics : sub_handles[t].context = 0 /\ registered[t] = <<>>
  BY DEF Init, NoHandle
<1>2. \A c \in Contexts : service_list[c] = <<>>
  BY DEF Init
<1> QED
  BY <1>1, <1>2 DEF HandlesInv

LEMMA HeadAppended ==
  ASSUME NEW S, NEW q \in Seq(S), NEW x \in S
  PROVE  /\ Append(q, x) # <<>>
         /\ Head(Append(q, x)) = IF q = <<>> THEN x ELSE Head(q)
<1> DEFINE p == Append(q, x)
<1>1. /\ p \in Seq(S) /\ Len(p) = Len(q) + 1 /\ Len(q) \in Nat /\ p[Len(q) + 1] = x
      /\ \A i \in 1..Len(q) : p[i] = q[i]
  BY AppendProperties, LenProperties
<1> HIDE DEF p
<1>2. p # <<>>
  BY <1>1, EmptySeq
<1>3. Head(p) = p[1]
  BY <1>1, <1>2, HeadTail
<1>4. CASE q = <<>>
  BY <1>1, <1>2, <1>3, <1>4, EmptySeq DEF p
<1>5. CASE q # <<>>
  <2>1. Head(q) = q[1] /\ Len(q) \in Nat \ {0}
    BY <1>5, HeadTail
  <2> QED
    BY <1>1, <1>2, <1>3, <1>5, <2>1 DEF p
<1> QED
  BY <1>4, <1>5

\* A topic that is granted is begun once more; one that is not has no handle, and gets one.
LEMMA HandlesCheck ==
  ASSUME TypeInv, CallInv, HandlesInv, NEW t \in Topics, CheckAndSub(t)
  PROVE  HandlesInv'
<1> DEFINE c == allocs + 1
<1>1. /\ call.step = "check" /\ t = Head(call.todo) /\ allocs' = c /\ c \in Contexts /\ allocs \in Nat
      /\ service_list' = service_list /\ call \in InCall
      /\ registered' = [registered EXCEPT ![t] = IF t = "service" THEN @ ELSE Append(@, c)]
  BY CheckIs, ServicesAssumption DEF TypeInv
<1>2. \A u \in Topics : /\ sub_handles[u].context \in 0..MaxContexts /\ sub_handles[u].context <= allocs
                        /\ sub_handles[u].context # 0 => sub_handles[u].status
                        /\ sub_handles[u].context = 0 => registered[u] = <<>>
                        /\ sub_handles[u].context # 0 => LeadsTo(u, sub_handles[u].context)
  BY <1>1 DEF HandlesInv, TypeInv, Handle
<1>3. \A u \in Topics : u # t \/ t = "service" => registered'[u] = registered[u]
  BY <1>1 DEF TypeInv
<1>4. \A x \in Contexts : x > allocs => service_list[x] = <<>>
  BY DEF HandlesInv
<1>5. t # "service" => /\ registered'[t] # <<>>
                       /\ Head(registered'[t]) = IF registered[t] = <<>> THEN c ELSE Head(registered[t])
  <2>1. registered[t] \in Seq(Nat) /\ c \in Nat
    BY <1>1 DEF TypeInv
  <2>2. t # "service" => registered'[t] = Append(registered[t], c)
    BY <1>1 DEF TypeInv
  <2> HIDE DEF c
  <2> QED
    BY <2>1, <2>2, HeadAppended
<1>6. \A x \in Contexts : x > allocs' => service_list'[x] = <<>>
  BY <1>1, <1>4, ServicesAssumption DEF Contexts
<1>7. CASE sub_handles[t].status /\ sub_handles' = sub_handles
  <2>1. sub_handles[t].context # 0
    BY <1>7 DEF CallInv
  <2>2. \A u \in Topics : sub_handles[u].context # 0 => LeadsTo(u, sub_handles[u].context)'
    <3>1. SUFFICES ASSUME NEW u \in Topics, sub_handles[u].context # 0
                   PROVE  LeadsTo(u, sub_handles[u].context)'
      OBVIOUS
    <3>2. CASE u = "service" \/ u # t
      BY <1>1, <1>2, <1>3, <1>7, <3>1, <3>2 DEF LeadsTo
    <3>3. CASE u = t /\ t # "service"
      BY <1>2, <1>5, <1>7, <3>1, <3>3 DEF LeadsTo
    <3> QED
      BY <3>2, <3>3
  <2>3. \A u \in Topics : sub_handles[u].context = 0 => registered'[u] = <<>>
    BY <1>2, <1>3, <2>1
  <2>4. \A u \in Topics : sub_handles[u].context <= allocs'
    BY <1>1, <1>2
  <2> QED
    BY <1>2, <1>6, <1>7, <2>2, <2>3, <2>4 DEF HandlesInv
<1>8. CASE /\ ~sub_handles[t].status
           /\ Subscribe(t, c)
           /\ call' = [call EXCEPT !.step = "subscribe", !.context = c, !.left = CommandYields]
  <2>1. sub_handles[t].context = 0 /\ registered[t] = <<>>
    BY <1>2, <1>8
  <2>2. call'.step = "subscribe" /\ t = Head(call'.todo)
    BY <1>1, <1>8 DEF InCall
  <2>3. \A u \in Topics : sub_handles'[u] = IF u = t THEN [context |-> c, status |-> FALSE] ELSE sub_handles[u]
    BY <1>8 DEF Subscribe, TypeInv
  <2>4. c # 0 /\ c > allocs
    BY <1>1
  <2>5. LeadsTo(t, sub_handles[t].context)'
    <3>1. CASE t = "service"
      <4>1. service_list[c] = <<>>
        BY <1>1, <1>4, <2>4
      <4> QED
        BY <1>1, <1>3, <2>1, <2>3, <3>1, <4>1 DEF LeadsTo
    <3>2. CASE t # "service"
      BY <1>5, <2>1, <2>3, <3>2 DEF LeadsTo
    <3> QED
      BY <3>1, <3>2
  <2>6. \A u \in Topics : u # t => IF sub_handles'[u].context = 0 THEN registered'[u] = <<>>
                                   ELSE LeadsTo(u, sub_handles[u].context)'
    BY <1>1, <1>2, <1>3, <2>3 DEF LeadsTo
  <2>7. \A u \in Topics : sub_handles'[u].context <= allocs'
    BY <1>1, <1>2, <2>3
  <2>8. sub_handles'[t].context # 0
    BY <2>3, <2>4
  <2>9. \A u \in Topics : sub_handles'[u].context # 0 /\ ~sub_handles'[u].status => u = t
    BY <1>2, <2>3
  <2> QED
    BY <1>6, <2>2, <2>5, <2>6, <2>7, <2>8, <2>9 DEF HandlesInv
<1> QED
  BY <1>7, <1>8, CheckIs

\* File management is registered with the context that the handle leads to.
LEMMA HandlesRegister ==
  ASSUME TypeInv, CallInv, HandlesInv, service_mqtt_service_register
  PROVE  HandlesInv'
<1> DEFINE c == sub_handles["service"].context
<1>1. /\ call.step = "check" /\ call.todo = <<>> /\ call.api = "IOT_FileManage_Init"
      /\ sub_handles' = sub_handles /\ allocs' = allocs /\ allocs \in Nat
      /\ service_list' = [service_list EXCEPT ![c] = Append(@, allocs)]
      /\ registered' = [registered EXCEPT !["service"] = Append(@, allocs)]
  BY ServicesAssumption DEF service_mqtt_service_register, Subscribed, IOT_MQTT_GetSubUsrData, table, memory, TypeInv
<1>2. Head(TopicsOf[call.api]) = "service" /\ TopicsOf[call.api] # <<>> /\ "service" \in Topics
  BY <1>1, TopicFacts, AllTopics
<1>3. c # 0 /\ c \in Contexts /\ c <= allocs
  <2>1. c # 0 /\ c \in 0..MaxContexts
    BY <1>1, <1>2 DEF CallInv, TypeInv, Handle
  <2> QED
    BY <1>2, <2>1, ServicesAssumption DEF HandlesInv, Contexts
<1>4. \A t \in Topics : t # "service" => registered'[t] = registered[t]
  BY <1>1 DEF TypeInv
<1>5. registered'["service"] = Append(registered["service"], allocs)
  BY <1>1, <1>2 DEF TypeInv
<1>6. service_list'[c] = Append(service_list[c], allocs) /\ \A x \in Contexts : x # c => service_list'[x] = service_list[x]
  BY <1>1, <1>3 DEF TypeInv
<1>7. service_list[c] = registered["service"]
  BY <1>2, <1>3 DEF HandlesInv, LeadsTo
<1>8. LeadsTo("service", c)'
  BY <1>1, <1>5, <1>6, <1>7 DEF LeadsTo
<1>9. \A t \in Topics : IF sub_handles'[t].context = 0 THEN registered'[t] = <<>> ELSE LeadsTo(t, sub_handles[t].context)'
  <2>1. SUFFICES ASSUME NEW t \in Topics, t # "service"
                 PROVE  IF sub_handles'[t].context = 0 THEN registered'[t] = <<>> ELSE LeadsTo(t, sub_handles[t].context)'
    BY <1>1, <1>3, <1>8
  <2> QED
    BY <1>1, <1>4, <2>1 DEF HandlesInv, LeadsTo
<1>10. \A x \in Contexts : x > allocs' => service_list'[x] = <<>>
  BY <1>1, <1>3, <1>6 DEF HandlesInv, Contexts
<1>11. \A t \in Topics : ~(sub_handles[t].context # 0 /\ ~sub_handles[t].status)
  BY <1>1 DEF HandlesInv
<1> QED
  BY <1>1, <1>9, <1>10, <1>11 DEF HandlesInv

\* The first service of file management ends, and the topic with the last.
LEMMA HandlesFileManage ==
  ASSUME TypeInv, HandlesInv, IOT_FileManage_Deinit
  PROVE  HandlesInv'
<1> DEFINE c == sub_handles["service"].context
           q == registered["service"]
<1>1. /\ call.step \in {"idle", "wait"} /\ c # 0 /\ allocs' = allocs /\ call' = call /\ "service" \in Topics
      /\ service_list' = [service_list EXCEPT ![c] = IF @ = <<>> THEN @ ELSE Tail(@)]
      /\ registered' = [registered EXCEPT !["service"] = IF @ = <<>> THEN <<>> ELSE Tail(@)]
      /\ IF service_list'[c] = <<>> THEN Unsubscribe({"service"}) ELSE sub_handles' = sub_handles
  BY AllTopics DEF IOT_FileManage_Deinit, service_mqtt_service_unregister, service_mqtt_deinit, IOT_MQTT_GetSubUsrData,
                   memory, table
<1>2. c \in Contexts /\ c <= allocs /\ service_list[c] = q
  <2>1. c \in 0..MaxContexts
    BY <1>1 DEF TypeInv, Handle
  <2> QED
    BY <1>1, <2>1, ServicesAssumption DEF HandlesInv, Contexts, LeadsTo
<1>3. \A t \in Topics : t # "service" => registered'[t] = registered[t]
  BY <1>1 DEF TypeInv
<1>4. registered'["service"] = IF q = <<>> THEN <<>> ELSE Tail(q)
  BY <1>1 DEF TypeInv
<1>5. service_list'[c] = registered'["service"] /\ \A x \in Contexts : x # c => service_list'[x] = service_list[x]
  BY <1>1, <1>2, <1>4 DEF TypeInv
<1>6. \A x \in Contexts : x > allocs' => service_list'[x] = <<>>
  <2>1. allocs \in Nat
    BY ServicesAssumption DEF TypeInv
  <2> QED
    BY <1>1, <1>2, <1>5, <2>1 DEF HandlesInv, Contexts
<1>7. \A t \in Topics : t # "service" => sub_handles'[t] = sub_handles[t]
  <2>1. CASE Unsubscribe({"service"})
    BY <1>1, <2>1, UnsubscribeIs
  <2> QED
    BY <1>1, <2>1
<1>8. \/ sub_handles'["service"] = sub_handles["service"]
      \/ sub_handles'["service"] = NoHandle /\ registered'["service"] = <<>>
  <2>1. CASE service_list'[c] = <<>>
    BY <1>1, <1>5, <2>1, UnsubscribeIs
  <2>2. CASE service_list'[c] # <<>>
    BY <1>1, <2>2
  <2> QED
    BY <2>1, <2>2
<1>9. \A t \in Topics : IF sub_handles'[t].context = 0 THEN registered'[t] = <<>> ELSE LeadsTo(t, sub_handles[t].context)'
  <2>1. ASSUME NEW t \in Topics, t # "service"
        PROVE  IF sub_handles'[t].context = 0 THEN registered'[t] = <<>> ELSE LeadsTo(t, sub_handles[t].context)'
    BY <1>3, <1>7, <2>1 DEF HandlesInv, LeadsTo
  <2>2. IF sub_handles'["service"].context = 0 THEN registered'["service"] = <<>>
        ELSE LeadsTo("service", sub_handles["service"].context)'
    <3>1. CASE sub_handles'["service"] = sub_handles["service"]
      BY <1>1, <1>5, <3>1 DEF LeadsTo
    <3>2. CASE sub_handles'["service"] = NoHandle /\ registered'["service"] = <<>>
      BY <3>2 DEF NoHandle
    <3> QED
      BY <1>8, <3>1, <3>2
  <2> QED
    BY <2>1, <2>2
<1>10. \A t \in Topics : sub_handles'[t].context <= allocs'
  BY <1>1, <1>7, <1>8, ServicesAssumption DEF HandlesInv, NoHandle, TypeInv
<1>11. \A t \in Topics : ~(sub_handles'[t].context # 0 /\ ~sub_handles'[t].status)
  BY <1>1, <1>7, <1>8 DEF HandlesInv, NoHandle
<1> QED
  BY <1>6, <1>9, <1>10, <1>11 DEF HandlesInv

\* A service with topics of its own ends.
LEMMA HandlesDeinit ==
  ASSUME TypeInv, HandlesInv, NEW api \in APIs, Deinit(api)
  PROVE  HandlesInv'
<1> DEFINE S == ToSet(TopicsOf[api])
<1>1. S \in SUBSET Topics
  BY DEF Topics, APIs
<1>2. /\ call.step \in {"idle", "wait"} /\ Unsubscribe(S) /\ allocs' = allocs /\ service_list' = service_list
      /\ registered' = [t \in Topics |-> IF t \in S THEN <<>> ELSE registered[t]]
  BY DEF Deinit, memory
<1> HIDE DEF S
<1>3. sub_handles' = [t \in Topics |-> IF t \in S THEN NoHandle ELSE sub_handles[t]]
  BY <1>1, <1>2, UnsubscribeIs
<1>4. \A t \in Topics : /\ t \in S => sub_handles'[t].context = 0 /\ registered'[t] = <<>>
                        /\ t \notin S => sub_handles'[t] = sub_handles[t] /\ registered'[t] = registered[t]
  BY <1>2, <1>3 DEF NoHandle
<1>5. allocs \in Nat
  BY ServicesAssumption DEF TypeInv
<1> QED
  BY <1>2, <1>4, <1>5 DEF HandlesInv, LeadsTo

\* A topic is granted.
LEMMA HandlesSuback ==
  ASSUME TypeInv, HandlesInv, ReadSuback
  PROVE  HandlesInv'
<1>1. UNCHANGED <<call, allocs, service_list, registered>>
  BY ReadsIs DEF ReadSuback
<1>2. \A t \in Topics : /\ sub_handles'[t].context = sub_handles[t].context
                        /\ sub_handles[t].status => sub_handles'[t].status
  BY DEF ReadSuback, TypeInv, Handle
<1> QED
  BY <1>1, <1>2 DEF HandlesInv, LeadsTo

\* A yield of the call that subscribes.
LEMMA HandlesYield ==
  ASSUME TypeInv, HandlesInv, YieldSubscribe
  PROVE  HandlesInv'
<1>1. /\ UNCHANGED <<sub_handles, registered, service_list, allocs>> /\ call \in InCall
      /\ \/ sub_handles[Head(call.todo)].status
         \/ call' = [call EXCEPT !.left = @ - 1]
  BY DEF YieldSubscribe, Elapses, table, lists, memory, TypeInv
<1>2. CASE sub_handles[Head(call.todo)].status
  <2>1. \A t \in Topics : ~(sub_handles[t].context # 0 /\ ~sub_handles[t].status)
    BY <1>2 DEF HandlesInv
  <2> QED
    BY <1>1, <2>1 DEF HandlesInv, LeadsTo
<1>3. CASE call' = [call EXCEPT !.left = @ - 1]
  <2>1. call'.step = call.step /\ call'.todo = call.todo
    BY <1>1, <1>3 DEF InCall
  <2> QED
    BY <1>1, <2>1 DEF HandlesInv, LeadsTo
<1> QED
  BY <1>1, <1>2, <1>3

\* Every step keeps what the handles lead to.
LEMMA HandlesStep ==
  ASSUME TypeInv, CallInv, HandlesInv, [Next]_vars
  PROVE  HandlesInv'
<1> DEFINE Same == UNCHANGED <<sub_handles, registered, service_list, allocs>>
<1>1. CASE \/ service_mqtt_topic_check_and_sub \/ system_mqtt_result_topic_check_and_sub
           \/ ota_mqtt_update_topic_check_and_sub \/ broadcast_check_and_sub \/ data_template_topic_check_and_sub
  <2>1. \E t \in Topics : CheckAndSub(t)
    BY <1>1, AllTopics DEF service_mqtt_topic_check_and_sub, system_mqtt_result_topic_check_and_sub,
         ota_mqtt_update_topic_check_and_sub, broadcast_check_and_sub, data_template_topic_check_and_sub
  <2> QED
    BY <2>1, HandlesCheck
<1>2. CASE (\E api \in apis : Call(api)) \/ MallocFails \/ InitReturns \/ PublishTime
  <2>1. Same /\ call.step # "subscribe"
    BY <1>2 DEF Call, MallocFails, InitReturns, PublishTime, Subscribed, table, lists, memory
  <2> QED
    BY <2>1, HandlesUntouched
<1>3. CASE IOT_Broadcast_Deinit \/ IOT_OTA_Deinit \/ IOT_DataTemplate_Deinit
  BY <1>3, HandlesDeinit, TopicFacts DEF IOT_Broadcast_Deinit, IOT_OTA_Deinit, IOT_DataTemplate_Deinit
<1>4. CASE YieldIdle \/ YieldWait \/ WaitReturns
  <2>1. Same /\ call.step # "subscribe"
    BY <1>4 DEF YieldIdle, YieldWait, WaitReturns, Elapses, table, lists, memory
  <2> QED
    BY <2>1, HandlesUntouched
<1>5. ASSUME NEW r \in replies, TakeTime(r)
      PROVE  HandlesInv'
  BY <1>5, HandlesUntouched DEF TakeTime, table, lists, memory
<1>6. CASE ReadUnsuback \/ ReadMessage \/ UnsubExpires
  <2>1. Same /\ call' = call
    BY <1>6 DEF ReadUnsuback, ReadMessage, Reads, UnsubExpires, table, lists
  <2> QED
    BY <2>1, HandlesUntouched
<1>7. CASE Reconnect
  BY <1>7, HandlesUntouched DEF Reconnect, table, lists, memory
<1>8. CASE Broker
  BY <1>8, BrokerIs, HandlesUntouched
<1>9. ASSUME NEW t \in DOMAIN Sent, NEW complete \in BOOLEAN, NEW m \in Sent[t], BrokerSends(t, m, complete)
      PROVE  HandlesInv'
  BY <1>9, HandlesUntouched DEF BrokerSends, table, lists, memory
<1>10. CASE UNCHANGED vars
  BY <1>10, HandlesUntouched DEF vars, table, lists, memory
<1> QED
  BY <1>1, <1>2, <1>3, <1>4, <1>5, <1>6, <1>7, <1>8, <1>9, <1>10, HandlesRegister, HandlesFileManage, HandlesSuback,
     HandlesYield DEF Next, Application, Yield, Environment

\* A message that the cloud sends stays one of those until it is read.
LEMMA MessagesStep ==
  ASSUME TypeInv, MessagesInv, [Next]_vars
  PROVE  MessagesInv'
<1>1. inbox \in Seq(Arrival)
  BY DEF TypeInv
<1>2. ASSUME NEW m \in Arrival, Sendable(m)
      PROVE  \A k \in DOMAIN Append(inbox, m) : Sendable(Append(inbox, m)[k])
  BY <1>1, <1>2, RequestAdded DEF MessagesInv
<1>3. \/ inbox' = inbox
      \/ inbox # <<>> /\ inbox' = Tail(inbox)
      \/ inbox' = <<>>
      \/ \E m \in Arrival : Sendable(m) /\ inbox' = Append(inbox, m)
  <2>1. CASE Application
    BY <2>1 DEF Application, Call, CheckAndSub, service_mqtt_topic_check_and_sub, system_mqtt_result_topic_check_and_sub,
         ota_mqtt_update_topic_check_and_sub, broadcast_check_and_sub, data_template_topic_check_and_sub,
         MallocFails, service_mqtt_service_register, InitReturns, PublishTime, IOT_FileManage_Deinit, Deinit,
         IOT_Broadcast_Deinit, IOT_OTA_Deinit, IOT_DataTemplate_Deinit, network
  <2>2. CASE Yield
    <3>1. CASE YieldIdle \/ YieldSubscribe \/ YieldWait \/ WaitReturns
      BY <3>1 DEF YieldIdle, YieldSubscribe, YieldWait, WaitReturns, Elapses
    <3>2. CASE ReadSuback \/ ReadUnsuback \/ ReadMessage
      BY <3>2 DEF ReadSuback, ReadUnsuback, ReadMessage, Reads
    <3>3. CASE UnsubExpires \/ Reconnect \/ \E r \in replies : TakeTime(r)
      BY <3>3 DEF UnsubExpires, Reconnect, TakeTime, network
    <3> QED
      BY <2>2, <3>1, <3>2, <3>3 DEF Yield
  <2>3. CASE Broker
    <3> DEFINE r == Head(requests)
    <3>1. r \in Request /\ <<>> \in Methods
      BY <2>3, BrokerIs DEF Methods
    <3>2. \A type \in {"SUBACK", "UNSUBACK"} : LET m == Packet(type, r.topic, r.context, <<>>, TRUE) IN
             m \in Arrival /\ Sendable(m)
      BY <3>1 DEF Packet, Arrival, Sendable, Request
    <3>3. \/ inbox' = inbox
          \/ \E type \in {"SUBACK", "UNSUBACK"} : inbox' = Append(inbox, Packet(type, r.topic, r.context, <<>>, TRUE))
      BY <2>3, BrokerIs
    <3> HIDE DEF r
    <3> QED
      BY <3>2, <3>3
  <2>4. ASSUME NEW t \in DOMAIN Sent, NEW complete \in BOOLEAN, NEW m \in Sent[t], BrokerSends(t, m, complete)
        PROVE  \E n \in Arrival : Sendable(n) /\ inbox' = Append(inbox, n)
    <3> DEFINE n == Packet("MESSAGE", t, 0, m, complete)
    <3>1. inbox' = Append(inbox, n) /\ t \in Topics /\ (t = "broadcast" => complete)
      BY <2>4 DEF BrokerSends, TypeInv
    <3>2. n \in Arrival /\ Sendable(n)
      BY <3>1, ServicesAssumption DEF Packet, Arrival, Sendable, Methods
    <3> QED
      BY <3>1, <3>2
  <2>5. CASE UNCHANGED vars
    BY <2>5 DEF vars, network
  <2> QED
    BY <2>1, <2>2, <2>3, <2>4, <2>5 DEF Next, Environment
<1>4. CASE inbox' = inbox
  BY <1>4 DEF MessagesInv
<1>5. CASE inbox # <<>> /\ inbox' = Tail(inbox)
  BY <1>1, <1>5, RequestTaken DEF MessagesInv
<1>6. CASE inbox' = <<>>
  BY <1>6 DEF MessagesInv
<1>7. CASE \E m \in Arrival : Sendable(m) /\ inbox' = Append(inbox, m)
  BY <1>2, <1>7 DEF MessagesInv
<1> QED
  BY <1>3, <1>4, <1>5, <1>6, <1>7

\* What the message handlers compare: each of the texts they know begins like itself only.
Words == {"update", "del", "re", "port", "quest", "other", "report_version_rsp", "update_firmware"}

LEMMA PrefixAgrees ==
  ASSUME NEW S, NEW q \in Seq(S), NEW p \in Seq(S)
  PROVE  /\ IsPrefix(q, p) => Len(q) <= Len(p) /\ \A i \in 1..Len(q) : q[i] = p[i]
         /\ IsPrefix(q, q)
<1>1. Len(q) \in Nat /\ Len(p) \in Nat
  BY LenProperties
<1>2. ASSUME IsPrefix(q, p)
      PROVE  Len(q) <= Len(p) /\ \A i \in 1..Len(q) : q[i] = p[i]
  <2>1. Len(q) <= Len(p) /\ SubSeq(q, 1, Len(q)) = SubSeq(p, 1, Len(q))
    BY <1>2 DEF IsPrefix
  <2>2. ASSUME NEW i \in 1..Len(q)
        PROVE  q[i] = p[i]
    <3>1. SubSeq(q, 1, Len(q))[i] = q[i] /\ SubSeq(p, 1, Len(q))[i] = p[i]
      BY <1>1, <2>1, <2>2
    <3> QED
      BY <2>1, <3>1
  <2> QED
    BY <2>1, <2>2
<1> QED
  BY <1>1, <1>2 DEF IsPrefix

LEMMA PrefixFacts ==
  /\ \A m, n \in sg_file_manage_method_str : IsPrefix(m, n) <=> m = n
  /\ \A m \in Sent["ota"], n \in ota_update_str : IsPrefix(m, n) <=> m = n
<1> DEFINE T == sg_file_manage_method_str \cup ota_update_str \cup {<<"other">>}
<1>1. T \subseteq Seq(Words)
  BY DEF sg_file_manage_method_str, ota_update_str, Words
<1>2. Sent["ota"] = ota_update_str \cup {<<"other">>}
  BY DEF Sent
<1>3. \A m, n \in T : IsPrefix(m, n) => Len(m) <= Len(n) /\ \A i \in 1..Len(m) : m[i] = n[i]
  BY <1>1, PrefixAgrees
<1>4. \A m \in T : IsPrefix(m, m)
  BY <1>1, PrefixAgrees
<1>5. ASSUME NEW m \in T, NEW n \in T, Len(m) <= Len(n), \A i \in 1..Len(m) : m[i] = n[i]
      PROVE  m = n
  BY <1>5 DEF sg_file_manage_method_str, ota_update_str
<1> HIDE DEF T
<1>6. \A m, n \in T : IsPrefix(m, n) <=> m = n
  BY <1>3, <1>4, <1>5
<1>7. sg_file_manage_method_str \subseteq T /\ ota_update_str \subseteq T /\ <<"other">> \in T
  BY DEF T
<1> QED
  BY <1>2, <1>6, <1>7

\* A message calls what it is for.
LEMMA MessageCalls ==
  ASSUME TypeInv, HandlesInv, MessagesInv, ReadMessage
  PROVE  (last.calls = last.due)'
<1> DEFINE p   == Head(inbox)
           c   == sub_handles[p.topic].context
           had == registered[p.topic]
           due == IF had = <<>> \/ ~p.complete \/ p.method \notin Known(p.topic) THEN {}
                  ELSE Called(Head(had), {p.method})
<1>1. last'.calls = (IF c = 0 THEN {} ELSE Dispatch(c, p)) /\ last'.due = due
  BY DEF ReadMessage, IOT_MQTT_GetSubUsrData
<1>2. p \in Arrival /\ p.type = "MESSAGE"
  BY ReadsIs DEF ReadMessage
<1>3. p.topic \in DOMAIN Sent /\ p.method \in Sent[p.topic] /\ (p.topic = "broadcast" => p.complete)
  <2>1. inbox # <<>> /\ inbox \in Seq(Arrival)
    BY ReadsIs DEF ReadMessage, TypeInv
  <2>2. 1 \in DOMAIN inbox /\ Head(inbox) = inbox[1]
    BY <2>1, HeadTail, LenProperties
  <2>3. Sendable(p)
    BY <2>2 DEF MessagesInv
  <2> QED
    BY <1>2, <2>3 DEF Sendable
<1>4. p.topic \in Topics /\ p.topic \in {"service", "ota", "broadcast"}
  BY <1>2, <1>3 DEF Arrival, Sent
<1>5. IF c = 0 THEN had = <<>> ELSE LeadsTo(p.topic, c)
  BY <1>4 DEF HandlesInv
<1> HIDE DEF p, c, had
<1>6. CASE c = 0
  BY <1>1, <1>5, <1>6
<1>7. CASE c # 0 /\ p.topic = "service"
  <2>1. service_list[c] = had
    BY <1>5, <1>7 DEF LeadsTo, had
  <2>2. Known(p.topic) = sg_file_manage_method_str
    BY <1>7 DEF Known
  <2>3. last'.calls = IF had # <<>> /\ p.method \in sg_file_manage_method_str
                      THEN file_manage_message_callback(Head(had), p) ELSE {}
    BY <1>1, <1>7, <2>1 DEF Dispatch, service_mqtt_message_handle, Serves
  <2>4. ASSUME p.method \in sg_file_manage_method_str
        PROVE  file_manage_message_callback(Head(had), p) = IF p.complete THEN Called(Head(had), {p.method}) ELSE {}
    <3>1. {n \in sg_file_manage_method_str : IsPrefix(p.method, n)} = {p.method}
      BY <2>4, PrefixFacts
    <3>2. file_manage_message_callback(Head(had), p) = file_manage_parse(Head(had), p.method, p)
      BY <3>1 DEF file_manage_message_callback
    <3> QED
      BY <3>2 DEF file_manage_parse
  <2> QED
    BY <1>1, <2>2, <2>3, <2>4
<1>8. CASE c # 0 /\ p.topic = "ota"
  <2>1. had # <<>> /\ Head(had) = c
    BY <1>5, <1>8 DEF LeadsTo, had
  <2>2. Known(p.topic) = ota_update_str
    BY <1>8 DEF Known
  <2>3. last'.calls = ota_mqtt_message_callback(c, p)
    BY <1>1, <1>8 DEF Dispatch
  <2>4. {n \in ota_update_str : IsPrefix(p.method, n)} = IF p.method \in ota_update_str THEN {p.method} ELSE {}
    BY <1>3, <1>8, PrefixFacts
  <2>5. CASE p.method \in ota_update_str
    <3>1. ota_mqtt_message_callback(c, p) = ota_parse_update_payload(c, p.method, p)
      BY <2>4, <2>5 DEF ota_mqtt_message_callback
    <3> QED
      BY <1>1, <2>1, <2>2, <2>3, <2>5, <3>1 DEF ota_parse_update_payload
  <2>6. CASE p.method \notin ota_update_str
    <3>1. ota_mqtt_message_callback(c, p) = {}
      BY <2>4, <2>6 DEF ota_mqtt_message_callback
    <3> QED
      BY <1>1, <2>2, <2>3, <2>6, <3>1
  <2> QED
    BY <2>5, <2>6
<1>9. CASE c # 0 /\ p.topic = "broadcast"
  <2>1. had # <<>> /\ Head(had) = c
    BY <1>5, <1>9 DEF LeadsTo, had
  <2>2. p.method \in Known(p.topic) /\ p.complete
    BY <1>3, <1>9 DEF Known, Sent
  <2>3. last'.calls = Called(c, {p.method})
    BY <1>1, <1>9 DEF Dispatch, broadcast_message_cb
  <2> QED
    BY <1>1, <2>1, <2>2, <2>3
<1> QED
  BY <1>4, <1>6, <1>7, <1>8, <1>9

\* Every other step calls nothing.
LEMMA CallsStep ==
  ASSUME TypeInv, HandlesInv, MessagesInv, last.calls = last.due, [Next]_vars
  PROVE  (last.calls = last.due)'
<1>1. ReadMessage \/ last' = last
  <2>1. CASE Application
    <3>1. ASSUME NEW t \in Topics, CheckAndSub(t)
          PROVE  last' = last
      BY <3>1, CheckIs
    <3>2. CASE \/ service_mqtt_topic_check_and_sub \/ system_mqtt_result_topic_check_and_sub
               \/ ota_mqtt_update_topic_check_and_sub \/ broadcast_check_and_sub \/ data_template_topic_check_and_sub
      BY <3>1, <3>2, AllTopics DEF service_mqtt_topic_check_and_sub, system_mqtt_result_topic_check_and_sub,
           ota_mqtt_update_topic_check_and_sub, broadcast_check_and_sub, data_template_topic_check_and_sub
    <3>3. CASE (\E api \in apis : Call(api)) \/ MallocFails \/ service_mqtt_service_register \/ InitReturns \/ PublishTime
      BY <3>3 DEF Call, MallocFails, service_mqtt_service_register, InitReturns, PublishTime
    <3>4. CASE IOT_FileManage_Deinit \/ IOT_Broadcast_Deinit \/ IOT_OTA_Deinit \/ IOT_DataTemplate_Deinit
      BY <3>4 DEF IOT_FileManage_Deinit, Deinit, IOT_Broadcast_Deinit, IOT_OTA_Deinit, IOT_DataTemplate_Deinit
    <3> QED
      BY <2>1, <3>2, <3>3, <3>4 DEF Application
  <2>2. CASE Yield
    BY <2>2 DEF Yield, YieldIdle, YieldSubscribe, YieldWait, WaitReturns, Elapses, ReadSuback, ReadUnsuback,
                UnsubExpires, Reconnect, TakeTime
  <2>3. CASE Environment
    BY <2>3, BrokerIs DEF Environment, BrokerSends
  <2>4. CASE UNCHANGED vars
    BY <2>4 DEF vars
  <2> QED
    BY <2>1, <2>2, <2>3, <2>4 DEF Next
<1> QED
  BY <1>1, MessageCalls

ReachedInv == SettledInv /\ HandlesInv /\ MessagesInv /\ last.calls = last.due

\* However services are initialised, ended and initialised again, whenever memory runs out
\* and connections are lost, the topic of each service that has not ended leads to it, the
\* broker knows the topic or is about to, and a message calls back what it is for.
THEOREM ServicesStayReached == Spec => []ServicesAreReached
<1>1. Init => ReachedInv
  <2> SUFFICES ASSUME Init
               PROVE  ReachedInv
    OBVIOUS
  <2>1. SettledInv
    BY DEF Init, SettledInv, NoHandle
  <2>2. MessagesInv
    BY DEF Init, MessagesInv
  <2>3. last.calls = last.due
    BY DEF Init
  <2> QED
    BY <2>1, <2>2, <2>3, HandlesInit DEF ReachedInv
<1>2. BaseInv /\ ReachedInv /\ [Next]_vars => ReachedInv'
  <2> SUFFICES ASSUME BaseInv, ReachedInv, [Next]_vars
               PROVE  ReachedInv'
    OBVIOUS
  <2>1. SettledInv' /\ HandlesInv' /\ MessagesInv'
    BY SettledStep, HandlesStep, MessagesStep DEF BaseInv, ReachedInv
  <2>2. (last.calls = last.due)'
    BY CallsStep DEF BaseInv, ReachedInv
  <2> QED
    BY <2>1, <2>2 DEF ReachedInv
<1>3. ReachedInv => ServicesAreReached
  <2> SUFFICES ASSUME ReachedInv, NEW t \in Topics, registered[t] # <<>>
               PROVE  /\ sub_handles[t].context # 0
                      /\ IF t = "service" THEN service_list[sub_handles[t].context] = registered[t]
                                          ELSE sub_handles[t].context = Head(registered[t])
                      /\ requests = <<>> => t \in granted
    BY DEF ReachedInv, ServicesAreReached
  <2>1. sub_handles[t].context # 0 /\ LeadsTo(t, sub_handles[t].context)
    BY DEF ReachedInv, HandlesInv
  <2>2. Settled(requests, granted, t)
    BY <2>1 DEF ReachedInv, SettledInv
  <2>3. requests = <<>> => Asks(requests, t) = {}
    BY DEF Asks
  <2> QED
    BY <2>1, <2>2, <2>3 DEF LeadsTo, Settled
<1> QED
  BY <1>1, <1>2, <1>3, TypeCorrect, PTL DEF Spec
=============================================================================
