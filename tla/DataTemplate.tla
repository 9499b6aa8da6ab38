----------------------------- MODULE DataTemplate -----------------------------
(***************************************************************************)
(* The data template: the properties of a device, which the cloud controls *)
(* and the device reports, and the actions the cloud asks for.  The main   *)
(* loop of the application yields, reads messages in callbacks, and        *)
(* reports what has changed.  Every message is sent with QoS 0, and the    *)
(* link may break under them; the client notices it later.                 *)
(*                                                                         *)
(* A text is <<n>>, a number, or <<>>, one that is no number.              *)
(***************************************************************************)
EXTENDS Integers, Sequences, FiniteSets, SequencesExt, Functions

CONSTANTS
    MaxMessages,    \* bound of the model: controls and actions of the cloud
    MaxNames,       \* bound of the model: properties in one control
    MaxSets,        \* bound of the model: values the application sets
    MaxBreaks       \* bound of the model: links that break

\* All begin with 0; the cloud sends 1 or a bad text, the application sets 2.
Texts  == {<<>>, <<1>>}
Values == {<<2>>}

\* One property of each kind: BOOL, ENUM and INT are alike, as are STRING and
\* STRING_ENUM.  The members of the struct are set together or not at all.
Types == [power_switch |-> "int", name |-> "string", position |-> "struct"]
Keys  == DOMAIN Types

\* The inputs of the one action, which are numbers.
action_id == <<"light", "_blink">>
Inputs    == {"time", "color"}

VARIABLES
    property,       \* sg_usr_data_template_property: value and need_report
    input,          \* sg_usr_action_light_blink_input: value and need_report
    pc,             \* main: it yields, or goes on to report
    running,        \* main has not ended
    link,           \* up, broken before the client knows, or down
    to_device,      \* messages on their way
    to_cloud,
    reported,       \* cloud: the values it was told
    control,        \* cloud: the control it keeps until it is cleared
    traffic,        \* bound of the model: the cloud sends controls or actions, which share no state
    messages,       \* counts, for the bounds
    sets,
    breaks,
    lost,           \* history: properties whose last report did not arrive
    refused,        \* history: properties with a change that a bad control hid
    blink           \* history: what the action was done with, and asked for with

device == <<property, input>>
cloud  == <<reported, control>>
counts == <<traffic, messages, sets, breaks>>
vars   == <<device, pc, running, link, to_device, to_cloud, cloud, counts, lost, refused, blink>>

NoParams == [k \in {} |-> <<>>]

\* usr_data_template_init, _usr_init; main asks for the status before it yields.
Init ==
    /\ property = [k \in Keys |-> [value |-> <<0>>, need_report |-> TRUE]]
    /\ input = [k \in Inputs |-> [value |-> <<0>>, need_report |-> FALSE]]
    /\ pc = "yield" /\ running = TRUE
    /\ link = "up"
    /\ to_device = <<>>
    /\ to_cloud = <<[method |-> "get_status", params |-> NoParams]>>
    /\ reported = [k \in Keys |-> <<>>]
    /\ control = NoParams
    /\ traffic \in {"control", "action"}
    /\ messages = 0 /\ sets = 0 /\ breaks = 0
    /\ lost = {} /\ refused = {}
    /\ blink = [done |-> FALSE, used |-> NoParams, given |-> NoParams]

-------------------------------------------------------------------------------
(* Operators of data_template_config.c. *)

\* _set_property_value: a string takes any text; the members of a struct are read from
\* the text of the whole.
Sets(type, text) == type = "string" \/ text # <<>>

\* _parse_property_array
Parsed(properties, types, params) ==
    [k \in DOMAIN properties |->
        IF k \notin DOMAIN params THEN properties[k]
        ELSE IF Sets(types[k], params[k]) THEN [value |-> params[k], need_report |-> TRUE]
        ELSE [properties[k] EXCEPT !.need_report = FALSE]]

Pending(properties) == {k \in DOMAIN properties : properties[k].need_report}

\* The step that resets need_report in usr_data_template_action_parse.
Reset_None(inputs) == inputs
Reset(inputs)      == [k \in Inputs |-> [inputs[k] EXCEPT !.need_report = FALSE]]

\* The properties that a message of the device tells the cloud.
Tells(m) == IF m.method = "report" THEN DOMAIN m.params ELSE {}

\* A message is sent: on a link that broke it is lost, and QoS 0 does not tell.
Publish(m) ==
    /\ to_cloud' = IF link = "up" THEN Append(to_cloud, m) ELSE to_cloud
    /\ lost' = IF link = "up" THEN lost \ Tells(m) ELSE lost \cup Tells(m)

Message(method, params) == [method |-> method, params |-> params]

\* _usr_init made the value of a string point to a literal: to copy into it again
\* stops the program, or goes well where literals can be written.
Stops ==
    /\ running' = FALSE
    /\ UNCHANGED <<device, pc, link, to_device, to_cloud, cloud, counts, lost, refused, blink>>

-------------------------------------------------------------------------------
(* The callbacks of a yield. *)

Receives(method) ==
    /\ running /\ pc = "yield"
    /\ to_device # <<>> /\ Head(to_device).method = method
    /\ to_device' = Tail(to_device)

\* usr_data_template_property_parse
Parse(params) ==
    LET Bad == {k \in DOMAIN params : ~Sets(Types[k], params[k])} IN
    /\ property' = Parsed(property, Types, params)
    /\ refused' = (refused \ (DOMAIN params \ Bad)) \cup (Bad \cap Pending(property))

\* _method_control_callback.  It replies before it parses; the replies, of which the
\* cloud keeps nothing, are left out here and in ReadAction.
ReadControl ==
    LET params == Head(to_device).params IN
    /\ Receives("control")
    /\ Parse(params)
    /\ UNCHANGED <<input, pc, running, link, to_cloud, cloud, counts, lost, blink>>

\* _method_get_status_reply_callback clears what it was told, with or without a control.
ReadStatus ==
    LET params == Head(to_device).params IN
    /\ Receives("get_status_reply")
    /\ Publish(Message("clear_control", NoParams))
    /\ Parse(params)
    /\ UNCHANGED <<input, pc, running, link, cloud, counts, blink>>

\* A method for which the application has no callback, or a payload that lacks a field.
ReadIgnored ==
    /\ Receives("report_reply")
    /\ UNCHANGED <<device, pc, running, link, to_cloud, cloud, counts, lost, refused, blink>>

ParseStops ==
    /\ running /\ pc = "yield"
    /\ to_device # <<>> /\ Head(to_device).method \in {"control", "get_status_reply"}
    /\ "name" \in DOMAIN Head(to_device).params
    /\ Stops

\* _method_action_callback: what the action is done with.
ActionDone(inputs, m) ==
    [done |-> TRUE, used |-> [k \in Inputs |-> inputs[k].value], given |-> m.params]

\* _method_action_callback, usr_data_template_action_parse: the id need only begin the
\* action's; every input must be set.
ReadAction ==
    LET m == Head(to_device)
        inputs == Parsed(Reset(input), [k \in Inputs |-> "int"], m.params)
    IN
    /\ Receives("action")
    /\ IF IsPrefix(m.id, action_id)
       THEN /\ input' = inputs
            /\ blink' = IF Pending(inputs) = Inputs THEN ActionDone(inputs, m) ELSE blink
       ELSE UNCHANGED <<input, blink>>
    /\ UNCHANGED <<property, pc, running, link, to_cloud, cloud, counts, lost, refused>>

-------------------------------------------------------------------------------
(* The loop of main. *)

YieldReturns ==
    /\ running /\ pc = "yield" /\ link # "down"
    /\ pc' = "report"
    /\ UNCHANGED <<device, running, link, to_device, to_cloud, cloud, counts, lost, refused, blink>>

\* QCLOUD_ERR_MQTT_ATTEMPTING_RECONNECT: the loop goes on without a report.
NoticesLoss ==
    /\ running /\ pc = "yield" /\ link = "broken"
    /\ link' = "down"
    /\ to_device' = <<>>
    /\ UNCHANGED <<device, pc, running, to_cloud, cloud, counts, lost, refused, blink>>

\* QCLOUD_RET_MQTT_RECONNECTED: the control of the meantime is asked for.
Reconnected ==
    /\ running /\ pc = "yield" /\ link = "down"
    /\ link' = "up" /\ pc' = "report"
    /\ to_device' = <<>>
    /\ to_cloud' = Append(to_cloud, Message("get_status", NoParams))
    /\ UNCHANGED <<device, running, cloud, counts, lost, refused, blink>>

\* Any other code: the loop ends.
GivesUp ==
    /\ running /\ pc = "yield" /\ link = "down"
    /\ Stops

\* usr_data_template_property_value_set
value_set_Silent(k, v) == property' = [property EXCEPT ![k].value = v]
value_set(k, v)        == property' = [property EXCEPT ![k] = [value |-> v, need_report |-> TRUE]]

\* usr_data_template_property_struct_value_set: the value is not stored.
struct_value_set(k) == property' = [property EXCEPT ![k].need_report = TRUE]

UserSets(k, v) ==
    /\ running /\ pc = "report"
    /\ sets < MaxSets
    /\ sets' = sets + 1
    /\ IF Types[k] = "struct" THEN struct_value_set(k) ELSE value_set(k, v)
    /\ refused' = refused \ {k}
    /\ UNCHANGED <<input, pc, running, link, to_device, to_cloud, cloud, traffic, messages, breaks, lost, blink>>

UserSetStops == running /\ pc = "report" /\ sets < MaxSets /\ Stops

\* usr_data_template_property_report
Report ==
    /\ running /\ pc = "report"
    /\ pc' = "yield"
    /\ property' = [k \in Keys |-> [property[k] EXCEPT !.need_report = FALSE]]
    /\ IF Pending(property) = {} THEN UNCHANGED <<to_cloud, lost>>
       ELSE Publish(Message("report", [k \in Pending(property) |-> property[k].value]))
    /\ UNCHANGED <<input, running, link, to_device, cloud, counts, refused, blink>>

-------------------------------------------------------------------------------
(* The cloud and the link, while main runs. *)

\* A control is kept, and sent if the device is connected.
CloudControls(params) ==
    /\ running /\ traffic = "control" /\ messages < MaxMessages
    /\ messages' = messages + 1
    /\ control' = params
    /\ to_device' = IF link = "up" THEN Append(to_device, Message("control", params)) ELSE to_device
    /\ UNCHANGED <<device, pc, running, link, to_cloud, reported, traffic, sets, breaks, lost, refused, blink>>

CloudAsks(id, params) ==
    /\ running /\ traffic = "action" /\ messages < MaxMessages
    /\ link = "up"
    /\ messages' = messages + 1
    /\ to_device' = Append(to_device, [method |-> "action", id |-> id, params |-> params])
    /\ UNCHANGED <<device, pc, running, link, to_cloud, cloud, traffic, sets, breaks, lost, refused, blink>>

CloudReads ==
    LET m == Head(to_cloud) IN
    /\ running /\ to_cloud # <<>>
    /\ to_cloud' = Tail(to_cloud)
    /\ reported' = IF m.method = "report" THEN [k \in Keys |-> IF k \in DOMAIN m.params THEN m.params[k] ELSE reported[k]] ELSE reported
    /\ control' = IF m.method = "clear_control" THEN NoParams ELSE control
    /\ to_device' = IF link # "up" THEN to_device
                    ELSE to_device \o CASE m.method = "get_status" -> <<Message("get_status_reply", control)>>
                                         [] m.method = "report" -> <<Message("report_reply", NoParams)>>
                                         [] OTHER -> <<>>
    /\ UNCHANGED <<device, pc, running, link, counts, lost, refused, blink>>

\* What was on its way may arrive in part.
Breaks ==
    /\ running /\ link = "up" /\ breaks < MaxBreaks
    /\ breaks' = breaks + 1
    /\ link' = "broken"
    /\ \E n \in 0..Len(to_cloud), i \in 0..Len(to_device) :
         /\ to_cloud' = SubSeq(to_cloud, 1, n)
         /\ to_device' = SubSeq(to_device, 1, i)
         /\ lost' = lost \cup UNION {Tells(to_cloud[j]) : j \in n + 1..Len(to_cloud)}
    /\ UNCHANGED <<device, pc, running, cloud, traffic, messages, sets, refused, blink>>

-------------------------------------------------------------------------------
\* At most n of the names.
Params(names, n) == UNION {[S -> Texts] : S \in {T \in SUBSET names : Cardinality(T) <= n}}

Next ==
    \/ ReadControl \/ ReadStatus \/ ReadAction \/ ReadIgnored \/ ParseStops
    \/ YieldReturns \/ NoticesLoss \/ Reconnected \/ GivesUp
    \/ \E k \in Keys, v \in Values : UserSets(k, v)
    \/ UserSetStops \/ Report
    \/ \E params \in Params(Keys, MaxNames) : CloudControls(params)
    \/ \E id \in {action_id, <<"light">>, <<"other">>}, params \in Params(Inputs, 2) : CloudAsks(id, params)
    \/ CloudReads \/ Breaks

Spec == Init /\ [][Next]_vars

-------------------------------------------------------------------------------
(* Properties. *)

\* What the cloud knows of a property when it has read what is on its way.
Told(k) ==
    LET with == {i \in DOMAIN to_cloud : k \in Tells(to_cloud[i])} IN
    IF with = {} THEN reported[k] ELSE to_cloud[CHOOSE i \in with : \A j \in with : j <= i].params[k]

\* However controls, the application's own changes, reports and links that break
\* interleave, the cloud knows the value of every property, or will with the next report.
\* There are two ways out: a report sent on a link that is not up any more, and a change
\* whose flag a control with an unreadable value clears.
ReportedAgrees ==
    \A k \in Keys : \/ property[k].need_report \/ k \in lost \cup refused
                    \/ Told(k) = property[k].value

\* An action is done with the inputs of its own message: one that lacks an input, or has
\* an unreadable one, is not done with what an earlier message left there.
ActionInputsAreNew ==
    blink.done => \A k \in Inputs : k \in DOMAIN blink.given /\ blink.used[k] = blink.given[k]
===============================================================================
