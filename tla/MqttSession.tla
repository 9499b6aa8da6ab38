------------------------------ MODULE MqttSession ------------------------------
(***************************************************************************)
(* The connection of the MQTT client: connect, keep alive, detection of a  *)
(* lost link, and reconnection with back-off, as driven by one thread that *)
(* constructs the client, calls yield again and again and may destroy it.  *)
(*                                                                         *)
(* Time is counted in ticks, and a timer is the number of ticks it has     *)
(* left.  Time passes while the client waits: in a read, in the opening of *)
(* the connection, in the loop that waits for reconnect_delay_timer, and   *)
(* while the application is away from yield.  Everything else takes none.  *)
(***************************************************************************)
EXTENDS Integers, FiniteSets

CONSTANTS
    KeepAlive,            \* options.keep_alive_interval
    CommandTimeout,       \* command_timeout_ms
    YieldTimeout,         \* timeout_ms of yield
    MaxAway,              \* how long the application stays away from yield
    Waits,                \* what (rand() % 100 + 100) * 10 can be
    MaxWait,              \* MAX_RECONNECT_WAIT_INTERVAL
    Modes,                \* how the client is constructed
    Tls,                  \* the network stack is TLS, not TCP
    Refusals,             \* return codes of CONNACK other than "accepted"
    Unreadable,           \* the broker may send packets that cannot be read
    Topics,               \* topic filters the application subscribes
    MaxSockets            \* bound of the model: descriptors that are open

ASSUME SessionAssumption ==
    /\ KeepAlive \in Nat
    /\ CommandTimeout \in Nat \ {0}
    /\ YieldTimeout \in Nat \ {0}
    /\ MaxAway \in Nat
    /\ Waits \subseteq Nat \ {0} /\ Waits # {} /\ IsFiniteSet(Waits)
    /\ MaxWait \in Nat
    /\ Modes \subseteq {"auto",    \* it connects when constructed and reconnects by itself
                    "lazy",    \* it connects and reconnects in yield
                    "manual"}  \* the application connects it
    /\ {Tls, Unreadable} \subseteq BOOLEAN
    /\ Refusals \subseteq 1..5
    /\ MaxSockets \in Nat \ {0}

\* Return codes.  A refused connection returns the code of CONNACK, and
\* QCLOUD_RET_MQTT_RECONNECTED is 1.
Success      == 0
Reconnected  == 1
Error        == -1
ManuallyDisconnected == 2
NoConn       == -104
Attempting   == -105
GaveUp       == -106
Codes        == 0..5 \cup {Error, NoConn, Attempting, GaveUp}

PingRetryTimes == 2                          \* MQTT_PING_RETRY_TIMES

Longest(a, b) == IF a > b THEN a ELSE b
MinWait       == CHOOSE w \in Waits : \A v \in Waits : w <= v

VARIABLES
    pc,                              \* where the thread is
    caller,                          \* who called qcloud_iot_mqtt_connect
    is_connected,
    was_manually_disconnected,
    auto_connect_enable,
    is_ping_outstanding,
    ping_timer,
    current_reconnect_wait_interval,
    reconnect_delay_timer,
    timer,                           \* the timer of yield
    wait,                            \* how long opening the connection may take
    rc,                              \* rc of yield, and what it returned
    net,                             \* the link: closed, up, dead (silent) or reset
    sockets,                         \* descriptors that are open
    handles,                         \* topic filters in sub_handles
    todo,                            \* those resubscribe has not sent yet
    requested,                       \* history: SUBSCRIBEs sent on this connection
    owed,                            \* history: a connection not announced as lost yet
    silence,                         \* history: ticks since the broker was heard
    since,                           \* history: ticks since the last attempt failed
    due,                             \* history: how long after a failed attempt the next may begin
    away                             \* ticks since yield returned

connVars   == <<is_connected, was_manually_disconnected, auto_connect_enable, owed>>
pingVars   == <<is_ping_outstanding, ping_timer, silence>>
retryVars  == <<current_reconnect_wait_interval, reconnect_delay_timer, since, due>>
netVars    == <<net, sockets>>
topicVars  == <<handles, todo, requested>>
clockVars  == <<timer, wait, away>>

vars == <<pc, caller, connVars, pingVars, retryVars, netVars, topicVars, clockVars, rc>>

-------------------------------------------------------------------------------
(* Time. *)

\* Beyond these the histories need not count.
MaxSilence == Longest(KeepAlive, CommandTimeout) + 2 * CommandTimeout
              + 3 * (YieldTimeout + MaxAway - 1) + 1
MaxSince   == 2 * MaxWait + 1

Down(t)    == IF t = 0 THEN 0 ELSE t - 1
Up(t, max) == IF t = max THEN max ELSE t + 1

\* The least delay of the next attempt: after the first that failed, two first intervals.
Doubled(d) ==
    LET twice == 2 * (IF d = 0 THEN MinWait ELSE d)
    IN  IF twice > MaxSince THEN MaxSince ELSE twice

Waiting ==
    \/ pc = "app" /\ away < MaxAway
    \/ pc = "read" /\ timer > 0
    \/ pc \in {"dial", "connack"} /\ wait > 0
    \/ pc = "loop" /\ ~is_connected /\ rc = Attempting /\ timer > 0 /\ reconnect_delay_timer > 0

Tick ==
    /\ Waiting
    /\ ping_timer' = Down(ping_timer)
    /\ reconnect_delay_timer' = Down(reconnect_delay_timer)
    /\ timer' = Down(timer)
    /\ wait' = Down(wait)
    /\ silence' = Up(silence, MaxSilence)
    /\ since' = Up(since, MaxSince)
    /\ away' = IF pc = "app" THEN away + 1 ELSE away
    /\ UNCHANGED <<pc, caller, connVars, is_ping_outstanding, current_reconnect_wait_interval,
                   due, netVars, topicVars, rc>>

-------------------------------------------------------------------------------
(* The network stack. *)

\* The link fails without a word, or with an error for the reader.
LinkFails ==
    /\ net = "up"
    /\ net' \in {"dead", "reset"}
    /\ UNCHANGED <<pc, caller, connVars, pingVars, retryVars, sockets, topicVars, clockVars, rc>>

\* network_stack.disconnect.  HAL_TCP_Disconnect leaves the descriptor open when
\* shutdown fails, which it may when the peer has reset the connection.
Disconnect_KeepsSocket == net' = "closed" /\ UNCHANGED sockets
Disconnect ==
    /\ net' = "closed"
    /\ \/ net = "closed" /\ UNCHANGED sockets
       \/ net # "closed" /\ sockets' = sockets - 1
       \/ net = "reset" /\ ~Tls /\ UNCHANGED sockets

-------------------------------------------------------------------------------
(* qcloud_iot_mqtt_connect, for its four callers. *)

Dial(c) ==
    /\ pc' = "dial"
    /\ caller' = c
    /\ wait' = CommandTimeout

\* _qcloud_iot_mqtt_client_init clears the client.
Construct ==
    /\ pc = "none"
    /\ \E mode \in Modes :
          /\ auto_connect_enable' = (mode # "manual")
          /\ IF mode = "auto" THEN Dial("construct") ELSE pc' = "app" /\ UNCHANGED <<caller, wait>>
    /\ rc' = Success
    /\ UNCHANGED <<is_connected, was_manually_disconnected, owed, pingVars, retryVars, netVars, topicVars, timer, away>>

DialOk ==
    /\ pc = "dial"
    /\ sockets < MaxSockets
    /\ net' = "up"
    /\ sockets' = sockets + 1
    /\ pc' = "hello"
    /\ UNCHANGED <<caller, connVars, pingVars, retryVars, topicVars, clockVars, rc>>

Fails(r) ==
    /\ pc' = "close"
    /\ rc' = r

DialFails ==
    /\ pc = "dial"
    /\ Fails(Error)
    /\ UNCHANGED <<caller, connVars, pingVars, retryVars, netVars, topicVars, clockVars>>

SendConnect ==
    /\ pc = "hello"
    /\ \/ pc' = "connack" /\ wait' = CommandTimeout /\ UNCHANGED rc
       \/ net # "up" /\ Fails(Error) /\ UNCHANGED wait
    /\ UNCHANGED <<caller, connVars, pingVars, retryVars, netVars, topicVars, timer, away>>

\* qcloud_iot_mqtt_wait_for_read: CONNACK is read, or the time is over or a read fails.
WaitForRead(got) == IF got THEN net = "up" ELSE wait = 0 \/ net # "up"

\* There is no CONNACK, or the broker refuses.
NoConnack ==
    /\ pc = "connack"
    /\ \/ WaitForRead(FALSE) /\ Fails(Error)
       \/ WaitForRead(TRUE) /\ \E c \in Refusals : Fails(c)
    /\ UNCHANGED <<caller, connVars, pingVars, retryVars, netVars, topicVars, clockVars>>

ConnectedAt == [construct |-> "app", connect |-> "app", callback |-> "disconnect_cb", yield |-> "resub"]

\* A new connection is a clean session: the broker knows none of the topics.
Connack ==
    /\ pc = "connack"
    /\ WaitForRead(TRUE)
    /\ is_connected' = TRUE
    /\ was_manually_disconnected' = FALSE
    /\ UNCHANGED auto_connect_enable
    /\ is_ping_outstanding' = 0
    /\ ping_timer' = KeepAlive
    /\ pc' = ConnectedAt[caller]
    /\ rc' = Success
    /\ todo' = IF caller = "yield" THEN handles ELSE {}
    /\ requested' = {}
    /\ owed' = TRUE
    /\ silence' = 0
    /\ UNCHANGED <<caller, retryVars, netVars, handles, clockVars>>

\* IOT_MQTT_Connect; a client that is connected already returns at once.
Connect ==
    /\ pc = "app"
    /\ ~is_connected
    /\ Dial("connect")
    /\ UNCHANGED <<connVars, pingVars, retryVars, netVars, topicVars, timer, away, rc>>

\* The same from the callback of MQTT_EVENT_DISCONNECT.
ConnectInCallback ==
    /\ pc = "disconnect_cb"
    /\ ~is_connected
    /\ Dial("callback")
    /\ UNCHANGED <<connVars, pingVars, retryVars, netVars, topicVars, timer, away, rc>>

\* The attempt failed: the connection is closed and the error goes to the caller.
CloseForApplication ==
    /\ pc = "close"
    /\ caller # "yield"
    /\ Disconnect
    /\ pc' = [construct |-> "none", connect |-> "app", callback |-> "disconnect_cb"][caller]
    /\ UNCHANGED <<caller, connVars, pingVars, retryVars, topicVars, clockVars, rc>>

\* _qcloud_iot_mqtt_client_deinit: what is released has the values the next client has.
Deinit ==
    /\ is_connected' = FALSE
    /\ was_manually_disconnected' = FALSE
    /\ auto_connect_enable' = FALSE
    /\ owed' = FALSE
    /\ is_ping_outstanding' = 0
    /\ ping_timer' = 0
    /\ silence' = 0
    /\ current_reconnect_wait_interval' = 0
    /\ reconnect_delay_timer' = 0
    /\ since' = 0
    /\ due' = 0
    /\ handles' = {}
    /\ todo' = {}
    /\ requested' = {}
    /\ timer' = 0
    /\ wait' = 0
    /\ away' = 0
    /\ rc' = Success
    /\ caller' = "construct"

\* IOT_MQTT_Destroy disconnects, by force if need be, and releases the client.
Destroy ==
    /\ pc = "app"
    /\ Disconnect
    /\ Deinit
    /\ pc' = "none"

\* The application subscribes a topic, which needs a connection, or unsubscribes
\* one (see qcloud_iot_mqtt_subscribe for what can fail).
Subscribe(t) ==
    /\ pc = "app"
    /\ is_connected
    /\ handles' = handles \cup {t}
    /\ requested' = requested \cup {t}
    /\ UNCHANGED <<pc, caller, connVars, pingVars, retryVars, netVars, todo, clockVars, rc>>

Unsubscribe(t) ==
    /\ pc = "app"
    /\ is_connected
    /\ handles' = handles \ {t}
    /\ requested' = requested \ {t}
    /\ UNCHANGED <<pc, caller, connVars, pingVars, retryVars, netVars, todo, clockVars, rc>>

-------------------------------------------------------------------------------
(* _handle_reconnect. *)

\* interval *= 2 after an attempt that failed.
Backoff_Constant(w) == w
Backoff(w)          == 2 * w

\* The rest of _handle_reconnect once attempt_reconnect has returned r.
Attempted(r) ==
    IF r = Reconnected
    THEN /\ pc' = "reconnect_cb"
         /\ UNCHANGED <<current_reconnect_wait_interval, reconnect_delay_timer>>
         /\ rc' = Reconnected
    ELSE /\ pc' = "loop"
         /\ current_reconnect_wait_interval' = Backoff(current_reconnect_wait_interval)
         /\ IF current_reconnect_wait_interval' > MaxWait
            THEN rc' = GaveUp /\ UNCHANGED reconnect_delay_timer
            ELSE rc' = Attempting /\ reconnect_delay_timer' = current_reconnect_wait_interval'

CloseForYield ==
    /\ pc = "close"
    /\ caller = "yield"
    /\ Disconnect
    /\ Attempted(rc)
    /\ since' = 0
    /\ due' = Doubled(due)
    /\ UNCHANGED <<caller, connVars, pingVars, topicVars, clockVars>>

\* qcloud_iot_mqtt_resubscribe sends one SUBSCRIBE per handle.
HandlesLeft_None == {}
HandlesLeft      == todo

Resubscribe(t) ==
    /\ pc = "resub"
    /\ t \in HandlesLeft
    /\ todo' = todo \ {t}
    /\ requested' = requested \cup {t}
    /\ UNCHANGED <<pc, caller, connVars, pingVars, retryVars, netVars, handles, clockVars, rc>>

\* A SUBSCRIBE could not be sent: the attempt counts as failed, but the client
\* stays connected.
ResubscribeFails ==
    /\ pc = "resub"
    /\ HandlesLeft # {}
    /\ net # "up"
    /\ Attempted(Error)
    /\ todo' = {}
    /\ since' = 0
    /\ UNCHANGED <<caller, connVars, pingVars, due, netVars, handles, requested, clockVars>>

Resubscribed ==
    /\ pc = "resub"
    /\ HandlesLeft = {}
    /\ Attempted(Reconnected)
    /\ todo' = {}
    /\ UNCHANGED <<caller, connVars, pingVars, since, due, netVars, handles, requested, clockVars>>

\* The callback of MQTT_EVENT_RECONNECT returns.
ReconnectCallbackReturns ==
    /\ pc = "reconnect_cb"
    /\ pc' = "loop"
    /\ UNCHANGED <<caller, connVars, pingVars, retryVars, netVars, topicVars, clockVars, rc>>

-------------------------------------------------------------------------------
(* qcloud_iot_mqtt_yield. *)

\* yield returns r to the application.
YieldReturns(r) ==
    /\ pc' = "app"
    /\ rc' = r
    /\ away' = 0

MayReconnect_Always == ~was_manually_disconnected
MayReconnect        == auto_connect_enable /\ ~was_manually_disconnected

YieldRefused ==
    /\ pc = "app"
    /\ ~is_connected
    /\ ~MayReconnect
    /\ YieldReturns(IF was_manually_disconnected THEN ManuallyDisconnected ELSE NoConn)
    /\ UNCHANGED <<caller, connVars, pingVars, retryVars, netVars, topicVars, timer, wait>>

YieldBegin ==
    /\ pc = "app"
    /\ is_connected \/ MayReconnect
    /\ timer' = YieldTimeout
    /\ rc' = Success
    /\ pc' = "loop"
    /\ UNCHANGED <<caller, connVars, pingVars, retryVars, netVars, topicVars, wait, away>>

YieldEnd ==
    /\ pc = "loop"
    /\ timer = 0
    /\ YieldReturns(rc)
    /\ UNCHANGED <<caller, connVars, pingVars, retryVars, netVars, topicVars, timer, wait>>

LoopGaveUp ==
    /\ pc = "loop"
    /\ timer > 0
    /\ ~is_connected
    /\ current_reconnect_wait_interval > MaxWait
    /\ YieldReturns(GaveUp)
    /\ UNCHANGED <<caller, connVars, pingVars, retryVars, netVars, topicVars, timer, wait>>

\* _handle_reconnect, called in a loop until the timer has run out.
DelayOver_NotChecked == TRUE
DelayOver            == reconnect_delay_timer = 0

LoopWait ==
    /\ pc = "loop"
    /\ timer > 0
    /\ ~is_connected
    /\ current_reconnect_wait_interval <= MaxWait
    /\ ~DelayOver
    /\ rc # Attempting
    /\ rc' = Attempting
    /\ UNCHANGED <<pc, caller, connVars, pingVars, retryVars, netVars, topicVars, clockVars>>

LoopAttempt ==
    /\ pc = "loop"
    /\ timer > 0
    /\ ~is_connected
    /\ current_reconnect_wait_interval <= MaxWait
    /\ DelayOver
    /\ Dial("yield")
    /\ UNCHANGED <<connVars, pingVars, retryVars, netVars, topicVars, timer, away, rc>>

LoopRead ==
    /\ pc = "loop"
    /\ timer > 0
    /\ is_connected
    /\ pc' = "read"
    /\ UNCHANGED <<caller, connVars, pingVars, retryVars, netVars, topicVars, clockVars, rc>>

\* The read waits for as long as yield has left.
ReadNothing ==
    /\ pc = "read"
    /\ timer = 0
    /\ net # "reset"
    /\ pc' = "keepalive"
    /\ UNCHANGED <<caller, connVars, pingVars, retryVars, netVars, topicVars, clockVars, rc>>

\* PUBACK, SUBACK, UNSUBACK and PINGRESP.  The handler may return an error, such
\* as a refused subscription, with which yield returns.
PingAnswered == is_ping_outstanding' = 0 /\ ping_timer' = KeepAlive

ReadAck ==
    /\ pc = "read"
    /\ net = "up"
    /\ PingAnswered
    /\ silence' = 0
    /\ \/ pc' = "keepalive" /\ UNCHANGED <<rc, away>>
       \/ YieldReturns(Error)
    /\ UNCHANGED <<caller, connVars, retryVars, netVars, topicVars, timer, wait>>

\* A message proves that the link is alive but leaves ping_timer running.  Its
\* PUBACK cannot be sent when the link has failed after it arrived.
ReadPublish ==
    /\ pc = "read"
    /\ net \in {"up", "reset"}
    /\ is_ping_outstanding' = 0
    /\ silence' = 0
    /\ \/ net = "up" /\ pc' = "keepalive" /\ UNCHANGED <<rc, away>>
       \/ net = "reset" /\ pc' = "lost" /\ UNCHANGED <<rc, away>>
       \/ net = "reset" /\ YieldReturns(Error)
    /\ UNCHANGED <<caller, connVars, ping_timer, retryVars, netVars, topicVars, timer, wait>>

\* A packet that is longer than read_buf or of no known type: yield returns.
ReadUnreadable ==
    /\ Unreadable
    /\ pc = "read"
    /\ net = "up"
    /\ silence' = 0
    /\ YieldReturns(Error)
    /\ UNCHANGED <<caller, connVars, is_ping_outstanding, ping_timer, retryVars, netVars, topicVars,
                   timer, wait>>

\* The peer has closed the connection, or it broke off in the middle of a packet.
ReadFails_Silently ==
    /\ pc = "read"
    /\ net # "up"
    /\ Disconnect
    /\ is_connected' = FALSE
    /\ YieldReturns(NoConn)
    /\ UNCHANGED <<caller, was_manually_disconnected, auto_connect_enable, owed, pingVars, retryVars, topicVars, timer, wait>>

ReadFails ==
    /\ pc = "read"
    /\ net # "up"
    /\ pc' = "lost"
    /\ UNCHANGED <<caller, connVars, pingVars, retryVars, netVars, topicVars, clockVars, rc>>

(* _mqtt_keep_alive. *)

PingDue == KeepAlive # 0 /\ ping_timer = 0

PingsLost_OneFewer == is_ping_outstanding >= PingRetryTimes - 1
PingsLost_OneMore  == is_ping_outstanding > PingRetryTimes
PingsLost          == is_ping_outstanding >= PingRetryTimes

NoPingDue ==
    /\ pc = "keepalive"
    /\ ~PingDue
    /\ pc' = "loop"
    /\ rc' = Success
    /\ UNCHANGED <<caller, connVars, pingVars, retryVars, netVars, topicVars, clockVars>>

GiveUpLink ==
    /\ pc = "keepalive"
    /\ PingDue
    /\ PingsLost
    /\ pc' = "lost"
    /\ UNCHANGED <<caller, connVars, pingVars, retryVars, netVars, topicVars, clockVars, rc>>

\* qcloud_iot_mqtt_pingreq: its attempts all fail only on a link that has failed.
Pingreq(sent) == sent \/ net # "up"

Ping ==
    /\ pc = "keepalive"
    /\ PingDue
    /\ ~PingsLost
    /\ \/ /\ Pingreq(TRUE)
          /\ is_ping_outstanding' = is_ping_outstanding + 1
          /\ ping_timer' = CommandTimeout
          /\ rc' = Success
          /\ pc' = "loop"
       \/ /\ Pingreq(FALSE)
          /\ pc' = "lost"
          /\ UNCHANGED <<is_ping_outstanding, ping_timer, rc>>
    /\ UNCHANGED <<caller, connVars, silence, retryVars, netVars, topicVars, clockVars>>

\* qcloud_iot_mqtt_disconnect closes the connection when DISCONNECT could be sent; its
\* callers close it by force when not.
QcloudDisconnect(sent) ==
    /\ Disconnect
    /\ is_connected' = FALSE
    /\ IF sent THEN was_manually_disconnected' = TRUE
       ELSE net # "up" /\ UNCHANGED was_manually_disconnected

\* _handle_disconnect up to the callback of MQTT_EVENT_DISCONNECT.
HandleDisconnect ==
    /\ pc = "lost"
    /\ \E sent \in BOOLEAN : QcloudDisconnect(sent)
    /\ owed' = FALSE
    /\ pc' = "disconnect_cb"
    /\ UNCHANGED <<caller, auto_connect_enable, pingVars, retryVars, topicVars, clockVars, rc>>

\* _set_reconnect_wait_interval.
ClearManual == was_manually_disconnected' = FALSE

DisconnectCallbackReturns ==
    /\ pc = "disconnect_cb"
    /\ ClearManual
    /\ IF auto_connect_enable
       THEN \E w \in Waits : current_reconnect_wait_interval' = w /\ reconnect_delay_timer' = w
       ELSE UNCHANGED <<current_reconnect_wait_interval, reconnect_delay_timer>>
    /\ since' = 0
    /\ due' = 0
    /\ YieldReturns(IF auto_connect_enable THEN Attempting ELSE NoConn)
    /\ UNCHANGED <<caller, is_connected, auto_connect_enable, owed, pingVars, netVars, topicVars, timer, wait>>

-------------------------------------------------------------------------------
Init ==
    /\ pc = "none"
    /\ caller = "construct"
    /\ is_connected = FALSE
    /\ was_manually_disconnected = FALSE
    /\ auto_connect_enable = FALSE
    /\ is_ping_outstanding = 0
    /\ ping_timer = 0
    /\ current_reconnect_wait_interval = 0
    /\ reconnect_delay_timer = 0
    /\ timer = 0
    /\ wait = 0
    /\ rc = Success
    /\ net = "closed"
    /\ sockets = 0
    /\ handles = {}
    /\ todo = {}
    /\ requested = {}
    /\ owed = FALSE
    /\ silence = 0
    /\ since = 0
    /\ due = 0
    /\ away = 0

Application ==
    \/ Construct \/ Destroy \/ Connect \/ ConnectInCallback
    \/ \E t \in Topics : Subscribe(t) \/ Unsubscribe(t)

Opening ==
    \/ DialOk \/ DialFails \/ SendConnect \/ NoConnack \/ Connack
    \/ CloseForApplication \/ CloseForYield
    \/ (\E t \in Topics : Resubscribe(t)) \/ ResubscribeFails \/ Resubscribed
    \/ ReconnectCallbackReturns

Yield ==
    \/ YieldRefused \/ YieldBegin \/ YieldEnd
    \/ LoopGaveUp \/ LoopWait \/ LoopAttempt \/ LoopRead
    \/ ReadNothing \/ ReadAck \/ ReadPublish \/ ReadUnreadable \/ ReadFails
    \/ NoPingDue \/ GiveUpLink \/ Ping
    \/ HandleDisconnect \/ DisconnectCallbackReturns

Next == Application \/ Opening \/ Yield \/ LinkFails \/ Tick

Spec == Init /\ [][Next]_vars

\* The application keeps calling yield, the steps of a call are taken, and time
\* passes even when packets arrive without pause.  Nothing is assumed of the
\* network, the broker or the application's other calls.
Fairness ==
    /\ WF_vars(Opening)
    /\ WF_vars(Yield)
    /\ SF_vars(YieldBegin)
    /\ SF_vars(Tick)

FairSpec == Spec /\ Fairness

-------------------------------------------------------------------------------
(* Properties. *)

TypeOK ==
    /\ pc \in {"none", "app", "dial", "hello", "connack", "close", "resub", "reconnect_cb",
               "loop", "read", "keepalive", "lost", "disconnect_cb"}
    /\ caller \in {"construct", "connect", "callback", "yield"}
    /\ is_connected \in BOOLEAN /\ was_manually_disconnected \in BOOLEAN
    /\ auto_connect_enable \in BOOLEAN /\ owed \in BOOLEAN
    /\ is_ping_outstanding \in 0..PingRetryTimes
    /\ ping_timer \in 0..Longest(KeepAlive, CommandTimeout)
    /\ current_reconnect_wait_interval \in Nat /\ reconnect_delay_timer \in Nat
    /\ timer \in 0..YieldTimeout
    /\ wait \in 0..CommandTimeout
    /\ rc \in Codes
    /\ net \in {"closed", "up", "dead", "reset"}
    /\ sockets \in 0..MaxSockets
    /\ handles \subseteq Topics /\ todo \subseteq Topics /\ requested \subseteq Topics
    /\ silence \in 0..MaxSilence
    /\ since \in 0..MaxSince
    /\ due \in 0..MaxSince
    /\ away \in 0..MaxAway

\* A connection that failed, was refused, was lost or was given up is closed, and
\* a connected client has its one socket: no path of connect, reconnect,
\* disconnect and destroy leaves a descriptor behind or dials over an open one.
\* (The types of the variables, with the bounds of the counters, are part of it.)
NoSocketLeft ==
    /\ TypeOK
    /\ is_connected => net # "closed"
    /\ (pc \in {"none", "app", "loop", "dial", "disconnect_cb"} /\ ~is_connected) => sockets = 0
    /\ sockets <= 1

\* When yield returns, or tries to reconnect, every connection that has ended has
\* been announced by MQTT_EVENT_DISCONNECT; and it is never taken for one the user
\* has made: yield returns QCLOUD_RET_MQTT_MANUALLY_DISCONNECTED for no client that
\* should reconnect.
LossIsAnnounced ==
    /\ (pc \in {"app", "loop", "dial"} /\ ~is_connected) => ~owed
    /\ pc \in {"app", "loop"} => ~was_manually_disconnected

\* MQTT_EVENT_RECONNECT is raised for a client that is connected and has asked the
\* broker again for every topic in sub_handles; and one for which yield returns
\* success or QCLOUD_RET_MQTT_RECONNECTED is connected (rc is set by no other call
\* but connect, which fails with an error).
ReconnectedIsReady ==
    /\ pc = "reconnect_cb" => is_connected /\ handles \subseteq requested
    /\ (pc = "loop" /\ timer = 0 /\ rc \in {Success, Reconnected}) => is_connected

\* A link that has gone silent is noticed: a client that is connected has heard
\* from the broker within the keep alive interval, the answer times of two pings,
\* and three times (less than) the time from one check of ping_timer to the next.
SilenceBounded ==
    (is_connected /\ KeepAlive # 0) =>
        silence <= Longest(KeepAlive, CommandTimeout) + 2 * CommandTimeout
                   + 3 * (YieldTimeout + MaxAway - 1)

\* A working link is not given up before two pings in a row have gone unanswered
\* for the command timeout, whatever else arrives that the client can read.
GiveUpIsJustified ==
    [][(pc = "keepalive" /\ pc' = "lost" /\ net = "up") => silence >= 2 * CommandTimeout]_vars

\* Attempt n + 1 of an outage starts at least 2^n first intervals after attempt n
\* has failed.
BackoffGrows == (pc = "dial" /\ caller = "yield") => since >= due

\* An outage ends: the client is connected again, gives up or is destroyed.
OutageEnds ==
    (pc = "app" /\ ~is_connected) ~>
        (is_connected \/ rc = GaveUp \/ pc = "none")

\* The connection is being opened for caller c.
OpeningFor(c) == pc \in {"dial", "hello", "connack", "close"} /\ caller = c

\* The connection as the application is told of it.
Told ==
    IF pc = "none" \/ OpeningFor("construct") THEN "none"
    ELSE IF pc = "reconnect_cb" THEN "announcing"
    ELSE IF pc = "resub" THEN "resuming"
    ELSE IF is_connected THEN "up"
    ELSE IF pc = "disconnect_cb" \/ OpeningFor("callback") THEN "lost"
    ELSE IF auto_connect_enable /\ current_reconnect_wait_interval > MaxWait THEN "gave_up"
    ELSE "down"

Promised == INSTANCE SessionPromise WITH
    client <- Told,
    auto   <- Told # "none" /\ auto_connect_enable,
    topics <- handles,
    asked  <- IF is_connected THEN requested ELSE {}

\* The client keeps what is promised of its connection.
SessionAsPromised == Promised!Spec
===============================================================================
