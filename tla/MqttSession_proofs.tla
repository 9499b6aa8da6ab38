------------------------- MODULE MqttSession_proofs -------------------------
(***************************************************************************)
(* What holds of MqttSession for intervals, timeouts and delays of every   *)
(* length.  Each invariant of the session has its own strengthening, on    *)
(* top of BaseInv: the types, and what each point of the program knows of  *)
(* the connection.                                                         *)
(***************************************************************************)
EXTENDS MqttSession, SequenceFacts, TLAPS

\* An open connection has its descriptor.
LinkIsOpen == net # "closed" => sockets > 0

\* Who is where with a connection, and who without.
LinkInv ==
    /\ pc \in {"resub", "read", "keepalive", "lost"} => is_connected
    /\ pc \in {"none", "dial", "hello", "connack", "close"} => ~is_connected
    /\ is_connected => net # "closed"
    /\ pc \in {"none", "app", "dial", "loop", "disconnect_cb", "reconnect_cb"} /\ ~is_connected
          => net = "closed"
    /\ pc \in {"hello", "connack"} => net # "closed"
    /\ pc = "resub" => caller = "yield"

BaseInv == TypeOK /\ LinkIsOpen /\ LinkInv

LEMMA LeastWait == MinWait \in Waits /\ MinWait \in Nat \ {0} /\ \A w \in Waits : MinWait <= w
<1>1. Waits \in SUBSET Nat /\ Waits # {} /\ 0 \notin Waits
  BY SessionAssumption DEF SessionAssumption
<1>2. \E w \in Waits : \A v \in Waits : w <= v
  BY <1>1, LeastElement
<1> QED
  BY <1>1, <1>2 DEF MinWait

\* The bounds of the histories and timers.
LEMMA Bounds ==
  /\ MaxSilence \in Nat /\ MaxSince \in Nat
  /\ \A d \in 0..MaxSince : Doubled(d) \in 0..MaxSince
  /\ Longest(KeepAlive, CommandTimeout) \in Nat
  /\ KeepAlive <= Longest(KeepAlive, CommandTimeout)
  /\ CommandTimeout <= Longest(KeepAlive, CommandTimeout)
BY SessionAssumption, LeastWait
   DEF SessionAssumption, MaxSilence, MaxSince, Doubled, Longest

\* A code of CONNACK or of the client.
LEMMA CodesOfConnect == \A c \in Refusals \cup {Error} : c \in Codes
BY SessionAssumption DEF SessionAssumption, Codes, Error

\* The flags are Boolean: apart, because no prover takes them with the rest.
Flags ==
    /\ is_connected \in BOOLEAN /\ was_manually_disconnected \in BOOLEAN
    /\ auto_connect_enable \in BOOLEAN /\ owed \in BOOLEAN

LEMMA InitBase == Init => BaseInv
<1> SUFFICES ASSUME Init PROVE BaseInv
  OBVIOUS
<1>1. Flags
  BY DEF Init, Flags
<1>2. TypeOK
  BY <1>1, Bounds, SessionAssumption
     DEF Flags, SessionAssumption, Init, TypeOK, Codes, Success, PingRetryTimes
<1>3. LinkIsOpen /\ LinkInv
  BY DEF Init, LinkIsOpen, LinkInv
<1> QED
  BY <1>2, <1>3 DEF BaseInv

LEMMA FlagsStep ==
  ASSUME Flags, Next
  PROVE  Flags'
<1> USE DEF Flags, connVars
<1>1. CASE Construct
  BY <1>1 DEF Construct
<1>2. CASE Destroy
  BY <1>2 DEF Destroy, Deinit
<1>3. CASE Connack
  BY <1>3 DEF Connack
<1>4. CASE HandleDisconnect
  BY <1>4 DEF HandleDisconnect, QcloudDisconnect
<1>5. CASE DisconnectCallbackReturns
  BY <1>5 DEF DisconnectCallbackReturns, ClearManual
<1>6. CASE UNCHANGED connVars
  BY <1>6
<1>7. Construct \/ Destroy \/ Connack \/ HandleDisconnect \/ DisconnectCallbackReturns
      \/ UNCHANGED connVars
  BY DEF Next, Application, Opening, Yield, Tick, LinkFails, Connect, ConnectInCallback, Subscribe,
     Unsubscribe, DialOk, DialFails, SendConnect, NoConnack, CloseForApplication, CloseForYield,
     Resubscribe, ResubscribeFails, Resubscribed, ReconnectCallbackReturns, YieldRefused, YieldBegin,
     YieldEnd, LoopGaveUp, LoopWait, LoopAttempt, LoopRead, ReadNothing, ReadAck, ReadPublish,
     ReadUnreadable, ReadFails, NoPingDue, GiveUpLink, Ping
<1> QED
  BY <1>1, <1>2, <1>3, <1>4, <1>5, <1>6, <1>7

LEMMA BaseStep ==
  ASSUME BaseInv, [Next]_vars
  PROVE  BaseInv'
<1>1. CASE UNCHANGED vars
  BY <1>1 DEF vars, connVars, pingVars, retryVars, netVars, topicVars, clockVars,
              BaseInv, TypeOK, LinkIsOpen, LinkInv
<1> SUFFICES ASSUME Next PROVE BaseInv'
  BY <1>1
<1>2. Flags'
  BY FlagsStep DEF BaseInv, TypeOK, Flags
<1> USE <1>2, SessionAssumption, Bounds, CodesOfConnect
        DEF SessionAssumption, BaseInv, TypeOK, LinkIsOpen, LinkInv, Flags,
            connVars, pingVars, retryVars, netVars, topicVars, clockVars
<1>3. CASE Construct
  BY <1>3 DEF Construct, Dial, Success, Codes
<1>4. CASE Destroy
  BY <1>4 DEF Destroy, Deinit, Disconnect, Success, Codes, PingRetryTimes
<1>5. CASE Connect
  BY <1>5 DEF Connect, Dial
<1>6. CASE ConnectInCallback
  BY <1>6 DEF ConnectInCallback, Dial
<1>7. ASSUME NEW t \in Topics, Subscribe(t) \/ Unsubscribe(t)
      PROVE  BaseInv'
  BY <1>7 DEF Subscribe, Unsubscribe
<1>8. CASE DialOk
  BY <1>8 DEF DialOk
<1>9. CASE DialFails
  BY <1>9 DEF DialFails, Fails
<1>10. CASE SendConnect
  BY <1>10 DEF SendConnect, Fails, Error, Codes
<1>11. CASE NoConnack
  BY <1>11 DEF NoConnack, Fails
<1>12. CASE Connack
  BY <1>12 DEF Connack, ConnectedAt, WaitForRead, Success, Codes, PingRetryTimes
<1>13. CASE CloseForApplication
  BY <1>13 DEF CloseForApplication, Disconnect
<1>14. CASE CloseForYield
  BY <1>14 DEF CloseForYield, Disconnect, Attempted, Backoff, Reconnected, GaveUp, Attempting, Codes
<1>15. CASE ResubscribeFails
  BY <1>15 DEF ResubscribeFails, Attempted, Backoff, Error, Reconnected, GaveUp, Attempting, Codes
<1>16. CASE Resubscribed
  BY <1>16 DEF Resubscribed, Attempted, Reconnected, Codes
<1>17. CASE ReconnectCallbackReturns
  BY <1>17 DEF ReconnectCallbackReturns
<1>18. ASSUME NEW t \in Topics, Resubscribe(t)
      PROVE  BaseInv'
  BY <1>18 DEF Resubscribe
<1>19. CASE YieldRefused
  BY <1>19 DEF YieldRefused, YieldReturns, NoConn, ManuallyDisconnected, Codes
<1>20. CASE YieldBegin
  BY <1>20 DEF YieldBegin, Success, Codes
<1>21. CASE YieldEnd
  BY <1>21 DEF YieldEnd, YieldReturns
<1>22. CASE LoopGaveUp
  BY <1>22 DEF LoopGaveUp, YieldReturns, GaveUp, Codes
<1>23. CASE LoopWait
  BY <1>23 DEF LoopWait, Attempting, Codes
<1>24. CASE LoopAttempt
  BY <1>24 DEF LoopAttempt, Dial
<1>25. CASE LoopRead
  BY <1>25 DEF LoopRead
<1>26. CASE ReadNothing
  BY <1>26 DEF ReadNothing
<1>27. CASE ReadAck
  BY <1>27 DEF ReadAck, PingAnswered, YieldReturns, Error, Codes, PingRetryTimes
<1>28. CASE ReadPublish
  BY <1>28 DEF ReadPublish, YieldReturns, Error, Codes, PingRetryTimes
<1>29. CASE ReadUnreadable
  BY <1>29 DEF ReadUnreadable, YieldReturns, Error, Codes
<1>30. CASE ReadFails
  BY <1>30 DEF ReadFails
<1>31. CASE NoPingDue
  BY <1>31 DEF NoPingDue, Success, Codes
<1>32. CASE GiveUpLink
  BY <1>32 DEF GiveUpLink
<1>33. CASE Ping
  BY <1>33 DEF Ping, PingDue, Pingreq, PingsLost, PingRetryTimes, Success, Codes
<1>34. CASE HandleDisconnect
  BY <1>34 DEF HandleDisconnect, QcloudDisconnect, Disconnect
<1>35. CASE DisconnectCallbackReturns
  BY <1>35 DEF DisconnectCallbackReturns, YieldReturns, NoConn, Attempting, Codes
<1>36. CASE LinkFails
  BY <1>36 DEF LinkFails
<1>37. CASE Tick
  BY <1>37 DEF Tick, Waiting, Down, Up
<1> QED
  BY <1>3, <1>4, <1>5, <1>6, <1>7, <1>8, <1>9, <1>10, <1>11, <1>12, <1>13, <1>14, <1>15,
     <1>16, <1>17, <1>18, <1>19, <1>20, <1>21, <1>22, <1>23, <1>24, <1>25, <1>26, <1>27,
     <1>28, <1>29, <1>30, <1>31, <1>32, <1>33, <1>34, <1>35, <1>36, <1>37
     DEF Next, Application, Opening, Yield

\* Type correctness, and what each point of the program knows of the connection.
THEOREM TypeCorrect == Spec => []BaseInv
<1>1. Init => BaseInv
  BY InitBase
<1>2. BaseInv /\ [Next]_vars => BaseInv'
  BY BaseStep
<1> QED
  BY <1>1, <1>2, PTL DEF Spec

-----------------------------------------------------------------------------
(* Sockets.  TLS closes what it disconnects. *)

SocketInv == sockets = IF net = "closed" THEN 0 ELSE 1

LEMMA SocketStep ==
  ASSUME BaseInv, SocketInv, Tls, [Next]_vars
  PROVE  SocketInv'
<1> USE DEF SocketInv
<1>1. CASE Disconnect
  BY <1>1, SessionAssumption DEF Disconnect, SessionAssumption
<1>2. CASE DialOk
  BY <1>2 DEF DialOk, BaseInv, LinkInv
<1>3. CASE LinkFails
  BY <1>3 DEF LinkFails
<1>4. CASE UNCHANGED netVars
  BY <1>4 DEF netVars
<1>5. Disconnect \/ DialOk \/ LinkFails \/ UNCHANGED netVars
  BY DEF Next, vars, Application, Opening, Yield, Construct, Destroy, Connect, ConnectInCallback,
     Subscribe, Unsubscribe, DialFails, SendConnect, NoConnack, Connack, CloseForApplication,
     CloseForYield, Resubscribe, ResubscribeFails, Resubscribed, ReconnectCallbackReturns, YieldRefused,
     YieldBegin, YieldEnd, LoopGaveUp, LoopWait, LoopAttempt, LoopRead, ReadNothing, ReadAck,
     ReadPublish, ReadUnreadable, ReadFails, NoPingDue, GiveUpLink, Ping, HandleDisconnect,
     QcloudDisconnect, DisconnectCallbackReturns, Tick
<1> QED
  BY <1>1, <1>2, <1>3, <1>4, <1>5

\* Over TLS no path of connect, reconnect, disconnect and destroy leaves a descriptor behind
\* or dials over an open one.  (HAL_TCP_Disconnect may: see Disconnect.)
THEOREM SocketsAreClosed ==
  ASSUME Tls
  PROVE  Spec => []NoSocketLeft
<1>1. Init => SocketInv
  BY DEF Init, SocketInv
<1>2. BaseInv /\ SocketInv /\ [Next]_vars => SocketInv'
  BY SocketStep
<1>3. BaseInv /\ SocketInv => NoSocketLeft
  BY DEF BaseInv, LinkInv, SocketInv, NoSocketLeft, TypeOK
<1> QED
  BY <1>1, <1>2, <1>3, TypeCorrect, PTL DEF Spec

-----------------------------------------------------------------------------
(* Losses. *)

\* Only the callback of MQTT_EVENT_DISCONNECT, and what it calls, sees the flag that
\* _handle_disconnect sets by calling the function of the user's own disconnect.
LossInv ==
    /\ owed => is_connected
    /\ was_manually_disconnected =>
         \/ pc = "disconnect_cb"
         \/ pc \in {"dial", "hello", "connack", "close"} /\ caller = "callback"

LEMMA LossStep ==
  ASSUME BaseInv, LossInv, [Next]_vars
  PROVE  LossInv'
<1> USE DEF LossInv, connVars
<1>1. CASE Construct \/ Destroy \/ Connect \/ ConnectInCallback \/ CloseForApplication
  BY <1>1 DEF Construct, Destroy, Deinit, Connect, ConnectInCallback, CloseForApplication, Dial
<1>2. CASE pc \in {"dial", "hello", "connack"} /\ pc' \in {"hello", "connack", "close"}
           /\ UNCHANGED <<connVars, caller>>
  BY <1>2
<1>3. CASE Connack
  BY <1>3 DEF Connack
<1>4. CASE HandleDisconnect
  BY <1>4 DEF HandleDisconnect, QcloudDisconnect
<1>5. CASE DisconnectCallbackReturns
  BY <1>5 DEF DisconnectCallbackReturns, ClearManual
<1>6. CASE UNCHANGED connVars /\ ~ was_manually_disconnected
  BY <1>6
<1>7. CASE UNCHANGED <<connVars, pc, caller>>
  BY <1>7
<1>8. \/ Construct \/ Destroy \/ Connect \/ ConnectInCallback \/ CloseForApplication
      \/ pc \in {"dial", "hello", "connack"} /\ pc' \in {"hello", "connack", "close"}
         /\ UNCHANGED <<connVars, caller>>
      \/ Connack \/ HandleDisconnect \/ DisconnectCallbackReturns
      \/ UNCHANGED connVars /\ ~ was_manually_disconnected
      \/ UNCHANGED <<connVars, pc, caller>>
  BY DEF Next, vars, Application, Opening, Yield, Subscribe, Unsubscribe, DialOk, DialFails, SendConnect,
     NoConnack, Fails,
     CloseForYield, Resubscribe, ResubscribeFails, Resubscribed, ReconnectCallbackReturns, YieldRefused,
     YieldBegin, YieldEnd, LoopGaveUp, LoopWait, LoopAttempt, LoopRead, ReadNothing, ReadAck,
     ReadPublish, ReadUnreadable, ReadFails, NoPingDue, GiveUpLink, Ping, LinkFails, Tick
<1> QED
  BY <1>1, <1>2, <1>3, <1>4, <1>5, <1>6, <1>7, <1>8

\* Every connection that ends is announced, and none is taken for one the user has ended.
THEOREM LossesAreAnnounced == Spec => []LossIsAnnounced
<1>1. Init => LossInv
  BY DEF Init, LossInv
<1>2. BaseInv /\ LossInv /\ [Next]_vars => LossInv'
  BY LossStep
<1>3. LossInv => LossIsAnnounced
  BY DEF LossInv, LossIsAnnounced
<1> QED
  BY <1>1, <1>2, <1>3, TypeCorrect, PTL DEF Spec

-----------------------------------------------------------------------------
(* Reconnections.  A code of CONNACK that equals QCLOUD_RET_MQTT_RECONNECTED is excluded. *)

ReadyInv ==
    /\ pc = "close" => rc # Reconnected
    /\ pc = "resub" => handles \subseteq requested \cup todo
    /\ pc = "reconnect_cb" => is_connected /\ handles \subseteq requested
    /\ pc = "loop" /\ rc \in {Success, Reconnected} /\ ~is_connected => timer > 0

LEMMA ReadyStep ==
  ASSUME BaseInv, ReadyInv, Reconnected \notin Refusals, [Next]_vars
  PROVE  ReadyInv'
<1> USE DEF ReadyInv, Success, Reconnected
<1>1. CASE \E c \in Refusals \cup {Error} : Fails(c)
  BY <1>1 DEF Fails, Error
<1>2. CASE Connack
  BY <1>2 DEF Connack, ConnectedAt, BaseInv, TypeOK
<1>3. CASE CloseForYield
  BY <1>3 DEF CloseForYield, Attempted, Attempting, GaveUp
<1>4. ASSUME NEW t \in Topics, Resubscribe(t)
      PROVE  ReadyInv'
  BY <1>4 DEF Resubscribe
<1>5. CASE ResubscribeFails
  BY <1>5 DEF ResubscribeFails, Attempted, Attempting, GaveUp, Error, connVars, BaseInv, LinkInv
<1>6. CASE Resubscribed
  BY <1>6 DEF Resubscribed, HandlesLeft, Attempted, connVars, topicVars, BaseInv, LinkInv
<1>7. CASE ReconnectCallbackReturns
  BY <1>7 DEF ReconnectCallbackReturns, connVars
<1>8. CASE YieldBegin
  BY <1>8, SessionAssumption DEF YieldBegin, SessionAssumption
<1>9. CASE NoPingDue \/ Ping
  BY <1>9 DEF NoPingDue, Ping, connVars, BaseInv, LinkInv
<1>10. CASE Tick
  BY <1>10 DEF Tick, Waiting, Down, connVars, topicVars, BaseInv, TypeOK, Attempting
<1>11. CASE LoopWait
  BY <1>11 DEF LoopWait, Attempting
<1>12. CASE pc' \notin {"close", "resub", "reconnect_cb", "loop"}
  BY <1>12
<1>13. CASE UNCHANGED <<pc, rc, timer, connVars, topicVars>>
  BY <1>13 DEF connVars, topicVars
<1>14. CASE Application
  <2>1. pc' \in {"none", "app", "dial"}
    BY <1>14 DEF Application, Construct, Destroy, Connect, ConnectInCallback, Dial, Subscribe, Unsubscribe
  <2> QED
    BY <1>12, <2>1
<1>15. CASE Opening
  <2>1. CASE DialOk
    BY <1>12, <2>1 DEF DialOk
  <2>2. CASE DialFails
    BY <1>1, <2>2 DEF DialFails
  <2>3. CASE SendConnect
    BY <1>1, <1>12, <2>3 DEF SendConnect
  <2>4. CASE NoConnack
    BY <1>1, <2>4 DEF NoConnack
  <2>5. CASE CloseForApplication
    BY <1>12, <2>5 DEF CloseForApplication, BaseInv, TypeOK
  <2> QED
    BY <1>2, <1>3, <1>4, <1>5, <1>6, <1>7, <1>15, <2>1, <2>2, <2>3, <2>4, <2>5 DEF Opening
<1>16. CASE Yield
  <2>1. \/ YieldBegin \/ NoPingDue \/ Ping \/ LoopWait
        \/ pc' \notin {"close", "resub", "reconnect_cb", "loop"}
    BY <1>16 DEF Yield, YieldRefused, YieldEnd, YieldReturns, LoopGaveUp, LoopAttempt, Dial, LoopRead,
       ReadNothing, ReadAck, ReadPublish, ReadUnreadable, ReadFails, GiveUpLink, HandleDisconnect,
       DisconnectCallbackReturns
  <2> QED
    BY <1>8, <1>9, <1>11, <1>12, <2>1
<1>17. CASE LinkFails
  BY <1>13, <1>17 DEF LinkFails, clockVars
<1>18. CASE UNCHANGED vars
  BY <1>13, <1>18 DEF vars, clockVars
<1> QED
  BY <1>10, <1>14, <1>15, <1>16, <1>17, <1>18 DEF Next

\* RECONNECT is raised for a connected client that has asked for all its topics again, and a
\* yield that returns success or QCLOUD_RET_MQTT_RECONNECTED leaves it connected, as long as no
\* broker refuses with the code that has the same number.
THEOREM ReconnectionsAreReady ==
  ASSUME Reconnected \notin Refusals
  PROVE  Spec => []ReconnectedIsReady
<1>1. Init => ReadyInv
  BY DEF Init, ReadyInv
<1>2. BaseInv /\ ReadyInv /\ [Next]_vars => ReadyInv'
  BY ReadyStep
<1>3. BaseInv /\ ReadyInv => ReconnectedIsReady
  BY DEF ReadyInv, ReconnectedIsReady, BaseInv, TypeOK
<1> QED
  BY <1>1, <1>2, <1>3, TypeCorrect, PTL DEF Spec

-----------------------------------------------------------------------------
(* Silence. *)

\* The time from one check of ping_timer to the next.
Gap == YieldTimeout + MaxAway - 1

\* What the silence and ping_timer come to, by how many pings are unanswered.
Allowed ==
    Longest(KeepAlive, CommandTimeout)
    + (IF is_ping_outstanding > 0 THEN CommandTimeout + Gap ELSE 0)
    + (IF is_ping_outstanding > 1 THEN CommandTimeout + Gap ELSE 0)

\* The time to the next check of ping_timer, at the most.
ToCheck ==
    IF pc = "app" THEN (MaxAway - away) + YieldTimeout
    ELSE IF pc \in {"loop", "read"} THEN timer
    ELSE 0

SilenceInv ==
    is_connected /\ KeepAlive # 0 =>
        /\ ping_timer > 0 => silence + ping_timer <= Allowed
        /\ ping_timer = 0 => silence + ToCheck <= Allowed + Gap
        /\ pc = "loop" /\ ping_timer = 0 => timer > 0
        /\ pc \in {"resub", "reconnect_cb", "disconnect_cb"} => ping_timer > 0

\* A ping is sent, or the link is lost.
LEMMA PingCases ==
  ASSUME is_ping_outstanding \in 0..PingRetryTimes, Ping
  PROVE  /\ pc = "keepalive" /\ ping_timer = 0 /\ is_ping_outstanding \in {0, 1}
         /\ UNCHANGED <<connVars, silence>>
         /\ \/ pc' = "lost" /\ UNCHANGED pingVars
            \/ /\ pc' = "loop"
               /\ ping_timer' = CommandTimeout
               /\ is_ping_outstanding' = is_ping_outstanding + 1
<1>1. pc = "keepalive" /\ ping_timer = 0 /\ UNCHANGED <<connVars, silence>>
  BY DEF Ping, PingDue
<1>2. is_ping_outstanding \in {0, 1}
  BY DEF Ping, PingsLost, PingRetryTimes
<1> QED
  BY <1>1, <1>2 DEF Ping, pingVars

LEMMA SilenceStep ==
  ASSUME BaseInv, BaseInv', SilenceInv, [Next]_vars
  PROVE  SilenceInv'
<1> USE SessionAssumption, Bounds
        DEF SessionAssumption, SilenceInv, BaseInv, TypeOK, LinkInv, Gap, Allowed, ToCheck, PingRetryTimes
<1>1. CASE ~is_connected'
  BY <1>1
<1>2. CASE Connack
  BY <1>2 DEF Connack, ConnectedAt
<1>3. CASE ReadAck
  BY <1>3 DEF ReadAck, PingAnswered, YieldReturns, connVars
<1>4. CASE ReadPublish
  BY <1>4 DEF ReadPublish, YieldReturns, connVars
<1>5. CASE ReadUnreadable
  BY <1>5 DEF ReadUnreadable, YieldReturns, connVars
<1>6. CASE Ping
  <2>1. CASE UNCHANGED <<is_connected, pingVars>> /\ pc' = "lost"
    BY <1>6, <2>1 DEF pingVars
  <2>2. CASE /\ is_connected' = is_connected /\ silence' = silence /\ pc = "keepalive" /\ pc' = "loop"
             /\ ping_timer = 0 /\ ping_timer' = CommandTimeout
             /\ is_ping_outstanding \in {0, 1} /\ is_ping_outstanding' = is_ping_outstanding + 1
    BY <2>2
  <2>3. is_ping_outstanding \in 0..PingRetryTimes
    OBVIOUS
  <2> HIDE DEF SilenceInv
  <2> QED
    BY <1>6, <2>1, <2>2, <2>3, PingCases DEF connVars
<1>7. CASE Tick
  BY <1>7 DEF Tick, Waiting, Down, Up, connVars
<1>8. CASE YieldBegin
  BY <1>8 DEF YieldBegin, connVars, pingVars
<1>9. CASE /\ UNCHANGED <<is_connected, pingVars, timer, away>>
           /\ \/ pc' = pc
              \/ pc' \in {"dial", "hello", "close", "keepalive", "lost"}
              \/ pc = "loop" /\ pc' = "read"
              \/ pc = "resub" /\ pc' \in {"reconnect_cb", "loop"}
              \/ pc = "reconnect_cb" /\ pc' = "loop"
              \/ pc = "keepalive" /\ pc' = "loop" /\ ~PingDue
  BY <1>9 DEF pingVars, PingDue
<1>10. CASE /\ UNCHANGED <<is_connected, pingVars, timer>>
            /\ pc' = "app" /\ away' = 0
            /\ \/ pc = "disconnect_cb"
               \/ pc = "loop" /\ timer = 0
  BY <1>10 DEF pingVars
<1>11. CASE Application
  <2>1. \/ ~is_connected'
        \/ UNCHANGED <<is_connected, pingVars, timer, away>> /\ pc' \in {pc, "dial"}
    BY <1>11 DEF Application, Construct, Destroy, Deinit, Connect, ConnectInCallback, Dial, Subscribe,
       Unsubscribe, connVars, clockVars
  <2> QED
    BY <1>1, <1>9, <2>1
<1>12. CASE Opening
  <2>1. CASE Connack
    BY <1>2, <2>1
  <2>2. CASE ~is_connected
    BY <1>1, <1>12, <2>1, <2>2 DEF Opening, DialOk, DialFails, SendConnect, NoConnack, CloseForApplication,
       CloseForYield, Resubscribe, ResubscribeFails, Resubscribed, ReconnectCallbackReturns, connVars
  <2>3. CASE is_connected /\ ~Connack
    BY <1>9, <1>12, <2>3 DEF Opening, DialOk, DialFails, SendConnect, NoConnack, CloseForApplication,
       CloseForYield, Resubscribe, ResubscribeFails, Resubscribed, ReconnectCallbackReturns, Attempted,
       connVars, clockVars
  <2> QED
    BY <2>1, <2>2, <2>3
<1>13. CASE Yield
  <2>1. CASE YieldRefused \/ LoopGaveUp \/ HandleDisconnect
    BY <1>1, <2>1 DEF YieldRefused, LoopGaveUp, HandleDisconnect, QcloudDisconnect, connVars
  <2>2. CASE YieldEnd \/ DisconnectCallbackReturns
    BY <1>10, <2>2 DEF YieldEnd, DisconnectCallbackReturns, YieldReturns, connVars
  <2>3. CASE \/ LoopWait \/ LoopAttempt \/ LoopRead \/ ReadNothing \/ ReadFails \/ NoPingDue \/ GiveUpLink
    BY <1>9, <2>3 DEF LoopWait, LoopAttempt, Dial, LoopRead, ReadNothing, ReadFails, NoPingDue, GiveUpLink,
       connVars, clockVars
  <2> QED
    BY <1>3, <1>4, <1>5, <1>6, <1>8, <1>13, <2>1, <2>2, <2>3 DEF Yield
<1>14. CASE LinkFails \/ UNCHANGED vars
  BY <1>9, <1>14 DEF LinkFails, vars, connVars, clockVars
<1> QED
  BY <1>7, <1>11, <1>12, <1>13, <1>14 DEF Next

\* A silent link is noticed within a bound, whatever the keep alive interval, the timeouts, the
\* packets that arrive and the links that fail: the check of ping_timer is never put off for longer
\* than a yield and an absence.
THEOREM SilenceIsBounded == Spec => []SilenceBounded
<1>1. Init => SilenceInv
  BY DEF Init, SilenceInv
<1>2. BaseInv /\ BaseInv' /\ SilenceInv /\ [Next]_vars => SilenceInv'
  BY SilenceStep
<1>3. BaseInv /\ SilenceInv => SilenceBounded
  BY SessionAssumption, Bounds
     DEF SessionAssumption, BaseInv, TypeOK, SilenceInv, SilenceBounded, Gap, Allowed, ToCheck, PingRetryTimes
<1> QED
  BY <1>1, <1>2, <1>3, TypeCorrect, PTL DEF Spec

-----------------------------------------------------------------------------
(* Pings.  Packets that cannot be read are excluded: they end the silence, not the count. *)

PingInv ==
    /\ is_ping_outstanding = 1 => silence + ping_timer >= CommandTimeout
    /\ is_ping_outstanding = 2 => silence + ping_timer >= 2 * CommandTimeout

LEMMA PingStep ==
  ASSUME BaseInv, PingInv, ~Unreadable, [Next]_vars
  PROVE  PingInv'
<1> USE SessionAssumption, Bounds
        DEF SessionAssumption, PingInv, BaseInv, TypeOK, PingRetryTimes
<1>1. CASE is_ping_outstanding' = 0
  BY <1>1
<1>2. CASE Ping
  <2>1. CASE UNCHANGED pingVars
    BY <2>1 DEF pingVars
  <2>2. CASE /\ silence' = silence /\ ping_timer = 0 /\ ping_timer' = CommandTimeout
             /\ is_ping_outstanding \in {0, 1} /\ is_ping_outstanding' = is_ping_outstanding + 1
    BY <2>2
  <2>3. is_ping_outstanding \in 0..PingRetryTimes
    OBVIOUS
  <2> HIDE DEF PingInv
  <2> QED
    BY <1>2, <2>1, <2>2, <2>3, PingCases
<1>3. CASE Tick
  BY <1>3 DEF Tick, Down, Up, MaxSilence
<1>4. CASE UNCHANGED pingVars
  BY <1>4 DEF pingVars
<1>5. is_ping_outstanding' = 0 \/ Ping \/ Tick \/ UNCHANGED pingVars
  BY DEF Next, vars, Application, Opening, Yield, Construct, Destroy, Deinit, Connect, ConnectInCallback,
     Subscribe, Unsubscribe, DialOk, DialFails, SendConnect, NoConnack, Connack, CloseForApplication,
     CloseForYield, Resubscribe, ResubscribeFails, Resubscribed, ReconnectCallbackReturns, YieldRefused,
     YieldBegin, YieldEnd, LoopGaveUp, LoopWait, LoopAttempt, LoopRead, ReadNothing, ReadAck, PingAnswered,
     ReadPublish, ReadUnreadable, ReadFails, NoPingDue, GiveUpLink, HandleDisconnect,
     DisconnectCallbackReturns, LinkFails
<1> QED
  BY <1>1, <1>2, <1>3, <1>4, <1>5

\* A working link is given up only when two pings have gone unanswered for the command timeout
\* each, as long as every packet that arrives can be read.
THEOREM WorkingLinkIsKept ==
  ASSUME ~Unreadable
  PROVE  Spec => GiveUpIsJustified
<1> DEFINE Justified == (pc = "keepalive" /\ pc' = "lost" /\ net = "up") => silence >= 2 * CommandTimeout
<1>1. Init => PingInv
  BY DEF Init, PingInv
<1>2. BaseInv /\ PingInv /\ [Next]_vars => PingInv'
  BY PingStep
<1>3. BaseInv /\ PingInv /\ [Next]_vars => [Justified]_vars
  <2> SUFFICES ASSUME BaseInv, PingInv, Next, pc = "keepalive", pc' = "lost", net = "up"
               PROVE  silence >= 2 * CommandTimeout
    BY DEF vars
  <2>1. PingDue /\ PingsLost
    BY DEF Next, Application, Opening, Yield, Construct, Destroy, Connect, ConnectInCallback, Subscribe,
       Unsubscribe, DialOk, DialFails, SendConnect, NoConnack, Connack, CloseForApplication, CloseForYield,
       Resubscribe, ResubscribeFails, Resubscribed, ReconnectCallbackReturns, YieldRefused, YieldBegin,
       YieldEnd, LoopGaveUp, LoopWait, LoopAttempt, LoopRead, ReadNothing, ReadAck, ReadPublish,
       ReadUnreadable, ReadFails, NoPingDue, GiveUpLink, Ping, Pingreq, HandleDisconnect,
       DisconnectCallbackReturns, LinkFails, Tick
  <2>2. is_ping_outstanding = 2 /\ ping_timer = 0
    BY <2>1 DEF PingDue, PingsLost, PingRetryTimes, BaseInv, TypeOK
  <2> QED
    BY <2>2, SessionAssumption, Bounds DEF SessionAssumption, PingInv, BaseInv, TypeOK
<1> QED
  BY <1>1, <1>2, <1>3, TypeCorrect, PTL DEF Spec, GiveUpIsJustified

-----------------------------------------------------------------------------
(* Back-off.  A client constructed without a connection is excluded: its first interval is 0. *)

Opens == {"dial", "hello", "connack", "close"}

\* The client is without its connection, and has an interval for the next attempt.
Retrying ==
    /\ auto_connect_enable /\ ~is_connected
    /\ \/ pc \in {"app", "loop"}
       \/ pc \in Opens /\ caller \in {"connect", "yield"}

BackoffInv ==
    /\ pc = "loop" /\ ~is_connected => auto_connect_enable
    /\ pc \in Opens /\ caller = "yield" =>
          /\ auto_connect_enable
          /\ current_reconnect_wait_interval <= MaxWait
          /\ due > 0 => since >= current_reconnect_wait_interval
    /\ Retrying =>
          /\ MinWait <= current_reconnect_wait_interval
          /\ due <= current_reconnect_wait_interval
          /\ due > 0 /\ current_reconnect_wait_interval <= MaxWait =>
                since + reconnect_delay_timer >= current_reconnect_wait_interval

\* After the least delay comes one at least twice as long, as far as the history counts.
LEMMA DoubledIsDouble ==
  ASSUME NEW d \in 0..MaxSince, NEW i \in Nat, MinWait <= i, d <= i
  PROVE  Doubled(d) <= 2 * i
BY LeastWait, Bounds DEF Doubled

LEMMA BackoffStep ==
  ASSUME BaseInv, BaseInv', ReadyInv, BackoffInv, "lazy" \notin Modes, [Next]_vars
  PROVE  BackoffInv'
<1> USE SessionAssumption, Bounds, LeastWait
        DEF SessionAssumption, BackoffInv, Retrying, Opens, BaseInv, TypeOK, LinkInv, connVars, retryVars
<1>1. CASE Construct
  BY <1>1 DEF Construct, Dial
<1>2. CASE Destroy
  BY <1>2 DEF Destroy, Deinit
<1>3. CASE is_connected'
  BY <1>3
<1>4. CASE CloseForYield
  <2>1. /\ current_reconnect_wait_interval' = 2 * current_reconnect_wait_interval
        /\ since' = 0 /\ due' = Doubled(due) /\ pc' = "loop"
        /\ UNCHANGED connVars
        /\ current_reconnect_wait_interval' <= MaxWait =>
              reconnect_delay_timer' = current_reconnect_wait_interval'
    BY <1>4 DEF CloseForYield, Attempted, Backoff, ReadyInv
  <2>2. Retrying
    BY <1>4 DEF CloseForYield
  <2>3. Doubled(due) <= 2 * current_reconnect_wait_interval
    BY <2>2, DoubledIsDouble
  <2>4. MinWait <= current_reconnect_wait_interval' /\ due' <= current_reconnect_wait_interval'
    BY <2>1, <2>2, <2>3
  <2>5. current_reconnect_wait_interval' <= MaxWait =>
           since' + reconnect_delay_timer' >= current_reconnect_wait_interval'
    BY <2>1
  <2>6. pc' = "loop" /\ auto_connect_enable'
    BY <2>1, <2>2
  <2> QED
    BY <2>4, <2>5, <2>6
<1>5. CASE LoopAttempt
  BY <1>5 DEF LoopAttempt, DelayOver, Dial
<1>6. CASE Tick
  BY <1>6 DEF Tick, Down, Up, MaxSince
<1>7. CASE DisconnectCallbackReturns
  BY <1>7 DEF DisconnectCallbackReturns, YieldReturns
<1>8. CASE /\ UNCHANGED <<is_connected, auto_connect_enable, retryVars>>
           /\ UNCHANGED <<pc, caller>>
  BY <1>8
<1>9. CASE /\ UNCHANGED <<is_connected, auto_connect_enable, retryVars>>
           /\ pc \in Opens /\ pc' \in Opens /\ caller' = caller
  BY <1>9
<1>10. CASE /\ UNCHANGED <<is_connected, auto_connect_enable, retryVars>>
            /\ \/ pc' \in {"none", "disconnect_cb"}
               \/ pc' = "dial" /\ caller' = "callback"
               \/ pc' = "app" /\ pc = "close" /\ caller = "connect"
               \/ pc' = "dial" /\ pc = "app" /\ caller' = "connect"
               \/ pc' = "app" /\ pc \in {"app", "loop"}
               \/ pc' = "loop" /\ pc = "app" /\ (is_connected \/ auto_connect_enable)
  BY <1>10
<1>11. CASE Application
  BY <1>1, <1>2, <1>8, <1>10, <1>11
     DEF Application, Connect, ConnectInCallback, Dial, Subscribe, Unsubscribe
<1>12. CASE Opening
  <2>1. CASE DialOk \/ DialFails \/ SendConnect \/ NoConnack
    BY <1>9, <2>1 DEF DialOk, DialFails, SendConnect, NoConnack, Fails
  <2>2. CASE CloseForApplication
    <3>1. caller = "construct" \/ caller = "connect" \/ caller = "callback"
      BY <2>2 DEF CloseForApplication
    <3> QED
      BY <1>10, <2>2, <3>1 DEF CloseForApplication
  <2>3. CASE Connack \/ Resubscribed \/ ResubscribeFails \/ ReconnectCallbackReturns
             \/ \E t \in Topics : Resubscribe(t)
    BY <1>3, <2>3 DEF Connack, Resubscribed, ResubscribeFails, ReconnectCallbackReturns, Resubscribe, ReadyInv
  <2> QED
    BY <1>4, <1>12, <2>1, <2>2, <2>3 DEF Opening
<1>13. CASE Yield
  <2>1. CASE YieldRefused \/ YieldBegin \/ YieldEnd \/ LoopGaveUp \/ LoopWait
    BY <1>8, <1>10, <2>1 DEF YieldRefused, YieldBegin, MayReconnect, YieldEnd, LoopGaveUp, LoopWait, YieldReturns
  <2>2. CASE LoopRead \/ ReadNothing \/ ReadAck \/ ReadPublish \/ ReadUnreadable \/ ReadFails
             \/ NoPingDue \/ GiveUpLink
    BY <1>3, <2>2 DEF LoopRead, ReadNothing, ReadAck, ReadPublish, ReadUnreadable, ReadFails, NoPingDue, GiveUpLink
  <2>3. CASE Ping
    BY <1>3, <2>3 DEF Ping
  <2>4. CASE HandleDisconnect
    BY <2>4 DEF HandleDisconnect
  <2> QED
    BY <1>5, <1>7, <1>13, <2>1, <2>2, <2>3, <2>4 DEF Yield
<1>14. CASE LinkFails \/ UNCHANGED vars
  BY <1>8, <1>14 DEF LinkFails, vars
<1> QED
  BY <1>6, <1>11, <1>12, <1>13, <1>14 DEF Next

\* The delay from one attempt of an outage to the next at least doubles, for a client that has
\* had a connection and a broker that does not refuse with the code of QCLOUD_RET_MQTT_RECONNECTED.
THEOREM BackoffIsExponential ==
  ASSUME "lazy" \notin Modes, Reconnected \notin Refusals
  PROVE  Spec => []BackoffGrows
<1>1. Init => ReadyInv /\ BackoffInv
  BY DEF Init, ReadyInv, BackoffInv, Retrying, Opens
<1>2. BaseInv /\ ReadyInv /\ [Next]_vars => ReadyInv'
  BY ReadyStep
<1>3. BaseInv /\ BaseInv' /\ ReadyInv /\ BackoffInv /\ [Next]_vars => BackoffInv'
  BY BackoffStep
<1>4. BaseInv /\ BackoffInv => BackoffGrows
  BY DEF BaseInv, TypeOK, LinkInv, BackoffInv, BackoffGrows, Retrying, Opens
<1> QED
  BY <1>1, <1>2, <1>3, <1>4, TypeCorrect, PTL DEF Spec

-----------------------------------------------------------------------------
(* The promise. *)

\* What the program knows besides, where it stands, of what the application was told.
PromiseInv ==
    /\ pc = "loop" /\ ~is_connected => auto_connect_enable
    /\ OpeningFor("yield") => auto_connect_enable /\ current_reconnect_wait_interval <= MaxWait
    /\ pc = "resub" => requested \subseteq handles /\ todo = handles \ requested
    /\ pc = "none" \/ OpeningFor("construct") => handles = {} /\ current_reconnect_wait_interval = 0
    /\ OpeningFor("construct") => auto_connect_enable

\* The state of SessionPromise, and what of it the program counter says.
ByItself == Told # "none" /\ auto_connect_enable
Asked    == IF is_connected THEN requested ELSE {}
Where ==
    IF pc = "none" \/ OpeningFor("construct") THEN "none"
    ELSE IF pc = "reconnect_cb" THEN "announcing"
    ELSE IF pc = "resub" THEN "resuming"
    ELSE IF pc = "disconnect_cb" \/ OpeningFor("callback") THEN "callback"
    ELSE "open"

\* A step the application is not told of.
Silent ==
    UNCHANGED <<Where, is_connected, auto_connect_enable, current_reconnect_wait_interval, handles, requested>>

LEMMA SilentStep ==
  ASSUME BaseInv, Silent
  PROVE  UNCHANGED <<Told, ByItself, handles, Asked>>
BY DEF Silent, Told, Where, ByItself, Asked, BaseInv, LinkInv

\* What tells the application something, and what does not.
LEMMA StepsThatTell ==
  ASSUME BaseInv, [Next]_vars
  PROVE  \/ Silent
         \/ Construct \/ Destroy \/ Connack \/ CloseForYield \/ ResubscribeFails \/ Resubscribed
         \/ ReconnectCallbackReturns \/ HandleDisconnect \/ DisconnectCallbackReturns
         \/ \E t \in Topics : Subscribe(t) \/ Unsubscribe(t) \/ Resubscribe(t)
<1> USE DEF Silent, Where, OpeningFor, connVars, retryVars, topicVars
<1>1. CASE UNCHANGED vars
  BY <1>1 DEF vars
<1>2. CASE Connect \/ ConnectInCallback \/ LoopAttempt
  BY <1>2 DEF Connect, ConnectInCallback, LoopAttempt, Dial
<1>3. CASE DialOk \/ DialFails \/ SendConnect \/ NoConnack
  BY <1>3 DEF DialOk, DialFails, SendConnect, NoConnack, Fails
<1>4. CASE CloseForApplication
  BY <1>4 DEF CloseForApplication, BaseInv, TypeOK
<1>5. CASE YieldRefused \/ YieldBegin \/ YieldEnd \/ LoopGaveUp \/ LoopWait \/ LoopRead
  BY <1>5 DEF YieldRefused, YieldBegin, YieldEnd, LoopGaveUp, LoopWait, LoopRead, YieldReturns
<1>6. CASE ReadNothing \/ ReadAck \/ ReadPublish \/ ReadUnreadable \/ ReadFails
  BY <1>6 DEF ReadNothing, ReadAck, ReadPublish, ReadUnreadable, ReadFails, YieldReturns
<1>7. CASE NoPingDue \/ GiveUpLink \/ Ping
  BY <1>7 DEF NoPingDue, GiveUpLink, Ping
<1>8. CASE LinkFails \/ Tick
  BY <1>8 DEF LinkFails, Tick
<1> QED
  BY <1>1, <1>2, <1>3, <1>4, <1>5, <1>6, <1>7, <1>8 DEF Next, Application, Opening, Yield

LEMMA PromiseInvStep ==
  ASSUME BaseInv, ReadyInv, PromiseInv, [Next]_vars
  PROVE  PromiseInv'
<1> USE DEF PromiseInv, OpeningFor, BaseInv, TypeOK, LinkInv, connVars, retryVars, topicVars
<1>1. CASE Construct
  BY <1>1 DEF Construct, Dial
<1>2. CASE Destroy
  BY <1>2 DEF Destroy, Deinit
<1>3. CASE Connect \/ ConnectInCallback \/ LoopAttempt
  BY <1>3 DEF Connect, ConnectInCallback, LoopAttempt, Dial
<1>4. ASSUME NEW t \in Topics, Subscribe(t) \/ Unsubscribe(t)
      PROVE  PromiseInv'
  BY <1>4 DEF Subscribe, Unsubscribe
<1>5. CASE DialOk \/ DialFails \/ SendConnect \/ NoConnack
  BY <1>5 DEF DialOk, DialFails, SendConnect, NoConnack, Fails
<1>6. CASE Connack
  BY <1>6 DEF Connack, ConnectedAt
<1>7. CASE CloseForApplication
  BY <1>7 DEF CloseForApplication
<1>8. CASE CloseForYield
  BY <1>8 DEF CloseForYield, Attempted
<1>9. ASSUME NEW t \in Topics, Resubscribe(t)
      PROVE  PromiseInv'
  BY <1>9 DEF Resubscribe, HandlesLeft
<1>10. CASE ResubscribeFails \/ Resubscribed
  BY <1>10 DEF ResubscribeFails, Resubscribed, Attempted
<1>11. CASE ReconnectCallbackReturns
  BY <1>11 DEF ReconnectCallbackReturns, ReadyInv
<1>12. CASE YieldBegin
  BY <1>12 DEF YieldBegin, MayReconnect
<1>13. CASE YieldRefused \/ YieldEnd \/ LoopGaveUp \/ LoopWait \/ LoopRead
  BY <1>13 DEF YieldRefused, YieldEnd, LoopGaveUp, LoopWait, LoopRead, YieldReturns
<1>14. CASE ReadNothing \/ ReadAck \/ ReadPublish \/ ReadUnreadable \/ ReadFails
  BY <1>14 DEF ReadNothing, ReadAck, ReadPublish, ReadUnreadable, ReadFails, YieldReturns
<1>15. CASE NoPingDue \/ GiveUpLink \/ Ping
  BY <1>15 DEF NoPingDue, GiveUpLink, Ping
<1>16. CASE HandleDisconnect \/ DisconnectCallbackReturns
  BY <1>16 DEF HandleDisconnect, DisconnectCallbackReturns, YieldReturns
<1>17. CASE LinkFails \/ Tick
  BY <1>17 DEF LinkFails, Tick
<1>18. CASE UNCHANGED vars
  BY <1>18 DEF vars
<1> QED
  BY <1>1, <1>2, <1>3, <1>4, <1>5, <1>6, <1>7, <1>8, <1>9, <1>10, <1>11, <1>12, <1>13, <1>14, <1>15,
     <1>16, <1>17, <1>18 DEF Next, Application, Opening, Yield

LEMMA PromiseStep ==
  ASSUME BaseInv, BaseInv', ReadyInv, PromiseInv, [Next]_vars,
         Reconnected \notin Refusals, \A w \in Waits : w <= MaxWait
  PROVE  [Promised!Next]_<<Told, ByItself, handles, Asked>>
<1> USE DEF ByItself, Asked, connVars, retryVars, topicVars
<1>1. CASE Silent
  BY <1>1, SilentStep
<1>2. CASE Construct
  <2>1. Told = "none" /\ handles = {} /\ Asked = {} /\ ~ByItself
    BY <1>2 DEF Construct, BaseInv, LinkInv, PromiseInv, Told
  <2>2. CASE pc' = "dial"
    <3>1. Told' = "none" /\ handles' = {} /\ Asked' = {} /\ ~ByItself'
      BY <1>2, <2>1, <2>2 DEF Construct, Dial, Told, OpeningFor
    <3> QED
      BY <2>1, <3>1
  <2>3. CASE pc' = "app"
    <3>1. Told' = "down" /\ handles' = {} /\ Asked' = {} /\ ByItself' \in BOOLEAN
      <4>1. /\ pc = "none" /\ ~is_connected' /\ current_reconnect_wait_interval' = 0 /\ handles' = {}
            /\ auto_connect_enable' \in BOOLEAN
        BY <1>2, <2>1 DEF Construct, BaseInv, LinkInv, TypeOK, PromiseInv
      <4> QED
        BY <2>3, <4>1, SessionAssumption DEF Told, OpeningFor, SessionAssumption
    <3> QED
      BY <2>1, <3>1 DEF Promised!Next, Promised!Construct
  <2> QED
    BY <1>2, <2>2, <2>3 DEF Construct, Dial
<1>3. CASE Destroy
  BY <1>3 DEF Destroy, Deinit, Told, OpeningFor, Promised!Next, Promised!Destroy
<1>4. CASE Connack
  <2>1. /\ pc = "connack" /\ ~is_connected /\ is_connected' /\ pc' = ConnectedAt[caller]
        /\ requested' = {} /\ UNCHANGED <<auto_connect_enable, handles, current_reconnect_wait_interval>>
    BY <1>4 DEF Connack, BaseInv, LinkInv
  <2>2. Asked = {} /\ Asked' = {}
    BY <2>1
  <2>3. CASE caller = "construct"
    <3>1. Told = "none" /\ Told' = "up" /\ handles = {} /\ ~ByItself /\ ByItself'
      BY <2>1, <2>3 DEF Told, OpeningFor, PromiseInv, ConnectedAt, BaseInv, TypeOK
    <3> QED
      BY <2>1, <2>2, <3>1 DEF Promised!Next, Promised!Construct
  <2>4. CASE caller = "connect"
    <3>1. Told \in {"down", "gave_up"} /\ Told' = "up" /\ ByItself' = ByItself
      BY <2>1, <2>4 DEF Told, OpeningFor, ConnectedAt
    <3> QED
      BY <2>1, <2>2, <3>1 DEF Promised!Next, Promised!Connect
  <2>5. CASE caller = "callback"
    <3>1. Told = "lost" /\ Told' = "up" /\ ByItself' = ByItself
      BY <2>1, <2>5 DEF Told, OpeningFor, ConnectedAt
    <3> QED
      BY <2>1, <2>2, <3>1 DEF Promised!Next, Promised!Connect
  <2>6. CASE caller = "yield"
    <3>1. Told = "down" /\ Told' = "resuming" /\ ByItself' = ByItself /\ ByItself
      <4>1. auto_connect_enable /\ current_reconnect_wait_interval <= MaxWait
        BY <2>1, <2>6 DEF PromiseInv, OpeningFor
      <4>2. Told = "down" /\ Told' = "resuming"
        BY <2>1, <2>6, <4>1, SessionAssumption DEF Told, OpeningFor, ConnectedAt, SessionAssumption, BaseInv, TypeOK
      <4> QED
        BY <2>1, <4>1, <4>2
    <3> QED
      BY <2>1, <2>2, <3>1 DEF Promised!Next, Promised!Reconnect
  <2> QED
    BY <2>3, <2>4, <2>5, <2>6 DEF BaseInv, TypeOK
<1>5. CASE CloseForYield
  <2>1. /\ pc = "close" /\ caller = "yield" /\ pc' = "loop" /\ ~is_connected /\ ~is_connected'
        /\ UNCHANGED <<auto_connect_enable, handles>> /\ auto_connect_enable
        /\ current_reconnect_wait_interval <= MaxWait
    BY <1>5 DEF CloseForYield, Attempted, ReadyInv, PromiseInv, OpeningFor, BaseInv, LinkInv
  <2>2. Told = "down" /\ Told' \in {"down", "gave_up"} /\ ByItself /\ ByItself' /\ Asked = {} /\ Asked' = {}
    BY <2>1, SessionAssumption DEF Told, OpeningFor, SessionAssumption, BaseInv, TypeOK
  <2> QED
    BY <2>1, <2>2 DEF Promised!Next, Promised!GiveUp
<1>6. ASSUME NEW t \in Topics, Subscribe(t) \/ Unsubscribe(t) \/ Resubscribe(t)
      PROVE  Promised!Next
  <2>1. CASE Subscribe(t)
    <3>1. Told = "up" /\ Told' = "up" /\ ByItself' = ByItself /\ Asked = requested /\ Asked' = requested'
      BY <2>1 DEF Subscribe, Told, OpeningFor
    <3> QED
      BY <2>1, <3>1 DEF Subscribe, Promised!Next, Promised!Subscribe
  <2>2. CASE Unsubscribe(t)
    <3>1. Told = "up" /\ Told' = "up" /\ ByItself' = ByItself /\ Asked = requested /\ Asked' = requested'
      BY <2>2 DEF Unsubscribe, Told, OpeningFor
    <3> QED
      BY <2>2, <3>1 DEF Unsubscribe, Promised!Next, Promised!Unsubscribe
  <2>3. CASE Resubscribe(t)
    <3>1. Told = "resuming" /\ Told' = "resuming" /\ ByItself' = ByItself /\ Asked = requested /\ Asked' = requested'
      BY <2>3 DEF Resubscribe, Told, OpeningFor, BaseInv, LinkInv
    <3>2. t \in handles \ requested
      BY <2>3 DEF Resubscribe, HandlesLeft, PromiseInv
    <3> QED
      BY <2>3, <3>1, <3>2 DEF Resubscribe, Promised!Next, Promised!Ask
  <2> QED
    BY <1>6, <2>1, <2>2, <2>3
<1>7. CASE ResubscribeFails \/ Resubscribed
  <2>1. /\ pc = "resub" /\ is_connected /\ is_connected' /\ Told = "resuming" /\ Asked = requested
        /\ Asked' = requested' /\ UNCHANGED <<handles, requested, auto_connect_enable>>
    BY <1>7 DEF ResubscribeFails, Resubscribed, Told, OpeningFor, BaseInv, LinkInv
  <2>2. CASE ResubscribeFails
    <3>1. Told' = "up" /\ ByItself' = ByItself
      BY <2>1, <2>2 DEF ResubscribeFails, Attempted, Error, Reconnected, Told, OpeningFor
    <3>2. Asked # handles
      BY <2>1, <2>2 DEF ResubscribeFails, HandlesLeft, PromiseInv
    <3> QED
      BY <2>1, <3>1, <3>2 DEF Promised!Next, Promised!NotResumed
  <2>3. CASE Resubscribed
    <3>1. Told' = "announcing" /\ ByItself' = ByItself
      BY <2>1, <2>3 DEF Resubscribed, Attempted, Told, OpeningFor
    <3>2. Asked = handles
      BY <2>1, <2>3 DEF Resubscribed, HandlesLeft, PromiseInv
    <3> QED
      BY <2>1, <3>1, <3>2 DEF Promised!Next, Promised!Announce
  <2> QED
    BY <1>7, <2>2, <2>3
<1>8. CASE ReconnectCallbackReturns
  <2>1. Told = "announcing" /\ Told' = "up" /\ ByItself' = ByItself /\ Asked' = Asked /\ handles' = handles
    BY <1>8 DEF ReconnectCallbackReturns, Told, OpeningFor, ReadyInv
  <2> QED
    BY <2>1 DEF Promised!Next, Promised!Announced
<1>9. CASE HandleDisconnect
  <2>1. Told = "up" /\ Told' = "lost" /\ ByItself' = ByItself /\ Asked' = {} /\ handles' = handles
    BY <1>9 DEF HandleDisconnect, QcloudDisconnect, Told, OpeningFor, BaseInv, LinkInv
  <2> QED
    BY <2>1 DEF Promised!Next, Promised!Lose
<1>10. CASE DisconnectCallbackReturns
  <2>1. /\ pc = "disconnect_cb" /\ pc' = "app" /\ UNCHANGED <<is_connected, auto_connect_enable, handles, requested>>
        /\ auto_connect_enable => current_reconnect_wait_interval' <= MaxWait
    BY <1>10 DEF DisconnectCallbackReturns, YieldReturns
  <2>2. ByItself' = ByItself /\ Asked' = Asked
    <3>1. Told # "none" /\ Told' # "none"
      BY <2>1 DEF Told, OpeningFor
    <3> QED
      BY <2>1, <3>1
  <2>3. CASE is_connected
    <3>1. Told = "up" /\ Told' = "up"
      BY <2>1, <2>3 DEF Told, OpeningFor
    <3> QED
      BY <2>1, <2>2, <3>1
  <2>4. CASE ~is_connected
    <3>1. Told = "lost" /\ Told' = "down"
      BY <2>1, <2>4, SessionAssumption DEF Told, OpeningFor, SessionAssumption, BaseInv, TypeOK
    <3> QED
      BY <2>1, <2>2, <3>1 DEF Promised!Next, Promised!Lost
  <2> QED
    BY <2>3, <2>4
<1> QED
  BY <1>1, <1>2, <1>3, <1>4, <1>5, <1>6, <1>7, <1>8, <1>9, <1>10, StepsThatTell

\* Over a link that fails at any moment the client keeps what is promised of its connection:
\* a loss is told before anything else, a client reconnects by itself if it was constructed
\* to and has not given up, and says so when it has asked for all its topics; as long as no
\* broker refuses with the code of a reconnection.
THEOREM SessionKeepsItsPromise ==
  ASSUME Reconnected \notin Refusals, \A w \in Waits : w <= MaxWait
  PROVE  Spec => SessionAsPromised
<1>1. Init => ReadyInv /\ PromiseInv
  BY DEF Init, ReadyInv, PromiseInv, OpeningFor
<1>2. Init => Promised!Init
  BY DEF Init, Promised!Init, Told
<1>3. BaseInv /\ ReadyInv /\ [Next]_vars => ReadyInv'
  BY ReadyStep
<1>4. BaseInv /\ ReadyInv /\ PromiseInv /\ [Next]_vars => PromiseInv'
  BY PromiseInvStep
<1>5. BaseInv /\ BaseInv' /\ ReadyInv /\ PromiseInv /\ [Next]_vars => [Promised!Next]_Promised!vars
  BY PromiseStep DEF Promised!vars, ByItself, Asked
<1> QED
  BY <1>1, <1>2, <1>3, <1>4, <1>5, TypeCorrect, PTL DEF Spec, SessionAsPromised, Promised!Spec
=============================================================================
