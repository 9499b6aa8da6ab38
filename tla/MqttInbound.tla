----------------------------- MODULE MqttInbound -----------------------------
(***************************************************************************)
(* What comes in: the broker's packets as a stream of bytes, the yielding  *)
(* thread that cuts it into packets, and messages of QoS 1 with the ring   *)
(* of packet ids that drops repeats.  The broker keeps a message until it  *)
(* is acknowledged and sends it again on the next connection, if it kept   *)
(* the session; if not it begins with its ids anew, while the client's     *)
(* ring stays as it is.  One thread reads; which handler a message goes to *)
(* is TopicFilter's part, so that here it is delivered or not.             *)
(***************************************************************************)
EXTENDS Integers, Sequences, FiniteSets, SequencesExt

CONSTANTS
    MaxMessages,        \* bound of the model: messages the broker sends
    Ids,                \* packet ids the broker uses
    RingLength,         \* MQTT_MAX_REPEAT_BUF_LEN
    Window,             \* messages the broker has unacknowledged at a time
    ReadBufSize,        \* read_buf_size
    Sizes,              \* remaining lengths of the broker's packets
    Radix,              \* 128, from which on the remaining length takes two bytes
    MaxBreaks           \* bound of the model: connections that break

ASSUME InboundAssumption ==
    /\ MaxMessages \in Nat /\ Window \in Nat /\ MaxBreaks \in Nat
    /\ Ids \subseteq Nat \ {0}
    /\ RingLength \in Nat \ {0}
    /\ Sizes \subseteq Nat
    /\ Radix \in Nat \ {0, 1}
    /\ ReadBufSize \in Nat /\ ReadBufSize > 5   \* the longest header

Messages == 1..MaxMessages
NoPacket == [type |-> "none", id |-> 0, msg |-> 0, qos |-> 0, len |-> 0, rem |-> 0]
PingResp == [NoPacket EXCEPT !.type = "PINGRESP", !.len = 1]

VARIABLES
    link,           \* "up", or "dead" after an error or the peer's close
    wire,           \* bytes not yet read
    resend,         \* broker: packets it has to send again on this connection
    pc,             \* where the yielding thread is in _cycle_for_read
    packet,         \* what it has in read_buf
    taken,          \* bytes of the length, or of a packet it discards
    ring,           \* repeat_packet_id_buf
    cnt,            \* current_packet_id_cnt
    inflight,       \* broker: messages sent and not acknowledged, as packets
    acks,           \* PUBACKs on their way
    sent,           \* broker: messages begun
    breaks,
    delivered,      \* history: how often each message was delivered
    acked,          \* history: messages a PUBACK was sent for
    since,          \* history: messages whose ids have entered the ring since this one's did
    reused,         \* history: messages given an id that was in the ring, of one before
    short           \* history: a read found nothing inside a packet, or one too many bytes

stream == <<link, wire>>
broker == <<resend, inflight, acks, sent, breaks>>
ids    == <<ring, cnt>>
past   == <<delivered, acked, since, reused>>
vars   == <<stream, pc, packet, taken, ids, broker, past, short>>

Init ==
    /\ link = "up" /\ wire = <<>> /\ resend = <<>>
    /\ pc = "header" /\ packet = NoPacket /\ taken = 0
    /\ ring = [i \in 1..RingLength |-> 0] /\ cnt = 0
    /\ inflight = <<>> /\ acks = <<>> /\ sent = 0 /\ breaks = 0
    /\ delivered = [m \in Messages |-> 0]
    /\ acked = {}
    /\ since = [m \in Messages |-> {}]
    /\ reused = {}
    /\ short = FALSE

-------------------------------------------------------------------------------
(* The broker. *)

Size(p) == 1 + p.len + p.rem

\* The bytes of p: which packet they are of, and how many bytes of it come before.
Bytes(p) == [k \in 1..Size(p) |-> [of |-> p, at |-> k - 1]]

\* The bytes a remaining length is written in.
LengthBytes(size) == 1 + Cardinality({k \in 1..3 : size >= Radix ^ k})

\* The broker takes any id of which it waits for no PUBACK.  It knows nothing of the ring.
FreeIds == Ids \ {inflight[i].id : i \in DOMAIN inflight}

Publish(qos, size, id) ==
    /\ link = "up" /\ resend = <<>>
    /\ sent < MaxMessages
    /\ Len(inflight) < Window
    /\ sent' = sent + 1
    /\ LET p == [type |-> "PUBLISH", id |-> id, msg |-> sent', qos |-> qos, len |-> LengthBytes(size), rem |-> size]
       IN  /\ wire' = wire \o Bytes(p)
           /\ inflight' = IF qos = 1 THEN Append(inflight, p) ELSE inflight
    /\ reused' = IF qos = 1 /\ \E i \in DOMAIN ring : ring[i] = id THEN reused \cup {sent'} ELSE reused
    /\ UNCHANGED <<link, pc, packet, taken, ids, resend, acks, breaks, delivered, acked, since, short>>

\* On a new connection the broker first sends again what was not acknowledged.
Resend ==
    /\ link = "up" /\ resend # <<>>
    /\ wire' = wire \o Bytes(Head(resend))
    /\ resend' = Tail(resend)
    /\ UNCHANGED <<link, pc, packet, taken, ids, inflight, acks, sent, breaks, past, short>>

AnswerPing ==
    /\ link = "up" /\ wire = <<>>
    /\ wire' = Bytes(PingResp)
    /\ UNCHANGED <<link, pc, packet, taken, ids, broker, past, short>>

\* The broker forgets the message that is acknowledged.
ReceivePuback ==
    /\ acks # <<>>
    /\ acks' = Tail(acks)
    /\ \E k \in DOMAIN inflight :
          /\ inflight[k].id = Head(acks)
          /\ inflight' = RemoveAt(inflight, k)
    /\ UNCHANGED <<stream, pc, packet, taken, ids, resend, sent, breaks, past, short>>

\* What is on its way may still arrive, up to any byte.
Break ==
    /\ link = "up"
    /\ breaks < MaxBreaks
    /\ breaks' = breaks + 1
    /\ link' = "dead"
    /\ \E w \in 0..Len(wire), a \in 0..Len(acks) :
           /\ wire' = SubSeq(wire, 1, w)
           /\ acks' = SubSeq(acks, 1, a)
    /\ UNCHANGED <<pc, packet, taken, ids, resend, inflight, sent, past, short>>

\* The client connects again once it has taken the connection for lost, by a read or by
\* the missing answer to a ping.  The broker has kept the session or not (CONNECT asks for
\* a clean one, or the broker has dropped it); the ring is kept either way.
Reconnect ==
    /\ pc \in {"lost", "garbled"}
    /\ link' = "up" /\ wire' = <<>> /\ acks' = <<>>
    /\ inflight' \in {inflight, <<>>}
    /\ resend' = inflight'
    /\ pc' = "header" /\ packet' = NoPacket /\ taken' = 0 /\ short' = FALSE
    /\ UNCHANGED <<ids, sent, breaks, past>>

-------------------------------------------------------------------------------
(* Reading. *)

Available == Len(wire)

\* n bytes leave the socket.
Eat(n) == wire' = SubSeq(wire, n + 1, Available)

\* What network_stack.read can give for n bytes: those that came in time.  HAL_TCP_Read
\* keeps an error for the next call when it has bytes, qcloud_iot_tls_client_read may
\* also report it at once.
Outcomes(n) ==
    LET most == IF n < Available THEN n ELSE Available
        loss == IF link = "up" THEN {} ELSE 0..(IF most = n THEN n - 1 ELSE most)
    IN  {[rc |-> "success", read |-> k] : k \in 1..most}
        \cup {[rc |-> "nothing", read |-> 0] : k \in IF link = "up" THEN {0} ELSE {}}
        \cup {[rc |-> "loss", read |-> k] : k \in loss}

\* _read_packet_header: a byte, taken for the type of a packet whatever it is.
ReadHeader ==
    /\ pc = "header"
    /\ \E o \in Outcomes(1) :
           /\ o.rc # "nothing"
           /\ Eat(o.read)
           /\ packet' = IF o.rc = "success" /\ Head(wire).at = 0 THEN Head(wire).of ELSE NoPacket
           /\ pc' = IF o.rc = "loss" THEN "lost" ELSE IF Head(wire).at = 0 THEN "length" ELSE "garbled"
    /\ taken' = 0
    /\ UNCHANGED <<link, ids, broker, past, short>>

\* _read_packet_remaining_len: the next byte.  Any failure is QCLOUD_ERR_FAILURE, which
\* yield returns without taking the connection for lost.
ReadLength ==
    /\ pc = "length"
    /\ \E o \in Outcomes(1) :
           /\ Eat(o.read)
           /\ taken' = taken + o.read
           /\ short' = (short \/ o.rc # "success")
           /\ pc' = IF o.rc # "success" THEN "header"
                    ELSE IF taken' < packet.len THEN "length"
                    ELSE IF Size(packet) >= ReadBufSize THEN "discard"
                    ELSE IF packet.rem > 0 THEN "payload" ELSE "handle"
    /\ UNCHANGED <<link, packet, ids, broker, past>>

\* _read_packet_payload: fewer bytes than the length says are a loss, none at all is not.
PayloadEnds_Unchecked(o) == IF o.rc = "success" THEN "handle" ELSE "lost"
PayloadEnds(o) ==
    IF o.rc = "success" THEN IF o.read = packet.rem THEN "handle" ELSE "lost"
    ELSE IF o.rc = "nothing" THEN "header" ELSE "lost"

ReadPayload ==
    /\ pc = "payload"
    /\ \E o \in Outcomes(packet.rem) :
           /\ Eat(o.read)
           /\ pc' = PayloadEnds(o)
           /\ short' = (short \/ o.rc = "nothing")
    /\ UNCHANGED <<link, packet, taken, ids, broker, past>>

\* _discard_packet_for_short_buf: a buffer at a time, the first time also when less than
\* that is left of the packet.  It ends with QCLOUD_ERR_BUF_TOO_SHORT, which is no loss.
ToDiscard(total) ==
    IF total = 0 \/ packet.rem - total >= ReadBufSize THEN ReadBufSize ELSE packet.rem - total

Discard ==
    /\ pc = "discard"
    /\ \E o \in Outcomes(ToDiscard(taken - packet.len)) :
           LET total == taken - packet.len + o.read IN
           /\ Eat(o.read)
           /\ taken' = IF o.rc = "success" THEN taken + o.read ELSE taken
           /\ pc' = IF o.rc = "success" /\ total < packet.rem THEN "discard" ELSE "header"
           /\ short' = (short \/ o.rc # "success" \/ total > packet.rem)
    /\ UNCHANGED <<link, packet, ids, broker, past>>

-------------------------------------------------------------------------------
(* Handling. *)

IsRepeat == \E i \in 1..RingLength : ring[i] = packet.id

\* _add_packet_id_to_repeat_buf.
AddPacketId_NoWrap ==
    /\ ring' = IF IsRepeat THEN ring ELSE [ring EXCEPT ![1] = packet.id]
    /\ UNCHANGED cnt
AddPacketId ==
    IF IsRepeat THEN UNCHANGED ids
    ELSE /\ ring' = [ring EXCEPT ![cnt + 1] = packet.id]
         /\ cnt' = (cnt + 1) % RingLength

\* _deliver_message, unless the id of a QoS 1 message is in the ring.
Delivers_RingFirst == packet.qos = 0
Delivers           == packet.qos = 0 \/ ~IsRepeat

HandlePublish ==
    /\ pc = "handle"
    /\ packet.type = "PUBLISH"
    /\ delivered' = IF Delivers THEN [delivered EXCEPT ![packet.msg] = @ + 1] ELSE delivered
    /\ IF packet.qos = 0 THEN UNCHANGED ids ELSE AddPacketId
    /\ since' = [m \in Messages |->
                    IF packet.qos = 0 \/ IsRepeat THEN since[m]
                    ELSE IF m = packet.msg THEN {} ELSE since[m] \cup {packet.msg}]
    /\ pc' = IF packet.qos = 0 THEN "header" ELSE "puback"
    /\ UNCHANGED <<stream, packet, taken, broker, acked, reused, short>>

\* The PUBACK is written, or cannot be; a failure other than the peer's close is not
\* taken for a loss.
SendPuback ==
    /\ pc = "puback"
    /\ \/ /\ link = "up"
          /\ acks' = Append(acks, packet.id)
          /\ acked' = acked \cup {packet.msg}
          /\ pc' = "header"
       \/ /\ UNCHANGED <<acks, acked>>
          /\ pc' \in (IF link = "up" THEN {"header"} ELSE {"header", "lost"})
    /\ UNCHANGED <<stream, packet, taken, ids, resend, inflight, sent, breaks, delivered, since, reused, short>>

HandleOther ==
    /\ pc = "handle"
    /\ packet.type = "PINGRESP"
    /\ pc' = "header"
    /\ UNCHANGED <<stream, packet, taken, ids, broker, past, short>>

Next ==
    \/ \E id \in FreeIds, size \in Sizes : Publish(1, size, id)
    \/ \E size \in Sizes : Publish(0, size, 0)
    \/ Resend \/ AnswerPing \/ ReceivePuback \/ Break \/ Reconnect
    \/ ReadHeader \/ ReadLength \/ ReadPayload \/ Discard
    \/ HandlePublish \/ SendPuback \/ HandleOther

Spec == Init /\ [][Next]_vars

-------------------------------------------------------------------------------
(* Properties. *)

\* When the client is about to read a packet, the stream is at the beginning of one,
\* however the packets come and however long they are.  It is not after a read
\* that found nothing between the first byte of a packet and its payload, or that
\* failed inside the length, and after a packet a few bytes too long for the buffer.
StreamAligned == pc = "header" /\ ~short /\ wire # <<>> => Head(wire).at = 0

\* A message the broker was told has arrived has been delivered, and not acknowledged from
\* another's packet, over repeats and connections that break.  There is one exception: a
\* new message whose id was in the client's ring when the broker took it, of a message
\* before, is dropped as its repeat and acknowledged all the same.
AckedIsDelivered == \A m \in acked : delivered[m] > 0 \/ m \in reused

\* QOS1 is delivery at least once: what is acknowledged has been delivered.
AtLeastOnce == \A m \in acked : delivered[m] > 0

\* A message is not delivered again before as many others have come as the ring holds.
RepeatIsDropped ==
    [][\A m \in Messages :
          (delivered'[m] > delivered[m] /\ delivered[m] > 0) => Cardinality(since[m]) >= RingLength]_vars
===============================================================================
