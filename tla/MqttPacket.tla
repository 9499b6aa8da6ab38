------------------------------ MODULE MqttPacket ------------------------------
(***************************************************************************)
(* The packet codec: what the client writes into write_buf, and how it     *)
(* reads what the broker has sent into read_buf.  A buffer, a packet and a *)
(* string are sequences of bytes.  The broker, and so the way it reads and *)
(* writes packets, is not part of the SDK: it follows MQTT 3.1.1.          *)
(*                                                                         *)
(* A serializer yields a return code and the bytes it has written, those   *)
(* before an error included: what is written must fit into the buffer.     *)
(***************************************************************************)
EXTENDS Integers, Sequences, SequencesExt

Byte == 0..255
None == <<>>                                 \* a NULL; what is not NULL is <<s>>

CONNECT     == 1
CONNACK     == 2
PUBLISH     == 3
PUBACK      == 4
SUBSCRIBE   == 8
SUBACK      == 9
UNSUBSCRIBE == 10
UNSUBACK    == 11
PINGREQ     == 12
PINGRESP    == 13
DISCONNECT  == 14

Ok                 == 0
ShortBuffer        == -2
InvalidPacketType  == -1
VersionUnsupported == -3
SubCountExceed     == -4

MinFixedHeader     == 2                      \* MIN_MQTT_FIXED_HEADER_LEN
MaxFixedHeader     == 5                      \* MAX_MQTT_FIXED_HEADER_LEN
MaxLengthBytes     == 4                      \* MAX_NO_OF_REMAINING_LENGTH_BYTES

Bit(b) == IF b THEN 1 ELSE 0

-------------------------------------------------------------------------------
(* Serialize. *)

WriteInt(n)    == <<(n \div 256) % 256, n % 256>>
WriteString(s) == WriteInt(Len(s)) \o s

NoFlags == [dup |-> 0, qos |-> 0, retain |-> 0]

\* _mqtt_header_serialize.
Header(type, flags) ==
    <<type * 16 + (IF type = PUBLISH THEN flags.dup * 8 + flags.qos * 2 + flags.retain
                   ELSE IF type \in {SUBSCRIBE, UNSUBSCRIBE} THEN 2 ELSE 0)>>

\* _mqtt_remaining_length_serialize: seven bits a byte, the low ones first, the top
\* bit set in each byte but the last.
MoreFollow_NoBit(n) == n
MoreFollow(n)       == 128 + n
Weight              == <<1, 128, 16384, 2097152, 268435456>>
RemainingLength(n) ==
    LET Left(k)  == n \div Weight[k]
        count    == CHOOSE k \in DOMAIN Weight : Left(k) < 128 /\ \A j \in 1..(k - 1) : Left(j) >= 128
    IN  [k \in 1..count |-> IF k < count THEN MoreFollow(Left(k) % 128) ELSE Left(k)]

Written(rc, bytes) == [rc |-> rc, bytes |-> bytes]

\* The steps every serializer goes through: the buffer takes the smallest header, the
\* header is written, room is asked for the rest, the rest is written.
Serialize(size, header, need, rest) ==
    IF size < MinFixedHeader THEN Written(ShortBuffer, <<>>)
    ELSE IF size < need THEN Written(ShortBuffer, header)
    ELSE Written(Ok, header \o RemainingLength(Len(rest)) \o rest)

\* qcloud_iot_mqtt's publish, subscribe and unsubscribe ask for the longest header.
Room(rest) == Len(rest) + MaxFixedHeader

SerializePublish(size, flags, id, topic, payload) ==
    LET rest == WriteString(topic) \o (IF flags.qos > 0 THEN WriteInt(id) ELSE <<>>) \o payload
    IN  Serialize(size, Header(PUBLISH, flags), Room(rest), rest)

SerializeSubscribe(size, id, filters) ==     \* pairs of a filter and its QoS
    LET rest == WriteInt(id) \o FlattenSeq([i \in DOMAIN filters |->
                                                WriteString(filters[i][1]) \o <<filters[i][2]>>])
    IN  Serialize(size, Header(SUBSCRIBE, NoFlags), Room(rest), rest)

SerializeUnsubscribe(size, id, filters) ==
    LET rest == WriteInt(id) \o FlattenSeq([i \in DOMAIN filters |-> WriteString(filters[i])])
    IN  Serialize(size, Header(UNSUBSCRIBE, NoFlags), Room(rest), rest)

SerializePuback(size, id) ==
    IF size < MinFixedHeader + 2 THEN Written(ShortBuffer, <<>>)
    ELSE Serialize(size, Header(PUBACK, NoFlags), MinFixedHeader, WriteInt(id))

SerializeEmpty(size, type) == Serialize(size, Header(type, NoFlags), MinFixedHeader, <<>>)

Optional(s) == IF s = None THEN <<>> ELSE WriteString(s[1])

ProtocolName(version) == IF version = 3 THEN <<77, 81, 73, 115, 100, 112>> ELSE <<77, 81, 84, 84>>

\* The length counted by _mqtt_connect_remaining_length_serialize: 12 or 10 bytes of
\* variable header, and the strings.
ConnectLength(o) ==
    (IF o.version = 3 THEN 12 ELSE 10) + Len(o.client_id) + 2
    + (IF o.will = None THEN 0 ELSE Len(o.will[1].topic) + 2 + Len(o.will[1].message) + 2)
    + Len(Optional(o.username)) + Len(Optional(o.password))

ConnectFlags(o) ==
    128 * Bit(o.username # None) + 64 * Bit(o.password # None) + 2 * o.clean_session
    + (IF o.will = None THEN 0 ELSE 4 + 8 * o.will[1].qos + 32 * o.will[1].retained)

\* Room is asked for the remaining length only, not for the fixed header before it.
SerializeConnect(size, o) ==
    LET header == Header(CONNECT, NoFlags)
        rest   == WriteString(ProtocolName(o.version)) \o <<o.version, ConnectFlags(o)>>
                  \o WriteInt(o.keep_alive) \o WriteString(o.client_id)
                  \o (IF o.will = None THEN <<>>
                      ELSE WriteString(o.will[1].topic) \o WriteString(o.will[1].message))
                  \o Optional(o.username) \o Optional(o.password)
    IN  IF size < MinFixedHeader THEN Written(ShortBuffer, <<>>)
        ELSE IF o.version \notin {3, 4} THEN Written(VersionUnsupported, header)
        ELSE IF size < ConnectLength(o) THEN Written(ShortBuffer, header)
        ELSE IF o.password # None /\ o.username = None
             THEN Written(InvalidPacketType, header \o RemainingLength(ConnectLength(o)))
        ELSE Written(Ok, header \o RemainingLength(ConnectLength(o)) \o rest)

-------------------------------------------------------------------------------
(* Deserialize.  A result is a return code and what has been read. *)

Failed(rc) == [rc |-> rc]

ReadInt(buf, at) == 256 * buf[at] + buf[at + 1]

\* What the first count bytes of a length add up to, each with the weight MQTT gives it.
Added(buf, count) ==
    LET Part(k) == IF k <= count THEN (buf[1 + k] % 128) * Weight[k] ELSE 0
    IN  Part(1) + Part(2) + Part(3) + Part(4)

\* _mqtt_remaining_length_deserialize: the bytes of the length, its value, the code.
DecodeLength(buf, size) ==
    LET last  == {k \in 1..MaxLengthBytes : buf[1 + k] < 128 /\ \A j \in 1..(k - 1) : buf[1 + j] >= 128}
        count == IF last = {} THEN MaxLengthBytes ELSE CHOOSE k \in last : TRUE
    IN  IF \E k \in 1..count : size < k + 1 + Added(buf, k) THEN Failed(ShortBuffer)
        ELSE IF last = {} THEN Failed(InvalidPacketType)
        ELSE [rc |-> Ok, count |-> count, value |-> Added(buf, count)]

TypeIs(buf, type) == buf[1] \div 16 = type

\* The checks before the contents, which begin at "at" and have "len" bytes.
Checked(buf, size, type) ==
    IF size < MinFixedHeader THEN Failed(ShortBuffer)
    ELSE IF ~TypeIs(buf, type) THEN Failed(InvalidPacketType)
    ELSE LET length == DecodeLength(buf, size)
         IN  IF length.rc # Ok THEN length
             ELSE [rc |-> Ok, at |-> 2 + length.count, len |-> length.value]

\* PUBACK and UNSUBACK.
DeserializeAck(buf, size, type) ==
    LET c == Checked(buf, size, type)
    IN  IF c.rc # Ok THEN c ELSE [rc |-> Ok, id |-> ReadInt(buf, c.at)]

DeserializePingresp(buf, size) ==
    LET c == Checked(buf, size, PINGRESP)
    IN  IF c.rc # Ok THEN c ELSE [rc |-> Ok]

DeserializeConnack(buf, size) ==
    LET c == Checked(buf, size, CONNACK)
    IN  IF c.rc # Ok THEN c
        ELSE [rc |-> Ok, session_present |-> buf[c.at] % 2, code |-> buf[c.at + 1]]

PublishFlags(first) == [dup |-> (first \div 8) % 2, qos |-> (first \div 2) % 4, retain |-> first % 2]

\* A topic that is empty is refused.  The payload is what the length leaves.
DeserializePublish(buf, size) ==
    LET c     == Checked(buf, size, PUBLISH)
        topic == ReadInt(buf, c.at)
        flags == PublishFlags(buf[1])
        body  == c.at + 2 + topic + (IF flags.qos > 0 THEN 2 ELSE 0)
    IN  IF c.rc # Ok THEN c
        ELSE IF topic = 0 THEN Failed(InvalidPacketType)
        ELSE [rc      |-> Ok,
              flags   |-> flags,
              id      |-> IF flags.qos > 0 THEN ReadInt(buf, c.at + 2 + topic) ELSE 0,
              topic   |-> SubSeq(buf, c.at + 2, c.at + 1 + topic),
              payload |-> SubSeq(buf, body, c.at + c.len - 1)]

\* _read_char yields a plain char, which is signed or not as the compiler has it: what is
\* stored in a byte again is that byte, but the codes of a SUBACK are stored in an int.
ReadChar(byte, signed) == IF signed /\ byte >= 128 THEN byte - 256 ELSE byte

\* It gives up when it has stored more than maxcount codes.
DeserializeSuback(buf, size, maxcount, signed) ==
    LET c     == Checked(buf, size, SUBACK)
        codes == SubSeq(buf, c.at + 2, c.at + c.len - 1)
    IN  IF c.rc # Ok THEN c
        ELSE IF c.len - 2 > maxcount + 1 THEN Failed(SubCountExceed)
        ELSE [rc |-> Ok, id |-> ReadInt(buf, c.at), granted |-> [i \in DOMAIN codes |-> ReadChar(codes[i], signed)]]

-------------------------------------------------------------------------------
(* The broker. *)

BrokerConnack(present, code) == <<16 * CONNACK, 2, present, code>>
BrokerAck(type, id)          == <<16 * type, 2>> \o WriteInt(id)
BrokerSuback(id, codes)      == <<16 * SUBACK, 2 + Len(codes)>> \o WriteInt(id) \o codes
BrokerPingresp               == <<16 * PINGRESP, 0>>

\* Strings one after the other, each with its length before it and "after" bytes after it.
BrokerStrings(buf, after) ==
    LET S[at \in Nat] == IF at > Len(buf) THEN <<>>
                         ELSE <<SubSeq(buf, at + 2, at + 1 + ReadInt(buf, at))>>
                              \o S[at + 2 + ReadInt(buf, at) + after]
    IN  S[1]

\* What the broker takes a packet for: its first byte and what its length covers, if
\* the length covers exactly what was sent.
BrokerReads(packet) ==
    LET bytes  == {k \in 2..Len(packet) : \A j \in 2..(k - 1) : packet[j] >= 128}
        last   == CHOOSE k \in bytes : \A j \in bytes : j <= k
    IN  IF last <= MaxFixedHeader /\ Len(packet) = last + Added(packet, last - 1)
        THEN [first |-> packet[1], rest |-> SubSeq(packet, last + 1, Len(packet))]
        ELSE [first |-> 0, rest |-> <<0, 0>>]

-------------------------------------------------------------------------------
(* Properties. *)

\* A PUBLISH stays within the buffer, is not refused when there is room for the longest
\* header, and is read back as it was given by a reader that has stale bytes behind it.
PublishReadBack(size, flags, id, topic, payload, stale) ==
    LET w == SerializePublish(size, flags, id, topic, payload)
    IN  /\ Len(w.bytes) <= size
        /\ size >= Len(topic) + Len(payload) + 9 => w.rc = Ok
        /\ w.rc = Ok => DeserializePublish(w.bytes \o stale, Len(w.bytes))
                          = [rc |-> Ok, flags |-> flags, id |-> IF flags.qos = 0 THEN 0 ELSE id,
                             topic |-> topic, payload |-> payload]

\* The broker gets the filters a SUBSCRIBE and an UNSUBSCRIBE name, and the id that it
\* will answer with.
FiltersArrive(size, id, filters, qos) ==
    LET s  == SerializeSubscribe(size, id, [i \in DOMAIN filters |-> <<filters[i], qos>>])
        u  == SerializeUnsubscribe(size, id, filters)
        sr == BrokerReads(s.bytes)
        ur == BrokerReads(u.bytes)
    IN  /\ Len(s.bytes) <= size /\ Len(u.bytes) <= size
        /\ s.rc = Ok => /\ sr.first = 16 * SUBSCRIBE + 2
                        /\ ReadInt(sr.rest, 1) = id
                        /\ BrokerStrings(SubSeq(sr.rest, 3, Len(sr.rest)), 1) = filters
                        /\ sr.rest[Len(sr.rest)] = qos
        /\ u.rc = Ok => /\ ur.first = 16 * UNSUBSCRIBE + 2
                        /\ ReadInt(ur.rest, 1) = id
                        /\ BrokerStrings(SubSeq(ur.rest, 3, Len(ur.rest)), 0) = filters

\* The broker gets the id, the will, the name and the password of a CONNECT, each where
\* the flags announce it.  The packet is checked against the size without its fixed
\* header, by which it may exceed the buffer.
ConnectArrives(size, o) ==
    LET w       == SerializeConnect(size, o)
        r       == BrokerReads(w.bytes)
        name    == BrokerStrings(SubSeq(r.rest, 1, 2 + ReadInt(r.rest, 1)), 0)[1]
        at      == 3 + Len(name)
        flags   == r.rest[at + 1]
        strings == BrokerStrings(SubSeq(r.rest, at + 4, Len(r.rest)), 0)
        present == (IF (flags \div 4) % 2 = 1 THEN <<"will_topic", "will_message">> ELSE <<>>)
                   \o (IF flags \div 128 = 1 THEN <<"username">> ELSE <<>>)
                   \o (IF (flags \div 64) % 2 = 1 THEN <<"password">> ELSE <<>>)
        given   == [will_topic   |-> IF o.will = None THEN None ELSE <<o.will[1].topic>>,
                    will_message |-> IF o.will = None THEN None ELSE <<o.will[1].message>>,
                    username     |-> o.username, password |-> o.password]
    IN  /\ Len(w.bytes) <= size + MaxFixedHeader
        /\ w.rc = Ok =>
              /\ r.first = 16 * CONNECT
              /\ r.rest[at] = o.version /\ Len(name) = (IF o.version = 3 THEN 6 ELSE 4)
              /\ ReadInt(r.rest, at + 2) = o.keep_alive
              /\ strings[1] = o.client_id
              /\ {present[i] : i \in DOMAIN present} = {f \in DOMAIN given : given[f] # None}
              /\ SubSeq(strings, 2, Len(strings)) = [i \in DOMAIN present |-> given[present[i]][1]]

\* The client reads what the broker answers, and takes no answer for one of another type.
\* Of the codes of a SUBACK those below 128 are read as they are.  A refusal, 128, is read
\* as that where char is not signed; where it is, as -128, which is no code of MQTT.
AnswersRead(id, present, code, codes, stale, signed) ==
    /\ DeserializeConnack(BrokerConnack(present, code) \o stale, 4)
         = [rc |-> Ok, session_present |-> present, code |-> code]
    /\ \A type \in {PUBACK, UNSUBACK} :
           /\ DeserializeAck(BrokerAck(type, id) \o stale, 4, type) = [rc |-> Ok, id |-> id]
           /\ BrokerReads(SerializePuback(4, id).bytes).rest = WriteInt(id)
           /\ DeserializeAck(BrokerAck(type, id) \o stale, 3, type).rc = ShortBuffer
    /\ DeserializeAck(BrokerAck(PUBACK, id), 4, UNSUBACK).rc = InvalidPacketType
    /\ DeserializePingresp(BrokerPingresp \o stale, 2).rc = Ok
    /\ BrokerReads(SerializeEmpty(2, PINGREQ).bytes) = [first |-> 16 * PINGREQ, rest |-> <<>>]
    /\ LET suback == DeserializeSuback(BrokerSuback(id, codes) \o stale, 4 + Len(codes), Len(codes), signed)
       IN  /\ suback.rc = Ok /\ suback.id = id /\ Len(suback.granted) = Len(codes)
           /\ \A i \in DOMAIN codes :
                  /\ codes[i] < 128 => suback.granted[i] = codes[i]
                  /\ codes[i] = 128 => suback.granted[i] = IF signed THEN -128 ELSE 128

\* A length takes as many bytes as MQTT says, all but the last with the top bit set, and
\* is decoded to itself.
LengthReadBack(n) ==
    LET bytes == RemainingLength(n)
    IN  /\ Len(bytes) = IF n < 128 THEN 1 ELSE IF n < 16384 THEN 2 ELSE IF n < 2097152 THEN 3 ELSE 4
        /\ \A i \in DOMAIN bytes : bytes[i] \in 0..255 /\ (bytes[i] >= 128 <=> i < Len(bytes))
        /\ DecodeLength(<<16 * PUBLISH>> \o bytes \o <<255, 0, 255>>, n + 1 + Len(bytes))
             = [rc |-> Ok, count |-> Len(bytes), value |-> n]
===============================================================================
