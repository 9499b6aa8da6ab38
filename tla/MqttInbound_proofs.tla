-------------------------- MODULE MqttInbound_proofs --------------------------
(***************************************************************************)
(* What holds of MqttInbound for messages, buffers and rings of every      *)
(* size, and any number of connections that break.  The last sections are  *)
(* about TopicFilter, which finds the handler of a message, and about      *)
(* MqttPacket, which a message is written and read with.                   *)
(***************************************************************************)
EXTENDS MqttInbound, TopicMatch, SequenceFacts, TLAPS

Published == [type : {"PUBLISH"}, id : Ids \cup {0}, msg : Messages, qos : {0, 1}, len : 1..4, rem : Nat]
Packets   == {PingResp} \cup Published
Byte      == [of : Packets, at : Nat]

TypeInv ==
    /\ link \in {"up", "dead"}
    /\ wire \in Seq(Byte)
    /\ pc \in {"header", "length", "payload", "discard", "handle", "puback", "lost", "garbled"}
    /\ packet \in Packets \cup {NoPacket}
    /\ taken \in Nat
    /\ ring \in [1..RingLength -> Ids \cup {0}]
    /\ cnt \in 0..(RingLength - 1)
    /\ resend \in Seq(Packets)
    /\ inflight \in Seq(Packets)
    /\ acks \in Seq(Ids \cup {0})
    /\ sent \in 0..MaxMessages
    /\ breaks \in Nat
    /\ delivered \in [Messages -> Nat]
    /\ acked \in SUBSET Messages
    /\ since \in [Messages -> SUBSET Messages]
    /\ reused \in SUBSET Messages
    /\ short \in BOOLEAN

-------------------------------------------------------------------------------
(* The stream. *)

\* c is what the k-th byte after b must be: of the same packet, or the first of one.
After(b, k, c) ==
    /\ b.at + k < Size(b.of) => c = [of |-> b.of, at |-> b.at + k]
    /\ b.at + k = Size(b.of) => c.at = 0

\* Packet after packet, and the last complete unless the link is dead.
Whole(w, l) ==
    /\ \A i \in 1..Len(w) : w[i].at < Size(w[i].of)
    /\ \A i, j \in 1..Len(w) : i <= j => After(w[i], j - i, w[j])
    /\ l = "up" /\ w # <<>> => w[Len(w)].at + 1 = Size(w[Len(w)].of)

\* The next byte of w is byte n of p, unless it is lost.
Within(w, l, p, n) ==
    /\ w # <<>> => w[1] = [of |-> p, at |-> n]
    /\ l = "up" => w # <<>>

AtStart(w) == w # <<>> => w[1].at = 0

\* Where the reading thread is in the stream.
ReadInv ==
    /\ pc \in {"length", "payload", "discard", "handle", "puback"} => packet \in Packets
    /\ pc = "length" => taken < packet.len /\ Within(wire, link, packet, 1 + taken)
    /\ pc = "payload" => packet.rem > 0 /\ Within(wire, link, packet, 1 + packet.len)
    /\ pc = "discard" =>
          /\ taken >= packet.len /\ taken < packet.len + packet.rem
          /\ Within(wire, link, packet, 1 + taken)
    /\ pc = "puback" => packet.qos = 1
    /\ pc \in {"header", "handle", "puback"} /\ ~short => AtStart(wire)

StreamInv == Whole(wire, link) /\ ReadInv

-------------------------------------------------------------------------------
(* The messages. *)

Reads == pc \in {"length", "payload", "discard", "handle", "puback"}

In(s, e) == \E k \in 1..Len(s) : s[k] = e

\* What the broker waits for, f, has one id and one message each; it has begun n messages.
Unacked(f, n) ==
    /\ \A k \in 1..Len(f) : f[k].qos = 1 /\ f[k].id \in Ids /\ f[k].msg \in 1..n
    /\ \A j, k \in 1..Len(f) : f[j].id = f[k].id \/ f[j].msg = f[k].msg => j = k

\* A packet on its way is one the broker waits for, or a message it sends once; d says
\* how often each has been delivered.
Coming(p, f, n, d) ==
    /\ p.qos = 1 => In(f, p)
    /\ p.qos = 0 /\ p.msg > 0 =>
          p.msg <= n /\ d[p.msg] = 0 /\ \A k \in 1..Len(f) : f[k].msg # p.msg

\* The bytes of a message are next to each other.
Once(w) ==
    \A i, j \in 1..Len(w) :
        i <= j /\ w[i].of.msg = w[j].of.msg /\ w[i].of.msg > 0 =>
            w[j] = [of |-> w[i].of, at |-> w[i].at + (j - i)]

\* No byte of w is of a packet with message m.
Free(w, m) == m > 0 => \A i \in 1..Len(w) : w[i].of.msg # m

\* What is to be sent again is waited for, and not on its way.
ResendInv ==
    /\ \A i \in 1..Len(resend) : In(inflight, resend[i])
    /\ \A i, j \in 1..Len(resend) : resend[i] = resend[j] => i = j
    /\ \A i \in 1..Len(wire), j \in 1..Len(resend) : wire[i].of # resend[j]
    /\ Reads => \A j \in 1..Len(resend) : packet # resend[j]

WayInv ==
    /\ \A i \in 1..Len(wire) : Coming(wire[i].of, inflight, sent, delivered)
    /\ Reads => Coming(packet, inflight, sent, delivered)
    /\ Once(wire)
    /\ pc \in {"handle", "puback"} => Free(wire, packet.msg)

\* What is acknowledged is waited for, and not on its way any more.
AcksInv ==
    /\ \A i \in 1..Len(acks) : \E k \in 1..Len(inflight) : inflight[k].id = acks[i]
    /\ \A i, j \in 1..Len(acks) : acks[i] = acks[j] => i = j
    /\ \A i \in 1..Len(acks), j \in 1..Len(wire) : wire[j].of.qos = 1 => wire[j].of.id # acks[i]
    /\ Reads /\ packet.qos = 1 => \A i \in 1..Len(acks) : packet.id # acks[i]
    /\ \A i \in 1..Len(acks), j \in 1..Len(resend) : resend[j].id # acks[i]

\* What has its id in the ring has been delivered, and so has what is acknowledged, but for
\* messages that were given an id the ring held.
DeliveryInv ==
    /\ \A m \in Messages : m > sent => delivered[m] = 0
    /\ \A m \in Messages : since[m] \subseteq 1..sent
    /\ \A k \in 1..Len(inflight), i \in 1..RingLength :
          ring[i] = inflight[k].id => delivered[inflight[k].msg] > 0 \/ inflight[k].msg \in reused
    /\ pc = "puback" => delivered[packet.msg] > 0 \/ packet.msg \in reused
    /\ AckedIsDelivered

MessageInv == Unacked(inflight, sent) /\ ResendInv /\ WayInv /\ AcksInv /\ DeliveryInv

\* How many ids have entered the ring since slot i was written, if slot c is the last.
Age(i, c) == IF i <= c THEN c - i ELSE c + RingLength - i

\* A message that was delivered has its id in the ring until as many others have come as
\* the ring holds, and those that have come since are behind it.
RingInv ==
    \A k \in 1..Len(inflight) :
        LET m == inflight[k].msg IN
        delivered[m] > 0 /\ Cardinality(since[m]) < RingLength =>
            \E i \in 1..RingLength :
                /\ ring[i] = inflight[k].id
                /\ Age(i, cnt) <= Cardinality(since[m])
                /\ \A l \in 1..Len(inflight) : inflight[l].msg \in since[m] =>
                      \E j \in 1..RingLength : ring[j] = inflight[l].id /\ Age(j, cnt) < Age(i, cnt)

-------------------------------------------------------------------------------
(* Packets and bytes. *)

LEMMA LengthBytesType == \A size \in Nat : LengthBytes(size) \in 1..4
<1> TAKE size \in Nat
<1>1. IsFiniteSet(1..3) /\ Cardinality(1..3) = 3
  <2> DEFINE b == 3
  <2>1. b \in Int
    OBVIOUS
  <2> HIDE DEF b
  <2>2. IsFiniteSet(1..b) /\ Cardinality(1..b) = IF 1 > b THEN 0 ELSE b - 1 + 1
    BY <2>1, FS_Interval
  <2> QED
    BY <2>2 DEF b
<1> DEFINE S == {k \in 1..3 : size >= Radix ^ k}
<1>2. S \in SUBSET (1..3)
  OBVIOUS
<1> HIDE DEF S
<1>3. Cardinality(S) \in Nat /\ Cardinality(S) <= 3
  BY <1>1, <1>2, FS_Subset, FS_CardinalityType
<1> QED
  BY <1>3 DEF LengthBytes, S

LEMMA PacketFacts ==
  ASSUME NEW p \in Packets
  PROVE  /\ p.id \in Ids \cup {0} /\ p.msg \in 0..MaxMessages /\ p.qos \in {0, 1}
         /\ p.len \in 1..4 /\ p.rem \in Nat /\ p.type \in {"PUBLISH", "PINGRESP"}
         /\ Size(p) \in Nat /\ Size(p) = 1 + p.len + p.rem
         /\ p.type = "PUBLISH" => p.msg \in Messages
         /\ p.type = "PINGRESP" => p = PingResp /\ p.msg = 0 /\ p.qos = 0
<1>1. MaxMessages \in Nat
  BY InboundAssumption DEF InboundAssumption
<1>2. CASE p = PingResp
  BY <1>1, <1>2 DEF PingResp, NoPacket, Size
<1>3. CASE p \in Published
  BY <1>1, <1>3 DEF Published, Messages, Size
<1> QED
  BY <1>2, <1>3 DEF Packets

\* A message has one number, a packet without number is the answer to a ping.
LEMMA Unnumbered == \A p \in Packets : p.msg = 0 => p = PingResp
BY InboundAssumption DEF Packets, Published, Messages, InboundAssumption

LEMMA PingRespIs == PingResp \in Packets /\ PingResp.msg = 0 /\ PingResp.qos = 0 /\ PingResp.type = "PINGRESP"
BY DEF Packets, PingResp, NoPacket

LEMMA BytesFacts ==
  ASSUME NEW p \in Packets
  PROVE  /\ Bytes(p) \in Seq(Byte) /\ Len(Bytes(p)) = Size(p) /\ Size(p) \in Nat /\ Size(p) >= 2
         /\ \A k \in 1..Size(p) : Bytes(p)[k] = [of |-> p, at |-> k - 1]
<1>1. Size(p) \in Nat /\ Size(p) >= 2
  BY PacketFacts
<1>2. \A k \in 1..Size(p) : [of |-> p, at |-> k - 1] \in Byte
  BY <1>1 DEF Byte
<1>3. Bytes(p) \in [1..Size(p) -> Byte]
  BY <1>2 DEF Bytes
<1>4. Bytes(p) \in Seq(Byte) /\ Len(Bytes(p)) = Size(p)
  BY <1>1, <1>3, IsASeq
<1> QED
  BY <1>1, <1>4 DEF Bytes

\* What is left of a sequence after n elements, and what comes before.
LEMMA Suffix ==
  ASSUME NEW S, NEW s \in Seq(S), NEW n \in 0..Len(s)
  PROVE  /\ SubSeq(s, n + 1, Len(s)) \in Seq(S)
         /\ Len(SubSeq(s, n + 1, Len(s))) = Len(s) - n
         /\ \A i \in 1..(Len(s) - n) : n + i \in 1..Len(s) /\ SubSeq(s, n + 1, Len(s))[i] = s[n + i]
<1>1. Len(s) \in Nat /\ \A i \in (n + 1)..Len(s) : s[i] \in S
  BY LenProperties
<1> DEFINE r == SubSeq(s, n + 1, Len(s))
<1>2. /\ r \in Seq(S) /\ Len(r) = IF n + 1 <= Len(s) THEN Len(s) - (n + 1) + 1 ELSE 0
      /\ \A i \in 1..(Len(s) - (n + 1) + 1) : r[i] = s[(n + 1) + i - 1]
  BY <1>1, SubSeqProperties
<1>3. Len(r) = Len(s) - n /\ Len(s) - (n + 1) + 1 = Len(s) - n
  BY <1>1, <1>2
<1>4. \A i \in 1..(Len(s) - n) : (n + 1) + i - 1 = n + i /\ n + i \in 1..Len(s)
  BY <1>1
<1> HIDE DEF r
<1>5. \A i \in 1..(Len(s) - n) : r[i] = s[n + i]
  BY <1>2, <1>3, <1>4
<1> QED
  BY <1>2, <1>3, <1>4, <1>5 DEF r

LEMMA Prefix ==
  ASSUME NEW S, NEW s \in Seq(S), NEW n \in 0..Len(s)
  PROVE  /\ SubSeq(s, 1, n) \in Seq(S) /\ Len(SubSeq(s, 1, n)) = n
         /\ \A i \in 1..n : i \in 1..Len(s) /\ SubSeq(s, 1, n)[i] = s[i]
<1>1. Len(s) \in Nat /\ \A i \in 1..n : s[i] \in S /\ i \in 1..Len(s)
  BY LenProperties
<1> DEFINE r == SubSeq(s, 1, n)
<1>2. /\ r \in Seq(S) /\ Len(r) = IF 1 <= n THEN n - 1 + 1 ELSE 0
      /\ \A i \in 1..(n - 1 + 1) : r[i] = s[1 + i - 1]
  BY <1>1, SubSeqProperties
<1>3. Len(r) = n /\ n - 1 + 1 = n /\ \A i \in 1..n : 1 + i - 1 = i
  BY <1>1, <1>2
<1> HIDE DEF r
<1> QED
  BY <1>1, <1>2, <1>3 DEF r

LEMMA AppendFacts ==
  ASSUME NEW S, NEW s \in Seq(S), NEW e \in S
  PROVE  /\ Append(s, e) \in Seq(S) /\ Len(Append(s, e)) = Len(s) + 1 /\ Len(s) \in Nat
         /\ \A i \in 1..(Len(s) + 1) : Append(s, e)[i] = IF i <= Len(s) THEN s[i] ELSE e
<1>1. Len(s) \in Nat
  BY LenProperties
<1>2. \A i \in 1..(Len(s) + 1) : i <= Len(s) \/ i = Len(s) + 1
  BY <1>1
<1> QED
  BY <1>1, <1>2, AppendProperties

LEMMA TailFacts ==
  ASSUME NEW S, NEW s \in Seq(S), s # <<>>
  PROVE  /\ Head(s) \in S /\ Head(s) = s[1] /\ Tail(s) \in Seq(S) /\ Len(Tail(s)) = Len(s) - 1
         /\ Len(s) \in Nat /\ Len(s) >= 1
         /\ \A i \in 1..(Len(s) - 1) : i + 1 \in 1..Len(s) /\ Tail(s)[i] = s[i + 1]
<1>1. Len(s) \in Nat /\ Len(s) >= 1
  BY EmptySeq, LenProperties
<1>2. Head(s) \in S /\ Tail(s) \in Seq(S) /\ Len(Tail(s)) = Len(s) - 1 /\ Head(s) = s[1]
  BY HeadTailProperties
<1>3. \A i \in 1..(Len(s) - 1) : Tail(s)[i] = s[i + 1]
  BY <1>2, HeadTailProperties
<1>4. \A i \in 1..(Len(s) - 1) : i + 1 \in 1..Len(s)
  BY <1>1
<1> QED
  BY <1>1, <1>2, <1>3, <1>4

-------------------------------------------------------------------------------
(* Types. *)

\* A step of a read takes n bytes from the socket.
Taken(n) == n \in 0..Len(wire) /\ wire' = SubSeq(wire, n + 1, Len(wire))

LEMMA OutcomeFacts ==
  ASSUME TypeInv, NEW n \in Int, NEW o \in Outcomes(n)
  PROVE  /\ o.rc \in {"success", "nothing", "loss"} /\ o.read \in 0..Len(wire)
         /\ o.rc = "success" => o.read \in 1..n
         /\ o.rc = "nothing" => o.read = 0 /\ link = "up"
         /\ o.rc = "loss" => link # "up"
<1> DEFINE most == IF n < Available THEN n ELSE Available
           loss == IF link = "up" THEN {} ELSE 0..(IF most = n THEN n - 1 ELSE most)
<1>1. Available \in Nat /\ Available = Len(wire)
  BY LenProperties DEF TypeInv, Available
<1>2. \/ \E k \in 1..most : o = [rc |-> "success", read |-> k]
      \/ \E k \in IF link = "up" THEN {0} ELSE {} : o = [rc |-> "nothing", read |-> 0]
      \/ \E k \in loss : o = [rc |-> "loss", read |-> k]
  BY DEF Outcomes
<1>3. CASE \E k \in 1..most : o = [rc |-> "success", read |-> k]
  BY <1>1, <1>3
<1>4. CASE \E k \in IF link = "up" THEN {0} ELSE {} : o = [rc |-> "nothing", read |-> 0]
  <2>1. o.rc = "nothing" /\ o.read = 0 /\ link = "up"
    BY <1>4
  <2> QED
    BY <1>1, <2>1
<1>5. CASE \E k \in loss : o = [rc |-> "loss", read |-> k]
  <2>1. PICK k \in loss : o = [rc |-> "loss", read |-> k]
    BY <1>5
  <2>2. link # "up" /\ k \in 0..Available
    BY <1>1, <2>1
  <2> QED
    BY <1>1, <2>1, <2>2
<1> QED
  BY <1>2, <1>3, <1>4, <1>5

LEMMA TypeInit == Init => TypeInv
<1> SUFFICES ASSUME Init PROVE TypeInv
  OBVIOUS
<1>1. RingLength \in Nat \ {0} /\ MaxMessages \in Nat
  BY InboundAssumption DEF InboundAssumption
<1>2. 0 \in 0..(RingLength - 1) /\ 0 \in 0..MaxMessages
  BY <1>1
<1>3. ring \in [1..RingLength -> Ids \cup {0}] /\ delivered \in [Messages -> Nat] /\ since \in [Messages -> SUBSET Messages]
  BY DEF Init
<1> QED
  BY <1>2, <1>3, EmptySeq DEF Init, TypeInv

\* What does not change keeps its type.
LEMMA TypeStream == ASSUME TypeInv, NEW n, Taken(n) PROVE wire' \in Seq(Byte)
BY Suffix DEF TypeInv, Taken

LEMMA PublishIs ==
  ASSUME TypeInv, NEW qos \in {0, 1}, NEW size \in Sizes, NEW id \in Ids \cup {0}, Publish(qos, size, id)
  PROVE  \E p \in Published :
            /\ p.qos = qos /\ p.id = id /\ p.msg = sent + 1 /\ sent' = sent + 1 /\ sent + 1 \in Messages
            /\ link = "up" /\ resend = <<>>
            /\ wire' = wire \o Bytes(p)
            /\ inflight' = IF qos = 1 THEN Append(inflight, p) ELSE inflight
            /\ reused' = IF qos = 1 /\ \E i \in DOMAIN ring : ring[i] = id THEN reused \cup {p.msg} ELSE reused
            /\ UNCHANGED <<link, pc, packet, taken, ids, resend, acks, breaks, delivered, acked, since, short>>
<1> DEFINE p == [type |-> "PUBLISH", id |-> id, msg |-> sent', qos |-> qos, len |-> LengthBytes(size), rem |-> size]
<1>1. size \in Nat /\ sent' = sent + 1 /\ sent + 1 \in Messages
  BY InboundAssumption DEF Publish, TypeInv, Messages, InboundAssumption
<1>2. p \in Published
  BY <1>1, LengthBytesType DEF Published
<1>3. /\ p.qos = qos /\ p.id = id /\ p.msg = sent + 1
      /\ wire' = wire \o Bytes(p)
      /\ inflight' = IF qos = 1 THEN Append(inflight, p) ELSE inflight
      /\ reused' = IF qos = 1 /\ \E i \in DOMAIN ring : ring[i] = id THEN reused \cup {p.msg} ELSE reused
  BY <1>1 DEF Publish
<1> HIDE DEF p
<1>4. link = "up" /\ resend = <<>> /\ UNCHANGED <<link, pc, packet, taken, ids, resend, acks, breaks, delivered, acked, since, short>>
  BY DEF Publish
<1> QED
  BY <1>1, <1>2, <1>3, <1>4

\* The four reads: bytes leave the socket, and nothing else of the stream, the broker and
\* the ring changes.
Reading == ReadHeader \/ ReadLength \/ ReadPayload \/ Discard

LEMMA ReadHeaderIs ==
  ASSUME TypeInv, ReadHeader
  PROVE  \E n \in 0..Len(wire) :
            /\ Taken(n) /\ pc = "header" /\ taken' = 0 /\ short' = short
            /\ UNCHANGED <<link, ids, broker, past>>
            /\ \/ pc' = "lost" /\ packet' = NoPacket
               \/ /\ n = 1 /\ wire # <<>>
                  /\ \/ pc' = "garbled" /\ packet' = NoPacket
                     \/ pc' = "length" /\ packet' = wire[1].of /\ wire[1].at = 0
<1>1. PICK o \in Outcomes(1) :
        /\ o.rc # "nothing" /\ Eat(o.read)
        /\ packet' = IF o.rc = "success" /\ Head(wire).at = 0 THEN Head(wire).of ELSE NoPacket
        /\ pc' = IF o.rc = "loss" THEN "lost" ELSE IF Head(wire).at = 0 THEN "length" ELSE "garbled"
  BY DEF ReadHeader
<1>2. o.rc \in {"success", "loss"} /\ o.read \in 0..Len(wire) /\ (o.rc = "success" => o.read = 1)
  BY <1>1, OutcomeFacts
<1>3. Taken(o.read)
  BY <1>1, <1>2 DEF Eat, Taken, Available
<1>4. CASE o.rc = "loss"
  BY <1>1, <1>2, <1>3, <1>4 DEF ReadHeader
<1>5. CASE o.rc = "success"
  <2>1. wire # <<>>
    BY <1>2, <1>5, EmptySeq DEF TypeInv
  <2>2. Head(wire) = wire[1]
    BY <2>1, TailFacts DEF TypeInv
  <2> QED
    BY <1>1, <1>2, <1>3, <1>5, <2>1, <2>2 DEF ReadHeader
<1> QED
  BY <1>2, <1>4, <1>5

LEMMA ReadLengthIs ==
  ASSUME TypeInv, ReadLength
  PROVE  \E n \in 0..Len(wire) :
            /\ Taken(n) /\ pc = "length" /\ taken' = taken + n /\ packet' = packet
            /\ UNCHANGED <<link, ids, broker, past>>
            /\ \/ pc' = "header" /\ short'
               \/ /\ n = 1 /\ short' = short
                  /\ pc' = IF taken' < packet.len THEN "length"
                           ELSE IF Size(packet) >= ReadBufSize THEN "discard"
                           ELSE IF packet.rem > 0 THEN "payload" ELSE "handle"
<1>1. PICK o \in Outcomes(1) :
        /\ Eat(o.read) /\ taken' = taken + o.read
        /\ short' = (short \/ o.rc # "success")
        /\ pc' = IF o.rc # "success" THEN "header"
                 ELSE IF taken' < packet.len THEN "length"
                 ELSE IF Size(packet) >= ReadBufSize THEN "discard"
                 ELSE IF packet.rem > 0 THEN "payload" ELSE "handle"
  BY DEF ReadLength
<1>2. o.read \in 0..Len(wire) /\ (o.rc = "success" => o.read = 1)
  BY OutcomeFacts
<1>3. Taken(o.read)
  BY <1>1, <1>2 DEF Eat, Taken, Available
<1>4. short' = short \/ short'
  BY <1>1 DEF TypeInv
<1>5. CASE o.rc = "success"
  <2>1. short' = short
    BY <1>1, <1>5 DEF TypeInv
  <2> QED
    BY <1>1, <1>2, <1>3, <1>5, <2>1 DEF ReadLength
<1>6. CASE o.rc # "success"
  BY <1>1, <1>2, <1>3, <1>6 DEF ReadLength
<1> QED
  BY <1>5, <1>6

LEMMA ReadPayloadIs ==
  ASSUME TypeInv, packet \in Packets, ReadPayload
  PROVE  \E n \in 0..Len(wire) :
            /\ Taken(n) /\ pc = "payload" /\ taken' = taken /\ packet' = packet
            /\ UNCHANGED <<link, ids, broker, past>>
            /\ \/ pc' = "header" /\ short'
               \/ pc' = "lost" /\ short' = short
               \/ pc' = "handle" /\ short' = short /\ n = packet.rem
<1>1. PICK o \in Outcomes(packet.rem) :
        Eat(o.read) /\ pc' = PayloadEnds(o) /\ short' = (short \/ o.rc = "nothing")
  BY DEF ReadPayload
<1>2. o.rc \in {"success", "nothing", "loss"} /\ o.read \in 0..Len(wire)
  BY OutcomeFacts, PacketFacts
<1>3. Taken(o.read)
  BY <1>1, <1>2 DEF Eat, Taken, Available
<1>4. CASE o.rc = "nothing"
  BY <1>1, <1>2, <1>3, <1>4 DEF ReadPayload, PayloadEnds
<1>5. CASE o.rc # "nothing"
  <2>1. short' = short
    BY <1>1, <1>5 DEF TypeInv
  <2>2. pc' = "lost" \/ (pc' = "handle" /\ o.read = packet.rem)
    BY <1>1, <1>2, <1>5 DEF PayloadEnds
  <2> QED
    BY <1>2, <1>3, <2>1, <2>2 DEF ReadPayload
<1> QED
  BY <1>4, <1>5

LEMMA DiscardIs ==
  ASSUME TypeInv, packet \in Packets, packet.len <= taken, Discard
  PROVE  \E n \in 0..Len(wire) :
            /\ Taken(n) /\ pc = "discard" /\ packet' = packet
            /\ UNCHANGED <<link, ids, broker, past>>
            /\ \/ pc' = "header" /\ short' /\ taken' \in Nat
               \/ /\ taken' = taken + n /\ short' = short
                  /\ \/ pc' = "discard" /\ taken + n < packet.len + packet.rem
                     \/ pc' = "header" /\ taken + n = packet.len + packet.rem
<1> DEFINE d == ToDiscard(taken - packet.len)
<1>1. PICK o \in Outcomes(d) :
        LET total == taken - packet.len + o.read IN
        /\ Eat(o.read)
        /\ taken' = IF o.rc = "success" THEN taken + o.read ELSE taken
        /\ pc' = IF o.rc = "success" /\ total < packet.rem THEN "discard" ELSE "header"
        /\ short' = (short \/ o.rc # "success" \/ total > packet.rem)
  BY DEF Discard
<1>2. packet.len \in Nat /\ packet.rem \in Nat /\ taken \in Nat /\ ReadBufSize \in Nat
  <2>1. packet.len \in 1..4 /\ packet.rem \in Nat
    BY PacketFacts
  <2> QED
    BY <2>1, InboundAssumption DEF TypeInv, InboundAssumption
<1>3. pc = "discard" /\ packet' = packet /\ UNCHANGED <<link, ids, broker, past>>
  BY DEF Discard
<1>4. o.read \in 0..Len(wire) /\ o.read \in Nat
  <2>1. d \in Int
    BY <1>2 DEF ToDiscard
  <2> HIDE DEF d
  <2>2. o.read \in 0..Len(wire)
    BY <2>1, OutcomeFacts
  <2> QED
    BY <2>2
<1>5. Taken(o.read)
  BY <1>1, <1>4 DEF Eat, Taken, Available
<1>6. CASE o.rc # "success" \/ taken - packet.len + o.read > packet.rem
  <2>1. pc' = "header"
    BY <1>1, <1>2, <1>4, <1>6
  <2>3. short'
    BY <1>1, <1>6
  <2>2. taken' \in Nat
    BY <1>1, <1>2, <1>4
  <2> QED
    BY <1>3, <1>4, <1>5, <2>1, <2>2, <2>3
<1>7. CASE o.rc = "success" /\ ~(taken - packet.len + o.read > packet.rem)
  <2>1. short' = short
    BY <1>1, <1>7 DEF TypeInv
  <2>2. taken' = taken + o.read
    BY <1>1, <1>7
  <2>3. \/ pc' = "discard" /\ taken + o.read < packet.len + packet.rem
        \/ pc' = "header" /\ taken + o.read = packet.len + packet.rem
    BY <1>1, <1>2, <1>4, <1>7
  <2> QED
    BY <1>3, <1>4, <1>5, <2>1, <2>2, <2>3
<1> QED
  BY <1>6, <1>7

\* Every variable keeps its type.
LEMMA TypeStep ==
  ASSUME TypeInv, ReadInv, [Next]_vars
  PROVE  TypeInv'
<1> USE DEF stream, broker, ids, past
<1>1. ASSUME NEW qos \in {0, 1}, NEW size \in Sizes, NEW id \in Ids \cup {0}, Publish(qos, size, id)
      PROVE  TypeInv'
  <2>1. PICK p \in Published :
            /\ p.msg = sent + 1 /\ sent' = sent + 1 /\ sent + 1 \in Messages
            /\ wire' = wire \o Bytes(p)
            /\ inflight' = IF qos = 1 THEN Append(inflight, p) ELSE inflight
            /\ reused' = reused \/ reused' = reused \cup {p.msg}
            /\ UNCHANGED <<link, pc, packet, taken, ids, resend, acks, breaks, delivered, acked, since, short>>
    BY <1>1, PublishIs
  <2>2. p \in Packets
    BY DEF Packets
  <2>3. wire' \in Seq(Byte)
    BY <2>1, <2>2, BytesFacts, ConcatProperties DEF TypeInv
  <2>4. inflight' \in Seq(Packets)
    BY <2>1, <2>2, AppendFacts DEF TypeInv
  <2>5. sent' \in 0..MaxMessages
    BY <2>1 DEF Messages
  <2>6. reused' \in SUBSET Messages
    BY <2>1 DEF TypeInv
  <2> QED
    BY <2>1, <2>3, <2>4, <2>5, <2>6 DEF TypeInv
<1>2. CASE Resend
  <2>1. Head(resend) \in Packets /\ Tail(resend) \in Seq(Packets)
    BY <1>2, TailFacts DEF Resend, TypeInv
  <2>2. wire' \in Seq(Byte)
    BY <1>2, <2>1, BytesFacts, ConcatProperties DEF Resend, TypeInv
  <2> QED
    BY <1>2, <2>1, <2>2 DEF Resend, TypeInv
<1>3. CASE AnswerPing
  <2>1. wire' \in Seq(Byte)
    BY <1>3, PingRespIs, BytesFacts DEF AnswerPing
  <2> QED
    BY <1>3, <2>1 DEF AnswerPing, TypeInv
<1>4. CASE ReceivePuback
  <2>1. PICK k \in DOMAIN inflight : inflight' = RemoveAt(inflight, k)
    BY <1>4 DEF ReceivePuback
  <2>2. inflight' \in Seq(Packets)
    BY <2>1, RemoveAtFacts, LenProperties DEF TypeInv
  <2>3. acks' \in Seq(Ids \cup {0})
    BY <1>4, TailFacts DEF ReceivePuback, TypeInv
  <2> QED
    BY <1>4, <2>2, <2>3 DEF ReceivePuback, TypeInv
<1>5. CASE Break
  <2>1. PICK w \in 0..Len(wire), a \in 0..Len(acks) : wire' = SubSeq(wire, 1, w) /\ acks' = SubSeq(acks, 1, a)
    BY <1>5 DEF Break
  <2>2. wire' \in Seq(Byte)
    BY <2>1, Prefix DEF TypeInv
  <2>3. acks' \in Seq(Ids \cup {0})
    BY <2>1, Prefix DEF TypeInv
  <2> QED
    BY <1>5, <2>2, <2>3 DEF Break, TypeInv
<1>6. CASE Reconnect
  <2>1. <<>> \in Seq(Byte) /\ <<>> \in Seq(Packets) /\ <<>> \in Seq(Ids \cup {0})
    BY EmptySeq
  <2>2. inflight' \in Seq(Packets) /\ resend' = inflight'
    BY <1>6, <2>1 DEF Reconnect, TypeInv
  <2> QED
    BY <1>6, <2>1, <2>2 DEF Reconnect, TypeInv
<1>7. CASE ReadHeader
  <2>1. PICK n \in 0..Len(wire) :
            /\ Taken(n) /\ taken' = 0 /\ short' = short
            /\ UNCHANGED <<link, ids, broker, past>>
            /\ pc' \in {"lost", "garbled", "length"}
            /\ packet' = NoPacket \/ (wire # <<>> /\ packet' = wire[1].of)
    BY <1>7, ReadHeaderIs
  <2>2. wire' \in Seq(Byte)
    BY <2>1, TypeStream
  <2>3. ASSUME wire # <<>>
        PROVE  wire[1].of \in Packets
    <3>1. wire[1] \in Byte
      BY <2>3, TailFacts DEF TypeInv
    <3> QED
      BY <3>1 DEF Byte
  <2> QED
    BY <2>1, <2>2, <2>3 DEF TypeInv
<1>8. CASE ReadLength
  <2>1. PICK n \in 0..Len(wire) :
            /\ Taken(n) /\ taken' = taken + n /\ packet' = packet
            /\ UNCHANGED <<link, ids, broker, past>>
            /\ pc' \in {"header", "length", "discard", "payload", "handle"}
    BY <1>8, ReadLengthIs
  <2>2. wire' \in Seq(Byte)
    BY <2>1, TypeStream
  <2>3. taken' \in Nat
    BY <2>1, LenProperties DEF TypeInv
  <2>4. short' \in BOOLEAN
    BY <1>8 DEF ReadLength, TypeInv
  <2> QED
    BY <2>1, <2>2, <2>3, <2>4 DEF TypeInv
<1>9. CASE ReadPayload
  <2>1. packet \in Packets
    BY <1>9 DEF ReadPayload, ReadInv
  <2>2. PICK n \in 0..Len(wire) :
            /\ Taken(n) /\ taken' = taken /\ packet' = packet
            /\ UNCHANGED <<link, ids, broker, past>>
            /\ pc' \in {"header", "lost", "handle"}
    BY <1>9, <2>1, ReadPayloadIs
  <2>3. wire' \in Seq(Byte)
    BY <2>2, TypeStream
  <2>4. short' \in BOOLEAN
    BY <1>9 DEF ReadPayload, TypeInv
  <2> QED
    BY <2>2, <2>3, <2>4 DEF TypeInv
<1>10. CASE Discard
  <2>1. packet \in Packets /\ packet.len <= taken
    BY <1>10, PacketFacts DEF Discard, ReadInv, TypeInv
  <2>2. PICK n \in 0..Len(wire) :
            /\ Taken(n) /\ packet' = packet
            /\ UNCHANGED <<link, ids, broker, past>>
            /\ pc' \in {"header", "discard"}
            /\ taken' \in Nat \/ taken' = taken + n
    BY <1>10, <2>1, DiscardIs
  <2>3. wire' \in Seq(Byte)
    BY <2>2, TypeStream
  <2>4. taken' \in Nat
    BY <2>2, LenProperties DEF TypeInv
  <2>5. short' \in BOOLEAN
    BY <1>10 DEF Discard, TypeInv
  <2> QED
    BY <2>2, <2>3, <2>4, <2>5 DEF TypeInv
<1>11. CASE HandlePublish
  <2>1. packet \in Packets /\ packet.msg \in Messages /\ packet.id \in Ids \cup {0}
    BY <1>11, PacketFacts DEF HandlePublish, ReadInv
  <2>2. delivered' \in [Messages -> Nat]
    <3>1. delivered \in [Messages -> Nat] /\ delivered[packet.msg] + 1 \in Nat
      BY <2>1 DEF TypeInv
    <3> QED
      BY <1>11, <2>1, <3>1 DEF HandlePublish
  <2>3. since' \in [Messages -> SUBSET Messages]
    <3>1. \A m \in Messages : since[m] \cup {packet.msg} \in SUBSET Messages /\ {} \in SUBSET Messages
      BY <2>1 DEF TypeInv
    <3>2. \A m \in Messages : since[m] \in SUBSET Messages
      BY DEF TypeInv
    <3> QED
      BY <1>11, <3>1, <3>2 DEF HandlePublish
  <2>4. ring' \in [1..RingLength -> Ids \cup {0}] /\ cnt' \in 0..(RingLength - 1)
    <3>1. CASE UNCHANGED ids
      BY <3>1 DEF TypeInv
    <3>2. CASE ring' = [ring EXCEPT ![cnt + 1] = packet.id] /\ cnt' = (cnt + 1) % RingLength
      <4>1. RingLength \in Nat \ {0} /\ cnt \in 0..(RingLength - 1)
        BY InboundAssumption DEF InboundAssumption, TypeInv
      <4>2. cnt' \in 0..(RingLength - 1)
        BY <3>2, <4>1
      <4>3. ring' \in [1..RingLength -> Ids \cup {0}]
        BY <2>1, <3>2 DEF TypeInv
      <4> QED
        BY <4>2, <4>3
    <3> QED
      BY <1>11, <3>1, <3>2 DEF HandlePublish, AddPacketId
  <2> QED
    BY <1>11, <2>2, <2>3, <2>4 DEF HandlePublish, TypeInv
<1>12. CASE SendPuback
  <2>1. packet \in Packets /\ packet.qos = 1
    BY <1>12 DEF SendPuback, ReadInv
  <2>2. packet.msg \in Messages /\ packet.id \in Ids \cup {0}
    BY <2>1, PacketFacts
  <2>3. Append(acks, packet.id) \in Seq(Ids \cup {0})
    BY <2>2, AppendFacts DEF TypeInv
  <2>4. acks' \in Seq(Ids \cup {0}) /\ acked' \in SUBSET Messages /\ pc' \in {"header", "lost"}
    BY <1>12, <2>2, <2>3 DEF SendPuback, TypeInv
  <2>5. UNCHANGED <<stream, packet, taken, ids, resend, inflight, sent, breaks, delivered, since, reused, short>>
    BY <1>12 DEF SendPuback
  <2> QED
    BY <2>4, <2>5 DEF TypeInv
<1>13. CASE HandleOther
  BY <1>13 DEF HandleOther, TypeInv
<1>14. CASE UNCHANGED vars
  BY <1>14 DEF vars, TypeInv
<1>15. \A id \in FreeIds : id \in Ids \cup {0}
  BY DEF FreeIds
<1> QED
  BY <1>1, <1>2, <1>3, <1>4, <1>5, <1>6, <1>7, <1>8, <1>9, <1>10, <1>11, <1>12, <1>13, <1>14, <1>15 DEF Next

-------------------------------------------------------------------------------
(* The stream is cut where packets begin. *)

LEMMA BytesAreTyped ==
  ASSUME NEW w \in Seq(Byte), NEW i \in 1..Len(w)
  PROVE  w[i] \in Byte /\ w[i].of \in Packets /\ w[i].at \in Nat /\ Size(w[i].of) \in Nat /\ Size(w[i].of) >= 2
<1>1. w[i] \in Byte
  BY LenProperties
<1>2. w[i].of \in Packets /\ w[i].at \in Nat
  BY <1>1 DEF Byte
<1>3. Size(w[i].of) \in Nat /\ Size(w[i].of) >= 2
  BY <1>2, BytesFacts
<1> QED
  BY <1>1, <1>2, <1>3

\* A packet is sent behind what is on its way.
LEMMA WholeSent ==
  ASSUME NEW w \in Seq(Byte), NEW p \in Packets, Whole(w, "up")
  PROVE  Whole(w \o Bytes(p), "up")
<1> DEFINE b == Bytes(p)
           v == w \o b
<1>1. /\ b \in Seq(Byte) /\ Len(b) = Size(p) /\ Size(p) \in Nat /\ Size(p) >= 2
      /\ \A k \in 1..Size(p) : b[k] = [of |-> p, at |-> k - 1]
  BY BytesFacts
<1>2. Len(w) \in Nat
  BY LenProperties
<1> HIDE DEF b
<1>3. /\ v \in Seq(Byte) /\ Len(v) = Len(w) + Size(p)
      /\ \A i \in 1..(Len(w) + Size(p)) : v[i] = IF i <= Len(w) THEN w[i] ELSE b[i - Len(w)]
  <2>1. /\ v \in Seq(Byte) /\ Len(v) = Len(w) + Len(b)
        /\ \A i \in 1..(Len(w) + Len(b)) : v[i] = IF i <= Len(w) THEN w[i] ELSE b[i - Len(w)]
    BY <1>1, ConcatProperties
  <2>2. Len(b) = Size(p)
    BY <1>1
  <2> HIDE DEF v
  <2> QED
    BY <2>1, <2>2
<1> HIDE DEF v
<1>4. \A i \in 1..Len(w) : v[i] = w[i]
  BY <1>1, <1>2, <1>3
<1>5. \A i \in 1..Len(v) : i > Len(w) =>
        /\ v[i] = [of |-> p, at |-> i - Len(w) - 1] /\ i - Len(w) - 1 < Size(p)
        /\ v[i].of = p /\ v[i].at = i - Len(w) - 1
  <2> TAKE i \in 1..Len(v)
  <2> HAVE i > Len(w)
  <2>1. i - Len(w) \in 1..Size(p) /\ i \in 1..(Len(w) + Size(p)) /\ ~(i <= Len(w))
    BY <1>1, <1>2, <1>3
  <2>2. v[i] = b[i - Len(w)]
    BY <1>3, <2>1
  <2>3. b[i - Len(w)] = [of |-> p, at |-> i - Len(w) - 1]
    BY <1>1, <2>1
  <2> QED
    BY <1>1, <1>2, <2>1, <2>2, <2>3
<1>6. \A i \in 1..Len(v) : v[i].at < Size(v[i].of)
  <2> TAKE i \in 1..Len(v)
  <2>1. CASE i <= Len(w)
    BY <1>2, <1>4, <2>1 DEF Whole
  <2>2. CASE i > Len(w)
    BY <1>5, <2>2
  <2> QED
    BY <1>2, <2>1, <2>2
<1>7. ASSUME NEW i \in 1..Len(v), NEW j \in 1..Len(v), i <= j
      PROVE  After(v[i], j - i, v[j])
  <2>1. CASE j <= Len(w)
    <3>1. i \in 1..Len(w) /\ j \in 1..Len(w)
      BY <1>2, <1>7, <2>1
    <3>2. After(w[i], j - i, w[j])
      BY <1>7, <3>1 DEF Whole
    <3> QED
      BY <1>4, <3>1, <3>2
  <2>2. CASE i > Len(w)
    <3>5. i \in Int /\ j \in Int /\ j > Len(w)
      BY <1>2, <1>7, <2>2
    <3>1. v[i].of = p /\ v[i].at = i - Len(w) - 1
      BY <1>5, <2>2
    <3>2. j > Len(w) /\ j - Len(w) - 1 < Size(p)
      BY <1>5, <3>5
    <3>3. v[j] = [of |-> p, at |-> j - Len(w) - 1]
      BY <1>5, <3>2
    <3>4. (i - Len(w) - 1) + (j - i) = j - Len(w) - 1
      BY <1>2
    <3> QED
      BY <1>1, <1>2, <3>1, <3>2, <3>3, <3>4, <3>5 DEF After
  <2>3. CASE i <= Len(w) /\ j > Len(w)
    <3> DEFINE n == Len(w)
               s == Size(w[i].of)
               a == w[i].at
    <3>1. n \in 1..Len(w) /\ i \in 1..Len(w) /\ v[i] = w[i] /\ w # <<>>
      BY <1>2, <1>4, <2>3, EmptySeq
    <3>2. s \in Nat /\ a \in Nat
      BY <3>1, BytesAreTyped
    <3>3. After(w[i], n - i, w[n]) /\ w[n].at + 1 = Size(w[n].of)
      BY <1>2, <2>3, <3>1 DEF Whole
    <3>4. a + (n - i) >= s - 1
      <4>1. CASE a + (n - i) < s
        <5>1. w[n] = [of |-> w[i].of, at |-> a + (n - i)]
          BY <3>3, <4>1 DEF After
        <5>2. w[n].at = a + (n - i) /\ Size(w[n].of) = s
          BY <5>1
        <5>3. a + (n - i) + 1 = s
          BY <3>3, <5>2
        <5> QED
          BY <1>2, <3>1, <3>2, <5>3
      <4> QED
        BY <1>2, <3>1, <3>2, <4>1
    <3>5. v[j] = [of |-> p, at |-> j - n - 1]
      BY <1>5, <2>3
    <3>6. a + (j - i) >= s /\ (a + (j - i) = s => j - n - 1 = 0)
      BY <1>2, <2>3, <3>1, <3>2, <3>4
    <3> QED
      BY <1>2, <3>1, <3>2, <3>5, <3>6 DEF After
  <2> QED
    BY <1>2, <2>1, <2>2, <2>3
<1>8. v[Len(v)].at + 1 = Size(v[Len(v)].of)
  <2>1. Len(v) \in 1..Len(v) /\ Len(v) > Len(w) /\ Len(v) - Len(w) = Size(p)
    BY <1>1, <1>2, <1>3
  <2>2. v[Len(v)] = [of |-> p, at |-> Len(v) - Len(w) - 1]
    BY <1>5, <2>1
  <2> QED
    BY <1>1, <2>1, <2>2
<1> QED
  BY <1>6, <1>7, <1>8 DEF Whole, v, b

\* Bytes are read from the beginning, and lost from the end.
LEMMA WholeRead ==
  ASSUME NEW w \in Seq(Byte), NEW l, NEW n \in 0..Len(w), Whole(w, l)
  PROVE  Whole(SubSeq(w, n + 1, Len(w)), l)
<1> DEFINE v == SubSeq(w, n + 1, Len(w))
<1>1. /\ v \in Seq(Byte) /\ Len(v) = Len(w) - n
      /\ \A i \in 1..(Len(w) - n) : n + i \in 1..Len(w) /\ v[i] = w[n + i]
  BY Suffix
<1>2. Len(w) \in Nat
  BY LenProperties
<1> HIDE DEF v
<1>3. \A i \in 1..Len(v) : n + i \in 1..Len(w) /\ v[i] = w[n + i]
  BY <1>1
<1>4. ASSUME NEW i \in 1..Len(v), NEW j \in 1..Len(v), i <= j
      PROVE  After(v[i], j - i, v[j])
  <2>1. n + i \in 1..Len(w) /\ n + j \in 1..Len(w) /\ v[i] = w[n + i] /\ v[j] = w[n + j]
    BY <1>3
  <2>2. n + i <= n + j /\ (n + j) - (n + i) = j - i
    BY <1>2, <1>4
  <2>3. After(w[n + i], (n + j) - (n + i), w[n + j])
    BY <2>1, <2>2 DEF Whole
  <2> QED
    BY <2>1, <2>2, <2>3
<1>5. ASSUME l = "up", v # <<>>
      PROVE  v[Len(v)].at + 1 = Size(v[Len(v)].of)
  <2>1. Len(v) \in 1..Len(v) /\ n + Len(v) = Len(w)
    BY <1>1, <1>2, <1>5, EmptySeq
  <2>2. v[Len(v)] = w[Len(w)]
    BY <1>3, <2>1
  <2>3. w # <<>>
    BY <1>1, <1>2, <2>1, EmptySeq
  <2> QED
    BY <1>5, <2>2, <2>3 DEF Whole
<1>6. \A i \in 1..Len(v) : v[i].at < Size(v[i].of)
  BY <1>3 DEF Whole
<1> QED
  BY <1>4, <1>5, <1>6 DEF Whole, v

LEMMA WholeCut ==
  ASSUME NEW w \in Seq(Byte), NEW l, NEW n \in 0..Len(w), Whole(w, l)
  PROVE  Whole(SubSeq(w, 1, n), "dead")
<1> DEFINE v == SubSeq(w, 1, n)
<1>1. v \in Seq(Byte) /\ Len(v) = n /\ \A i \in 1..n : i \in 1..Len(w) /\ v[i] = w[i]
  BY Prefix
<1> HIDE DEF v
<1>2. \A i \in 1..Len(v) : i \in 1..Len(w) /\ v[i] = w[i]
  BY <1>1
<1> QED
  BY <1>2 DEF Whole, v

\* The reader goes on inside a packet, or is at the end of it.
LEMMA ReadOn ==
  ASSUME NEW w \in Seq(Byte), NEW l, Whole(w, l), NEW p \in Packets, NEW n \in Nat, Within(w, l, p, n),
         NEW k \in 0..Len(w)
  PROVE  LET v == SubSeq(w, k + 1, Len(w)) IN
         /\ n + k < Size(p) => Within(v, l, p, n + k)
         /\ n + k = Size(p) => AtStart(v)
<1> DEFINE v == SubSeq(w, k + 1, Len(w))
<1>1. /\ v \in Seq(Byte) /\ Len(v) = Len(w) - k
      /\ \A i \in 1..(Len(w) - k) : k + i \in 1..Len(w) /\ v[i] = w[k + i]
  BY Suffix
<1>2. Len(w) \in Nat /\ Size(p) \in Nat
  BY LenProperties, BytesFacts
<1> HIDE DEF v
<1>3. ASSUME v # <<>>
      PROVE  /\ k + 1 \in 1..Len(w) /\ v[1] = w[k + 1] /\ w[1] = [of |-> p, at |-> n]
             /\ After(w[1], k, w[k + 1])
  <2>1. 1 \in 1..(Len(w) - k)
    BY <1>1, <1>2, <1>3, EmptySeq
  <2>2. k + 1 \in 1..Len(w) /\ v[1] = w[k + 1]
    BY <1>1, <2>1
  <2>3. w # <<>> /\ 1 \in 1..Len(w)
    BY <1>2, <2>1, EmptySeq
  <2>4. After(w[1], (k + 1) - 1, w[k + 1])
    BY <2>2, <2>3 DEF Whole
  <2>5. (k + 1) - 1 = k
    BY <1>2
  <2> QED
    BY <2>2, <2>3, <2>4, <2>5 DEF Within
<1>4. ASSUME n + k < Size(p), l = "up", v = <<>>
      PROVE  FALSE
  <2>1. Len(w) = k /\ w # <<>> /\ k >= 1
    BY <1>1, <1>2, <1>4, EmptySeq DEF Within
  <2>2. w[1] = [of |-> p, at |-> n] /\ w[k].at + 1 = Size(w[k].of)
    BY <1>4, <2>1 DEF Within, Whole
  <2>3. After(w[1], k - 1, w[k])
    BY <1>2, <2>1 DEF Whole
  <2>4. n + (k - 1) < Size(p)
    BY <1>2, <1>4
  <2>5. w[k] = [of |-> p, at |-> n + (k - 1)]
    BY <2>2, <2>3, <2>4 DEF After
  <2> QED
    BY <1>2, <1>4, <2>2, <2>5
<1>5. n + k < Size(p) => Within(v, l, p, n + k)
  <2> SUFFICES ASSUME n + k < Size(p) PROVE Within(v, l, p, n + k)
    OBVIOUS
  <2>1. v # <<>> => v[1] = [of |-> p, at |-> n + k]
    BY <1>3 DEF After
  <2> QED
    BY <1>4, <2>1 DEF Within
<1>6. n + k = Size(p) => AtStart(v)
  BY <1>3 DEF After, AtStart
<1> QED
  BY <1>5, <1>6 DEF v

LEMMA StreamInit == Init => StreamInv
BY EmptySeq DEF Init, StreamInv, Whole, ReadInv, AtStart

\* Packets are sent behind what is read.
LEMMA ReaderUndisturbed ==
  ASSUME TypeInv, ReadInv, NEW p \in Packets, link = "up", wire' = wire \o Bytes(p),
         UNCHANGED <<link, pc, packet, taken, short>>
  PROVE  ReadInv'
<1>1. /\ wire \in Seq(Byte) /\ Bytes(p) \in Seq(Byte) /\ Len(wire) \in Nat
      /\ Len(Bytes(p)) = Size(p) /\ Size(p) \in Nat /\ Size(p) >= 2
      /\ Bytes(p)[1].at = 0
  <2>1. Bytes(p) \in Seq(Byte) /\ Len(Bytes(p)) = Size(p) /\ Size(p) \in Nat /\ Size(p) >= 2
    BY BytesFacts
  <2>2. wire \in Seq(Byte) /\ Len(wire) \in Nat
    BY LenProperties DEF TypeInv
  <2>3. 1 \in 1..Size(p)
    BY <2>1
  <2>4. Bytes(p)[1] = [of |-> p, at |-> 1 - 1]
    BY <2>3, BytesFacts
  <2> QED
    BY <2>1, <2>2, <2>4
<1>2. /\ wire' \in Seq(Byte) /\ Len(wire') = Len(wire) + Len(Bytes(p))
      /\ wire'[1] = IF 1 <= Len(wire) THEN wire[1] ELSE Bytes(p)[1 - Len(wire)]
  BY <1>1, ConcatProperties
<1>3. CASE wire = <<>>
  <2>1. Len(wire) = 0 /\ 1 - 0 = 1
    BY <1>3, EmptySeq
  <2>2. wire'[1].at = 0
    BY <1>1, <1>2, <2>1
  <2>3. pc \notin {"length", "payload", "discard"}
    BY <1>3 DEF ReadInv, Within
  <2> QED
    BY <2>2, <2>3 DEF ReadInv, AtStart
<1>4. CASE wire # <<>>
  <2>1. Len(wire) >= 1
    BY <1>1, <1>4, EmptySeq
  <2>2. wire'[1] = wire[1]
    BY <1>2, <2>1
  <2>3. wire' # <<>>
    BY <1>1, <1>2, <2>1, EmptySeq
  <2> QED
    BY <1>4, <2>2, <2>3 DEF ReadInv, AtStart, Within
<1> QED
  BY <1>3, <1>4

\* A cut leaves the next byte, or none.
LEMMA ReaderCut ==
  ASSUME TypeInv, ReadInv, NEW n \in 0..Len(wire), wire' = SubSeq(wire, 1, n), link' = "dead",
         UNCHANGED <<pc, packet, taken, short>>
  PROVE  ReadInv'
<1>1. wire' \in Seq(Byte) /\ Len(wire') = n /\ \A i \in 1..n : i \in 1..Len(wire) /\ wire'[i] = wire[i]
  BY Prefix DEF TypeInv
<1>2. wire' # <<>> => wire # <<>> /\ wire'[1] = wire[1]
  <2> SUFFICES ASSUME wire' # <<>> PROVE wire # <<>> /\ wire'[1] = wire[1]
    OBVIOUS
  <2>1. 1 \in 1..n
    BY <1>1, EmptySeq
  <2>2. 1 \in 1..Len(wire) /\ wire'[1] = wire[1]
    BY <1>1, <2>1
  <2> QED
    BY <2>2, EmptySeq
<1>3. \A m : Within(wire, link, packet, m) => Within(wire', link', packet, m)
  BY <1>2 DEF Within
<1>4. AtStart(wire) => AtStart(wire')
  BY <1>2 DEF AtStart
<1> QED
  BY <1>3, <1>4 DEF ReadInv

\* Every step keeps the stream whole and the reader where it is told to be.
LEMMA StreamStep ==
  ASSUME TypeInv, StreamInv, [Next]_vars
  PROVE  StreamInv'
<1> USE DEF stream, broker, ids, past
<1>1. Whole(wire, link) /\ ReadInv /\ wire \in Seq(Byte) /\ Len(wire) \in Nat
  BY LenProperties DEF StreamInv, TypeInv
<1>2. ASSUME NEW p \in Packets, link = "up", wire' = wire \o Bytes(p),
             UNCHANGED <<link, pc, packet, taken, short>>
      PROVE  StreamInv'
  <2>1. Whole(wire \o Bytes(p), "up")
    BY <1>1, <1>2, WholeSent
  <2> QED
    BY <1>1, <1>2, <2>1, ReaderUndisturbed DEF StreamInv
<1>3. ASSUME NEW qos \in {0, 1}, NEW size \in Sizes, NEW id \in Ids \cup {0}, Publish(qos, size, id)
      PROVE  StreamInv'
  <2>1. PICK p \in Published :
          link = "up" /\ wire' = wire \o Bytes(p) /\ UNCHANGED <<link, pc, packet, taken, short>>
    BY <1>3, PublishIs
  <2>2. p \in Packets
    BY DEF Packets
  <2> QED
    BY <1>2, <2>1, <2>2
<1>4. CASE Resend
  <2>1. Head(resend) \in Packets
    BY <1>4, TailFacts DEF Resend, TypeInv
  <2>2. link = "up" /\ wire' = wire \o Bytes(Head(resend)) /\ UNCHANGED <<link, pc, packet, taken, short>>
    BY <1>4 DEF Resend
  <2> QED
    BY <1>2, <2>1, <2>2
<1>5. CASE AnswerPing
  <2>1. wire \o Bytes(PingResp) = Bytes(PingResp)
    BY <1>5, PingRespIs, BytesFacts, ConcatEmptySeq DEF AnswerPing
  <2>2. link = "up" /\ wire' = wire \o Bytes(PingResp) /\ UNCHANGED <<link, pc, packet, taken, short>>
    BY <1>5, <2>1 DEF AnswerPing
  <2> QED
    BY <1>2, <2>2, PingRespIs
<1>6. CASE Break
  <2>1. PICK n \in 0..Len(wire) : wire' = SubSeq(wire, 1, n)
    BY <1>6 DEF Break
  <2>2. link' = "dead" /\ UNCHANGED <<pc, packet, taken, short>>
    BY <1>6 DEF Break
  <2>3. Whole(wire', link')
    BY <1>1, <2>1, <2>2, WholeCut
  <2>4. ReadInv'
    BY <1>1, <2>1, <2>2, ReaderCut
  <2> QED
    BY <2>3, <2>4 DEF StreamInv
<1>7. CASE Reconnect
  <2>1. wire' = <<>> /\ link' = "up" /\ pc' = "header"
    BY <1>7 DEF Reconnect
  <2>2. Whole(<<>>, "up")
    BY EmptySeq DEF Whole
  <2>3. ReadInv'
    BY <2>1 DEF ReadInv, AtStart
  <2> QED
    BY <2>1, <2>2, <2>3 DEF StreamInv
<1>8. CASE ReadHeader
  <2>1. PICK n \in 0..Len(wire) :
            /\ Taken(n) /\ taken' = 0 /\ short' = short /\ link' = link
            /\ \/ pc' = "lost" /\ packet' = NoPacket
               \/ /\ n = 1 /\ wire # <<>>
                  /\ \/ pc' = "garbled" /\ packet' = NoPacket
                     \/ pc' = "length" /\ packet' = wire[1].of /\ wire[1].at = 0
    BY <1>8, ReadHeaderIs
  <2>2. Whole(wire', link')
    BY <1>1, <2>1, WholeRead DEF Taken
  <2>3. CASE pc' \in {"lost", "garbled"}
    BY <2>2, <2>3 DEF StreamInv, ReadInv
  <2>4. CASE pc' = "length"
    <3> DEFINE p == wire[1].of
    <3>1. n = 1 /\ wire # <<>> /\ packet' = p /\ wire[1].at = 0
      BY <2>1, <2>4
    <3>2. 1 \in 1..Len(wire)
      BY <1>1, <3>1, EmptySeq
    <3>3. p \in Packets /\ wire[1] \in Byte /\ Size(p) >= 2 /\ Size(p) \in Nat
      BY <1>1, <3>2, BytesAreTyped
    <3>4. wire[1] = [of |-> p, at |-> 0]
      BY <3>1, <3>3 DEF Byte
    <3>5. Within(wire, link, p, 0)
      BY <3>1, <3>4 DEF Within
    <3> HIDE DEF p
    <3>6. 0 + 1 < Size(p)
      BY <3>3
    <3>7. Within(wire', link', p, 0 + 1)
      BY <1>1, <2>1, <3>1, <3>3, <3>5, <3>6, ReadOn DEF Taken
    <3>8. 0 < p.len /\ 0 + 1 = 1 + 0
      BY <3>3, PacketFacts
    <3>9. taken' < packet'.len /\ Within(wire', link', packet', 1 + taken')
      BY <2>1, <3>1, <3>7, <3>8
    <3>10. ReadInv'
      BY <2>4, <3>1, <3>3, <3>9 DEF ReadInv
    <3> QED
      BY <2>2, <3>10 DEF StreamInv
  <2> QED
    BY <2>1, <2>3, <2>4
<1>9. CASE ReadLength
  <2>1. PICK n \in 0..Len(wire) :
            /\ Taken(n) /\ taken' = taken + n /\ packet' = packet /\ link' = link
            /\ \/ pc' = "header" /\ short'
               \/ /\ n = 1 /\ short' = short
                  /\ pc' = IF taken' < packet.len THEN "length"
                           ELSE IF Size(packet) >= ReadBufSize THEN "discard"
                           ELSE IF packet.rem > 0 THEN "payload" ELSE "handle"
    BY <1>9, ReadLengthIs
  <2>2. Whole(wire', link')
    BY <1>1, <2>1, WholeRead DEF Taken
  <2>3. packet \in Packets /\ taken < packet.len /\ Within(wire, link, packet, 1 + taken) /\ taken \in Nat
    BY <1>1, <1>9 DEF ReadLength, ReadInv, TypeInv
  <2>4. packet.len \in 1..4 /\ packet.rem \in Nat /\ Size(packet) = 1 + packet.len + packet.rem
    BY <2>3, PacketFacts
  <2>5. CASE pc' = "header" /\ short'
    BY <2>2, <2>5 DEF StreamInv, ReadInv
  <2>6. CASE /\ n = 1 /\ short' = short
             /\ pc' = IF taken' < packet.len THEN "length"
                      ELSE IF Size(packet) >= ReadBufSize THEN "discard"
                      ELSE IF packet.rem > 0 THEN "payload" ELSE "handle"
    <3>1. taken' = taken + 1 /\ (1 + taken) + 1 = 1 + taken' /\ 1 + taken \in Nat
      BY <2>1, <2>3, <2>6
    <3>2. /\ (1 + taken) + 1 < Size(packet) => Within(wire', link', packet, 1 + taken')
          /\ (1 + taken) + 1 = Size(packet) => AtStart(wire')
      BY <1>1, <2>1, <2>3, <2>6, <3>1, ReadOn DEF Taken
    <3>3. CASE taken' < packet.len
      <4>1. pc' = "length" /\ (1 + taken) + 1 < Size(packet)
        BY <2>3, <2>4, <2>6, <3>1, <3>3
      <4>2. ReadInv'
        BY <2>1, <2>3, <3>2, <3>3, <4>1 DEF ReadInv
      <4> QED
        BY <2>2, <4>2 DEF StreamInv
    <3>4. CASE ~(taken' < packet.len)
      <4>1. taken' = packet.len
        BY <2>3, <2>4, <3>1, <3>4
      <4>2. CASE packet.rem > 0
        <5>1. (1 + taken) + 1 < Size(packet)
          BY <2>3, <2>4, <3>1, <4>1, <4>2
        <5>2. pc' \in {"discard", "payload"}
          BY <2>6, <3>4, <4>2
        <5>3. Within(wire', link', packet', 1 + packet'.len)
          BY <2>1, <3>2, <4>1, <5>1
        <5>4. ReadInv'
          BY <2>1, <2>3, <2>4, <4>1, <4>2, <5>2, <5>3 DEF ReadInv
        <5> QED
          BY <2>2, <5>4 DEF StreamInv
      <4>3. CASE ~(packet.rem > 0)
        <5>1. packet.rem = 0 /\ (1 + taken) + 1 = Size(packet) /\ Size(packet) <= 5
          BY <2>3, <2>4, <3>1, <4>1, <4>3
        <5>2. ~(Size(packet) >= ReadBufSize)
          BY <2>4, <5>1, InboundAssumption DEF InboundAssumption
        <5>3. pc' = "handle"
          BY <2>6, <3>4, <4>3, <5>2
        <5>4. ReadInv'
          BY <2>1, <2>3, <3>2, <5>1, <5>3 DEF ReadInv
        <5> QED
          BY <2>2, <5>4 DEF StreamInv
      <4> QED
        BY <4>2, <4>3
    <3> QED
      BY <3>3, <3>4
  <2> QED
    BY <2>1, <2>5, <2>6
<1>10. CASE ReadPayload
  <2>1. packet \in Packets /\ Within(wire, link, packet, 1 + packet.len)
    BY <1>1, <1>10 DEF ReadPayload, ReadInv
  <2>2. PICK n \in 0..Len(wire) :
            /\ Taken(n) /\ packet' = packet /\ link' = link
            /\ \/ pc' = "header" /\ short'
               \/ pc' = "lost" /\ short' = short
               \/ pc' = "handle" /\ short' = short /\ n = packet.rem
    BY <1>10, <2>1, ReadPayloadIs
  <2>3. Whole(wire', link')
    BY <1>1, <2>2, WholeRead DEF Taken
  <2>4. CASE pc' = "lost" \/ (pc' = "header" /\ short')
    BY <2>3, <2>4 DEF StreamInv, ReadInv
  <2>5. CASE pc' = "handle" /\ n = packet.rem
    <3>1. (1 + packet.len) + n = Size(packet) /\ 1 + packet.len \in Nat
      BY <2>1, <2>5, PacketFacts
    <3>2. AtStart(wire')
      BY <1>1, <2>1, <2>2, <3>1, ReadOn DEF Taken
    <3>3. ReadInv'
      BY <2>1, <2>2, <2>5, <3>2 DEF ReadInv
    <3> QED
      BY <2>3, <3>3 DEF StreamInv
  <2> QED
    BY <2>2, <2>4, <2>5
<1>11. CASE Discard
  <2>1. /\ packet \in Packets /\ packet.len <= taken /\ taken < packet.len + packet.rem
        /\ Within(wire, link, packet, 1 + taken) /\ taken \in Nat
        /\ packet.len \in Nat /\ packet.rem \in Nat /\ Size(packet) = 1 + packet.len + packet.rem
    <3>1. packet \in Packets /\ taken >= packet.len /\ taken < packet.len + packet.rem
          /\ Within(wire, link, packet, 1 + taken) /\ taken \in Nat
      BY <1>1, <1>11 DEF Discard, ReadInv, TypeInv
    <3>2. packet.len \in 1..4 /\ packet.rem \in Nat /\ Size(packet) = 1 + packet.len + packet.rem
      BY <3>1, PacketFacts
    <3> QED
      BY <3>1, <3>2
  <2>2. PICK n \in 0..Len(wire) :
            /\ Taken(n) /\ packet' = packet /\ link' = link
            /\ \/ pc' = "header" /\ short' /\ taken' \in Nat
               \/ /\ taken' = taken + n /\ short' = short
                  /\ \/ pc' = "discard" /\ taken + n < packet.len + packet.rem
                     \/ pc' = "header" /\ taken + n = packet.len + packet.rem
    BY <1>11, <2>1, DiscardIs
  <2>3. Whole(wire', link')
    BY <1>1, <2>2, WholeRead DEF Taken
  <2>4. CASE pc' = "header" /\ short'
    BY <2>3, <2>4 DEF StreamInv, ReadInv
  <2>5. CASE taken' = taken + n /\ pc' = "discard" /\ taken + n < packet.len + packet.rem
    <3>1. (1 + taken) + n < Size(packet) /\ (1 + taken) + n = 1 + taken' /\ 1 + taken \in Nat
          /\ taken' >= packet.len /\ taken' < packet.len + packet.rem
      BY <2>1, <2>5
    <3>2. Within(wire', link', packet, (1 + taken) + n)
      BY <1>1, <2>1, <2>2, <3>1, ReadOn DEF Taken
    <3>3. Within(wire', link', packet', 1 + taken')
      BY <2>2, <3>1, <3>2
    <3>4. ReadInv'
      BY <2>1, <2>2, <2>5, <3>1, <3>3 DEF ReadInv
    <3> QED
      BY <2>3, <3>4 DEF StreamInv
  <2>6. CASE pc' = "header" /\ taken + n = packet.len + packet.rem
    <3>1. (1 + taken) + n = Size(packet) /\ 1 + taken \in Nat
      BY <2>1, <2>6
    <3>2. AtStart(wire')
      BY <1>1, <2>1, <2>2, <3>1, ReadOn DEF Taken
    <3>3. ReadInv'
      BY <2>6, <3>2 DEF ReadInv
    <3> QED
      BY <2>3, <3>3 DEF StreamInv
  <2> QED
    BY <2>2, <2>4, <2>5, <2>6
<1>12. ASSUME UNCHANGED <<link, wire>>, HandlePublish \/ SendPuback \/ HandleOther
       PROVE  StreamInv'
  <2>1. UNCHANGED <<packet, short>>
    BY <1>12 DEF HandlePublish, SendPuback, HandleOther
  <2>2. pc \in {"handle", "puback"} /\ pc' \in {"header", "puback", "lost"}
    BY <1>12 DEF HandlePublish, SendPuback, HandleOther
  <2>3. packet \in Packets /\ (~short => AtStart(wire))
    BY <1>1, <2>2 DEF ReadInv
  <2>4. pc' = "puback" => packet.qos = 1
    <3>1. CASE HandlePublish
      <4>1. packet.qos \in {0, 1}
        BY <2>3, PacketFacts
      <4> QED
        BY <3>1, <4>1 DEF HandlePublish
    <3>2. CASE SendPuback \/ HandleOther
      BY <3>2 DEF SendPuback, HandleOther
    <3> QED
      BY <1>12, <3>1, <3>2
  <2>5. ReadInv'
    BY <1>12, <2>1, <2>2, <2>3, <2>4 DEF ReadInv
  <2> QED
    BY <1>1, <1>12, <2>5 DEF StreamInv
<1>13. CASE ReceivePuback \/ UNCHANGED vars
  <2>1. UNCHANGED <<link, wire, pc, packet, taken, short>>
    BY <1>13 DEF ReceivePuback, vars
  <2> QED
    BY <1>1, <2>1 DEF StreamInv, ReadInv
<1>14. HandlePublish \/ SendPuback \/ HandleOther => UNCHANGED <<link, wire>>
  BY DEF HandlePublish, SendPuback, HandleOther
<1>15. \A id \in FreeIds : id \in Ids \cup {0}
  BY DEF FreeIds
<1> QED
  BY <1>3, <1>4, <1>5, <1>6, <1>7, <1>8, <1>9, <1>10, <1>11, <1>12, <1>13, <1>14, <1>15 DEF Next

\* Whatever arrives in whatever pieces, and whatever breaks, every variable keeps its type.
THEOREM TypeCorrect == Spec => [](TypeInv /\ StreamInv)
<1>1. Init => TypeInv /\ StreamInv
  BY TypeInit, StreamInit
<1>2. TypeInv /\ StreamInv /\ [Next]_vars => (TypeInv /\ StreamInv)'
  BY TypeStep, StreamStep DEF StreamInv
<1> QED
  BY <1>1, <1>2, PTL DEF Spec

\* When the client is about to read a packet, the stream is at the beginning of one: for
\* packets and buffers of every size, with reads that return any part of what was asked for,
\* and links that break in the middle of a packet, unless a read found nothing
\* inside a packet or a packet was too long by less than its fixed header.
THEOREM PacketsAreCut == Spec => []StreamAligned
<1>1. TypeInv /\ StreamInv => StreamAligned
  <2> SUFFICES ASSUME TypeInv, StreamInv, pc = "header", ~short, wire # <<>>
               PROVE  Head(wire).at = 0
    BY DEF StreamAligned
  <2>1. wire[1].at = 0
    BY DEF StreamInv, ReadInv, AtStart
  <2>2. Head(wire) = wire[1]
    BY TailFacts DEF TypeInv
  <2> QED
    BY <2>1, <2>2
<1> QED
  BY <1>1, TypeCorrect, PTL

-------------------------------------------------------------------------------
(* What is acknowledged has arrived. *)

\* A packet sent is behind w.
LEMMA SentFacts ==
  ASSUME NEW w \in Seq(Byte), NEW p \in Packets
  PROVE  /\ Len(w) \in Nat /\ Len(w \o Bytes(p)) \in Nat
         /\ \A i \in 1..Len(w \o Bytes(p)) :
               \/ i \in 1..Len(w) /\ (w \o Bytes(p))[i] = w[i]
               \/ i > Len(w) /\ (w \o Bytes(p))[i] = [of |-> p, at |-> i - Len(w) - 1]
<1> DEFINE b == Bytes(p)
           v == w \o b
<1>1. b \in Seq(Byte) /\ Len(b) = Size(p) /\ Size(p) \in Nat
  BY BytesFacts
<1>2. \A k \in 1..Size(p) : b[k] = [of |-> p, at |-> k - 1]
  BY BytesFacts
<1>3. Len(w) \in Nat
  BY LenProperties
<1> HIDE DEF b
<1>4. Len(v) = Len(w) + Len(b) /\ \A i \in 1..(Len(w) + Len(b)) : v[i] = IF i <= Len(w) THEN w[i] ELSE b[i - Len(w)]
  BY <1>1, ConcatProperties
<1> HIDE DEF v
<1>5. ASSUME NEW i \in 1..Len(v)
      PROVE  \/ i \in 1..Len(w) /\ v[i] = w[i]
             \/ i > Len(w) /\ v[i] = [of |-> p, at |-> i - Len(w) - 1]
  <2>1. CASE i <= Len(w)
    BY <1>1, <1>3, <1>4, <2>1
  <2>2. CASE ~(i <= Len(w))
    <3>1. i - Len(w) \in 1..Size(p) /\ i > Len(w)
      BY <1>1, <1>3, <1>4, <2>2
    <3>2. v[i] = b[i - Len(w)]
      BY <1>1, <1>3, <1>4, <2>2
    <3>3. b[i - Len(w)] = [of |-> p, at |-> i - Len(w) - 1]
      BY <1>2, <3>1
    <3> QED
      BY <3>1, <3>2, <3>3
  <2> QED
    BY <2>1, <2>2
<1>6. Len(v) \in Nat
  BY <1>1, <1>3, <1>4
<1> QED
  BY <1>3, <1>5, <1>6 DEF v, b

LEMMA OnceSent ==
  ASSUME NEW w \in Seq(Byte), NEW p \in Packets, Once(w), Free(w, p.msg)
  PROVE  Once(w \o Bytes(p))
<1> DEFINE v == w \o Bytes(p)
<1>1. /\ Len(w) \in Nat /\ Len(v) \in Nat
      /\ \A i \in 1..Len(v) :
            \/ i \in 1..Len(w) /\ v[i] = w[i]
            \/ i > Len(w) /\ v[i] = [of |-> p, at |-> i - Len(w) - 1]
  BY SentFacts
<1> HIDE DEF v
<1>2. ASSUME NEW i \in 1..Len(v), NEW j \in 1..Len(v), i <= j, v[i].of.msg = v[j].of.msg, v[i].of.msg > 0
      PROVE  v[j] = [of |-> v[i].of, at |-> v[i].at + (j - i)]
  <2>1. CASE i \in 1..Len(w) /\ v[i] = w[i] /\ j \in 1..Len(w) /\ v[j] = w[j]
    BY <1>2, <2>1 DEF Once
  <2>2. CASE i \in 1..Len(w) /\ v[i] = w[i] /\ v[j] = [of |-> p, at |-> j - Len(w) - 1]
    <3>1. w[i].of.msg = p.msg /\ p.msg > 0
      BY <1>2, <2>2
    <3> QED
      BY <2>2, <3>1 DEF Free
  <2>3. CASE i > Len(w) /\ v[i] = [of |-> p, at |-> i - Len(w) - 1] /\ j \in 1..Len(w)
    BY <1>1, <1>2, <2>3
  <2>4. CASE v[i] = [of |-> p, at |-> i - Len(w) - 1] /\ v[j] = [of |-> p, at |-> j - Len(w) - 1]
    <3>1. (i - Len(w) - 1) + (j - i) = j - Len(w) - 1
      BY <1>1
    <3> QED
      BY <2>4, <3>1
  <2> QED
    BY <1>1, <2>1, <2>2, <2>3, <2>4
<1> QED
  BY <1>2 DEF Once, v

LEMMA OnceRead ==
  ASSUME NEW w \in Seq(Byte), NEW n \in 0..Len(w), Once(w)
  PROVE  Once(SubSeq(w, n + 1, Len(w)))
<1> DEFINE v == SubSeq(w, n + 1, Len(w))
<1>1. Len(v) = Len(w) - n /\ \A i \in 1..(Len(w) - n) : n + i \in 1..Len(w) /\ v[i] = w[n + i]
  BY Suffix
<1>2. Len(w) \in Nat
  BY LenProperties
<1> HIDE DEF v
<1>3. ASSUME NEW i \in 1..Len(v), NEW j \in 1..Len(v), i <= j, v[i].of.msg = v[j].of.msg, v[i].of.msg > 0
      PROVE  v[j] = [of |-> v[i].of, at |-> v[i].at + (j - i)]
  <2>1. n + i \in 1..Len(w) /\ n + j \in 1..Len(w) /\ v[i] = w[n + i] /\ v[j] = w[n + j]
    BY <1>1
  <2>2. n + i <= n + j /\ (n + j) - (n + i) = j - i
    BY <1>1, <1>2, <1>3
  <2>3. w[n + j] = [of |-> w[n + i].of, at |-> w[n + i].at + ((n + j) - (n + i))]
    BY <1>3, <2>1, <2>2 DEF Once
  <2> QED
    BY <2>1, <2>2, <2>3
<1> QED
  BY <1>3 DEF Once, v

LEMMA OnceCut ==
  ASSUME NEW w \in Seq(Byte), NEW n \in 0..Len(w), Once(w)
  PROVE  Once(SubSeq(w, 1, n))
<1> DEFINE v == SubSeq(w, 1, n)
<1>1. v \in Seq(Byte) /\ Len(v) = n /\ \A i \in 1..n : i \in 1..Len(w) /\ v[i] = w[i]
  BY Prefix
<1> HIDE DEF v
<1> QED
  BY <1>1 DEF Once, v

\* Of a packet that has been read to its end, nothing is left.
LEMMA NothingLeft ==
  ASSUME NEW w \in Seq(Byte), NEW l, Whole(w, l), Once(w), NEW p \in Packets, NEW m \in Nat, Within(w, l, p, m),
         NEW n \in 0..Len(w), m + n = Size(p)
  PROVE  Free(SubSeq(w, n + 1, Len(w)), p.msg)
<1> DEFINE v == SubSeq(w, n + 1, Len(w))
<1>1. Len(v) = Len(w) - n /\ \A i \in 1..(Len(w) - n) : n + i \in 1..Len(w) /\ v[i] = w[n + i]
  BY Suffix
<1>2. Len(w) \in Nat /\ Size(p) \in Nat
  BY LenProperties, BytesFacts
<1> HIDE DEF v
<1>3. ASSUME NEW i \in 1..Len(v), p.msg > 0, v[i].of.msg = p.msg
      PROVE  FALSE
  <2>1. n + i \in 1..Len(w) /\ v[i] = w[n + i]
    BY <1>1
  <2>2. 1 \in 1..Len(w) /\ 1 <= n + i /\ w # <<>> /\ i >= 1 /\ i \in Int
    BY <1>2, <2>1, EmptySeq
  <2>3. w[1] = [of |-> p, at |-> m]
    BY <2>2 DEF Within
  <2>4. w[n + i] = [of |-> w[1].of, at |-> w[1].at + ((n + i) - 1)]
    BY <1>3, <2>1, <2>2, <2>3 DEF Once
  <2>5. w[n + i].of = p /\ w[n + i].at = m + ((n + i) - 1)
    BY <2>3, <2>4
  <2>6. w[n + i].at < Size(w[n + i].of)
    BY <2>1 DEF Whole
  <2>7. m + ((n + i) - 1) < m + n
    BY <2>5, <2>6
  <2> QED
    BY <1>2, <2>2, <2>7
<1> QED
  BY <1>3 DEF Free, v

\* A packet the broker waits for is the only one on its way with its message or its id.
LEMMA Unique ==
  ASSUME NEW f, NEW n \in Nat, NEW d, Unacked(f, n), NEW p, NEW q \in Packets, In(f, p), Coming(q, f, n, d)
  PROVE  /\ p.msg = q.msg => p = q
         /\ q.qos = 1 /\ p.id = q.id => p = q
<1>1. PICK k \in 1..Len(f) : f[k] = p
  BY DEF In
<1>2. p.msg \in 1..n
  BY <1>1 DEF Unacked
<1>3. q.qos \in {0, 1}
  BY PacketFacts
<1>4. CASE q.qos = 1
  <2>1. PICK j \in 1..Len(f) : f[j] = q
    BY <1>4 DEF In, Coming
  <2> QED
    BY <1>1, <2>1 DEF Unacked
<1>5. CASE q.qos = 0
  <2>1. q.msg > 0 => p.msg # q.msg
    BY <1>1, <1>5 DEF Coming
  <2>2. p.msg > 0
    BY <1>2
  <2> QED
    BY <1>5, <2>1, <2>2
<1> QED
  BY <1>3, <1>4, <1>5

LEMMA NotNewer ==
  ASSUME NEW f, NEW n \in Nat, NEW d, Unacked(f, n), NEW q \in Packets, Coming(q, f, n, d)
  PROVE  q.msg <= n
<1>1. q.qos \in {0, 1} /\ q.msg \in Nat
  <2>1. q.msg \in 0..MaxMessages /\ q.qos \in {0, 1}
    BY PacketFacts
  <2>2. MaxMessages \in Nat
    BY InboundAssumption DEF InboundAssumption
  <2> QED
    BY <2>1, <2>2
<1>2. CASE q.qos = 1
  <2>1. PICK j \in 1..Len(f) : f[j] = q
    BY <1>2 DEF In, Coming
  <2>2. q.msg \in 1..n
    BY <2>1 DEF Unacked
  <2> QED
    BY <2>2
<1>3. CASE q.qos = 0
  BY <1>1, <1>3 DEF Coming
<1> QED
  BY <1>1, <1>2, <1>3

LEMMA Elements ==
  ASSUME TypeInv
  PROVE  /\ Len(wire) \in Nat /\ Len(inflight) \in Nat /\ Len(acks) \in Nat /\ Len(resend) \in Nat /\ sent \in Nat
         /\ \A i \in 1..Len(wire) : wire[i].of \in Packets
         /\ \A i \in 1..Len(inflight) : inflight[i] \in Packets
         /\ \A i \in 1..Len(resend) : resend[i] \in Packets
         /\ Reads => packet \in Packets \/ packet = NoPacket
<1>1. Len(wire) \in Nat /\ Len(inflight) \in Nat /\ Len(acks) \in Nat /\ Len(resend) \in Nat
  BY LenProperties DEF TypeInv
<1>2. sent \in Nat
  BY InboundAssumption DEF TypeInv, InboundAssumption
<1>3. \A i \in 1..Len(wire) : wire[i].of \in Packets
  BY BytesAreTyped DEF TypeInv
<1>4. \A i \in 1..Len(inflight) : inflight[i] \in Packets
  BY LenProperties DEF TypeInv
<1>5. \A i \in 1..Len(resend) : resend[i] \in Packets
  BY LenProperties DEF TypeInv
<1> QED
  BY <1>1, <1>2, <1>3, <1>4, <1>5 DEF TypeInv

LEMMA Removed ==
  ASSUME NEW S, NEW s \in Seq(S), NEW k \in 1..Len(s)
  PROVE  /\ \A i \in 1..Len(RemoveAt(s, k)) : \E j \in 1..Len(s) : j # k /\ RemoveAt(s, k)[i] = s[j]
         /\ \A j \in 1..Len(s) : j # k => \E i \in 1..Len(RemoveAt(s, k)) : RemoveAt(s, k)[i] = s[j]
         /\ \A i, l \in 1..Len(RemoveAt(s, k)) :
               (\A x, y \in 1..Len(s) : RemoveAt(s, k)[i] = s[x] /\ RemoveAt(s, k)[l] = s[y] => x = y) => i = l
<1> DEFINE r == RemoveAt(s, k)
           at(i) == IF i < k THEN i ELSE i + 1
<1>1. Len(s) \in Nat /\ k \in Int
  BY LenProperties
<1>2. Len(r) = Len(s) - 1 /\ \A i \in 1..(Len(s) - 1) : r[i] = IF i < k THEN s[i] ELSE s[i + 1]
  BY RemoveAtFacts
<1> HIDE DEF r
<1>3. \A i \in 1..Len(r) : at(i) \in 1..Len(s) /\ at(i) # k /\ r[i] = s[at(i)]
  BY <1>1, <1>2
<1>4. \A i, l \in 1..Len(r) : at(i) = at(l) => i = l
  BY <1>1, <1>2
<1>5. ASSUME NEW j \in 1..Len(s), j # k
      PROVE  \E i \in 1..Len(r) : r[i] = s[j]
  <2>1. CASE j < k
    BY <1>1, <1>2, <1>5, <2>1
  <2>2. CASE j > k
    <3>1. j - 1 \in 1..Len(r) /\ ~(j - 1 < k) /\ (j - 1) + 1 = j
      BY <1>1, <1>2, <1>5, <2>2
    <3>2. r[j - 1] = s[j]
      BY <1>2, <3>1
    <3> QED
      BY <3>1, <3>2
  <2> QED
    BY <1>1, <1>5, <2>1, <2>2
<1> HIDE DEF at
<1> QED
  BY <1>3, <1>4, <1>5 DEF r

\* The bytes that are read, or lost, were on their way; what is read next was the next byte.
LEMMA MessageRead ==
  ASSUME TypeInv, MessageInv, UNCHANGED <<broker, past, ids>>,
         Once(wire'), \A i \in 1..Len(wire') : \E j \in 1..Len(wire) : wire'[i] = wire[j],
         Reads' => (Reads /\ packet' = packet) \/ \E j \in 1..Len(wire) : packet' = wire[j].of,
         pc' # "puback", pc' = "handle" => Free(wire', packet'.msg)
  PROVE  MessageInv'
<1> USE DEF broker, past, ids
<1>1. Unacked(inflight, sent)'
  BY DEF MessageInv
<1>2. ResendInv'
  BY DEF MessageInv, ResendInv
<1>3. WayInv'
  <2>1. \A i \in 1..Len(wire') : Coming(wire'[i].of, inflight', sent', delivered')
    BY DEF MessageInv, WayInv
  <2>2. Reads' => Coming(packet', inflight', sent', delivered')
    BY DEF MessageInv, WayInv
  <2> QED
    BY <2>1, <2>2 DEF WayInv
<1>4. AcksInv'
  <2>1. ASSUME NEW i \in 1..Len(acks), NEW j \in 1..Len(wire'), wire'[j].of.qos = 1
        PROVE  wire'[j].of.id # acks[i]
    <3>1. PICK k \in 1..Len(wire) : wire'[j] = wire[k]
      OBVIOUS
    <3>2. wire[k].of.qos = 1 => wire[k].of.id # acks[i]
      BY DEF MessageInv, AcksInv
    <3> QED
      BY <2>1, <3>1, <3>2
  <2>2. ASSUME Reads', packet'.qos = 1, NEW i \in 1..Len(acks)
        PROVE  packet'.id # acks[i]
    <3>1. CASE Reads /\ packet' = packet
      BY <2>2, <3>1 DEF MessageInv, AcksInv
    <3>2. CASE \E j \in 1..Len(wire) : packet' = wire[j].of
      BY <2>2, <3>2 DEF MessageInv, AcksInv
    <3> QED
      BY <2>2, <3>1, <3>2
  <2> QED
    BY <2>1, <2>2 DEF MessageInv, AcksInv
<1>5. DeliveryInv'
  BY DEF MessageInv, DeliveryInv, AckedIsDelivered
<1> QED
  BY <1>1, <1>2, <1>3, <1>4, <1>5 DEF MessageInv

LEMMA MessageReads ==
  ASSUME TypeInv, StreamInv, MessageInv, Reading
  PROVE  MessageInv'
<1>1. Whole(wire, link) /\ ReadInv /\ wire \in Seq(Byte) /\ Len(wire) \in Nat /\ Once(wire)
  BY LenProperties DEF StreamInv, TypeInv, MessageInv, WayInv
<1>2. ASSUME NEW n \in 0..Len(wire), Taken(n)
      PROVE  Once(wire') /\ \A i \in 1..Len(wire') : \E j \in 1..Len(wire) : wire'[i] = wire[j]
  <2>1. wire' = SubSeq(wire, n + 1, Len(wire))
    BY <1>2 DEF Taken
  <2>2. Once(wire')
    BY <1>1, <2>1, OnceRead
  <2>3. Len(wire') = Len(wire) - n /\ \A i \in 1..(Len(wire) - n) : n + i \in 1..Len(wire) /\ wire'[i] = wire[n + i]
    BY <1>1, <2>1, Suffix
  <2> QED
    BY <2>2, <2>3
<1>3. CASE ReadHeader
  <2>1. PICK n \in 0..Len(wire) :
            /\ Taken(n) /\ UNCHANGED <<link, ids, broker, past>>
            /\ \/ pc' = "lost" /\ packet' = NoPacket
               \/ /\ n = 1 /\ wire # <<>>
                  /\ \/ pc' = "garbled" /\ packet' = NoPacket
                     \/ pc' = "length" /\ packet' = wire[1].of /\ wire[1].at = 0
    BY <1>3, ReadHeaderIs
  <2>2. Reads' => \E j \in 1..Len(wire) : packet' = wire[j].of
    <3>1. wire # <<>> => 1 \in 1..Len(wire)
      BY <1>1, EmptySeq
    <3> QED
      BY <2>1, <3>1 DEF Reads
  <2>3. pc' \notin {"puback", "handle"}
    BY <2>1
  <2> QED
    BY <1>2, <2>1, <2>2, <2>3, MessageRead
<1>4. CASE ReadLength
  <2>1. PICK n \in 0..Len(wire) :
            /\ Taken(n) /\ taken' = taken + n /\ packet' = packet
            /\ UNCHANGED <<link, ids, broker, past>>
            /\ \/ pc' = "header" /\ short'
               \/ /\ n = 1 /\ short' = short
                  /\ pc' = IF taken' < packet.len THEN "length"
                           ELSE IF Size(packet) >= ReadBufSize THEN "discard"
                           ELSE IF packet.rem > 0 THEN "payload" ELSE "handle"
    BY <1>4, ReadLengthIs
  <2>2. packet \in Packets /\ taken < packet.len /\ Within(wire, link, packet, 1 + taken) /\ taken \in Nat
    BY <1>1, <1>4 DEF ReadLength, ReadInv, TypeInv
  <2>3. packet.len \in 1..4 /\ packet.rem \in Nat /\ Size(packet) = 1 + packet.len + packet.rem
    BY <2>2, PacketFacts
  <2>4. ASSUME pc' = "handle"
        PROVE  Free(wire', packet'.msg)
    <3>1. n = 1 /\ ~(taken' < packet.len) /\ ~(packet.rem > 0)
      BY <2>1, <2>4
    <3>2. (1 + taken) + n = Size(packet) /\ 1 + taken \in Nat
      BY <2>1, <2>2, <2>3, <3>1
    <3>3. Free(SubSeq(wire, n + 1, Len(wire)), packet.msg)
      BY <1>1, <2>2, <3>2, NothingLeft
    <3> QED
      BY <2>1, <3>3 DEF Taken
  <2>5. pc' # "puback"
    BY <2>1
  <2>6. Reads
    BY <1>4 DEF ReadLength, Reads
  <2> QED
    BY <1>2, <2>1, <2>4, <2>5, <2>6, MessageRead
<1>5. CASE ReadPayload
  <2>1. packet \in Packets /\ Within(wire, link, packet, 1 + packet.len)
    BY <1>1, <1>5 DEF ReadPayload, ReadInv
  <2>2. PICK n \in 0..Len(wire) :
            /\ Taken(n) /\ packet' = packet
            /\ UNCHANGED <<link, ids, broker, past>>
            /\ \/ pc' = "header" /\ short'
               \/ pc' = "lost" /\ short' = short
               \/ pc' = "handle" /\ short' = short /\ n = packet.rem
    BY <1>5, <2>1, ReadPayloadIs
  <2>3. ASSUME pc' = "handle"
        PROVE  Free(wire', packet'.msg)
    <3>1. n = packet.rem
      BY <2>2, <2>3
    <3>2. (1 + packet.len) + n = Size(packet) /\ 1 + packet.len \in Nat
      BY <2>1, <3>1, PacketFacts
    <3>3. Free(SubSeq(wire, n + 1, Len(wire)), packet.msg)
      BY <1>1, <2>1, <3>2, NothingLeft
    <3> QED
      BY <2>2, <3>3 DEF Taken
  <2>4. pc' # "puback"
    BY <2>2
  <2>5. Reads
    BY <1>5 DEF ReadPayload, Reads
  <2> QED
    BY <1>2, <2>2, <2>3, <2>4, <2>5, MessageRead
<1>6. CASE Discard
  <2>1. packet \in Packets /\ packet.len <= taken
    BY <1>1, <1>6, PacketFacts DEF Discard, ReadInv, TypeInv
  <2>2. PICK n \in 0..Len(wire) :
            /\ Taken(n) /\ packet' = packet /\ UNCHANGED <<link, ids, broker, past>>
            /\ pc' \in {"header", "discard"}
    BY <1>6, <2>1, DiscardIs
  <2>3. Reads /\ pc' \notin {"puback", "handle"}
    BY <1>6, <2>2 DEF Discard, Reads
  <2> QED
    BY <1>2, <2>2, <2>3, MessageRead
<1> QED
  BY <1>3, <1>4, <1>5, <1>6 DEF Reading

\* p is sent behind what is on its way.
LEMMA MessageSent ==
  ASSUME TypeInv, ReadInv, MessageInv, NEW p \in Packets, wire' = wire \o Bytes(p),
         UNCHANGED <<pc, packet, acks, delivered, acked, since, ids>>,
         Unacked(inflight, sent)', sent' \in Nat, sent <= sent',
         \A q \in Packets : Coming(q, inflight, sent, delivered) => Coming(q, inflight', sent', delivered),
         Coming(p, inflight', sent', delivered),
         Free(wire, p.msg), pc \in {"handle", "puback"} /\ p.msg > 0 => p.msg # packet.msg,
         \A k \in 1..Len(inflight) : In(inflight', inflight[k]),
         p.qos = 1 => \A i \in 1..Len(acks) : p.id # acks[i],
         \A j \in 1..Len(resend') : p # resend'[j] /\ \E i \in 1..Len(resend) : resend'[j] = resend[i],
         \A i, j \in 1..Len(resend') : resend'[i] = resend'[j] => i = j,
         \A k \in 1..Len(inflight'), i \in 1..RingLength :
             ring[i] = inflight'[k].id => delivered[inflight'[k].msg] > 0 \/ inflight'[k].msg \in reused',
         reused \subseteq reused'
  PROVE  MessageInv'
<1> USE DEF ids
<1>1. /\ Len(wire) \in Nat /\ sent \in Nat
      /\ \A i \in 1..Len(wire') :
            \/ i \in 1..Len(wire) /\ wire'[i] = wire[i]
            \/ i > Len(wire) /\ wire'[i] = [of |-> p, at |-> i - Len(wire) - 1]
  BY SentFacts, Elements DEF TypeInv
<1>2. \A i \in 1..Len(wire') : wire'[i].of = p \/ \E j \in 1..Len(wire) : wire'[i].of = wire[j].of
  <2> TAKE i \in 1..Len(wire')
  <2>1. CASE i \in 1..Len(wire) /\ wire'[i] = wire[i]
    BY <2>1
  <2>2. CASE wire'[i] = [of |-> p, at |-> i - Len(wire) - 1]
    BY <2>2
  <2> QED
    BY <1>1, <2>1, <2>2
<1>3. Reads' = Reads
  BY DEF Reads
<1>4. Reads => packet \in Packets
  BY DEF ReadInv, Reads
<1>5. ResendInv'
  <2>1. \A i \in 1..Len(resend') : In(inflight', resend'[i])
    <3> TAKE i \in 1..Len(resend')
    <3>1. PICK j \in 1..Len(resend) : resend'[i] = resend[j]
      OBVIOUS
    <3>2. PICK k \in 1..Len(inflight) : inflight[k] = resend[j]
      BY DEF MessageInv, ResendInv, In
    <3> QED
      BY <3>1, <3>2
  <2>2. \A i \in 1..Len(wire'), j \in 1..Len(resend') : wire'[i].of # resend'[j]
    BY <1>2 DEF MessageInv, ResendInv
  <2>3. Reads => \A j \in 1..Len(resend') : packet # resend'[j]
    BY DEF MessageInv, ResendInv
  <2> QED
    BY <1>3, <2>1, <2>2, <2>3 DEF ResendInv
<1>6. WayInv'
  <2>1. \A i \in 1..Len(wire') : Coming(wire'[i].of, inflight', sent', delivered')
    <3> TAKE i \in 1..Len(wire')
    <3>1. CASE wire'[i].of = p
      BY <3>1
    <3>2. CASE \E j \in 1..Len(wire) : wire'[i].of = wire[j].of
      <4>1. PICK j \in 1..Len(wire) : wire'[i].of = wire[j].of
        BY <3>2
      <4>2. wire[j].of \in Packets /\ Coming(wire[j].of, inflight, sent, delivered)
        BY Elements DEF MessageInv, WayInv
      <4> QED
        BY <4>1, <4>2
    <3> QED
      BY <1>2, <3>1, <3>2
  <2>2. Reads => Coming(packet, inflight', sent', delivered)
    BY <1>4 DEF MessageInv, WayInv
  <2>3. Once(wire')
    BY OnceSent DEF MessageInv, WayInv, TypeInv
  <2>4. pc \in {"handle", "puback"} => Free(wire', packet.msg)
    BY <1>2 DEF MessageInv, WayInv, Free
  <2> QED
    BY <1>3, <2>1, <2>2, <2>3, <2>4 DEF WayInv
<1>7. AcksInv'
  <2>1. ASSUME NEW i \in 1..Len(acks)
        PROVE  \E k \in 1..Len(inflight') : inflight'[k].id = acks[i]
    <3>1. PICK k \in 1..Len(inflight) : inflight[k].id = acks[i]
      BY DEF MessageInv, AcksInv
    <3>2. PICK l \in 1..Len(inflight') : inflight'[l] = inflight[k]
      BY DEF In
    <3> QED
      BY <3>1, <3>2
  <2>2. ASSUME NEW i \in 1..Len(acks), NEW j \in 1..Len(wire'), wire'[j].of.qos = 1
        PROVE  wire'[j].of.id # acks[i]
    <3>1. CASE wire'[j].of = p
      BY <2>2, <3>1
    <3>2. CASE \E k \in 1..Len(wire) : wire'[j].of = wire[k].of
      <4>1. PICK k \in 1..Len(wire) : wire'[j].of = wire[k].of
        BY <3>2
      <4>2. wire[k].of.qos = 1 => wire[k].of.id # acks[i]
        BY DEF MessageInv, AcksInv
      <4> QED
        BY <2>2, <4>1, <4>2
    <3> QED
      BY <1>2, <3>1, <3>2
  <2>3. ASSUME NEW i \in 1..Len(acks), NEW j \in 1..Len(resend')
        PROVE  resend'[j].id # acks[i]
    <3>1. PICK k \in 1..Len(resend) : resend'[j] = resend[k]
      OBVIOUS
    <3>2. resend[k].id # acks[i]
      BY DEF MessageInv, AcksInv
    <3> QED
      BY <3>1, <3>2
  <2>4. \A i, j \in 1..Len(acks) : acks[i] = acks[j] => i = j
    BY DEF MessageInv, AcksInv
  <2>5. Reads /\ packet.qos = 1 => \A i \in 1..Len(acks) : packet.id # acks[i]
    BY DEF MessageInv, AcksInv
  <2> QED
    BY <1>3, <2>1, <2>2, <2>3, <2>4, <2>5 DEF AcksInv
<1>8. DeliveryInv'
  <2>1. \A m \in Messages : m > sent' => delivered[m] = 0
    <3> TAKE m \in Messages
    <3>1. m \in Nat
      BY InboundAssumption DEF InboundAssumption, Messages
    <3> QED
      BY <1>1, <3>1 DEF MessageInv, DeliveryInv
  <2>2. \A m \in Messages : since[m] \subseteq 1..sent'
    BY <1>1 DEF MessageInv, DeliveryInv
  <2>3. pc = "puback" => delivered[packet.msg] > 0 \/ packet.msg \in reused'
    BY DEF MessageInv, DeliveryInv
  <2>4. AckedIsDelivered'
    BY DEF MessageInv, DeliveryInv, AckedIsDelivered
  <2> QED
    BY <2>1, <2>2, <2>3, <2>4 DEF DeliveryInv
<1> QED
  BY <1>5, <1>6, <1>7, <1>8 DEF MessageInv

LEMMA MessageBroker ==
  ASSUME TypeInv, ReadInv, MessageInv,
         \/ Resend \/ AnswerPing
         \/ \E id \in FreeIds, size \in Sizes : Publish(1, size, id)
         \/ \E size \in Sizes : Publish(0, size, 0)
  PROVE  MessageInv'
<1> USE DEF stream, broker, ids, past
<1>1. /\ wire \in Seq(Byte) /\ sent \in Nat
      /\ \A i \in 1..Len(wire) : wire[i].of \in Packets /\ Coming(wire[i].of, inflight, sent, delivered)
      /\ pc \in {"handle", "puback"} => packet \in Packets /\ Coming(packet, inflight, sent, delivered)
      /\ Unacked(inflight, sent)
  BY Elements DEF TypeInv, MessageInv, WayInv, ReadInv, Reads
<1>2. CASE Resend
  <2> DEFINE p == Head(resend)
  <2>1. /\ resend \in Seq(Packets) /\ resend # <<>> /\ p = resend[1] /\ p \in Packets /\ resend' = Tail(resend)
        /\ Len(resend) \in Nat /\ Len(resend) >= 1 /\ Len(resend') = Len(resend) - 1
        /\ \A i \in 1..(Len(resend) - 1) : i + 1 \in 1..Len(resend) /\ resend'[i] = resend[i + 1]
    BY <1>2, TailFacts DEF Resend, TypeInv
  <2> HIDE DEF p
  <2>2. wire' = wire \o Bytes(p) /\ UNCHANGED <<link, pc, packet, taken, ids, inflight, acks, sent, breaks, past, short>>
    BY <1>2 DEF Resend, p
  <2>3. In(inflight, p) /\ (\A i \in 1..Len(wire) : wire[i].of # p) /\ (Reads => packet # p)
    BY <2>1 DEF MessageInv, ResendInv
  <2>4. Free(wire, p.msg)
    BY <1>1, <2>3, Unique DEF Free
  <2>5. pc \in {"handle", "puback"} /\ p.msg > 0 => p.msg # packet.msg
    BY <1>1, <2>3, Unique DEF Reads
  <2>6. PICK k \in 1..Len(inflight) : inflight[k] = p
    BY <2>3 DEF In
  <2>7. p.qos = 1
    BY <1>1, <2>6 DEF Unacked
  <2>8. Coming(p, inflight, sent, delivered)
    BY <2>3, <2>7 DEF Coming
  <2>9. \A i \in 1..Len(acks) : p.id # acks[i]
    BY <2>1 DEF MessageInv, AcksInv
  <2>10. \A j \in 1..Len(resend') : p # resend'[j] /\ \E i \in 1..Len(resend) : resend'[j] = resend[i]
    <3> TAKE j \in 1..Len(resend')
    <3>1. j + 1 \in 1..Len(resend) /\ 1 \in 1..Len(resend) /\ resend'[j] = resend[j + 1] /\ j + 1 # 1
      BY <2>1
    <3>2. resend[1] # resend[j + 1]
      BY <3>1 DEF MessageInv, ResendInv
    <3> QED
      BY <2>1, <3>1, <3>2
  <2>11. \A i, j \in 1..Len(resend') : resend'[i] = resend'[j] => i = j
    <3> TAKE i, j \in 1..Len(resend')
    <3>1. i + 1 \in 1..Len(resend) /\ j + 1 \in 1..Len(resend) /\ resend'[i] = resend[i + 1] /\ resend'[j] = resend[j + 1]
      BY <2>1
    <3>2. resend[i + 1] = resend[j + 1] => i + 1 = j + 1
      BY <3>1 DEF MessageInv, ResendInv
    <3> QED
      BY <2>1, <3>1, <3>2
  <2>12. \A l \in 1..Len(inflight), i \in 1..RingLength :
            ring[i] = inflight[l].id => delivered[inflight[l].msg] > 0 \/ inflight[l].msg \in reused
    BY DEF MessageInv, DeliveryInv
  <2>13. \A l \in 1..Len(inflight) : In(inflight, inflight[l])
    BY DEF In
  <2>14. UNCHANGED <<pc, packet, acks, delivered, acked, since, ids, reused>> /\ wire' = wire \o Bytes(p)
    BY <2>2
  <2>15. Unacked(inflight', sent') /\ sent' \in Nat /\ sent <= sent'
    BY <1>1, <2>2
  <2>16. \A q \in Packets : Coming(q, inflight, sent, delivered) => Coming(q, inflight', sent', delivered)
    BY <2>2
  <2>17. Coming(p, inflight', sent', delivered)
    BY <2>2, <2>8
  <2>18. \A l \in 1..Len(inflight) : In(inflight', inflight[l])
    BY <2>2, <2>13
  <2>19. \A l \in 1..Len(inflight'), i \in 1..RingLength :
            ring[i] = inflight'[l].id => delivered[inflight'[l].msg] > 0 \/ inflight'[l].msg \in reused'
    BY <2>2, <2>12
  <2>20. p \in Packets /\ (p.qos = 1 => \A i \in 1..Len(acks) : p.id # acks[i])
    BY <2>1, <2>9
  <2> QED
    BY <2>4, <2>5, <2>10, <2>11, <2>14, <2>15, <2>16, <2>17, <2>18, <2>19, <2>20, MessageSent
<1>3. CASE AnswerPing
  <2> DEFINE p == PingResp
  <2>1. p \in Packets /\ p.msg = 0 /\ p.qos = 0
    BY PingRespIs
  <2> HIDE DEF p
  <2>2. wire' = wire \o Bytes(p) /\ UNCHANGED <<link, pc, packet, taken, ids, broker, past, short>>
    BY <1>3, <2>1, BytesFacts, ConcatEmptySeq DEF AnswerPing, p
  <2>3. Coming(p, inflight, sent, delivered)
    BY <2>1 DEF Coming
  <2>4. Free(wire, p.msg)
    BY <2>1 DEF Free
  <2>5. \A j \in 1..Len(resend) : p # resend[j]
    <3> TAKE j \in 1..Len(resend)
    <3>1. PICK k \in 1..Len(inflight) : inflight[k] = resend[j]
      BY DEF MessageInv, ResendInv, In
    <3>2. resend[j].qos = 1
      BY <1>1, <3>1 DEF Unacked
    <3> QED
      BY <2>1, <3>2
  <2>6. \A l \in 1..Len(inflight), i \in 1..RingLength :
           ring[i] = inflight[l].id => delivered[inflight[l].msg] > 0 \/ inflight[l].msg \in reused
    BY DEF MessageInv, DeliveryInv
  <2>7. \A l \in 1..Len(inflight) : In(inflight, inflight[l])
    BY DEF In
  <2>8. \A i, j \in 1..Len(resend) : resend[i] = resend[j] => i = j
    BY DEF MessageInv, ResendInv
  <2>9. UNCHANGED <<pc, packet, acks, delivered, acked, since, reused, ids, inflight, sent, resend>>
    BY <2>2
  <2>10. \A j \in 1..Len(resend') : p # resend'[j] /\ \E i \in 1..Len(resend) : resend'[j] = resend[i]
    BY <2>5, <2>9
  <2>11. \A i, j \in 1..Len(resend') : resend'[i] = resend'[j] => i = j
    BY <2>8, <2>9
  <2>12. \A l \in 1..Len(inflight'), i \in 1..RingLength :
            ring[i] = inflight'[l].id => delivered[inflight'[l].msg] > 0 \/ inflight'[l].msg \in reused'
    BY <2>6, <2>9
  <2>13. Unacked(inflight', sent') /\ sent' \in Nat /\ sent <= sent'
    BY <1>1, <2>9
  <2>14. \A q \in Packets : Coming(q, inflight, sent, delivered) => Coming(q, inflight', sent', delivered)
    BY <2>9
  <2>15. Coming(p, inflight', sent', delivered)
    BY <2>3, <2>9
  <2>16. \A l \in 1..Len(inflight) : In(inflight', inflight[l])
    BY <2>7, <2>9
  <2>17. wire' = wire \o Bytes(p) /\ reused \subseteq reused'
    BY <2>2, <2>9
  <2> QED
    BY <2>1, <2>4, <2>9, <2>10, <2>11, <2>12, <2>13, <2>14, <2>15, <2>16, <2>17, MessageSent
<1>4. ASSUME NEW qos \in {0, 1}, NEW size \in Sizes, NEW id \in Ids \cup {0}, Publish(qos, size, id),
             qos = 1 => id \in FreeIds
      PROVE  MessageInv'
  <2>1. PICK p \in Published :
            /\ p.qos = qos /\ p.id = id /\ p.msg = sent + 1 /\ sent' = sent + 1 /\ sent + 1 \in Messages
            /\ resend = <<>>
            /\ wire' = wire \o Bytes(p)
            /\ inflight' = IF qos = 1 THEN Append(inflight, p) ELSE inflight
            /\ reused' = IF qos = 1 /\ \E i \in DOMAIN ring : ring[i] = id THEN reused \cup {p.msg} ELSE reused
            /\ UNCHANGED <<link, pc, packet, taken, ids, resend, acks, breaks, delivered, acked, since, short>>
    BY <1>4, PublishIs
  <2>2. p \in Packets
    BY DEF Packets
  <2>3. \A i \in 1..Len(wire) : wire[i].of.msg <= sent /\ wire[i].of.msg # sent + 1
    <3> TAKE i \in 1..Len(wire)
    <3>1. wire[i].of.msg <= sent /\ wire[i].of.msg \in 0..MaxMessages
      BY <1>1, NotNewer, PacketFacts
    <3> QED
      BY <1>1, <3>1
  <2>4. pc \in {"handle", "puback"} => packet.msg # p.msg
    <3>1. ASSUME pc \in {"handle", "puback"}
          PROVE  packet.msg <= sent /\ packet.msg \in 0..MaxMessages
      BY <1>1, <3>1, NotNewer, PacketFacts
    <3> QED
      BY <1>1, <2>1, <3>1
  <2>5. Free(wire, p.msg)
    BY <2>1, <2>3 DEF Free
  <2>6. /\ inflight \in Seq(Packets) /\ Len(inflight) \in Nat
        /\ \A k \in 1..Len(inflight') :
              \/ k \in 1..Len(inflight) /\ inflight'[k] = inflight[k]
              \/ k = Len(inflight) + 1 /\ inflight'[k] = p /\ qos = 1
        /\ \A k \in 1..Len(inflight) : k \in 1..Len(inflight') /\ inflight'[k] = inflight[k]
        /\ qos = 1 => Len(inflight) + 1 \in 1..Len(inflight') /\ inflight'[Len(inflight) + 1] = p
    <3>1. inflight \in Seq(Packets) /\ Len(inflight) \in Nat
      BY LenProperties DEF TypeInv
    <3>2. CASE qos = 0
      BY <2>1, <3>1, <3>2
    <3>3. CASE qos = 1
      <4>1. inflight' = Append(inflight, p)
        BY <2>1, <3>3
      <4>2. /\ Len(inflight') = Len(inflight) + 1
            /\ \A i \in 1..(Len(inflight) + 1) : inflight'[i] = IF i <= Len(inflight) THEN inflight[i] ELSE p
        BY <2>2, <3>1, <4>1, AppendFacts
      <4> QED
        BY <3>1, <3>3, <4>2
    <3> QED
      BY <3>2, <3>3
  <2>7. qos = 1 => id \in Ids /\ \A k \in 1..Len(inflight) : inflight[k].id # id
    <3>1. SUFFICES ASSUME qos = 1
                   PROVE  id \in Ids /\ \A k \in 1..Len(inflight) : inflight[k].id # id
      OBVIOUS
    <3>2. id \in Ids /\ \A k \in DOMAIN inflight : inflight[k].id # id
      BY <1>4, <3>1 DEF FreeIds
    <3>3. DOMAIN inflight = 1..Len(inflight)
      BY <2>6, LenProperties
    <3> QED
      BY <3>2, <3>3
  <2>8. \A k \in 1..Len(inflight) : inflight[k].msg \in 1..sent /\ inflight[k].qos = 1 /\ inflight[k].id \in Ids
    BY <1>1 DEF Unacked
  <2>9. Unacked(inflight', sent')
    <3>1. \A k \in 1..Len(inflight') :
             inflight'[k].qos = 1 /\ inflight'[k].id \in Ids /\ inflight'[k].msg \in 1..sent'
      <4> TAKE k \in 1..Len(inflight')
      <4>1. CASE k \in 1..Len(inflight) /\ inflight'[k] = inflight[k]
        BY <1>1, <2>1, <2>8, <4>1
      <4>2. CASE inflight'[k] = p /\ qos = 1
        BY <1>1, <2>1, <2>7, <4>2
      <4> QED
        BY <2>6, <4>1, <4>2
    <3>2. \A k \in 1..Len(inflight) : inflight[k].msg # p.msg
      BY <1>1, <2>1, <2>8
    <3>3. ASSUME NEW j \in 1..Len(inflight'), NEW k \in 1..Len(inflight'),
                 inflight'[j].id = inflight'[k].id \/ inflight'[j].msg = inflight'[k].msg
          PROVE  j = k
      <4>1. CASE j \in 1..Len(inflight) /\ inflight'[j] = inflight[j] /\ k \in 1..Len(inflight) /\ inflight'[k] = inflight[k]
        BY <1>1, <3>3, <4>1 DEF Unacked
      <4>2. CASE j \in 1..Len(inflight) /\ inflight'[j] = inflight[j] /\ inflight'[k] = p /\ qos = 1
        BY <2>1, <2>7, <3>2, <3>3, <4>2
      <4>3. CASE k \in 1..Len(inflight) /\ inflight'[k] = inflight[k] /\ inflight'[j] = p /\ qos = 1
        BY <2>1, <2>7, <3>2, <3>3, <4>3
      <4>4. CASE j = Len(inflight) + 1 /\ k = Len(inflight) + 1
        BY <4>4
      <4> QED
        BY <2>6, <4>1, <4>2, <4>3, <4>4
    <3> QED
      BY <3>1, <3>3 DEF Unacked
  <2>10. \A k \in 1..Len(inflight) : In(inflight', inflight[k])
    BY <2>6 DEF In
  <2>11. ASSUME NEW q \in Packets, Coming(q, inflight, sent, delivered)
         PROVE  Coming(q, inflight', sent', delivered)
    <3>1. q.qos = 1 => In(inflight', q)
      BY <2>10, <2>11 DEF Coming, In
    <3>2. ASSUME q.qos = 0, q.msg > 0
          PROVE  q.msg <= sent' /\ delivered[q.msg] = 0 /\ \A k \in 1..Len(inflight') : inflight'[k].msg # q.msg
      <4>1. q.msg <= sent /\ delivered[q.msg] = 0 /\ \A k \in 1..Len(inflight) : inflight[k].msg # q.msg
        BY <2>11, <3>2 DEF Coming
      <4>2. q.msg \in 0..MaxMessages
        BY PacketFacts
      <4>3. q.msg <= sent' /\ q.msg # p.msg
        BY <1>1, <2>1, <4>1, <4>2
      <4> QED
        BY <2>6, <4>1, <4>3
    <3> QED
      BY <3>1, <3>2 DEF Coming
  <2>12. Coming(p, inflight', sent', delivered)
    <3>1. p.qos = 1 => In(inflight', p)
      BY <2>1, <2>6 DEF In
    <3>2. ASSUME p.qos = 0
          PROVE  p.msg <= sent' /\ delivered[p.msg] = 0 /\ \A k \in 1..Len(inflight') : inflight'[k].msg # p.msg
      <4>1. p.msg <= sent' /\ p.msg > sent /\ p.msg \in Messages
        BY <1>1, <2>1
      <4>2. delivered[p.msg] = 0
        BY <4>1 DEF MessageInv, DeliveryInv
      <4>3. \A k \in 1..Len(inflight') : inflight'[k].msg # p.msg
        BY <1>1, <2>1, <2>6, <2>8, <3>2
      <4> QED
        BY <4>1, <4>2, <4>3
    <3> QED
      BY <3>1, <3>2 DEF Coming
  <2>13. p.qos = 1 => \A i \in 1..Len(acks) : p.id # acks[i]
    <3>1. \A i \in 1..Len(acks) : \E k \in 1..Len(inflight) : inflight[k].id = acks[i]
      BY DEF MessageInv, AcksInv
    <3> QED
      BY <2>1, <2>7, <3>1
  <2>14. Len(resend) = 0
    BY <2>1, EmptySeq
  <2>15. reused \subseteq reused'
    BY <2>1
  <2>16. \A k \in 1..Len(inflight'), i \in 1..RingLength :
            ring[i] = inflight'[k].id => delivered[inflight'[k].msg] > 0 \/ inflight'[k].msg \in reused'
    <3> TAKE k \in 1..Len(inflight'), i \in 1..RingLength
    <3>1. CASE k \in 1..Len(inflight) /\ inflight'[k] = inflight[k]
      <4>1. ring[i] = inflight[k].id => delivered[inflight[k].msg] > 0 \/ inflight[k].msg \in reused
        BY <3>1 DEF MessageInv, DeliveryInv
      <4> QED
        BY <2>15, <3>1, <4>1
    <3>2. CASE inflight'[k] = p /\ qos = 1
      <4>1. i \in DOMAIN ring
        BY DEF TypeInv
      <4>2. ring[i] = id => p.msg \in reused'
        BY <2>1, <3>2, <4>1
      <4> QED
        BY <2>1, <3>2, <4>2
    <3> QED
      BY <2>6, <3>1, <3>2
  <2>17. sent' \in Nat /\ sent <= sent'
    BY <1>1, <2>1
  <2>18. /\ \A j \in 1..Len(resend') : p # resend'[j] /\ \E i \in 1..Len(resend) : resend'[j] = resend[i]
         /\ \A i, j \in 1..Len(resend') : resend'[i] = resend'[j] => i = j
    BY <2>1, <2>14
  <2>19. UNCHANGED <<pc, packet, acks, delivered, acked, since, ids>> /\ wire' = wire \o Bytes(p)
    BY <2>1
  <2> QED
    BY <2>2, <2>4, <2>5, <2>9, <2>10, <2>11, <2>12, <2>13, <2>15, <2>16, <2>17, <2>18, <2>19, MessageSent
<1>5. \A id \in FreeIds : id \in Ids \cup {0}
  BY DEF FreeIds
<1> QED
  BY <1>2, <1>3, <1>4, <1>5

LEMMA MessagePuback ==
  ASSUME TypeInv, ReadInv, MessageInv, ReceivePuback
  PROVE  MessageInv'
<1> USE DEF stream, ids, past
<1>1. PICK k \in DOMAIN inflight : inflight[k].id = Head(acks) /\ inflight' = RemoveAt(inflight, k)
  BY DEF ReceivePuback
<1>2. /\ acks # <<>> /\ acks' = Tail(acks)
      /\ UNCHANGED <<stream, pc, packet, taken, ids, resend, sent, breaks, past, short>>
  BY DEF ReceivePuback
<1>3. /\ Head(acks) = acks[1] /\ Len(acks') = Len(acks) - 1 /\ Len(acks) \in Nat /\ Len(acks) >= 1
      /\ \A i \in 1..(Len(acks) - 1) : i + 1 \in 1..Len(acks) /\ acks'[i] = acks[i + 1]
  BY <1>2, TailFacts DEF TypeInv
<1>4. inflight \in Seq(Packets) /\ k \in 1..Len(inflight) /\ Len(inflight) \in Nat
  BY LenProperties DEF TypeInv
<1>5. \A i \in 1..Len(inflight') : \E j \in 1..Len(inflight) : j # k /\ inflight'[i] = inflight[j]
  <2> DEFINE r == RemoveAt(inflight, k)
  <2>1. \A i \in 1..Len(r) : \E j \in 1..Len(inflight) : j # k /\ r[i] = inflight[j]
    BY <1>4, Removed
  <2>2. inflight' = r
    BY <1>1
  <2> HIDE DEF r
  <2> QED
    BY <2>1, <2>2
<1>6. \A j \in 1..Len(inflight) : j # k => In(inflight', inflight[j])
  <2> DEFINE r == RemoveAt(inflight, k)
  <2>1. \A j \in 1..Len(inflight) : j # k => \E i \in 1..Len(r) : r[i] = inflight[j]
    BY <1>4, Removed
  <2>2. inflight' = r
    BY <1>1
  <2> HIDE DEF r
  <2> QED
    BY <2>1, <2>2 DEF In
<1>7. Unacked(inflight, sent) /\ inflight[k].id = acks[1] /\ 1 \in 1..Len(acks)
  BY <1>1, <1>3 DEF MessageInv
<1>8. Unacked(inflight', sent')
  <2>1. \A i \in 1..Len(inflight') :
          inflight'[i].qos = 1 /\ inflight'[i].id \in Ids /\ inflight'[i].msg \in 1..sent
    BY <1>5, <1>7 DEF Unacked
  <2>2. ASSUME NEW i \in 1..Len(inflight'), NEW l \in 1..Len(inflight'),
               inflight'[i].id = inflight'[l].id \/ inflight'[i].msg = inflight'[l].msg
        PROVE  i = l
    <3>1. \A x, y \in 1..Len(inflight) : inflight'[i] = inflight[x] /\ inflight'[l] = inflight[y] => x = y
      BY <1>7, <2>2 DEF Unacked
    <3> DEFINE r == RemoveAt(inflight, k)
    <3>2. \A n, m \in 1..Len(r) :
             (\A x, y \in 1..Len(inflight) : r[n] = inflight[x] /\ r[m] = inflight[y] => x = y) => n = m
      BY <1>4, Removed
    <3>3. inflight' = r
      BY <1>1
    <3> HIDE DEF r
    <3> QED
      BY <3>1, <3>2, <3>3
  <2> QED
    BY <1>2, <2>1, <2>2 DEF Unacked
\* What has another id is still waited for.
<1>9. \A q : In(inflight, q) /\ q.id # acks[1] => In(inflight', q)
  <2> TAKE q
  <2> HAVE In(inflight, q) /\ q.id # acks[1]
  <2>1. PICK j \in 1..Len(inflight) : inflight[j] = q
    BY DEF In
  <2>2. j # k
    BY <1>7, <2>1
  <2> QED
    BY <1>6, <2>1, <2>2
<1>10. \A q : Coming(q, inflight, sent, delivered) /\ (q.qos = 1 => q.id # acks[1]) =>
                 Coming(q, inflight', sent, delivered)
  <2> TAKE q
  <2> HAVE Coming(q, inflight, sent, delivered) /\ (q.qos = 1 => q.id # acks[1])
  <2>1. q.qos = 1 => In(inflight', q)
    BY <1>9 DEF Coming
  <2>2. q.qos = 0 /\ q.msg > 0 =>
           q.msg <= sent /\ delivered[q.msg] = 0 /\ \A i \in 1..Len(inflight') : inflight'[i].msg # q.msg
    BY <1>5 DEF Coming
  <2> QED
    BY <2>1, <2>2 DEF Coming
<1>11. ResendInv'
  <2>1. \A i \in 1..Len(resend) : In(inflight', resend[i])
    BY <1>7, <1>9 DEF MessageInv, ResendInv, AcksInv
  <2> QED
    BY <1>2, <2>1 DEF MessageInv, ResendInv, Reads
<1>12. WayInv'
  <2>1. \A i \in 1..Len(wire) : Coming(wire[i].of, inflight', sent, delivered)
    BY <1>7, <1>10 DEF MessageInv, WayInv, AcksInv
  <2>2. Reads => Coming(packet, inflight', sent, delivered)
    BY <1>7, <1>10 DEF MessageInv, WayInv, AcksInv
  <2> QED
    BY <1>2, <2>1, <2>2 DEF MessageInv, WayInv, Reads
<1>13. AcksInv'
  <2>1. ASSUME NEW i \in 1..Len(acks')
        PROVE  i + 1 \in 1..Len(acks) /\ acks'[i] = acks[i + 1] /\ i + 1 # 1
    BY <1>3
  <2>2. ASSUME NEW i \in 1..Len(acks')
        PROVE  \E l \in 1..Len(inflight') : inflight'[l].id = acks'[i]
    <3>1. PICK j \in 1..Len(inflight) : inflight[j].id = acks[i + 1]
      BY <2>1 DEF MessageInv, AcksInv
    <3>2. acks[i + 1] # acks[1]
      BY <1>7, <2>1 DEF MessageInv, AcksInv
    <3>3. j # k
      BY <1>7, <3>1, <3>2
    <3>4. PICK l \in 1..Len(inflight') : inflight'[l] = inflight[j]
      BY <1>6, <3>3 DEF In
    <3> QED
      BY <2>1, <3>1, <3>4
  <2>3. ASSUME NEW i \in 1..Len(acks'), NEW j \in 1..Len(acks'), acks'[i] = acks'[j]
        PROVE  i = j
    <3>1. i + 1 = j + 1
      BY <2>1, <2>3 DEF MessageInv, AcksInv
    <3> QED
      BY <1>3, <3>1
  <2>4. ASSUME NEW i \in 1..Len(acks'), NEW j \in 1..Len(wire), wire[j].of.qos = 1
        PROVE  wire[j].of.id # acks'[i]
    <3>1. wire[j].of.id # acks[i + 1]
      BY <2>1, <2>4 DEF MessageInv, AcksInv
    <3> QED
      BY <2>1, <3>1
  <2>5. Reads /\ packet.qos = 1 => \A i \in 1..Len(acks') : packet.id # acks'[i]
    BY <2>1 DEF MessageInv, AcksInv
  <2>6. \A i \in 1..Len(acks'), j \in 1..Len(resend) : resend[j].id # acks'[i]
    BY <2>1 DEF MessageInv, AcksInv
  <2> QED
    BY <1>2, <2>2, <2>3, <2>4, <2>5, <2>6 DEF AcksInv, Reads
<1>14. DeliveryInv'
  <2>1. ASSUME NEW l \in 1..Len(inflight'), NEW i \in 1..RingLength, ring[i] = inflight'[l].id
        PROVE  delivered[inflight'[l].msg] > 0 \/ inflight'[l].msg \in reused
    <3>1. PICK j \in 1..Len(inflight) : inflight'[l] = inflight[j]
      BY <1>5
    <3> QED
      BY <2>1, <3>1 DEF MessageInv, DeliveryInv
  <2> QED
    BY <1>2, <2>1 DEF MessageInv, DeliveryInv, AckedIsDelivered
<1> QED
  BY <1>8, <1>11, <1>12, <1>13, <1>14 DEF MessageInv

LEMMA MessageBreak ==
  ASSUME TypeInv, ReadInv, MessageInv, Break
  PROVE  MessageInv'
<1> USE DEF ids, past
<1>1. PICK w \in 0..Len(wire), a \in 0..Len(acks) : wire' = SubSeq(wire, 1, w) /\ acks' = SubSeq(acks, 1, a)
  BY DEF Break
<1>2. UNCHANGED <<pc, packet, taken, ids, resend, inflight, sent, past, short>>
  BY DEF Break
<1>3. \A i \in 1..Len(wire') : i \in 1..Len(wire) /\ wire'[i] = wire[i]
  BY <1>1, Prefix DEF TypeInv
<1>4. \A i \in 1..Len(acks') : i \in 1..Len(acks) /\ acks'[i] = acks[i]
  BY <1>1, Prefix DEF TypeInv
<1>5. Once(wire')
  BY <1>1, OnceCut DEF TypeInv, MessageInv, WayInv
<1>6. ResendInv'
  BY <1>2, <1>3 DEF MessageInv, ResendInv, Reads
<1>7. WayInv'
  BY <1>2, <1>3, <1>5 DEF MessageInv, WayInv, Reads, Free
<1>8. AcksInv'
  <2>1. \A i \in 1..Len(acks') : \E k \in 1..Len(inflight) : inflight[k].id = acks'[i]
    BY <1>4 DEF MessageInv, AcksInv
  <2>2. \A i, j \in 1..Len(acks') : acks'[i] = acks'[j] => i = j
    BY <1>4 DEF MessageInv, AcksInv
  <2>3. \A i \in 1..Len(acks'), j \in 1..Len(wire') : wire'[j].of.qos = 1 => wire'[j].of.id # acks'[i]
    <3>1. \A i \in 1..Len(acks), j \in 1..Len(wire) : wire[j].of.qos = 1 => wire[j].of.id # acks[i]
      BY DEF MessageInv, AcksInv
    <3> QED
      BY <1>3, <1>4, <3>1
  <2>4. Reads /\ packet.qos = 1 => \A i \in 1..Len(acks') : packet.id # acks'[i]
    BY <1>4 DEF MessageInv, AcksInv
  <2>5. \A i \in 1..Len(acks'), j \in 1..Len(resend) : resend[j].id # acks'[i]
    BY <1>4 DEF MessageInv, AcksInv
  <2> QED
    BY <1>2, <2>1, <2>2, <2>3, <2>4, <2>5 DEF AcksInv, Reads
<1>9. DeliveryInv'
  BY <1>2 DEF MessageInv, DeliveryInv, AckedIsDelivered
<1> QED
  BY <1>2, <1>6, <1>7, <1>8, <1>9 DEF MessageInv

LEMMA MessageReconnect ==
  ASSUME TypeInv, ReadInv, MessageInv, Reconnect
  PROVE  MessageInv'
<1> USE DEF ids, past
<1>1. wire' = <<>> /\ acks' = <<>> /\ resend' = inflight' /\ pc' = "header" /\ UNCHANGED <<ids, sent, breaks, past>>
  BY DEF Reconnect
<1>2. Len(wire') = 0 /\ Len(acks') = 0
  BY <1>1, EmptySeq
<1>3. inflight' = inflight \/ (inflight' = <<>> /\ Len(inflight') = 0)
  BY EmptySeq DEF Reconnect
<1>4. Unacked(inflight', sent') /\ \A i \in 1..Len(inflight') : i \in 1..Len(inflight) /\ inflight'[i] = inflight[i]
  BY <1>1, <1>3 DEF MessageInv, Unacked
<1>5. ResendInv'
  <2>1. \A i \in 1..Len(resend') : In(inflight', resend'[i])
    BY <1>1 DEF In
  <2>2. \A i, j \in 1..Len(resend') : resend'[i] = resend'[j] => i = j
    BY <1>1, <1>4 DEF Unacked
  <2> QED
    BY <1>1, <1>2, <2>1, <2>2 DEF ResendInv, Reads
<1>6. WayInv'
  BY <1>1, <1>2 DEF WayInv, Reads, Once
<1>7. AcksInv'
  BY <1>1, <1>2 DEF AcksInv, Reads
<1>8. DeliveryInv'
  <2>1. \A k \in 1..Len(inflight'), i \in 1..RingLength :
           ring[i] = inflight'[k].id => delivered[inflight'[k].msg] > 0 \/ inflight'[k].msg \in reused
    BY <1>4 DEF MessageInv, DeliveryInv
  <2> QED
    BY <1>1, <2>1 DEF MessageInv, DeliveryInv, AckedIsDelivered
<1> QED
  BY <1>4, <1>5, <1>6, <1>7, <1>8 DEF MessageInv

LEMMA MessageHandled ==
  ASSUME TypeInv, ReadInv, MessageInv, HandlePublish
  PROVE  MessageInv'
<1> USE DEF stream, broker
<1>1. /\ pc = "handle" /\ packet \in Packets /\ packet.type = "PUBLISH"
      /\ pc' = IF packet.qos = 0 THEN "header" ELSE "puback"
      /\ UNCHANGED <<stream, packet, taken, broker, acked, reused, short>>
  BY DEF HandlePublish, ReadInv
<1>2. packet.msg \in Messages /\ packet.qos \in {0, 1} /\ packet.msg > 0
  <2>1. packet.msg \in Messages /\ packet.qos \in {0, 1}
    BY <1>1, PacketFacts
  <2> QED
    BY <2>1, InboundAssumption DEF Messages, InboundAssumption
<1>3. Coming(packet, inflight, sent, delivered) /\ Unacked(inflight, sent) /\ Free(wire, packet.msg) /\ sent \in Nat
  BY <1>1, Elements DEF MessageInv, WayInv, Reads
<1>4. packet.msg <= sent
  BY <1>1, <1>3, NotNewer
<1>5. /\ delivered' = IF Delivers THEN [delivered EXCEPT ![packet.msg] = @ + 1] ELSE delivered
      /\ delivered \in [Messages -> Nat]
  BY DEF HandlePublish, TypeInv
<1>6. /\ \A m \in Messages : delivered[m] \in Nat /\ delivered'[m] \in Nat /\ delivered'[m] >= delivered[m]
      /\ \A m \in Messages : m # packet.msg => delivered'[m] = delivered[m]
      /\ Delivers => delivered'[packet.msg] > 0
  <2>1. \A m \in Messages : delivered[m] \in Nat
    BY <1>5
  <2>2. CASE Delivers
    <3>1. \A m \in Messages : delivered'[m] = IF m = packet.msg THEN delivered[m] + 1 ELSE delivered[m]
      BY <1>5, <2>2
    <3> QED
      BY <1>2, <2>1, <3>1
  <2>3. CASE ~Delivers
    BY <1>5, <2>1, <2>3
  <2> QED
    BY <2>2, <2>3
<1>7. packet.qos = 1 => In(inflight, packet)
  BY <1>3 DEF Coming
\* Whatever has its id in the ring now has been delivered, or was given an id of the ring.
<1>8. ASSUME NEW k \in 1..Len(inflight), NEW i \in 1..RingLength, ring'[i] = inflight[k].id
      PROVE  delivered'[inflight[k].msg] > 0 \/ inflight[k].msg \in reused
  <2>1. inflight[k].msg \in Messages
    <3>1. inflight[k].msg \in 1..sent /\ sent \in 0..MaxMessages /\ MaxMessages \in Nat
      BY <1>3, InboundAssumption DEF Unacked, TypeInv, InboundAssumption
    <3> QED
      BY <3>1 DEF Messages
  <2>2. CASE ring'[i] = ring[i]
    <3>1. delivered[inflight[k].msg] > 0 \/ inflight[k].msg \in reused
      BY <1>8, <2>2 DEF MessageInv, DeliveryInv
    <3> QED
      BY <1>6, <2>1, <3>1
  <2>3. CASE ring'[i] # ring[i]
    <3>1. ring' = [ring EXCEPT ![cnt + 1] = packet.id] /\ packet.qos # 0 /\ ~IsRepeat
      BY <2>3 DEF HandlePublish, AddPacketId, ids
    <3>2. ring'[i] = packet.id
      BY <2>3, <3>1 DEF TypeInv
    <3>3. packet.qos = 1 /\ Delivers
      BY <1>2, <3>1 DEF Delivers
    <3>4. PICK j \in 1..Len(inflight) : inflight[j] = packet
      BY <1>7, <3>3 DEF In
    <3>5. j = k
      BY <1>3, <1>8, <3>2, <3>4 DEF Unacked
    <3> QED
      BY <1>6, <3>3, <3>4, <3>5
  <2> QED
    BY <2>2, <2>3
<1>9. packet.qos = 1 => delivered'[packet.msg] > 0 \/ packet.msg \in reused
  <2> SUFFICES ASSUME packet.qos = 1 PROVE delivered'[packet.msg] > 0 \/ packet.msg \in reused
    OBVIOUS
  <2>1. CASE ~IsRepeat
    BY <1>6, <2>1 DEF Delivers
  <2>2. CASE IsRepeat
    <3>1. PICK i \in 1..RingLength : ring[i] = packet.id
      BY <2>2 DEF IsRepeat
    <3>2. PICK j \in 1..Len(inflight) : inflight[j] = packet
      BY <1>7 DEF In
    <3>3. delivered[packet.msg] > 0 \/ packet.msg \in reused
      BY <3>1, <3>2 DEF MessageInv, DeliveryInv
    <3> QED
      BY <1>2, <1>6, <3>3
  <2> QED
    BY <2>1, <2>2
<1>10. ResendInv'
  BY <1>1 DEF MessageInv, ResendInv, Reads
<1>11. WayInv'
  <2>1. ASSUME NEW i \in 1..Len(wire)
        PROVE  Coming(wire[i].of, inflight, sent, delivered')
    <3>1. Coming(wire[i].of, inflight, sent, delivered) /\ wire[i].of \in Packets
      BY Elements DEF MessageInv, WayInv
    <3>2. wire[i].of.msg # packet.msg
      BY <1>2, <1>3 DEF Free
    <3>3. wire[i].of.msg \in 0..MaxMessages
      BY <3>1, PacketFacts
    <3>4. wire[i].of.msg > 0 => wire[i].of.msg \in Messages
      BY <3>3, InboundAssumption DEF Messages, InboundAssumption
    <3>5. wire[i].of.msg > 0 => delivered'[wire[i].of.msg] = delivered[wire[i].of.msg]
      BY <1>6, <3>2, <3>4
    <3> QED
      BY <3>1, <3>5 DEF Coming
  <2>2. Reads' => Coming(packet, inflight, sent, delivered')
    <3>1. ASSUME Reads'
          PROVE  packet.qos = 1
      BY <1>1, <1>2, <3>1 DEF Reads
    <3> QED
      BY <1>7, <3>1 DEF Coming
  <2> QED
    BY <1>1, <1>3, <2>1, <2>2 DEF MessageInv, WayInv
<1>12. AcksInv'
  BY <1>1 DEF MessageInv, AcksInv, Reads
<1>13. DeliveryInv'
  <2>1. \A m \in Messages : m > sent => delivered'[m] = 0
    <3> TAKE m \in Messages
    <3>1. m \in Nat
      BY InboundAssumption DEF Messages, InboundAssumption
    <3>2. m > sent => m # packet.msg /\ delivered[m] = 0
      BY <1>2, <1>3, <1>4, <3>1 DEF MessageInv, DeliveryInv
    <3> QED
      BY <1>6, <3>2
  <2>2. \A m \in Messages : since'[m] \subseteq 1..sent
    <3>1. packet.msg \in 1..sent
      BY <1>2, <1>3, <1>4, InboundAssumption DEF Messages, InboundAssumption
    <3>2. \A m \in Messages : since'[m] \subseteq since[m] \cup {packet.msg}
      BY DEF HandlePublish
    <3> QED
      BY <3>1, <3>2 DEF MessageInv, DeliveryInv
  <2>3. \A m \in acked : delivered'[m] > 0 \/ m \in reused
    <3> TAKE m \in acked
    <3>1. m \in Messages /\ (delivered[m] > 0 \/ m \in reused)
      BY DEF MessageInv, DeliveryInv, AckedIsDelivered, TypeInv
    <3> QED
      BY <1>6, <3>1
  <2>4. pc' = "puback" => delivered'[packet.msg] > 0 \/ packet.msg \in reused
    BY <1>1, <1>2, <1>9
  <2> QED
    BY <1>1, <1>8, <2>1, <2>2, <2>3, <2>4 DEF DeliveryInv, AckedIsDelivered
<1> QED
  BY <1>1, <1>3, <1>10, <1>11, <1>12, <1>13 DEF MessageInv

LEMMA MessageAnswered ==
  ASSUME TypeInv, ReadInv, MessageInv, SendPuback
  PROVE  MessageInv'
<1> USE DEF stream, ids
<1>1. /\ pc = "puback" /\ packet \in Packets /\ packet.qos = 1 /\ pc' \in {"header", "lost"}
      /\ UNCHANGED <<stream, packet, taken, ids, resend, inflight, sent, breaks, delivered, since, reused, short>>
  BY DEF SendPuback, ReadInv
<1>2. ResendInv'
  BY <1>1 DEF MessageInv, ResendInv, Reads
<1>3. WayInv'
  BY <1>1 DEF MessageInv, WayInv, Reads
<1>4. CASE UNCHANGED <<acks, acked>>
  <2>1. AcksInv'
    BY <1>1, <1>4 DEF MessageInv, AcksInv, Reads
  <2>2. DeliveryInv'
    BY <1>1, <1>4 DEF MessageInv, DeliveryInv, AckedIsDelivered
  <2> QED
    BY <1>1, <1>2, <1>3, <2>1, <2>2 DEF MessageInv
<1>5. CASE acks' = Append(acks, packet.id) /\ acked' = acked \cup {packet.msg}
  <2>1. packet.msg \in Nat /\ packet.id \in Ids \cup {0}
    BY <1>1, PacketFacts, InboundAssumption DEF InboundAssumption
  <2>2. /\ Len(acks) \in Nat
        /\ \A i \in 1..Len(acks') :
              \/ i \in 1..Len(acks) /\ acks'[i] = acks[i]
              \/ i = Len(acks) + 1 /\ acks'[i] = packet.id
    <3>1. /\ Len(acks) \in Nat /\ Len(acks') = Len(acks) + 1
          /\ \A i \in 1..(Len(acks) + 1) : acks'[i] = IF i <= Len(acks) THEN acks[i] ELSE packet.id
      BY <1>5, <2>1, AppendFacts DEF TypeInv
    <3> QED
      BY <3>1
  <2>3. Coming(packet, inflight, sent, delivered) /\ Unacked(inflight, sent) /\ Free(wire, packet.msg) /\ sent \in Nat
    BY <1>1, Elements DEF MessageInv, WayInv, Reads
  <2>4. PICK k \in 1..Len(inflight) : inflight[k] = packet
    BY <1>1, <2>3 DEF Coming, In
  <2>5. packet.msg > 0
    <3>1. packet.msg \in 1..sent
      BY <2>3, <2>4 DEF Unacked
    <3> QED
      BY <3>1
  <2>6. \A i \in 1..Len(acks) : packet.id # acks[i]
    BY <1>1 DEF MessageInv, AcksInv, Reads
  <2>7. \A i \in 1..Len(acks') : \E l \in 1..Len(inflight) : inflight[l].id = acks'[i]
    <3>1. \A i \in 1..Len(acks) : \E l \in 1..Len(inflight) : inflight[l].id = acks[i]
      BY DEF MessageInv, AcksInv
    <3>2. inflight[k].id = packet.id
      BY <2>4
    <3> QED
      BY <2>2, <3>1, <3>2
  <2>8. \A i, j \in 1..Len(acks') : acks'[i] = acks'[j] => i = j
    BY <2>2, <2>6 DEF MessageInv, AcksInv
  <2>9. ASSUME NEW j \in 1..Len(wire), wire[j].of.qos = 1
        PROVE  wire[j].of.id # packet.id
    <3>1. wire[j].of \in Packets /\ Coming(wire[j].of, inflight, sent, delivered)
      BY Elements DEF MessageInv, WayInv
    <3>2. wire[j].of # packet
      BY <2>3, <2>5 DEF Free
    <3>3. In(inflight, packet)
      BY <2>4 DEF In
    <3> QED
      BY <2>3, <2>9, <3>1, <3>2, <3>3, Unique
  <2>10. ASSUME NEW i \in 1..Len(acks'), NEW j \in 1..Len(wire), wire[j].of.qos = 1
         PROVE  wire[j].of.id # acks'[i]
    <3>1. CASE i \in 1..Len(acks) /\ acks'[i] = acks[i]
      BY <2>10, <3>1 DEF MessageInv, AcksInv
    <3>2. CASE acks'[i] = packet.id
      BY <2>9, <2>10, <3>2
    <3> QED
      BY <2>2, <3>1, <3>2
  <2>11. ASSUME NEW j \in 1..Len(resend)
         PROVE  resend[j].id # packet.id
    <3>1. PICK l \in 1..Len(inflight) : inflight[l] = resend[j]
      BY DEF MessageInv, ResendInv, In
    <3>2. resend[j] # packet
      BY <1>1 DEF MessageInv, ResendInv, Reads
    <3> QED
      BY <2>3, <2>4, <3>1, <3>2 DEF Unacked
  <2>12. ASSUME NEW i \in 1..Len(acks'), NEW j \in 1..Len(resend)
         PROVE  resend[j].id # acks'[i]
    <3>1. CASE i \in 1..Len(acks) /\ acks'[i] = acks[i]
      BY <3>1 DEF MessageInv, AcksInv
    <3>2. CASE acks'[i] = packet.id
      BY <2>11, <3>2
    <3> QED
      BY <2>2, <3>1, <3>2
  <2>13. AcksInv'
    BY <1>1, <2>7, <2>8, <2>10, <2>12 DEF AcksInv, Reads
  <2>14. delivered[packet.msg] > 0 \/ packet.msg \in reused
    BY <1>1 DEF MessageInv, DeliveryInv
  <2>15. DeliveryInv'
    BY <1>1, <1>5, <2>14 DEF MessageInv, DeliveryInv, AckedIsDelivered
  <2> QED
    BY <1>1, <1>2, <1>3, <2>13, <2>15 DEF MessageInv
<1> QED
  BY <1>4, <1>5 DEF SendPuback

LEMMA MessageInit == Init => MessageInv
<1> SUFFICES ASSUME Init PROVE MessageInv
  OBVIOUS
<1>1. Len(wire) = 0 /\ Len(inflight) = 0 /\ Len(acks) = 0 /\ Len(resend) = 0
  BY EmptySeq DEF Init
<1>2. pc = "header" /\ acked = {} /\ \A m \in Messages : delivered[m] = 0 /\ since[m] = {}
  BY DEF Init
<1>3. Unacked(inflight, sent)
  BY <1>1 DEF Unacked
<1>4. ResendInv /\ AcksInv
  BY <1>1, <1>2 DEF ResendInv, AcksInv, Reads
<1>5. WayInv
  BY <1>1, <1>2 DEF WayInv, Reads, Once
<1>6. DeliveryInv
  BY <1>1, <1>2 DEF DeliveryInv, AckedIsDelivered
<1> QED
  BY <1>3, <1>4, <1>5, <1>6 DEF MessageInv

LEMMA MessageStep ==
  ASSUME TypeInv, StreamInv, MessageInv, [Next]_vars
  PROVE  MessageInv'
<1>1. ReadInv
  BY DEF StreamInv
<1>2. CASE HandleOther
  <2>1. UNCHANGED <<wire, packet, ring, inflight, resend, acks, sent, delivered, acked, since, reused>> /\ pc' = "header"
    BY <1>2 DEF HandleOther, stream, ids, broker, past
  <2> QED
    BY <2>1 DEF MessageInv, ResendInv, WayInv, AcksInv, DeliveryInv, AckedIsDelivered, Reads
<1>3. CASE UNCHANGED vars
  <2>1. UNCHANGED <<wire, pc, packet, ring, inflight, resend, acks, sent, delivered, acked, since, reused>>
    BY <1>3 DEF vars, stream, ids, broker, past
  <2> QED
    BY <2>1 DEF MessageInv, ResendInv, WayInv, AcksInv, DeliveryInv, AckedIsDelivered, Reads
<1> QED
  BY <1>1, <1>2, <1>3, MessageReads, MessageBroker, MessagePuback, MessageBreak, MessageReconnect, MessageHandled,
     MessageAnswered DEF Next, Reading

\* What the broker was told has arrived has been delivered to the application, whatever
\* breaks, whether sessions are kept or not and however often the broker sends it again; but
\* for a message that was given an id the ring still held.
THEOREM AcksAreTrue == Spec => []AckedIsDelivered
<1>1. TypeInv /\ StreamInv /\ MessageInv /\ [Next]_vars => MessageInv'
  BY MessageStep
<1>2. MessageInv => AckedIsDelivered
  BY DEF MessageInv, DeliveryInv
<1> QED
  BY <1>1, <1>2, MessageInit, TypeCorrect, PTL DEF Spec

-------------------------------------------------------------------------------
(* What is not delivered again. *)

\* An id that enters the ring takes the place of the oldest and makes the others older by one.
LEMMA AgeFacts ==
  ASSUME NEW c \in 0..(RingLength - 1)
  PROVE  /\ c + 1 \in 1..RingLength
         /\ Age(c + 1, c) = RingLength - 1 /\ Age(c + 1, (c + 1) % RingLength) = 0
         /\ \A i \in 1..RingLength :
               Age(i, c) \in Nat /\ (i # c + 1 => Age(i, (c + 1) % RingLength) = Age(i, c) + 1)
<1> DEFINE d == (c + 1) % RingLength
<1>1. RingLength \in Nat \ {0}
  BY InboundAssumption DEF InboundAssumption
<1>2. c + 1 \in 1..RingLength /\ c \in Nat
  BY <1>1
<1>3. d = IF c + 1 = RingLength THEN 0 ELSE c + 1
  BY <1>1, <1>2
<1> HIDE DEF d
<1>4. Age(c + 1, c) = RingLength - 1
  BY <1>1, <1>2 DEF Age
<1>5. Age(c + 1, d) = 0
  BY <1>1, <1>2, <1>3 DEF Age
<1>6. \A i \in 1..RingLength : Age(i, c) \in Nat
  BY <1>1, <1>2 DEF Age
<1>7. \A i \in 1..RingLength : i # c + 1 => Age(i, d) = Age(i, c) + 1
  BY <1>1, <1>2, <1>3 DEF Age
<1> QED
  BY <1>2, <1>4, <1>5, <1>6, <1>7 DEF d

LEMMA MessageSets ==
  ASSUME TypeInv, NEW m \in Messages
  PROVE  IsFiniteSet(since[m]) /\ Cardinality(since[m]) \in Nat
<1>1. MaxMessages \in Nat
  BY InboundAssumption DEF InboundAssumption
<1>2. IsFiniteSet(1..MaxMessages)
  BY <1>1, FS_Interval
<1>3. since[m] \in SUBSET (1..MaxMessages)
  BY DEF TypeInv, Messages
<1> QED
  BY <1>2, <1>3, FS_Subset, FS_CardinalityType

\* What the broker forgets, and what was not delivered, does not matter to the ring.
LEMMA RingKept ==
  ASSUME RingInv, UNCHANGED <<ring, cnt>>,
         \A k \in 1..Len(inflight') :
            \/ \E l \in 1..Len(inflight) :
                  /\ inflight'[k] = inflight[l]
                  /\ delivered'[inflight[l].msg] = delivered[inflight[l].msg]
                  /\ since'[inflight[l].msg] = since[inflight[l].msg]
            \/ /\ ~(delivered'[inflight'[k].msg] > 0)
               /\ \A l \in 1..Len(inflight) : inflight'[k].msg \notin since[inflight[l].msg]
  PROVE  RingInv'
<1>1. \A i : Age(i, cnt') = Age(i, cnt)
  OBVIOUS
<1> SUFFICES ASSUME NEW k \in 1..Len(inflight'), delivered'[inflight'[k].msg] > 0,
                    Cardinality(since'[inflight'[k].msg]) < RingLength
             PROVE  \E i \in 1..RingLength :
                       /\ ring'[i] = inflight'[k].id
                       /\ Age(i, cnt') <= Cardinality(since'[inflight'[k].msg])
                       /\ \A l \in 1..Len(inflight') : inflight'[l].msg \in since'[inflight'[k].msg] =>
                             \E j \in 1..RingLength : ring'[j] = inflight'[l].id /\ Age(j, cnt') < Age(i, cnt')
  BY DEF RingInv
<1>2. PICK n \in 1..Len(inflight) :
        /\ inflight'[k] = inflight[n]
        /\ delivered'[inflight[n].msg] = delivered[inflight[n].msg]
        /\ since'[inflight[n].msg] = since[inflight[n].msg]
  OBVIOUS
<1> DEFINE m == inflight[n].msg
<1>3. PICK i \in 1..RingLength :
        /\ ring[i] = inflight[n].id
        /\ Age(i, cnt) <= Cardinality(since[m])
        /\ \A l \in 1..Len(inflight) : inflight[l].msg \in since[m] =>
              \E j \in 1..RingLength : ring[j] = inflight[l].id /\ Age(j, cnt) < Age(i, cnt)
  <2>1. delivered[m] > 0 /\ Cardinality(since[m]) < RingLength
    BY <1>2
  <2> QED
    BY <2>1 DEF RingInv
<1>4. ASSUME NEW l \in 1..Len(inflight'), inflight'[l].msg \in since'[inflight'[k].msg]
      PROVE  \E j \in 1..RingLength : ring'[j] = inflight'[l].id /\ Age(j, cnt') < Age(i, cnt')
  <2>1. inflight'[l].msg \in since[m]
    BY <1>2, <1>4
  <2>2. PICK o \in 1..Len(inflight) : inflight'[l] = inflight[o]
    BY <2>1
  <2>3. PICK j \in 1..RingLength : ring[j] = inflight[o].id /\ Age(j, cnt) < Age(i, cnt)
    BY <1>3, <2>1, <2>2
  <2> QED
    BY <1>1, <2>2, <2>3
<1>5. ring'[i] = inflight'[k].id /\ Age(i, cnt') <= Cardinality(since'[inflight'[k].msg])
  BY <1>1, <1>2, <1>3
<1> QED
  BY <1>4, <1>5

\* A message enters the ring.
LEMMA RingEntered ==
  ASSUME TypeInv, ReadInv, MessageInv, RingInv, HandlePublish, packet.qos = 1, ~IsRepeat
  PROVE  RingInv'
<1>1. pc = "handle" /\ packet \in Packets /\ packet.type = "PUBLISH" /\ inflight' = inflight
  BY DEF HandlePublish, ReadInv, broker
<1>2. packet.msg \in Messages
  BY <1>1, PacketFacts
<1>3. In(inflight, packet) /\ Unacked(inflight, sent)
  BY <1>1 DEF MessageInv, WayInv, Reads, Coming
<1>4. PICK p \in 1..Len(inflight) : inflight[p] = packet
  BY <1>3 DEF In
<1>5. \A k \in 1..Len(inflight) : inflight[k].msg \in Messages /\ (inflight[k].msg = packet.msg => k = p)
  <2> TAKE k \in 1..Len(inflight)
  <2>1. inflight[k].msg \in 1..sent /\ sent \in 0..MaxMessages /\ MaxMessages \in Nat
    BY <1>3, InboundAssumption DEF Unacked, TypeInv, InboundAssumption
  <2>2. inflight[k].msg \in Messages
    BY <2>1 DEF Messages
  <2> QED
    BY <1>3, <1>4, <2>2 DEF Unacked
<1>6. RingLength \in Nat \ {0} /\ cnt \in 0..(RingLength - 1)
  BY InboundAssumption DEF InboundAssumption, TypeInv
<1>7. /\ ring' = [ring EXCEPT ![cnt + 1] = packet.id] /\ cnt' = (cnt + 1) % RingLength
      /\ delivered' = [delivered EXCEPT ![packet.msg] = @ + 1]
      /\ since' = [m \in Messages |-> IF m = packet.msg THEN {} ELSE since[m] \cup {packet.msg}]
  BY DEF HandlePublish, AddPacketId, Delivers
<1>8. /\ cnt + 1 \in 1..RingLength
      /\ Age(cnt + 1, cnt) = RingLength - 1 /\ Age(cnt + 1, cnt') = 0
      /\ \A i \in 1..RingLength : Age(i, cnt) \in Nat /\ (i # cnt + 1 => Age(i, cnt') = Age(i, cnt) + 1)
  BY <1>6, <1>7, AgeFacts
<1>9. ring'[cnt + 1] = packet.id /\ \A i \in 1..RingLength : i # cnt + 1 => ring'[i] = ring[i]
  BY <1>7, <1>8 DEF TypeInv
<1>10. ASSUME NEW k \in 1..Len(inflight), delivered'[inflight[k].msg] > 0,
              Cardinality(since'[inflight[k].msg]) < RingLength
       PROVE  \E i \in 1..RingLength :
                 /\ ring'[i] = inflight[k].id
                 /\ Age(i, cnt') <= Cardinality(since'[inflight[k].msg])
                 /\ \A l \in 1..Len(inflight) : inflight[l].msg \in since'[inflight[k].msg] =>
                       \E j \in 1..RingLength : ring'[j] = inflight[l].id /\ Age(j, cnt') < Age(i, cnt')
  <2> DEFINE m == inflight[k].msg
  <2>1. m \in Messages
    BY <1>5
  <2>2. CASE k = p
    <3>1. since'[m] = {}
      BY <1>2, <1>4, <1>7, <2>2
    <3>2. Cardinality(since'[m]) = 0
      BY <3>1, FS_EmptySet
    <3>3. ring'[cnt + 1] = inflight[k].id
      BY <1>4, <1>9, <2>2
    <3> QED
      BY <1>8, <3>1, <3>2, <3>3
  <2>3. CASE k # p
    <3>1. m # packet.msg
      BY <1>5, <2>3
    <3>2. since'[m] = since[m] \cup {packet.msg} /\ delivered'[m] = delivered[m]
      BY <1>7, <2>1, <3>1 DEF TypeInv
    <3>3. IsFiniteSet(since[m]) /\ Cardinality(since[m]) \in Nat
      BY <2>1, MessageSets
    <3>4. Cardinality(since[m]) <= Cardinality(since'[m])
      <4>1. Cardinality(since[m] \cup {packet.msg}) =
              IF packet.msg \in since[m] THEN Cardinality(since[m]) ELSE Cardinality(since[m]) + 1
        BY <3>3, FS_AddElement
      <4> QED
        BY <3>2, <3>3, <4>1
    <3>5. Cardinality(since[m]) < RingLength
      <4>1. Cardinality(since'[m]) \in Nat
        BY <3>2, <3>3, FS_AddElement, FS_CardinalityType
      <4> QED
        BY <1>6, <1>10, <3>3, <3>4, <4>1
    <3>6. PICK i \in 1..RingLength :
            /\ ring[i] = inflight[k].id
            /\ Age(i, cnt) <= Cardinality(since[m])
            /\ \A l \in 1..Len(inflight) : inflight[l].msg \in since[m] =>
                  \E j \in 1..RingLength : ring[j] = inflight[l].id /\ Age(j, cnt) < Age(i, cnt)
      BY <1>10, <3>2, <3>5 DEF RingInv
    \* The new message is not among those that have come since, or its id would be in the ring.
    <3>7. packet.msg \notin since[m]
      <4> SUFFICES ASSUME packet.msg \in since[m] PROVE FALSE
        OBVIOUS
      <4>1. PICK j \in 1..RingLength : ring[j] = inflight[p].id
        BY <1>4, <3>6
      <4> QED
        BY <1>4, <4>1 DEF IsRepeat
    <3>8. Cardinality(since'[m]) = Cardinality(since[m]) + 1
      BY <3>2, <3>3, <3>7, FS_AddElement
    <3>9. Age(i, cnt) < RingLength - 1 /\ i # cnt + 1 /\ Age(i, cnt') = Age(i, cnt) + 1 /\ Age(i, cnt) \in Nat
      <4>1. Age(i, cnt) \in Nat /\ RingLength \in Nat
        BY <1>6, <1>8
      <4>2. Cardinality(since[m]) + 1 < RingLength
        BY <1>10, <3>8
      <4>3. Age(i, cnt) < RingLength - 1
        BY <3>3, <3>6, <4>1, <4>2
      <4>4. i # cnt + 1
        BY <1>8, <4>1, <4>3
      <4> QED
        BY <1>8, <4>1, <4>3, <4>4
    <3>10. ring'[i] = inflight[k].id /\ Age(i, cnt') <= Cardinality(since'[m])
      BY <1>9, <3>3, <3>6, <3>8, <3>9
    <3>11. ASSUME NEW l \in 1..Len(inflight), inflight[l].msg \in since'[m]
           PROVE  \E j \in 1..RingLength : ring'[j] = inflight[l].id /\ Age(j, cnt') < Age(i, cnt')
      <4>1. CASE inflight[l].msg = packet.msg
        <5>1. ring'[cnt + 1] = inflight[l].id /\ Age(cnt + 1, cnt') < Age(i, cnt')
          BY <1>4, <1>5, <1>8, <1>9, <3>9, <4>1
        <5> QED
          BY <1>8, <5>1
      <4>2. CASE inflight[l].msg # packet.msg
        <5>1. inflight[l].msg \in since[m]
          BY <3>2, <3>11, <4>2
        <5>2. PICK j \in 1..RingLength : ring[j] = inflight[l].id /\ Age(j, cnt) < Age(i, cnt)
          BY <3>6, <5>1
        <5>3. j # cnt + 1 /\ Age(j, cnt') = Age(j, cnt) + 1 /\ Age(j, cnt) \in Nat
          <6>1. Age(j, cnt) \in Nat /\ RingLength \in Nat
            BY <1>6, <1>8
          <6>2. Age(j, cnt) < RingLength - 1
            BY <3>9, <5>2, <6>1
          <6>3. j # cnt + 1
            BY <1>8, <6>1, <6>2
          <6> QED
            BY <1>8, <6>1, <6>3
        <5> QED
          BY <1>9, <3>9, <5>2, <5>3
      <4> QED
        BY <4>1, <4>2
    <3> QED
      BY <3>10, <3>11
  <2> QED
    BY <2>2, <2>3
<1> QED
  BY <1>1, <1>10 DEF RingInv

LEMMA RingInit == Init => RingInv
BY EmptySeq DEF Init, RingInv

LEMMA RingStep ==
  ASSUME TypeInv, ReadInv, MessageInv, RingInv, [Next]_vars
  PROVE  RingInv'
<1> USE DEF stream, broker, ids, past
<1>1. ASSUME UNCHANGED <<ring, cnt, delivered, since>>,
             \A k \in 1..Len(inflight') : \E l \in 1..Len(inflight) : inflight'[k] = inflight[l]
      PROVE  RingInv'
  BY <1>1, RingKept
<1>2. ASSUME NEW qos \in {0, 1}, NEW size \in Sizes, NEW id \in Ids \cup {0}, Publish(qos, size, id)
      PROVE  RingInv'
  <2>1. PICK p \in Published :
            /\ p.msg = sent + 1 /\ sent + 1 \in Messages
            /\ inflight' = IF qos = 1 THEN Append(inflight, p) ELSE inflight
            /\ UNCHANGED <<link, pc, packet, taken, ids, resend, acks, breaks, delivered, acked, since, short>>
    BY <1>2, PublishIs
  <2>2. CASE qos = 0
    BY <1>1, <2>1, <2>2
  <2>3. CASE qos = 1
    <3>1. inflight \in Seq(Packets) /\ p \in Packets /\ sent \in Nat
      BY Elements DEF TypeInv, Packets
    <3>2. /\ Len(inflight') = Len(inflight) + 1 /\ Len(inflight) \in Nat
          /\ \A i \in 1..(Len(inflight) + 1) : inflight'[i] = IF i <= Len(inflight) THEN inflight[i] ELSE p
      BY <2>1, <2>3, <3>1, AppendFacts
    <3>3. ~(delivered[p.msg] > 0)
      BY <2>1, <3>1 DEF MessageInv, DeliveryInv
    <3>4. ASSUME NEW l \in 1..Len(inflight)
          PROVE  p.msg \notin since[inflight[l].msg]
      <4>1. inflight[l].msg \in Messages
        <5>1. inflight[l].msg \in 1..sent /\ sent \in 0..MaxMessages /\ MaxMessages \in Nat
          BY InboundAssumption DEF MessageInv, Unacked, TypeInv, InboundAssumption
        <5> QED
          BY <5>1 DEF Messages
      <4>2. since[inflight[l].msg] \subseteq 1..sent
        BY <4>1 DEF MessageInv, DeliveryInv
      <4> QED
        BY <2>1, <3>1, <4>2
    <3>5. ASSUME NEW k \in 1..Len(inflight')
          PROVE  \/ \E l \in 1..Len(inflight) : inflight'[k] = inflight[l]
                 \/ inflight'[k] = p
      BY <3>2
    <3>6. delivered' = delivered /\ since' = since /\ ring' = ring /\ cnt' = cnt
      BY <2>1
    <3>7. \A k \in 1..Len(inflight') :
             \/ \E l \in 1..Len(inflight) :
                   /\ inflight'[k] = inflight[l]
                   /\ delivered'[inflight[l].msg] = delivered[inflight[l].msg]
                   /\ since'[inflight[l].msg] = since[inflight[l].msg]
             \/ /\ ~(delivered'[inflight'[k].msg] > 0)
                /\ \A l \in 1..Len(inflight) : inflight'[k].msg \notin since[inflight[l].msg]
      <4> TAKE k \in 1..Len(inflight')
      <4>1. CASE \E l \in 1..Len(inflight) : inflight'[k] = inflight[l]
        BY <3>6, <4>1
      <4>2. CASE inflight'[k] = p
        BY <3>3, <3>4, <3>6, <4>2
      <4> QED
        BY <3>5, <4>1, <4>2
    <3> QED
      BY <3>6, <3>7, RingKept
  <2> QED
    BY <2>2, <2>3
<1>3. CASE ReceivePuback
  <2>1. PICK k \in DOMAIN inflight : inflight' = RemoveAt(inflight, k)
    BY <1>3 DEF ReceivePuback
  <2>2. inflight \in Seq(Packets) /\ k \in 1..Len(inflight)
    BY LenProperties DEF TypeInv
  <2>3. \A i \in 1..Len(inflight') : \E l \in 1..Len(inflight) : inflight'[i] = inflight[l]
    BY <2>1, <2>2, Removed
  <2>4. UNCHANGED <<ring, cnt, delivered, since>>
    BY <1>3 DEF ReceivePuback
  <2> QED
    BY <1>1, <2>3, <2>4
<1>4. CASE Reconnect
  <2>1. inflight' = inflight \/ Len(inflight') = 0
    BY <1>4, EmptySeq DEF Reconnect
  <2>2. UNCHANGED <<ring, cnt, delivered, since>>
    BY <1>4 DEF Reconnect
  <2> QED
    BY <1>1, <2>1, <2>2
<1>5. CASE Resend \/ AnswerPing \/ Break \/ ReadHeader \/ ReadLength \/ ReadPayload \/ Discard \/ SendPuback
           \/ HandleOther \/ UNCHANGED vars
  <2>1. UNCHANGED <<ring, cnt, delivered, since, inflight>>
    BY <1>5 DEF Resend, AnswerPing, Break, ReadHeader, ReadLength, ReadPayload, Discard, SendPuback, HandleOther, vars
  <2> QED
    BY <1>1, <2>1
<1>6. CASE HandlePublish
  <2>1. pc = "handle" /\ packet \in Packets /\ packet.type = "PUBLISH" /\ inflight' = inflight
    BY <1>6 DEF HandlePublish, ReadInv
  <2>2. packet.msg \in Messages /\ packet.qos \in {0, 1} /\ packet.msg > 0
    <3>1. packet.msg \in Messages /\ packet.qos \in {0, 1}
      BY <2>1, PacketFacts
    <3> QED
      BY <3>1, InboundAssumption DEF Messages, InboundAssumption
  <2>3. CASE packet.qos = 1 /\ ~IsRepeat
    BY <1>6, <2>3, RingEntered
  <2>4. CASE packet.qos = 0 \/ IsRepeat
    <3>1. UNCHANGED <<ring, cnt>>
      BY <1>6, <2>4 DEF HandlePublish, AddPacketId
    <3>2. ASSUME NEW l \in 1..Len(inflight)
          PROVE  inflight[l].msg \in Messages
      <4>1. inflight[l].msg \in 1..sent /\ sent \in 0..MaxMessages /\ MaxMessages \in Nat
        BY InboundAssumption DEF MessageInv, Unacked, TypeInv, InboundAssumption
      <4> QED
        BY <4>1 DEF Messages
    <3>3. \A l \in 1..Len(inflight) : since'[inflight[l].msg] = since[inflight[l].msg]
      BY <1>6, <2>4, <3>2 DEF HandlePublish
    <3>4. ASSUME NEW l \in 1..Len(inflight)
          PROVE  delivered'[inflight[l].msg] = delivered[inflight[l].msg]
      <4>1. CASE packet.qos = 0
        <5>1. inflight[l].msg # packet.msg
          BY <2>1, <2>2, <4>1 DEF MessageInv, WayInv, Reads, Coming
        <5> QED
          BY <1>6, <2>2, <3>2, <5>1 DEF HandlePublish, TypeInv
      <4>2. CASE packet.qos # 0
        BY <1>6, <2>4, <4>2 DEF HandlePublish, Delivers
      <4> QED
        BY <4>1, <4>2
    <3> QED
      BY <2>1, <3>1, <3>3, <3>4, RingKept
  <2> QED
    BY <2>2, <2>3, <2>4
<1>7. \A id \in FreeIds : id \in Ids \cup {0}
  BY DEF FreeIds
<1> QED
  BY <1>2, <1>3, <1>4, <1>5, <1>6, <1>7 DEF Next

\* A step delivers a message again only after as many others as the ring holds.
LEMMA RepeatStep ==
  ASSUME TypeInv, ReadInv, MessageInv, RingInv, [Next]_vars, NEW m \in Messages,
         delivered'[m] > delivered[m], delivered[m] > 0
  PROVE  Cardinality(since[m]) >= RingLength
<1> USE DEF stream, broker, ids, past
<1>1. delivered[m] \in Nat
  BY DEF TypeInv
<1>2. HandlePublish
  <2>1. ASSUME ~HandlePublish
        PROVE  delivered' = delivered
    BY <2>1 DEF Next, Publish, Resend, AnswerPing, ReceivePuback, Break, Reconnect, ReadHeader, ReadLength, ReadPayload,
                Discard, SendPuback, HandleOther, vars
  <2> QED
    BY <1>1, <2>1
<1>3. pc = "handle" /\ packet \in Packets /\ packet.type = "PUBLISH"
  BY <1>2 DEF HandlePublish, ReadInv
<1>4. packet.msg \in Messages /\ packet.qos \in {0, 1} /\ packet.msg > 0
  <2>1. packet.msg \in Messages /\ packet.qos \in {0, 1}
    BY <1>3, PacketFacts
  <2> QED
    BY <2>1, InboundAssumption DEF Messages, InboundAssumption
<1>5. m = packet.msg /\ Delivers
  <2>1. CASE Delivers
    BY <1>1, <1>2, <1>4, <2>1 DEF HandlePublish, TypeInv
  <2>2. CASE ~Delivers
    BY <1>1, <1>2, <2>2 DEF HandlePublish
  <2> QED
    BY <2>1, <2>2
<1>6. Coming(packet, inflight, sent, delivered)
  BY <1>3 DEF MessageInv, WayInv, Reads
<1>7. packet.qos = 1 /\ ~IsRepeat
  BY <1>1, <1>4, <1>5, <1>6 DEF Coming, Delivers
<1>8. PICK k \in 1..Len(inflight) : inflight[k] = packet
  BY <1>6, <1>7 DEF Coming, In
<1>9. ~(Cardinality(since[m]) < RingLength)
  BY <1>5, <1>7, <1>8 DEF RingInv, IsRepeat
<1>10. Cardinality(since[m]) \in Nat /\ RingLength \in Nat
  BY MessageSets, InboundAssumption DEF InboundAssumption
<1> QED
  BY <1>9, <1>10

\* A message is not delivered again before as many others have come as the ring of packet
\* ids holds, for rings of every length: also not after the ring has begun anew, and not
\* across connections.
THEOREM RepeatsAreDropped == Spec => RepeatIsDropped
<1>1. ASSUME TypeInv, StreamInv, MessageInv, RingInv, [Next]_vars
      PROVE  /\ MessageInv' /\ RingInv'
             /\ \A m \in Messages :
                   (delivered'[m] > delivered[m] /\ delivered[m] > 0) => Cardinality(since[m]) >= RingLength
  BY <1>1, MessageStep, RingStep, RepeatStep DEF StreamInv
<1>2. TypeInv /\ StreamInv /\ MessageInv /\ RingInv /\ [Next]_vars =>
         MessageInv' /\ RingInv'
           /\ [\A m \in Messages :
                  (delivered'[m] > delivered[m] /\ delivered[m] > 0) => Cardinality(since[m]) >= RingLength]_vars
  BY <1>1
<1> QED
  BY <1>2, MessageInit, RingInit, TypeCorrect, PTL DEF Spec, RepeatIsDropped

-------------------------------------------------------------------------------
(* Topics: which handler a message is given to. *)

Texts == Seq(STRING)

\* Where a level begins, it ends at the next "/" or at the end of the text.
LEMMA EndFacts ==
  ASSUME NEW s \in Texts, NEW b \in Topic!Begins(s)
  PROVE  /\ Len(s) \in Nat /\ Topic!Begins(s) \subseteq 0..Len(s) /\ b \in 0..Len(s)
         /\ Topic!EndOf(s, b) \in (b + 1)..(Len(s) + 1)
         /\ \A x \in Topic!Begins(s) : x > b => Topic!EndOf(s, b) <= x
         /\ Topic!EndOf(s, b) # Len(s) + 1 =>
                Topic!EndOf(s, b) \in Topic!Begins(s) /\ s[Topic!EndOf(s, b)] = "/"
         /\ \A i \in (b + 1)..(Topic!EndOf(s, b) - 1) : i \in DOMAIN s /\ s[i] # "/"
<1>1. Len(s) \in Nat /\ DOMAIN s = 1..Len(s)
  BY LenProperties DEF Texts
<1>2. Topic!Begins(s) \subseteq 0..Len(s) /\ b \in 0..Len(s)
  BY <1>1 DEF Topic!Begins
<1>3. Topic!Ends(s, b) \in SUBSET Nat /\ Len(s) + 1 \in Topic!Ends(s, b)
  BY <1>1, <1>2 DEF Topic!Ends
<1> DEFINE e == Topic!EndOf(s, b)
<1>4. e \in Topic!Ends(s, b) /\ \A x \in Topic!Ends(s, b) : e <= x
  <2>1. PICK n \in Topic!Ends(s, b) : \A x \in Topic!Ends(s, b) : n <= x
    BY <1>3, LeastElement
  <2> QED
    BY <2>1 DEF Topic!EndOf
<1> HIDE DEF e
<1>5. e \in (b + 1)..(Len(s) + 1)
  BY <1>1, <1>2, <1>3, <1>4 DEF Topic!Ends
<1>6. \A x \in Topic!Begins(s) : x > b => e <= x
  BY <1>4 DEF Topic!Ends
<1>7. e # Len(s) + 1 => e \in Topic!Begins(s) /\ s[e] = "/"
  <2>1. e # Len(s) + 1 => e \in Topic!Begins(s) /\ e # 0
    BY <1>2, <1>4, <1>5 DEF Topic!Ends
  <2> QED
    BY <2>1 DEF Topic!Begins
<1>8. \A i \in (b + 1)..(e - 1) : i \in DOMAIN s /\ s[i] # "/"
  <2>1. SUFFICES ASSUME NEW i \in (b + 1)..(e - 1) PROVE i \in DOMAIN s /\ s[i] # "/"
    OBVIOUS
  <2>2. i \in 1..Len(s) /\ i > b /\ ~ (e <= i)
    BY <1>1, <1>2, <1>5
  <2>3. i \notin Topic!Begins(s)
    BY <1>6, <2>2
  <2> QED
    BY <1>1, <2>2, <2>3 DEF Topic!Begins
<1> QED
  BY <1>1, <1>2, <1>5, <1>6, <1>7, <1>8 DEF e

\* ... and nowhere else.
LEMMA EndIs ==
  ASSUME NEW s \in Texts, NEW b \in Topic!Begins(s), NEW e \in (b + 1)..(Len(s) + 1),
         e # Len(s) + 1 => s[e] = "/", \A i \in (b + 1)..(e - 1) : s[i] # "/"
  PROVE  Topic!EndOf(s, b) = e
<1> DEFINE f == Topic!EndOf(s, b)
<1>1. /\ Len(s) \in Nat /\ b \in 0..Len(s) /\ f \in (b + 1)..(Len(s) + 1)
      /\ \A x \in Topic!Begins(s) : x > b => f <= x
      /\ f # Len(s) + 1 => s[f] = "/"
  BY EndFacts
<1> HIDE DEF f
<1>2. f <= e
  <2>1. CASE e = Len(s) + 1
    BY <1>1, <2>1
  <2>2. CASE e # Len(s) + 1
    <3>1. e \in DOMAIN s /\ s[e] = "/"
      BY <1>1, <2>2, LenProperties DEF Texts
    <3> QED
      BY <1>1, <3>1 DEF Topic!Begins
  <2> QED
    BY <2>1, <2>2
<1>3. ~ (f < e)
  <2> SUFFICES ASSUME f < e PROVE FALSE
    OBVIOUS
  <2>1. f \in (b + 1)..(e - 1) /\ f # Len(s) + 1
    BY <1>1
  <2> QED
    BY <1>1, <2>1
<1> QED
  BY <1>1, <1>2, <1>3 DEF f

\* The characters of a level.
LEMMA LevelFacts ==
  ASSUME NEW s \in Texts, NEW b \in Topic!Begins(s)
  PROVE  /\ Topic!Level(s, b) \in Texts
         /\ Len(Topic!Level(s, b)) = Topic!EndOf(s, b) - b - 1
         /\ \A i \in 1..(Topic!EndOf(s, b) - b - 1) : Topic!Level(s, b)[i] = s[b + i]
<1> DEFINE e == Topic!EndOf(s, b)
<1>1. Len(s) \in Nat /\ b \in 0..Len(s) /\ e \in (b + 1)..(Len(s) + 1)
  BY EndFacts
<1>2. Topic!Level(s, b) = SubSeq(s, b + 1, e - 1)
  BY DEF Topic!Level
<1> HIDE DEF e
<1>3. \A i \in (b + 1)..(e - 1) : s[i] \in STRING
  <2>1. \A i \in (b + 1)..(e - 1) : i \in 1..Len(s)
    BY <1>1
  <2> QED
    BY <2>1, ElementOfSeq DEF Texts
<1>4. /\ SubSeq(s, b + 1, e - 1) \in Seq(STRING)
      /\ Len(SubSeq(s, b + 1, e - 1)) = IF b + 1 <= e - 1 THEN e - 1 - (b + 1) + 1 ELSE 0
      /\ \A i \in 1..(e - 1 - (b + 1) + 1) : SubSeq(s, b + 1, e - 1)[i] = s[b + 1 + i - 1]
  <2>1. b + 1 \in Int /\ e - 1 \in Int
    BY <1>1
  <2> QED
    BY <1>3, <2>1, SubSeqProperties
<1>5. /\ (IF b + 1 <= e - 1 THEN e - 1 - (b + 1) + 1 ELSE 0) = e - b - 1
      /\ e - 1 - (b + 1) + 1 = e - b - 1
      /\ \A i \in 1..(e - b - 1) : b + 1 + i - 1 = b + i
  BY <1>1
<1> QED
  BY <1>2, <1>4, <1>5 DEF e, Texts

LEMMA SameLevel ==
  ASSUME NEW s \in Texts, NEW b \in Topic!Begins(s), NEW t \in Texts, NEW c \in Topic!Begins(t)
  PROVE  Topic!Level(s, b) = Topic!Level(t, c) <=>
             /\ Topic!EndOf(s, b) - b = Topic!EndOf(t, c) - c
             /\ \A i \in 1..(Topic!EndOf(s, b) - b - 1) : s[b + i] = t[c + i]
<1> DEFINE l == Topic!Level(s, b)  m == Topic!Level(t, c)
           d == Topic!EndOf(s, b)  e == Topic!EndOf(t, c)
<1>1. /\ l \in Texts /\ Len(l) = d - b - 1 /\ \A i \in 1..(d - b - 1) : l[i] = s[b + i]
      /\ m \in Texts /\ Len(m) = e - c - 1 /\ \A i \in 1..(e - c - 1) : m[i] = t[c + i]
  BY LevelFacts
<1>2. d \in Int /\ b \in Int /\ e \in Int /\ c \in Int
  BY EndFacts
<1> HIDE DEF l, m, d, e
<1>3. ASSUME l = m PROVE d - b = e - c /\ \A i \in 1..(d - b - 1) : s[b + i] = t[c + i]
  <2>1. d - b - 1 = e - c - 1
    BY <1>1, <1>3
  <2>2. d - b = e - c
    BY <1>2, <2>1
  <2> QED
    BY <1>1, <1>3, <2>1, <2>2
<1>4. ASSUME d - b = e - c, \A i \in 1..(d - b - 1) : s[b + i] = t[c + i] PROVE l = m
  <2>1. d - b - 1 = e - c - 1
    BY <1>4
  <2>2. Len(l) = Len(m) /\ \A i \in 1..Len(l) : l[i] = m[i]
    BY <1>1, <1>4, <2>1
  <2> QED
    BY <1>1, <2>2, SeqEqual DEF Texts
<1> QED
  BY <1>3, <1>4 DEF l, m, d, e

LEMMA OneElement ==
  ASSUME NEW w
  PROVE  Len(<<w>>) = 1 /\ <<w>>[1] = w /\ \A S : w \in S => <<w>> \in Seq(S)
OBVIOUS

\* A level of one character, and of none.
LEMMA ShortLevel ==
  ASSUME NEW s \in Texts, NEW b \in Topic!Begins(s), NEW w
  PROVE  /\ Topic!Level(s, b) = <<w>> <=> Topic!EndOf(s, b) = b + 2 /\ s[b + 1] = w
         /\ Topic!EndOf(s, b) = b + 1 => Topic!Level(s, b) = <<>>
<1> DEFINE l == Topic!Level(s, b)  e == Topic!EndOf(s, b)
<1>1. l \in Seq(STRING) /\ Len(l) = e - b - 1 /\ \A i \in 1..(e - b - 1) : l[i] = s[b + i]
  BY LevelFacts DEF Texts
<1>2. b \in Int /\ e \in Int
  BY EndFacts DEF Texts
<1> HIDE DEF l, e
<1>3. ASSUME l = <<w>> PROVE e = b + 2 /\ s[b + 1] = w
  <2>1. Len(l) = 1 /\ l[1] = w
    BY <1>3, OneElement
  <2>2. e = b + 2 /\ 1 \in 1..(e - b - 1)
    <3>1. e - b - 1 = 1
      BY <1>1, <2>1
    <3>2. e = b + 2
      BY <1>2, <3>1
    <3> QED
      BY <1>2, <3>2
  <2> QED
    BY <1>1, <2>1, <2>2
<1>4. ASSUME e = b + 2, s[b + 1] = w PROVE l = <<w>>
  <2>1. e - b - 1 = 1
    BY <1>2, <1>4
  <2>2. Len(l) = 1 /\ l[1] = w
    <3>1. Len(l) = 1 /\ \A i \in 1..1 : l[i] = s[b + i]
      BY <1>1, <2>1
    <3>2. 1 \in 1..1
      OBVIOUS
    <3>3. l[1] = s[b + 1]
      BY <3>1, <3>2
    <3> QED
      BY <1>4, <3>1, <3>3
  <2>3. <<w>> \in Seq(STRING) /\ Len(<<w>>) = 1 /\ <<w>>[1] = w
    <3>1. l[1] \in STRING
      BY <1>1, <2>2, ElementOfSeq
    <3> QED
      BY <2>2, <3>1, OneElement
  <2>4. Len(l) = Len(<<w>>) /\ \A i \in 1..Len(l) : l[i] = <<w>>[i]
    <3> DEFINE o == <<w>>
    <3>1. Len(o) = 1 /\ o[1] = w
      BY <2>3
    <3> HIDE DEF o
    <3>2. ASSUME NEW i \in 1..Len(l) PROVE l[i] = o[i]
      <4>1. i = 1
        BY <2>2
      <4> QED
        BY <2>2, <3>1, <4>1
    <3> QED
      BY <2>2, <3>1, <3>2 DEF o
  <2> QED
    BY <1>1, <2>3, <2>4, SeqEqual DEF Texts
<1>5. ASSUME e = b + 1 PROVE l = <<>>
  <2>1. Len(l) = 0
    BY <1>1, <1>2, <1>5
  <2> QED
    BY <1>1, <2>1, EmptySeq DEF Texts
<1> QED
  BY <1>3, <1>4, <1>5 DEF l, e

TopicTypes ==
  /\ topic_filter \in Texts /\ topic_name \in Texts
  /\ curf \in 1..(Len(topic_filter) + 1) /\ curn \in 1..(Len(topic_name) + 1)
  /\ scan \in {"idle", "loop", "returned"}

Orderly == Topic!WellFormed(topic_filter) /\ Topic!IsName(topic_name)

\* A wildcard is the only character of its level.
LEMMA WildcardLevel ==
  ASSUME TopicTypes, Orderly, NEW b \in Topic!Begins(topic_filter),
         NEW i \in (b + 1)..(Topic!EndOf(topic_filter, b) - 1), topic_filter[i] \in {"+", "#"}
  PROVE  /\ i = b + 1 /\ Topic!EndOf(topic_filter, b) = b + 2
         /\ topic_filter[i] = "#" => Topic!EndOf(topic_filter, b) = Len(topic_filter) + 1
<1> DEFINE f == topic_filter  e == Topic!EndOf(topic_filter, b)
<1>1. /\ Len(f) \in Nat /\ b \in 0..Len(f) /\ e \in (b + 1)..(Len(f) + 1)
      /\ \A j \in (b + 1)..(e - 1) : j \in DOMAIN f /\ f[j] # "/"
  BY EndFacts DEF TopicTypes
<1>2. /\ i \in DOMAIN f /\ i \in Int
      /\ i - 1 \in Topic!Begins(f) /\ i + 1 \in Topic!Ends(f, i)
      /\ f[i] = "#" => i = Len(f)
  BY <1>1 DEF Orderly, Topic!WellFormed
<1> HIDE DEF e
<1>3. i = b + 1
  <2> SUFFICES ASSUME i # b + 1 PROVE FALSE
    OBVIOUS
  <2>1. i - 1 \in (b + 1)..(e - 1) /\ i - 1 # 0
    BY <1>1, <1>2 DEF e
  <2> QED
    BY <1>1, <1>2, <2>1 DEF Topic!Begins
<1>4. i + 1 \in (b + 1)..(Len(f) + 1) /\ (i + 1 # Len(f) + 1 => f[i + 1] = "/")
  <2>1. i + 1 # 0 /\ i \in 1..Len(f)
    BY <1>1, <1>2, LenProperties DEF TopicTypes, Texts
  <2> QED
    BY <1>1, <1>2, <1>3, <2>1 DEF Topic!Ends, Topic!Begins
<1>5. \A j \in (b + 1)..(i + 1 - 1) : f[j] # "/"
  <2>1. \A j \in (b + 1)..(i + 1 - 1) : j = i
    BY <1>1, <1>2, <1>3
  <2> QED
    BY <2>1
<1>6. e = i + 1
  BY <1>4, <1>5, EndIs DEF e, TopicTypes
<1> QED
  BY <1>1, <1>2, <1>3, <1>6 DEF e

\* Level b of the filter, which is not its last, is paired with one of the name.
Paired(h, b) ==
  /\ Topic!Fits(Topic!Level(topic_filter, b), Topic!Level(topic_name, h[b]))
  /\ ~Topic!IsLast(topic_name, h[b])
  /\ h[Topic!EndOf(topic_filter, b)] = Topic!EndOf(topic_name, h[b])

\* The scan is in level b of the filter, and in the level of the name that h pairs with it.
At(h, b) ==
  /\ b \in Topic!Begins(topic_filter)
  /\ b < curf /\ curf <= Topic!EndOf(topic_filter, b)
  /\ h \in [Topic!Begins(topic_filter) -> Topic!Begins(topic_name)]
  /\ h[0] = 0
  /\ \A x \in Topic!Begins(topic_filter) : x < b => Paired(h, x)
  /\ \/ /\ curn - h[b] = curf - b
        /\ \A i \in 1..(curf - b - 1) : topic_filter[b + i] = topic_name[h[b] + i]
     \/ /\ Topic!Level(topic_filter, b) = <<"+">>
        /\ curf = b + 2 /\ curn = Topic!EndOf(topic_name, h[b])
     \/ /\ Topic!Level(topic_filter, b) = <<"#">>
        /\ curf = b + 2 /\ curn = Len(topic_name) + 1

\* The places of a scan: of the filter's level, of the name's, and what has been passed.
LEMMA AtFacts ==
  ASSUME TopicTypes, Orderly, NEW h, NEW b, At(h, b)
  PROVE  LET f == topic_filter  n == topic_name  c == h[b]
             d == Topic!EndOf(f, b)  e == Topic!EndOf(n, c) IN
         /\ Len(f) \in Nat /\ Len(n) \in Nat
         /\ b \in 0..Len(f) /\ d \in (b + 1)..(Len(f) + 1) /\ b < curf /\ curf <= d
         /\ c \in 0..Len(n) /\ e \in (c + 1)..(Len(n) + 1) /\ c \in Topic!Begins(n)
         /\ curf \in Int /\ curn \in Int
         /\ curf \in DOMAIN f => (f[curf] = "/" <=> curf = d)
         /\ d # Len(f) + 1 => d \in Topic!Begins(f) /\ f[d] = "/"
         /\ e # Len(n) + 1 => e \in Topic!Begins(n) /\ n[e] = "/"
         /\ \A i \in (b + 1)..(d - 1) : f[i] # "/"
         /\ \A i \in (c + 1)..(e - 1) : n[i] # "/"
         /\ \/ /\ curn - c = curf - b
               /\ \A i \in 1..(curf - b - 1) :
                     /\ f[b + i] = n[c + i] /\ n[c + i] \notin {"/", "+", "#"}
                     /\ b + i \in (b + 1)..(d - 1) /\ c + i \in (c + 1)..(curn - 1)
            \/ f[b + 1] = "+" /\ d = b + 2 /\ curf = d /\ curn = e
            \/ f[b + 1] = "#" /\ d = b + 2 /\ curf = d /\ d = Len(f) + 1 /\ curn = Len(n) + 1
<1> DEFINE f == topic_filter  n == topic_name  c == h[b]
           d == Topic!EndOf(f, b)  e == Topic!EndOf(n, c)
<1>1. /\ Len(f) \in Nat /\ b \in 0..Len(f) /\ d \in (b + 1)..(Len(f) + 1) /\ b < curf /\ curf <= d
      /\ d # Len(f) + 1 => d \in Topic!Begins(f) /\ f[d] = "/"
      /\ \A i \in (b + 1)..(d - 1) : i \in DOMAIN f /\ f[i] # "/"
  BY EndFacts DEF At, TopicTypes
<1>2. c \in Topic!Begins(n)
  BY DEF At
<1>3. /\ Len(n) \in Nat /\ c \in 0..Len(n) /\ e \in (c + 1)..(Len(n) + 1)
      /\ e # Len(n) + 1 => e \in Topic!Begins(n) /\ n[e] = "/"
      /\ \A i \in (c + 1)..(e - 1) : i \in DOMAIN n /\ n[i] # "/"
  BY <1>2, EndFacts DEF TopicTypes
<1>4. curf \in Int /\ curn \in Int /\ curn \in 1..(Len(n) + 1) /\ DOMAIN n = 1..Len(n) /\ DOMAIN f = 1..Len(f)
  BY <1>1, <1>3, LenProperties DEF TopicTypes, Texts
<1>5. curf \in DOMAIN f => (f[curf] = "/" <=> curf = d)
  <2>1. curf # d => curf \in (b + 1)..(d - 1)
    BY <1>1, <1>4
  <2>2. curf \in DOMAIN f /\ curf = d => d # Len(f) + 1
    BY <1>1, <1>4
  <2> QED
    BY <1>1, <2>1, <2>2
<1>6. f \in Texts /\ n \in Texts /\ b \in Topic!Begins(f) /\ b \in Int /\ d \in Int /\ c \in Int
  BY <1>1, <1>3 DEF TopicTypes, At
<1>7. /\ Topic!Level(f, b) = <<"+">> => d = b + 2 /\ f[b + 1] = "+"
      /\ Topic!Level(f, b) = <<"#">> => d = b + 2 /\ f[b + 1] = "#"
  BY <1>6, ShortLevel
<1>8. \/ curn - c = curf - b /\ \A i \in 1..(curf - b - 1) : f[b + i] = n[c + i]
      \/ Topic!Level(f, b) = <<"+">> /\ curf = b + 2 /\ curn = e
      \/ Topic!Level(f, b) = <<"#">> /\ curf = b + 2 /\ curn = Len(n) + 1
  BY DEF At
<1>9. \A i \in DOMAIN n : n[i] \notin {"+", "#"}
  BY DEF Orderly, Topic!IsName
<1> HIDE DEF f, n, c, d, e
<1>10. CASE curn - c = curf - b /\ \A i \in 1..(curf - b - 1) : f[b + i] = n[c + i]
  <2>1. ASSUME NEW i \in 1..(curf - b - 1)
        PROVE  /\ f[b + i] = n[c + i] /\ n[c + i] \notin {"/", "+", "#"}
               /\ b + i \in (b + 1)..(d - 1) /\ c + i \in (c + 1)..(curn - 1)
    <3>1. b + i \in (b + 1)..(d - 1)
      BY <1>1, <1>4, <1>6
    <3>2. c + i \in (c + 1)..(curn - 1) /\ c + i \in 1..Len(n)
      BY <1>3, <1>4, <1>6, <1>10
    <3>3. f[b + i] = n[c + i]
      BY <1>10
    <3> QED
      BY <1>1, <1>4, <1>9, <3>1, <3>2, <3>3
  <2> QED
    BY <1>1, <1>2, <1>3, <1>4, <1>5, <1>10, <2>1 DEF f, n, c, d, e
<1>11. CASE Topic!Level(f, b) = <<"+">> /\ curf = b + 2 /\ curn = e
  BY <1>1, <1>2, <1>3, <1>4, <1>5, <1>7, <1>11 DEF f, n, c, d, e
<1>12. CASE Topic!Level(f, b) = <<"#">> /\ curf = b + 2 /\ curn = Len(n) + 1
  <2>1. f[b + 1] = "#" /\ d = b + 2
    BY <1>7, <1>12
  <2>2. b + 1 \in (b + 1)..(d - 1)
    BY <1>6, <2>1
  <2>3. d = Len(f) + 1
    BY <1>6, <2>1, <2>2, WildcardLevel DEF f, d
  <2> QED
    BY <1>1, <1>2, <1>3, <1>4, <1>5, <1>12, <2>1, <2>3 DEF f, n, c, d, e
<1> QED
  BY <1>8, <1>10, <1>11, <1>12

\* Where the scan of the name goes on.
LEMMA AfterFacts ==
  ASSUME TopicTypes, Topic!InLoop
  PROVE  LET k == Topic!After(curn) IN
         /\ k \in (curn + 1)..(Len(topic_name) + 1)
         /\ topic_filter[curf] = "+" =>
                /\ k # Len(topic_name) + 1 => topic_name[k] = "/"
                /\ \A j \in (curn + 1)..(k - 1) : topic_name[j] # "/"
         /\ topic_filter[curf] = "#" => k = Len(topic_name) + 1
         /\ topic_filter[curf] \notin {"+", "#"} => k = curn + 1
<1> DEFINE n == topic_name  k == Topic!After(curn)
           Stops == {j \in (curn + 1)..(Len(n) + 1) : j = Len(n) + 1 \/ n[j] = "/"}
           Rest(j) == /\ j = Len(n) + 1 \/ n[j] = "/"
                      /\ \A x \in (curn + 1)..(j - 1) : n[x] # "/"
<1>1. Len(n) \in Nat /\ curn \in 1..Len(n)
  BY LenProperties DEF TopicTypes, Texts, Topic!InLoop
<1>2. CASE topic_filter[curf] = "+"
  <2>1. Stops \in SUBSET Nat /\ Len(n) + 1 \in Stops
    BY <1>1
  <2>2. PICK j \in Stops : \A x \in Stops : j <= x
    BY <2>1, LeastElement
  <2>3. j \in (curn + 1)..(Len(n) + 1) /\ Rest(j)
    BY <1>1, <2>2
  <2>4. k = CHOOSE x \in (curn + 1)..(Len(n) + 1) : Rest(x)
    BY <1>2 DEF Topic!After
  <2> HIDE DEF k, Rest
  <2>5. k \in (curn + 1)..(Len(n) + 1) /\ Rest(k)
    BY <2>3, <2>4
  <2> QED
    BY <1>2, <2>5 DEF k, Rest
<1>3. CASE topic_filter[curf] = "#"
  BY <1>1, <1>3 DEF Topic!After
<1>4. CASE topic_filter[curf] \notin {"+", "#"}
  BY <1>1, <1>4 DEF Topic!After
<1> QED
  BY <1>2, <1>3, <1>4

LEMMA StepOverSlash ==
  ASSUME TopicTypes, Orderly, Topic!Step, NEW h, NEW b, At(h, b), topic_filter[curf] = "/"
  PROVE  \E h2, b2 : At(h2, b2)' /\ (Topic!Pairs(topic_filter, topic_name, h) => h2 = h)
<1> DEFINE f == topic_filter  n == topic_name  c == h[b]
<1>0. PICK d, e : d = Topic!EndOf(f, b) /\ e = Topic!EndOf(n, c)
  OBVIOUS
<1>1. /\ topic_filter' = f /\ topic_name' = n /\ curf' = curf + 1 /\ curn' = Topic!After(curn)
      /\ Topic!InLoop /\ curf \in DOMAIN f /\ curn <= Len(n) /\ curn \in 1..Len(n) /\ n[curn] = "/"
  BY LenProperties DEF Topic!Step, Topic!InLoop, Topic!Agree, TopicTypes, Texts
<1>2. /\ Len(f) \in Nat /\ Len(n) \in Nat
      /\ b \in 0..Len(f) /\ d \in (b + 1)..(Len(f) + 1) /\ curf = d /\ d \in 1..Len(f)
      /\ c \in 0..Len(n) /\ e \in (c + 1)..(Len(n) + 1) /\ c \in Topic!Begins(n)
      /\ d # Len(f) + 1 /\ d \in Topic!Begins(f)
      /\ b \in Topic!Begins(f)
  <2>1. /\ Len(f) \in Nat /\ Len(n) \in Nat
        /\ b \in 0..Len(f) /\ d \in (b + 1)..(Len(f) + 1)
        /\ c \in 0..Len(n) /\ e \in (c + 1)..(Len(n) + 1) /\ c \in Topic!Begins(n)
        /\ d # Len(f) + 1 => d \in Topic!Begins(f)
    BY <1>0, AtFacts
  <2>2. curf = d
    BY <1>0, <1>1, AtFacts
  <2>3. d \in 1..Len(f)
    BY <1>1, <2>2, LenProperties DEF TopicTypes, Texts
  <2> QED
    BY <2>1, <2>2, <2>3 DEF At
<1>3. curn' = curn + 1
  BY <1>1, AfterFacts
<1>4. Topic!Level(f, b) # <<"#">>
  <2> SUFFICES ASSUME Topic!Level(f, b) = <<"#">> PROVE FALSE
    OBVIOUS
  <2>1. f[b + 1] = "#" /\ Topic!EndOf(f, b) = b + 2
    BY <1>2, ShortLevel DEF TopicTypes
  <2>2. b + 1 \in (b + 1)..(Topic!EndOf(f, b) - 1)
    BY <1>2, <2>1
  <2>3. Topic!EndOf(f, b) = Len(f) + 1
    BY <1>2, <2>1, <2>2, WildcardLevel
  <2> QED
    BY <1>0, <1>2, <2>3
<1>5. curn = e /\ Topic!Fits(Topic!Level(f, b), Topic!Level(n, c))
  <2>1. CASE /\ curn - c = curf - b
             /\ \A i \in 1..(curf - b - 1) : f[b + i] = n[c + i] /\ n[c + i] \notin {"/", "+", "#"}
    <3>1. /\ curn \in (c + 1)..(Len(n) + 1) /\ curn - c - 1 = curf - b - 1
          /\ curn \in Int /\ c \in Int
      <4>1. /\ curn \in Int /\ c \in Int /\ curf \in Int /\ b \in Int
            /\ b < curf /\ curn \in 1..Len(n) /\ Len(n) \in Nat
        BY <1>1, <1>2
      <4> QED
        BY <2>1, <4>1
    <3>2. \A j \in (c + 1)..(curn - 1) : n[j] # "/"
      <4>1. SUFFICES ASSUME NEW j \in (c + 1)..(curn - 1) PROVE n[j] # "/"
        OBVIOUS
      <4>2. j - c \in 1..(curf - b - 1) /\ c + (j - c) = j
        <5>1. j \in Int /\ j - c \in 1..(curn - c - 1) /\ c + (j - c) = j
          BY <3>1
        <5> QED
          BY <3>1, <5>1
      <4> QED
        BY <2>1, <4>2
    <3>3. e = curn
      BY <1>1, <1>2, <1>0, <3>1, <3>2, EndIs DEF TopicTypes
    <3>4. Topic!Level(f, b) = Topic!Level(n, c)
      <4>1. d - b = e - c /\ \A i \in 1..(d - b - 1) : f[b + i] = n[c + i]
        BY <1>2, <2>1, <3>3
      <4> QED
        BY <1>2, <1>0, <4>1, SameLevel DEF TopicTypes
    <3> QED
      BY <3>3, <3>4 DEF Topic!Fits
  <2>2. CASE f[b + 1] = "+" /\ d = b + 2 /\ curn = e
    <3>1. Topic!Level(f, b) = <<"+">> <=> Topic!EndOf(f, b) = b + 2 /\ f[b + 1] = "+"
      BY <1>2, ShortLevel DEF TopicTypes
    <3> QED
      BY <1>0, <2>2, <3>1 DEF Topic!Fits
  <2>3. ~ (curn = Len(n) + 1)
    BY <1>1, <1>2
  <2> QED
    BY <1>0, <2>1, <2>2, <2>3, AtFacts
<1>6. /\ h \in [Topic!Begins(f) -> Topic!Begins(n)] /\ h[0] = 0
      /\ \A x \in Topic!Begins(f) : x < b => Paired(h, x)
  BY DEF At
<1>7. e # Len(n) + 1 /\ e \in Topic!Begins(n)
  <2>1. e # Len(n) + 1
    BY <1>1, <1>2, <1>5
  <2> QED
    BY <1>2, <1>0, <2>1, EndFacts DEF TopicTypes
<1>8. PICK h2 : h2 = [h EXCEPT ![d] = e]
  OBVIOUS
<1> HIDE DEF f, n, c
<1>9. /\ h2 \in [Topic!Begins(f) -> Topic!Begins(n)] /\ h2[d] = e
      /\ \A x \in Topic!Begins(f) : x # d => h2[x] = h[x]
  BY <1>2, <1>6, <1>7, <1>8
<1>10. h2[0] = 0
  <2>1. 0 \in Topic!Begins(f) /\ d # 0
    BY <1>2 DEF Topic!Begins
  <2> QED
    BY <1>6, <1>9, <2>1
<1>11. ASSUME NEW x \in Topic!Begins(f), x < d
       PROVE  Paired(h2, x)
  <2>1. x \in Int /\ x # d /\ (x > b => d <= x)
    <3>1. x \in 0..Len(f)
      BY EndFacts DEF TopicTypes, f
    <3>2. x > b => d <= x
      BY <1>2, <1>0, EndFacts DEF TopicTypes, f
    <3> QED
      BY <1>2, <1>11, <3>1, <3>2
  <2>2. CASE x = b
    BY <1>2, <1>0, <1>5, <1>7, <1>9, <2>1, <2>2 DEF Paired, Topic!IsLast, f, n, c
  <2>3. CASE x # b
    <3>1. x < b
      BY <1>2, <1>11, <2>1, <2>3
    <3>2. Paired(h, x) /\ h2[x] = h[x]
      BY <1>6, <1>9, <2>1, <3>1
    <3>3. Topic!EndOf(f, x) <= b /\ Topic!EndOf(f, x) # d /\ Topic!EndOf(f, x) \in Topic!Begins(f)
      <4>1. /\ Topic!EndOf(f, x) \in (x + 1)..(Len(f) + 1) /\ Topic!EndOf(f, x) <= b
            /\ Topic!EndOf(f, x) # Len(f) + 1 => Topic!EndOf(f, x) \in Topic!Begins(f)
        BY <1>2, <3>1, EndFacts DEF TopicTypes, f
      <4> QED
        BY <1>2, <2>1, <4>1
    <3>4. h2[Topic!EndOf(f, x)] = h[Topic!EndOf(f, x)]
      BY <1>9, <3>3
    <3> QED
      BY <3>2, <3>4 DEF Paired, f
  <2> QED
    BY <2>2, <2>3
<1>12. At(h2, d)'
  <2>1. d < curf' /\ curf' <= Topic!EndOf(f, d)
    BY <1>1, <1>2, EndFacts DEF TopicTypes, f
  <2>2. curn' - h2[d] = curf' - d /\ 1..(curf' - d - 1) = {}
    <3>1. curn \in Int /\ curf \in Int
      BY <1>1, <1>2
    <3> QED
      BY <1>1, <1>2, <1>3, <1>5, <1>9, <3>1
  <2>3. \A x \in Topic!Begins(f) : x < d => Paired(h2, x)'
    BY <1>1, <1>11 DEF Paired, f, n
  <2> QED
    BY <1>1, <1>2, <1>5, <1>9, <1>10, <2>1, <2>2, <2>3 DEF At, f, n
<1>13. ASSUME Topic!Pairs(f, n, h) PROVE h2 = h
  <2>1. ~Topic!IsLast(f, b)
    BY <1>2, <1>0 DEF Topic!IsLast
  <2>2. h[d] = e
    BY <1>2, <1>0, <1>4, <1>13, <2>1 DEF Topic!Pairs, c
  <2> QED
    BY <1>6, <1>8, <2>2
<1> QED
  BY <1>12, <1>13 DEF f, n

\* A character that is not a "/", of the first line that fits it.
LEMMA StepInLevel ==
  ASSUME TopicTypes, Orderly, Topic!Step, NEW h, NEW b, At(h, b), topic_filter[curf] # "/"
  PROVE  At(h, b)'
<1> DEFINE f == topic_filter  n == topic_name  c == h[b]
<1>0. PICK d, e : d = Topic!EndOf(f, b) /\ e = Topic!EndOf(n, c)
  OBVIOUS
<1>1. /\ topic_filter' = f /\ topic_name' = n /\ curf' = curf + 1 /\ curn' = Topic!After(curn)
      /\ Topic!InLoop /\ curf \in DOMAIN f /\ curn \in 1..Len(n)
      /\ n[curn] # "/" /\ f[curf] \in {"+", "#", n[curn]}
  BY LenProperties DEF Topic!Step, Topic!InLoop, Topic!Agree, TopicTypes, Texts
<1>2. /\ Len(f) \in Nat /\ Len(n) \in Nat
      /\ b \in 0..Len(f) /\ d \in (b + 1)..(Len(f) + 1) /\ curf \in (b + 1)..(d - 1)
      /\ c \in 0..Len(n) /\ e \in (c + 1)..(Len(n) + 1) /\ c \in Topic!Begins(n)
      /\ b \in Topic!Begins(f)
  <2>1. curf \in Int /\ b < curf /\ curf <= d /\ curf # d
    BY <1>0, <1>1, AtFacts
  <2>2. /\ Len(f) \in Nat /\ Len(n) \in Nat
        /\ b \in 0..Len(f) /\ d \in (b + 1)..(Len(f) + 1)
        /\ c \in 0..Len(n) /\ e \in (c + 1)..(Len(n) + 1) /\ c \in Topic!Begins(n)
    BY <1>0, AtFacts
  <2> QED
    BY <2>1, <2>2 DEF At
<1>3. curn - c = curf - b /\ \A i \in 1..(curf - b - 1) : f[b + i] = n[c + i] /\ n[c + i] # "/"
  <2>1. curf # Topic!EndOf(f, b)
    BY <1>0, <1>2
  <2>2. \/ /\ curn - c = curf - b
           /\ \A i \in 1..(curf - b - 1) : f[b + i] = n[c + i] /\ n[c + i] \notin {"/", "+", "#"}
        \/ curf = Topic!EndOf(f, b)
    BY AtFacts
  <2>3. \A x : x \notin {"/", "+", "#"} => x # "/"
    OBVIOUS
  <2> QED
    BY <2>1, <2>2, <2>3
<1>4. LET k == Topic!After(curn) IN
      /\ k \in (curn + 1)..(Len(n) + 1)
      /\ f[curf] = "+" =>
             /\ k # Len(n) + 1 => n[k] = "/"
             /\ \A j \in (curn + 1)..(k - 1) : n[j] # "/"
      /\ f[curf] = "#" => k = Len(n) + 1
      /\ f[curf] \notin {"+", "#"} => k = curn + 1
  BY <1>1, AfterFacts
<1>5. f[curf] \in {"+", "#"} => curf = b + 1 /\ d = b + 2
  <2>1. b \in Topic!Begins(f) /\ curf \in (b + 1)..(Topic!EndOf(f, b) - 1)
    BY <1>0, <1>2
  <2>2. f[curf] \in {"+", "#"} => curf = b + 1 /\ Topic!EndOf(f, b) = b + 2
    BY <2>1, WildcardLevel
  <2> QED
    BY <1>0, <2>2
<1>6. /\ b < curf' /\ curf' <= d
      /\ h \in [Topic!Begins(f) -> Topic!Begins(n)] /\ h[0] = 0
      /\ \A x \in Topic!Begins(f) : x < b => Paired(h, x)'
  <2>1. \A x \in Topic!Begins(f) : x < b => Paired(h, x)'
    BY <1>1 DEF At, Paired
  <2>2. b < curf' /\ curf' <= d
    <3>1. b \in Int /\ d \in Int /\ curf \in (b + 1)..(d - 1) /\ curf' = curf + 1
      BY <1>1, <1>2
    <3> QED
      BY <3>1
  <2> QED
    BY <2>1, <2>2 DEF At
<1>7. PICK p, q : p = curf + 1 /\ q = Topic!After(curn)
  OBVIOUS
<1> DEFINE Same   == q - c = p - b /\ \A i \in 1..(p - b - 1) : f[b + i] = n[c + i]
           Single == Topic!Level(f, b) = <<"+">> /\ p = b + 2 /\ q = e
           Multi  == Topic!Level(f, b) = <<"#">> /\ p = b + 2 /\ q = Len(n) + 1
<1>8. curf \in Int /\ curn \in Int /\ b \in Int /\ c \in Int /\ p \in Int
  BY <1>1, <1>2, <1>7
<1>9. ASSUME f[curf] = "+" PROVE Single
  <2>1. Topic!Level(f, b) = <<"+">> <=> Topic!EndOf(f, b) = b + 2 /\ f[b + 1] = "+"
    BY <1>2, ShortLevel DEF TopicTypes
  <2>2. curf = b + 1 /\ d = b + 2 /\ p = b + 2
    BY <1>5, <1>9, <1>7, <1>8
  <2>3. curn = c + 1
    BY <1>3, <1>8, <2>2
  <2>4. /\ q \in (c + 2)..(Len(n) + 1) /\ (q # Len(n) + 1 => n[q] = "/")
        /\ \A j \in (c + 2)..(q - 1) : n[j] # "/"
    <3>1. curn + 1 = c + 2
      BY <1>8, <2>3
    <3> QED
      BY <1>4, <1>9, <1>7, <3>1
  <2>5. q \in (c + 1)..(Len(n) + 1)
    BY <1>2, <1>8, <2>4
  <2>6. \A j \in (c + 1)..(q - 1) : n[j] # "/"
    <3>1. \A j \in (c + 1)..(q - 1) : j = c + 1 \/ j \in (c + 2)..(q - 1)
      BY <1>8
    <3> QED
      BY <1>1, <2>3, <2>4, <3>1
  <2>7. q = e
    BY <1>0, <1>2, <2>4, <2>5, <2>6, EndIs DEF TopicTypes
  <2>8. Topic!Level(f, b) = <<"+">>
    BY <1>0, <1>9, <2>1, <2>2
  <2> QED
    BY <2>2, <2>7, <2>8
<1>10. ASSUME f[curf] = "#" PROVE Multi
  <2>1. Topic!Level(f, b) = <<"#">> <=> Topic!EndOf(f, b) = b + 2 /\ f[b + 1] = "#"
    BY <1>2, ShortLevel DEF TopicTypes
  <2>2. curf = b + 1 /\ d = b + 2 /\ p = b + 2
    BY <1>5, <1>10, <1>7, <1>8
  <2>3. q = Len(n) + 1
    BY <1>4, <1>10, <1>7
  <2>4. Topic!Level(f, b) = <<"#">>
    BY <1>0, <1>10, <2>1, <2>2
  <2> QED
    BY <2>2, <2>3, <2>4
<1>11. ASSUME f[curf] \notin {"+", "#"} PROVE Same
  <2>1. f[curf] = n[curn] /\ q = curn + 1
    BY <1>1, <1>4, <1>11, <1>7
  <2>2. /\ b + (curf - b) = curf /\ c + (curf - b) = curn
        /\ q - c = p - b /\ p - b - 1 = curf - b
    BY <1>3, <1>7, <1>8, <2>1
  <2>3. \A i \in 1..(p - b - 1) : i \in 1..(curf - b - 1) \/ i = curf - b
    BY <1>8, <2>2
  <2>4. \A i \in 1..(p - b - 1) : f[b + i] = n[c + i]
    BY <1>3, <2>1, <2>2, <2>3
  <2> QED
    BY <2>2, <2>4
<1> HIDE DEF Same, Single, Multi
<1>12. Same \/ Single \/ Multi
  BY <1>9, <1>10, <1>11
<1> QED
  BY <1>0, <1>1, <1>2, <1>6, <1>7, <1>12 DEF At, Same, Single, Multi

\* A scan that comes to both ends has paired all the levels.
LEMMA EndsArePaired ==
  ASSUME TopicTypes, Orderly, NEW h, NEW b, At(h, b), Topic!IsTopicMatched
  PROVE  Topic!Pairs(topic_filter, topic_name, h)
<1> DEFINE f == topic_filter  n == topic_name  c == h[b]
<1>0. PICK d, e : d = Topic!EndOf(f, b) /\ e = Topic!EndOf(n, c)
  OBVIOUS
<1>1. /\ Len(f) \in Nat /\ Len(n) \in Nat
      /\ b \in 0..Len(f) /\ b \in Topic!Begins(f) /\ d = Len(f) + 1 /\ curf = Len(f) + 1
      /\ c \in 0..Len(n) /\ c \in Topic!Begins(n) /\ e \in (c + 1)..(Len(n) + 1)
      /\ curn = Len(n) + 1
  <2>1. /\ Len(f) \in Nat /\ Len(n) \in Nat
        /\ b \in 0..Len(f) /\ d \in (b + 1)..(Len(f) + 1) /\ curf <= d
        /\ c \in 0..Len(n) /\ c \in Topic!Begins(n) /\ e \in (c + 1)..(Len(n) + 1)
    BY <1>0, AtFacts
  <2>2. curf = Len(f) + 1 /\ curn = Len(n) + 1
    BY DEF Topic!IsTopicMatched
  <2> QED
    BY <2>1, <2>2 DEF At
<1>2. \/ Topic!Level(f, b) = <<"#">>
      \/ Topic!Fits(Topic!Level(f, b), Topic!Level(n, c)) /\ e = Len(n) + 1
  <2>1. CASE curn - c = curf - b /\ \A i \in 1..(curf - b - 1) : f[b + i] = n[c + i] /\ n[c + i] # "/"
    <3>1. curn - c - 1 = curf - b - 1 /\ c \in Int /\ curn \in Int /\ curn \in (c + 1)..(Len(n) + 1)
      BY <1>1, <2>1
    <3>2. \A j \in (c + 1)..(curn - 1) : n[j] # "/"
      <4>1. \A j \in (c + 1)..(curn - 1) : j - c \in 1..(curn - c - 1) /\ c + (j - c) = j
        BY <3>1
      <4> QED
        BY <2>1, <3>1, <4>1
    <3>3. e = curn
      BY <1>0, <1>1, <3>1, <3>2, EndIs DEF TopicTypes
    <3>4. /\ Topic!EndOf(f, b) - b = Topic!EndOf(n, c) - c
          /\ \A i \in 1..(Topic!EndOf(f, b) - b - 1) : f[b + i] = n[c + i]
      BY <1>0, <1>1, <2>1, <3>3
    <3>5. Topic!Level(f, b) = Topic!Level(n, c)
      BY <1>1, <3>4, SameLevel DEF TopicTypes
    <3> QED
      BY <1>1, <3>3, <3>5 DEF Topic!Fits
  <2>2. CASE Topic!Level(f, b) = <<"+">> /\ curn = e
    BY <1>1, <2>2 DEF Topic!Fits
  <2>3. \A x : x \notin {"/", "+", "#"} => x # "/"
    OBVIOUS
  <2>4. \/ curn - c = curf - b /\ \A i \in 1..(curf - b - 1) : f[b + i] = n[c + i] /\ n[c + i] \notin {"/", "+", "#"}
        \/ f[b + 1] = "+" /\ Topic!EndOf(f, b) = b + 2 /\ curn = e
        \/ f[b + 1] = "#" /\ Topic!EndOf(f, b) = b + 2
    BY <1>0, AtFacts
  <2>5. /\ Topic!Level(f, b) = <<"+">> <=> Topic!EndOf(f, b) = b + 2 /\ f[b + 1] = "+"
        /\ Topic!Level(f, b) = <<"#">> <=> Topic!EndOf(f, b) = b + 2 /\ f[b + 1] = "#"
    BY <1>1, ShortLevel DEF TopicTypes
  <2> QED
    BY <2>1, <2>2, <2>3, <2>4, <2>5
<1>3. ASSUME NEW x \in Topic!Begins(f), x # b
      PROVE  Paired(h, x) /\ ~Topic!IsLast(f, x)
  <2>1. /\ x \in 0..Len(f) /\ (x > b => d <= x)
        /\ Topic!EndOf(f, x) \in (x + 1)..(Len(f) + 1) /\ (b > x => Topic!EndOf(f, x) <= b)
    <3>1. x \in 0..Len(f) /\ (x > b => Topic!EndOf(f, b) <= x)
      BY <1>1, EndFacts DEF TopicTypes
    <3>2. Topic!EndOf(f, x) \in (x + 1)..(Len(f) + 1) /\ (b > x => Topic!EndOf(f, x) <= b)
      BY <1>1, EndFacts DEF TopicTypes
    <3> QED
      BY <1>0, <3>1, <3>2
  <2>2. x < b
    BY <1>1, <1>3, <2>1
  <2>3. Topic!EndOf(f, x) # Len(f) + 1
    BY <1>1, <2>1, <2>2
  <2> QED
    BY <2>2, <2>3 DEF At, Topic!IsLast
<1>4. Topic!IsLast(f, b) /\ (e = Len(n) + 1 => Topic!IsLast(n, c))
  BY <1>0, <1>1 DEF Topic!IsLast
<1>5. h[0] = 0
  BY DEF At
<1>6. ASSUME NEW x \in Topic!Begins(f)
      PROVE  \/ Topic!Level(f, x) = <<"#">>
             \/ /\ Topic!Fits(Topic!Level(f, x), Topic!Level(n, h[x]))
                /\ IF Topic!IsLast(f, x) THEN Topic!IsLast(n, h[x])
                   ELSE ~Topic!IsLast(n, h[x]) /\ h[Topic!EndOf(f, x)] = Topic!EndOf(n, h[x])
  <2>1. CASE x = b
    BY <1>2, <1>4, <2>1
  <2>2. CASE x # b
    BY <1>3, <2>2 DEF Paired
  <2> QED
    BY <2>1, <2>2
<1> QED
  BY <1>5, <1>6 DEF Topic!Pairs

\* A scan that stops before has met a level that does not fit.
LEMMA PairedIsScanned ==
  ASSUME TopicTypes, Orderly, NEW h, NEW b, At(h, b), Topic!Pairs(topic_filter, topic_name, h),
         ~Topic!HasEmptyLevel(topic_name), ~ (Topic!InLoop /\ Topic!Agree)
  PROVE  Topic!IsTopicMatched
<1> DEFINE f == topic_filter  n == topic_name  c == h[b]
<1>0. PICK d, e : d = Topic!EndOf(f, b) /\ e = Topic!EndOf(n, c)
  OBVIOUS
<1>1. /\ Len(f) \in Nat /\ Len(n) \in Nat
      /\ b \in 0..Len(f) /\ b \in Topic!Begins(f) /\ d \in (b + 1)..(Len(f) + 1)
      /\ b < curf /\ curf <= d /\ curf \in Int /\ curn \in Int
      /\ c \in 0..Len(n) /\ c \in Topic!Begins(n) /\ e \in (c + 1)..(Len(n) + 1)
      /\ d # Len(f) + 1 => f[d] = "/"
      /\ e # Len(n) + 1 => n[e] = "/"
      /\ \A i \in (c + 1)..(e - 1) : n[i] # "/"
  BY <1>0, AtFacts DEF At
<1> DEFINE Plain == /\ curn - c = curf - b
                    /\ \A i \in 1..(curf - b - 1) : f[b + i] = n[c + i] /\ n[c + i] \notin {"/", "+", "#"}
<1>2. \/ Plain
      \/ f[b + 1] = "+" /\ d = b + 2 /\ curf = d /\ curn = e
      \/ f[b + 1] = "#" /\ d = b + 2 /\ curf = d /\ d = Len(f) + 1 /\ curn = Len(n) + 1
  BY <1>0, AtFacts
<1>3. /\ \/ Topic!Level(f, b) = <<"#">>
         \/ /\ Topic!Level(f, b) = <<"+">> \/ Topic!Level(f, b) = Topic!Level(n, c)
            /\ d = Len(f) + 1 <=> e = Len(n) + 1
      /\ c + 1 # e
  <2>1. \/ Topic!Level(f, b) = <<"#">>
        \/ /\ Topic!Fits(Topic!Level(f, b), Topic!Level(n, c))
           /\ Topic!IsLast(f, b) <=> Topic!IsLast(n, c)
    BY <1>1 DEF Topic!Pairs
  <2>2. Topic!Level(n, c) # <<>>
    BY <1>1 DEF Topic!HasEmptyLevel
  <2>3. Topic!EndOf(n, c) # c + 1
    BY <1>1, <2>2, ShortLevel DEF TopicTypes
  <2> QED
    BY <1>0, <2>1, <2>3 DEF Topic!Fits, Topic!IsLast
<1>4. /\ Topic!Level(f, b) = <<"+">> => f[b + 1] = "+" /\ d = b + 2
      /\ Topic!Level(f, b) = <<"#">> => f[b + 1] = "#" /\ d = b + 2 /\ d = Len(f) + 1
      /\ Topic!Level(f, b) = Topic!Level(n, c) =>
             d - b = e - c /\ \A i \in 1..(d - b - 1) : f[b + i] = n[c + i]
  <2>1. /\ Topic!Level(f, b) = <<"+">> => f[b + 1] = "+" /\ d = b + 2
        /\ Topic!Level(f, b) = <<"#">> => f[b + 1] = "#" /\ d = b + 2
    BY <1>0, <1>1, ShortLevel DEF TopicTypes
  <2>2. ASSUME f[b + 1] = "#", d = b + 2 PROVE d = Len(f) + 1
    <3>1. b \in Topic!Begins(f) /\ b + 1 \in (b + 1)..(Topic!EndOf(f, b) - 1)
      BY <1>0, <1>1, <2>2
    <3>2. Topic!EndOf(f, b) = Len(f) + 1
      BY <2>2, <3>1, WildcardLevel
    <3> QED
      BY <1>0, <3>2
  <2>3. Topic!Level(f, b) = Topic!Level(n, c) =>
             d - b = e - c /\ \A i \in 1..(d - b - 1) : f[b + i] = n[c + i]
    <3>1. Topic!Level(f, b) = Topic!Level(n, c) =>
             /\ Topic!EndOf(f, b) - b = Topic!EndOf(n, c) - c
             /\ \A i \in 1..(Topic!EndOf(f, b) - b - 1) : f[b + i] = n[c + i]
      BY <1>1, SameLevel DEF TopicTypes
    <3> QED
      BY <1>0, <3>1
  <2> QED
    BY <2>1, <2>2, <2>3
<1>5. curf <= Len(f) /\ curn <= Len(n) => ~ (n[curn] = "/" => f[curf] = "/") \/ f[curf] \notin {"+", "#", n[curn]}
  BY DEF Topic!InLoop, Topic!Agree
<1> HIDE DEF Plain
<1>6. ASSUME curf = d PROVE curn = e \/ (curn = Len(n) + 1 /\ d = Len(f) + 1)
  <2>1. CASE Plain
    <3>1. ASSUME d = b + 2 PROVE f[b + 1] \notin {"/", "+", "#"}
      <4>1. 1 \in 1..(curf - b - 1)
        BY <1>1, <1>6, <3>1
      <4> QED
        BY <2>1, <4>1 DEF Plain
    <3>2. d - b = e - c
      BY <1>3, <1>4, <3>1
    <3>3. curn - c = e - c /\ curn \in Int /\ c \in Int /\ e \in Int
      BY <1>1, <1>6, <2>1, <3>2 DEF Plain
    <3> QED
      BY <3>3
  <2> QED
    BY <1>2, <2>1
<1>7. CASE curf = Len(f) + 1
  <2>1. curf = d
    BY <1>1, <1>7
  <2>2. curn = Len(n) + 1
    <3>1. CASE Topic!Level(f, b) = <<"#">>
      <4>1. f[b + 1] = "#" /\ d = b + 2 /\ curf = b + 2
        BY <1>4, <2>1, <3>1
      <4>2. ASSUME Plain PROVE FALSE
        <5>1. 1 \in 1..(curf - b - 1)
          BY <1>1, <4>1
        <5> QED
          BY <4>1, <4>2, <5>1 DEF Plain
      <4> QED
        BY <1>2, <4>1, <4>2
    <3>2. CASE Topic!Level(f, b) # <<"#">>
      BY <1>3, <1>6, <1>7, <2>1, <3>2
    <3> QED
      BY <3>1, <3>2
  <2> QED
    BY <1>7, <2>2 DEF Topic!IsTopicMatched
<1>8. CASE curf # Len(f) + 1 /\ curf = d
  <2>1. Topic!Level(f, b) # <<"#">> /\ e # Len(n) + 1
    BY <1>3, <1>4, <1>8
  <2>2. curn = e
    BY <1>6, <1>8
  <2>3. curf <= Len(f) /\ curn <= Len(n)
    BY <1>1, <1>8, <2>1, <2>2
  <2>4. n[curn] = "/" /\ f[curf] = "/"
    BY <1>1, <1>8, <2>1, <2>2
  <2> QED
    BY <1>5, <2>3, <2>4
<1>9. CASE curf # d
  <2>1. curn - c = curf - b /\ curf <= Len(f)
    BY <1>1, <1>2, <1>9 DEF Plain
  <2>2. CASE f[b + 1] \in {"+", "#"} /\ d = b + 2
    <3>1. curf = b + 1
      BY <1>1, <1>9, <2>2
    <3>2. curn = c + 1
      BY <1>1, <2>1, <3>1
    <3>3. curn \in (c + 1)..(e - 1) /\ curn <= Len(n)
      BY <1>1, <1>3, <3>2
    <3>4. n[curn] # "/" /\ f[curf] \in {"+", "#"}
      BY <1>1, <2>2, <3>1, <3>3
    <3> QED
      BY <1>5, <2>1, <3>3, <3>4
  <2>3. CASE d - b = e - c /\ \A i \in 1..(d - b - 1) : f[b + i] = n[c + i]
    <3>1. /\ curf - b \in 1..(d - b - 1) /\ b + (curf - b) = curf /\ c + (curf - b) = curn
          /\ curn \in (c + 1)..(e - 1) /\ curn <= Len(n)
      <4>1. curf \in Int /\ curn \in Int /\ b \in Int /\ c \in Int /\ d \in Int /\ e \in Int
        BY <1>1
      <4>2. b < curf /\ curf < d /\ curn - c = curf - b /\ d - b = e - c /\ e <= Len(n) + 1
        BY <1>1, <1>9, <2>1, <2>3, <4>1
      <4>3. curn < e /\ c < curn
        BY <4>1, <4>2
      <4>4. Len(n) \in Int
        BY <1>1
      <4> QED
        BY <4>1, <4>2, <4>3, <4>4
    <3>2. f[curf] = n[curn] /\ n[curn] # "/"
      BY <1>1, <2>3, <3>1
    <3> QED
      BY <1>5, <2>1, <3>1, <3>2
  <2> QED
    BY <1>3, <1>4, <2>2, <2>3
<1> QED
  BY <1>7, <1>8, <1>9

\* What holds of every call.
TopicInvariant ==
  /\ TopicTypes
  /\ scan # "idle" /\ Orderly =>
         /\ \E h, b : At(h, b)
         /\ \A h \in [Topic!Begins(topic_filter) -> Topic!Begins(topic_name)] :
                Topic!Pairs(topic_filter, topic_name, h) => \E b : At(h, b)
  /\ scan = "returned" => ~ (Topic!InLoop /\ Topic!Agree)

LEMMA TopicTypesStep ==
  ASSUME TopicTypes, [Topic!Next]_topicVars
  PROVE  TopicTypes'
<1>1. CASE Topic!Call
  <2>1. topic_filter' \in Texts /\ topic_name' \in Texts
    BY <1>1, TopicAssumption DEF Topic!Call, Texts
  <2>2. Len(topic_filter)' \in Nat /\ Len(topic_name)' \in Nat
    BY <2>1, LenProperties DEF Texts
  <2> QED
    BY <1>1, <2>1, <2>2 DEF Topic!Call, TopicTypes
<1>2. CASE Topic!Step
  <2>1. Topic!InLoop /\ Topic!After(curn) \in (curn + 1)..(Len(topic_name) + 1)
    BY <1>2, AfterFacts DEF Topic!Step
  <2>2. Len(topic_filter) \in Nat /\ Len(topic_name) \in Nat
    BY LenProperties DEF TopicTypes, Texts
  <2>3. curf + 1 \in 1..(Len(topic_filter) + 1) /\ Topic!After(curn) \in 1..(Len(topic_name) + 1)
    BY <2>1, <2>2 DEF TopicTypes, Topic!InLoop
  <2> QED
    BY <1>2, <2>3 DEF Topic!Step, TopicTypes
<1>3. CASE Topic!Stop
  BY <1>3 DEF Topic!Stop, TopicTypes
<1>4. CASE UNCHANGED topicVars
  BY <1>4 DEF topicVars, TopicTypes
<1> QED
  BY <1>1, <1>2, <1>3, <1>4 DEF Topic!Next

\* A call starts in the first levels.
LEMMA CallIsAt ==
  ASSUME TopicTypes', Topic!Call,
         NEW h \in [Topic!Begins(topic_filter') -> Topic!Begins(topic_name')], h[0] = 0
  PROVE  At(h, 0)'
<1>1. PICK f, n : f = topic_filter' /\ n = topic_name'
  OBVIOUS
<1>2. f \in Texts /\ n \in Texts /\ curf' = 1 /\ curn' = 1
  BY <1>1 DEF TopicTypes, Topic!Call
<1>3. 0 \in Topic!Begins(f) /\ Topic!Begins(f) \subseteq Nat
  <2>1. 0 \in Topic!Begins(f)
    BY DEF Topic!Begins
  <2>2. Len(f) \in Nat /\ Topic!Begins(f) \subseteq 0..Len(f)
    BY <1>2, <2>1, EndFacts
  <2> QED
    BY <2>1, <2>2
<1>4. Topic!EndOf(f, 0) >= 1
  <2>1. Topic!EndOf(f, 0) \in (0 + 1)..(Len(f) + 1) /\ Len(f) \in Nat
    BY <1>2, <1>3, EndFacts
  <2> QED
    BY <2>1
<1>5. 1..(1 - 0 - 1) = {} /\ 1 - 0 = 1 /\ \A x \in Topic!Begins(f) : ~ (x < 0)
  BY <1>3
<1>6. curn' - h[0] = curf' - 0
  BY <1>2
<1>7. 0 < curf' /\ curf' <= Topic!EndOf(f, 0)
  <2>1. Topic!EndOf(f, 0) \in Int
    BY <1>2, <1>3, EndFacts
  <2> QED
    BY <1>2, <1>4, <2>1
<1>8. \A i \in 1..(curf' - 0 - 1) : f[0 + i] = n[h[0] + i]
  BY <1>2, <1>5
<1> QED
  BY <1>1, <1>3, <1>5, <1>6, <1>7, <1>8 DEF At

LEMMA StepKeepsAt ==
  ASSUME TopicTypes, Orderly, Topic!Step, NEW h, NEW b, At(h, b)
  PROVE  \E h2, b2 : At(h2, b2)' /\ (Topic!Pairs(topic_filter, topic_name, h) => h2 = h)
BY StepOverSlash, StepInLevel

LEMMA TopicInvariantStep ==
  ASSUME TopicInvariant, [Topic!Next]_topicVars
  PROVE  TopicInvariant'
<1>1. TopicTypes /\ TopicTypes'
  BY TopicTypesStep DEF TopicInvariant
<1>2. CASE Topic!Call
  <2>1. PICK f, n : f = topic_filter' /\ n = topic_name'
    OBVIOUS
  <2>2. PICK h : h = [x \in Topic!Begins(f) |-> 0]
    OBVIOUS
  <2>3. h \in [Topic!Begins(f) -> Topic!Begins(n)] /\ h[0] = 0
    <3>1. 0 \in Topic!Begins(f) /\ 0 \in Topic!Begins(n)
      BY DEF Topic!Begins
    <3> QED
      BY <2>2, <3>1
  <2>4. At(h, 0)'
    BY <1>1, <1>2, <2>1, <2>3, CallIsAt
  <2>5. ASSUME NEW g \in [Topic!Begins(f) -> Topic!Begins(n)], Topic!Pairs(f, n, g)
        PROVE  At(g, 0)'
    <3>1. g[0] = 0
      BY <2>5 DEF Topic!Pairs
    <3> QED
      BY <1>1, <1>2, <2>1, <3>1, CallIsAt
  <2>6. scan' = "loop"
    BY <1>2 DEF Topic!Call
  <2> QED
    BY <1>1, <2>1, <2>4, <2>5, <2>6 DEF TopicInvariant
<1>3. CASE Topic!Step
  <2>1. scan = "loop" /\ scan' = "loop" /\ topic_filter' = topic_filter /\ topic_name' = topic_name
    BY <1>3 DEF Topic!Step
  <2>2. SUFFICES ASSUME Orderly'
                 PROVE  /\ \E h, b : At(h, b)'
                        /\ \A h \in [Topic!Begins(topic_filter) -> Topic!Begins(topic_name)] :
                               Topic!Pairs(topic_filter, topic_name, h) => \E b : At(h, b)'
    BY <1>1, <2>1 DEF TopicInvariant
  <2>3. Orderly
    BY <2>1, <2>2 DEF Orderly
  <2>4. \E h, b : At(h, b)'
    BY <1>1, <1>3, <2>1, <2>3, StepKeepsAt DEF TopicInvariant
  <2>5. ASSUME NEW h \in [Topic!Begins(topic_filter) -> Topic!Begins(topic_name)],
               Topic!Pairs(topic_filter, topic_name, h)
        PROVE  \E b : At(h, b)'
    <3>1. PICK b : At(h, b)
      BY <2>1, <2>3, <2>5 DEF TopicInvariant
    <3> QED
      BY <1>1, <1>3, <2>3, <2>5, <3>1, StepKeepsAt
  <2> QED
    BY <2>4, <2>5
<1>4. CASE Topic!Stop
  <2>1. /\ scan = "loop" /\ topic_filter' = topic_filter /\ topic_name' = topic_name
        /\ curf' = curf /\ curn' = curn /\ ~ (Topic!InLoop /\ Topic!Agree)
    BY <1>4 DEF Topic!Stop
  <2>2. \A h, b : At(h, b) => At(h, b)'
    BY <2>1 DEF At, Paired
  <2>3. Orderly' => Orderly
    BY <2>1 DEF Orderly
  <2>4. ~ (Topic!InLoop /\ Topic!Agree)'
    BY <2>1 DEF Topic!InLoop, Topic!Agree
  <2> QED
    BY <1>1, <2>1, <2>2, <2>3, <2>4 DEF TopicInvariant
<1>5. CASE UNCHANGED topicVars
  <2>1. \A h, b : At(h, b) => At(h, b)'
    BY <1>5 DEF At, Paired, topicVars
  <2>2. Orderly' => Orderly
    BY <1>5 DEF Orderly, topicVars
  <2>3. (Topic!InLoop /\ Topic!Agree)' => (Topic!InLoop /\ Topic!Agree)
    BY <1>5 DEF Topic!InLoop, Topic!Agree, topicVars
  <2>4. scan' = scan /\ topic_filter' = topic_filter /\ topic_name' = topic_name
    BY <1>5 DEF topicVars
  <2> QED
    BY <1>1, <2>1, <2>2, <2>3, <2>4 DEF TopicInvariant
<1> QED
  BY <1>2, <1>3, <1>4, <1>5 DEF Topic!Next

LEMMA TopicInvariantTells ==
  ASSUME TopicInvariant
  PROVE  TopicMatchAgrees
<1>1. SUFFICES ASSUME scan = "returned", Orderly
               PROVE  /\ Topic!IsTopicMatched => Topic!Matches(topic_filter, topic_name)
                      /\ Topic!Matches(topic_filter, topic_name) =>
                             Topic!IsTopicMatched \/ Topic!HasEmptyLevel(topic_name)
  BY DEF TopicMatchAgrees, Topic!MatchIsRight, Orderly
<1>2. TopicTypes /\ ~ (Topic!InLoop /\ Topic!Agree)
  BY <1>1 DEF TopicInvariant
<1>3. ASSUME Topic!IsTopicMatched PROVE Topic!Matches(topic_filter, topic_name)
  <2>1. PICK h, b : At(h, b)
    BY <1>1 DEF TopicInvariant
  <2>2. Topic!Pairs(topic_filter, topic_name, h)
    BY <1>1, <1>2, <1>3, <2>1, EndsArePaired
  <2> QED
    BY <2>1, <2>2 DEF At, Topic!Matches
<1>4. ASSUME Topic!Matches(topic_filter, topic_name), ~Topic!HasEmptyLevel(topic_name)
      PROVE  Topic!IsTopicMatched
  <2>1. PICK h \in [Topic!Begins(topic_filter) -> Topic!Begins(topic_name)] :
                Topic!Pairs(topic_filter, topic_name, h)
    BY <1>4 DEF Topic!Matches
  <2>2. PICK b : At(h, b)
    BY <1>1, <2>1 DEF TopicInvariant
  <2> QED
    BY <1>1, <1>2, <1>4, <2>1, <2>2, PairedIsScanned
<1> QED
  BY <1>3, <1>4

\* Of every filter and every topic that _is_topic_matched is called with: a well-formed
\* filter is found to match a topic only if their levels pair up, and always if they do and
\* the topic has no empty level.
THEOREM TopicsAreMatched ==
  Topic!Spec => []TopicMatchAgrees
<1>1. ASSUME Topic!Init PROVE TopicInvariant
  <2>1. <<>> \in Texts /\ Len(<<>>) = 0
    BY DEF Texts
  <2> QED
    BY <1>1, <2>1 DEF Topic!Init, TopicInvariant, TopicTypes
<1>2. TopicInvariant /\ [Topic!Next]_Topic!topicVars => TopicInvariant'
  BY TopicInvariantStep DEF topicVars, Topic!topicVars
<1>3. TopicInvariant => TopicMatchAgrees
  BY TopicInvariantTells
<1> QED
  BY <1>1, <1>2, <1>3, PTL DEF Topic!Spec

-------------------------------------------------------------------------------
(* The packet codec: what is written is read back. *)

Codec == INSTANCE MqttPacket

\* The greatest length that MQTT 3.1.1 writes in four bytes.
MaxLength == 268435455

\* The bytes a length is written in.
BytesOfLength(n) ==
    IF n < 128 THEN <<n>>
    ELSE IF n < 16384 THEN <<128 + (n % 128), n \div 128>>
    ELSE IF n < 2097152 THEN <<128 + (n % 128), 128 + ((n \div 128) % 128), n \div 16384>>
    ELSE <<128 + (n % 128), 128 + ((n \div 128) % 128), 128 + ((n \div 16384) % 128), n \div 2097152>>

LEMMA WeightsAre ==
  /\ DOMAIN Codec!Weight = 1..5
  /\ Codec!Weight[1] = 1 /\ Codec!Weight[2] = 128 /\ Codec!Weight[3] = 16384
  /\ Codec!Weight[4] = 2097152 /\ Codec!Weight[5] = 268435456
BY SMT DEF Codec!Weight

LEMMA SevenBitsAtATime ==
  ASSUME NEW n \in Nat
  PROVE  /\ n \div 1 = n
         /\ n \div 128 \in Nat /\ n \div 16384 \in Nat /\ n \div 2097152 \in Nat /\ n \div 268435456 \in Nat
         /\ n \div 128 < 128 <=> n < 16384
         /\ n \div 16384 < 128 <=> n < 2097152
         /\ n \div 2097152 < 128 <=> n < 268435456
         /\ (n % 128) + 128 * (n \div 128) = n
         /\ (n % 128) + 128 * ((n \div 128) % 128) + 16384 * (n \div 16384) = n
         /\ (n % 128) + 128 * ((n \div 128) % 128)
                + 16384 * ((n \div 16384) % 128) + 2097152 * (n \div 2097152) = n
         /\ n % 128 \in 0..127 /\ (n \div 128) % 128 \in 0..127 /\ (n \div 16384) % 128 \in 0..127
BY SMT

\* How many bytes RemainingLength takes.
Counted(n, k) == /\ n \div Codec!Weight[k] < 128
                 /\ \A j \in 1..(k - 1) : n \div Codec!Weight[j] >= 128
CountOf(n)    == CHOOSE k \in DOMAIN Codec!Weight : Counted(n, k)

LEMMA RemainingLengthIs ==
  ASSUME NEW n
  PROVE  Codec!RemainingLength(n)
           = [k \in 1..CountOf(n) |-> IF k < CountOf(n) THEN 128 + ((n \div Codec!Weight[k]) % 128)
                             ELSE n \div Codec!Weight[k]]
BY Zenon DEF Codec!RemainingLength, Codec!MoreFollow, Counted, CountOf

LEMMA TuplesAre ==
  /\ \A f : f = [k \in 1..2 |-> f[k]] => f = <<f[1], f[2]>>
  /\ \A f : f = [k \in 1..3 |-> f[k]] => f = <<f[1], f[2], f[3]>>
  /\ \A f : f = [k \in 1..4 |-> f[k]] => f = <<f[1], f[2], f[3], f[4]>>
OBVIOUS

LEMMA LengthIsWritten ==
  ASSUME NEW n \in Nat, n <= MaxLength
  PROVE  Codec!RemainingLength(n) = BytesOfLength(n)
<1> DEFINE Left(k) == n \div Codec!Weight[k]
           C == IF n < 128 THEN 1 ELSE IF n < 16384 THEN 2 ELSE IF n < 2097152 THEN 3 ELSE 4
<1>1. /\ Left(1) = n /\ Left(2) = n \div 128 /\ Left(3) = n \div 16384 /\ Left(4) = n \div 2097152
      /\ Left(5) = n \div 268435456
  BY SMT, WeightsAre, SevenBitsAtATime
<1>2. \A k \in 1..5 : Left(k) \in Nat
  BY SMT, <1>1, SevenBitsAtATime
<1>3. C \in 1..4 /\ Counted(n, C)
  BY SMT, <1>1, <1>2, SevenBitsAtATime DEF Counted, MaxLength
<1>4. \A k \in 1..5 : Counted(n, k) => k = C
  <2> HIDE DEF C
  <2> QED
    BY SMT, <1>2, <1>3 DEF Counted
<1>5. CountOf(n) = C
  <2> HIDE DEF C
  <2> QED
    BY SMT, <1>3, <1>4, WeightsAre DEF CountOf
<1> DEFINE F == Codec!RemainingLength(n)
<1>6. F = [k \in 1..C |-> IF k < C THEN 128 + (Left(k) % 128) ELSE Left(k)]
  <2> HIDE DEF C
  <2> QED
    BY SMT, <1>5, RemainingLengthIs
<1>7. /\ F = [k \in 1..C |-> F[k]]
      /\ \A k \in 1..C : F[k] = IF k < C THEN 128 + (Left(k) % 128) ELSE Left(k)
  <2> HIDE DEF C, F
  <2> QED
    BY SMT, <1>6
<1>8. BytesOfLength(n) =
        IF C = 1 THEN <<n>>
        ELSE IF C = 2 THEN <<128 + (n % 128), n \div 128>>
        ELSE IF C = 3 THEN <<128 + (n % 128), 128 + ((n \div 128) % 128), n \div 16384>>
        ELSE <<128 + (n % 128), 128 + ((n \div 128) % 128), 128 + ((n \div 16384) % 128), n \div 2097152>>
  BY SMT DEF BytesOfLength
<1> HIDE DEF C, F, Left
<1>9. CASE C = 1
  <2>1. F = [k \in 1..1 |-> n]
    BY SMT, <1>1, <1>6, <1>9
  <2> QED
    BY SMT, <2>1, <1>8, <1>9 DEF F
<1>10. CASE C = 2
  <2>1. F[1] = 128 + (n % 128) /\ F[2] = n \div 128
    BY SMT, <1>1, <1>7, <1>10
  <2>2. F = <<F[1], F[2]>>
    BY SMT, <1>7, <1>10, TuplesAre
  <2> QED
    BY SMT, <2>1, <2>2, <1>8, <1>10 DEF F
<1>11. CASE C = 3
  <2>1. F[1] = 128 + (n % 128) /\ F[2] = 128 + ((n \div 128) % 128) /\ F[3] = n \div 16384
    BY SMT, <1>1, <1>7, <1>11
  <2>2. F = <<F[1], F[2], F[3]>>
    BY SMT, <1>7, <1>11, TuplesAre
  <2> QED
    BY SMT, <2>1, <2>2, <1>8, <1>11 DEF F
<1>12. CASE C = 4
  <2>1. /\ F[1] = 128 + (n % 128) /\ F[2] = 128 + ((n \div 128) % 128)
        /\ F[3] = 128 + ((n \div 16384) % 128) /\ F[4] = n \div 2097152
    BY SMT, <1>1, <1>7, <1>12
  <2>2. F = <<F[1], F[2], F[3], F[4]>>
    BY SMT, <1>7, <1>12, TuplesAre
  <2> QED
    BY SMT, <2>1, <2>2, <1>8, <1>12 DEF F
<1> QED
  BY SMT, <1>3, <1>9, <1>10, <1>11, <1>12 DEF F

\* What the bytes of a length add up to, read from buf.
LEMMA AddedIs ==
  ASSUME NEW buf
  PROVE  /\ Codec!Added(buf, 1) = (buf[2] % 128) * 1 + 0 + 0 + 0
         /\ Codec!Added(buf, 2) = (buf[2] % 128) * 1 + (buf[3] % 128) * 128 + 0 + 0
         /\ Codec!Added(buf, 3) = (buf[2] % 128) * 1 + (buf[3] % 128) * 128 + (buf[4] % 128) * 16384 + 0
         /\ Codec!Added(buf, 4) = (buf[2] % 128) * 1 + (buf[3] % 128) * 128 + (buf[4] % 128) * 16384
                                     + (buf[5] % 128) * 2097152
BY SMT, WeightsAre DEF Codec!Added

LEMMA SevenBits ==
  \A m \in 0..127 : (128 + m) % 128 = m /\ m % 128 = m
OBVIOUS

LEMMA DecodedWhenComplete ==
  ASSUME NEW buf, NEW size, NEW c \in 1..4,
         buf[1 + c] \in Nat, buf[1 + c] < 128, \A k \in 1..(c - 1) : ~(buf[1 + k] < 128) /\ buf[1 + k] >= 128,
         \A k \in 1..c : ~(size < k + 1 + Codec!Added(buf, k))
  PROVE  Codec!DecodeLength(buf, size)
      = [rc |-> Codec!Ok, count |-> c, value |-> Codec!Added(buf, c)]
<1> DEFINE last  == {k \in 1..Codec!MaxLengthBytes : buf[1 + k] < 128
    /\ \A j \in 1..(k - 1) : buf[1 + j] >= 128}
           count == IF last = {} THEN Codec!MaxLengthBytes ELSE CHOOSE k \in last : TRUE
<1>1. c \in last
  BY DEF Codec!MaxLengthBytes
<1>2. last \subseteq {c}
  BY DEF Codec!MaxLengthBytes
<1>3. last # {} /\ count = c
  <2> HIDE DEF last
  <2> QED
    BY <1>1, <1>2
<1>4. Codec!DecodeLength(buf, size) =
        IF \E k \in 1..count : size < k + 1 + Codec!Added(buf, k) THEN Codec!Failed(Codec!ShortBuffer)
        ELSE IF last = {} THEN Codec!Failed(Codec!InvalidPacketType)
        ELSE [rc |-> Codec!Ok, count |-> count, value |-> Codec!Added(buf, count)]
  BY DEF Codec!DecodeLength
<1> HIDE DEF last, count
<1> QED
  BY <1>3, <1>4

LEMMA LengthIsDecoded ==
  ASSUME NEW n \in Nat, n <= MaxLength, NEW buf, NEW size \in Nat,
         \A k \in 1..Len(BytesOfLength(n)) : buf[1 + k] = BytesOfLength(n)[k],
         size >= n + 1 + Len(BytesOfLength(n))
  PROVE  Codec!DecodeLength(buf, size)
      = [rc |-> Codec!Ok, count |-> Len(BytesOfLength(n)), value |-> n]
<1> DEFINE a == n % 128
           b == (n \div 128) % 128
           c == (n \div 16384) % 128
           top == IF n < 128 THEN n ELSE IF n < 16384 THEN n \div 128 ELSE IF n < 2097152 THEN n \div 16384
                  ELSE n \div 2097152
           B == BytesOfLength(n)
<1>1. top \in Nat /\ top < 128
  BY SMT, SevenBitsAtATime DEF MaxLength
<1>2. a \in 0..127 /\ b \in 0..127 /\ c \in 0..127
  BY SMT, SevenBitsAtATime
<1>3. \/ B = <<top>> /\ n = top
      \/ B = <<128 + a, top>> /\ n = a + 128 * top
      \/ B = <<128 + a, 128 + b, top>> /\ n = a + 128 * b + 16384 * top
      \/ B = <<128 + a, 128 + b, 128 + c, top>> /\ n = a + 128 * b + 16384 * c + 2097152 * top
  <2>1. CASE n < 128
    BY SMT, <2>1 DEF BytesOfLength
  <2>2. CASE ~(n < 128) /\ n < 16384
    BY SMT, <2>2, SevenBitsAtATime DEF BytesOfLength
  <2>3. CASE ~(n < 128) /\ ~(n < 16384) /\ n < 2097152
    BY SMT, <2>3, SevenBitsAtATime DEF BytesOfLength
  <2>4. CASE ~(n < 128) /\ ~(n < 16384) /\ ~(n < 2097152)
    BY SMT, <2>4, SevenBitsAtATime DEF BytesOfLength
  <2> QED
    BY SMT, <2>1, <2>2, <2>3, <2>4
<1>4. (\A k \in 1..Len(B) : buf[1 + k] = B[k]) /\ size >= n + 1 + Len(B)
  OBVIOUS
<1> HIDE DEF a, b, c, top, B
<1>5. top \in 0..127
  BY <1>1
<1>6. /\ (128 + a) % 128 = a /\ (128 + b) % 128 = b /\ (128 + c) % 128 = c /\ top % 128 = top
      /\ ~(128 + a < 128) /\ 128 + a >= 128 /\ ~(128 + b < 128) /\ 128 + b >= 128
      /\ ~(128 + c < 128) /\ 128 + c >= 128
  BY <1>2, <1>5, SevenBits
<1> DEFINE Shaped(C) == Codec!DecodeLength(buf, size)
    = [rc |-> Codec!Ok, count |-> C, value |-> Codec!Added(buf, C)]
<1>7. CASE B = <<top>> /\ n = top
  <2>1. Len(B) = 1 /\ buf[2] = top
    BY <1>4, <1>7
  <2>2. Codec!Added(buf, 1) = n
    BY SMT, <1>5, <1>6, <1>7, <2>1, AddedIs
  <2>3. Shaped(1)
    BY SMT, <1>1, <1>4, <2>1, <2>2, DecodedWhenComplete
  <2> QED
    BY <2>1, <2>2, <2>3 DEF B
<1>8. CASE B = <<128 + a, top>> /\ n = a + 128 * top
  <2>1. Len(B) = 2 /\ buf[2] = 128 + a /\ buf[3] = top
    BY <1>4, <1>8
  <2>2. Codec!Added(buf, 1) = a /\ Codec!Added(buf, 2) = n
    <3>1. buf[2] % 128 = a /\ buf[3] % 128 = top
      BY SMT, <1>6, <2>1
    <3>2. a \in Nat /\ top \in Nat
      BY SMT, <1>1, <1>2
    <3>3. Codec!Added(buf, 1) = a * 1 + 0 + 0 + 0
      BY SMT, <3>1, AddedIs
    <3>4. Codec!Added(buf, 2) = a * 1 + top * 128 + 0 + 0
      BY SMT, <3>1, AddedIs
    <3> QED
      BY SMT, <1>8, <3>2, <3>3, <3>4
  <2>3. \A k \in 1..1 : ~(buf[1 + k] < 128) /\ buf[1 + k] >= 128
    BY SMT, <1>6, <2>1
  <2>4. \A k \in 1..2 : ~(size < k + 1 + Codec!Added(buf, k))
    BY SMT, <1>2, <1>4, <1>5, <1>8, <2>1, <2>2
  <2>5. Shaped(2)
    BY SMT, <1>1, <2>1, <2>3, <2>4, DecodedWhenComplete
  <2> QED
    BY <2>1, <2>2, <2>5 DEF B
<1>9. CASE B = <<128 + a, 128 + b, top>> /\ n = a + 128 * b + 16384 * top
  <2>1. Len(B) = 3 /\ buf[2] = 128 + a /\ buf[3] = 128 + b /\ buf[4] = top
    BY SMT, <1>4, <1>9
  <2>2. /\ Codec!Added(buf, 1) = a /\ Codec!Added(buf, 2) = a + 128 * b
        /\ Codec!Added(buf, 3) = n
    <3>1. buf[2] % 128 = a /\ buf[3] % 128 = b /\ buf[4] % 128 = top
      BY SMT, <1>6, <2>1
    <3> QED
      BY SMT, <1>2, <1>5, <1>9, <3>1, AddedIs
  <2>3. \A k \in 1..2 : ~(buf[1 + k] < 128) /\ buf[1 + k] >= 128
    BY SMT, <1>6, <2>1
  <2>4. \A k \in 1..3 : ~(size < k + 1 + Codec!Added(buf, k))
    BY SMT, <1>2, <1>4, <1>5, <1>9, <2>1, <2>2
  <2>5. Shaped(3)
    BY SMT, <1>1, <2>1, <2>3, <2>4, DecodedWhenComplete
  <2> QED
    BY SMT, <2>1, <2>2, <2>5 DEF B
<1>10. CASE B = <<128 + a, 128 + b, 128 + c, top>> /\ n = a + 128 * b + 16384 * c + 2097152 * top
  <2>1. Len(B) = 4 /\ buf[2] = 128 + a /\ buf[3] = 128 + b /\ buf[4] = 128 + c /\ buf[5] = top
    BY SMT, <1>4, <1>10
  <2>2. /\ Codec!Added(buf, 1) = a /\ Codec!Added(buf, 2) = a + 128 * b
        /\ Codec!Added(buf, 3) = a + 128 * b + 16384 * c
        /\ Codec!Added(buf, 4) = n
    <3>1. buf[2] % 128 = a /\ buf[3] % 128 = b /\ buf[4] % 128 = c /\ buf[5] % 128 = top
      BY SMT, <1>6, <2>1
    <3>2. a \in Nat /\ b \in Nat /\ c \in Nat /\ top \in Nat
      BY SMT, <1>1, <1>2
    <3>3. Codec!Added(buf, 1) = a * 1 + 0 + 0 + 0
      BY SMT, <3>1, AddedIs
    <3>4. Codec!Added(buf, 2) = a * 1 + b * 128 + 0 + 0
      BY SMT, <3>1, AddedIs
    <3>5. Codec!Added(buf, 3) = a * 1 + b * 128 + c * 16384 + 0
      BY SMT, <3>1, AddedIs
    <3>6. Codec!Added(buf, 4) = a * 1 + b * 128 + c * 16384 + top * 2097152
      BY SMT, <3>1, AddedIs
    <3>7. Codec!Added(buf, 1) = a /\ Codec!Added(buf, 2) = a + 128 * b
      BY SMT, <3>2, <3>3, <3>4
    <3>8. Codec!Added(buf, 3) = a + 128 * b + 16384 * c
      BY SMT, <3>2, <3>5
    <3>9. Codec!Added(buf, 4) = n
      BY SMT, <1>10, <3>2, <3>6
    <3> QED
      BY SMT, <3>7, <3>8, <3>9
  <2>3. \A k \in 1..3 : ~(buf[1 + k] < 128) /\ buf[1 + k] >= 128
    BY SMT, <1>6, <2>1
  <2>4. \A k \in 1..4 : ~(size < k + 1 + Codec!Added(buf, k))
    <3>1. a \in Nat /\ b \in Nat /\ c \in Nat /\ top \in Nat
      BY SMT, <1>1, <1>2
    <3> DEFINE rest == 16384 * c + 2097152 * top
               last == 2097152 * top
    <3>2. n = a + 128 * b + rest /\ n = a + 128 * b + 16384 * c + last /\ rest \in Nat /\ last \in Nat
      BY SMT, <1>10, <3>1
    <3> HIDE DEF rest, last
    <3> QED
      BY SMT, <1>4, <2>1, <2>2, <3>1, <3>2
  <2>5. Shaped(4)
    BY SMT, <1>1, <2>1, <2>3, <2>4, DecodedWhenComplete
  <2> QED
    BY SMT, <2>1, <2>2, <2>5 DEF B
<1> QED
  BY SMT, <1>3, <1>7, <1>8, <1>9, <1>10

LEMMA BytesOfLengthAre ==
  ASSUME NEW n \in Nat, n <= MaxLength
  PROVE  /\ BytesOfLength(n) \in Seq(Codec!Byte) /\ Len(BytesOfLength(n)) \in 1..4
         /\ Len(BytesOfLength(n)) = IF n < 128 THEN 1 ELSE IF n < 16384 THEN 2 ELSE IF n < 2097152 THEN 3 ELSE 4
         /\ \A i \in 1..Len(BytesOfLength(n)) : BytesOfLength(n)[i] >= 128 <=> i < Len(BytesOfLength(n))
<1> DEFINE B(m) == m \in 0..127 => m \in Codec!Byte /\ 128 + m \in Codec!Byte /\ ~(m >= 128) /\ 128 + m >= 128
<1>1. \A m : B(m)
  BY DEF Codec!Byte
<1> DEFINE a == n % 128
           b == (n \div 128) % 128
           c == (n \div 16384) % 128
           top == IF n < 128 THEN n ELSE IF n < 16384 THEN n \div 128 ELSE IF n < 2097152 THEN n \div 16384
                  ELSE n \div 2097152
<1>2. a \in 0..127 /\ b \in 0..127 /\ c \in 0..127
  BY SMT, SevenBitsAtATime
<1>3. top \in Nat /\ top < 128
  BY SMT, SevenBitsAtATime DEF MaxLength
<1>4. BytesOfLength(n) = IF n < 128 THEN <<top>> ELSE IF n < 16384 THEN <<128 + a, top>>
                       ELSE IF n < 2097152 THEN <<128 + a, 128 + b, top>>
                           ELSE <<128 + a, 128 + b, 128 + c, top>>
  BY SMT DEF BytesOfLength
<1> HIDE DEF a, b, c, top, B
<1>5. /\ a \in Codec!Byte /\ b \in Codec!Byte /\ c \in Codec!Byte /\ top \in Codec!Byte
      /\ 128 + a \in Codec!Byte /\ 128 + b \in Codec!Byte /\ 128 + c \in Codec!Byte
      /\ ~(top >= 128) /\ 128 + a >= 128 /\ 128 + b >= 128 /\ 128 + c >= 128
  <2>1. top \in 0..127
    BY <1>3
  <2>2. B(a) /\ B(b) /\ B(c) /\ B(top)
    BY <1>1
  <2> QED
    BY <1>2, <2>1, <2>2 DEF B
<1>6. CASE n < 128
  BY SMT, <1>4, <1>5, <1>6
<1>7. CASE ~(n < 128) /\ n < 16384
  BY SMT, <1>4, <1>5, <1>7
<1>8. CASE ~(n < 128) /\ ~(n < 16384) /\ n < 2097152
  BY SMT, <1>4, <1>5, <1>8
<1>9. CASE ~(n < 128) /\ ~(n < 16384) /\ ~(n < 2097152)
  BY SMT, <1>4, <1>5, <1>9
<1> QED
  BY SMT, <1>6, <1>7, <1>8, <1>9

LEMMA BytesAppended ==
  ASSUME NEW s \in Seq(Codec!Byte), NEW t \in Seq(Codec!Byte)
  PROVE  /\ s \o t \in Seq(Codec!Byte) /\ Len(s \o t) = Len(s) + Len(t)
         /\ \A i \in 1..Len(s) : (s \o t)[i] = s[i]
         /\ \A i \in 1..Len(t) : (s \o t)[Len(s) + i] = t[i]
OBVIOUS

LEMMA PartOfBytes ==
  ASSUME NEW S, NEW s \in Seq(S), NEW t \in Seq(S), NEW a \in Nat, a >= 1, a - 1 + Len(t) <= Len(s),
         \A i \in 1..Len(t) : s[a - 1 + i] = t[i]
  PROVE  SubSeq(s, a, a - 1 + Len(t)) = t
OBVIOUS

\* The first byte of a PUBLISH, and the flags that are read from it.
FirstByte(flags) == 3 * 16 + (flags.dup * 8 + flags.qos * 2 + flags.retain)

LEMMA FlagsAreRead ==
  ASSUME NEW flags \in [dup : 0..1, qos : 0..2, retain : 0..1]
  PROVE  /\ FirstByte(flags) \in Codec!Byte /\ FirstByte(flags) \div 16 = 3
         /\ Codec!PublishFlags(FirstByte(flags)) = flags
<1> DEFINE d == flags.dup
           q == flags.qos
           r == flags.retain
<1>1. d \in 0..1 /\ q \in 0..2 /\ r \in 0..1 /\ flags = [dup |-> d, qos |-> q, retain |-> r]
  OBVIOUS
<1>2. FirstByte(flags) = 3 * 16 + (d * 8 + q * 2 + r)
  BY DEF FirstByte
<1> DEFINE b == 3 * 16 + (d * 8 + q * 2 + r)
<1> HIDE DEF d, q, r
<1>3. b \in 0..255 /\ b \div 16 = 3 /\ (b \div 8) % 2 = d /\ (b \div 2) % 4 = q /\ b % 2 = r
  BY <1>1
<1> HIDE DEF b
<1>4. Codec!PublishFlags(b) = flags
  BY <1>1, <1>3 DEF Codec!PublishFlags
<1> QED
  BY <1>2, <1>3, <1>4 DEF b, Codec!Byte

\* The greatest number of two bytes.
MaxWord == 65535

LEMMA IntIsRead ==
  ASSUME NEW n \in Nat, n <= MaxWord
  PROVE  /\ Codec!WriteInt(n) \in Seq(Codec!Byte) /\ Len(Codec!WriteInt(n)) = 2
         /\ 256 * Codec!WriteInt(n)[1] + Codec!WriteInt(n)[2] = n
BY SMT DEF Codec!WriteInt, Codec!Byte, MaxWord

Assembled(h, lb, rest) == <<h>> \o lb \o rest

\* The parts of a packet in w: a byte, the length and the rest.
IsAssembled(w, h, lb, rest) ==
  /\ w \in Seq(Codec!Byte) /\ Len(w) >= 1 + Len(lb) + Len(rest)
  /\ w[1] = h
  /\ \A k \in 1..Len(lb) : w[1 + k] = lb[k]
  /\ \A k \in 1..Len(rest) : w[1 + Len(lb) + k] = rest[k]

LEMMA AssembledIs ==
  ASSUME NEW h \in Codec!Byte, NEW lb \in Seq(Codec!Byte), NEW rest \in Seq(Codec!Byte)
  PROVE  IsAssembled(Assembled(h, lb, rest), h, lb, rest)
      /\ Len(Assembled(h, lb, rest)) = 1 + Len(lb) + Len(rest)
<1> DEFINE H == <<h>>
           HL == H \o lb
           HLR == HL \o rest
<1>1. H \in Seq(Codec!Byte) /\ Len(H) = 1 /\ H[1] = h
  OBVIOUS
<1> HIDE DEF H
<1>2. /\ HL \in Seq(Codec!Byte) /\ Len(HL) = Len(H) + Len(lb) /\ \A i \in 1..Len(H) : HL[i] = H[i]
      /\ \A i \in 1..Len(lb) : HL[Len(H) + i] = lb[i]
  BY <1>1, BytesAppended
<1>3. /\ HL \in Seq(Codec!Byte) /\ Len(HL) = 1 + Len(lb) /\ HL[1] = h
      /\ \A i \in 1..Len(lb) : HL[1 + i] = lb[i]
  BY <1>1, <1>2
<1> HIDE DEF HL
<1>4. /\ HLR \in Seq(Codec!Byte) /\ Len(HLR) = Len(HL) + Len(rest) /\ \A i \in 1..Len(HL) : HLR[i] = HL[i]
      /\ \A i \in 1..Len(rest) : HLR[Len(HL) + i] = rest[i]
  BY <1>3, BytesAppended
<1> HIDE DEF HLR
<1>5. /\ HLR \in Seq(Codec!Byte) /\ Len(HLR) = 1 + Len(lb) + Len(rest) /\ HLR[1] = h
      /\ \A i \in 1..Len(lb) : HLR[1 + i] = lb[i]
      /\ \A i \in 1..Len(rest) : HLR[1 + Len(lb) + i] = rest[i]
  BY <1>3, <1>4
<1>6. Assembled(h, lb, rest) = HLR
  BY DEF Assembled, HLR, HL, H
<1> QED
  BY <1>5, <1>6 DEF IsAssembled

\* They are where they were when other bytes are behind them.
LEMMA FrameIs ==
  ASSUME NEW h \in Codec!Byte, NEW lb \in Seq(Codec!Byte), NEW rest \in Seq(Codec!Byte),
         NEW stale \in Seq(Codec!Byte)
  PROVE  IsAssembled(Assembled(h, lb, rest) \o stale, h, lb, rest)
<1> DEFINE W == Assembled(h, lb, rest)
           buf == W \o stale
<1>1. IsAssembled(W, h, lb, rest) /\ Len(W) = 1 + Len(lb) + Len(rest)
  BY AssembledIs
<1> HIDE DEF W
<1>2. /\ buf \in Seq(Codec!Byte) /\ Len(buf) = Len(W) + Len(stale) /\ \A i \in 1..Len(W) : buf[i] = W[i]
  BY <1>1, BytesAppended DEF IsAssembled
<1> HIDE DEF buf
<1>3. Len(buf) >= 1 + Len(lb) + Len(rest) /\ buf[1] = h
  BY <1>1, <1>2 DEF IsAssembled
<1>4. ASSUME NEW k \in 1..Len(lb) PROVE buf[1 + k] = lb[k]
  <2>1. 1 + k \in 1..Len(W)
    BY <1>1
  <2> QED
    BY <1>1, <1>2, <2>1 DEF IsAssembled
<1>5. ASSUME NEW k \in 1..Len(rest) PROVE buf[1 + Len(lb) + k] = rest[k]
  <2>1. 1 + Len(lb) + k \in 1..Len(W)
    BY <1>1
  <2> QED
    BY <1>1, <1>2, <2>1 DEF IsAssembled
<1> QED
  BY <1>2, <1>3, <1>4, <1>5 DEF buf, W, IsAssembled

\* Of every length that MQTT can write: _mqtt_remaining_length_serialize writes it in as many
\* bytes as MQTT says, and _mqtt_remaining_length_deserialize reads it back.
THEOREM LengthsReadBack ==
  ASSUME NEW n \in Nat, n <= MaxLength
  PROVE  Codec!LengthReadBack(n)
<1> DEFINE B == BytesOfLength(n)
           tail == <<255, 0, 255>>
           buf == <<16 * Codec!PUBLISH>> \o B \o tail
<1>1. Codec!RemainingLength(n) = B
  BY SMT, LengthIsWritten
<1>2. /\ B \in Seq(Codec!Byte) /\ Len(B) \in 1..4
      /\ Len(B) = IF n < 128 THEN 1 ELSE IF n < 16384 THEN 2 ELSE IF n < 2097152 THEN 3 ELSE 4
      /\ \A i \in 1..Len(B) : B[i] >= 128 <=> i < Len(B)
  BY SMT, BytesOfLengthAre
<1>3. \A k \in 1..Len(B) : buf[1 + k] = B[k]
  <2> DEFINE h == 16 * Codec!PUBLISH
  <2>1. h \in Codec!Byte /\ tail \in Seq(Codec!Byte) /\ buf = Assembled(h, B, tail)
    BY SMT DEF Codec!Byte, Codec!PUBLISH, Assembled
  <2> HIDE DEF B, buf, tail, h
  <2>2. IsAssembled(Assembled(h, B, tail), h, B, tail)
    BY SMT, <1>2, <2>1, AssembledIs
  <2> QED
    BY SMT, <2>1, <2>2 DEF IsAssembled
<1>4. Codec!DecodeLength(buf, n + 1 + Len(B)) = [rc |-> Codec!Ok, count |-> Len(B), value |-> n]
  <2>1. n + 1 + Len(B) \in Nat
    BY SMT, <1>2
  <2> HIDE DEF buf
  <2> QED
    BY SMT, <1>3, <2>1, LengthIsDecoded
<1> HIDE DEF B
<1> QED
  <2>1. \A i \in DOMAIN B : B[i] \in 0..255 /\ (B[i] >= 128 <=> i < Len(B))
    BY SMT, <1>2 DEF Codec!Byte
  <2> QED
    BY SMT, <1>1, <1>2, <1>4, <2>1 DEF Codec!LengthReadBack

\* Four byte strings one after the other.
IsParts(r, a, b, c, d) ==
  /\ r \in Seq(Codec!Byte) /\ Len(r) = Len(a) + Len(b) + Len(c) + Len(d)
  /\ \A i \in 1..Len(a) : r[i] = a[i]
  /\ \A i \in 1..Len(b) : r[Len(a) + i] = b[i]
  /\ \A i \in 1..Len(c) : r[Len(a) + Len(b) + i] = c[i]
  /\ \A i \in 1..Len(d) : r[Len(a) + Len(b) + Len(c) + i] = d[i]

LEMMA PartsAre ==
  ASSUME NEW a \in Seq(Codec!Byte), NEW b \in Seq(Codec!Byte),
         NEW c \in Seq(Codec!Byte), NEW d \in Seq(Codec!Byte)
  PROVE  IsParts((a \o b) \o c \o d, a, b, c, d)
<1> DEFINE rest == (a \o b) \o c \o d
<1> DEFINE AB == a \o b
           ABC == AB \o c
           All == ABC \o d
<1>1. /\ AB \in Seq(Codec!Byte) /\ Len(AB) = Len(a) + Len(b) /\ \A i \in 1..Len(a) : AB[i] = a[i]
      /\ \A i \in 1..Len(b) : AB[Len(a) + i] = b[i]
  BY BytesAppended
<1> HIDE DEF AB
<1>2. /\ ABC \in Seq(Codec!Byte) /\ Len(ABC) = Len(AB) + Len(c) /\ \A i \in 1..Len(AB) : ABC[i] = AB[i]
      /\ \A i \in 1..Len(c) : ABC[Len(AB) + i] = c[i]
  BY <1>1, BytesAppended
<1> HIDE DEF ABC
<1>3. /\ All \in Seq(Codec!Byte) /\ Len(All) = Len(ABC) + Len(d) /\ \A i \in 1..Len(ABC) : All[i] = ABC[i]
      /\ \A i \in 1..Len(d) : All[Len(ABC) + i] = d[i]
  BY <1>2, BytesAppended
<1>4. All = rest
  BY DEF AB, ABC
<1> HIDE DEF All, rest
<1>5. \A i \in 1..Len(a) : rest[i] = a[i]
  BY <1>1, <1>2, <1>3, <1>4
<1>6. ASSUME NEW i \in 1..Len(b) PROVE rest[Len(a) + i] = b[i]
  <2>1. Len(a) + i \in 1..Len(AB) /\ Len(a) + i \in 1..Len(ABC)
    BY <1>1, <1>2
  <2> QED
    BY <1>1, <1>2, <1>3, <1>4, <2>1
<1>7. \A i \in 1..Len(c) : rest[Len(a) + Len(b) + i] = c[i]
  BY <1>1, <1>2, <1>3, <1>4
<1>8. rest \in Seq(Codec!Byte) /\ Len(rest) = Len(a) + Len(b) + Len(c) + Len(d)
  BY <1>1, <1>2, <1>3, <1>4
<1>9. Len(ABC) = Len(a) + Len(b) + Len(c)
  BY <1>1, <1>2
<1>10. \A i \in 1..Len(d) : rest[Len(a) + Len(b) + Len(c) + i] = d[i]
  BY <1>3, <1>4, <1>9
<1> QED
  BY <1>5, <1>6, <1>7, <1>8, <1>10 DEF IsParts, rest

\* The contents of a PUBLISH whose topic has "length" bytes.
Contents(buf, at, len, length, flags) ==
  [rc      |-> Codec!Ok,
   flags   |-> flags,
   id      |-> IF flags.qos > 0 THEN Codec!ReadInt(buf, at + 2 + length) ELSE 0,
   topic   |-> SubSeq(buf, at + 2, at + 1 + length),
   payload |-> SubSeq(buf, at + 2 + length + (IF flags.qos > 0 THEN 2 ELSE 0), at + len - 1)]

Passed(buf, size, at, len) ==
  Codec!Checked(buf, size, Codec!PUBLISH) = [rc |-> Codec!Ok, at |-> at, len |-> len]

LEMMA ContentsAre ==
  ASSUME NEW buf, NEW size, NEW at, NEW len, Passed(buf, size, at, len),
         Codec!ReadInt(buf, at) # 0
  PROVE  Codec!DeserializePublish(buf, size)
           = Contents(buf, at, len, Codec!ReadInt(buf, at), Codec!PublishFlags(buf[1]))
<1> DEFINE c == Codec!Checked(buf, size, Codec!PUBLISH)
<1>1. c.rc = Codec!Ok /\ c.at = at /\ c.len = len
  BY DEF Passed
<1>2. Codec!DeserializePublish(buf, size)
           = IF c.rc # Codec!Ok THEN c
        ELSE IF Codec!ReadInt(buf, c.at) = 0 THEN Codec!Failed(Codec!InvalidPacketType)
        ELSE [rc      |-> Codec!Ok,
              flags   |-> Codec!PublishFlags(buf[1]),
              id      |-> IF Codec!PublishFlags(buf[1]).qos > 0
                  THEN Codec!ReadInt(buf, c.at + 2 + Codec!ReadInt(buf, c.at)) ELSE 0,
              topic   |-> SubSeq(buf, c.at + 2, c.at + 1 + Codec!ReadInt(buf, c.at)),
              payload |-> SubSeq(buf, c.at + 2 + Codec!ReadInt(buf, c.at)
                  + (IF Codec!PublishFlags(buf[1]).qos > 0 THEN 2 ELSE 0), c.at + c.len - 1)]
  BY Zenon DEF Codec!DeserializePublish
<1> HIDE DEF c
<1> QED
  BY <1>1, <1>2 DEF Contents

\* Of every topic, payload, flag and id, and of every buffer: what mqtt_publish_packet_serialize
\* writes stays within the buffer, is not refused when there is room, and is read back by
\* mqtt_publish_packet_deserialize as it was given, whatever is behind it in the buffer.
THEOREM PublishesReadBack ==
  ASSUME NEW size \in Nat, size <= MaxLength + 5,
         NEW flags \in [dup : 0..1, qos : 0..2, retain : 0..1], NEW id \in Nat, id <= MaxWord,
         NEW topic \in Seq(Codec!Byte), topic # <<>>, Len(topic) <= MaxWord,
         NEW payload \in Seq(Codec!Byte), NEW stale \in Seq(Codec!Byte)
  PROVE  Codec!PublishReadBack(size, flags, id, topic, payload, stale)
<1> DEFINE name   == Codec!WriteInt(Len(topic))
           number == IF flags.qos > 0 THEN Codec!WriteInt(id) ELSE <<>>
           rest   == Codec!WriteString(topic) \o number \o payload
           n      == Len(rest)
           lb     == BytesOfLength(n)
           l      == Len(lb)
           h      == FirstByte(flags)
           whole  == Assembled(h, lb, rest)
           buf    == whole \o stale
           w      == Codec!SerializePublish(size, flags, id, topic, payload)
<1>1. /\ name \in Seq(Codec!Byte) /\ Len(name) = 2 /\ 256 * name[1] + name[2] = Len(topic)
      /\ number \in Seq(Codec!Byte) /\ Len(number) = IF flags.qos > 0 THEN 2 ELSE 0
      /\ flags.qos > 0 => 256 * number[1] + number[2] = id
  <2>1. id \in Nat /\ id <= MaxWord /\ Len(topic) \in Nat
    OBVIOUS
  <2>2. name \in Seq(Codec!Byte) /\ Len(name) = 2 /\ 256 * name[1] + name[2] = Len(topic)
    BY <2>1, IntIsRead
  <2>3. /\ Codec!WriteInt(id) \in Seq(Codec!Byte) /\ Len(Codec!WriteInt(id)) = 2
        /\ 256 * Codec!WriteInt(id)[1] + Codec!WriteInt(id)[2] = id
    BY <2>1, IntIsRead
  <2>4. <<>> \in Seq(Codec!Byte) /\ Len(<<>>) = 0
    OBVIOUS
  <2>5. CASE flags.qos > 0
    <3>1. number = Codec!WriteInt(id)
      BY <2>5
    <3> HIDE DEF name, number
    <3> QED
      BY <2>2, <2>3, <2>5, <3>1
  <2>6. CASE ~(flags.qos > 0)
    <3>1. number = <<>>
      BY <2>6
    <3> HIDE DEF name, number
    <3> QED
      BY <2>2, <2>4, <2>6, <3>1
  <2> QED
    BY <2>5, <2>6
<1>2. /\ h \in Codec!Byte /\ h \div 16 = 3
      /\ Codec!PublishFlags(h) = flags
  BY FlagsAreRead
<1> HIDE DEF name, number, h
<1>3. /\ rest \in Seq(Codec!Byte) /\ n = 2 + Len(topic) + Len(number) + Len(payload)
      /\ 256 * rest[1] + rest[2] = Len(topic)
      /\ Len(topic) \in Nat /\ Len(number) \in 0..2 /\ Len(payload) \in Nat /\ n \in Nat
      /\ \A i \in 1..Len(topic) : rest[2 + i] = topic[i]
      /\ \A i \in 1..Len(number) : rest[2 + Len(topic) + i] = number[i]
      /\ \A i \in 1..Len(payload) : rest[2 + Len(topic) + Len(number) + i] = payload[i]
  <2>1. rest = (name \o topic) \o number \o payload
    BY DEF Codec!WriteString, name
  <2> HIDE DEF rest
  <2>2. IsParts(rest, name, topic, number, payload)
    BY <1>1, <2>1, PartsAre
  <2>3. \A i \in 1..Len(topic) : rest[2 + i] = topic[i]
    BY <1>1, <2>2 DEF IsParts
  <2>4. \A i \in 1..Len(number) : rest[2 + Len(topic) + i] = number[i]
    BY <1>1, <2>2 DEF IsParts
  <2>5. \A i \in 1..Len(payload) : rest[2 + Len(topic) + Len(number) + i] = payload[i]
    BY <1>1, <2>2 DEF IsParts
  <2>6. rest[1] = name[1] /\ rest[2] = name[2]
    BY <1>1, <2>2 DEF IsParts
  <2>7. rest \in Seq(Codec!Byte) /\ n = 2 + Len(topic) + Len(number) + Len(payload)
    BY <1>1, <2>2 DEF IsParts
  <2>8. Len(topic) \in Nat /\ Len(number) \in 0..2 /\ Len(payload) \in Nat /\ n \in Nat
    <3>1. Len(number) \in 0..2
      BY <1>1
    <3>2. Len(topic) \in Nat /\ Len(payload) \in Nat
      OBVIOUS
    <3> QED
      BY <2>7, <3>1, <3>2
  <2> QED
    BY <1>1, <2>3, <2>4, <2>5, <2>6, <2>7, <2>8
<1>4. w = IF size < 2 THEN Codec!Written(Codec!ShortBuffer, <<>>)
          ELSE IF size < n + 5 THEN Codec!Written(Codec!ShortBuffer, <<h>>)
          ELSE Codec!Written(Codec!Ok, <<h>> \o Codec!RemainingLength(n) \o rest)
  <2>1. Codec!Header(Codec!PUBLISH, flags) = <<h>>
    BY DEF Codec!Header, Codec!PUBLISH, h, FirstByte
  <2>2. w = Codec!Serialize(size, Codec!Header(Codec!PUBLISH, flags), Codec!Room(rest), rest)
    BY DEF Codec!SerializePublish, number
  <2>3. Codec!Room(rest) = n + 5
    BY DEF Codec!Room, Codec!MaxFixedHeader
  <2> HIDE DEF rest, w
  <2> QED
    BY <2>1, <2>2, <2>3 DEF Codec!Serialize, Codec!MinFixedHeader
<1> HIDE DEF rest, w
<1>5. ~(size < n + 5) => Codec!RemainingLength(n) = lb /\ lb \in Seq(Codec!Byte) /\ l \in 1..4
  <2>1. n \in Nat
    BY <1>3
  <2> SUFFICES ASSUME ~(size < n + 5)
      PROVE Codec!RemainingLength(n) = lb /\ lb \in Seq(Codec!Byte) /\ l \in 1..4
    OBVIOUS
  <2>2. n <= MaxLength
    BY SMT, <2>1 DEF MaxLength
  <2> HIDE DEF n
  <2> QED
    BY SMT, <2>1, <2>2, LengthIsWritten, BytesOfLengthAre
<1>6. w.rc = Codec!Ok <=> ~(size < n + 5)
  BY <1>3, <1>4 DEF Codec!Written, Codec!Ok, Codec!ShortBuffer
<1> HIDE DEF lb
<1>7. SUFFICES ASSUME ~(size < n + 5)
               PROVE  /\ Len(w.bytes) <= size
                      /\ Codec!DeserializePublish(w.bytes \o stale, Len(w.bytes))
                           = [rc |-> Codec!Ok, flags |-> flags, id |-> IF flags.qos = 0 THEN 0 ELSE id,
                              topic |-> topic, payload |-> payload]
  <2>1. size < n + 5 => Len(w.bytes) <= size
    BY <1>4 DEF Codec!Written
  <2>2. size >= Len(topic) + Len(payload) + 9 => ~(size < n + 5)
    <3>1. Len(number) <= 2 /\ Len(number) \in Nat /\ Len(topic) \in Nat /\ Len(payload) \in Nat
      BY <1>1
    <3> QED
      BY SMT, <1>3, <3>1
  <2> QED
    BY <1>6, <2>1, <2>2 DEF Codec!PublishReadBack, w
<1>8. w.bytes = whole
  <2>1. ~(size < 2)
    BY <1>3, <1>7
  <2>2. Codec!RemainingLength(n) = lb
    BY <1>5, <1>7
  <2>3. w = Codec!Written(Codec!Ok, <<h>> \o Codec!RemainingLength(n) \o rest)
    BY <1>4, <1>7, <2>1
  <2> HIDE DEF n
  <2> QED
    BY <2>2, <2>3 DEF Codec!Written, Assembled
<1>9. IsAssembled(buf, h, lb, rest) /\ Len(whole) = 1 + l + n
  <2>1. lb \in Seq(Codec!Byte) /\ h \in Codec!Byte /\ rest \in Seq(Codec!Byte)
    BY <1>2, <1>3, <1>5, <1>7
  <2>2. IsAssembled(buf, h, lb, rest)
    BY <2>1, FrameIs
  <2>3. Len(whole) = 1 + l + n
    BY <2>1, AssembledIs
  <2> QED
    BY <2>2, <2>3
<1> HIDE DEF whole
<1>10. Len(w.bytes) <= size
  <2>1. l \in 1..4 /\ n \in Nat
    BY <1>3, <1>5, <1>7
  <2>2. Len(w.bytes) = 1 + l + n
    BY <1>8, <1>9
  <2> HIDE DEF l, n
  <2> QED
    BY <1>7, <2>1, <2>2
<1> HIDE DEF buf
<1>11. Codec!DecodeLength(buf, 1 + l + n) = [rc |-> Codec!Ok, count |-> l, value |-> n]
  <2>1. n \in Nat /\ l \in 1..4
    BY <1>3, <1>5, <1>7
  <2>2. n <= MaxLength /\ 1 + l + n \in Nat
    BY SMT, <1>7, <2>1 DEF MaxLength
  <2>3. \A k \in 1..Len(BytesOfLength(n)) : buf[1 + k] = BytesOfLength(n)[k]
    BY SMT, <1>9 DEF lb, IsAssembled
  <2>4. Len(BytesOfLength(n)) = l
    BY SMT DEF lb
  <2> HIDE DEF n, l
  <2>5. 1 + l + n >= n + 1 + Len(BytesOfLength(n))
    BY SMT, <2>1, <2>4
  <2>6. Codec!DecodeLength(buf, 1 + l + n) = [rc |-> Codec!Ok, count |-> Len(BytesOfLength(n)), value |-> n]
    BY Zenon, <2>1, <2>2, <2>3, <2>5, LengthIsDecoded
  <2> QED
    BY <2>4, <2>6
<1>12. Codec!Checked(buf, 1 + l + n, Codec!PUBLISH) = [rc |-> Codec!Ok, at |-> 2 + l, len |-> n]
  <2>1. ~(1 + l + n < Codec!MinFixedHeader)
    <3>1. n >= 2 /\ l \in 1..4
      BY <1>3, <1>5, <1>7
    <3> QED
      BY <3>1 DEF Codec!MinFixedHeader
  <2>2. Codec!TypeIs(buf, Codec!PUBLISH)
    BY <1>2, <1>9 DEF Codec!TypeIs, Codec!PUBLISH, IsAssembled
  <2> HIDE DEF l, n
  <2> QED
    BY <1>11, <2>1, <2>2 DEF Codec!Checked
<1> DEFINE at == 2 + l
<1>13. Codec!ReadInt(buf, at) = Len(topic) /\ Len(topic) # 0
  <2>1. buf[1 + l + 1] = rest[1] /\ buf[1 + l + 2] = rest[2]
    BY <1>3, <1>9 DEF IsAssembled
  <2>2. 1 + l + 1 = at /\ 1 + l + 2 = at + 1
    BY <1>5, <1>7
  <2> HIDE DEF at
  <2> QED
    BY <1>3, <2>1, <2>2 DEF Codec!ReadInt
<1>14. Codec!PublishFlags(buf[1]) = flags
  BY <1>2, <1>9 DEF IsAssembled
<1>15. l \in 1..4 /\ at = 2 + l /\ at \in Nat /\ Len(buf) >= 1 + l + n /\ buf \in Seq(Codec!Byte)
  BY <1>3, <1>5, <1>7, <1>9 DEF IsAssembled
<1>16. ASSUME NEW k \in 1..n PROVE buf[at - 1 + k] = rest[k]
  <2>1. buf[1 + l + k] = rest[k]
    BY <1>3, <1>9 DEF IsAssembled
  <2>2. at - 1 + k = 1 + l + k
    BY <1>15
  <2> HIDE DEF at
  <2> QED
    BY <2>1, <2>2
<1> HIDE DEF at, l, n
<1>17. SubSeq(buf, at + 2, at + 1 + Len(topic)) = topic
  <2>1. ASSUME NEW i \in 1..Len(topic) PROVE buf[(at + 2) - 1 + i] = topic[i]
    <3>1. 2 + i \in 1..n /\ at - 1 + (2 + i) = (at + 2) - 1 + i
      BY <1>3, <1>15
    <3>2. buf[at - 1 + (2 + i)] = rest[2 + i]
      BY <1>16, <3>1
    <3> QED
      BY <1>3, <3>1, <3>2
  <2>2. at + 2 \in Nat /\ at + 2 >= 1 /\ (at + 2) - 1 + Len(topic) <= Len(buf)
            /\ (at + 2) - 1 + Len(topic) = at + 1 + Len(topic)
    BY <1>3, <1>15
  <2>3. SubSeq(buf, at + 2, (at + 2) - 1 + Len(topic)) = topic
    BY <1>15, <2>1, <2>2, PartOfBytes
  <2> QED
    BY <2>2, <2>3
<1>18. flags.qos > 0 => Codec!ReadInt(buf, at + 2 + Len(topic)) = id
  <2>1. SUFFICES ASSUME flags.qos > 0 PROVE Codec!ReadInt(buf, at + 2 + Len(topic)) = id
    OBVIOUS
  <2>2. ASSUME NEW i \in 1..2 PROVE buf[at + 1 + Len(topic) + i] = number[i]
    <3>1. Len(number) = 2
      BY <1>1, <2>1
    <3>2. 2 + Len(topic) + i \in 1..n /\ at - 1 + (2 + Len(topic) + i) = at + 1 + Len(topic) + i
      <4>1. n = 2 + Len(topic) + 2 + Len(payload) /\ Len(topic) \in Nat /\ Len(payload) \in Nat /\ n \in Nat
        BY <1>3, <3>1
      <4> HIDE DEF at
      <4>2. 2 + Len(topic) + i \in 1..n
        BY <4>1
      <4> QED
        BY <1>15, <4>1, <4>2
    <3>3. buf[at - 1 + (2 + Len(topic) + i)] = rest[2 + Len(topic) + i]
      BY <1>16, <3>2
    <3> QED
      BY <1>3, <3>1, <3>2, <3>3
  <2>3. /\ at + 1 + Len(topic) + 1 = at + 2 + Len(topic)
        /\ at + 1 + Len(topic) + 2 = at + 2 + Len(topic) + 1
    BY <1>3, <1>15
  <2>4. buf[at + 2 + Len(topic)] = number[1] /\ buf[at + 2 + Len(topic) + 1] = number[2]
    <3>1. 1 \in 1..2 /\ 2 \in 1..2
      OBVIOUS
    <3>2. buf[at + 1 + Len(topic) + 1] = number[1]
      BY <2>2, <3>1
    <3>3. buf[at + 1 + Len(topic) + 2] = number[2]
      BY <2>2, <3>1
    <3> QED
      BY <2>3, <3>2, <3>3
  <2> QED
    BY <1>1, <2>1, <2>4 DEF Codec!ReadInt
<1>19. SubSeq(buf, at + 2 + Len(topic) + Len(number), at + n - 1) = payload
  <2> DEFINE body == at + 2 + Len(topic) + Len(number)
  <2>1. ASSUME NEW i \in 1..Len(payload) PROVE buf[body - 1 + i] = payload[i]
    <3> DEFINE k == 2 + Len(topic) + Len(number) + i
    <3>1. k \in 1..n /\ at - 1 + k = body - 1 + i
      BY <1>3, <1>15
    <3>2. rest[k] = payload[i]
      BY <1>3
    <3> HIDE DEF k, body
    <3> QED
      BY <1>16, <3>1, <3>2
  <2>2. body \in Nat /\ body >= 1 /\ body - 1 + Len(payload) <= Len(buf) /\ body - 1 + Len(payload) = at + n - 1
    BY <1>3, <1>15
  <2> HIDE DEF body
  <2>3. SubSeq(buf, body, body - 1 + Len(payload)) = payload
    BY <1>15, <2>1, <2>2, PartOfBytes
  <2>4. SubSeq(buf, body, at + n - 1) = payload
    BY <2>2, <2>3
  <2> QED
    BY <2>4 DEF body
<1>20. Codec!DeserializePublish(buf, 1 + l + n)
         = [rc |-> Codec!Ok, flags |-> flags, id |-> IF flags.qos = 0 THEN 0 ELSE id,
             topic |-> topic, payload |-> payload]
  <2>1. Len(number) = (IF flags.qos > 0 THEN 2 ELSE 0) /\ (flags.qos > 0 <=> flags.qos # 0)
    <3>1. flags.qos \in 0..2
      OBVIOUS
    <3> QED
      BY <1>1, <3>1
  <2>2. Passed(buf, 1 + l + n, at, n)
    BY <1>12, <1>15 DEF Passed
  <2>3. Codec!DeserializePublish(buf, 1 + l + n) = Contents(buf, at, n, Len(topic), flags)
    <3>1. Codec!ReadInt(buf, at) # 0 /\ Codec!ReadInt(buf, at) = Len(topic)
      BY <1>13
    <3>2. Codec!DeserializePublish(buf, 1 + l + n)
            = Contents(buf, at, n, Codec!ReadInt(buf, at), Codec!PublishFlags(buf[1]))
      BY Zenon, <2>2, <3>1, ContentsAre
    <3> QED
      BY <1>14, <3>1, <3>2
  <2>4. CASE flags.qos > 0
    <3>1. Len(number) = 2 /\ flags.qos # 0 /\ Codec!ReadInt(buf, at + 2 + Len(topic)) = id
      BY <1>18, <2>1, <2>4
    <3>2. SubSeq(buf, at + 2 + Len(topic) + 2, at + n - 1) = payload
      BY <1>19, <3>1
    <3>3. (IF flags.qos = 0 THEN 0 ELSE id) = id
      BY <3>1
    <3>4. Contents(buf, at, n, Len(topic), flags)
            = [rc |-> Codec!Ok, flags |-> flags, id |-> Codec!ReadInt(buf, at + 2 + Len(topic)),
               topic |-> SubSeq(buf, at + 2, at + 1 + Len(topic)),
               payload |-> SubSeq(buf, at + 2 + Len(topic) + 2, at + n - 1)]
      BY <2>4 DEF Contents
    <3> QED
      BY Zenon, <1>17, <2>3, <3>1, <3>2, <3>3, <3>4
  <2>5. CASE ~(flags.qos > 0)
    <3>1. Len(number) = 0 /\ flags.qos = 0
      BY <2>1, <2>5
    <3>2. SubSeq(buf, at + 2 + Len(topic) + 0, at + n - 1) = payload
      BY <1>19, <3>1
    <3>3. (IF flags.qos = 0 THEN 0 ELSE id) = 0
      BY <3>1
    <3>4. Contents(buf, at, n, Len(topic), flags)
            = [rc |-> Codec!Ok, flags |-> flags, id |-> 0,
               topic |-> SubSeq(buf, at + 2, at + 1 + Len(topic)),
               payload |-> SubSeq(buf, at + 2 + Len(topic) + 0, at + n - 1)]
      BY <2>5 DEF Contents
    <3> QED
      BY Zenon, <1>17, <2>3, <3>1, <3>2, <3>3, <3>4
  <2> QED
    BY <2>4, <2>5
<1> QED
  BY <1>8, <1>9, <1>10, <1>20 DEF buf

\* A packet of the broker whose length takes one byte.
Answer(first, rest) == <<first, Len(rest)>> \o rest

LEMMA SmallIsByte ==
  ASSUME NEW m \in Nat, m < 128 PROVE m \in Codec!Byte
BY DEF Codec!Byte

\* It passes the checks, and its contents are where they are read.
IsAnswered(w, type, first, rest) ==
  /\ Codec!Checked(w, 2 + Len(rest), type) = [rc |-> Codec!Ok, at |-> 3, len |-> Len(rest)]
  /\ IsAssembled(w, first, <<Len(rest)>>, rest)

LEMMA AnswerIsChecked ==
  ASSUME NEW type, NEW first \in Codec!Byte, first \div 16 = type,
         NEW rest \in Seq(Codec!Byte), Len(rest) < 128, NEW stale \in Seq(Codec!Byte)
  PROVE  IsAnswered(Answer(first, rest) \o stale, type, first, rest)
<1> DEFINE lb == <<Len(rest)>>
           n == Len(rest)
           buf == Assembled(first, lb, rest) \o stale
<1>1. Answer(first, rest) = Assembled(first, lb, rest)
  BY DEF Answer, Assembled
<1>2. n \in Nat /\ n < 128 /\ lb \in Seq(Codec!Byte) /\ Len(lb) = 1 /\ lb[1] = n
  BY SmallIsByte
<1> HIDE DEF lb, n
<1>3. IsAssembled(buf, first, lb, rest)
  BY <1>2, FrameIs
<1> HIDE DEF buf
<1>4. buf[1] = first /\ buf[2] = n
  <2>1. 1 \in 1..Len(lb)
    BY <1>2
  <2>2. buf[1 + 1] = lb[1]
    BY <1>3, <2>1 DEF IsAssembled
  <2> QED
    BY <1>2, <1>3, <2>2 DEF IsAssembled
<1>5. Codec!DecodeLength(buf, 2 + n) = [rc |-> Codec!Ok, count |-> 1, value |-> n]
  <2>1. BytesOfLength(n) = <<n>> /\ n <= MaxLength
    BY SMT, <1>2 DEF BytesOfLength, MaxLength
  <2>2. /\ \A k \in 1..Len(BytesOfLength(n)) : buf[1 + k] = BytesOfLength(n)[k]
        /\ Len(BytesOfLength(n)) = 1 /\ 2 + n \in Nat /\ 2 + n >= n + 1 + Len(BytesOfLength(n))
    BY <1>2, <1>4, <2>1
  <2>3. Codec!DecodeLength(buf, 2 + n)
            = [rc |-> Codec!Ok, count |-> Len(BytesOfLength(n)), value |-> n]
    BY <1>2, <2>1, <2>2, LengthIsDecoded
  <2> QED
    BY <2>2, <2>3
<1>6. Codec!Checked(buf, 2 + n, type) = [rc |-> Codec!Ok, at |-> 3, len |-> n]
  <2>1. ~(2 + n < Codec!MinFixedHeader)
    BY <1>2 DEF Codec!MinFixedHeader
  <2>2. Codec!TypeIs(buf, type)
    BY <1>4 DEF Codec!TypeIs
  <2> QED
    BY <1>5, <2>1, <2>2 DEF Codec!Checked
<1> QED
  BY <1>1, <1>3, <1>6 DEF buf, lb, n, IsAnswered

\* The broker reads a packet whose length takes one byte.
LEMMA BrokerReadsIt ==
  ASSUME NEW first \in Codec!Byte, NEW rest \in Seq(Codec!Byte), Len(rest) < 128
  PROVE  Codec!BrokerReads(Answer(first, rest)) = [first |-> first, rest |-> rest]
<1> DEFINE p == Answer(first, rest)
           bytes  == {k \in 2..Len(p) : \A j \in 2..(k - 1) : p[j] >= 128}
           last   == CHOOSE k \in bytes : \A j \in bytes : j <= k
<1>1. /\ p \in Seq(Codec!Byte) /\ Len(p) = 2 + Len(rest) /\ p[1] = first /\ p[2] = Len(rest)
      /\ \A i \in 1..Len(rest) : p[2 + i] = rest[i]
  <2>1. <<first, Len(rest)>> \in Seq(Codec!Byte) /\ Len(<<first, Len(rest)>>) = 2
    BY SmallIsByte
  <2> DEFINE head == <<first, Len(rest)>>
  <2>2. head[1] = first /\ head[2] = Len(rest) /\ p = head \o rest
    BY DEF Answer
  <2> HIDE DEF head, p
  <2>3. head \in Seq(Codec!Byte) /\ Len(head) = 2
    BY <2>1 DEF head
  <2>4. /\ head \o rest \in Seq(Codec!Byte) /\ Len(head \o rest) = Len(head) + Len(rest)
        /\ \A i \in 1..Len(head) : (head \o rest)[i] = head[i]
        /\ \A i \in 1..Len(rest) : (head \o rest)[Len(head) + i] = rest[i]
    BY <2>3, BytesAppended
  <2> QED
    BY <2>2, <2>3, <2>4
<1> HIDE DEF p
<1>2. bytes = {2}
  <2>1. 2 \in bytes
    BY <1>1
  <2>2. ASSUME NEW k \in bytes PROVE k = 2
    <3>1. ~(p[2] >= 128)
      BY <1>1
    <3> QED
      BY <3>1
  <2> QED
    BY <2>1, <2>2
<1>3. last = 2
  BY <1>2
<1>4. Codec!Added(p, 1) = Len(rest)
  <2>1. Len(rest) % 128 = Len(rest)
    OBVIOUS
  <2>2. Codec!Added(p, 1) = (p[2] % 128) * 1 + 0 + 0 + 0
    BY AddedIs
  <2> QED
    BY <1>1, <2>1, <2>2
<1>5. SubSeq(p, 3, Len(p)) = rest
  <2>1. \A i \in 1..Len(rest) : p[3 - 1 + i] = rest[i]
    BY <1>1
  <2>2. 3 - 1 + Len(rest) = Len(p)
    BY <1>1
  <2> QED
    BY <1>1, <2>1, <2>2, PartOfBytes
<1> HIDE DEF bytes, last
<1>6. Codec!BrokerReads(p)
        = IF last <= Codec!MaxFixedHeader /\ Len(p) = last + Codec!Added(p, last - 1)
          THEN [first |-> p[1], rest |-> SubSeq(p, last + 1, Len(p))]
          ELSE [first |-> 0, rest |-> <<0, 0>>]
  BY Zenon DEF Codec!BrokerReads, bytes, last
<1>7. last <= Codec!MaxFixedHeader /\ last - 1 = 1 /\ last + 1 = 3
  BY <1>3 DEF Codec!MaxFixedHeader
<1> QED
  BY <1>1, <1>3, <1>4, <1>5, <1>6, <1>7 DEF p

\* Two bytes that WriteInt has written are read from where they are.
LEMMA WordIsRead ==
  ASSUME NEW id \in Nat, id <= MaxWord, NEW rest, NEW w, NEW first, NEW lb, IsAssembled(w, first, <<lb>>, rest),
         Len(rest) \in Nat, Len(rest) >= 2, rest[1] = Codec!WriteInt(id)[1], rest[2] = Codec!WriteInt(id)[2]
  PROVE  Codec!ReadInt(w, 3) = id
<1>1. 1 \in 1..Len(rest) /\ 2 \in 1..Len(rest) /\ Len(<<lb>>) = 1
  OBVIOUS
<1>2. w[1 + 1 + 1] = rest[1] /\ w[1 + 1 + 2] = rest[2]
  BY <1>1 DEF IsAssembled
<1>3. 1 + 1 + 1 = 3 /\ 1 + 1 + 2 = 3 + 1
  OBVIOUS
<1>4. 256 * rest[1] + rest[2] = id
  BY IntIsRead
<1> QED
  BY <1>2, <1>3, <1>4 DEF Codec!ReadInt

LEMMA AckIsRead ==
  ASSUME NEW type \in {Codec!PUBACK, Codec!UNSUBACK}, NEW id \in Nat, id <= MaxWord,
         NEW stale \in Seq(Codec!Byte)
  PROVE  /\ Codec!DeserializeAck(Codec!BrokerAck(type, id) \o stale, 4, type) = [rc |-> Codec!Ok, id |-> id]
         /\ Codec!DeserializeAck(Codec!BrokerAck(type, id) \o stale, 3, type).rc = Codec!ShortBuffer
<1> DEFINE first == 16 * type
           rest == Codec!WriteInt(id)
           w == Codec!BrokerAck(type, id) \o stale
<1>1. first \in Codec!Byte /\ first \div 16 = type
  BY DEF Codec!Byte, Codec!PUBACK, Codec!UNSUBACK
<1>2. rest \in Seq(Codec!Byte) /\ Len(rest) = 2
  BY IntIsRead
<1>3. Codec!BrokerAck(type, id) = Answer(first, rest)
  BY <1>2 DEF Codec!BrokerAck, Answer
<1>4. /\ Codec!Checked(w, 4, type) = [rc |-> Codec!Ok, at |-> 3, len |-> 2]
      /\ IsAssembled(w, first, <<2>>, rest)
  <2>1. 2 + Len(rest) = 4 /\ Len(rest) < 128
    BY <1>2
  <2> HIDE DEF first, rest
  <2>2. IsAnswered(Answer(first, rest) \o stale, type, first, rest)
    BY Zenon, <1>1, <1>2, <2>1, AnswerIsChecked
  <2> QED
    BY <1>2, <1>3, <2>1, <2>2 DEF IsAnswered
<1>5. Codec!ReadInt(w, 3) = id
  <2>1. Len(rest) \in Nat /\ Len(rest) >= 2
            /\ rest[1] = Codec!WriteInt(id)[1] /\ rest[2] = Codec!WriteInt(id)[2]
    BY <1>2
  <2> HIDE DEF w, rest, first
  <2> QED
    BY Zenon, <1>4, <2>1, WordIsRead
<1>6. w[1] = first /\ w[2] = 2
  <2>1. Len(<<2>>) = 1 /\ <<2>>[1] = 2
    OBVIOUS
  <2>2. w[1 + 1] = <<2>>[1]
    BY <1>4, <2>1 DEF IsAssembled
  <2> QED
    BY <1>4, <2>1, <2>2 DEF IsAssembled
<1> HIDE DEF w
<1>7. Codec!DecodeLength(w, 3) = Codec!Failed(Codec!ShortBuffer)
  <2> DEFINE last  == {k \in 1..Codec!MaxLengthBytes : w[1 + k] < 128 /\ \A j \in 1..(k - 1) : w[1 + j] >= 128}
             count == IF last = {} THEN Codec!MaxLengthBytes ELSE CHOOSE k \in last : TRUE
  <2>1. count \in 1..4
    BY DEF Codec!MaxLengthBytes
  <2>2. Codec!Added(w, 1) = 2
    <3>1. Codec!Added(w, 1) = (w[2] % 128) * 1 + 0 + 0 + 0
      BY AddedIs
    <3> QED
      BY <1>6, <3>1
  <2>3. Codec!DecodeLength(w, 3) =
          IF \E k \in 1..count : 3 < k + 1 + Codec!Added(w, k) THEN Codec!Failed(Codec!ShortBuffer)
          ELSE IF last = {} THEN Codec!Failed(Codec!InvalidPacketType)
          ELSE [rc |-> Codec!Ok, count |-> count, value |-> Codec!Added(w, count)]
    BY Zenon DEF Codec!DecodeLength
  <2> HIDE DEF last, count
  <2>4. 1 \in 1..count /\ 3 < 1 + 1 + Codec!Added(w, 1)
    BY <2>1, <2>2
  <2> QED
    BY <2>3, <2>4
<1>8. Codec!Checked(w, 3, type) = Codec!Failed(Codec!ShortBuffer)
  <2>1. ~(3 < Codec!MinFixedHeader) /\ Codec!TypeIs(w, type)
    BY <1>1, <1>6 DEF Codec!MinFixedHeader, Codec!TypeIs
  <2>2. Codec!Failed(Codec!ShortBuffer).rc # Codec!Ok
    BY DEF Codec!Failed, Codec!ShortBuffer, Codec!Ok
  <2> QED
    BY <1>7, <2>1, <2>2 DEF Codec!Checked
<1>9. Codec!DeserializeAck(w, 4, type) = [rc |-> Codec!Ok, id |-> id]
  BY <1>4, <1>5 DEF Codec!DeserializeAck
<1>10. Codec!DeserializeAck(w, 3, type).rc = Codec!ShortBuffer
  BY <1>8 DEF Codec!DeserializeAck, Codec!Failed, Codec!ShortBuffer, Codec!Ok
<1> QED
  BY <1>9, <1>10 DEF w

LEMMA OwnPacketsAreRead ==
  ASSUME NEW id \in Nat, id <= MaxWord
  PROVE  /\ Codec!BrokerReads(Codec!SerializePuback(4, id).bytes).rest = Codec!WriteInt(id)
         /\ Codec!BrokerReads(Codec!SerializeEmpty(2, Codec!PINGREQ).bytes)
                = [first |-> 16 * Codec!PINGREQ, rest |-> <<>>]
<1>1. \A n \in {0, 2} : Codec!RemainingLength(n) = <<n>>
  <2>1. \A n \in {0, 2} : n \in Nat /\ n <= MaxLength /\ BytesOfLength(n) = <<n>>
    BY SMT DEF MaxLength, BytesOfLength
  <2> QED
    BY <2>1, LengthIsWritten
<1>2. Codec!WriteInt(id) \in Seq(Codec!Byte) /\ Len(Codec!WriteInt(id)) = 2
  BY IntIsRead
<1>3. Codec!SerializePuback(4, id).bytes = Answer(64, Codec!WriteInt(id))
  <2>1. Codec!Header(Codec!PUBACK, Codec!NoFlags) = <<64>>
    BY DEF Codec!Header, Codec!PUBACK, Codec!PUBLISH, Codec!SUBSCRIBE, Codec!UNSUBSCRIBE
  <2> DEFINE rest == Codec!WriteInt(id)
  <2>2. Codec!SerializePuback(4, id) = Codec!Serialize(4, <<64>>, Codec!MinFixedHeader, rest)
    BY <2>1 DEF Codec!SerializePuback, Codec!MinFixedHeader
  <2>3. Codec!Serialize(4, <<64>>, Codec!MinFixedHeader, rest)
            = Codec!Written(Codec!Ok, <<64>> \o <<2>> \o rest)
    BY <1>1, <1>2 DEF Codec!Serialize, Codec!MinFixedHeader
  <2>4. <<64>> \o <<2>> \o rest = <<64, Len(rest)>> \o rest
    BY <1>2
  <2> QED
    BY <2>2, <2>3, <2>4 DEF Codec!Written, Answer
<1>4. Codec!SerializeEmpty(2, Codec!PINGREQ).bytes = Answer(192, <<>>)
  <2>1. Codec!Header(Codec!PINGREQ, Codec!NoFlags) = <<192>>
    BY DEF Codec!Header, Codec!PINGREQ, Codec!PUBLISH, Codec!SUBSCRIBE, Codec!UNSUBSCRIBE
  <2>2. Codec!SerializeEmpty(2, Codec!PINGREQ) = Codec!Serialize(2, <<192>>, Codec!MinFixedHeader, <<>>)
    BY <2>1 DEF Codec!SerializeEmpty
  <2>3. Codec!Serialize(2, <<192>>, Codec!MinFixedHeader, <<>>)
            = Codec!Written(Codec!Ok, <<192>> \o <<0>> \o <<>>)
    <3>1. Len(<<>>) = 0
      OBVIOUS
    <3> QED
      BY <1>1, <3>1 DEF Codec!Serialize, Codec!MinFixedHeader
  <2>4. <<192>> \o <<0>> \o <<>> = <<192, Len(<<>>)>> \o <<>>
    <3> DEFINE rest == <<>>
    <3>1. rest \in Seq(Codec!Byte) /\ Len(rest) = 0
      OBVIOUS
    <3> HIDE DEF rest
    <3>2. <<192>> \o <<0>> \o rest = <<192, Len(rest)>> \o rest
      BY <3>1
    <3> QED
      BY <3>2 DEF rest
  <2> QED
    BY <2>2, <2>3, <2>4 DEF Codec!Written, Answer
<1>5. Codec!BrokerReads(Answer(64, Codec!WriteInt(id))) = [first |-> 64, rest |-> Codec!WriteInt(id)]
  <2>1. 64 \in Codec!Byte /\ Len(Codec!WriteInt(id)) < 128
    BY <1>2 DEF Codec!Byte
  <2> QED
    BY <1>2, <2>1, BrokerReadsIt
<1>6. Codec!BrokerReads(Answer(192, <<>>)) = [first |-> 192, rest |-> <<>>]
  <2>1. 192 \in Codec!Byte /\ Len(<<>>) < 128 /\ <<>> \in Seq(Codec!Byte)
    BY DEF Codec!Byte
  <2> QED
    BY <2>1, BrokerReadsIt
<1> QED
  BY <1>3, <1>4, <1>5, <1>6 DEF Codec!PINGREQ

LEMMA ConnackIsRead ==
  ASSUME NEW present \in 0..1, NEW code \in Codec!Byte, NEW stale \in Seq(Codec!Byte)
  PROVE  Codec!DeserializeConnack(Codec!BrokerConnack(present, code) \o stale, 4)
           = [rc |-> Codec!Ok, session_present |-> present, code |-> code]
<1> DEFINE rest == <<present, code>>
           w == Codec!BrokerConnack(present, code) \o stale
<1>1. rest \in Seq(Codec!Byte) /\ Len(rest) = 2 /\ rest[1] = present /\ rest[2] = code /\ present \in 0..1
  BY DEF Codec!Byte
<1>2. Codec!BrokerConnack(present, code) = Answer(32, rest)
  BY DEF Codec!BrokerConnack, Codec!CONNACK, Answer
<1>3. 32 \in Codec!Byte /\ 32 \div 16 = Codec!CONNACK
  BY DEF Codec!Byte, Codec!CONNACK
<1>4. /\ Codec!Checked(w, 4, Codec!CONNACK) = [rc |-> Codec!Ok, at |-> 3, len |-> 2]
      /\ IsAssembled(w, 32, <<2>>, rest)
  <2>1. 2 + Len(rest) = 4 /\ Len(rest) < 128
    BY <1>1
  <2> HIDE DEF rest
  <2>2. IsAnswered(Answer(32, rest) \o stale, Codec!CONNACK, 32, rest)
    BY Zenon, <1>1, <1>3, <2>1, AnswerIsChecked
  <2> QED
    BY <1>1, <1>2, <2>1, <2>2 DEF IsAnswered
<1> HIDE DEF rest
<1>5. w[3] = present /\ w[4] = code
  <2>1. 1 \in 1..Len(rest) /\ 2 \in 1..Len(rest) /\ Len(<<2>>) = 1
    BY <1>1
  <2>2. w[1 + 1 + 1] = rest[1] /\ w[1 + 1 + 2] = rest[2]
    BY <1>4, <2>1 DEF IsAssembled
  <2>3. 1 + 1 + 1 = 3 /\ 1 + 1 + 2 = 4
    OBVIOUS
  <2> HIDE DEF w
  <2> QED
    BY <1>1, <2>2, <2>3
<1> HIDE DEF w
<1>6. w[3] % 2 = present /\ w[3 + 1] = code
  BY <1>1, <1>5
<1> DEFINE c == Codec!Checked(w, 4, Codec!CONNACK)
<1>7. c.rc = Codec!Ok /\ c.at = 3
  BY <1>4
<1>8. Codec!DeserializeConnack(w, 4) =
        IF c.rc # Codec!Ok THEN c
        ELSE [rc |-> Codec!Ok, session_present |-> w[c.at] % 2, code |-> w[c.at + 1]]
  BY Zenon DEF Codec!DeserializeConnack
<1> HIDE DEF c
<1> QED
  BY <1>6, <1>7, <1>8 DEF w

LEMMA SubackIsRead ==
  ASSUME NEW id \in Nat, id <= MaxWord, NEW codes \in Seq(Codec!Byte), Len(codes) <= 125,
         NEW stale \in Seq(Codec!Byte), NEW signed \in BOOLEAN
  PROVE  Codec!DeserializeSuback(Codec!BrokerSuback(id, codes) \o stale, 4 + Len(codes), Len(codes), signed)
           = [rc |-> Codec!Ok, id |-> id, granted |-> [i \in DOMAIN codes |-> Codec!ReadChar(codes[i], signed)]]
<1> DEFINE first == 16 * Codec!SUBACK
           number == Codec!WriteInt(id)
           rest == number \o codes
           w == Codec!BrokerSuback(id, codes) \o stale
<1>1. first \in Codec!Byte /\ first \div 16 = Codec!SUBACK
  BY DEF Codec!Byte, Codec!SUBACK
<1>2. number \in Seq(Codec!Byte) /\ Len(number) = 2
  BY IntIsRead
<1>3. Len(codes) \in Nat
  OBVIOUS
<1>4. /\ rest \in Seq(Codec!Byte) /\ Len(rest) = 2 + Len(codes) /\ rest[1] = number[1] /\ rest[2] = number[2]
      /\ \A i \in 1..Len(codes) : rest[2 + i] = codes[i]
  <2> HIDE DEF number
  <2>1. /\ rest \in Seq(Codec!Byte) /\ Len(rest) = Len(number) + Len(codes)
        /\ \A i \in 1..Len(number) : rest[i] = number[i]
        /\ \A i \in 1..Len(codes) : rest[Len(number) + i] = codes[i]
    BY <1>2, BytesAppended
  <2> HIDE DEF rest
  <2> QED
    BY <1>2, <2>1
<1>5. Codec!BrokerSuback(id, codes) = Answer(first, rest)
  <2>1. Codec!BrokerSuback(id, codes) = <<first, 2 + Len(codes)>> \o number \o codes
    BY DEF Codec!BrokerSuback
  <2>2. <<first, 2 + Len(codes)>> \in Seq(Codec!Byte)
    <3>1. 2 + Len(codes) \in Nat /\ 2 + Len(codes) < 128
      BY <1>3
    <3> HIDE DEF first
    <3> QED
      BY <1>1, <3>1, SmallIsByte
  <2> DEFINE head == <<first, 2 + Len(codes)>>
  <2> HIDE DEF head, number
  <2>3. head \in Seq(Codec!Byte)
    BY <2>2 DEF head
  <2>4. (head \o number) \o codes = head \o (number \o codes)
    BY <1>2, <2>3
  <2> QED
    BY <1>4, <2>1, <2>4 DEF Answer, head
<1> HIDE DEF first, rest
<1>6. 2 + Len(rest) = 4 + Len(codes) /\ Len(rest) < 128
  BY <1>3, <1>4
<1>7. /\ Codec!Checked(w, 4 + Len(codes), Codec!SUBACK)
             = [rc |-> Codec!Ok, at |-> 3, len |-> Len(rest)]
      /\ IsAssembled(w, first, <<Len(rest)>>, rest)
  <2>1. IsAnswered(Answer(first, rest) \o stale, Codec!SUBACK, first, rest)
    BY Zenon, <1>1, <1>4, <1>6, AnswerIsChecked
  <2> QED
    BY <1>5, <1>6, <2>1 DEF IsAnswered
<1> HIDE DEF w
<1>8. Codec!ReadInt(w, 3) = id
  <2>1. Len(rest) \in Nat /\ Len(rest) >= 2
            /\ rest[1] = Codec!WriteInt(id)[1] /\ rest[2] = Codec!WriteInt(id)[2]
    BY <1>3, <1>4
  <2> QED
    BY Zenon, <1>7, <2>1, WordIsRead
<1>9. SubSeq(w, 5, 3 + Len(rest) - 1) = codes
  <2>1. ASSUME NEW i \in 1..Len(codes) PROVE w[5 - 1 + i] = codes[i]
    <3>1. 2 + i \in 1..Len(rest) /\ Len(<<Len(rest)>>) = 1 /\ 1 + 1 + (2 + i) = 5 - 1 + i
      BY <1>3, <1>4
    <3>2. w[1 + 1 + (2 + i)] = rest[2 + i]
      BY <1>7, <3>1 DEF IsAssembled
    <3> QED
      BY <1>4, <3>1, <3>2
  <2>2. w \in Seq(Codec!Byte) /\ 5 - 1 + Len(codes) <= Len(w) /\ 5 - 1 + Len(codes) = 3 + Len(rest) - 1
    <3>1. w \in Seq(Codec!Byte) /\ Len(w) >= 1 + Len(<<Len(rest)>>) + Len(rest) /\ Len(<<Len(rest)>>) = 1
      BY <1>7 DEF IsAssembled
    <3> QED
      BY <1>3, <1>4, <3>1
  <2>3. SubSeq(w, 5, 5 - 1 + Len(codes)) = codes
    BY <2>1, <2>2, PartOfBytes
  <2> QED
    BY <2>2, <2>3
<1>10. ~(Len(rest) - 2 > Len(codes) + 1)
  BY <1>3, <1>4
<1>11. 3 + 2 = 5
  OBVIOUS
<1> DEFINE c == Codec!Checked(w, 4 + Len(codes), Codec!SUBACK)
<1>12. c.rc = Codec!Ok /\ c.at = 3 /\ c.len = Len(rest)
  BY <1>7
<1> DEFINE Read(s) == [i \in DOMAIN s |-> Codec!ReadChar(s[i], signed)]
<1>13. Codec!DeserializeSuback(w, 4 + Len(codes), Len(codes), signed) =
         IF c.rc # Codec!Ok THEN c
         ELSE IF c.len - 2 > Len(codes) + 1 THEN Codec!Failed(Codec!SubCountExceed)
         ELSE [rc |-> Codec!Ok, id |-> Codec!ReadInt(w, c.at),
             granted |-> Read(SubSeq(w, c.at + 2, c.at + c.len - 1))]
  BY Zenon DEF Codec!DeserializeSuback
<1> HIDE DEF c
<1>14. SubSeq(w, c.at + 2, c.at + c.len - 1) = codes
  BY <1>9, <1>11, <1>12
<1> HIDE DEF Read
<1>15. Codec!DeserializeSuback(w, 4 + Len(codes), Len(codes), signed)
         = [rc |-> Codec!Ok, id |-> id, granted |-> Read(codes)]
  BY <1>8, <1>10, <1>12, <1>13, <1>14
<1> QED
  BY <1>15 DEF w, Read

\* What becomes of the codes: those below 128 and the refusal.
LEMMA CharIsRead ==
  ASSUME NEW byte \in Codec!Byte, NEW signed \in BOOLEAN
  PROVE  /\ byte < 128 => Codec!ReadChar(byte, signed) = byte
         /\ byte = 128 => Codec!ReadChar(byte, signed) = IF signed THEN -128 ELSE 128
<1>1. byte < 128 => ~(byte >= 128)
  BY DEF Codec!Byte
<1>2. 128 >= 128 /\ 128 - 256 = -128
  OBVIOUS
<1> QED
  BY <1>1, <1>2 DEF Codec!ReadChar

LEMMA CodesAreRead ==
  ASSUME NEW id \in Nat, id <= MaxWord, NEW codes \in Seq(Codec!Byte), Len(codes) <= 125,
         NEW stale \in Seq(Codec!Byte), NEW signed \in BOOLEAN
  PROVE  LET suback == Codec!DeserializeSuback(Codec!BrokerSuback(id, codes) \o stale, 4 + Len(codes),
                                               Len(codes), signed)
         IN  /\ suback.rc = Codec!Ok /\ suback.id = id /\ Len(suback.granted) = Len(codes)
             /\ \A i \in DOMAIN codes :
                    /\ codes[i] < 128 => suback.granted[i] = codes[i]
                    /\ codes[i] = 128 => suback.granted[i] = IF signed THEN -128 ELSE 128
<1> DEFINE read == [i \in DOMAIN codes |-> Codec!ReadChar(codes[i], signed)]
           suback == Codec!DeserializeSuback(Codec!BrokerSuback(id, codes) \o stale, 4 + Len(codes),
                                             Len(codes), signed)
<1>1. suback = [rc |-> Codec!Ok, id |-> id, granted |-> read]
  BY SubackIsRead
<1>2. Len(read) = Len(codes)
  <2>1. DOMAIN codes = 1..Len(codes) /\ Len(codes) \in Nat
    OBVIOUS
  <2> QED
    BY <2>1
<1>3. ASSUME NEW i \in DOMAIN codes
      PROVE  /\ codes[i] < 128 => read[i] = codes[i]
             /\ codes[i] = 128 => read[i] = IF signed THEN -128 ELSE 128
  <2>1. codes[i] \in Codec!Byte
    OBVIOUS
  <2>2. read[i] = Codec!ReadChar(codes[i], signed)
    OBVIOUS
  <2> HIDE DEF read
  <2> QED
    BY <2>1, <2>2, CharIsRead
<1> HIDE DEF read, suback
<1>4. /\ suback.rc = Codec!Ok /\ suback.id = id /\ suback.granted = read
  BY <1>1
<1>5. /\ suback.rc = Codec!Ok /\ suback.id = id /\ Len(suback.granted) = Len(codes)
      /\ \A i \in DOMAIN codes :
             /\ codes[i] < 128 => suback.granted[i] = codes[i]
             /\ codes[i] = 128 => suback.granted[i] = IF signed THEN -128 ELSE 128
  BY <1>2, <1>3, <1>4
<1> QED
  BY <1>5 DEF suback

\* The client reads what the broker answers, whatever the id, the codes, the bytes behind
\* the answer and the sign of char, and takes no answer for one of another type; a refusal
\* in a SUBACK is read as 128 where char is not signed, and as -128 where it is.
THEOREM AnswersAreRead ==
  ASSUME NEW id \in Nat, id <= MaxWord, NEW present \in 0..1, NEW code \in Codec!Byte,
         NEW codes \in Seq(Codec!Byte), Len(codes) <= 125, NEW stale \in Seq(Codec!Byte), NEW signed \in BOOLEAN
  PROVE  Codec!AnswersRead(id, present, code, codes, stale, signed)
<1>1. Codec!DeserializeAck(Codec!BrokerAck(Codec!PUBACK, id), 4, Codec!UNSUBACK).rc = Codec!InvalidPacketType
  <2>1. Codec!BrokerAck(Codec!PUBACK, id)[1] = 64
    <3>1. Codec!WriteInt(id) \in Seq(Codec!Byte)
      BY IntIsRead
    <3> QED
      BY <3>1 DEF Codec!BrokerAck, Codec!PUBACK
  <2>2. Codec!Checked(Codec!BrokerAck(Codec!PUBACK, id), 4, Codec!UNSUBACK)
            = Codec!Failed(Codec!InvalidPacketType)
    <3> DEFINE p == Codec!BrokerAck(Codec!PUBACK, id)
    <3> HIDE DEF p
    <3>1. p[1] = 64
      BY <2>1 DEF p
    <3>2. ~Codec!TypeIs(p, Codec!UNSUBACK) /\ ~(4 < Codec!MinFixedHeader)
      BY <3>1 DEF Codec!TypeIs, Codec!UNSUBACK, Codec!MinFixedHeader
    <3> QED
      BY <3>2 DEF Codec!Checked, p
  <2> QED
    BY <2>2 DEF Codec!DeserializeAck, Codec!Failed, Codec!InvalidPacketType, Codec!Ok
<1>2. Codec!DeserializePingresp(Codec!BrokerPingresp \o stale, 2).rc = Codec!Ok
  <2> DEFINE rest == <<>>
             first == 208
  <2>1. /\ first \in Codec!Byte /\ first \div 16 = Codec!PINGRESP
        /\ rest \in Seq(Codec!Byte) /\ Len(rest) = 0
    BY DEF Codec!Byte, Codec!PINGRESP
  <2>2. Codec!BrokerPingresp = Answer(first, rest)
    BY DEF Codec!BrokerPingresp, Codec!PINGRESP, Answer
  <2> HIDE DEF rest, first
  <2>3. Len(rest) < 128 /\ 2 + Len(rest) = 2
    BY <2>1
  <2>4. IsAnswered(Answer(first, rest) \o stale, Codec!PINGRESP, first, rest)
    BY Zenon, <2>1, <2>3, AnswerIsChecked
  <2>5. Codec!Checked(Codec!BrokerPingresp \o stale, 2, Codec!PINGRESP) = [rc |-> Codec!Ok, at |-> 3, len |-> 0]
    BY <2>1, <2>2, <2>3, <2>4 DEF IsAnswered
  <2> QED
    BY <2>5 DEF Codec!DeserializePingresp
<1>3. \A type \in {Codec!PUBACK, Codec!UNSUBACK} :
        /\ Codec!DeserializeAck(Codec!BrokerAck(type, id) \o stale, 4, type) = [rc |-> Codec!Ok, id |-> id]
        /\ Codec!DeserializeAck(Codec!BrokerAck(type, id) \o stale, 3, type).rc = Codec!ShortBuffer
  BY AckIsRead
<1> QED
  BY <1>1, <1>2, <1>3, OwnPacketsAreRead, ConnackIsRead, CodesAreRead DEF Codec!AnswersRead
=============================================================================
