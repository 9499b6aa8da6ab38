------------------------ MODULE MqttSubscribe_proofs ------------------------
(***************************************************************************)
(* What holds of MqttSubscribe for any number of filters, slots, requests  *)
(* and calls.  BaseInv, the types and the identities of calls, nodes and   *)
(* packets, holds whatever goes wrong; the invariants on top of it are     *)
(* those of the properties.                                                *)
(***************************************************************************)
EXTENDS MqttSubscribe, SequenceFacts, TLAPS

\* The nodes, requests or answers of a sequence; and no two of them have the same packet id.
Elements(q)   == {q[k] : k \in DOMAIN q}
Identified(q) == \A j, k \in DOMAIN q : q[j].id = q[k].id => j = k

Waiting == Elements(list_sub_wait_ack)

\* The call whose handle is in slot i.
Held(i) == sub_handles[i].call

\* Handles come from calls that were made, and no two are for the same filter.
TableInv ==
    /\ \A i \in Slots : Held(i) <= Len(filter)
    /\ \A i, j \in Slots : Held(i) # 0 /\ Held(j) # 0 /\ filter[Held(i)] = filter[Held(j)] => i = j

\* A packet id stands for one request, and is not in use before its call.
AcceptedInv ==
    /\ \A r \in accepted : r.id <= Len(filter)
    /\ \A r, s \in accepted : r.id = s.id => r = s
    /\ \A n \in Calls : n > Len(filter) => events[n] = 0

\* What waits was accepted.
ListInv == Waiting \subseteq accepted /\ Identified(list_sub_wait_ack)

\* So was what is on its way, but for the requests of resubscribe, which have no number here.
RequestInv ==
    \A r \in Elements(requests) :
        /\ r.id = 0 => r.type = "SUBSCRIBE"
        /\ r.id # 0 => [id |-> r.id, type |-> r.type] \in accepted /\ r.topic = filter[r.id]

AnswerInv ==
    \A r \in Elements(answers) :
        /\ r.id = 0 => r.type = "SUBACK"
        /\ r.id # 0 => \/ r.type = "SUBACK" /\ [id |-> r.id, type |-> "SUBSCRIBE"] \in accepted
                       \/ r.type = "UNSUBACK" /\ [id |-> r.id, type |-> "UNSUBSCRIBE"] \in accepted

BaseInv == TypeOK /\ TableInv /\ AcceptedInv /\ ListInv /\ RequestInv /\ AnswerInv

-----------------------------------------------------------------------------
(* Sequences. *)

\* DOMAIN of a sequence, and its elements.
LEMMA ElementsFacts ==
  ASSUME NEW S, NEW q \in Seq(S)
  PROVE  DOMAIN q = 1..Len(q) /\ Elements(q) \subseteq S
BY DEF Elements

LEMMA ElementsOfEmpty == Elements(<<>>) = {}
BY DEF Elements

LEMMA ElementsOfAppend ==
  ASSUME NEW S, NEW q \in Seq(S), NEW x \in S
  PROVE  /\ Elements(Append(q, x)) = Elements(q) \cup {x}
         /\ Identified(q) /\ (\A y \in Elements(q) : y.id # x.id) => Identified(Append(q, x))
<1> DEFINE r == Append(q, x)
<1>1. /\ DOMAIN r = 1..(Len(q) + 1) /\ DOMAIN q = 1..Len(q)
      /\ \A i \in 1..Len(q) : r[i] = q[i]
      /\ r[Len(q) + 1] = x
  BY AppendProperties, LenProperties
<1> HIDE DEF r
<1>2. Elements(r) = Elements(q) \cup {x}
  BY <1>1 DEF Elements
<1>3. Identified(q) /\ (\A y \in Elements(q) : y.id # x.id) => Identified(r)
  BY <1>1 DEF Elements, Identified
<1> QED
  BY <1>2, <1>3 DEF r

LEMMA ElementsOfTail ==
  ASSUME NEW S, NEW q \in Seq(S), q # <<>>
  PROVE  /\ Tail(q) \in Seq(S) /\ Head(q) \in Elements(q) /\ Head(q) = q[1]
         /\ DOMAIN q = 1..Len(q) /\ Len(q) >= 1 /\ DOMAIN Tail(q) = 1..(Len(q) - 1)
         /\ \A i \in 1..(Len(q) - 1) : Tail(q)[i] = q[i + 1]
         /\ Elements(Tail(q)) \subseteq Elements(q)
<1>1. /\ Tail(q) \in Seq(S) /\ Head(q) = q[1]
      /\ DOMAIN q = 1..Len(q) /\ Len(q) >= 1 /\ DOMAIN Tail(q) = 1..(Len(q) - 1)
      /\ \A i \in 1..(Len(q) - 1) : Tail(q)[i] = q[i + 1]
  BY HeadTailProperties, LenProperties
<1>2. Elements(Tail(q)) \subseteq Elements(q)
  BY <1>1 DEF Elements
<1>3. Head(q) \in Elements(q)
  BY <1>1 DEF Elements
<1> QED
  BY <1>1, <1>2, <1>3

\* A set of slots has its first.
LEMMA LeastSlot ==
  ASSUME NEW S \in SUBSET Slots, S # {}
  PROVE  Least(S) \in S
<1>1. S \in SUBSET Nat
  BY SubscribeAssumption DEF SubscribeAssumption, Slots
<1> QED
  BY <1>1, LeastElement DEF Least

LEMMA WaitsIsWaiting == \A n : Waits(n) <=> \E x \in Waiting : x.id = n
BY DEF Waits, Waiting, Elements

\* The node of n is taken from the list, and no other.
LEMMA PoppedFacts ==
  ASSUME TypeOK, Identified(list_sub_wait_ack), NEW n
  PROVE  /\ Popped(n) \in Seq(Nodes) /\ Len(Popped(n)) <= Len(list_sub_wait_ack)
         /\ Elements(Popped(n)) = {x \in Waiting : x.id # n}
         /\ Identified(Popped(n))
<1> DEFINE l == list_sub_wait_ack
           K == {k \in DOMAIN l : l[k].id = n}
<1>1. l \in Seq(Nodes) /\ DOMAIN l = 1..Len(l) /\ Len(l) \in Nat
  BY DEF TypeOK
<1>2. CASE ~Waits(n)
  BY <1>1, <1>2 DEF Popped, Waits, Waiting, Elements
<1>3. CASE Waits(n)
  <2>1. K # {} /\ K \in SUBSET Nat
    BY <1>1, <1>3 DEF Waits
  <2>2. PICK m \in K : m = Least(K)
    BY <2>1, LeastElement DEF Least
  <2>3. m \in 1..Len(l) /\ l[m].id = n /\ \A k \in 1..Len(l) : k # m => l[k].id # n
    <3>1. m \in 1..Len(l) /\ l[m].id = n
      BY <1>1, <2>2
    <3>2. \A j, k \in 1..Len(l) : l[j].id = l[k].id => j = k
      BY <1>1 DEF Identified
    <3> HIDE DEF l
    <3> QED
      BY <3>1, <3>2
  <2> DEFINE r == RemoveAt(l, m)
  <2>4. Popped(n) = r
    BY <1>3, <2>2 DEF Popped
  <2>5. /\ r \in Seq(Nodes) /\ Len(r) = Len(l) - 1 /\ DOMAIN r = 1..(Len(l) - 1)
        /\ \A i \in 1..(Len(l) - 1) : r[i] = IF i < m THEN l[i] ELSE l[i + 1]
    <3>1. r \in Seq(Nodes) /\ Len(r) = Len(l) - 1
      BY <1>1, <2>3, RemoveAtFacts
    <3>2. \A i \in 1..(Len(l) - 1) : r[i] = IF i < m THEN l[i] ELSE l[i + 1]
      BY <1>1, <2>3, RemoveAtFacts
    <3> HIDE DEF r
    <3>3. DOMAIN r = 1..(Len(l) - 1)
      BY <3>1, LenProperties
    <3> QED
      BY <3>1, <3>2, <3>3
  <2> HIDE DEF r, K, l
  <2>6. Elements(r) \subseteq {x \in Elements(l) : x.id # n}
    BY <1>1, <2>3, <2>5 DEF Elements
  <2>7. ASSUME NEW k \in 1..Len(l), l[k].id # n
        PROVE  \E i \in 1..(Len(l) - 1) : r[i] = l[k]
    <3>1. CASE k < m
      <4>1. k \in 1..(Len(l) - 1)
        BY <1>1, <2>3, <3>1
      <4> QED
        BY <2>5, <3>1, <4>1
    <3>2. CASE k > m
      <4>1. k - 1 \in 1..(Len(l) - 1) /\ ~(k - 1 < m) /\ (k - 1) + 1 = k
        BY <1>1, <2>3, <3>2
      <4> QED
        BY <2>5, <4>1
    <3>3. k < m \/ k > m
      BY <1>1, <2>3, <2>7
    <3> QED
      BY <3>1, <3>2, <3>3
  <2>8. {x \in Elements(l) : x.id # n} \subseteq Elements(r)
    <3> SUFFICES ASSUME NEW x \in Elements(l), x.id # n
                 PROVE  x \in Elements(r)
      OBVIOUS
    <3>1. PICK k \in 1..Len(l) : x = l[k]
      BY <1>1 DEF Elements
    <3> QED
      BY <2>5, <2>7, <3>1 DEF Elements
  <2>9. Identified(r)
    <3> SUFFICES ASSUME NEW i \in 1..(Len(l) - 1), NEW j \in 1..(Len(l) - 1), r[i].id = r[j].id
                 PROVE  i = j
      BY <2>5 DEF Identified
    <3>1. \A h, k \in 1..Len(l) : l[h].id = l[k].id => h = k
      BY <1>1 DEF Identified, l
    <3> DEFINE o(h) == IF h < m THEN h ELSE h + 1
    <3>2. o(i) \in 1..Len(l) /\ o(j) \in 1..Len(l) /\ r[i] = l[o(i)] /\ r[j] = l[o(j)]
      BY <1>1, <2>3, <2>5
    <3>3. o(i) = o(j)
      BY <3>1, <3>2
    <3> QED
      BY <2>3, <3>3
  <2> QED
    BY <1>1, <2>4, <2>5, <2>6, <2>8, <2>9 DEF Waiting, l
<1> QED
  BY <1>2, <1>3

\* The first k nodes are taken from the list.
LEMMA ExpiredFacts ==
  ASSUME TypeOK, Identified(list_sub_wait_ack), NEW k \in DOMAIN list_sub_wait_ack
  PROVE  LET rest    == SubSeq(list_sub_wait_ack, k + 1, Len(list_sub_wait_ack))
             expired == {list_sub_wait_ack[j].id : j \in 1..k}
         IN  /\ rest \in Seq(Nodes) /\ Len(rest) <= Len(list_sub_wait_ack)
             /\ Elements(rest) = {x \in Waiting : x.id \notin expired}
             /\ expired \subseteq {x.id : x \in Waiting}
             /\ Identified(rest)
<1> DEFINE l == list_sub_wait_ack
           rest == SubSeq(l, k + 1, Len(l))
           expired == {l[j].id : j \in 1..k}
<1>1. l \in Seq(Nodes) /\ DOMAIN l = 1..Len(l) /\ Len(l) \in Nat /\ k \in 1..Len(l)
  BY DEF TypeOK
<1>2. /\ rest \in Seq(Nodes) /\ Len(rest) = Len(l) - k /\ DOMAIN rest = 1..(Len(l) - k)
      /\ \A i \in 1..(Len(l) - k) : rest[i] = l[k + i]
  <2>1. \A i \in (k + 1)..Len(l) : l[i] \in Nodes
    BY <1>1
  <2>2. /\ rest \in Seq(Nodes) /\ Len(rest) = IF k + 1 <= Len(l) THEN Len(l) - (k + 1) + 1 ELSE 0
        /\ \A i \in 1..(Len(l) - (k + 1) + 1) : rest[i] = l[(k + 1) + i - 1]
    BY <1>1, <2>1, SubSeqProperties
  <2>3. Len(rest) = Len(l) - k /\ Len(l) - (k + 1) + 1 = Len(l) - k
    BY <1>1, <2>2
  <2>4. DOMAIN rest = 1..(Len(l) - k)
    BY <2>2, <2>3, LenProperties
  <2>5. \A i \in 1..(Len(l) - k) : rest[i] = l[k + i]
    <3>1. \A i \in 1..(Len(l) - k) : (k + 1) + i - 1 = k + i
      OBVIOUS
    <3> HIDE DEF rest, l
    <3> QED
      BY <2>2, <2>3, <3>1
  <2> QED
    BY <2>2, <2>3, <2>4, <2>5
<1> HIDE DEF rest
<1>3. expired \subseteq {x.id : x \in Waiting}
  BY <1>1 DEF Waiting, Elements
<1>4. \A j, m \in 1..Len(l) : l[j].id = l[m].id => j = m
  BY <1>1 DEF Identified
<1> HIDE DEF l
<1>5. Elements(rest) \subseteq {x \in Elements(l) : x.id \notin expired}
  BY <1>1, <1>2, <1>4 DEF Elements
<1>6. ASSUME NEW j \in 1..Len(l), l[j].id \notin expired
      PROVE  \E i \in 1..(Len(l) - k) : rest[i] = l[j]
  <2>1. j > k
    BY <1>1, <1>6
  <2>2. j - k \in 1..(Len(l) - k) /\ k + (j - k) = j
    BY <1>1, <2>1
  <2> QED
    BY <1>2, <2>2
<1>7. {x \in Elements(l) : x.id \notin expired} \subseteq Elements(rest)
  <2> SUFFICES ASSUME NEW x \in Elements(l), x.id \notin expired
               PROVE  x \in Elements(rest)
    OBVIOUS
  <2>1. PICK j \in 1..Len(l) : x = l[j]
    BY <1>1 DEF Elements
  <2> QED
    BY <1>2, <1>6, <2>1 DEF Elements
<1>8. Identified(rest)
  <2> SUFFICES ASSUME NEW i \in 1..(Len(l) - k), NEW j \in 1..(Len(l) - k), rest[i].id = rest[j].id
               PROVE  i = j
    BY <1>2 DEF Identified
  <2>1. k + i \in 1..Len(l) /\ k + j \in 1..Len(l) /\ l[k + i].id = l[k + j].id
    BY <1>1, <1>2
  <2> QED
    BY <1>1, <1>4, <2>1
<1>9. Len(rest) <= Len(l)
  BY <1>1, <1>2
<1> QED
  BY <1>2, <1>3, <1>5, <1>7, <1>8, <1>9 DEF Waiting, l, rest

-----------------------------------------------------------------------------
(* What the operators of the table do. *)

Handles == [Slots -> [call : 0..MaxCalls, status : BOOLEAN]]

LEMMA ClearFacts ==
  ASSUME sub_handles \in Handles, NEW S, ClearHandles(S)
  PROVE  /\ sub_handles' \in Handles
         /\ \A i \in Slots : /\ sub_handles'[i].call = IF i \in S THEN 0 ELSE Held(i)
                             /\ sub_handles'[i].status = sub_handles[i].status
BY SubscribeAssumption DEF SubscribeAssumption, Handles, ClearHandles, Held

LEMMA AddFacts ==
  ASSUME sub_handles \in Handles, NEW i \in Slots, NEW n \in Calls, AddHandle(i, n)
  PROVE  /\ sub_handles' \in Handles
         /\ \A j \in Slots : sub_handles'[j] = IF j = i THEN [call |-> n, status |-> FALSE] ELSE sub_handles[j]
BY SubscribeAssumption DEF SubscribeAssumption, Handles, AddHandle, Calls

LEMMA HoldersFacts ==
  ASSUME NEW t
  PROVE  /\ Holders(t) \in SUBSET Slots /\ Unused \in SUBSET Slots
         /\ \A i \in Slots : i \in Holders(t) <=> Held(i) # 0 /\ filter[Held(i)] = t
         /\ \A i \in Slots : i \in Unused <=> Held(i) = 0
         /\ SlotFor(t) # {} => Least(SlotFor(t)) \in SlotFor(t) /\ SlotFor(t) \subseteq Slots
<1>1. Holders(t) \in SUBSET Slots /\ Unused \in SUBSET Slots
  BY DEF Holders, Unused
<1>2. SlotFor(t) \in SUBSET Slots
  BY <1>1 DEF SlotFor
<1> QED
  BY <1>1, <1>2, LeastSlot DEF Holders, Unused, Held

LEMMA StatusFacts ==
  ASSUME sub_handles \in Handles, NEW t, SetStatus(t)
  PROVE  /\ sub_handles' \in Handles
         /\ \A i \in Slots : /\ sub_handles'[i].call = Held(i)
                             /\ \/ sub_handles'[i].status = sub_handles[i].status
                                \/ i \in Holders(t) /\ sub_handles'[i].status = TRUE
<1>1. CASE Holders(t) = {}
  BY <1>1 DEF SetStatus, Held, Handles
<1>2. CASE Holders(t) # {}
  <2>1. Least(Holders(t)) \in Holders(t) /\ Least(Holders(t)) \in Slots
    BY <1>2, HoldersFacts, LeastSlot
  <2> QED
    BY <1>2, <2>1 DEF SetStatus, Held, Handles
<1> QED
  BY <1>1, <1>2

-----------------------------------------------------------------------------
(* The steps. *)

\* A call is for a filter of its own number.
Extends ==
    /\ filter' \in Seq(Topics) /\ Len(filter') <= MaxCalls
    /\ Len(filter) <= Len(filter')
    /\ \A n \in 1..Len(filter) : filter'[n] = filter[n]

LEMMA CallFacts ==
  ASSUME TypeOK, NEW t \in Topics, MayCall(t)
  PROVE  /\ Extends
         /\ Len(filter) + 1 \in Calls /\ Len(filter') = Len(filter) + 1
         /\ filter'[Len(filter) + 1] = t
         /\ is_connected /\ ~destroyed
<1>1. filter \in Seq(Topics) /\ filter' = Append(filter, t) /\ Len(filter) < MaxCalls
  BY DEF TypeOK, MayCall
<1>2. /\ filter' \in Seq(Topics) /\ Len(filter') = Len(filter) + 1
      /\ \A n \in 1..Len(filter) : filter'[n] = filter[n]
      /\ filter'[Len(filter) + 1] = t
  BY <1>1, AppendProperties
<1>3. Len(filter) \in Nat /\ MaxCalls \in Nat
  BY <1>1, SubscribeAssumption DEF SubscribeAssumption
<1> QED
  BY <1>1, <1>2, <1>3 DEF Extends, Calls, MayCall

\* Either a call is made or none is.
LEMMA FilterStep ==
  ASSUME TypeOK, Next
  PROVE  Extends /\ (filter' = filter \/ \E t \in Topics : MayCall(t))
<1>1. (\E t \in Topics : MayCall(t)) \/ filter' = filter
  BY DEF Next, Application, Subscribe, SubscribeFails, SubscribeNoRoom, Unsubscribe, Destroy, Yield,
     SubackUnknown, SubackGranted, SubackRefused, Unsuback, Reads, CheckSubTimeout, HandleDisconnect,
     HandleReconnect, Environment, BrokerGrants, BrokerRefuses, LinkFails, callVars
<1>2. filter' = filter => Extends
  BY DEF TypeOK, Extends
<1> QED
  BY <1>1, <1>2, CallFacts

\* The table: slots are cleared, or one is taken by the call that is made.
TakesSlot(t) ==
    \E i \in SlotFor(t) :
        /\ Extends /\ Len(filter') = Len(filter) + 1 /\ filter'[Len(filter) + 1] = t
        /\ Len(filter) + 1 \in Calls
        /\ \A j \in Slots : sub_handles'[j] = IF j = i THEN [call |-> Len(filter) + 1, status |-> FALSE]
                                              ELSE sub_handles[j]

ClearsSlots == \A i \in Slots : sub_handles'[i].call \in {0, Held(i)}

LEMMA HandlesStep ==
  ASSUME TypeOK, Next
  PROVE  /\ sub_handles' \in Handles
         /\ ClearsSlots \/ \E t \in Topics : Subscribe(t) /\ TakesSlot(t)
<1>1. sub_handles \in Handles
  BY DEF TypeOK, Handles
<1>2. ASSUME NEW t \in Topics, Subscribe(t)
      PROVE  sub_handles' \in Handles /\ TakesSlot(t)
  <2> DEFINE i == Least(SlotFor(t))
             n == Len(filter) + 1
  <2>1. MayCall(t) /\ SlotFor(t) # {} /\ AddHandle(i, n)
    BY <1>2 DEF Subscribe
  <2>2. i \in SlotFor(t) /\ i \in Slots /\ n \in Calls
    BY <2>1, CallFacts, HoldersFacts
  <2>3. /\ sub_handles' \in Handles
        /\ \A j \in Slots : sub_handles'[j] = IF j = i THEN [call |-> n, status |-> FALSE] ELSE sub_handles[j]
    BY <1>1, <2>1, <2>2, AddFacts
  <2> HIDE DEF i
  <2> QED
    BY <2>1, <2>2, <2>3, CallFacts DEF TakesSlot
<1>3. ASSUME NEW S, ClearHandles(S)
      PROVE  sub_handles' \in Handles /\ ClearsSlots
  BY <1>1, <1>3, ClearFacts DEF ClearsSlots
<1>4. ASSUME NEW t, SetStatus(t)
      PROVE  sub_handles' \in Handles /\ ClearsSlots
  BY <1>1, <1>4, StatusFacts DEF ClearsSlots
<1>5. CASE UNCHANGED sub_handles
  BY <1>1, <1>5 DEF ClearsSlots, Held
<1>6. \/ \E t \in Topics : Subscribe(t)
      \/ \E S : ClearHandles(S)
      \/ \E t : SetStatus(t)
      \/ UNCHANGED sub_handles
  BY DEF Next, Application, SubscribeFails, SubscribeNoRoom, Unsubscribe, Destroy, Yield,
     SubackUnknown, SubackGranted, SubackRefused, Unsuback, Reads, CheckSubTimeout, HandleDisconnect,
     HandleReconnect, Environment, BrokerGrants, BrokerRefuses, LinkFails, tableVars
<1> QED
  BY <1>2, <1>3, <1>4, <1>5, <1>6

LEMMA TableStep ==
  ASSUME BaseInv, Next
  PROVE  TableInv'
<1>1. /\ sub_handles \in Handles /\ sub_handles' \in Handles
      /\ filter \in Seq(Topics) /\ Len(filter) \in Nat
  BY HandlesStep DEF BaseInv, TypeOK, Handles
<1>2. Extends
  BY FilterStep DEF BaseInv
<1>3. CASE ClearsSlots
  BY <1>1, <1>2, <1>3 DEF ClearsSlots, Extends, BaseInv, TableInv, Held, Handles
<1>4. ASSUME NEW t \in Topics, TakesSlot(t)
      PROVE  TableInv'
  <2>1. PICK i \in SlotFor(t) :
           /\ Extends /\ Len(filter') = Len(filter) + 1 /\ filter'[Len(filter) + 1] = t
           /\ Len(filter) + 1 \in Calls
           /\ \A j \in Slots : sub_handles'[j] = IF j = i THEN [call |-> Len(filter) + 1, status |-> FALSE]
                                                 ELSE sub_handles[j]
    BY <1>4 DEF TakesSlot
  <2>2. \A j \in Slots : sub_handles'[j].call = IF j = i THEN Len(filter) + 1 ELSE Held(j)
    BY <1>1, <2>1 DEF Held, Handles
  <2>3. \A j \in Slots : Held(j) \in 0..Len(filter)
    BY <1>1 DEF BaseInv, TableInv, Held, Handles
  <2>4. \A j \in Slots : Held(j) # 0 => filter'[Held(j)] = filter[Held(j)]
    BY <1>1, <2>1, <2>3 DEF Extends
  <2>5. \A j \in Slots : Held(j) # 0 /\ j # i => filter[Held(j)] # t
    <3>1. i \in Holders(t) \/ Holders(t) = {}
      BY DEF SlotFor
    <3> QED
      BY <3>1, HoldersFacts DEF BaseInv, TableInv
  <2>6. \A j \in Slots : sub_handles'[j].call <= Len(filter')
    BY <1>1, <2>1, <2>2, <2>3
  <2>7. ASSUME NEW j \in Slots, NEW k \in Slots, sub_handles'[j].call # 0, sub_handles'[k].call # 0,
               filter'[sub_handles'[j].call] = filter'[sub_handles'[k].call]
        PROVE  j = k
    <3>1. CASE j = i \/ k = i
      BY <2>1, <2>2, <2>4, <2>5, <2>7, <3>1
    <3>2. CASE j # i /\ k # i
      BY <2>2, <2>4, <2>7, <3>2 DEF BaseInv, TableInv
    <3> QED
      BY <3>1, <3>2
  <2> QED
    BY <2>6, <2>7 DEF TableInv, Held
<1> QED
  BY <1>3, <1>4, HandlesStep DEF BaseInv

\* The waiting list: a node is appended, the node of an answer is taken, the first nodes expire,
\* or the list is cleared.
Appends ==
    \E x \in Nodes :
        /\ x.id = Len(filter) + 1 /\ Len(filter') = Len(filter) + 1
        /\ list_sub_wait_ack' = Append(list_sub_wait_ack, x) /\ Len(list_sub_wait_ack) < MaxWaiting
        /\ accepted' = accepted \cup {x}
        /\ UNCHANGED events

Takes ==
    \E n \in Calls :
        /\ Waits(n) \/ [id |-> n, type |-> "UNSUBSCRIBE"] \in accepted
        /\ list_sub_wait_ack' = Popped(n)
        /\ Raise({n})
        /\ UNCHANGED callVars

Expires ==
    \E k \in DOMAIN list_sub_wait_ack :
        /\ list_sub_wait_ack' = SubSeq(list_sub_wait_ack, k + 1, Len(list_sub_wait_ack))
        /\ Raise({list_sub_wait_ack[j].id : j \in 1..k})
        /\ UNCHANGED callVars

Clears == destroyed' /\ list_sub_wait_ack' = <<>> /\ UNCHANGED <<callVars, events>>

KeepsWaiting == UNCHANGED <<list_sub_wait_ack, accepted, events>>

\* The answer that is read belongs to a request that was accepted.
LEMMA AnswerFacts ==
  ASSUME TypeOK, AnswerInv, answers # <<>>
  PROVE  /\ Head(answers) \in Answers /\ Head(answers) \in Elements(answers)
         /\ Head(answers).type = "UNSUBACK" =>
              /\ Head(answers).id \in Calls
              /\ [id |-> Head(answers).id, type |-> "UNSUBSCRIBE"] \in accepted
<1>1. Head(answers) \in Answers /\ Head(answers) \in Elements(answers)
  BY HeadTailProperties, ElementsOfTail DEF TypeOK
<1> DEFINE h == Head(answers)
<1> HIDE DEF h
<1>2. h.id \in 0..MaxCalls /\ MaxCalls \in Nat
  BY <1>1, SubscribeAssumption DEF Answers, SubscribeAssumption, h
<1>3. h.type = "UNSUBACK" => h.id # 0 /\ [id |-> h.id, type |-> "UNSUBSCRIBE"] \in accepted
  BY <1>1 DEF AnswerInv, h
<1> QED
  BY <1>1, <1>2, <1>3 DEF Calls, h

LEMMA WaitingStep ==
  ASSUME BaseInv, Next
  PROVE  Appends \/ Takes \/ Expires \/ Clears \/ KeepsWaiting
<1> USE DEF BaseInv
<1>1. ASSUME NEW t \in Topics, NEW type \in {"SUBSCRIBE", "UNSUBSCRIBE"}, MayCall(t), Request(Len(filter) + 1, type),
             UNCHANGED events
      PROVE  Appends
  <2> DEFINE x == [id |-> Len(filter) + 1, type |-> type]
  <2>1. x \in Nodes /\ Len(filter') = Len(filter) + 1
    BY <1>1, CallFacts DEF Nodes
  <2>2. Len(list_sub_wait_ack) < MaxWaiting
    BY <1>1, SubscribeAssumption DEF Request, ListFull, TypeOK, SubscribeAssumption
  <2> QED
    BY <1>1, <2>1, <2>2 DEF Request, Appends
<1>2. ASSUME NEW t \in Topics, Subscribe(t) \/ SubscribeFails(t) \/ SubscribeNoRoom(t) \/ Unsubscribe(t)
      PROVE  Appends \/ KeepsWaiting
  BY <1>1, <1>2 DEF Subscribe, SubscribeFails, SubscribeNoRoom, Unsubscribe, RequestFails, KeepsWaiting
<1>3. CASE Destroy
  BY <1>3 DEF Destroy, Clears, callVars
<1>4. CASE SubackGranted \/ SubackRefused
  <2>1. Waits(Head(answers).id)
    BY <1>4 DEF SubackGranted, SubackRefused
  <2>2. Head(answers).id \in Calls
    <3>1. Waiting \subseteq Nodes
      BY ElementsFacts DEF Waiting, TypeOK
    <3>2. PICK x \in Waiting : x.id = Head(answers).id
      BY <2>1, WaitsIsWaiting
    <3> QED
      BY <3>1, <3>2 DEF Nodes
  <2> QED
    BY <1>4, <2>1, <2>2 DEF SubackGranted, SubackRefused, Reads, Takes
<1>5. CASE Unsuback
  BY <1>5, AnswerFacts DEF Unsuback, Reads, Takes
<1>6. CASE CheckSubTimeout
  BY <1>6 DEF CheckSubTimeout, Expires
<1>7. CASE SubackUnknown \/ HandleDisconnect \/ HandleReconnect \/ Environment
  BY <1>7 DEF SubackUnknown, HandleDisconnect, HandleReconnect, Environment, BrokerGrants, BrokerRefuses,
     LinkFails, Reads, KeepsWaiting, callVars, tableVars
<1> QED
  BY <1>2, <1>3, <1>4, <1>5, <1>6, <1>7 DEF Next, Application, Yield

\* A subscription that has its answer waits no more, and the other way around.
LEMMA ListStep ==
  ASSUME BaseInv, AcceptedIsAnswered, Next
  PROVE  /\ ListInv' /\ AcceptedInv' /\ AcceptedIsAnswered'
         /\ list_sub_wait_ack' \in Seq(Nodes) /\ Len(list_sub_wait_ack') <= MaxWaiting
         /\ accepted' \in SUBSET Nodes /\ accepted \subseteq accepted' /\ events' \in [Calls -> Nat]
<1>1. /\ list_sub_wait_ack \in Seq(Nodes) /\ Len(list_sub_wait_ack) \in Nat
      /\ Len(list_sub_wait_ack) <= MaxWaiting /\ MaxWaiting \in Nat
      /\ accepted \in SUBSET Nodes /\ events \in [Calls -> Nat]
      /\ filter \in Seq(Topics) /\ Len(filter) \in Nat
  BY SubscribeAssumption DEF BaseInv, TypeOK, SubscribeAssumption
<1>2. /\ \A r \in accepted : r.id <= Len(filter) /\ r.id \in Calls
      /\ \A r, s \in accepted : r.id = s.id => r = s
      /\ \A n \in Calls : n > Len(filter) => events[n] = 0
      /\ Waiting \subseteq accepted /\ Identified(list_sub_wait_ack)
  BY <1>1 DEF BaseInv, AcceptedInv, ListInv, Nodes
<1>3. ~destroyed => \A r \in accepted :
        \/ (\E x \in Waiting : x.id = r.id) /\ events[r.id] = 0
        \/ ~(\E x \in Waiting : x.id = r.id) /\ events[r.id] >= 1 /\ (r.type = "SUBSCRIBE" => events[r.id] = 1)
  BY WaitsIsWaiting DEF AcceptedIsAnswered
<1>4. destroyed => destroyed'
  BY DEF Next, Application, Subscribe, SubscribeFails, SubscribeNoRoom, Unsubscribe, Destroy, Yield,
     SubackUnknown, SubackGranted, SubackRefused, Unsuback, Reads, CheckSubTimeout, HandleDisconnect,
     HandleReconnect, Environment, BrokerGrants, BrokerRefuses, LinkFails
<1>5. Extends
  BY FilterStep DEF BaseInv
<1>6. Len(filter') \in Nat /\ Len(filter) <= Len(filter')
  BY <1>1, <1>5 DEF Extends
<1> DEFINE Waits2(n) == \E x \in Waiting' : x.id = n
<1>7. \A n : Waits(n)' <=> Waits2(n)
  BY DEF Waits, Waiting, Elements
<1> HIDE DEF Waits2
<1>8. ASSUME Waiting' \subseteq accepted', Identified(list_sub_wait_ack)',
             \A r \in accepted' : r.id <= Len(filter'),
             \A r, s \in accepted' : r.id = s.id => r = s,
             \A n \in Calls : n > Len(filter') => events'[n] = 0,
             ~destroyed' => \A r \in accepted' :
                \/ Waits2(r.id) /\ events'[r.id] = 0
                \/ ~Waits2(r.id) /\ events'[r.id] >= 1 /\ (r.type = "SUBSCRIBE" => events'[r.id] = 1)
      PROVE  ListInv' /\ AcceptedInv' /\ AcceptedIsAnswered'
  <2>1. ListInv' /\ AcceptedInv'
    BY <1>8 DEF ListInv, AcceptedInv
  <2>2. AcceptedIsAnswered'
    BY <1>7, <1>8 DEF AcceptedIsAnswered
  <2> QED
    BY <2>1, <2>2
<1>9. CASE Appends
  <2>1. PICK x \in Nodes :
          /\ x.id = Len(filter) + 1 /\ Len(filter') = Len(filter) + 1
          /\ list_sub_wait_ack' = Append(list_sub_wait_ack, x) /\ Len(list_sub_wait_ack) < MaxWaiting
          /\ accepted' = accepted \cup {x}
          /\ UNCHANGED events
    BY <1>9 DEF Appends
  <2>2. \A r \in accepted : r.id # x.id
    BY <1>1, <1>2, <2>1
  <2>3. /\ Waiting' = Waiting \cup {x} /\ Identified(list_sub_wait_ack)'
        /\ list_sub_wait_ack' \in Seq(Nodes) /\ Len(list_sub_wait_ack') = Len(list_sub_wait_ack) + 1
    BY <1>1, <1>2, <2>1, <2>2, ElementsOfAppend, AppendProperties DEF Waiting, Identified
  <2>4. x.id \in Calls /\ events[x.id] = 0
    BY <1>1, <1>2, <2>1 DEF Nodes
  <2>5. \A r \in accepted' : r.id <= Len(filter')
    BY <1>1, <1>2, <2>1 DEF Calls
  <2>6. \A r, s \in accepted' : r.id = s.id => r = s
    BY <1>2, <2>1, <2>2
  <2>7. \A n \in Calls : n > Len(filter') => events'[n] = 0
    BY <1>1, <1>2, <2>1 DEF Calls
  <2>8. \A r \in accepted : Waits2(r.id) <=> \E y \in Waiting : y.id = r.id
    BY <2>2, <2>3 DEF Waits2
  <2>9. Waits2(x.id)
    BY <2>3 DEF Waits2
  <2>10. ~destroyed' => \A r \in accepted' :
            \/ Waits2(r.id) /\ events'[r.id] = 0
            \/ ~Waits2(r.id) /\ events'[r.id] >= 1 /\ (r.type = "SUBSCRIBE" => events'[r.id] = 1)
    BY <1>3, <1>4, <2>1, <2>4, <2>8, <2>9
  <2> QED
    BY <1>1, <1>2, <1>8, <2>1, <2>3, <2>5, <2>6, <2>7, <2>10
<1>10. ASSUME NEW S \in SUBSET Calls, Raise(S),
              UNCHANGED callVars,
              Waiting' = {x \in Waiting : x.id \notin S}, Identified(list_sub_wait_ack)',
              \A n \in S : (\E x \in Waiting : x.id = n) \/ [id |-> n, type |-> "UNSUBSCRIBE"] \in accepted
       PROVE  /\ ListInv' /\ AcceptedInv' /\ AcceptedIsAnswered'
              /\ accepted' \in SUBSET Nodes /\ accepted \subseteq accepted' /\ events' \in [Calls -> Nat]
  <2>1. accepted' = accepted /\ filter' = filter
    BY <1>10 DEF callVars
  <2>2. /\ \A n \in Calls : events'[n] = IF n \in S THEN events[n] + 1 ELSE events[n]
        /\ events' \in [Calls -> Nat]
    BY <1>1, <1>10 DEF Raise
  <2>3. \A n \in S : n <= Len(filter)
    BY <1>2, <1>10
  <2>4. \A n \in Calls : n > Len(filter') => events'[n] = 0
    BY <1>1, <1>2, <2>1, <2>2, <2>3 DEF Calls
  <2>5. ASSUME ~destroyed', NEW r \in accepted'
        PROVE  \/ Waits2(r.id) /\ events'[r.id] = 0
               \/ ~Waits2(r.id) /\ events'[r.id] >= 1 /\ (r.type = "SUBSCRIBE" => events'[r.id] = 1)
    <3>1. r \in accepted /\ r.id \in Calls /\ events[r.id] \in Nat
      BY <1>1, <1>2, <2>1
    <3>2. CASE r.id \notin S
      <4>1. Waits2(r.id) <=> \E x \in Waiting : x.id = r.id
        BY <1>10, <3>2 DEF Waits2
      <4> QED
        BY <1>3, <1>4, <2>2, <2>5, <3>1, <3>2, <4>1
    <3>3. CASE r.id \in S
      <4>1. ~Waits2(r.id) /\ events'[r.id] = events[r.id] + 1
        BY <1>10, <2>2, <3>1, <3>3 DEF Waits2
      <4>2. CASE \E x \in Waiting : x.id = r.id
        BY <1>3, <1>4, <2>5, <3>1, <4>1, <4>2
      <4>3. CASE [id |-> r.id, type |-> "UNSUBSCRIBE"] \in accepted
        <5>1. r.type = "UNSUBSCRIBE"
          BY <1>2, <3>1, <4>3
        <5> QED
          BY <3>1, <4>1, <5>1
      <4> QED
        BY <1>10, <3>3, <4>2, <4>3
    <3> QED
      BY <3>2, <3>3
  <2> QED
    BY <1>1, <1>2, <1>8, <1>10, <2>1, <2>2, <2>4, <2>5
<1>11. CASE Takes
  <2>1. PICK n \in Calls :
          /\ Waits(n) \/ [id |-> n, type |-> "UNSUBSCRIBE"] \in accepted
          /\ list_sub_wait_ack' = Popped(n)
          /\ Raise({n})
          /\ UNCHANGED callVars
    BY <1>11 DEF Takes
  <2>2. /\ Popped(n) \in Seq(Nodes) /\ Len(Popped(n)) <= Len(list_sub_wait_ack)
        /\ Elements(Popped(n)) = {x \in Waiting : x.id # n}
        /\ Identified(Popped(n))
    BY <1>2, PoppedFacts DEF BaseInv
  <2>3. Waiting' = {x \in Waiting : x.id \notin {n}} /\ Identified(list_sub_wait_ack)'
    BY <2>1, <2>2 DEF Waiting, Identified
  <2>4. Waits(n) => \E x \in Waiting : x.id = n
    BY WaitsIsWaiting
  <2> QED
    BY <1>1, <1>10, <2>1, <2>2, <2>3, <2>4
<1>12. CASE Expires
  <2>1. PICK k \in DOMAIN list_sub_wait_ack :
          /\ list_sub_wait_ack' = SubSeq(list_sub_wait_ack, k + 1, Len(list_sub_wait_ack))
          /\ Raise({list_sub_wait_ack[j].id : j \in 1..k})
          /\ UNCHANGED callVars
    BY <1>12 DEF Expires
  <2> DEFINE S == {list_sub_wait_ack[j].id : j \in 1..k}
  <2>2. /\ list_sub_wait_ack' \in Seq(Nodes) /\ Len(list_sub_wait_ack') <= Len(list_sub_wait_ack)
        /\ Waiting' = {x \in Waiting : x.id \notin S}
        /\ S \subseteq {x.id : x \in Waiting}
        /\ Identified(list_sub_wait_ack)'
    BY <1>2, <2>1, ExpiredFacts DEF BaseInv, Waiting, Identified
  <2>3. Raise(S)
    BY <2>1
  <2> HIDE DEF S
  <2>4. S \in SUBSET Calls /\ \A n \in S : \E x \in Waiting : x.id = n
    BY <1>2, <2>2
  <2> QED
    BY <1>1, <1>10, <2>1, <2>2, <2>3, <2>4
<1>13. CASE Clears
  <2>1. Waiting' = {} /\ Identified(list_sub_wait_ack)' /\ list_sub_wait_ack' \in Seq(Nodes) /\ Len(list_sub_wait_ack') = 0
    BY <1>13 DEF Clears, Waiting, Elements, Identified
  <2> QED
    BY <1>1, <1>2, <1>8, <1>13, <2>1 DEF Clears, callVars
<1>14. CASE KeepsWaiting
  <2>1. Waiting' = Waiting /\ Identified(list_sub_wait_ack)' /\ \A n : Waits2(n) <=> \E x \in Waiting : x.id = n
    BY <1>2, <1>14 DEF KeepsWaiting, Waiting, Identified, Waits2
  <2>2. /\ \A r \in accepted' : r.id <= Len(filter')
        /\ \A n \in Calls : n > Len(filter') => events'[n] = 0
    BY <1>1, <1>2, <1>6, <1>14 DEF KeepsWaiting, Calls
  <2> QED
    BY <1>1, <1>2, <1>3, <1>4, <1>8, <1>14, <2>1, <2>2 DEF KeepsWaiting
<1> QED
  BY <1>9, <1>11, <1>12, <1>13, <1>14, WaitingStep

\* resubscribe asks for the filter of every handle in the table.
LEMMA ResubscribedFacts ==
  ASSUME TypeOK, TableInv, NEW order \in InOrder(Slots \ Unused)
  PROVE  /\ Resubscribed(order) \in Seq(Requests) /\ DOMAIN Resubscribed(order) = DOMAIN order
         /\ \A k \in DOMAIN order :
              /\ order[k] \in Slots /\ Held(order[k]) # 0
              /\ Resubscribed(order)[k] = [id |-> 0, type |-> "SUBSCRIBE", topic |-> filter[Held(order[k])]]
         /\ \A i \in Slots : Held(i) # 0 => \E k \in DOMAIN order : order[k] = i
<1> DEFINE S == Slots \ Unused
<1>1. IsFiniteSet(Slots)
  BY SubscribeAssumption, FS_Interval DEF SubscribeAssumption, Slots
<1>2. Cardinality(S) \in Nat
  BY <1>1, FS_Subset, FS_CardinalityType
<1>3. order \in [1..Cardinality(S) -> S] /\ \A i \in S : \E k \in DOMAIN order : order[k] = i
  BY DEF InOrder
<1>4. \A i \in Slots : i \in S <=> Held(i) # 0
  BY HoldersFacts
<1> HIDE DEF S
<1>5. \A k \in 1..Cardinality(S) : order[k] \in Slots /\ Held(order[k]) # 0
  BY <1>3, <1>4 DEF S
<1>6. \A i \in Slots : Held(i) # 0 => filter[Held(i)] \in Topics
  <2> SUFFICES ASSUME NEW i \in Slots, Held(i) # 0
               PROVE  filter[Held(i)] \in Topics
    OBVIOUS
  <2>1. Held(i) \in 0..MaxCalls /\ Held(i) <= Len(filter)
    BY DEF TypeOK, TableInv, Held
  <2>2. Held(i) \in 1..Len(filter) /\ filter \in Seq(Topics)
    BY <2>1, SubscribeAssumption DEF SubscribeAssumption, TypeOK
  <2> QED
    BY <2>2
<1>7. \A k \in 1..Cardinality(S) : [id |-> 0, type |-> "SUBSCRIBE", topic |-> filter[Held(order[k])]] \in Requests
  BY <1>5, <1>6, SubscribeAssumption DEF SubscribeAssumption, Requests
<1>8. Resubscribed(order) = [k \in 1..Cardinality(S) |->
                               [id |-> 0, type |-> "SUBSCRIBE", topic |-> filter[Held(order[k])]]]
  BY <1>3 DEF Resubscribed, Held
<1>9. Resubscribed(order) \in Seq(Requests)
  BY <1>2, <1>7, <1>8, IsASeq
<1> QED
  BY <1>3, <1>4, <1>5, <1>8, <1>9

\* The filters of which the broker has answered the last request, in this session.
Heard == granted \cup refused

\* The broker takes the oldest request and answers it.
Answers1 ==
    /\ link /\ requests # <<>>
    /\ requests' = Tail(requests)
    /\ \E ok \in BOOLEAN :
          /\ answers' = Append(answers, [id   |-> Head(requests).id,
                                         type |-> IF Head(requests).type = "SUBSCRIBE" THEN "SUBACK" ELSE "UNSUBACK",
                                         ok   |-> ok])
          /\ ~ok => "nack" \in Mishaps
          /\ ok => granted' = IF Head(requests).type = "SUBSCRIBE" THEN granted \cup {Head(requests).topic}
                                                                ELSE granted \ {Head(requests).topic}
    /\ Heard' = IF Head(requests).type = "SUBSCRIBE" THEN Heard \cup {Head(requests).topic}
                                                   ELSE Heard \ {Head(requests).topic}
    /\ is_connected' = is_connected
    /\ UNCHANGED <<accepted, filter>>

\* A request is sent.
Sends ==
    \E type \in {"SUBSCRIBE", "UNSUBSCRIBE"} : \E t \in Topics :
        /\ (type = "SUBSCRIBE" /\ Subscribe(t)) \/ (type = "UNSUBSCRIBE" /\ Unsubscribe(t))
        /\ MayCall(t)
        /\ Request(Len(filter) + 1, type)

\* The connection's packets are lost, or the table is sent again.
Forgets == requests' = <<>> /\ answers' = <<>> /\ ~is_connected' /\ UNCHANGED <<accepted, filter>>

Resends ==
    /\ \E order \in InOrder(Slots \ Unused) : requests' = Resubscribed(order)
    /\ ~is_connected /\ ~destroyed /\ is_connected'
    /\ UNCHANGED <<answers, granted, refused, accepted, filter, tableVars>>

ReadsAnswer ==
    /\ answers # <<>>
    /\ answers' = Tail(answers)
    /\ UNCHANGED <<is_connected, requests, granted, refused, accepted, filter>>

\* No packet is sent or received.
Silent == UNCHANGED <<requests, answers, granted, refused, accepted>> /\ (is_connected' => is_connected)

LEMMA PacketCases ==
  ASSUME Next
  PROVE  Answers1 \/ Sends \/ Forgets \/ Resends \/ ReadsAnswer \/ Silent
<1> USE DEF linkVars
<1>1. CASE BrokerGrants
  BY <1>1 DEF BrokerGrants, Answers1, callVars, Heard
<1>2. CASE BrokerRefuses
  BY <1>2 DEF BrokerRefuses, Answers1, callVars, Heard
<1>3. CASE \E t \in Topics : Subscribe(t) \/ Unsubscribe(t)
  <2>1. ASSUME NEW t \in Topics, Subscribe(t) PROVE Sends
    <3>1. MayCall(t) /\ Request(Len(filter) + 1, "SUBSCRIBE")
      BY <2>1 DEF Subscribe
    <3> QED
      BY <2>1, <3>1 DEF Sends
  <2>2. ASSUME NEW t \in Topics, Unsubscribe(t) PROVE Sends \/ Silent
    <3>1. MayCall(t) /\ (Request(Len(filter) + 1, "UNSUBSCRIBE") \/ RequestFails) /\ UNCHANGED linkVars
      BY <2>2 DEF Unsubscribe
    <3> QED
      BY <2>2, <3>1 DEF RequestFails, Sends, Silent, brokerVars
  <2> QED
    BY <1>3, <2>1, <2>2
<1>4. CASE HandleDisconnect \/ HandleReconnect
  BY <1>4 DEF HandleDisconnect, HandleReconnect, Forgets, Resends, callVars, tableVars
<1>5. CASE SubackUnknown \/ SubackGranted \/ SubackRefused \/ Unsuback
  BY <1>5 DEF SubackUnknown, SubackGranted, SubackRefused, Unsuback, Reads, ReadsAnswer, callVars
<1>6. CASE \/ \E t \in Topics : SubscribeFails(t) \/ SubscribeNoRoom(t)
           \/ Destroy \/ CheckSubTimeout \/ LinkFails
  BY <1>6 DEF SubscribeFails, SubscribeNoRoom, Destroy, CheckSubTimeout, LinkFails, RequestFails, Silent, brokerVars, callVars
<1> QED
  BY <1>1, <1>2, <1>3, <1>4, <1>5, <1>6 DEF Next, Application, Yield, Environment

LEMMA PacketStep ==
  ASSUME BaseInv, Next, accepted \subseteq accepted'
  PROVE  /\ requests' \in Seq(Requests) /\ answers' \in Seq(Answers)
         /\ RequestInv' /\ AnswerInv'
<1>1. requests \in Seq(Requests) /\ answers \in Seq(Answers) /\ RequestInv /\ AnswerInv /\ accepted \subseteq Nodes
  BY DEF BaseInv, TypeOK
<1>2. Extends
  BY FilterStep DEF BaseInv
<1>3. \A r \in accepted : r.id \in 1..Len(filter)
  BY <1>1 DEF BaseInv, AcceptedInv, Nodes, Calls, TypeOK
<1>4. \A r \in accepted : filter'[r.id] = filter[r.id]
  BY <1>2, <1>3 DEF Extends
<1>5. ASSUME NEW r, r.id = 0 => r.type = "SUBSCRIBE",
             r.id # 0 => [id |-> r.id, type |-> r.type] \in accepted /\ r.topic = filter[r.id]
      PROVE  r.id # 0 => [id |-> r.id, type |-> r.type] \in accepted' /\ r.topic = filter'[r.id]
  BY <1>4, <1>5
<1>6. ASSUME Elements(requests)' \subseteq Elements(requests)
      PROVE  RequestInv'
  BY <1>1, <1>5, <1>6 DEF RequestInv
<1>7. ASSUME Elements(answers)' \subseteq Elements(answers)
      PROVE  AnswerInv'
  BY <1>1, <1>7 DEF AnswerInv
<1>8. CASE Answers1
  <2>1. PICK ok \in BOOLEAN :
          answers' = Append(answers, [id   |-> Head(requests).id,
                                      type |-> IF Head(requests).type = "SUBSCRIBE" THEN "SUBACK" ELSE "UNSUBACK",
                                      ok   |-> ok])
    BY <1>8 DEF Answers1
  <2> DEFINE r == Head(requests)
             q == [id |-> r.id, type |-> IF r.type = "SUBSCRIBE" THEN "SUBACK" ELSE "UNSUBACK", ok |-> ok]
  <2>2. /\ r \in Elements(requests) /\ r \in Requests /\ requests' \in Seq(Requests)
        /\ Elements(requests)' \subseteq Elements(requests)
    BY <1>1, <1>8, ElementsOfTail, HeadTailProperties DEF Answers1, Elements
  <2>3. q \in Answers
    BY <2>2 DEF Requests, Answers
  <2>4. answers' \in Seq(Answers) /\ Elements(answers)' = Elements(answers) \cup {q}
    BY <1>1, <2>1, <2>3, ElementsOfAppend, AppendProperties DEF Elements
  <2>5. /\ r.id = 0 => r.type = "SUBSCRIBE"
        /\ r.id # 0 => [id |-> r.id, type |-> r.type] \in accepted'
        /\ r.type \in {"SUBSCRIBE", "UNSUBSCRIBE"}
    BY <1>1, <2>2 DEF RequestInv, Requests
  <2>6. /\ q.id = 0 => q.type = "SUBACK"
        /\ q.id # 0 => \/ q.type = "SUBACK" /\ [id |-> q.id, type |-> "SUBSCRIBE"] \in accepted'
                       \/ q.type = "UNSUBACK" /\ [id |-> q.id, type |-> "UNSUBSCRIBE"] \in accepted'
    BY <2>5
  <2> HIDE DEF q
  <2>7. AnswerInv'
    BY <1>1, <2>4, <2>6 DEF AnswerInv
  <2> QED
    BY <1>6, <2>2, <2>4, <2>7
<1>9. CASE Sends
  <2>1. PICK type \in {"SUBSCRIBE", "UNSUBSCRIBE"}, t \in Topics :
          MayCall(t) /\ Request(Len(filter) + 1, type)
    BY <1>9 DEF Sends
  <2> DEFINE n == Len(filter) + 1
             r == [id |-> n, type |-> type, topic |-> t]
  <2>2. n \in Calls /\ filter'[n] = t
    BY <2>1, CallFacts DEF BaseInv
  <2>3. r \in Requests /\ n # 0
    BY <2>2, SubscribeAssumption DEF Requests, Calls, SubscribeAssumption
  <2>4. requests' = Append(requests, r) /\ answers' = answers /\ [id |-> n, type |-> type] \in accepted'
    BY <2>1, <2>2 DEF Request
  <2>5. /\ r.id = 0 => r.type = "SUBSCRIBE"
        /\ r.id # 0 => [id |-> r.id, type |-> r.type] \in accepted' /\ r.topic = filter'[r.id]
    BY <2>2, <2>3, <2>4
  <2> HIDE DEF r
  <2>6. Elements(answers)' = Elements(answers)
    BY <2>4
  <2>7. requests' \in Seq(Requests) /\ Elements(requests)' = Elements(requests) \cup {r}
    <3>1. requests' \in Seq(Requests)
      BY <1>1, <2>3, <2>4, AppendProperties
    <3>2. Elements(Append(requests, r)) = Elements(requests) \cup {r}
      BY <1>1, <2>3, ElementsOfAppend
    <3>3. Elements(requests)' = Elements(Append(requests, r))
      BY <2>4 DEF Elements
    <3> QED
      BY <3>1, <3>2, <3>3
  <2>8. RequestInv'
    BY <1>1, <1>5, <2>5, <2>7 DEF RequestInv
  <2> QED
    BY <1>1, <1>7, <2>4, <2>6, <2>7, <2>8
<1>10. CASE Forgets
  <2>1. Elements(requests)' = {} /\ Elements(answers)' = {} /\ requests' \in Seq(Requests) /\ answers' \in Seq(Answers)
    BY <1>10 DEF Forgets, Elements
  <2> QED
    BY <1>6, <1>7, <2>1
<1>11. CASE Resends
  <2>1. PICK order \in InOrder(Slots \ Unused) : requests' = Resubscribed(order)
    BY <1>11 DEF Resends
  <2> DEFINE q == Resubscribed(order)
  <2>4. q \in Seq(Requests) /\ \A k \in DOMAIN q : q[k].id = 0 /\ q[k].type = "SUBSCRIBE"
    <3>1. TypeOK /\ TableInv
      BY DEF BaseInv
    <3> HIDE DEF q
    <3>2. /\ q \in Seq(Requests) /\ DOMAIN q = DOMAIN order
          /\ \A k \in DOMAIN order : q[k] = [id |-> 0, type |-> "SUBSCRIBE", topic |-> filter[Held(order[k])]]
      BY <2>1, <3>1, ResubscribedFacts DEF q
    <3> QED
      BY <3>2
  <2> HIDE DEF q
  <2>2. requests' \in Seq(Requests) /\ \A r \in Elements(requests)' : r.id = 0 /\ r.type = "SUBSCRIBE"
    BY <2>1, <2>4 DEF Elements, q
  <2>3. Elements(answers)' = Elements(answers) /\ answers' = answers
    BY <1>11 DEF Resends
  <2> QED
    BY <1>1, <1>7, <2>2, <2>3 DEF RequestInv
<1>12. CASE ReadsAnswer
  <2>1. answers' \in Seq(Answers) /\ Elements(answers)' \subseteq Elements(answers)
    BY <1>1, <1>12, ElementsOfTail DEF ReadsAnswer, Elements
  <2> QED
    BY <1>1, <1>6, <1>7, <1>12, <2>1 DEF ReadsAnswer
<1>13. CASE Silent
  BY <1>1, <1>6, <1>7, <1>13 DEF Silent
<1> QED
  BY <1>8, <1>9, <1>10, <1>11, <1>12, <1>13, PacketCases

LEMMA FlagsStep ==
  ASSUME TypeOK, Next
  PROVE  /\ is_connected' \in BOOLEAN /\ link' \in BOOLEAN /\ misused' \in BOOLEAN /\ destroyed' \in BOOLEAN
         /\ granted' \in SUBSET Topics /\ refused' \in SUBSET Topics /\ heap' \in SUBSET Calls
<1> USE DEF TypeOK
<1>1. is_connected' \in BOOLEAN /\ link' \in BOOLEAN /\ destroyed' \in BOOLEAN
  BY DEF Next, Application, Subscribe, SubscribeFails, SubscribeNoRoom, Unsubscribe, Destroy, Yield,
     SubackUnknown, SubackGranted, SubackRefused, Unsuback, Reads, CheckSubTimeout, HandleDisconnect,
     HandleReconnect, Environment, BrokerGrants, BrokerRefuses, LinkFails, linkVars
<1>2. misused' \in BOOLEAN
  <2>1. CASE \E t \in Topics : Subscribe(t) \/ SubscribeFails(t)
    BY <2>1 DEF Subscribe, SubscribeFails, SearchMisuses, OwnFilterLost
  <2>2. CASE SubackGranted
    BY <2>2 DEF SubackGranted, SearchMisuses
  <2> QED
    BY <2>1, <2>2 DEF Next, Application, Subscribe, SubscribeFails, SubscribeNoRoom, Unsubscribe, Destroy, Yield,
     SubackUnknown, SubackGranted, SubackRefused, Unsuback, Reads, CheckSubTimeout, HandleDisconnect,
     HandleReconnect, Environment, BrokerGrants, BrokerRefuses, LinkFails
<1>3. granted' \in SUBSET Topics /\ refused' \in SUBSET Topics
  <2>1. ASSUME requests # <<>>
        PROVE  Head(requests).topic \in Topics
    <3>1. Head(requests) \in Requests
      BY <2>1, HeadTailProperties
    <3> QED
      BY <3>1 DEF Requests
  <2> QED
    BY <2>1 DEF Next, Application, Subscribe, SubscribeFails, SubscribeNoRoom, Unsubscribe, Destroy, Yield,
     SubackUnknown, SubackGranted, SubackRefused, Unsuback, Reads, CheckSubTimeout, HandleDisconnect,
     HandleReconnect, Environment, BrokerGrants, BrokerRefuses, LinkFails, Request, RequestFails, brokerVars
<1>4. heap' \in SUBSET Calls
  <2>1. ASSUME NEW t \in Topics, Subscribe(t) \/ SubscribeNoRoom(t) \/ Unsubscribe(t)
        PROVE  heap' \subseteq heap \cup {Len(filter) + 1} /\ Len(filter) + 1 \in Calls
    BY <2>1, CallFacts DEF Subscribe, AddHandle, SubscribeNoRoom, Unsubscribe
  <2>2. \/ \E t \in Topics : Subscribe(t) \/ SubscribeNoRoom(t) \/ Unsubscribe(t)
        \/ heap' \subseteq heap
    BY DEF Next, Application, SubscribeFails, Destroy, Yield,
     SubackUnknown, SubackGranted, SubackRefused, Unsuback, Reads, CheckSubTimeout, HandleDisconnect,
     HandleReconnect, Environment, BrokerGrants, BrokerRefuses, LinkFails
  <2> QED
    BY <2>1, <2>2
<1> QED
  BY <1>1, <1>2, <1>3, <1>4

LEMMA InitBase == Init => BaseInv /\ AcceptedIsAnswered
<1> SUFFICES ASSUME Init PROVE BaseInv /\ AcceptedIsAnswered
  OBVIOUS
<1>1. TypeOK
  <2>1. MaxCalls \in Nat /\ MaxWaiting \in Nat
    BY SubscribeAssumption DEF SubscribeAssumption
  <2>2. sub_handles \in [Slots -> [call : 0..MaxCalls, status : BOOLEAN]]
    BY <2>1 DEF Init
  <2>3. is_connected \in BOOLEAN /\ link \in BOOLEAN /\ misused \in BOOLEAN /\ destroyed \in BOOLEAN
    BY DEF Init
  <2> QED
    BY <2>1, <2>2, <2>3 DEF Init, TypeOK
<1>2. TableInv /\ AcceptedInv
  BY DEF Init, TableInv, AcceptedInv, Held
<1>3. ListInv /\ RequestInv /\ AnswerInv
  BY DEF Init, ListInv, Waiting, Elements, Identified, RequestInv, AnswerInv
<1>4. AcceptedIsAnswered
  BY DEF Init, AcceptedIsAnswered
<1> QED
  BY <1>1, <1>2, <1>3, <1>4 DEF BaseInv

LEMMA BaseStep ==
  ASSUME BaseInv, AcceptedIsAnswered, [Next]_vars
  PROVE  BaseInv' /\ AcceptedIsAnswered'
<1>1. CASE Next
  <2>1. TypeOK'
    BY <1>1, HandlesStep, FilterStep, ListStep, PacketStep, FlagsStep DEF BaseInv, TypeOK, Handles, Extends
  <2> QED
    BY <1>1, <2>1, TableStep, ListStep, PacketStep DEF BaseInv
<1>2. CASE UNCHANGED vars
  <2> USE <1>2 DEF vars, tableVars, linkVars, brokerVars, callVars
  <2>1. TypeOK' /\ TableInv' /\ AcceptedInv'
    BY DEF BaseInv, TypeOK, TableInv, AcceptedInv, Held
  <2>2. ListInv' /\ RequestInv' /\ AnswerInv'
    BY DEF BaseInv, ListInv, Waiting, Elements, Identified, RequestInv, AnswerInv
  <2>3. AcceptedIsAnswered'
    BY DEF AcceptedIsAnswered, Waits
  <2> QED
    BY <2>1, <2>2, <2>3 DEF BaseInv
<1> QED
  BY <1>1, <1>2

\* Type correctness, and what identifies a handle, a request and an answer.
THEOREM TypeCorrect == Spec => []BaseInv
<1>1. Init => BaseInv /\ AcceptedIsAnswered
  BY InitBase
<1>2. BaseInv /\ AcceptedIsAnswered /\ [Next]_vars => BaseInv' /\ AcceptedIsAnswered'
  BY BaseStep
<1> QED
  BY <1>1, <1>2, PTL DEF Spec

\* A subscription that is accepted is answered exactly once and an unsubscription at least once,
\* by success, refusal or timeout: with any number of calls, answers that come late or never,
\* lost connections and tables that are full.
THEOREM EveryRequestIsAnswered == Spec => []AcceptedIsAnswered
<1>1. Init => BaseInv /\ AcceptedIsAnswered
  BY InitBase
<1>2. BaseInv /\ AcceptedIsAnswered /\ [Next]_vars => BaseInv' /\ AcceptedIsAnswered'
  BY BaseStep
<1> QED
  BY <1>1, <1>2, PTL DEF Spec

-----------------------------------------------------------------------------
(* The order of packets. *)

\* Requests for the filter of call m that are not its own come before its own, and so do answers:
\* a handle is of the last call for its filter.
Ordered(m) ==
    /\ \A k \in DOMAIN requests :
          requests[k].id \notin {0, m} /\ requests[k].topic = filter[m]
          => \E j \in DOMAIN requests : j > k /\ requests[j].id = m
    /\ \A k \in DOMAIN answers :
          answers[k].id \notin {0, m} /\ filter[answers[k].id] = filter[m]
          => \/ \E j \in DOMAIN answers : j > k /\ answers[j].id = m
             \/ \E j \in DOMAIN requests : requests[j].id = m

\* A client that has lost its connection has no packets of it.
EmptyInv == ~is_connected /\ ~destroyed => requests = <<>> /\ answers = <<>> /\ granted = {}

OrderInv ==
    /\ EmptyInv
    /\ \A j, k \in DOMAIN requests : requests[j].id = requests[k].id /\ requests[k].id # 0 => j = k
    /\ \A i \in Slots : Held(i) # 0 =>
          /\ Ordered(Held(i))
          /\ [id |-> Held(i), type |-> "UNSUBSCRIBE"] \notin accepted

\* What becomes of the packets when the broker handles a request.
LEMMA Answers1Facts ==
  ASSUME TypeOK, Answers1
  PROVE  /\ DOMAIN requests = 1..Len(requests) /\ Len(requests) \in Nat \ {0}
         /\ DOMAIN requests' = 1..(Len(requests) - 1)
         /\ \A k \in 1..(Len(requests) - 1) : requests'[k] = requests[k + 1]
         /\ DOMAIN answers = 1..Len(answers) /\ Len(answers) \in Nat
         /\ DOMAIN answers' = 1..(Len(answers) + 1)
         /\ \A k \in 1..Len(answers) : answers'[k] = answers[k]
         /\ answers'[Len(answers) + 1].id = requests[1].id
<1>1. requests \in Seq(Requests) /\ answers \in Seq(Answers) /\ requests # <<>>
  BY DEF TypeOK, Answers1
<1>2. /\ DOMAIN requests = 1..Len(requests) /\ Len(requests) \in Nat \ {0} /\ Head(requests) = requests[1]
      /\ DOMAIN requests' = 1..(Len(requests) - 1) /\ Head(requests) \in Requests
      /\ \A k \in 1..(Len(requests) - 1) : requests'[k] = requests[k + 1]
  BY <1>1, ElementsOfTail, HeadTailProperties DEF Answers1
<1>3. PICK ok \in BOOLEAN :
        answers' = Append(answers, [id   |-> Head(requests).id,
                                    type |-> IF Head(requests).type = "SUBSCRIBE" THEN "SUBACK" ELSE "UNSUBACK",
                                    ok   |-> ok])
  BY DEF Answers1
<1> DEFINE a == [id   |-> Head(requests).id,
                 type |-> IF Head(requests).type = "SUBSCRIBE" THEN "SUBACK" ELSE "UNSUBACK",
                 ok   |-> ok]
<1>4. a \in Answers /\ a.id = requests[1].id
  BY <1>2 DEF Requests, Answers
<1>5. answers' = Append(answers, a)
  BY <1>3
<1> HIDE DEF a
<1>6. /\ DOMAIN answers = 1..Len(answers) /\ Len(answers) \in Nat
      /\ DOMAIN answers' = 1..(Len(answers) + 1)
      /\ \A k \in 1..Len(answers) : answers'[k] = answers[k]
      /\ answers'[Len(answers) + 1] = a
  BY <1>1, <1>4, <1>5, AppendProperties, LenProperties
<1> QED
  BY <1>2, <1>4, <1>6

\* ... and when one is sent.
LEMMA SendsFacts ==
  ASSUME TypeOK, NEW t \in Topics, NEW type \in {"SUBSCRIBE", "UNSUBSCRIBE"},
         MayCall(t), Request(Len(filter) + 1, type)
  PROVE  /\ DOMAIN requests = 1..Len(requests) /\ Len(requests) \in Nat
         /\ DOMAIN requests' = 1..(Len(requests) + 1)
         /\ \A k \in 1..Len(requests) : requests'[k] = requests[k]
         /\ requests'[Len(requests) + 1] = [id |-> Len(filter) + 1, type |-> type, topic |-> t]
         /\ answers' = answers /\ granted' = granted /\ refused' = refused
         /\ accepted' = accepted \cup {[id |-> Len(filter) + 1, type |-> type]}
<1> DEFINE n == Len(filter) + 1
           r == [id |-> n, type |-> type, topic |-> t]
<1>1. n \in Calls /\ filter'[n] = t
  BY CallFacts
<1>2. r \in Requests
  BY <1>1, SubscribeAssumption DEF Requests, Calls, SubscribeAssumption
<1>3. requests \in Seq(Requests) /\ requests' = Append(requests, r)
  BY <1>1 DEF TypeOK, Request
<1> HIDE DEF r
<1>4. /\ DOMAIN requests = 1..Len(requests) /\ Len(requests) \in Nat
      /\ DOMAIN requests' = 1..(Len(requests) + 1)
      /\ \A k \in 1..Len(requests) : requests'[k] = requests[k]
      /\ requests'[Len(requests) + 1] = r
  BY <1>2, <1>3, AppendProperties, LenProperties
<1> QED
  BY <1>4 DEF r, Request

\* A packet belongs to a call that was made.
LEMMA IdsAreOld ==
  ASSUME BaseInv
  PROVE  /\ \A k \in DOMAIN requests : requests[k].id \in 0..Len(filter)
         /\ \A k \in DOMAIN answers : answers[k].id \in 0..Len(filter)
         /\ Len(filter) \in Nat
         /\ \A i \in Slots : Held(i) \in 0..Len(filter)
<1>1. Len(filter) \in Nat /\ \A r \in accepted : r.id \in 1..Len(filter)
  BY DEF BaseInv, TypeOK, AcceptedInv, Nodes, Calls
<1>2. \A r \in Elements(requests) : r.id = 0 \/ [id |-> r.id, type |-> r.type] \in accepted
  BY DEF BaseInv, RequestInv
<1>3. \A r \in Elements(answers) : \/ r.id = 0
                                   \/ [id |-> r.id, type |-> "SUBSCRIBE"] \in accepted
                                   \/ [id |-> r.id, type |-> "UNSUBSCRIBE"] \in accepted
  BY DEF BaseInv, AnswerInv
<1>4. \A i \in Slots : Held(i) \in 0..Len(filter)
  BY SubscribeAssumption DEF BaseInv, TypeOK, TableInv, Held, SubscribeAssumption
<1>5. \A k \in DOMAIN requests : requests[k] \in Elements(requests)
  BY DEF Elements
<1>6. \A k \in DOMAIN answers : answers[k] \in Elements(answers)
  BY DEF Elements
<1>7. ASSUME NEW k \in DOMAIN requests PROVE requests[k].id \in 0..Len(filter)
  <2>1. CASE requests[k].id = 0
    BY <1>1, <2>1
  <2>2. CASE requests[k].id # 0
    <3> DEFINE x == [id |-> requests[k].id, type |-> requests[k].type]
    <3>1. x \in accepted /\ x.id = requests[k].id
      BY <1>2, <1>5, <2>2
    <3> HIDE DEF x
    <3> QED
      BY <1>1, <3>1
  <2> QED
    BY <2>1, <2>2
<1>8. ASSUME NEW k \in DOMAIN answers PROVE answers[k].id \in 0..Len(filter)
  <2>1. CASE answers[k].id = 0
    BY <1>1, <2>1
  <2>2. CASE answers[k].id # 0
    <3>1. PICK type : [id |-> answers[k].id, type |-> type] \in accepted
      BY <1>3, <1>6, <2>2
    <3> DEFINE x == [id |-> answers[k].id, type |-> type]
    <3>2. x \in accepted /\ x.id = answers[k].id
      BY <3>1
    <3> HIDE DEF x
    <3> QED
      BY <1>1, <3>2
  <2> QED
    BY <2>1, <2>2
<1> QED
  BY <1>1, <1>4, <1>7, <1>8

\* The order of the packets stays as long as no request for the same filter is sent.
LEMMA OrderedStep ==
  ASSUME BaseInv, EmptyInv, Next, NEW m \in 1..Len(filter), Ordered(m),
         \A t \in Topics : Subscribe(t) \/ Unsubscribe(t) => t # filter[m]
  PROVE  Ordered(m)'
<1>1. Extends /\ Len(filter) \in Nat /\ filter'[m] = filter[m]
  BY FilterStep, IdsAreOld DEF BaseInv, Extends
<1>2. \A k \in DOMAIN answers : answers[k].id # 0 => filter'[answers[k].id] = filter[answers[k].id]
  BY <1>1, IdsAreOld DEF Extends
<1>3. \A k \in DOMAIN requests : requests[k].id # 0 =>
         /\ filter'[requests[k].id] = filter[requests[k].id]
         /\ requests[k].topic = filter[requests[k].id]
  <2>1. \A k \in DOMAIN requests : requests[k].id # 0 => requests[k].topic = filter[requests[k].id]
    BY DEF BaseInv, RequestInv, Elements
  <2> QED
    BY <1>1, <2>1, IdsAreOld DEF Extends
<1>4. CASE Answers1
  <2>1. /\ DOMAIN requests = 1..Len(requests) /\ Len(requests) \in Nat \ {0}
        /\ DOMAIN requests' = 1..(Len(requests) - 1)
        /\ \A k \in 1..(Len(requests) - 1) : requests'[k] = requests[k + 1]
        /\ DOMAIN answers = 1..Len(answers) /\ Len(answers) \in Nat
        /\ DOMAIN answers' = 1..(Len(answers) + 1)
        /\ \A k \in 1..Len(answers) : answers'[k] = answers[k]
        /\ answers'[Len(answers) + 1].id = requests[1].id
    BY <1>4, Answers1Facts DEF BaseInv
  <2>2. \A j \in 1..Len(requests) : j > 1 => j - 1 \in 1..(Len(requests) - 1) /\ requests'[j - 1] = requests[j]
    BY <2>1
  <2>3. ASSUME NEW k \in DOMAIN requests', requests'[k].id \notin {0, m}, requests'[k].topic = filter'[m]
        PROVE  \E j \in DOMAIN requests' : j > k /\ requests'[j].id = m
    <3>1. k \in 1..(Len(requests) - 1) /\ requests'[k] = requests[k + 1] /\ k + 1 \in DOMAIN requests
      BY <2>1
    <3>2. requests[k + 1].id \notin {0, m} /\ requests[k + 1].topic = filter[m]
      BY <1>1, <2>3, <3>1
    <3>3. PICK j \in DOMAIN requests : j > k + 1 /\ requests[j].id = m
      BY <3>1, <3>2 DEF Ordered
    <3>4. j - 1 \in 1..(Len(requests) - 1) /\ requests'[j - 1] = requests[j]
      BY <2>1, <2>2, <3>1, <3>3
    <3>5. j \in Int /\ k \in Int /\ j > k + 1
      BY <2>1, <3>1, <3>3
    <3>6. j - 1 > k
      BY <3>5
    <3> QED
      BY <2>1, <3>3, <3>4, <3>6
  <2>4. ASSUME NEW k \in DOMAIN answers', answers'[k].id \notin {0, m}, filter'[answers'[k].id] = filter'[m]
        PROVE  \/ \E j \in DOMAIN answers' : j > k /\ answers'[j].id = m
               \/ \E j \in DOMAIN requests' : requests'[j].id = m
    <3>1. CASE k = Len(answers) + 1
      <4>1. requests[1].id \notin {0, m} /\ requests[1].topic = filter[m]
        BY <1>1, <1>3, <2>1, <2>4, <3>1
      <4>2. PICK j \in DOMAIN requests : j > 1 /\ requests[j].id = m
        BY <2>1, <4>1 DEF Ordered
      <4> QED
        BY <2>1, <2>2, <4>2
    <3>2. CASE k \in 1..Len(answers)
      <4>1. \/ \E j \in DOMAIN answers : j > k /\ answers[j].id = m
            \/ \E j \in DOMAIN requests : requests[j].id = m
        BY <1>1, <1>2, <2>1, <2>4, <3>2 DEF Ordered
      <4>2. CASE \E j \in DOMAIN answers : j > k /\ answers[j].id = m
        BY <2>1, <4>2
      <4>3. CASE requests[1].id = m
        BY <2>1, <3>2, <4>3
      <4>4. CASE \E j \in DOMAIN requests : j > 1 /\ requests[j].id = m
        BY <2>1, <2>2, <4>4
      <4> QED
        BY <2>1, <4>1, <4>2, <4>3, <4>4
    <3> QED
      BY <2>1, <3>1, <3>2
  <2> QED
    BY <2>3, <2>4 DEF Ordered
<1>5. CASE Sends
  <2>1. PICK type \in {"SUBSCRIBE", "UNSUBSCRIBE"}, t \in Topics :
          /\ Subscribe(t) \/ Unsubscribe(t)
          /\ MayCall(t) /\ Request(Len(filter) + 1, type)
    BY <1>5 DEF Sends
  <2>2. t # filter[m]
    BY <2>1
  <2> DEFINE r == [id |-> Len(filter) + 1, type |-> type, topic |-> t]
  <2>6. /\ DOMAIN requests = 1..Len(requests) /\ Len(requests) \in Nat
        /\ DOMAIN requests' = 1..(Len(requests) + 1)
        /\ \A k \in 1..Len(requests) : requests'[k] = requests[k]
        /\ requests'[Len(requests) + 1] = r
        /\ answers' = answers
    <3>1. TypeOK
      BY DEF BaseInv
    <3> QED
      BY <2>1, <3>1, SendsFacts
  <2>7. r.topic = t
    OBVIOUS
  <2> HIDE DEF r
  <2>3. /\ DOMAIN requests = 1..Len(requests) /\ Len(requests) \in Nat
        /\ DOMAIN requests' = 1..(Len(requests) + 1)
        /\ \A k \in 1..Len(requests) : requests'[k] = requests[k]
        /\ requests'[Len(requests) + 1].topic = t
        /\ answers' = answers
    BY <2>6, <2>7
  <2>4. \A k \in DOMAIN requests' : requests'[k].topic = filter'[m] => k \in DOMAIN requests /\ requests'[k] = requests[k]
    BY <1>1, <2>2, <2>3
  <2>5. \A j \in DOMAIN requests : j \in DOMAIN requests' /\ requests'[j] = requests[j]
    BY <2>3
  <2> QED
    BY <1>1, <1>2, <2>3, <2>4, <2>5 DEF Ordered
<1>6. CASE Forgets
  BY <1>6 DEF Forgets, Ordered
<1>7. CASE Resends
  <2>1. PICK order \in InOrder(Slots \ Unused) : requests' = Resubscribed(order)
    BY <1>7 DEF Resends
  <2>2. \A k \in DOMAIN requests' : requests'[k].id = 0
    <3> DEFINE q == Resubscribed(order)
    <3>1. TypeOK /\ TableInv
      BY DEF BaseInv
    <3> HIDE DEF q
    <3>2. /\ DOMAIN q = DOMAIN order
          /\ \A k \in DOMAIN order : q[k] = [id |-> 0, type |-> "SUBSCRIBE", topic |-> filter[Held(order[k])]]
      BY <2>1, <3>1, ResubscribedFacts DEF q
    <3>3. requests' = q
      BY <2>1 DEF q
    <3> QED
      BY <3>2, <3>3
  <2>3. answers' = <<>>
    BY <1>7 DEF Resends, EmptyInv
  <2> QED
    BY <2>2, <2>3 DEF Ordered
<1>8. CASE ReadsAnswer
  <2>1. /\ DOMAIN answers = 1..Len(answers) /\ Len(answers) \in Nat \ {0}
        /\ DOMAIN answers' = 1..(Len(answers) - 1)
        /\ \A k \in 1..(Len(answers) - 1) : answers'[k] = answers[k + 1]
        /\ UNCHANGED <<requests, filter>>
    BY <1>8, ElementsOfTail DEF ReadsAnswer, BaseInv, TypeOK
  <2>2. \A j \in 1..Len(answers) : j > 1 => j - 1 \in 1..(Len(answers) - 1) /\ answers'[j - 1] = answers[j]
    BY <2>1
  <2>3. ASSUME NEW k \in DOMAIN answers', answers'[k].id \notin {0, m}, filter'[answers'[k].id] = filter'[m]
        PROVE  \/ \E j \in DOMAIN answers' : j > k /\ answers'[j].id = m
               \/ \E j \in DOMAIN requests' : requests'[j].id = m
    <3>1. k \in 1..(Len(answers) - 1) /\ answers'[k] = answers[k + 1] /\ k + 1 \in DOMAIN answers
      BY <2>1
    <3>2. answers[k + 1].id \notin {0, m} /\ filter[answers[k + 1].id] = filter[m]
      BY <2>1, <2>3, <3>1
    <3>3. \/ \E j \in DOMAIN answers : j > k + 1 /\ answers[j].id = m
          \/ \E j \in DOMAIN requests : requests[j].id = m
      BY <3>1, <3>2 DEF Ordered
    <3>4. CASE \E j \in DOMAIN answers : j > k + 1 /\ answers[j].id = m
      <4>1. PICK j \in DOMAIN answers : j > k + 1 /\ answers[j].id = m
        BY <3>4
      <4>2. j > 1 /\ j - 1 > k
        BY <2>1, <3>1, <4>1
      <4>3. j - 1 \in DOMAIN answers' /\ answers'[j - 1] = answers[j]
        BY <2>1, <2>2, <4>1, <4>2
      <4> QED
        BY <4>1, <4>2, <4>3
    <3> QED
      BY <2>1, <3>3, <3>4
  <2> QED
    BY <2>1, <2>3 DEF Ordered
<1>9. CASE Silent
  BY <1>1, <1>2, <1>9 DEF Ordered, Silent
<1> QED
  BY <1>4, <1>5, <1>6, <1>7, <1>8, <1>9, PacketCases

\* A slot keeps its handle, is filled by a new subscription or is cleared; the handle's status is
\* set by an answer for its filter.
LEMMA SlotCases ==
  ASSUME BaseInv, Next, NEW i \in Slots, sub_handles'[i].call # 0
  PROVE  \/ /\ sub_handles'[i] = sub_handles[i]
            /\ \A t \in Topics : Subscribe(t) \/ Unsubscribe(t) => t # filter[Held(i)]
         \/ /\ SubackGranted
            /\ \A t \in Topics : ~Subscribe(t) /\ ~Unsubscribe(t)
            /\ sub_handles'[i] = [call |-> Held(i), status |-> TRUE]
            /\ filter[Held(i)] = filter[Head(answers).id]
            /\ UNCHANGED <<requests, granted, refused>> /\ answers' = Tail(answers)
         \/ \E t \in Topics : Subscribe(t) /\ sub_handles'[i] = [call |-> Len(filter) + 1, status |-> FALSE]
<1>1. sub_handles \in Handles /\ TypeOK
  BY DEF BaseInv, TypeOK, Handles
<1>2. ASSUME NEW t \in Topics, Subscribe(t)
      PROVE  \/ sub_handles'[i] = sub_handles[i] /\ t # filter[Held(i)]
             \/ sub_handles'[i] = [call |-> Len(filter) + 1, status |-> FALSE]
  <2> DEFINE l == Least(SlotFor(t))
             n == Len(filter) + 1
  <2>1. MayCall(t) /\ SlotFor(t) # {} /\ AddHandle(l, n)
    BY <1>2 DEF Subscribe
  <2>2. l \in SlotFor(t) /\ l \in Slots /\ n \in Calls
    BY <1>1, <2>1, CallFacts, HoldersFacts
  <2>3. \A j \in Slots : sub_handles'[j] = IF j = l THEN [call |-> n, status |-> FALSE] ELSE sub_handles[j]
    BY <1>1, <2>1, <2>2, AddFacts
  <2> HIDE DEF l
  <2>4. CASE i = l
    BY <2>3, <2>4
  <2>5. CASE i # l
    <3>1. sub_handles'[i] = sub_handles[i] /\ Held(i) # 0
      BY <2>3, <2>5 DEF Held
    <3>2. l \in Holders(t) \/ Holders(t) = {}
      BY <2>2 DEF SlotFor
    <3>3. t # filter[Held(i)]
      BY <2>2, <2>5, <3>1, <3>2, HoldersFacts DEF BaseInv, TableInv
    <3> QED
      BY <3>1, <3>3
  <2> QED
    BY <2>4, <2>5
<1>3. ASSUME NEW S, ClearHandles(S)
      PROVE  i \notin S /\ sub_handles'[i] = sub_handles[i] /\ Held(i) # 0
  BY <1>3 DEF ClearHandles, Held
<1>4. ASSUME NEW t \in Topics, Unsubscribe(t)
      PROVE  sub_handles'[i] = sub_handles[i] /\ t # filter[Held(i)]
  <2>1. ClearHandles(Removed(t))
    BY <1>4 DEF Unsubscribe
  <2>2. i \notin Removed(t) /\ sub_handles'[i] = sub_handles[i] /\ Held(i) # 0
    BY <1>3, <2>1
  <2>3. Holders(t) \subseteq Removed(t)
    BY DEF Removed, Holders
  <2> QED
    BY <2>2, <2>3, HoldersFacts
<1>5. CASE SubackGranted
  <2> DEFINE t == filter[Head(answers).id]
  <2>1. SetStatus(t) /\ UNCHANGED <<requests, granted, refused, filter>> /\ answers' = Tail(answers)
    BY <1>5 DEF SubackGranted, Reads, callVars
  <2>2. \/ sub_handles'[i] = sub_handles[i]
        \/ sub_handles'[i] = [call |-> Held(i), status |-> TRUE] /\ i \in Holders(t)
    <3>1. CASE Holders(t) = {}
      BY <2>1, <3>1 DEF SetStatus
    <3>2. CASE Holders(t) # {}
      <4> DEFINE l == Least(Holders(t))
      <4>1. l \in Holders(t) /\ l \in Slots
        BY <3>2, HoldersFacts, LeastSlot
      <4>2. sub_handles' = [sub_handles EXCEPT ![l].status = TRUE]
        BY <2>1, <3>2 DEF SetStatus
      <4> HIDE DEF l
      <4> QED
        BY <1>1, <4>1, <4>2 DEF Handles, Held
    <3> QED
      BY <3>1, <3>2
  <2>3. i \in Holders(t) => filter[Held(i)] = t
    BY HoldersFacts
  <2>4. ASSUME NEW u \in Topics, Subscribe(u) \/ Unsubscribe(u)
        PROVE  FALSE
    <3>1. filter' = Append(filter, u) /\ filter \in Seq(Topics)
      BY <1>1, <2>4 DEF Subscribe, Unsubscribe, MayCall, TypeOK
    <3>2. Len(filter') = Len(filter) + 1 /\ Len(filter) \in Nat
      BY <3>1, AppendProperties
    <3> QED
      BY <2>1, <3>2
  <2> QED
    BY <1>5, <2>1, <2>2, <2>3, <2>4
<1>6. CASE ~(\E t \in Topics : Subscribe(t) \/ Unsubscribe(t)) /\ ~SubackGranted
  <2>1. (\E S : ClearHandles(S)) \/ UNCHANGED sub_handles
    BY <1>6 DEF Next, Application, SubscribeFails, SubscribeNoRoom, Destroy, Yield,
       SubackUnknown, SubackRefused, Unsuback, Reads, CheckSubTimeout, HandleDisconnect,
       HandleReconnect, Environment, BrokerGrants, BrokerRefuses, LinkFails, tableVars
  <2>2. sub_handles'[i] = sub_handles[i]
    BY <1>3, <2>1
  <2> QED
    BY <1>6, <2>2
<1>7. ASSUME NEW t \in Topics, NEW u \in Topics, Subscribe(t) \/ Unsubscribe(t), Subscribe(u) \/ Unsubscribe(u)
      PROVE  t = u
  <2>1. MayCall(t) /\ MayCall(u)
    BY <1>7 DEF Subscribe, Unsubscribe
  <2> QED
    BY <1>1, <2>1, CallFacts
<1> QED
  BY <1>2, <1>4, <1>5, <1>6, <1>7

LEMMA OrderStep ==
  ASSUME BaseInv, AcceptedIsAnswered, OrderInv, Next
  PROVE  OrderInv'
<1> DEFINE n == Len(filter) + 1
<1>1. TypeOK /\ Len(filter) \in Nat
  BY IdsAreOld DEF BaseInv
<1>2. EmptyInv'
  <2>1. ASSUME NEW t \in Topics, MayCall(t) PROVE is_connected
    BY <2>1 DEF MayCall
  <2>2. CASE \E t \in Topics : Subscribe(t) \/ SubscribeFails(t) \/ SubscribeNoRoom(t) \/ Unsubscribe(t)
    <3>1. is_connected'
      BY <2>1, <2>2 DEF Subscribe, SubscribeFails, SubscribeNoRoom, Unsubscribe, linkVars
    <3> QED
      BY <3>1 DEF EmptyInv
  <2>3. CASE Environment
    BY <2>3 DEF OrderInv, EmptyInv, Environment, BrokerGrants, BrokerRefuses, LinkFails, linkVars, brokerVars
  <2>4. CASE Destroy \/ Yield
    BY <2>4 DEF OrderInv, EmptyInv, Destroy, Yield, SubackUnknown, SubackGranted, SubackRefused, Unsuback, Reads,
       CheckSubTimeout, HandleDisconnect, HandleReconnect, linkVars, brokerVars
  <2> QED
    BY <2>2, <2>3, <2>4 DEF Next, Application
<1>3. ASSUME NEW j \in DOMAIN requests', NEW k \in DOMAIN requests',
             requests'[j].id = requests'[k].id, requests'[k].id # 0
      PROVE  j = k
  <2>1. \A g, h \in DOMAIN requests : requests[g].id = requests[h].id /\ requests[h].id # 0 => g = h
    BY DEF OrderInv
  <2>2. CASE Answers1
    <3>1. /\ DOMAIN requests = 1..Len(requests) /\ Len(requests) \in Nat \ {0}
          /\ DOMAIN requests' = 1..(Len(requests) - 1)
          /\ \A h \in 1..(Len(requests) - 1) : requests'[h] = requests[h + 1]
      BY <1>1, <2>2, Answers1Facts
    <3>2. j + 1 \in DOMAIN requests /\ k + 1 \in DOMAIN requests /\ j \in Int /\ k \in Int
      BY <3>1
    <3>3. requests'[j] = requests[j + 1] /\ requests'[k] = requests[k + 1]
      BY <3>1
    <3>4. j + 1 = k + 1
      BY <1>3, <2>1, <3>2, <3>3
    <3> QED
      BY <3>2, <3>4
  <2>3. CASE Sends
    <3>1. PICK type \in {"SUBSCRIBE", "UNSUBSCRIBE"}, t \in Topics : MayCall(t) /\ Request(n, type)
      BY <2>3 DEF Sends
    <3> DEFINE r == [id |-> n, type |-> type, topic |-> t]
    <3>2. /\ DOMAIN requests = 1..Len(requests) /\ Len(requests) \in Nat
          /\ DOMAIN requests' = 1..(Len(requests) + 1)
          /\ \A h \in 1..Len(requests) : requests'[h] = requests[h]
          /\ requests'[Len(requests) + 1] = r
      BY <1>1, <3>1, SendsFacts
    <3>3. r.id = n
      OBVIOUS
    <3> HIDE DEF r
    <3>4. \A h \in 1..Len(requests) : requests'[h] = requests[h] /\ requests[h].id # n
      BY <1>1, <3>2, IdsAreOld
    <3> QED
      BY <1>3, <2>1, <3>2, <3>3, <3>4
  <2>4. CASE Forgets
    BY <2>4 DEF Forgets
  <2>5. CASE Resends
    <3>1. PICK order \in InOrder(Slots \ Unused) : requests' = Resubscribed(order)
      BY <2>5 DEF Resends
    <3> DEFINE q == Resubscribed(order)
    <3>2. TypeOK /\ TableInv
      BY DEF BaseInv
    <3> HIDE DEF q
    <3>3. /\ DOMAIN q = DOMAIN order
          /\ \A h \in DOMAIN order : q[h] = [id |-> 0, type |-> "SUBSCRIBE", topic |-> filter[Held(order[h])]]
      BY <3>1, <3>2, ResubscribedFacts DEF q
    <3>4. requests' = q
      BY <3>1 DEF q
    <3> QED
      BY <1>3, <3>3, <3>4
  <2>6. CASE UNCHANGED requests
    BY <1>3, <2>1, <2>6
  <2> QED
    BY <2>2, <2>3, <2>4, <2>5, <2>6, PacketCases DEF ReadsAnswer, Silent
<1>4. ASSUME NEW i \in Slots, NEW m, m = sub_handles'[i].call, m # 0
      PROVE  (Ordered(m))' /\ [id |-> m, type |-> "UNSUBSCRIBE"] \notin accepted'
  <2>1. ASSUME Held(i) = m, \A t \in Topics : Subscribe(t) \/ Unsubscribe(t) => t # filter[m]
        PROVE  (Ordered(m))' /\ [id |-> m, type |-> "UNSUBSCRIBE"] \notin accepted'
    <3>1. m \in 1..Len(filter) /\ Ordered(m) /\ [id |-> m, type |-> "UNSUBSCRIBE"] \notin accepted
      BY <1>1, <1>4, <2>1, IdsAreOld DEF OrderInv
    <3>2. accepted' = accepted \/ \E x \in Nodes : x.id = n /\ accepted' = accepted \cup {x}
      BY WaitingStep DEF Appends, Takes, Expires, Clears, KeepsWaiting, callVars
    <3>3. [id |-> m, type |-> "UNSUBSCRIBE"] \notin accepted'
      BY <1>1, <3>1, <3>2
    <3>4. (Ordered(m))'
      BY <2>1, <3>1, OrderedStep DEF OrderInv
    <3> QED
      BY <3>3, <3>4
  <2>2. ASSUME NEW t \in Topics, Subscribe(t), m = n
        PROVE  (Ordered(m))' /\ [id |-> m, type |-> "UNSUBSCRIBE"] \notin accepted'
    <3>1. MayCall(t) /\ Request(n, "SUBSCRIBE")
      BY <2>2 DEF Subscribe
    <3> DEFINE r == [id |-> n, type |-> "SUBSCRIBE", topic |-> t]
    <3>2. /\ DOMAIN requests = 1..Len(requests) /\ Len(requests) \in Nat
          /\ DOMAIN requests' = 1..(Len(requests) + 1)
          /\ requests'[Len(requests) + 1] = r
          /\ accepted' = accepted \cup {[id |-> n, type |-> "SUBSCRIBE"]}
      BY <1>1, <3>1, SendsFacts
    <3>3. r.id = n
      OBVIOUS
    <3> HIDE DEF r
    <3>4. Len(requests) + 1 \in DOMAIN requests' /\ requests'[Len(requests) + 1].id = m
      BY <2>2, <3>2, <3>3
    <3>5. \A k \in DOMAIN requests' : requests'[k].id # m => k < Len(requests) + 1
      BY <3>2, <3>4
    <3>6. (Ordered(m))'
      BY <3>4, <3>5 DEF Ordered
    <3>7. [id |-> m, type |-> "UNSUBSCRIBE"] \notin accepted
      <4> DEFINE x == [id |-> m, type |-> "UNSUBSCRIBE"]
      <4>1. x.id = n
        BY <2>2
      <4> HIDE DEF x
      <4>2. x \notin accepted
        BY <1>1, <4>1 DEF BaseInv, AcceptedInv
      <4> QED
        BY <4>2 DEF x
    <3> QED
      BY <3>2, <3>6, <3>7
  <2>3. sub_handles'[i].call # 0
    BY <1>4
  <2>4. CASE sub_handles'[i] = sub_handles[i] /\ \A t \in Topics : Subscribe(t) \/ Unsubscribe(t) => t # filter[Held(i)]
    <3>1. Held(i) = m
      BY <1>4, <2>4 DEF Held
    <3> QED
      BY <2>1, <2>4, <3>1
  <2>5. CASE /\ \A t \in Topics : ~Subscribe(t) /\ ~Unsubscribe(t)
             /\ sub_handles'[i] = [call |-> Held(i), status |-> TRUE]
    <3>1. Held(i) = m
      BY <1>4, <2>5
    <3> QED
      BY <2>1, <2>5, <3>1
  <2>6. CASE \E t \in Topics : Subscribe(t) /\ sub_handles'[i] = [call |-> n, status |-> FALSE]
    <3>1. m = n
      BY <1>4, <2>6
    <3> QED
      BY <2>2, <2>6, <3>1
  <2> QED
    BY <2>3, <2>4, <2>5, <2>6, SlotCases
<1> QED
  BY <1>2, <1>3, <1>4 DEF OrderInv, Held, Ordered

\* While the memory of a subscription that waits is there, so is its handle.
WaitingInv == \A x \in Waiting : x.type = "SUBSCRIBE" /\ x.id \in heap => \E i \in Slots : Held(i) = x.id

\* A slot that loses its handle releases its memory.
LEMMA HeapStep ==
  ASSUME BaseInv, Next
  PROVE  /\ heap' \subseteq heap \cup {Len(filter) + 1}
         /\ \A i \in Slots : \/ sub_handles'[i].call = Held(i)
                             \/ Held(i) = 0
                             \/ Held(i) \notin heap'
<1> DEFINE n == Len(filter) + 1
<1>1. sub_handles \in Handles /\ TypeOK /\ \A i \in Slots : Held(i) # n
  BY IdsAreOld DEF BaseInv, TypeOK, Handles
<1>2. ASSUME NEW S \in SUBSET Slots, ClearHandles(S), heap' \subseteq (heap \ CallsIn(S)) \cup {n}
      PROVE  heap' \subseteq heap \cup {n} /\ \A i \in Slots : \/ sub_handles'[i].call = Held(i)
                                                            \/ Held(i) = 0
                                                            \/ Held(i) \notin heap'
  BY <1>1, <1>2, ClearFacts DEF CallsIn, Held
<1>3. ASSUME NEW t \in Topics, Subscribe(t)
      PROVE  heap' \subseteq heap \cup {n} /\ \A i \in Slots : \/ sub_handles'[i].call = Held(i)
                                                            \/ Held(i) = 0
                                                            \/ Held(i) \notin heap'
  <2> DEFINE l == Least(SlotFor(t))
  <2>1. MayCall(t) /\ SlotFor(t) # {} /\ AddHandle(l, n)
    BY <1>3 DEF Subscribe
  <2>2. l \in SlotFor(t) /\ l \in Slots /\ n \in Calls
    BY <1>1, <2>1, CallFacts, HoldersFacts
  <2>3. \A j \in Slots : sub_handles'[j] = IF j = l THEN [call |-> n, status |-> FALSE] ELSE sub_handles[j]
    BY <1>1, <2>1, <2>2, AddFacts
  <2>4. heap' = (heap \ CallsIn({l})) \cup {n}
    BY <2>1 DEF AddHandle
  <2> HIDE DEF l
  <2> QED
    BY <1>1, <2>2, <2>3, <2>4 DEF CallsIn, Held
<1>4. \A t : Removed(t) \in SUBSET Slots
  BY DEF Removed, Holders
<1>5. ASSUME NEW t \in Topics, SubscribeFails(t)
      PROVE  \E S \in SUBSET Slots : ClearHandles(S) /\ heap' \subseteq (heap \ CallsIn(S)) \cup {n}
  <2>1. Least(SlotFor(t)) \in Slots
    BY <1>5, HoldersFacts DEF SubscribeFails
  <2> QED
    BY <1>4, <1>5, <2>1 DEF SubscribeFails
<1>6. ASSUME NEW t \in Topics, SubscribeNoRoom(t)
      PROVE  \E S \in SUBSET Slots : ClearHandles(S) /\ heap' \subseteq (heap \ CallsIn(S)) \cup {n}
  BY <1>1, <1>4, <1>6, CallFacts DEF SubscribeNoRoom
<1>7. ASSUME NEW t \in Topics, Unsubscribe(t)
      PROVE  \E S \in SUBSET Slots : ClearHandles(S) /\ heap' \subseteq (heap \ CallsIn(S)) \cup {n}
  BY <1>4, <1>7 DEF Unsubscribe
<1>8. CASE Destroy \/ SubackRefused
  <2>1. \E S \in SUBSET Slots : ClearHandles(S) /\ heap' \subseteq (heap \ CallsIn(S)) \cup {n}
    BY <1>4, <1>8 DEF Destroy, SubackRefused
  <2> QED
    BY <1>2, <2>1
<1>9. CASE SubackGranted
  BY <1>1, <1>9, StatusFacts DEF SubackGranted
<1>10. CASE SubackUnknown \/ Unsuback \/ CheckSubTimeout \/ HandleDisconnect \/ HandleReconnect \/ Environment
  BY <1>1, <1>10 DEF SubackUnknown, Unsuback, CheckSubTimeout, HandleDisconnect, HandleReconnect, Environment,
     BrokerGrants, BrokerRefuses, LinkFails, tableVars, Held
<1> QED
  BY <1>2, <1>3, <1>5, <1>6, <1>7, <1>8, <1>9, <1>10 DEF Next, Application, Yield

LEMMA WaitingInvStep ==
  ASSUME BaseInv, WaitingInv, Next
  PROVE  WaitingInv'
<1> DEFINE n == Len(filter) + 1
<1>1. TypeOK /\ Len(filter) \in Nat /\ Identified(list_sub_wait_ack) /\ \A x \in Waiting : x.id <= Len(filter)
  BY IdsAreOld DEF BaseInv, ListInv, AcceptedInv
<1>2. list_sub_wait_ack \in Seq(Nodes)
  BY <1>1 DEF TypeOK
<1>6. ASSUME NEW x \in Waiting PROVE x.id # 0
  <2>1. x \in Nodes
    BY <1>2, ElementsFacts DEF Waiting
  <2> QED
    BY <2>1, SubscribeAssumption DEF Nodes, Calls, SubscribeAssumption
<1>3. Appends => filter' # filter
  BY <1>1 DEF Appends
<1>4. CASE Takes \/ Expires \/ Clears \/ KeepsWaiting
  <2>1. Takes => Waiting' \subseteq Waiting
    BY <1>1, PoppedFacts DEF Takes, Waiting, Elements
  <2>2. Expires => Waiting' \subseteq Waiting
    BY <1>1, ExpiredFacts DEF Expires, Waiting, Elements
  <2>3. Clears \/ KeepsWaiting => Waiting' \subseteq Waiting
    BY DEF Clears, KeepsWaiting, Waiting, Elements
  <2>4. Waiting' \subseteq Waiting
    BY <1>4, <2>1, <2>2, <2>3
  <2> SUFFICES ASSUME NEW x \in Waiting, x.type = "SUBSCRIBE", x.id \in heap'
               PROVE  \E i \in Slots : sub_handles'[i].call = x.id
    BY <2>4 DEF WaitingInv, Held
  <2>5. x.id \in heap
    BY <1>1, HeapStep
  <2>6. PICK i \in Slots : Held(i) = x.id
    BY <2>5 DEF WaitingInv
  <2>7. x.id # 0
    BY <1>6
  <2> QED
    BY <2>6, <2>7, HeapStep
<1>5. CASE Appends
  <2>1. PICK y \in Nodes : y.id = n /\ list_sub_wait_ack' = Append(list_sub_wait_ack, y)
    BY <1>5 DEF Appends
  <2>2. Waiting' = Waiting \cup {y} /\ list_sub_wait_ack' # list_sub_wait_ack
    BY <1>2, <2>1, ElementsOfAppend, AppendProperties DEF Waiting, Elements
  <2> SUFFICES ASSUME NEW x \in Waiting', x.type = "SUBSCRIBE", x.id \in heap'
               PROVE  \E i \in Slots : sub_handles'[i].call = x.id
    BY DEF WaitingInv, Held
  <2>3. CASE x \in Waiting
    <3>1. x.id \in heap
      BY <1>1, <2>3, HeapStep
    <3>2. PICK i \in Slots : Held(i) = x.id
      BY <2>3, <3>1 DEF WaitingInv
    <3>3. x.id # 0
      BY <1>6, <2>3
    <3> QED
      BY <3>2, <3>3, HeapStep
  <2>4. ASSUME x = y, NEW t \in Topics, Subscribe(t)
        PROVE  \E i \in Slots : sub_handles'[i].call = x.id
    <3>1. SlotFor(t) # {} /\ AddHandle(Least(SlotFor(t)), n)
      BY <2>4 DEF Subscribe
    <3>2. Least(SlotFor(t)) \in Slots /\ n \in Calls
      BY <2>1, <3>1, HoldersFacts DEF Nodes
    <3> DEFINE l == Least(SlotFor(t))
    <3>4. sub_handles \in Handles /\ AddHandle(l, n) /\ l \in Slots
      BY <1>1, <3>1, <3>2 DEF TypeOK, Handles
    <3> HIDE DEF l
    <3>3. sub_handles'[l] = [call |-> n, status |-> FALSE]
      BY <3>2, <3>4, AddFacts
    <3> QED
      BY <2>1, <2>4, <3>3, <3>4
  <2>5. ASSUME NEW t \in Topics, Unsubscribe(t)
        PROVE  y.type = "UNSUBSCRIBE"
    <3>1. Request(n, "UNSUBSCRIBE")
      BY <2>2, <2>5 DEF Unsubscribe, RequestFails
    <3> DEFINE z == [id |-> n, type |-> "UNSUBSCRIBE"]
    <3>2. list_sub_wait_ack' = Append(list_sub_wait_ack, z)
      BY <3>1 DEF Request
    <3>3. z \in Nodes /\ z.type = "UNSUBSCRIBE"
      BY <2>1 DEF Nodes
    <3> HIDE DEF z
    <3>4. y = z
      <4>1. Append(list_sub_wait_ack, y)[Len(list_sub_wait_ack) + 1] = y
        BY <1>2, AppendProperties
      <4>2. Append(list_sub_wait_ack, z)[Len(list_sub_wait_ack) + 1] = z
        BY <1>2, <3>3, AppendProperties
      <4> QED
        BY <2>1, <3>2, <4>1, <4>2
    <3> QED
      BY <3>3, <3>4
  <2>6. \E t \in Topics : Subscribe(t) \/ Unsubscribe(t)
    BY <1>3, <1>5, <2>2 DEF Next, Application, SubscribeFails, SubscribeNoRoom, Destroy, Yield,
       SubackUnknown, SubackGranted, SubackRefused, Unsuback, Reads, CheckSubTimeout, HandleDisconnect,
       HandleReconnect, Environment, BrokerGrants, BrokerRefuses, LinkFails, callVars, RequestFails
  <2> QED
    BY <2>2, <2>3, <2>4, <2>5, <2>6
<1> QED
  BY <1>4, <1>5, WaitingStep

-----------------------------------------------------------------------------
(* What IOT_MQTT_IsSubReady says. *)

\* Of the handle of call m whose status is s: when it is answered its request is no more, and the
\* broker has heard of its filter, or is about to be told again.
Unrequested(s, m) ==
    s \/ (\E k \in DOMAIN answers : answers[k].id = m) => \A k \in DOMAIN requests : requests[k].id # m

Known(s, m) ==
    is_connected /\ (s \/ \E k \in DOMAIN answers : answers[k].id = m)
    => filter[m] \in Heard \/ \E k \in DOMAIN requests : requests[k].id = 0 /\ requests[k].topic = filter[m]

StatusInv ==
    \A i \in Slots : Held(i) # 0 =>
        Unrequested(sub_handles[i].status, Held(i)) /\ Known(sub_handles[i].status, Held(i))

\* The packets of a call that was made keep what is known of it.
LEMMA KnownStep ==
  ASSUME BaseInv, OrderInv, Next,
         NEW i \in Slots, NEW m, m = Held(i), m # 0,
         NEW s \in BOOLEAN, Unrequested(s, m), Known(s, m)
  PROVE  (Unrequested(s, m))' /\ (Known(s, m))'
<1>1. TypeOK /\ TableInv /\ Len(filter) \in Nat /\ m \in 1..Len(filter) /\ Ordered(m)
  <2>1. Len(filter) \in Nat /\ Held(i) \in 0..Len(filter)
    BY IdsAreOld
  <2>2. m \in 1..Len(filter)
    BY <2>1
  <2> QED
    BY <2>1, <2>2 DEF BaseInv, OrderInv
<1>2. filter'[m] = filter[m] /\ filter[m] \in Topics
  BY <1>1, FilterStep DEF Extends, TypeOK
<1>3. CASE Answers1
  <2>1. /\ DOMAIN requests = 1..Len(requests) /\ Len(requests) \in Nat \ {0}
        /\ DOMAIN requests' = 1..(Len(requests) - 1)
        /\ \A k \in 1..(Len(requests) - 1) : requests'[k] = requests[k + 1]
        /\ DOMAIN answers = 1..Len(answers) /\ Len(answers) \in Nat
        /\ DOMAIN answers' = 1..(Len(answers) + 1)
        /\ \A k \in 1..Len(answers) : answers'[k] = answers[k]
        /\ answers'[Len(answers) + 1].id = requests[1].id
    BY <1>1, <1>3, Answers1Facts
  <2>2. \A j \in 1..Len(requests) : j > 1 => j - 1 \in 1..(Len(requests) - 1) /\ requests'[j - 1] = requests[j]
    BY <2>1
  <2>12. \A k \in DOMAIN requests' : k + 1 \in DOMAIN requests /\ k + 1 # 1 /\ requests'[k] = requests[k + 1]
    <3>1. \A k \in 1..(Len(requests) - 1) : k + 1 \in 1..Len(requests) /\ k + 1 # 1
      BY <2>1
    <3> QED
      BY <2>1, <3>1
  <2>3. (Unrequested(s, m))'
    <3>1. CASE s \/ \E k \in DOMAIN answers : answers[k].id = m
      <4>1. \A k \in DOMAIN requests : requests[k].id # m
        BY <3>1 DEF Unrequested
      <4> QED
        BY <2>12, <4>1 DEF Unrequested
    <3>2. CASE requests[1].id = m
      <4>1. \A k \in DOMAIN requests : k # 1 => requests[k].id # m
        <5>1. 1 \in DOMAIN requests /\ m # 0
          BY <1>1, <2>1
        <5>2. \A j, k \in DOMAIN requests : requests[j].id = requests[k].id /\ requests[k].id # 0 => j = k
          BY DEF OrderInv
        <5> QED
          BY <3>2, <5>1, <5>2
      <4> QED
        BY <2>12, <4>1 DEF Unrequested
    <3>3. CASE ~s /\ ~(\E k \in DOMAIN answers : answers[k].id = m) /\ requests[1].id # m
      <4>1. \A k \in DOMAIN answers' : answers'[k].id # m
        BY <2>1, <3>3
      <4> QED
        BY <3>3, <4>1 DEF Unrequested
    <3> QED
      BY <3>1, <3>2, <3>3
  <2>4. Heard' = IF Head(requests).type = "SUBSCRIBE" THEN Heard \cup {Head(requests).topic}
                                                    ELSE Heard \ {Head(requests).topic}
    BY <1>3 DEF Answers1
  <2> DEFINE h == Head(requests)
  <2>5. requests \in Seq(Requests) /\ requests # <<>> /\ answers \in Seq(Answers)
    BY <1>1, <1>3 DEF TypeOK, Answers1
  <2>6. h \in Requests /\ h = requests[1] /\ h \in Elements(requests)
    BY <2>5, HeadTailProperties, ElementsOfTail
  <2>8. /\ Heard' = IF h.type = "SUBSCRIBE" THEN Heard \cup {h.topic} ELSE Heard \ {h.topic}
        /\ h.type \in {"SUBSCRIBE", "UNSUBSCRIBE"}
    BY <2>4, <2>6 DEF Requests
  <2>9. /\ h.id = 0 => h.type = "SUBSCRIBE"
        /\ h.id = m => h.type = "SUBSCRIBE" /\ h.topic = filter[m]
    <3>1. /\ h.id = 0 => h.type = "SUBSCRIBE"
          /\ h.id # 0 => [id |-> h.id, type |-> h.type] \in accepted /\ h.topic = filter[h.id]
      BY <2>6 DEF BaseInv, RequestInv
    <3>2. [id |-> m, type |-> "UNSUBSCRIBE"] \notin accepted
      BY DEF OrderInv
    <3> QED
      BY <1>1, <2>8, <3>1, <3>2
  <2> HIDE DEF h
  <2>11. ASSUME is_connected', s \/ \E k \in DOMAIN answers' : answers'[k].id = m
         PROVE  filter[m] \in Heard' \/ \E k \in DOMAIN requests' : requests'[k].id = 0 /\ requests'[k].topic = filter[m]
    <3>1. is_connected
      BY <1>3, <2>11 DEF Answers1
    <3>2. CASE h.id = m
      BY <2>8, <2>9, <3>2
    <3>3. CASE s \/ \E k \in DOMAIN answers : answers[k].id = m
      <4>1. filter[m] \in Heard \/ \E k \in DOMAIN requests : requests[k].id = 0 /\ requests[k].topic = filter[m]
        BY <3>1, <3>3 DEF Known
      <4>2. \A k \in DOMAIN requests : requests[k].id # m
        BY <3>3 DEF Unrequested
      <4>3. CASE filter[m] \in Heard
        <5>1. CASE h.type = "UNSUBSCRIBE" /\ h.topic = filter[m]
          <6>1. h.id \notin {0, m}
            BY <2>9, <5>1
          <6> QED
            BY <2>1, <2>6, <4>2, <5>1, <6>1, <1>1 DEF Ordered
        <5>2. CASE ~(h.type = "UNSUBSCRIBE" /\ h.topic = filter[m])
          BY <2>8, <4>3, <5>2
        <5> QED
          BY <5>1, <5>2
      <4>4. ASSUME NEW k \in DOMAIN requests, requests[k].id = 0, requests[k].topic = filter[m]
            PROVE  filter[m] \in Heard' \/ \E j \in DOMAIN requests' : requests'[j].id = 0 /\ requests'[j].topic = filter[m]
        <5>1. CASE k = 1
          BY <2>6, <2>8, <2>9, <4>4, <5>1
        <5>2. CASE k > 1
          BY <2>1, <2>2, <4>4, <5>2
        <5> QED
          BY <2>1, <5>1, <5>2
      <4> QED
        BY <4>1, <4>3, <4>4
    <3>4. CASE ~s /\ ~(\E k \in DOMAIN answers : answers[k].id = m)
      <4>1. PICK k \in DOMAIN answers' : answers'[k].id = m
        BY <2>11, <3>4
      <4>2. k = Len(answers) + 1
        BY <2>1, <3>4, <4>1
      <4> QED
        BY <2>1, <2>6, <3>2, <4>1, <4>2
    <3> QED
      BY <3>3, <3>4
  <2> QED
    BY <1>2, <2>3, <2>11 DEF Known
<1>4. CASE Sends
  <2>1. PICK type \in {"SUBSCRIBE", "UNSUBSCRIBE"}, t \in Topics : MayCall(t) /\ Request(Len(filter) + 1, type)
    BY <1>4 DEF Sends
  <2> DEFINE r == [id |-> Len(filter) + 1, type |-> type, topic |-> t]
  <2>2. /\ DOMAIN requests = 1..Len(requests) /\ Len(requests) \in Nat
        /\ DOMAIN requests' = 1..(Len(requests) + 1)
        /\ \A h \in 1..Len(requests) : requests'[h] = requests[h]
        /\ requests'[Len(requests) + 1] = r
        /\ answers' = answers /\ Heard' = Heard
    BY <1>1, <2>1, SendsFacts DEF Heard
  <2>3. r.id # m
    BY <1>1
  <2> HIDE DEF r
  <2>4. is_connected
    BY <2>1 DEF MayCall
  <2>5. \A k \in DOMAIN requests' : (k \in DOMAIN requests /\ requests'[k] = requests[k]) \/ requests'[k].id # m
    BY <2>2, <2>3
  <2>6. \A k \in DOMAIN requests : k \in DOMAIN requests' /\ requests'[k] = requests[k]
    BY <2>2
  <2>7. (Unrequested(s, m))'
    BY <2>2, <2>5 DEF Unrequested
  <2>8. (Known(s, m))'
    BY <1>2, <2>2, <2>4, <2>6 DEF Known
  <2> QED
    BY <2>7, <2>8
<1>5. CASE Forgets
  BY <1>5 DEF Forgets, Unrequested, Known
<1>6. CASE Resends
  <2>1. PICK order \in InOrder(Slots \ Unused) : requests' = Resubscribed(order)
    BY <1>6 DEF Resends
  <2> DEFINE q == Resubscribed(order)
  <2>2. requests' = q
    BY <2>1
  <2> HIDE DEF q
  <2>3. /\ DOMAIN q = DOMAIN order
        /\ \A h \in DOMAIN order : q[h] = [id |-> 0, type |-> "SUBSCRIBE", topic |-> filter[Held(order[h])]]
        /\ \E h \in DOMAIN order : order[h] = i
    BY <1>1, <2>1, ResubscribedFacts DEF q
  <2>4. \A h \in DOMAIN q : q[h].id = 0 /\ q[h].topic = filter[Held(order[h])]
    BY <2>3
  <2>5. \E h \in DOMAIN q : q[h].id = 0 /\ q[h].topic = filter[m]
    BY <2>3, <2>4
  <2>6. \A h \in DOMAIN q : q[h].id # m
    BY <2>4
  <2> QED
    BY <1>2, <2>2, <2>5, <2>6 DEF Unrequested, Known
<1>7. CASE ReadsAnswer
  <2>1. answers \in Seq(Answers) /\ answers # <<>> /\ answers' = Tail(answers)
        /\ UNCHANGED <<is_connected, requests, Heard>>
    BY <1>1, <1>7 DEF ReadsAnswer, TypeOK, Heard
  <2>2. \A k \in DOMAIN answers' : k + 1 \in DOMAIN answers /\ answers'[k] = answers[k + 1]
    BY <2>1, ElementsOfTail
  <2> QED
    BY <1>2, <2>1, <2>2 DEF Unrequested, Known
<1>8. CASE Silent
  BY <1>2, <1>8 DEF Silent, Unrequested, Known, Heard
<1> QED
  BY <1>3, <1>4, <1>5, <1>6, <1>7, <1>8, PacketCases

\* A step keeps what is known of every handle, but when the status of another call's handle is set:
\* then released memory was read, and the packets of that call are still on their way.
LEMMA StatusStep ==
  ASSUME BaseInv, OrderInv, WaitingInv, StatusInv, Next,
         NEW i \in Slots, NEW m, m = sub_handles'[i].call, m # 0,
         NEW s, s = sub_handles'[i].status
  PROVE  \/ (Unrequested(s, m))' /\ (Known(s, m))'
         \/ misused' /\ ~Settled'
<1> DEFINE n == Len(filter) + 1
<1>1. TypeOK /\ sub_handles \in Handles /\ Len(filter) \in Nat
  BY IdsAreOld DEF BaseInv, TypeOK, Handles
<1>2. sub_handles[i].status \in BOOLEAN
  BY <1>1 DEF Handles
<1>3. sub_handles'[i].call # 0
  OBVIOUS
<1>4. CASE sub_handles'[i] = sub_handles[i]
  <2>1. m = Held(i) /\ s = sub_handles[i].status
    BY <1>4 DEF Held
  <2>2. Unrequested(s, m) /\ Known(s, m)
    BY <2>1 DEF StatusInv
  <2> QED
    BY <1>2, <2>1, <2>2, KnownStep
<1>5. CASE \E t \in Topics : Subscribe(t) /\ sub_handles'[i] = [call |-> n, status |-> FALSE]
  <2>1. PICK t \in Topics : Subscribe(t)
    BY <1>5
  <2>2. s = FALSE /\ m = n
    BY <1>5
  <2>3. MayCall(t) /\ Request(n, "SUBSCRIBE")
    BY <2>1 DEF Subscribe
  <2>4. answers' = answers
    BY <1>1, <2>3, SendsFacts
  <2>5. \A k \in DOMAIN answers' : answers'[k].id # m
    BY <1>1, <2>2, <2>4, IdsAreOld
  <2> QED
    BY <2>2, <2>5 DEF Unrequested, Known
<1>6. CASE /\ SubackGranted
           /\ sub_handles'[i] = [call |-> Held(i), status |-> TRUE]
           /\ filter[Held(i)] = filter[Head(answers).id]
           /\ UNCHANGED <<requests, granted, refused>> /\ answers' = Tail(answers)
  <2> DEFINE c == Head(answers).id
  <2>1. m = Held(i) /\ s = TRUE
    BY <1>6
  <2>2. /\ answers # <<>> /\ answers \in Seq(Answers)
        /\ is_connected /\ is_connected' = is_connected /\ Waits(c)
        /\ Head(answers).type = "SUBACK" /\ filter' = filter
        /\ misused' = (c \notin heap \/ SearchMisuses(filter[c]))
    BY <1>1, <1>6 DEF TypeOK, SubackGranted, Reads, callVars, linkVars
  <2>3. /\ Head(answers) = answers[1] /\ Head(answers) \in Elements(answers)
        /\ DOMAIN answers = 1..Len(answers) /\ Len(answers) >= 1 /\ DOMAIN answers' = 1..(Len(answers) - 1)
        /\ Len(answers) \in Nat
    BY <1>6, <2>2, ElementsOfTail
  <2>4. CASE c = m
    <3>1. Unrequested(sub_handles[i].status, m) /\ Known(sub_handles[i].status, m)
      BY <2>1 DEF StatusInv
    <3>2. 1 \in DOMAIN answers /\ answers[1].id = m
      BY <2>2, <2>3, <2>4
    <3>3. \A k \in DOMAIN requests : requests[k].id # m
      BY <3>1, <3>2 DEF Unrequested
    <3>4. filter[m] \in Heard \/ \E k \in DOMAIN requests : requests[k].id = 0 /\ requests[k].topic = filter[m]
      BY <2>2, <3>1, <3>2 DEF Known
    <3> QED
      BY <1>6, <2>2, <3>3, <3>4 DEF Unrequested, Known, Heard
  <2>5. CASE c # m
    <3>1. PICK x \in Waiting : x.id = c
      BY <2>2, WaitsIsWaiting
    <3>2. x \in accepted /\ x \in Nodes /\ c # 0
      <4>1. x \in accepted /\ x \in Nodes
        BY <3>1 DEF BaseInv, ListInv, TypeOK
      <4> QED
        BY <3>1, <4>1, SubscribeAssumption DEF Nodes, Calls, SubscribeAssumption
    <3>3. [id |-> c, type |-> "SUBSCRIBE"] \in accepted
      BY <2>2, <2>3, <3>2 DEF BaseInv, AnswerInv
    <3>4. x.type = "SUBSCRIBE"
      BY <3>1, <3>2, <3>3 DEF BaseInv, AcceptedInv
    <3>5. c \notin heap
      <4> SUFFICES ASSUME c \in heap PROVE FALSE
        OBVIOUS
      <4>1. PICK j \in Slots : Held(j) = c
        BY <3>1, <3>4 DEF WaitingInv
      <4>2. i = j
        BY <1>6, <2>1, <3>2, <4>1 DEF BaseInv, TableInv
      <4> QED
        BY <2>1, <2>5, <4>1, <4>2
    <3>6. misused'
      BY <2>2, <3>5
    <3>7. Ordered(m)
      BY <2>1 DEF OrderInv
    <3>8. \/ \E j \in DOMAIN answers : j > 1 /\ answers[j].id = m
          \/ \E j \in DOMAIN requests : requests[j].id = m
      BY <1>6, <2>1, <2>3, <2>5, <3>2, <3>7 DEF Ordered
    <3>9. answers' # <<>> \/ requests # <<>>
      <4>1. CASE \E j \in DOMAIN answers : j > 1
        <5>1. 1 \in DOMAIN answers'
          BY <2>3, <4>1
        <5> QED
          BY <5>1
      <4>2. CASE \E j \in DOMAIN requests : requests[j].id = m
        BY <4>2
      <4> QED
        BY <3>8, <4>1, <4>2
    <3> QED
      BY <1>6, <3>6, <3>9 DEF Settled
  <2> QED
    BY <2>4, <2>5
<1> QED
  BY <1>3, <1>4, <1>5, <1>6, SlotCases

ReadyInv ==
    /\ BaseInv /\ AcceptedIsAnswered
    /\ OrderInv /\ WaitingInv
    /\ ~misused => StatusInv
    /\ ReadyIsHeard

LEMMA InitReady == Init => ReadyInv
<1> SUFFICES ASSUME Init PROVE ReadyInv
  OBVIOUS
<1>1. BaseInv /\ AcceptedIsAnswered
  BY InitBase
<1>2. \A i \in Slots : Held(i) = 0 /\ sub_handles[i].status = FALSE
  BY DEF Init, Held
<1>3. OrderInv /\ WaitingInv /\ StatusInv
  BY <1>2 DEF Init, OrderInv, EmptyInv, WaitingInv, Waiting, Elements, StatusInv
<1>4. \A t : Holders(t) = {}
  BY <1>2, HoldersFacts
<1>5. ReadyIsHeard
  BY <1>4 DEF ReadyIsHeard, IsSubReady, Removed
<1> QED
  BY <1>1, <1>3, <1>5 DEF ReadyInv

LEMMA ReadyStep ==
  ASSUME ReadyInv, [Next]_vars
  PROVE  ReadyInv'
<1>1. CASE Next
  <2>1. BaseInv' /\ AcceptedIsAnswered' /\ OrderInv' /\ WaitingInv'
    BY <1>1, BaseStep, OrderStep, WaitingInvStep DEF ReadyInv
  <2>2. StatusInv /\ BaseInv /\ OrderInv /\ WaitingInv
    BY <1>1 DEF ReadyInv, Next
  <2>3. \A i \in Slots : \A m, s : m = sub_handles'[i].call /\ m # 0 /\ s = sub_handles'[i].status
           => \/ (Unrequested(s, m))' /\ (Known(s, m))'
              \/ misused' /\ ~Settled'
    BY <1>1, <2>2, StatusStep
  <2>4. ~misused' => StatusInv'
    BY <2>3 DEF StatusInv, Held, Unrequested, Known, Heard
  <2>5. ASSUME Settled', NEW t \in Topics \ Wildcards, IsSubReady(t)'
        PROVE  t \in granted' \cup refused'
    <3> DEFINE S == {i \in Slots : sub_handles'[i].call # 0 /\ filter'[sub_handles'[i].call] = t}
    <3>1. S # {} /\ sub_handles'[Least(S)].status
      BY <2>5 DEF IsSubReady, Removed, Holders, Least
    <3>2. Least(S) \in S
      <4>1. S \in SUBSET Slots
        OBVIOUS
      <4> HIDE DEF S
      <4> QED
        BY <3>1, <4>1, LeastSlot
    <3>3. PICK i \in Slots : sub_handles'[i].call # 0 /\ filter'[sub_handles'[i].call] = t /\ sub_handles'[i].status
      BY <3>1, <3>2
    <3>4. \A s, m : m = sub_handles'[i].call /\ s = sub_handles'[i].status => (Known(s, m))'
      BY <2>3, <2>5, <3>3
    <3>5. requests' = <<>> /\ is_connected'
      BY <2>5 DEF Settled
    <3>6. \A s, m : m = sub_handles'[i].call /\ s = sub_handles'[i].status /\ s => filter'[m] \in granted' \cup refused'
      <4> SUFFICES ASSUME NEW s, NEW m, m = sub_handles'[i].call, s = sub_handles'[i].status, s
                   PROVE  filter'[m] \in granted' \cup refused'
        OBVIOUS
      <4>1. (Known(s, m))'
        BY <3>4
      <4> QED
        BY <3>5, <4>1 DEF Known, Heard
    <3> QED
      BY <3>3, <3>6
  <2>6. ReadyIsHeard'
    BY <2>5 DEF ReadyIsHeard
  <2> QED
    BY <2>1, <2>4, <2>6 DEF ReadyInv
<1>2. CASE UNCHANGED vars
  <2>1. BaseInv' /\ AcceptedIsAnswered'
    BY BaseStep DEF ReadyInv
  <2> USE <1>2 DEF vars, tableVars, linkVars, brokerVars, callVars
  <2>2. OrderInv' /\ WaitingInv'
    BY DEF ReadyInv, OrderInv, EmptyInv, Ordered, Held, WaitingInv, Waiting, Elements
  <2>3. ~misused' => StatusInv'
    BY DEF ReadyInv, StatusInv, Unrequested, Known, Heard, Held
  <2>4. ReadyIsHeard'
    BY DEF ReadyInv, ReadyIsHeard, Settled, IsSubReady, Removed, Holders, Least
  <2> QED
    BY <2>1, <2>2, <2>3, <2>4 DEF ReadyInv
<1> QED
  BY <1>1, <1>2

\* When nothing is on its way, every filter IOT_MQTT_IsSubReady is true of is one the broker knows or
\* has refused last, in this session: whatever was refused, lost or late, however a refusal was read,
\* and after any number of reconnections.
THEOREM ReadyMeansHeard == Spec => []ReadyIsHeard
<1>1. Init => ReadyInv
  BY InitReady
<1>2. ReadyInv /\ [Next]_vars => ReadyInv'
  BY ReadyStep
<1>3. ReadyInv => ReadyIsHeard
  BY DEF ReadyInv
<1> QED
  BY <1>1, <1>2, <1>3, PTL DEF Spec

-----------------------------------------------------------------------------
(* What the broker knows and the table does not. *)

AllGranted == "nack" \notin Mishaps => \A k \in DOMAIN answers : answers[k].ok

LEMMA AllGrantedStep ==
  ASSUME TypeOK, AllGranted, Next
  PROVE  AllGranted'
<1> SUFFICES ASSUME "nack" \notin Mishaps
             PROVE  \A k \in DOMAIN answers' : answers'[k].ok
  BY DEF AllGranted
<1>1. answers \in Seq(Answers) /\ \A k \in DOMAIN answers : answers[k].ok
  BY DEF TypeOK, AllGranted
<1>2. CASE BrokerGrants
  <2> DEFINE a == [id   |-> Head(requests).id,
                   type |-> IF Head(requests).type = "SUBSCRIBE" THEN "SUBACK" ELSE "UNSUBACK",
                   ok   |-> TRUE]
  <2>1. answers' = Append(answers, a) /\ requests \in Seq(Requests) /\ requests # <<>>
    BY <1>2 DEF BrokerGrants, TypeOK
  <2>2. Head(requests) \in Requests
    BY <2>1, HeadTailProperties
  <2>3. a \in Answers /\ a.ok = TRUE
    BY <2>2 DEF Requests, Answers
  <2> HIDE DEF a
  <2>4. /\ DOMAIN answers' = 1..(Len(answers) + 1) /\ DOMAIN answers = 1..Len(answers)
        /\ \A k \in 1..Len(answers) : answers'[k] = answers[k]
        /\ answers'[Len(answers) + 1] = a
    BY <1>1, <2>1, <2>3, AppendProperties, LenProperties
  <2> QED
    BY <1>1, <2>3, <2>4
<1>3. CASE ReadsAnswer
  <2>1. answers # <<>> /\ answers' = Tail(answers)
    BY <1>3 DEF ReadsAnswer
  <2>2. \A k \in DOMAIN answers' : k + 1 \in DOMAIN answers /\ answers'[k] = answers[k + 1]
    BY <1>1, <2>1, ElementsOfTail
  <2> QED
    BY <1>1, <2>2
<1>4. CASE answers' = answers \/ answers' = <<>>
  BY <1>1, <1>4
<1>5. ~BrokerRefuses
  BY DEF BrokerRefuses
<1>6. BrokerGrants \/ ReadsAnswer \/ answers' = answers \/ answers' = <<>>
  BY <1>5 DEF Next, Application, Subscribe, SubscribeFails, SubscribeNoRoom, Unsubscribe, Destroy, Yield,
     SubackUnknown, SubackGranted, SubackRefused, Unsuback, Reads, CheckSubTimeout, HandleDisconnect,
     HandleReconnect, Environment, LinkFails, Request, RequestFails, brokerVars, ReadsAnswer, linkVars, callVars
<1> QED
  BY <1>2, <1>3, <1>4, <1>6

\* No call fails after it has changed the table, and no filter stands for others.
Reliable == Wildcards = {} /\ {"nack", "sendfail", "full"} \cap Mishaps = {}

\* A filter that is in the table stays there until the application unsubscribes.
LEMMA HoldersKept ==
  ASSUME BaseInv, AllGranted, Next, Reliable, NEW t \in Topics, Holders(t) # {},
         ~Unsubscribe(t), ~Destroy
  PROVE  Holders(t)' # {}
<1>1. TypeOK /\ sub_handles \in Handles /\ Len(filter) \in Nat
  BY IdsAreOld DEF BaseInv, TypeOK, Handles
<1>2. PICK i \in Slots : Held(i) # 0 /\ filter[Held(i)] = t
  BY HoldersFacts
<1>3. Held(i) \in 1..Len(filter)
  BY <1>1, <1>2, IdsAreOld
<1>4. filter'[Held(i)] = t
  BY <1>1, <1>2, <1>3, FilterStep DEF Extends
<1>5. ASSUME sub_handles'[i].call = Held(i)
      PROVE  Holders(t)' # {}
  BY <1>2, <1>4, <1>5 DEF Holders, Held
<1>6. ASSUME NEW u \in Topics, Subscribe(u)
      PROVE  Holders(t)' # {}
  <2> DEFINE l == Least(SlotFor(u))
             n == Len(filter) + 1
  <2>1. MayCall(u) /\ SlotFor(u) # {} /\ AddHandle(l, n)
    BY <1>6 DEF Subscribe
  <2>2. l \in SlotFor(u) /\ l \in Slots /\ n \in Calls /\ filter'[n] = u
    BY <1>1, <2>1, CallFacts, HoldersFacts
  <2>3. \A j \in Slots : sub_handles'[j] = IF j = l THEN [call |-> n, status |-> FALSE] ELSE sub_handles[j]
    BY <1>1, <2>1, <2>2, AddFacts
  <2> HIDE DEF l
  <2>4. CASE i # l
    BY <1>5, <2>3, <2>4 DEF Held
  <2>5. CASE i = l
    <3>1. i \in Holders(u)
      BY <1>2, <2>2, <2>5, HoldersFacts DEF SlotFor
    <3>2. u = t
      BY <1>2, <3>1, HoldersFacts
    <3>3. sub_handles'[i].call = n /\ n # 0
      BY <1>1, <2>3, <2>5
    <3> QED
      BY <2>2, <3>2, <3>3 DEF Holders
  <2> QED
    BY <2>4, <2>5
<1>7. ASSUME NEW u \in Topics, Unsubscribe(u)
      PROVE  Holders(t)' # {}
  <2>1. ClearHandles(Holders(u)) /\ u # t
    BY <1>7 DEF Unsubscribe, Removed, Reliable
  <2>2. i \notin Holders(u)
    BY <1>2, <2>1, HoldersFacts
  <2> QED
    BY <1>1, <1>5, <2>1, <2>2, ClearFacts
<1>8. CASE SubackGranted
  BY <1>1, <1>5, <1>8, StatusFacts DEF SubackGranted
<1>9. ~SubackRefused
  <2> SUFFICES ASSUME SubackRefused PROVE FALSE
    OBVIOUS
  <2>1. answers \in Seq(Answers) /\ answers # <<>> /\ ~Head(answers).ok
    BY <1>1 DEF SubackRefused, GrantedQos, Reads, TypeOK
  <2>2. Head(answers) = answers[1] /\ 1 \in DOMAIN answers
    BY <2>1, ElementsOfTail
  <2> QED
    BY <2>1, <2>2 DEF AllGranted, Reliable
<1>10. \A u : ~SubscribeFails(u) /\ ~SubscribeNoRoom(u)
  BY DEF SubscribeFails, SubscribeNoRoom, RequestFails, Reliable
<1>11. CASE UNCHANGED sub_handles
  BY <1>5, <1>11 DEF Held
<1> QED
  BY <1>6, <1>7, <1>8, <1>9, <1>10, <1>11 DEF Next, Application, Yield, Environment, SubackUnknown, Unsuback,
     CheckSubTimeout, HandleDisconnect, HandleReconnect, BrokerGrants, BrokerRefuses, LinkFails, tableVars

\* A filter that the broker knows, or is about to be told, is in the table.
Covered(t) ==
    /\ t \in granted /\ (\A k \in DOMAIN requests : requests[k].topic # t) => Holders(t) # {}
    /\ \A k \in DOMAIN requests :
          /\ requests[k].type = "SUBSCRIBE" /\ requests[k].topic = t
          /\ \A j \in DOMAIN requests : j > k => requests[j].topic # t
          => Holders(t) # {}

KnownInv ==
    /\ destroyed => ~is_connected
    /\ is_connected => \A t \in Topics : Covered(t)

LEMMA CoveredStep ==
  ASSUME BaseInv, EmptyInv, AllGranted, KnownInv, Next, Reliable, is_connected', NEW t \in Topics
  PROVE  (Covered(t))'
<1>1. TypeOK /\ TableInv /\ Len(filter) \in Nat
  BY IdsAreOld DEF BaseInv
<1>2. ~Destroy
  BY DEF Destroy
<1>3. CASE Answers1
  <2>1. /\ DOMAIN requests = 1..Len(requests) /\ Len(requests) \in Nat \ {0}
        /\ DOMAIN requests' = 1..(Len(requests) - 1)
        /\ \A k \in 1..(Len(requests) - 1) : requests'[k] = requests[k + 1]
    BY <1>1, <1>3, Answers1Facts
  <2>2. \A j \in 1..Len(requests) : j > 1 => j - 1 \in 1..(Len(requests) - 1) /\ requests'[j - 1] = requests[j]
    BY <2>1
  <2> DEFINE h == Head(requests)
  <2>3. requests \in Seq(Requests) /\ requests # <<>>
    BY <1>1, <1>3 DEF TypeOK, Answers1
  <2>4. h = requests[1] /\ h.type \in {"SUBSCRIBE", "UNSUBSCRIBE"}
    <3>1. h \in Requests /\ h = requests[1]
      BY <2>3, HeadTailProperties
    <3> HIDE DEF h
    <3> QED
      BY <3>1 DEF Requests
  <2>5. /\ granted' = IF h.type = "SUBSCRIBE" THEN granted \cup {h.topic} ELSE granted \ {h.topic}
        /\ is_connected
    BY <1>3 DEF Answers1, Reliable
  <2> HIDE DEF h
  <2>6. Covered(t)
    BY <2>5 DEF KnownInv
  <2>7. Holders(t) # {} => Holders(t)' # {}
    <3>1. ~Unsubscribe(t)
      <4>1. Unsubscribe(t) => filter' # filter
        BY <1>1, CallFacts DEF Unsubscribe
      <4> QED
        BY <1>3, <4>1 DEF Answers1
    <3> QED
      BY <1>2, <3>1, HoldersKept
  <2>8. ASSUME t \in granted', \A k \in DOMAIN requests' : requests'[k].topic # t
        PROVE  Holders(t) # {}
    <3>1. \A k \in DOMAIN requests : k > 1 => requests[k].topic # t
      BY <2>1, <2>2, <2>8
    <3>2. CASE h.topic = t
      <4>1. h.type = "SUBSCRIBE"
        BY <2>5, <2>8, <3>2
      <4> QED
        BY <2>1, <2>4, <2>6, <3>1, <3>2, <4>1 DEF Covered
    <3>3. CASE h.topic # t
      <4>1. t \in granted
        BY <2>5, <2>8, <3>3
      <4>2. \A k \in DOMAIN requests : requests[k].topic # t
        BY <2>1, <2>4, <3>1, <3>3
      <4> QED
        BY <2>6, <4>1, <4>2 DEF Covered
    <3> QED
      BY <3>2, <3>3
  <2>9. ASSUME NEW k \in DOMAIN requests', requests'[k].type = "SUBSCRIBE", requests'[k].topic = t,
               \A j \in DOMAIN requests' : j > k => requests'[j].topic # t
        PROVE  Holders(t) # {}
    <3>1. k + 1 \in DOMAIN requests /\ requests[k + 1].type = "SUBSCRIBE" /\ requests[k + 1].topic = t /\ k >= 1
      BY <2>1, <2>9
    <3>2. \A j \in DOMAIN requests : j > k + 1 => requests[j].topic # t
      <4> SUFFICES ASSUME NEW j \in DOMAIN requests, j > k + 1 PROVE requests[j].topic # t
        OBVIOUS
      <4>1. j - 1 \in DOMAIN requests' /\ j - 1 > k /\ requests'[j - 1] = requests[j]
        BY <2>1, <2>2, <3>1
      <4> QED
        BY <2>9, <4>1
    <3> QED
      BY <2>6, <3>1, <3>2 DEF Covered
  <2> QED
    BY <2>7, <2>8, <2>9 DEF Covered
<1>4. CASE Sends
  <2>1. PICK type \in {"SUBSCRIBE", "UNSUBSCRIBE"}, u \in Topics :
          /\ (type = "SUBSCRIBE" /\ Subscribe(u)) \/ (type = "UNSUBSCRIBE" /\ Unsubscribe(u))
          /\ MayCall(u) /\ Request(Len(filter) + 1, type)
    BY <1>4 DEF Sends
  <2> DEFINE n == Len(filter) + 1
             r == [id |-> n, type |-> type, topic |-> u]
  <2>2. /\ DOMAIN requests = 1..Len(requests) /\ Len(requests) \in Nat
        /\ DOMAIN requests' = 1..(Len(requests) + 1)
        /\ \A h \in 1..Len(requests) : requests'[h] = requests[h]
        /\ requests'[Len(requests) + 1] = r
        /\ granted' = granted
    BY <1>1, <2>1, SendsFacts
  <2>3. r.topic = u /\ r.type = type
    OBVIOUS
  <2>4. /\ filter'[n] = u /\ n # 0 /\ is_connected /\ filter' = Append(filter, u)
        /\ \A v \in Topics : MayCall(v) => v = u
    BY <1>1, <2>1, CallFacts DEF MayCall
  <2> HIDE DEF r
  <2>5. CASE u # t
    <3>1. ~Unsubscribe(t)
      BY <2>4, <2>5 DEF Unsubscribe
    <3>2. Holders(t) # {} => Holders(t)' # {}
      BY <1>2, <3>1, HoldersKept
    <3>3. \A k \in DOMAIN requests : k \in DOMAIN requests' /\ requests'[k] = requests[k]
      BY <2>2
    <3>4. \A k \in DOMAIN requests' : requests'[k].topic = t => k \in DOMAIN requests /\ requests'[k] = requests[k]
      BY <2>2, <2>3, <2>5
    <3>5. Covered(t)
      BY <2>4 DEF KnownInv
    <3> QED
      BY <2>2, <3>2, <3>3, <3>4, <3>5 DEF Covered
  <2>6. CASE u = t /\ type = "SUBSCRIBE"
    <3> DEFINE l == Least(SlotFor(u))
    <3>1. SlotFor(u) # {} /\ AddHandle(l, n) /\ n \in Calls
      BY <1>1, <2>1, <2>6, CallFacts DEF Subscribe
    <3>2. l \in Slots /\ sub_handles \in Handles
      BY <1>1, <3>1, HoldersFacts DEF TypeOK, Handles
    <3> HIDE DEF l
    <3>3. sub_handles'[l] = [call |-> n, status |-> FALSE]
      BY <3>1, <3>2, AddFacts
    <3>4. l \in Holders(t)'
      BY <2>4, <2>6, <3>2, <3>3 DEF Holders
    <3> QED
      BY <3>4 DEF Covered
  <2>7. CASE u = t /\ type = "UNSUBSCRIBE"
    <3>1. Len(requests) + 1 \in DOMAIN requests' /\ requests'[Len(requests) + 1].topic = t
          /\ requests'[Len(requests) + 1].type = "UNSUBSCRIBE"
      BY <2>2, <2>3, <2>7
    <3>2. \A k \in DOMAIN requests' : k = Len(requests) + 1 \/ Len(requests) + 1 > k
      BY <2>2
    <3> QED
      BY <3>1, <3>2 DEF Covered
  <2> QED
    BY <2>5, <2>6, <2>7
<1>5. CASE Resends
  <2>1. PICK order \in InOrder(Slots \ Unused) : requests' = Resubscribed(order)
    BY <1>5 DEF Resends
  <2> DEFINE q == Resubscribed(order)
  <2>2. requests' = q
    BY <2>1
  <2> HIDE DEF q
  <2>3. /\ DOMAIN q = DOMAIN order
        /\ \A h \in DOMAIN order : order[h] \in Slots /\ Held(order[h]) # 0
        /\ \A h \in DOMAIN order : q[h] = [id |-> 0, type |-> "SUBSCRIBE", topic |-> filter[Held(order[h])]]
    BY <1>1, <2>1, ResubscribedFacts DEF q
  <2>4. \A h \in DOMAIN q : order[h] \in Slots /\ Held(order[h]) # 0 /\ q[h].topic = filter[Held(order[h])]
    BY <2>3
  <2>5. (\E h \in DOMAIN q : q[h].topic = t) => Holders(t) # {}
    BY <2>4 DEF Holders, Held
  <2>6. granted' = {}  /\ Holders(t)' = Holders(t)
    BY <1>5 DEF Resends, EmptyInv, tableVars, Holders
  <2> QED
    BY <2>2, <2>5, <2>6 DEF Covered
<1>6. CASE ReadsAnswer \/ Silent
  <2>1. is_connected /\ UNCHANGED <<requests, granted>>
    BY <1>6 DEF ReadsAnswer, Silent
  <2>2. Covered(t)
    BY <2>1 DEF KnownInv
  <2>3. ~Unsubscribe(t)
    <3>1. Unsubscribe(t) => requests' # requests
      <4> SUFFICES ASSUME Unsubscribe(t) PROVE requests' # requests
        OBVIOUS
      <4>1. MayCall(t) /\ Request(Len(filter) + 1, "UNSUBSCRIBE")
        BY DEF Unsubscribe, RequestFails, Reliable
      <4>2. /\ DOMAIN requests = 1..Len(requests) /\ Len(requests) \in Nat
            /\ DOMAIN requests' = 1..(Len(requests) + 1)
        BY <1>1, <4>1, SendsFacts
      <4> QED
        BY <4>2
    <3> QED
      BY <2>1, <3>1
  <2>4. Holders(t) # {} => Holders(t)' # {}
    BY <1>2, <2>3, HoldersKept
  <2> QED
    BY <2>1, <2>2, <2>4 DEF Covered
<1> QED
  BY <1>3, <1>4, <1>5, <1>6, PacketCases DEF Forgets

HandleInv ==
    /\ BaseInv /\ AcceptedIsAnswered
    /\ OrderInv /\ AllGranted /\ KnownInv

LEMMA HandleStep ==
  ASSUME HandleInv, [Next]_vars, Reliable
  PROVE  HandleInv'
<1>1. CASE Next
  <2>1. BaseInv' /\ AcceptedIsAnswered' /\ OrderInv' /\ AllGranted'
    BY <1>1, BaseStep, OrderStep, AllGrantedStep DEF HandleInv, BaseInv
  <2>2. destroyed' => ~is_connected'
    <3>1. ASSUME NEW t \in Topics, MayCall(t) PROVE ~destroyed
      BY <3>1 DEF MayCall
    <3>2. CASE \E t \in Topics : Subscribe(t) \/ SubscribeFails(t) \/ SubscribeNoRoom(t) \/ Unsubscribe(t)
      BY <3>1, <3>2 DEF Subscribe, SubscribeFails, SubscribeNoRoom, Unsubscribe
    <3>3. CASE Destroy \/ Yield \/ Environment
      BY <3>3 DEF HandleInv, KnownInv, Destroy, Yield, SubackUnknown, SubackGranted, SubackRefused, Unsuback, Reads,
         CheckSubTimeout, HandleDisconnect, HandleReconnect, Environment, BrokerGrants, BrokerRefuses, LinkFails, linkVars
    <3> QED
      BY <1>1, <3>2, <3>3 DEF Next, Application
  <2>3. is_connected' => \A t \in Topics : (Covered(t))'
    BY <1>1, CoveredStep DEF HandleInv, OrderInv
  <2>4. KnownInv'
    BY <2>2, <2>3 DEF KnownInv
  <2> QED
    BY <2>1, <2>4 DEF HandleInv
<1>2. CASE UNCHANGED vars
  <2>1. BaseInv' /\ AcceptedIsAnswered'
    BY BaseStep DEF HandleInv
  <2> USE <1>2 DEF vars, tableVars, linkVars, brokerVars, callVars
  <2>2. OrderInv'
    BY DEF HandleInv, OrderInv, EmptyInv, Ordered, Held
  <2>3. AllGranted'
    BY DEF HandleInv, AllGranted
  <2>4. \A t \in Topics : Covered(t) => (Covered(t))'
    BY DEF Covered, Holders
  <2>5. KnownInv'
    BY <2>4 DEF HandleInv, KnownInv
  <2> QED
    BY <2>1, <2>2, <2>3, <2>5 DEF HandleInv
<1> QED
  BY <1>1, <1>2

\* While no request is refused or fails, for whatever the broker sends when nothing is on its way
\* there is one handle, however late the answers were and however often the connection was lost.
THEOREM GrantedIsHandled ==
  ASSUME Reliable
  PROVE  Spec => []GrantedHasOneHandle
<1>1. Init => HandleInv
  <2> SUFFICES ASSUME Init PROVE HandleInv
    OBVIOUS
  <2>1. ReadyInv
    BY InitReady
  <2>2. AllGranted /\ KnownInv
    BY DEF Init, AllGranted, KnownInv, Covered
  <2> QED
    BY <2>1, <2>2 DEF HandleInv, ReadyInv
<1>2. HandleInv /\ [Next]_vars => HandleInv'
  BY HandleStep
<1>3. HandleInv => GrantedHasOneHandle
  <2> SUFFICES ASSUME HandleInv, Settled, NEW t \in granted
               PROVE  Cardinality(Holders(t)) = 1
    BY DEF GrantedHasOneHandle
  <2>1. Covered(t)
    BY DEF HandleInv, KnownInv, Settled, BaseInv, TypeOK
  <2>2. PICK i : i \in Holders(t)
    BY <2>1 DEF Covered, Settled
  <2>3. \A j \in Holders(t) : j = i
    BY <2>2, HoldersFacts DEF HandleInv, BaseInv, TableInv
  <2>4. Holders(t) = {i}
    BY <2>2, <2>3
  <2> QED
    BY <2>4, FS_Singleton
<1> QED
  BY <1>1, <1>2, <1>3, PTL DEF Spec

-----------------------------------------------------------------------------
(* The memory of filters and user data. *)

\* Nothing goes wrong: answers come in time and grant what was asked.
Orderly == Wildcards = {} /\ Mishaps = {}

\* What a call allocated belongs to the handle in a slot, or to the node of an unsubscription.
Owned(c) == (\E i \in Slots : Held(i) = c) \/ (\E x \in Waiting : x.id = c /\ x.type = "UNSUBSCRIBE")

MemInv ==
    /\ ~misused
    /\ \A c \in Calls : c \in heap <=> Owned(c)
    /\ \A x \in Waiting : x.type = "SUBSCRIBE" => \E i \in Slots : Held(i) = x.id

OwnerInv == BaseInv /\ AcceptedIsAnswered /\ OrderInv /\ AllGranted /\ MemInv

\* While memory is owned nothing dangles.
LEMMA NothingDangles ==
  ASSUME BaseInv, MemInv
  PROVE  /\ Dangling = {}
         /\ \A n : Waits(n) => n \in heap
         /\ \A t : ~SearchMisuses(t)
         /\ Waiting \subseteq Nodes
<1>1. Waiting \subseteq Nodes
  BY DEF BaseInv, TypeOK, ListInv
<1>2. ASSUME NEW i \in Slots, Held(i) # 0 PROVE Held(i) \in heap
  <2>1. Held(i) \in 0..MaxCalls
    BY DEF BaseInv, TypeOK, Held
  <2>2. Held(i) \in Calls
    BY <1>2, <2>1, SubscribeAssumption DEF Calls, SubscribeAssumption
  <2> QED
    BY <2>2 DEF MemInv, Owned
<1>3. Dangling = {}
  BY <1>2 DEF Dangling, Held
<1>4. ASSUME NEW x \in Waiting PROVE x.id \in heap
  <2>1. x.id \in Calls /\ x.type \in {"SUBSCRIBE", "UNSUBSCRIBE"}
    BY <1>1 DEF Nodes
  <2> QED
    BY <2>1 DEF MemInv, Owned
<1> QED
  BY <1>1, <1>3, <1>4, WaitsIsWaiting DEF SearchMisuses

\* The node that waits for an answer is of the kind the answer says, and no handle is an unsubscription's.
LEMMA NodeOfAnswer ==
  ASSUME OwnerInv, answers # <<>>, NEW x \in Waiting, x.id = Head(answers).id
  PROVE  x.type = IF Head(answers).type = "SUBACK" THEN "SUBSCRIBE" ELSE "UNSUBSCRIBE"
<1> DEFINE h == Head(answers)
<1>1. h \in Answers /\ h \in Elements(answers)
  BY AnswerFacts DEF OwnerInv, BaseInv
<1>2. x \in accepted /\ x \in Nodes
  BY DEF OwnerInv, BaseInv, ListInv, TypeOK
<1> HIDE DEF h
<1>3. x.id # 0 /\ x.id = h.id
  BY <1>2, SubscribeAssumption DEF Nodes, Calls, SubscribeAssumption, h
<1>4. \/ h.type = "SUBACK" /\ [id |-> h.id, type |-> "SUBSCRIBE"] \in accepted
      \/ h.type = "UNSUBACK" /\ [id |-> h.id, type |-> "UNSUBSCRIBE"] \in accepted
  BY <1>1, <1>3 DEF OwnerInv, BaseInv, AnswerInv
<1>5. \A r, q \in accepted : r.id = q.id => r = q
  BY DEF OwnerInv, BaseInv, AcceptedInv
<1> QED
  BY <1>2, <1>3, <1>4, <1>5 DEF h

LEMMA HeldIsNotUnsubscribed ==
  ASSUME OwnerInv, NEW i \in Slots, NEW x \in Waiting, x.type = "UNSUBSCRIBE"
  PROVE  Held(i) # x.id
<1>1. x \in accepted /\ x \in Nodes
  BY DEF OwnerInv, BaseInv, ListInv, TypeOK
<1>2. x = [id |-> x.id, type |-> "UNSUBSCRIBE"] /\ x.id # 0
  BY <1>1, SubscribeAssumption DEF Nodes, Calls, SubscribeAssumption
<1> QED
  BY <1>1, <1>2 DEF OwnerInv, OrderInv

\* A new request: the handles for its filter go, and no request waits for one of them.
LEMMA MemCall ==
  ASSUME OwnerInv, NEW t \in Topics, NEW type \in {"SUBSCRIBE", "UNSUBSCRIBE"},
         MayCall(t), Request(Len(filter) + 1, type), Orderly,
         ~misused',
         heap' = (heap \ {Held(i) : i \in Holders(t)}) \cup {Len(filter) + 1},
         \A i \in Slots : \/ i \in Holders(t) /\ sub_handles'[i].call \in {0, Len(filter) + 1}
                          \/ i \notin Holders(t) /\ Held(i) # 0 /\ sub_handles'[i].call = Held(i)
                          \/ i \notin Holders(t) /\ Held(i) = 0 /\ sub_handles'[i].call \in {0, Len(filter) + 1},
         (\E i \in Slots : sub_handles'[i].call = Len(filter) + 1) <=> type = "SUBSCRIBE"
  PROVE  MemInv'
<1> DEFINE n == Len(filter) + 1
           y == [id |-> n, type |-> type]
<1>1. /\ TypeOK /\ BaseInv /\ MemInv /\ list_sub_wait_ack \in Seq(Nodes) /\ Waiting \subseteq Nodes
      /\ Len(filter) \in Nat /\ n \in Calls /\ Waiting \subseteq accepted
  BY CallFacts, IdsAreOld, NothingDangles DEF OwnerInv, BaseInv, TypeOK, ListInv
<1>2. y \in Nodes /\ list_sub_wait_ack' = Append(list_sub_wait_ack, y) /\ y.id = n /\ y.type = type
  BY <1>1 DEF Nodes, Request
<1> HIDE DEF y
<1>3. Waiting' = Waiting \cup {y}
  BY <1>1, <1>2, ElementsOfAppend DEF Waiting, Elements
<1>4. ASSUME NEW x \in Waiting PROVE x.id \in Calls /\ x.id # n /\ filter[x.id] # t
  <2>1. x \in Nodes /\ x \in accepted /\ x.id <= Len(filter)
    BY <1>1 DEF BaseInv, AcceptedInv
  <2>2. x.id \in Calls /\ x.id \in DOMAIN filter /\ x.id # n
    BY <1>1, <2>1 DEF Nodes, Calls, TypeOK
  <2>3. Waits(x.id)
    BY WaitsIsWaiting
  <2> QED
    BY <2>2, <2>3 DEF MayCall, Orderly
<1>5. \A i \in Slots : /\ i \in Holders(t) <=> Held(i) # 0 /\ filter[Held(i)] = t
                       /\ Held(i) # n
                       /\ Held(i) \in 0..MaxCalls
  BY <1>1, HoldersFacts, IdsAreOld DEF TypeOK, Held
<1>6. ASSUME NEW c \in Calls
      PROVE  c \in heap' <=> Owned(c)'
  <2>1. c \in heap <=> Owned(c)
    BY <1>1 DEF MemInv
  <2>2. Owned(c)' <=> (\E i \in Slots : sub_handles'[i].call = c) \/ (\E x \in Waiting' : x.id = c /\ x.type = "UNSUBSCRIBE")
    BY DEF Owned, Held
  <2>3. CASE c = n
    BY <1>1, <1>2, <1>3, <2>2, <2>3
  <2>4. CASE c # n
    <3>1. c # 0
      BY SubscribeAssumption DEF Calls, SubscribeAssumption
    <3>2. (\E i \in Slots : sub_handles'[i].call = c) <=> \E i \in Slots : i \notin Holders(t) /\ Held(i) = c
      BY <2>4, <3>1
    <3>3. (\E x \in Waiting' : x.id = c /\ x.type = "UNSUBSCRIBE") <=> \E x \in Waiting : x.id = c /\ x.type = "UNSUBSCRIBE"
      BY <1>2, <1>3, <2>4
    <3>4. \A i, j \in Slots : Held(i) = c /\ Held(j) = c => i = j
      BY <1>1, <3>1 DEF BaseInv, TableInv
    <3>5. \A i \in Slots : \A x \in Waiting : x.id = c /\ x.type = "UNSUBSCRIBE" => Held(i) # c
      BY HeldIsNotUnsubscribed
    <3>6. c \in heap' <=> c \in heap /\ ~(\E i \in Holders(t) : Held(i) = c)
      BY <2>4
    <3>7. Holders(t) \subseteq Slots
      BY HoldersFacts
    <3> QED
      BY <2>1, <2>2, <3>2, <3>3, <3>4, <3>5, <3>6, <3>7 DEF Owned
  <2> QED
    BY <2>3, <2>4
<1>7. ASSUME NEW x \in Waiting', x.type = "SUBSCRIBE"
      PROVE  \E i \in Slots : sub_handles'[i].call = x.id
  <2>1. CASE x = y
    BY <1>2, <1>7, <2>1
  <2>2. CASE x \in Waiting
    <3>1. PICK i \in Slots : Held(i) = x.id
      BY <1>1, <1>7, <2>2 DEF MemInv
    <3>2. x.id # 0 /\ filter[x.id] # t
      BY <1>4, <2>2, SubscribeAssumption DEF Calls, SubscribeAssumption
    <3> QED
      BY <1>5, <3>1, <3>2
  <2> QED
    BY <1>3, <2>1, <2>2
<1> QED
  BY <1>6, <1>7 DEF MemInv, Held

\* A step that keeps the handles, and of the nodes all or all but one.
LEMMA MemKept ==
  ASSUME OwnerInv, NEW S,
         \A i \in Slots : sub_handles'[i].call = Held(i),
         Waiting' = {x \in Waiting : x.id \notin S},
         \A x \in Waiting : x.id \in S /\ x.type = "UNSUBSCRIBE" => x.id \notin heap',
         \A c \in Calls : c \in heap' <=> c \in heap /\ ~(\E x \in Waiting : x.id = c /\ c \in S /\ x.type = "UNSUBSCRIBE"),
         ~misused'
  PROVE  MemInv'
<1>1. MemInv /\ Waiting \subseteq Nodes
  BY NothingDangles DEF OwnerInv
<1>2. ASSUME NEW c \in Calls
      PROVE  c \in heap' <=> Owned(c)'
  <2>1. c \in heap <=> Owned(c)
    BY <1>1 DEF MemInv
  <2>2. Owned(c)' <=> (\E i \in Slots : sub_handles'[i].call = c) \/ (\E x \in Waiting' : x.id = c /\ x.type = "UNSUBSCRIBE")
    BY DEF Owned, Held
  <2>3. (\E i \in Slots : sub_handles'[i].call = c) <=> \E i \in Slots : Held(i) = c
    OBVIOUS
  <2>4. \A i \in Slots : \A x \in Waiting : x.id = c /\ x.type = "UNSUBSCRIBE" => Held(i) # c
    BY HeldIsNotUnsubscribed
  <2> QED
    BY <2>1, <2>2, <2>3, <2>4 DEF Owned
<1>3. \A x \in Waiting' : x.type = "SUBSCRIBE" => \E i \in Slots : sub_handles'[i].call = x.id
  BY <1>1 DEF MemInv
<1> QED
  BY <1>2, <1>3 DEF MemInv, Held

LEMMA MemStep ==
  ASSUME OwnerInv, Next, Orderly
  PROVE  MemInv'
<1> DEFINE n == Len(filter) + 1
<1>1. /\ TypeOK /\ BaseInv /\ MemInv /\ sub_handles \in Handles /\ Len(filter) \in Nat
      /\ Identified(list_sub_wait_ack)
  BY IdsAreOld DEF OwnerInv, BaseInv, TypeOK, Handles, ListInv
<1>2. /\ Dangling = {}
      /\ \A c : Waits(c) => c \in heap
      /\ \A t : ~SearchMisuses(t)
      /\ Waiting \subseteq Nodes
  BY <1>1, NothingDangles
<1>3. \A i \in Slots : Held(i) # n
  BY <1>1, IdsAreOld
<1>4. ASSUME NEW t \in Topics, Subscribe(t)
      PROVE  MemInv'
  <2> DEFINE l == Least(SlotFor(t))
  <2>1. /\ MayCall(t) /\ SlotFor(t) # {} /\ AddHandle(l, n) /\ Request(n, "SUBSCRIBE")
        /\ misused' = SearchMisuses(t)
    BY <1>4 DEF Subscribe
  <2>2. l \in SlotFor(t) /\ l \in Slots /\ n \in Calls
    BY <1>1, <2>1, CallFacts, HoldersFacts
  <2>3. \A j \in Slots : sub_handles'[j] = IF j = l THEN [call |-> n, status |-> FALSE] ELSE sub_handles[j]
    BY <1>1, <2>1, <2>2, AddFacts
  <2>4. heap' = (heap \ CallsIn({l})) \cup {n}
    BY <2>1 DEF AddHandle
  <2> HIDE DEF l
  <2>5. \A i \in Slots : sub_handles'[i].call = IF i = l THEN n ELSE Held(i)
    BY <2>3 DEF Held
  <2>6. /\ l \in Holders(t) \/ Held(l) = 0
        /\ \A i \in Slots : i \in Holders(t) => i = l
        /\ \A i \in Slots : i \in Holders(t) => Held(i) # 0
        /\ Holders(t) \subseteq Slots
    <3>1. \A i, j \in Holders(t) : i = j
      BY <1>1, HoldersFacts DEF BaseInv, TableInv
    <3>2. l \in Holders(t) \/ (Holders(t) = {} /\ Held(l) = 0)
      BY <2>2, HoldersFacts DEF SlotFor
    <3> QED
      BY <3>1, <3>2, HoldersFacts
  <2>7. heap' = (heap \ {Held(i) : i \in Holders(t)}) \cup {n}
    <3>1. 0 \notin heap
      BY <1>1, SubscribeAssumption DEF TypeOK, Calls, SubscribeAssumption
    <3>2. CallsIn({l}) = {Held(l)} \ {0}
      BY DEF CallsIn, Held
    <3>3. CASE l \in Holders(t)
      <4>1. Holders(t) = {l}
        BY <2>6, <3>3
      <4> QED
        BY <2>4, <3>1, <3>2, <4>1
    <3>4. CASE l \notin Holders(t)
      <4>1. Holders(t) = {} /\ CallsIn({l}) = {}
        BY <2>6, <3>2, <3>4
      <4> QED
        BY <2>4, <4>1
    <3> QED
      BY <3>3, <3>4
  <2>8. \A i \in Slots : \/ i \in Holders(t) /\ sub_handles'[i].call \in {0, n}
                         \/ i \notin Holders(t) /\ Held(i) # 0 /\ sub_handles'[i].call = Held(i)
                         \/ i \notin Holders(t) /\ Held(i) = 0 /\ sub_handles'[i].call \in {0, n}
    BY <2>5, <2>6
  <2>9. ~misused'
    BY <1>2, <2>1
  <2> QED
    BY <2>1, <2>2, <2>5, <2>7, <2>8, <2>9, MemCall
<1>5. ASSUME NEW t \in Topics, Unsubscribe(t)
      PROVE  MemInv'
  <2>1. /\ MayCall(t) /\ ClearHandles(Holders(t)) /\ Request(n, "UNSUBSCRIBE")
        /\ heap' = (heap \ CallsIn(Holders(t))) \cup {n}
        /\ misused' = (Dangling # {})
    BY <1>5 DEF Unsubscribe, Removed, Orderly, RequestFails
  <2>2. \A i \in Slots : sub_handles'[i].call = IF i \in Holders(t) THEN 0 ELSE Held(i)
    BY <1>1, <2>1, ClearFacts
  <2>3. \A i \in Slots : i \in Holders(t) => Held(i) # 0
    BY HoldersFacts
  <2>4. heap' = (heap \ {Held(i) : i \in Holders(t)}) \cup {n}
    <3>1. CallsIn(Holders(t)) = {Held(i) : i \in Holders(t)} \ {0} /\ 0 \notin heap
      BY <1>1, SubscribeAssumption DEF CallsIn, Held, TypeOK, Calls, SubscribeAssumption
    <3> QED
      BY <2>1, <3>1
  <2>5. \A i \in Slots : \/ i \in Holders(t) /\ sub_handles'[i].call \in {0, n}
                         \/ i \notin Holders(t) /\ Held(i) # 0 /\ sub_handles'[i].call = Held(i)
                         \/ i \notin Holders(t) /\ Held(i) = 0 /\ sub_handles'[i].call \in {0, n}
    BY <2>2
  <2>6. ~(\E i \in Slots : sub_handles'[i].call = n)
    BY <1>1, <1>3, <2>2
  <2>7. ~misused'
    BY <1>2, <2>1
  <2> QED
    BY <2>1, <2>4, <2>5, <2>6, <2>7, MemCall
<1>6. CASE Destroy
  <2>1. /\ ClearHandles(Slots) /\ list_sub_wait_ack' = <<>>
        /\ heap' = heap \ (CallsIn(Slots) \cup WaitListOwns) /\ misused' = (Dangling # {})
    BY <1>6 DEF Destroy
  <2>2. \A i \in Slots : sub_handles'[i].call = 0
    BY <1>1, <2>1, ClearFacts
  <2>3. Waiting' = {}
    BY <2>1 DEF Waiting, Elements
  <2>4. ASSUME NEW c \in Calls PROVE c \notin heap'
    <3>1. c \in heap => Owned(c)
      BY <1>1 DEF MemInv
    <3>2. (\E i \in Slots : Held(i) = c) => c \in CallsIn(Slots)
      BY SubscribeAssumption DEF Held, CallsIn, Calls, SubscribeAssumption
    <3>3. ASSUME NEW x \in Waiting, x.id = c, x.type = "UNSUBSCRIBE" PROVE c \in WaitListOwns
      <4>1. x = [id |-> c, type |-> "UNSUBSCRIBE"]
        BY <1>2, <3>3 DEF Nodes
      <4> QED
        BY <4>1 DEF WaitListOwns, Waiting, Elements
    <3> QED
      BY <2>1, <3>1, <3>2, <3>3 DEF Owned
  <2>5. \A c \in Calls : c # 0
    BY SubscribeAssumption DEF Calls, SubscribeAssumption
  <2> QED
    BY <1>2, <2>1, <2>2, <2>3, <2>4, <2>5 DEF MemInv, Owned, Held
<1>7. CASE SubackGranted \/ Unsuback
  <2> DEFINE c == Head(answers).id
  <2>1. /\ answers # <<>> /\ list_sub_wait_ack' = Popped(c)
        /\ SubackGranted => Head(answers).type = "SUBACK" /\ heap' = heap
        /\ Unsuback => Head(answers).type = "UNSUBACK" /\ heap' = heap \ UnsubackReleases(c)
    BY <1>7 DEF SubackGranted, Unsuback, Reads
  <2>2. Waiting' = {x \in Waiting : x.id \notin {c}}
    BY <1>1, <2>1, PoppedFacts DEF Waiting, Elements
  <2>3. \A i \in Slots : sub_handles'[i].call = Held(i)
    BY <1>1, <1>7, StatusFacts DEF SubackGranted, Unsuback, Held
  <2>4. ~misused'
    BY <1>1, <1>2, <1>7 DEF SubackGranted, Unsuback, MemInv
  <2>5. \A x \in Waiting : x.id = c => x.type = IF Head(answers).type = "SUBACK" THEN "SUBSCRIBE" ELSE "UNSUBSCRIBE"
    BY <2>1, NodeOfAnswer
  <2> HIDE DEF c
  <2>6. Waits(c) <=> \E x \in Waiting : x.id = c
    BY WaitsIsWaiting
  <2>7. CASE SubackGranted
    <3>1. \A x \in Waiting : x.id = c => x.type = "SUBSCRIBE"
      BY <2>1, <2>5, <2>7
    <3> DEFINE S == {c}
    <3>2. /\ Waiting' = {x \in Waiting : x.id \notin S}
          /\ \A x \in Waiting : x.id \in S /\ x.type = "UNSUBSCRIBE" => x.id \notin heap'
          /\ \A d \in Calls : d \in heap' <=> d \in heap /\ ~(\E x \in Waiting : x.id = d /\ d \in S /\ x.type = "UNSUBSCRIBE")
      BY <2>1, <2>2, <2>7, <3>1
    <3> HIDE DEF S
    <3> QED
      BY <2>3, <2>4, <3>2, MemKept
  <2>8. CASE Unsuback
    <3>1. \A x \in Waiting : x.id = c => x.type = "UNSUBSCRIBE"
      BY <2>1, <2>5, <2>8
    <3>2. heap' = IF \E x \in Waiting : x.id = c THEN heap \ {c} ELSE heap
      BY <2>1, <2>6, <2>8 DEF UnsubackReleases
    <3> DEFINE S == {c}
    <3>3. /\ Waiting' = {x \in Waiting : x.id \notin S}
          /\ \A x \in Waiting : x.id \in S /\ x.type = "UNSUBSCRIBE" => x.id \notin heap'
          /\ \A d \in Calls : d \in heap' <=> d \in heap /\ ~(\E x \in Waiting : x.id = d /\ d \in S /\ x.type = "UNSUBSCRIBE")
      BY <2>2, <3>1, <3>2
    <3> HIDE DEF S
    <3> QED
      BY <2>3, <2>4, <3>3, MemKept
  <2> QED
    BY <1>7, <2>7, <2>8
<1>8. ASSUME UNCHANGED <<tableVars, heap>>, ~misused'
      PROVE  MemInv'
  BY <1>1, <1>8 DEF tableVars, MemInv, Owned, Held, Waiting, Elements
<1>9. CASE SubackUnknown \/ HandleDisconnect \/ HandleReconnect \/ Environment
  <2>1. UNCHANGED <<tableVars, heap>>
    BY <1>9 DEF SubackUnknown, HandleDisconnect, HandleReconnect, Environment, BrokerGrants, BrokerRefuses, LinkFails
  <2>2. misused' = misused \/ misused' = (Dangling # {})
    BY <1>9 DEF SubackUnknown, HandleDisconnect, HandleReconnect, Environment, BrokerGrants, BrokerRefuses, LinkFails
  <2>3. ~misused'
    BY <1>1, <1>2, <2>2 DEF MemInv
  <2> QED
    BY <1>8, <2>1, <2>3
<1>10. ~SubackRefused
  <2> SUFFICES ASSUME SubackRefused PROVE FALSE
    OBVIOUS
  <2>1. answers \in Seq(Answers) /\ answers # <<>> /\ ~Head(answers).ok
    BY <1>1 DEF SubackRefused, GrantedQos, Reads, TypeOK
  <2>2. Head(answers) = answers[1] /\ 1 \in DOMAIN answers
    BY <2>1, ElementsOfTail
  <2> QED
    BY <2>1, <2>2 DEF OwnerInv, AllGranted, Orderly
<1>11. ~CheckSubTimeout /\ \A u : ~SubscribeFails(u) /\ ~SubscribeNoRoom(u)
  BY DEF SubscribeFails, SubscribeNoRoom, RequestFails, CheckSubTimeout, Orderly
<1> QED
  BY <1>4, <1>5, <1>6, <1>7, <1>9, <1>10, <1>11 DEF Next, Application, Yield

\* While every request is answered in time and granted, what is allocated is what a handle or a node
\* points to: nothing dangles, nothing is read after its release, nothing is lost.
THEOREM OwnedMemory ==
  ASSUME Orderly
  PROVE  Spec => []MemoryIsOwned
<1>1. Init => OwnerInv
  <2> SUFFICES ASSUME Init PROVE OwnerInv
    OBVIOUS
  <2>1. BaseInv /\ AcceptedIsAnswered /\ OrderInv
    BY InitReady DEF ReadyInv
  <2>2. AllGranted
    BY DEF Init, AllGranted
  <2>3. Waiting = {} /\ \A i \in Slots : Held(i) = 0
    BY DEF Init, Waiting, Elements, Held
  <2>4. MemInv
    BY <2>3, SubscribeAssumption DEF Init, MemInv, Owned, Calls, SubscribeAssumption
  <2> QED
    BY <2>1, <2>2, <2>4 DEF OwnerInv
<1>2. OwnerInv /\ [Next]_vars => OwnerInv'
  <2> SUFFICES ASSUME OwnerInv, [Next]_vars PROVE OwnerInv'
    OBVIOUS
  <2>1. CASE Next
    BY <2>1, BaseStep, OrderStep, AllGrantedStep, MemStep DEF OwnerInv, BaseInv
  <2>2. CASE UNCHANGED vars
    <3>1. BaseInv' /\ AcceptedIsAnswered'
      BY BaseStep DEF OwnerInv
    <3> USE <2>2 DEF vars, tableVars, linkVars, brokerVars, callVars
    <3>2. OrderInv'
      BY DEF OwnerInv, OrderInv, EmptyInv, Ordered, Held
    <3>3. AllGranted'
      BY DEF OwnerInv, AllGranted
    <3>4. MemInv'
      BY DEF OwnerInv, MemInv, Owned, Held, Waiting, Elements
    <3> QED
      BY <3>1, <3>2, <3>3, <3>4 DEF OwnerInv
  <2> QED
    BY <2>1, <2>2
<1>3. OwnerInv => MemoryIsOwned
  <2> SUFFICES ASSUME OwnerInv PROVE MemoryIsOwned
    OBVIOUS
  <2>1. BaseInv /\ MemInv /\ TypeOK
    BY DEF OwnerInv, BaseInv
  <2>2. HandlesValid /\ ReleasedIsNotUsed
    BY <2>1, NothingDangles DEF HandlesValid, ReleasedIsNotUsed, MemInv
  <2>3. ASSUME NEW c \in heap PROVE c \in CallsIn(Slots) \cup {m \in Calls : Waits(m)}
    <3>1. c \in Calls /\ c # 0
      BY <2>1, SubscribeAssumption DEF TypeOK, Calls, SubscribeAssumption
    <3>2. Owned(c)
      BY <2>1, <3>1 DEF MemInv
    <3>3. CASE \E i \in Slots : Held(i) = c
      BY <3>1, <3>3 DEF CallsIn, Held
    <3>4. CASE \E x \in Waiting : x.id = c
      BY <3>1, <3>4, WaitsIsWaiting
    <3> QED
      BY <3>2, <3>3, <3>4 DEF Owned
  <2>4. NothingLeaks
    BY <2>3 DEF NothingLeaks
  <2> QED
    BY <2>1, <2>2, <2>4 DEF MemoryIsOwned
<1> QED
  BY <1>1, <1>2, <1>3, PTL DEF Spec
=============================================================================
