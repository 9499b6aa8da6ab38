-------------------------- MODULE DataTemplate_proofs --------------------------
(***************************************************************************)
(* What holds of DataTemplate for any number of messages, values set and   *)
(* links that break.                                                       *)
(***************************************************************************)
EXTENDS DataTemplate, SequenceFacts, TLAPS

AllTexts == Texts \cup Values \cup {<<0>>}
Setting  == [value : AllTexts, need_report : BOOLEAN]

\* What a message may carry: texts for some of the names.
Some(names) == UNION {[S -> AllTexts] : S \in SUBSET names}

ForProperty == [method : {"control", "get_status_reply", "report_reply"}, params : Some(Keys)]
ForAction   == [method : {"action"}, id : {action_id, <<"light">>, <<"other">>}, params : Some(Inputs)]
FromDevice  == [method : {"get_status", "clear_control", "report"}, params : Some(Keys)]

\* Every variable has its type; the reports carry values the cloud can keep.
TypeInv ==
    /\ property \in [Keys -> Setting]
    /\ input \in [Inputs -> Setting]
    /\ to_device \in Seq(ForProperty \cup ForAction)
    /\ to_cloud \in Seq(FromDevice)
    /\ reported \in [Keys -> AllTexts]
    /\ control \in Some(Keys)
    /\ pc \in {"yield", "report"}
    /\ link \in {"up", "broken", "down"}

-------------------------------------------------------------------------------
(* What a sequence of messages tells, its last report first. *)

With(q, k) == {i \in DOMAIN q : k \in Tells(q[i])}

ToldBy(q, r, k) ==
    IF With(q, k) = {} THEN r ELSE q[CHOOSE i \in With(q, k) : \A j \in With(q, k) : j <= i].params[k]

\* The last message that tells k decides.
LEMMA LastDecides ==
  ASSUME NEW S, NEW q \in Seq(S), NEW r, NEW k, NEW i \in With(q, k),
         \A j \in With(q, k) : j <= i
  PROVE  ToldBy(q, r, k) = q[i].params[k]
<1> DEFINE W == With(q, k)
           c == CHOOSE n \in W : \A j \in W : j <= n
<1>1. W \subseteq Nat
  BY LenProperties DEF With
<1>2. c \in W /\ \A j \in W : j <= c
  <2>1. \E n \in W : \A j \in W : j <= n
    OBVIOUS
  <2> HIDE DEF W
  <2> QED
    BY <2>1
<1>3. c = i
  BY <1>1, <1>2
<1>4. ToldBy(q, r, k) = q[c].params[k]
  BY DEF ToldBy
<1> QED
  BY <1>3, <1>4

\* There is such a message, unless none tells it.
LEMMA LastExists ==
  ASSUME NEW S, NEW q \in Seq(S), NEW k, With(q, k) # {}
  PROVE  \E i \in With(q, k) : \A j \in With(q, k) : j <= i
<1>1. Len(q) \in Nat /\ DOMAIN q = 1..Len(q)
  BY LenProperties
<1>2. With(q, k) \in SUBSET (0..Len(q))
  BY <1>1 DEF With
<1> QED
  BY <1>1, <1>2, GreatestElement

\* Two sequences tell the same when the messages that tell k correspond, in order.
LEMMA SameTold ==
  ASSUME NEW S, NEW q \in Seq(S), NEW p \in Seq(S), NEW r, NEW k, NEW d \in Int,
         \A i \in With(q, k) : i + d \in With(p, k) /\ p[i + d] = q[i],
         \A i \in With(p, k) : i - d \in With(q, k)
  PROVE  ToldBy(q, r, k) = ToldBy(p, r, k)
<1>1. With(q, k) \subseteq Nat /\ With(p, k) \subseteq Nat
  BY LenProperties DEF With
<1>2. CASE With(q, k) = {}
  <2>1. With(p, k) = {}
    BY <1>2
  <2> QED
    BY <1>2, <2>1 DEF ToldBy
<1>3. CASE With(q, k) # {}
  <2>1. PICK i \in With(q, k) : \A j \in With(q, k) : j <= i
    BY <1>3, LastExists
  <2>2. i + d \in With(p, k) /\ p[i + d] = q[i]
    BY <2>1
  <2>3. ASSUME NEW j \in With(p, k)
        PROVE  j <= i + d
    <3>1. j - d <= i
      BY <2>1
    <3> QED
      BY <1>1, <3>1
  <2>4. ToldBy(q, r, k) = q[i].params[k]
    BY <2>1, LastDecides
  <2>5. ToldBy(p, r, k) = p[i + d].params[k]
    BY <2>2, <2>3, LastDecides
  <2> QED
    BY <2>2, <2>4, <2>5
<1> QED
  BY <1>2, <1>3

\* A report that is sent tells its values.
LEMMA TellingAppended ==
  ASSUME NEW S, NEW q \in Seq(S), NEW m \in S, NEW r, NEW k \in Tells(m)
  PROVE  ToldBy(Append(q, m), r, k) = m.params[k]
<1> DEFINE p == Append(q, m)
<1>1. p \in Seq(S) /\ Len(p) = Len(q) + 1 /\ Len(q) \in Nat /\ p[Len(q) + 1] = m
  BY AppendProperties, LenProperties
<1>2. DOMAIN p = 1..Len(p)
  BY <1>1, LenProperties
<1> HIDE DEF p
<1>3. Len(p) \in With(p, k) /\ \A j \in With(p, k) : j <= Len(p)
  BY <1>1, <1>2 DEF With
<1>4. ToldBy(p, r, k) = p[Len(p)].params[k]
  BY <1>1, <1>3, LastDecides
<1>5. p[Len(p)] = m
  BY <1>1
<1> QED
  BY <1>4, <1>5 DEF p

\* Any other message changes nothing of what is told.
LEMMA OtherAppended ==
  ASSUME NEW S, NEW q \in Seq(S), NEW m \in S, NEW r, NEW k, k \notin Tells(m)
  PROVE  ToldBy(Append(q, m), r, k) = ToldBy(q, r, k)
<1> DEFINE p == Append(q, m)
<1>1. /\ p \in Seq(S) /\ Len(p) = Len(q) + 1 /\ Len(q) \in Nat /\ p[Len(q) + 1] = m
      /\ \A i \in 1..Len(q) : p[i] = q[i]
  BY AppendProperties, LenProperties
<1>2. DOMAIN p = 1..Len(p) /\ DOMAIN q = 1..Len(q)
  BY <1>1, LenProperties
<1> HIDE DEF p
<1>3. \A i \in With(q, k) : i + 0 \in With(p, k) /\ p[i + 0] = q[i]
  BY <1>1, <1>2 DEF With
<1>4. \A i \in With(p, k) : i - 0 \in With(q, k)
  <2>1. SUFFICES ASSUME NEW i \in With(p, k)
                 PROVE  i - 0 \in With(q, k)
    OBVIOUS
  <2>2. i \in 1..Len(p) /\ k \in Tells(p[i])
    BY <1>2 DEF With
  <2>3. i # Len(q) + 1
    BY <1>1, <2>2
  <2>4. i \in 1..Len(q)
    BY <1>1, <2>2, <2>3
  <2> QED
    BY <1>1, <1>2, <2>2, <2>4 DEF With
<1>5. ToldBy(q, r, k) = ToldBy(p, r, k)
  BY <1>1, <1>3, <1>4, SameTold
<1> QED
  BY <1>5 DEF p

\* The first message is read: what it told, the cloud keeps.
LEMMA FirstRead ==
  ASSUME NEW S, NEW q \in Seq(S), q # <<>>, NEW r, NEW k
  PROVE  ToldBy(Tail(q), IF k \in Tells(Head(q)) THEN Head(q).params[k] ELSE r, k)
           = ToldBy(q, r, k)
<1> DEFINE p == Tail(q)
           s == IF k \in Tells(Head(q)) THEN Head(q).params[k] ELSE r
<1>1. /\ p \in Seq(S) /\ Len(p) = Len(q) - 1 /\ Len(q) \in Nat \ {0} /\ Head(q) = q[1]
      /\ \A i \in 1..Len(p) : p[i] = q[i + 1]
  BY HeadTailProperties, EmptySeq, LenProperties
<1>2. DOMAIN p = 1..Len(p) /\ DOMAIN q = 1..Len(q)
  BY <1>1, LenProperties
<1> HIDE DEF p
<1>3. CASE With(p, k) = {}
  <2>1. ToldBy(p, s, k) = s
    BY <1>3 DEF ToldBy
  <2>2. \A i \in With(q, k) : i = 1
    <3>1. SUFFICES ASSUME NEW i \in With(q, k), i # 1
                   PROVE  FALSE
      OBVIOUS
    <3>2. i - 1 \in 1..Len(p) /\ p[i - 1] = q[i]
      BY <1>1, <1>2, <3>1 DEF With
    <3>3. i - 1 \in With(p, k)
      BY <1>2, <3>1, <3>2 DEF With
    <3> QED
      BY <1>3, <3>3
  <2>3. CASE k \in Tells(Head(q))
    <3>1. 1 \in With(q, k)
      BY <1>1, <1>2, <2>3 DEF With
    <3>2. \A i \in With(q, k) : i <= 1
      BY <2>2
    <3>3. ToldBy(q, r, k) = q[1].params[k]
      BY <3>1, <3>2, LastDecides
    <3> QED
      BY <1>1, <2>1, <2>3, <3>3 DEF p
  <2>4. CASE k \notin Tells(Head(q))
    <3>1. With(q, k) = {}
      BY <1>1, <2>2, <2>4 DEF With
    <3>2. ToldBy(q, r, k) = r
      BY <3>1 DEF ToldBy
    <3> QED
      BY <2>1, <2>4, <3>2 DEF p
  <2> QED
    BY <2>3, <2>4
<1>4. CASE With(p, k) # {}
  <2>1. PICK i \in With(p, k) : \A j \in With(p, k) : j <= i
    BY <1>1, <1>4, LastExists
  <2>2. ToldBy(p, s, k) = p[i].params[k]
    BY <1>1, <2>1, LastDecides
  <2>3. i \in 1..Len(p) /\ p[i] = q[i + 1] /\ i + 1 \in With(q, k)
    BY <1>1, <1>2 DEF With
  <2>4. ASSUME NEW j \in With(q, k)
        PROVE  j <= i + 1
    <3>1. CASE j = 1
      BY <2>3, <3>1
    <3>2. CASE j # 1
      <4>1. j \in 1..Len(q) /\ j - 1 \in 1..Len(p) /\ p[j - 1] = q[(j - 1) + 1]
        BY <1>1, <1>2, <3>2 DEF With
      <4>2. j - 1 \in With(p, k)
        BY <1>2, <4>1 DEF With
      <4> QED
        BY <2>1, <2>3, <4>1, <4>2
    <3> QED
      BY <3>1, <3>2
  <2>5. ToldBy(q, r, k) = q[i + 1].params[k]
    BY <2>3, <2>4, LastDecides
  <2> QED
    BY <2>2, <2>3, <2>5 DEF p
<1> QED
  BY <1>3, <1>4

\* The link breaks behind message n: what the others do not tell is still told.
LEMMA CutShort ==
  ASSUME NEW S, NEW q \in Seq(S), NEW n \in 0..Len(q), NEW r, NEW k,
         \A j \in n + 1..Len(q) : k \notin Tells(q[j])
  PROVE  ToldBy(SubSeq(q, 1, n), r, k) = ToldBy(q, r, k)
<1> DEFINE p == SubSeq(q, 1, n)
<1>1. /\ p \in Seq(S) /\ Len(p) = n /\ Len(q) \in Nat
      /\ \A i \in 1..n : p[i] = q[i]
  BY SubSeqProperties, LenProperties
<1>2. DOMAIN p = 1..n /\ DOMAIN q = 1..Len(q)
  BY <1>1, LenProperties
<1> HIDE DEF p
<1>3. \A i \in With(p, k) : i + 0 \in With(q, k) /\ q[i + 0] = p[i]
  BY <1>1, <1>2 DEF With
<1>4. \A i \in With(q, k) : i - 0 \in With(p, k)
  <2>1. SUFFICES ASSUME NEW i \in With(q, k)
                 PROVE  i - 0 \in With(p, k)
    OBVIOUS
  <2>2. i \in 1..Len(q) /\ k \in Tells(q[i])
    BY <1>2 DEF With
  <2>3. i \in 1..n
    BY <2>2
  <2> QED
    BY <1>1, <1>2, <2>2, <2>3 DEF With
<1>5. ToldBy(p, r, k) = ToldBy(q, r, k)
  BY <1>1, <1>3, <1>4, SameTold
<1> QED
  BY <1>5 DEF p

-------------------------------------------------------------------------------
(* Types. *)

LEMMA TextTypes ==
  /\ AllTexts = {<<>>, <<0>>, <<1>>, <<2>>}
  /\ Texts \subseteq AllTexts /\ Values \subseteq AllTexts
  /\ Keys = {"power_switch", "name", "position"}
BY DEF AllTexts, Texts, Values, Keys, Types

\* The properties that a control or an action leaves are settings again.
LEMMA ParsedType ==
  ASSUME NEW N, NEW properties \in [N -> Setting], NEW M, NEW params \in Some(M), NEW types
  PROVE  Parsed(properties, types, params) \in [N -> Setting]
<1>1. \A k \in DOMAIN params : params[k] \in AllTexts
  BY DEF Some
<1> QED
  BY <1>1 DEF Parsed, Setting

LEMMA NoParamsType ==
  ASSUME NEW N
  PROVE  NoParams \in Some(N)
<1>1. NoParams \in [{} -> AllTexts]
  BY DEF NoParams
<1> QED
  BY <1>1 DEF Some

LEMMA SingletonType ==
  ASSUME NEW S, NEW x \in S
  PROVE  <<x>> \in Seq(S)
OBVIOUS

LEMMA ParamsType ==
  ASSUME NEW N, NEW n, NEW params \in Params(N, n)
  PROVE  params \in Some(N)
BY TextTypes DEF Params, Some

LEMMA TypeInit == Init => TypeInv
<1> SUFFICES ASSUME Init
             PROVE  TypeInv
  OBVIOUS
<1>1. property \in [Keys -> Setting] /\ input \in [Inputs -> Setting]
  BY TextTypes DEF Init, Setting
<1>2. to_cloud \in Seq(FromDevice) /\ to_device \in Seq(ForProperty \cup ForAction)
  <2>1. NoParams \in Some(Keys)
    BY NoParamsType
  <2>2. [method |-> "get_status", params |-> NoParams] \in FromDevice
    BY <2>1 DEF FromDevice
  <2> QED
    BY <2>2 DEF Init
<1>3. reported \in [Keys -> AllTexts] /\ control \in Some(Keys)
  BY NoParamsType, TextTypes DEF Init
<1> QED
  BY <1>1, <1>2, <1>3 DEF TypeInv, Init

\* What reaches the head of a queue is a message of its kind.
LEMMA HeadTypes ==
  ASSUME TypeInv
  PROVE  /\ to_device # <<>> => /\ Head(to_device) \in ForProperty \cup ForAction
                                /\ Tail(to_device) \in Seq(ForProperty \cup ForAction)
         /\ to_cloud # <<>> => /\ Head(to_cloud) \in FromDevice
                               /\ Tail(to_cloud) \in Seq(FromDevice)
BY HeadTailProperties DEF TypeInv

LEMMA PublishType ==
  ASSUME TypeInv, NEW m \in FromDevice, Publish(m)
  PROVE  to_cloud' \in Seq(FromDevice)
BY AppendProperties DEF TypeInv, Publish

\* Every step keeps the types.
LEMMA TypeStep == TypeInv /\ [Next]_vars => TypeInv'
<1> SUFFICES ASSUME TypeInv, [Next]_vars
             PROVE  TypeInv'
  OBVIOUS
<1>1. ASSUME NEW method \in {"control", "get_status_reply"}, Receives(method), Parse(Head(to_device).params)
      PROVE  /\ property' \in [Keys -> Setting]
             /\ to_device' \in Seq(ForProperty \cup ForAction)
  <2>1. Head(to_device) \in ForProperty /\ to_device' = Tail(to_device) /\ to_device # <<>>
    BY <1>1, HeadTypes DEF Receives, ForProperty, ForAction
  <2>2. Head(to_device).params \in Some(Keys)
    BY <2>1 DEF ForProperty
  <2>3. property' = Parsed(property, Types, Head(to_device).params)
    BY <1>1 DEF Parse
  <2> QED
    BY <2>1, <2>2, <2>3, ParsedType, HeadTypes DEF TypeInv
<1>2. CASE ReadControl
  BY <1>1, <1>2 DEF ReadControl, TypeInv, cloud
<1>3. CASE ReadStatus
  <2>1. Message("clear_control", NoParams) \in FromDevice
    BY NoParamsType DEF Message, FromDevice
  <2>2. to_cloud' \in Seq(FromDevice)
    BY <1>3, <2>1, PublishType DEF ReadStatus
  <2> QED
    BY <1>1, <1>3, <2>2 DEF ReadStatus, TypeInv, cloud
<1>4. CASE ReadAction
  <2> DEFINE m == Head(to_device)
  <2>1. m \in ForAction /\ to_device' = Tail(to_device) /\ to_device # <<>>
    BY <1>4, HeadTypes DEF ReadAction, Receives, ForProperty, ForAction
  <2>2. m.params \in Some(Inputs)
    BY <2>1 DEF ForAction
  <2>3. Reset(input) \in [Inputs -> Setting]
    BY DEF TypeInv, Reset, Setting
  <2>4. Parsed(Reset(input), [k \in Inputs |-> "int"], m.params) \in [Inputs -> Setting]
    BY <2>2, <2>3, ParsedType
  <2>5. input' \in [Inputs -> Setting]
    BY <1>4, <2>4 DEF ReadAction, TypeInv
  <2>6. to_device' \in Seq(ForProperty \cup ForAction)
    BY <2>1, HeadTypes
  <2> QED
    BY <1>4, <2>5, <2>6 DEF ReadAction, TypeInv, cloud
<1>5. CASE ReadIgnored
  BY <1>5, HeadTypes DEF ReadIgnored, Receives, TypeInv, device, cloud
<1>6. CASE ParseStops \/ GivesUp \/ UserSetStops
  BY <1>6 DEF ParseStops, GivesUp, UserSetStops, Stops, TypeInv, device, cloud
<1>7. CASE YieldReturns
  BY <1>7 DEF YieldReturns, TypeInv, device, cloud
<1>8. CASE NoticesLoss
  <2>1. <<>> \in Seq(ForProperty \cup ForAction)
    OBVIOUS
  <2> QED
    BY <1>8, <2>1 DEF NoticesLoss, TypeInv, device, cloud
<1>9. CASE Reconnected
  <2>1. <<>> \in Seq(ForProperty \cup ForAction)
    OBVIOUS
  <2>2. Message("get_status", NoParams) \in FromDevice
    BY NoParamsType DEF Message, FromDevice
  <2>3. to_cloud' \in Seq(FromDevice)
    BY <1>9, <2>2, AppendProperties DEF Reconnected, TypeInv
  <2> QED
    BY <1>9, <2>1, <2>3 DEF Reconnected, TypeInv, device, cloud
<1>10. ASSUME NEW k \in Keys, NEW v \in Values, UserSets(k, v)
       PROVE  TypeInv'
  <2>1. property' \in [Keys -> Setting]
    <3>1. property \in [Keys -> Setting] /\ v \in AllTexts
      BY TextTypes DEF TypeInv
    <3>2. CASE struct_value_set(k)
      <4>1. [property[k] EXCEPT !.need_report = TRUE] \in Setting
        BY <3>1 DEF Setting
      <4> QED
        BY <3>1, <3>2, <4>1 DEF struct_value_set
    <3>3. CASE value_set(k, v)
      <4>1. [value |-> v, need_report |-> TRUE] \in Setting
        BY <3>1 DEF Setting
      <4> QED
        BY <3>1, <3>3, <4>1 DEF value_set
    <3> QED
      BY <1>10, <3>2, <3>3 DEF UserSets
  <2> QED
    BY <1>10, <2>1 DEF UserSets, TypeInv, cloud
<1>11. CASE Report
  <2>1. property' \in [Keys -> Setting]
    BY <1>11 DEF Report, TypeInv, Setting
  <2> DEFINE m == Message("report", [k \in Pending(property) |-> property[k].value])
  <2>2. m \in FromDevice
    <3>1. Pending(property) \subseteq Keys
      BY DEF Pending, TypeInv
    <3>2. [k \in Pending(property) |-> property[k].value] \in [Pending(property) -> AllTexts]
      BY <3>1 DEF TypeInv, Setting
    <3>3. [k \in Pending(property) |-> property[k].value] \in Some(Keys)
      BY <3>1, <3>2 DEF Some
    <3> QED
      BY <3>3 DEF Message, FromDevice
  <2> HIDE DEF m
  <2>3. CASE Pending(property) = {}
    BY <1>11, <2>1, <2>3 DEF Report, TypeInv, cloud
  <2>4. CASE Pending(property) # {}
    <3>1. Publish(m)
      BY <1>11, <2>4 DEF Report, m
    <3>2. to_cloud' \in Seq(FromDevice)
      BY <2>2, <3>1, PublishType
    <3> QED
      BY <1>11, <2>1, <3>2 DEF Report, TypeInv, cloud
  <2> QED
    BY <2>3, <2>4
<1>12. ASSUME NEW params \in Params(Keys, MaxNames), CloudControls(params)
       PROVE  TypeInv'
  <2>1. params \in Some(Keys)
    BY <1>12, ParamsType
  <2>2. Message("control", params) \in ForProperty
    BY <2>1 DEF Message, ForProperty
  <2>3. to_device' \in Seq(ForProperty \cup ForAction)
    BY <1>12, <2>2, AppendProperties DEF CloudControls, TypeInv
  <2> QED
    BY <1>12, <2>1, <2>3 DEF CloudControls, TypeInv, device
<1>13. ASSUME NEW id \in {action_id, <<"light">>, <<"other">>}, NEW params \in Params(Inputs, 2),
              CloudAsks(id, params)
       PROVE  TypeInv'
  <2>1. params \in Some(Inputs)
    BY <1>13, ParamsType
  <2>3. [method |-> "action", id |-> id, params |-> params] \in ForAction
    BY <2>1 DEF ForAction
  <2>4. to_device' \in Seq(ForProperty \cup ForAction)
    BY <1>13, <2>3, AppendProperties DEF CloudAsks, TypeInv
  <2> QED
    BY <1>13, <2>4 DEF CloudAsks, TypeInv, device, cloud
<1>14. CASE CloudReads
  <2> DEFINE m == Head(to_cloud)
             answer == CASE m.method = "get_status" -> <<Message("get_status_reply", control)>>
                         [] m.method = "report" -> <<Message("report_reply", NoParams)>>
                         [] OTHER -> <<>>
  <2>1. m \in FromDevice /\ to_cloud' \in Seq(FromDevice)
    BY <1>14, HeadTypes DEF CloudReads
  <2>2. m.params \in Some(Keys)
    BY <2>1 DEF FromDevice
  <2>3. reported' \in [Keys -> AllTexts]
    <3>1. \A k \in DOMAIN m.params : m.params[k] \in AllTexts
      BY <2>2 DEF Some
    <3> QED
      BY <1>14, <3>1 DEF CloudReads, TypeInv
  <2>4. control' \in Some(Keys)
    BY <1>14, NoParamsType DEF CloudReads, TypeInv
  <2>5. answer \in Seq(ForProperty \cup ForAction)
    <3>1. Message("get_status_reply", control) \in ForProperty
      BY DEF Message, ForProperty, TypeInv
    <3>2. Message("report_reply", NoParams) \in ForProperty
      BY NoParamsType DEF Message, ForProperty
    <3>3. CASE m.method = "get_status"
      <4>1. answer = <<Message("get_status_reply", control)>>
        BY <3>3
      <4> HIDE DEF answer
      <4> QED
        BY <3>1, <4>1, SingletonType
    <3>4. CASE m.method = "report"
      <4>1. answer = <<Message("report_reply", NoParams)>>
        BY <3>4
      <4> HIDE DEF answer
      <4> QED
        BY <3>2, <4>1, SingletonType
    <3>5. CASE m.method = "clear_control"
      <4>1. answer = <<>>
        BY <3>5
      <4> QED
        BY <4>1
    <3> QED
      BY <2>1, <3>3, <3>4, <3>5 DEF FromDevice
  <2>6. to_device' = IF link # "up" THEN to_device ELSE to_device \o answer
    BY <1>14 DEF CloudReads
  <2> HIDE DEF answer
  <2>7. to_device' \in Seq(ForProperty \cup ForAction)
    BY <2>5, <2>6, ConcatProperties DEF TypeInv
  <2> QED
    BY <1>14, <2>1, <2>3, <2>4, <2>7 DEF CloudReads, TypeInv, device
<1>15. CASE Breaks
  <2>1. PICK n \in 0..Len(to_cloud), i \in 0..Len(to_device) :
           /\ to_cloud' = SubSeq(to_cloud, 1, n)
           /\ to_device' = SubSeq(to_device, 1, i)
    BY <1>15 DEF Breaks
  <2>2. to_cloud' \in Seq(FromDevice)
    BY <2>1, SubSeqProperties DEF TypeInv
  <2>3. to_device' \in Seq(ForProperty \cup ForAction)
    BY <2>1, SubSeqProperties DEF TypeInv
  <2> QED
    BY <1>15, <2>2, <2>3 DEF Breaks, TypeInv, device, cloud
<1>16. CASE UNCHANGED vars
  BY <1>16 DEF vars, device, cloud, TypeInv
<1> QED
  BY <1>2, <1>3, <1>4, <1>5, <1>6, <1>7, <1>8, <1>9, <1>10, <1>11, <1>12, <1>13, <1>14, <1>15, <1>16 DEF Next

\* Whatever is sent, set, read and lost, settings, messages and what the cloud keeps have
\* their types.
THEOREM TypeCorrect == Spec => []TypeInv
<1>1. Init => TypeInv
  BY TypeInit
<1>2. TypeInv /\ [Next]_vars => TypeInv'
  BY TypeStep
<1> QED
  BY <1>1, <1>2, PTL DEF Spec

-------------------------------------------------------------------------------
(* What the cloud knows. *)

\* Told(k), now and after a step, is what the messages on their way tell it.
LEMMA ToldIs ==
  ASSUME NEW k
  PROVE  /\ Told(k) = ToldBy(to_cloud, reported[k], k)
         /\ Told(k)' = ToldBy(to_cloud', reported'[k], k)
BY DEF Told, ToldBy, With

Agrees(k) == property[k].need_report \/ k \in lost \cup refused \/ Told(k) = property[k].value

\* A control leaves a value alone, or flags the new one for a report, or hides a change.
LEMMA ParseAgrees ==
  ASSUME TypeInv, NEW params, Parse(params), NEW k \in Keys,
         Agrees(k), Told(k)' = Told(k), k \in lost => k \in lost'
  PROVE  Agrees(k)'
<1>1. property \in [Keys -> Setting]
  BY DEF TypeInv
<1>2. property' = Parsed(property, Types, params)
  BY DEF Parse
<1>3. CASE k \notin DOMAIN params
  <2>1. property'[k] = property[k]
    BY <1>1, <1>2, <1>3 DEF Parsed
  <2>2. k \in refused => k \in refused'
    BY <1>3 DEF Parse
  <2> QED
    BY <2>1, <2>2 DEF Agrees
<1>4. CASE k \in DOMAIN params /\ Sets(Types[k], params[k])
  <2>1. property'[k] = [value |-> params[k], need_report |-> TRUE]
    BY <1>1, <1>2, <1>4 DEF Parsed
  <2> QED
    BY <2>1 DEF Agrees
<1>5. CASE k \in DOMAIN params /\ ~Sets(Types[k], params[k])
  <2>1. property'[k] = [property[k] EXCEPT !.need_report = FALSE]
    BY <1>1, <1>2, <1>5 DEF Parsed
  <2>2. property'[k].value = property[k].value
    BY <1>1, <2>1 DEF Setting
  <2>3. k \in refused => k \in refused'
    BY <1>5 DEF Parse
  <2>4. property[k].need_report => k \in refused'
    BY <1>1, <1>5 DEF Parse, Pending
  <2> QED
    BY <2>2, <2>3, <2>4 DEF Agrees
<1> QED
  BY <1>3, <1>4, <1>5

\* A report tells what it is for, or is known to be lost.
LEMMA ReportAgrees ==
  ASSUME TypeInv, Report, NEW k \in Keys, Agrees(k)
  PROVE  Agrees(k)'
<1>1. property \in [Keys -> Setting] /\ to_cloud \in Seq(FromDevice)
  BY DEF TypeInv
<1>2. /\ property' = [j \in Keys |-> [property[j] EXCEPT !.need_report = FALSE]]
      /\ reported' = reported /\ refused' = refused
  BY DEF Report, cloud
<1>3. property'[k].value = property[k].value
  BY <1>1, <1>2 DEF Setting
<1>4. CASE Pending(property) = {}
  <2>1. to_cloud' = to_cloud /\ lost' = lost
    BY <1>4 DEF Report
  <2>2. Told(k)' = Told(k)
    BY <1>2, <2>1 DEF Told
  <2>3. ~property[k].need_report
    BY <1>1, <1>4 DEF Pending
  <2> QED
    BY <1>2, <1>3, <2>1, <2>2, <2>3 DEF Agrees
<1>5. CASE Pending(property) # {}
  <2> DEFINE values == [j \in Pending(property) |-> property[j].value]
             m == Message("report", values)
  <2>1. Publish(m)
    BY <1>5 DEF Report
  <2>2. Tells(m) = Pending(property) /\ m.params = values
    BY DEF Tells, Message
  <2>3. k \in Pending(property) <=> property[k].need_report
    BY <1>1 DEF Pending
  <2>4. k \in Pending(property) => values[k] = property[k].value
    OBVIOUS
  <2>5. m \in FromDevice
    <3>1. Pending(property) \subseteq Keys
      BY <1>1 DEF Pending
    <3>2. values \in [Pending(property) -> AllTexts]
      BY <1>1, <3>1 DEF Setting
    <3>3. values \in Some(Keys)
      BY <3>1, <3>2 DEF Some
    <3> QED
      BY <3>3 DEF Message, FromDevice
  <2> HIDE DEF m, values
  <2>6. CASE link # "up" /\ k \in Tells(m)
    <3>1. k \in lost'
      BY <2>1, <2>6 DEF Publish
    <3> QED
      BY <3>1 DEF Agrees
  <2>7. CASE link # "up" /\ k \notin Tells(m)
    <3>1. to_cloud' = to_cloud /\ lost' = lost \cup Tells(m)
      BY <2>1, <2>7 DEF Publish
    <3>2. Told(k)' = Told(k)
      BY <1>2, <3>1 DEF Told
    <3> QED
      BY <1>2, <1>3, <2>2, <2>3, <2>7, <3>1, <3>2 DEF Agrees
  <2>8. CASE link = "up" /\ k \in Tells(m)
    <3>1. to_cloud' = Append(to_cloud, m)
      BY <2>1, <2>8 DEF Publish
    <3>2. Told(k)' = m.params[k]
      BY <1>1, <2>5, <2>8, <3>1, TellingAppended, ToldIs
    <3> QED
      BY <1>3, <2>2, <2>4, <2>8, <3>2 DEF Agrees
  <2>9. CASE link = "up" /\ k \notin Tells(m)
    <3>1. to_cloud' = Append(to_cloud, m) /\ lost' = lost \ Tells(m)
      BY <2>1, <2>9 DEF Publish
    <3>2. Told(k)' = ToldBy(to_cloud, reported[k], k)
      BY <1>1, <1>2, <2>5, <2>9, <3>1, OtherAppended, ToldIs
    <3>3. Told(k)' = Told(k)
      BY <3>2, ToldIs
    <3> QED
      BY <1>2, <1>3, <2>2, <2>3, <2>9, <3>1, <3>3 DEF Agrees
  <2> QED
    BY <2>6, <2>7, <2>8, <2>9
<1> QED
  BY <1>4, <1>5

\* The cloud keeps what it reads.
LEMMA ReadKeepsTold ==
  ASSUME TypeInv, CloudReads, NEW k \in Keys
  PROVE  Told(k)' = Told(k)
<1> DEFINE m == Head(to_cloud)
           r == IF k \in Tells(m) THEN m.params[k] ELSE reported[k]
<1>1. to_cloud \in Seq(FromDevice) /\ to_cloud # <<>> /\ to_cloud' = Tail(to_cloud)
  BY DEF TypeInv, CloudReads
<1>2. reported'[k] = r
  BY DEF CloudReads, Tells
<1>3. ToldBy(to_cloud', r, k) = ToldBy(to_cloud, reported[k], k)
  BY <1>1, FirstRead
<1> HIDE DEF r
<1> QED
  BY <1>2, <1>3, ToldIs

\* A report that breaks off with the link is known to be lost.
LEMMA BreakAgrees ==
  ASSUME TypeInv, Breaks, NEW k \in Keys, Agrees(k)
  PROVE  Agrees(k)'
<1>1. PICK n \in 0..Len(to_cloud) :
         /\ to_cloud' = SubSeq(to_cloud, 1, n)
         /\ lost' = lost \cup UNION {Tells(to_cloud[j]) : j \in n + 1..Len(to_cloud)}
  BY DEF Breaks
<1>2. property' = property /\ reported' = reported /\ refused' = refused
  BY DEF Breaks, device, cloud
<1>3. CASE k \in lost'
  BY <1>3 DEF Agrees
<1>4. CASE k \notin lost'
  <2>1. \A j \in n + 1..Len(to_cloud) : k \notin Tells(to_cloud[j])
    BY <1>1, <1>4
  <2>2. to_cloud \in Seq(FromDevice)
    BY DEF TypeInv
  <2>3. ToldBy(to_cloud', reported[k], k) = ToldBy(to_cloud, reported[k], k)
    BY <1>1, <2>1, <2>2, CutShort
  <2>4. Told(k)' = Told(k)
    BY <1>2, <2>3, ToldIs
  <2> QED
    BY <1>1, <1>2, <1>4, <2>4 DEF Agrees
<1> QED
  BY <1>3, <1>4

\* Every step keeps what the cloud knows, or will know, in step with the device.
LEMMA AgreesStep ==
  ASSUME TypeInv, [Next]_vars, NEW k \in Keys, Agrees(k)
  PROVE  Agrees(k)'
<1>1. CASE ReadControl
  <2>1. Told(k)' = Told(k)
    BY <1>1 DEF ReadControl, cloud, Told
  <2> QED
    BY <1>1, <2>1, ParseAgrees DEF ReadControl
<1>2. CASE ReadStatus
  <2> DEFINE m == Message("clear_control", NoParams)
  <2>1. Publish(m) /\ reported' = reported
    BY <1>2 DEF ReadStatus, cloud
  <2>2. Tells(m) = {} /\ m \in FromDevice
    BY NoParamsType DEF Message, Tells, FromDevice
  <2> HIDE DEF m
  <2>3. lost' = lost
    BY <2>1, <2>2 DEF Publish
  <2>4. Told(k)' = Told(k)
    <3>1. CASE link = "up"
      <4>1. to_cloud' = Append(to_cloud, m) /\ to_cloud \in Seq(FromDevice)
        BY <2>1, <3>1 DEF Publish, TypeInv
      <4>2. ToldBy(to_cloud', reported[k], k) = ToldBy(to_cloud, reported[k], k)
        BY <2>2, <4>1, OtherAppended
      <4> QED
        BY <2>1, <4>2, ToldIs
    <3>2. CASE link # "up"
      <4>1. to_cloud' = to_cloud
        BY <2>1, <3>2 DEF Publish
      <4> QED
        BY <2>1, <4>1 DEF Told
    <3> QED
      BY <3>1, <3>2
  <2> QED
    BY <1>2, <2>3, <2>4, ParseAgrees DEF ReadStatus
<1>3. CASE \/ ReadAction \/ ReadIgnored \/ ParseStops \/ YieldReturns \/ NoticesLoss \/ GivesUp \/ UserSetStops
           \/ (\E params \in Params(Keys, MaxNames) : CloudControls(params))
           \/ (\E id \in {action_id, <<"light">>, <<"other">>}, params \in Params(Inputs, 2) : CloudAsks(id, params))
           \/ UNCHANGED vars
  <2>1. /\ property' = property /\ to_cloud' = to_cloud /\ reported' = reported
        /\ lost' = lost /\ refused' = refused
    BY <1>3 DEF ReadAction, ReadIgnored, ParseStops, YieldReturns, NoticesLoss, GivesUp, UserSetStops,
                Stops, CloudControls, CloudAsks, vars, device, cloud
  <2> QED
    BY <2>1 DEF Agrees, Told
<1>4. CASE Reconnected
  <2> DEFINE m == Message("get_status", NoParams)
  <2>1. /\ to_cloud' = Append(to_cloud, m) /\ to_cloud \in Seq(FromDevice)
        /\ property' = property /\ reported' = reported /\ lost' = lost /\ refused' = refused
    BY <1>4 DEF Reconnected, TypeInv, device, cloud
  <2>2. k \notin Tells(m) /\ m \in FromDevice
    BY NoParamsType DEF Message, Tells, FromDevice
  <2> HIDE DEF m
  <2>3. ToldBy(to_cloud', reported[k], k) = ToldBy(to_cloud, reported[k], k)
    BY <2>1, <2>2, OtherAppended
  <2>4. Told(k)' = Told(k)
    BY <2>1, <2>3, ToldIs
  <2> QED
    BY <2>1, <2>4 DEF Agrees
<1>5. ASSUME NEW j \in Keys, NEW v \in Values, UserSets(j, v)
      PROVE  Agrees(k)'
  <2>1. /\ property \in [Keys -> Setting] /\ to_cloud' = to_cloud /\ reported' = reported
        /\ lost' = lost /\ refused' = refused \ {j}
    BY <1>5 DEF UserSets, TypeInv, cloud
  <2>2. struct_value_set(j) \/ value_set(j, v)
    BY <1>5 DEF UserSets
  <2>3. CASE j = k
    <3>1. property'[k].need_report
      BY <2>1, <2>2, <2>3 DEF struct_value_set, value_set, Setting
    <3> QED
      BY <3>1 DEF Agrees
  <2>4. CASE j # k
    <3>1. property'[k] = property[k]
      BY <2>1, <2>2, <2>4 DEF struct_value_set, value_set
    <3> QED
      BY <2>1, <2>4, <3>1 DEF Agrees, Told
  <2> QED
    BY <2>3, <2>4
<1>6. CASE Report
  BY <1>6, ReportAgrees
<1>7. CASE CloudReads
  <2>1. Told(k)' = Told(k)
    BY <1>7, ReadKeepsTold
  <2>2. property' = property /\ lost' = lost /\ refused' = refused
    BY <1>7 DEF CloudReads, device
  <2> QED
    BY <2>1, <2>2 DEF Agrees
<1>8. CASE Breaks
  BY <1>8, BreakAgrees
<1> QED
  BY <1>1, <1>2, <1>3, <1>4, <1>5, <1>6, <1>7, <1>8 DEF Next

\* The cloud knows the value of every property, or will with the next report; the only
\* ways out are a report lost with its link and a change that a bad control hid.
THEOREM CloudAgrees == Spec => []ReportedAgrees
<1>1. ReportedAgrees <=> \A k \in Keys : Agrees(k)
  BY DEF ReportedAgrees, Agrees
<1>2. Init => ReportedAgrees
  BY DEF Init, ReportedAgrees
<1>3. TypeInv /\ ReportedAgrees /\ [Next]_vars => ReportedAgrees'
  <2> SUFFICES ASSUME TypeInv, ReportedAgrees, [Next]_vars
               PROVE  ReportedAgrees'
    OBVIOUS
  <2>1. \A k \in Keys : Agrees(k)'
    BY <1>1, AgreesStep
  <2> QED
    BY <2>1 DEF ReportedAgrees, Agrees
<1> QED
  BY <1>2, <1>3, TypeCorrect, PTL DEF Spec

-------------------------------------------------------------------------------
(* Actions. *)

\* After the reset, an input is flagged only by the message that sets it.
LEMMA FlaggedIsNew ==
  ASSUME TypeInv, NEW params, NEW k \in Inputs,
         Parsed(Reset(input), [j \in Inputs |-> "int"], params)[k].need_report
  PROVE  /\ k \in DOMAIN params
         /\ Parsed(Reset(input), [j \in Inputs |-> "int"], params)[k].value = params[k]
<1> DEFINE before == Reset(input)
           after == Parsed(before, [j \in Inputs |-> "int"], params)
<1>1. DOMAIN before = Inputs /\ before[k] \in Setting /\ before[k].need_report = FALSE
  BY DEF Reset, TypeInv, Setting
<1> HIDE DEF before
<1>2. after[k] = IF k \notin DOMAIN params THEN before[k]
                 ELSE IF Sets("int", params[k]) THEN [value |-> params[k], need_report |-> TRUE]
                 ELSE [before[k] EXCEPT !.need_report = FALSE]
  BY <1>1 DEF Parsed
<1>3. CASE k \notin DOMAIN params
  BY <1>1, <1>2, <1>3 DEF before
<1>4. CASE k \in DOMAIN params /\ Sets("int", params[k])
  <2>1. after[k] = [value |-> params[k], need_report |-> TRUE]
    BY <1>2, <1>4
  <2> QED
    BY <1>4, <2>1 DEF before
<1>5. CASE k \in DOMAIN params /\ ~Sets("int", params[k])
  <2>1. after[k] = [before[k] EXCEPT !.need_report = FALSE]
    BY <1>2, <1>5
  <2>2. after[k].need_report = FALSE
    BY <1>1, <2>1 DEF Setting
  <2> QED
    BY <2>2 DEF before
<1> QED
  BY <1>3, <1>4, <1>5

\* An action is done with its own message's inputs, all of them readable.
THEOREM ActionsAreOwn == Spec => []ActionInputsAreNew
<1>1. Init => ActionInputsAreNew
  BY DEF Init, ActionInputsAreNew
<1>2. TypeInv /\ ActionInputsAreNew /\ [Next]_vars => ActionInputsAreNew'
  <2> SUFFICES ASSUME TypeInv, ActionInputsAreNew, [Next]_vars
               PROVE  ActionInputsAreNew'
    OBVIOUS
  <2>1. CASE blink' = blink
    BY <2>1 DEF ActionInputsAreNew
  <2>2. CASE blink' # blink
    <3> DEFINE m == Head(to_device)
               inputs == Parsed(Reset(input), [k \in Inputs |-> "int"], m.params)
    <3>1. ReadAction
      BY <2>2 DEF Next, vars, ReadControl, ReadStatus, ReadIgnored, ParseStops, Stops, YieldReturns,
                  NoticesLoss, Reconnected, GivesUp, UserSets, UserSetStops, Report, CloudControls,
                  CloudAsks, CloudReads, Breaks
    <3>2. Pending(inputs) = Inputs /\ blink' = ActionDone(inputs, m)
      BY <2>2, <3>1 DEF ReadAction
    <3>3. ASSUME NEW k \in Inputs
          PROVE  k \in DOMAIN m.params /\ inputs[k].value = m.params[k]
      <4>1. inputs[k].need_report
        BY <3>2 DEF Pending
      <4> QED
        BY <4>1, FlaggedIsNew
    <3> HIDE DEF inputs
    <3>4. blink'.given = m.params /\ blink'.used = [k \in Inputs |-> inputs[k].value]
      BY <3>2 DEF ActionDone
    <3> QED
      BY <3>3, <3>4 DEF ActionInputsAreNew
  <2> QED
    BY <2>1, <2>2
<1> QED
  BY <1>1, <1>2, TypeCorrect, PTL DEF Spec
=============================================================================
