------------------------------ MODULE UtilsJson ------------------------------
(***************************************************************************)
(* How the SDK finds a value in a JSON text, and drops the escapes of a    *)
(* string.  The text s is a sequence of characters; a scan is a position p *)
(* in it and the number rem of characters that are said to remain, which   *)
(* need not be those of s: the buffer goes on behind the text.             *)
(***************************************************************************)
EXTENDS Integers, Sequences, SequencesExt, TLC

Quote == "\""
Slash == "\\"
NUL   == "NUL"                               \* what ends a C string
Null  == 0                                   \* no position

At(s, p) == IF p \in DOMAIN s THEN s[p] ELSE NUL

Least(S) == CHOOSE x \in S : \A y \in S : x <= y

-------------------------------------------------------------------------------
\* _find_json_delimiter, which skips spaces, or what is not the delimiter.
FindDelimiter(s, ch, spaces, p, rem) ==
    LET skipped(c) == IF spaces THEN c = " " ELSE c # ch
        k == Least({x \in 0..Len(s) : \/ x >= rem
                                      \/ At(s, p + x) = NUL
                                      \/ ~skipped(At(s, p + x))})
    IN  [p |-> IF p # Null /\ k < rem /\ At(s, p + k) = ch THEN p + k ELSE Null, rem |-> rem - k]

\* The switch of _get_json_value.
Type(c) ==
    CASE c = "[" -> "array"
      [] c = "{" -> "object"
      [] c = Quote -> "string"
      [] c \in {"t", "T", "f", "F"} -> "boolean"
      [] c \in {"n", "N"} -> "null"
      [] OTHER -> "number"

Opens(type)  == IF type = "array" THEN {"["} ELSE IF type = "object" THEN {"{"} ELSE {}
Digits       == {"0", "1", "2", "3", "4", "5", "6", "7", "8", "9"}
Words        == {<<"t","r","u","e">>, <<"T","R","U","E">>, <<"f","a","l","s","e">>,
                 <<"F","A","L","S","E">>}
Nulls        == {<<"n","u","l","l">>, <<"N","U","L","L">>}

\* The functions of sg_element_matched_func.
Ends(type, s, p) ==
    CASE type = "array"  -> s[p] = "]"
      [] type = "object" -> s[p] = "}"
      [] type = "string" -> s[p] = Quote /\ At(s, p - 1) # Slash
      [] type = "number" -> s[p] \notin Digits \cup {".", "f", "-"}
      [] OTHER -> TRUE

\* Length of the literal at p, for a boolean or null; -1 when there is none.
Offset(type, s, p) ==
    LET found == {w \in (IF type = "null" THEN Nulls ELSE Words) : SubSeq(s, p, p + Len(w) - 1) = w}
    IN  IF type \notin {"boolean", "null"} THEN 0
        ELSE IF found = {} THEN -1 ELSE Len(CHOOSE w \in found : TRUE)

\* _find_json_value_element_end: the first end at which all that was opened behind p
\* has been closed.
ElementEnd_NoDepth(type, s, p, rem) ==
    LET ends == {k \in 0..(Len(s) - p) : k < rem /\ Ends(type, s, p + k)}
    IN  IF ends = {} THEN [p |-> Null, rem |-> rem]
        ELSE LET k == Least(ends) + Offset(type, s, p) IN [p |-> p + k, rem |-> rem - k]
ElementEnd(type, s, p, rem) ==
    LET depth(k) == Len(SelectSeq(SubSeq(s, p, p + k), LAMBDA c : c \in Opens(type)))
                    - (IF Opens(type) = {} THEN 0
                       ELSE Len(SelectSeq(SubSeq(s, p, p + k - 1),
                                          LAMBDA c : c = (IF type = "array" THEN "]" ELSE "}"))))
        ends == {k \in 0..(Len(s) - p) : k < rem /\ Ends(type, s, p + k) /\ depth(k) = 0}
    IN  IF ends = {} \/ Offset(type, s, p) < 0 THEN [p |-> Null, rem |-> rem]
        ELSE LET k == Least(ends) + Offset(type, s, p) IN [p |-> p + k, rem |-> rem - k]

\* _get_json_key.
GetKey(s, p, rem) ==
    LET Between(begin, end) ==
            IF begin.p = Null \/ end.p = Null THEN [ok |-> FALSE]
            ELSE [ok |-> TRUE, key |-> SubSeq(s, begin.p + 1, end.p - 1), p |-> end.p, rem |-> end.rem]
        From(begin) == Between(begin, FindDelimiter(s, Quote, FALSE, begin.p + 1, begin.rem - 1))
    IN  From(FindDelimiter(s, Quote, TRUE, p, rem))

\* _get_json_value.  A string, an array and an object end one character behind the
\* place up to which rem is counted.
GetValue(s, p, rem) ==
    LET Nested(type) == IF type \in {"array", "object"} THEN 1 ELSE 0
        Closed(type) == IF type \in {"array", "object", "string"} THEN 1 ELSE 0
        Left(colon, first) == colon.rem - (first - colon.p)
        Value(colon, first, type, end) ==
            LET begin == first + Closed(type) - Nested(type) IN
            IF colon.p = Null \/ (first > colon.p + 1 /\ Left(colon, first) <= 0) \/ end.p = Null
            THEN [ok |-> FALSE]
            ELSE [ok    |-> TRUE,
                  begin |-> begin,
                  len   |-> end.p - begin + Nested(type),
                  p     |-> end.p + Closed(type),
                  rem   |-> end.rem]
        Typed(colon, first, type) ==
            Value(colon, first, type,
                  ElementEnd(type, s, first + Closed(type), Left(colon, first) - Closed(type)))
        Behind(colon, first) == Typed(colon, first, Type(At(s, first)))
        From(colon) == Behind(colon, Least({x \in (colon.p + 1)..(Len(s) + 1) : At(s, x) # " "}))
    IN  From(FindDelimiter(s, ":", TRUE, p, rem))

\* json_get_value_by_key.
Missing == [ok |-> FALSE]
GetByKey(s, begin, len, key) ==
    LET Scan[p \in Nat, rem \in Int] ==
            LET Behind(comma) == Scan[IF comma.p = Null THEN Null ELSE comma.p + 1, comma.rem - 1]
                Compared(k, v) == IF ~v.ok \/ k.key = key THEN v
                                  ELSE Behind(FindDelimiter(s, ",", TRUE, v.p, v.rem))
                Member(k) == IF k.ok THEN Compared(k, GetValue(s, k.p + 1, k.rem - 1)) ELSE Missing
            IN  IF p = Null THEN Missing ELSE Member(GetKey(s, p, rem))
        Within(object) == IF object.p = Null THEN Missing ELSE Scan[object.p + 1, object.rem - 1]
    IN  Within(FindDelimiter(s, "{", TRUE, begin, len))

\* utils_json_value_get: the keys of a path one within the other.
ValueGet(s, len, path) ==
    LET Deeper(v, key) == IF v.ok THEN GetByKey(s, v.begin, v.len, key) ELSE Missing
        Found(v) == IF v.ok THEN [ok |-> TRUE, text |-> SubSeq(s, v.begin, v.begin + v.len - 1)] ELSE Missing
    IN  Found(FoldLeft(Deeper, [ok |-> TRUE, begin |-> 1, len |-> len], path))

\* utils_json_value_data_get, into an integer of w bits or a boolean.  It copies the text
\* into 32 bytes; a text that fills them has no end, and what is read is not known.
Unread == [ok |-> FALSE]
Number(digits) == FoldLeft(LAMBDA n, d : 10 * n + (CHOOSE x \in 0..9 : ToString(x) = d), 0, digits)
DataGet(text, type, w) ==
    LET negative == At(text, 1) = "-"
        first    == IF negative THEN 2 ELSE 1
        last     == Least({k \in (first - 1)..Len(text) : At(text, k + 1) \notin Digits})
        n        == Number(SubSeq(text, first, last))
        word     == (IF negative THEN -n ELSE n) % 2^w
    IN  IF Len(text) >= 32 THEN Unread
        ELSE IF type = "boolean" THEN [ok |-> TRUE, data |-> text # <<"f","a","l","s","e">>]
        ELSE IF last < first THEN Unread
        ELSE [ok |-> TRUE, data |-> IF type = "int" /\ word >= 2^(w - 1) THEN word - 2^w ELSE word]

\* utils_json_get_uint32.
GetUint(s, len, path, w) ==
    LET Read(v) == IF v.ok THEN DataGet(v.text, "uint", w) ELSE Unread
    IN  Read(ValueGet(s, len, path))

\* utils_json_strip_transfer: a backslash goes, what comes behind it stays.
StripTransfer(s) ==
    LET Rest[i \in Nat] == IF i > Len(s) THEN <<>>
                           ELSE IF s[i] # Slash THEN <<s[i]>> \o Rest[i + 1]
                           ELSE IF i = Len(s) THEN <<>>
                           ELSE <<s[i + 1]>> \o Rest[i + 2]
    IN  Rest[1]

-------------------------------------------------------------------------------
(* JSON.  A value is its type with its text, its elements or its members;  *)
(* a member is a pair of a key and a value.                                *)

Literal(type, text) == [type |-> type, text |-> text]
Array(elements)     == [type |-> "array", elements |-> elements]
Object(members)     == [type |-> "object", members |-> members]

Escape(text) == FlattenSeq([i \in DOMAIN text |->
                    IF text[i] \in {Quote, Slash} THEN <<Slash, text[i]>> ELSE <<text[i]>>])
Quoted(text) == <<Quote>> \o Escape(text) \o <<Quote>>

Joined(open, parts, close, gap) ==
    <<open>> \o gap
    \o FlattenSeq([i \in DOMAIN parts |->
                      (IF i = 1 THEN <<>> ELSE gap \o <<",">> \o gap) \o parts[i]])
    \o gap \o <<close>>

\* The text of a value, with gap around each token.
RECURSIVE Text(_, _)
Text(v, gap) ==
    CASE v.type = "string" -> Quoted(v.text)
      [] v.type = "array"  ->
             Joined("[", [i \in DOMAIN v.elements |-> Text(v.elements[i], gap)], "]", gap)
      [] v.type = "object" ->
             Joined("{", [i \in DOMAIN v.members |->
                             Quoted(v.members[i][1]) \o gap \o <<":">> \o gap
                             \o Text(v.members[i][2], gap)], "}", gap)
      [] OTHER -> v.text

\* The value a path of keys leads to, if it leads to one.
RECURSIVE Lookup(_, _)
Lookup(v, path) ==
    IF path = <<>> THEN {v}
    ELSE IF v.type # "object" THEN {}
    ELSE UNION {Lookup(v.members[i][2], Tail(path)) :
                   i \in {j \in DOMAIN v.members : v.members[j][1] = path[1]}}

\* The strings and keys of a value.
RECURSIVE Strings(_)
Strings(v) ==
    CASE v.type = "string" -> {v.text}
      [] v.type = "array"  -> UNION {Strings(v.elements[i]) : i \in DOMAIN v.elements}
      [] v.type = "object" -> UNION {{v.members[i][1]} \cup Strings(v.members[i][2]) : i \in DOMAIN v.members}
      [] OTHER -> {}

Free(v, chars) == \A text \in Strings(v) : \A i \in DOMAIN text : text[i] \notin chars

\* The documents the search is made for.  A quote behind a backslash is not taken for the
\* end of a string, also when that backslash is itself escaped; the end of an array or an
\* object is counted out without regard to strings; the text of a key ends at a quote.
RECURSIVE Readable(_)
Readable(v) ==
    v.type = "object" =>
        \A i \in DOMAIN v.members :
            LET key == v.members[i][1]
                w   == v.members[i][2]
            IN  /\ \A j \in DOMAIN key : key[j] \notin {Quote, Slash}
                /\ w.type = "string" => w.text = <<>> \/ Last(w.text) # Slash
                /\ w.type = "array"  => Free(w, {"[", "]"})
                /\ w.type = "object" => Free(w, {"{", "}"})
                /\ Readable(w)

\* In a document it is made for, each path finds the text of its value, a string without
\* its quotes, and a path that leads nowhere finds nothing, whatever the buffer holds behind
\* the text.
FindsTheValue(doc, gap, stale, path) ==
    LET text  == Text(doc, gap)
        value == Lookup(doc, path)
    IN  Readable(doc) =>
        ValueGet(text \o stale, Len(text), path) =
            IF value = {} THEN Missing
            ELSE LET v == CHOOSE v \in value : TRUE
                 IN  [ok |-> TRUE, text |-> IF v.type = "string" THEN Escape(v.text) ELSE Text(v, gap)]

\* A number that fits comes out of its text, alone or as a member, and nothing comes out of
\* a text that is none.
NumberIsRead(n, w) ==
    LET sign == IF n < 0 THEN <<"-">> ELSE <<>>
        size == IF n < 0 THEN -n ELSE n
        text == sign \o (IF size >= 100 THEN <<ToString(size \div 100)>> ELSE <<>>)
                     \o (IF size >= 10 THEN <<ToString((size \div 10) % 10)>> ELSE <<>>) \o <<ToString(size % 10)>>
        doc  == Text(Object(<<<<<<"n">>, Literal("number", text)>>>>), <<>>)
    IN  /\ n \in -(2^(w - 1))..(2^(w - 1) - 1) => DataGet(text, "int", w) = [ok |-> TRUE, data |-> n]
        /\ n \in 0..(2^w - 1) => GetUint(doc, Len(doc), <<<<"n">>>>, w) = [ok |-> TRUE, data |-> n]
        /\ GetUint(doc, Len(doc), <<<<"m">>>>, w) = Unread
        /\ DataGet(<<"x">> \o text, "int", w) = Unread

\* What was escaped comes back.
StripsEscapes(text) == StripTransfer(Escape(text)) = text
===============================================================================
