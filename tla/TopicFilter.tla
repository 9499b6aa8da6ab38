----------------------------- MODULE TopicFilter -----------------------------
(***************************************************************************)
(* Which topics a topic filter matches: _is_topic_matched, a turn of its   *)
(* loop at a time.  Filter and name are sequences of characters.           *)
(***************************************************************************)
EXTENDS Integers, Sequences

CONSTANTS TopicFilters, TopicNames    \* what it is called with

VARIABLES
    topic_filter, topic_name,
    curf, curn,         \* the next character of each
    scan                \* idle, in the loop, or returned

topicVars == <<topic_filter, topic_name, curf, curn, scan>>

Init ==
    /\ topic_filter = <<>> /\ topic_name = <<>>
    /\ curf = 1 /\ curn = 1
    /\ scan = "idle"

Call ==
    /\ scan = "idle"
    /\ topic_filter' \in TopicFilters /\ topic_name' \in TopicNames
    /\ curf' = 1 /\ curn' = 1
    /\ scan' = "loop"

InLoop == curf <= Len(topic_filter) /\ curn <= Len(topic_name)

\* The two characters do not stop the scan.
Agree ==
    /\ topic_name[curn] = "/" => topic_filter[curf] = "/"
    /\ topic_filter[curf] \in {"+", "#", topic_name[curn]}

\* Where the scan of the name goes on: a "+" takes the rest of the level, a "#" the rest
\* of the name.
After_PlusTakesOne(n) == IF topic_filter[curf] = "#" THEN Len(topic_name) + 1 ELSE n + 1
After(n) ==
    IF topic_filter[curf] = "#" THEN Len(topic_name) + 1
    ELSE IF topic_filter[curf] = "+"
    THEN CHOOSE k \in (n + 1)..(Len(topic_name) + 1) :
             /\ k = Len(topic_name) + 1 \/ topic_name[k] = "/"
             /\ \A j \in (n + 1)..(k - 1) : topic_name[j] # "/"
    ELSE n + 1

Step ==
    /\ scan = "loop"
    /\ InLoop
    /\ Agree
    /\ curf' = curf + 1
    /\ curn' = After(curn)
    /\ UNCHANGED <<topic_filter, topic_name, scan>>

Stop ==
    /\ scan = "loop"
    /\ ~(InLoop /\ Agree)
    /\ scan' = "returned"
    /\ UNCHANGED <<topic_filter, topic_name, curf, curn>>

\* What is returned: both have come to their ends.
IsTopicMatched == curn = Len(topic_name) + 1 /\ curf = Len(topic_filter) + 1

Next == Call \/ Step \/ Stop

Spec == Init /\ [][Next]_topicVars

-------------------------------------------------------------------------------
(* MQTT 3.1.1, section 4.7. *)

\* A level begins behind a border, and ends before the next one.
Begins(s)     == {0} \cup {i \in DOMAIN s : s[i] = "/"}
Ends(s, b)    == {e \in Begins(s) \cup {Len(s) + 1} : e > b}
EndOf(s, b)   == CHOOSE e \in Ends(s, b) : \A x \in Ends(s, b) : e <= x
Level(s, b)   == SubSeq(s, b + 1, EndOf(s, b) - 1)
IsLast(s, b)  == EndOf(s, b) = Len(s) + 1

Fits(level, word) == level = <<"+">> \/ level = word

\* The levels of the filter are paired with those of the name, the first with the first
\* and the next with the next.  "#" stands for one level or more here; MQTT lets it stand
\* for none as well.
Pairs(filter, name, h) ==
    /\ h[0] = 0
    /\ \A b \in Begins(filter) :
           \/ Level(filter, b) = <<"#">>
           \/ /\ Fits(Level(filter, b), Level(name, h[b]))
              /\ IF IsLast(filter, b) THEN IsLast(name, h[b])
                 ELSE ~IsLast(name, h[b]) /\ h[EndOf(filter, b)] = EndOf(name, h[b])

Matches(filter, name) == \E h \in [Begins(filter) -> Begins(name)] : Pairs(filter, name, h)

\* A wildcard is a level of its own, and "#" is the last one.
WellFormed(filter) ==
    \A i \in DOMAIN filter :
        /\ filter[i] \in {"+", "#"} => i - 1 \in Begins(filter) /\ i + 1 \in Ends(filter, i)
        /\ filter[i] = "#" => i = Len(filter)

IsName(name)        == \A i \in DOMAIN name : name[i] \notin {"+", "#"}
HasEmptyLevel(name) == \E b \in Begins(name) : Level(name, b) = <<>>

\* A handler is called for a topic its filter matches, and for no other, as long as
\* the topic has no empty level, which "+" and "#" are not found to match.
MatchIsRight ==
    scan = "returned" /\ WellFormed(topic_filter) /\ IsName(topic_name) =>
        /\ IsTopicMatched => Matches(topic_filter, topic_name)
        /\ Matches(topic_filter, topic_name) => IsTopicMatched \/ HasEmptyLevel(topic_name)
===============================================================================
