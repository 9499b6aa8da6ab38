---------------------------- MODULE MCAlgorithms ----------------------------
(***************************************************************************)
(* The algorithms that keep no state of a connection, on bounded inputs,   *)
(* side by side: a behaviour first takes a subject, and then inputs for it *)
(* or, for a topic, a digest or a list, the steps of its module.           *)
(***************************************************************************)
EXTENDS Sequences, FiniteSets, MessageDigest, LinkedList, TopicMatch

CONSTANTS Sizes, Ids, Lengths,    \* of buffers, packet ids, remaining lengths
          Bytes                   \* what Base64 is given

Packet == INSTANCE MqttConnectOption
Json   == INSTANCE Reports WITH Unknown <- "?"
Base64 == INSTANCE Base64
Http   == INSTANCE CosDownload
Net    == INSTANCE Network

VARIABLES subject, input

-------------------------------------------------------------------------------
(* Inputs. *)

Strings(set, lengths) == UNION {[1..n -> set] : n \in lengths}
Long(n)               == [i \in 1..n |-> i % 256]

Publishes ==
    [size : Sizes, id : Ids, topic : {<<116>>, <<116, 47, 116>>}, payload : {Long(n) : n \in {0, 1, 121, 122, 123, 130}},
     flags : [dup : {0, 1}, qos : {0, 1}, retain : {0, 1}]]
Subscribes ==
    [size : Sizes, id : Ids, qos : {0, 1}, filters : Strings({<<97>>, <<97, 47, 35>>, Long(120)}, 1..2)]
Connects ==
    [size : Sizes,
     options : [version : {3, 4, 5}, client_id : {<<99>>, Long(110)}, keep_alive : {0, 240, 690}, clean_session : {0, 1},
                username : {<<>>, <<<<117, 110>>>>}, password : {<<>>, <<<<112>>>>, <<<<>>>>},
                will : {<<>>, <<[topic |-> <<119>>, message |-> Long(8), qos |-> 1, retained |-> 1]>>}]]
Devices  == [product_id : {Long(1), Long(10)}, device_name : {Long(1), Long(48), Long(49)}, device_secret : {Long(4)}]
Constructs ==
    [mode : {"key_tls", "key_no_tls", "cert_tls", "cert_no_tls"}, fails : SUBSET {"username", "password"}, device : Devices,
     params : [keep_alive_interval_ms : {999, 240000, 691000}, clean_session : {0, 1}, command_timeout : {0, 5001, 30000},
               host : {<<>>, <<Long(20)>>}],
     random : {[i \in 1..5 |-> r] : r \in {<<0, 25>>, <<1, 26>>, <<2, 19>>}}]
Answers == [id : Ids, present : {0, 1}, code : {0, 5}, codes : Strings({0, 1, 128}, 1..2)]

AllFilters == Strings({"a", "/", "+", "#"}, 1..4) \cup {s \o <<"/", "#">> : s \in Strings({"a", "/", "+"}, {3})}
AllNames   == Strings({"a", "b", "/"}, 1..4)

Number  == Json!Literal("number", <<"-", "1", ".", "5">>)
Texts   == {<<>>, <<"x", "\"", "{", "]">>, <<"\\", "\\", "y">>, <<"x", "\\">>}
Braces  == Json!Literal("string", <<"}">>)
Ends    == Json!Literal("string", <<"]", "\\">>)
Leaves  == {Number, Json!Literal("boolean", <<"t", "r", "u", "e">>), Json!Literal("null", <<"n", "u", "l", "l">>)}
           \cup {Json!Literal("string", t) : t \in Texts}
Member(key, value) == <<<<key>>, value>>
Nested  == {Json!Array(<<>>), Json!Array(<<Number, Json!Array(<<Number>>)>>), Json!Object(<<>>),
            Json!Object(<<Member("a", Number)>>),
            Json!Array(<<Braces, Ends>>), Json!Object(<<Member("b", Number), Member("a", Braces)>>),
            Json!Array(<<Braces, Json!Object(<<Member("a", Braces)>>)>>), Json!Object(<<Member("b", Number), Member("a", Ends)>>),
            Json!Object(<<Member("b", Json!Object(<<Member("a", Number)>>)), Member("a", Json!Array(<<Json!Object(<<>>)>>))>>)}
Values    == Leaves \cup Nested
Documents == {Json!Object(<<Member("a", v), <<<<"a", "b">>, w>>, Member("b", u)>>) :
                 v \in Values, w \in Nested \cup {Number}, u \in {Number, Json!Literal("string", <<"x">>)}}
             \cup {Json!Object(<<>>), Json!Object(<<Member("b", Number)>>)}
Paths     == {<<<<"a">>>>, <<<<"b">>>>, <<<<"a", "b">>>>, <<<<"a">>, <<"b">>>>, <<<<"a">>, <<"b">>, <<"a">>>>,
              <<<<"a", "b">>, <<"a">>>>}
Behind    == {<<>>, <<",", "\"", "a", "\"", ":", "1", "}">>}

Reported  == [buf_len : {0, 1, 20, 52, 53, 54, 60, 61, 62, 63, 64, 90}, type : 0..12, version : {"", "v"}]
FileLists == [buf_len : {5, 21, 22, 23, 46, 47, 48, 72, 73, 74, 98, 99, 100},
              files : Strings([name : {"", "f"}, version : {"v"}, type : {-1, 0, 3}], 0..3)]

\* How many of a text's bytes are there at each read.
Arrivals == Strings({0, 3, 5, 6, 7, 8, 9, 11}, 0..3)
Responses == {[status |-> s, body |-> b, size |-> n, arrivals |-> a] :
                 s \in {"200", "403", "500"}, b \in Strings({"x"}, {0, 1, 5}) \cup {<<"CR", "LF", "CR", "LF">>},
                 n \in {7, 8, 9, 12, 20}, a \in {a \in Arrivals : \A i \in 2..Len(a) : a[i - 1] <= a[i]}}
Chunks    == {<<>>, <<<<"x">>>>, <<<<"x", "y">>, <<"z">>>>, <<<<"x">>, <<"y", "z", "x">>, <<"z", "z", "x", "x", "y">>>>}
Hosts     == {<<"h">>, <<"h", ":", "p">>}
Locations == {<<>>, <<"/">>, <<"/", "f">>, <<"/", "f", "/">>}
Requests  ==
    [host : Hosts, path : Locations, fragment : {<<>>, <<"#", "f">>}, header : {<<>>, <<"Range">> \o Http!CRLF},
     content : {<<>>, <<"x", "y">>}, type : {<<>>, <<"json">>}, fails : SUBSET {1, 3, 4, 6}]

Files     == [size : 0..5, offset : 0..2, is_fragmentation : BOOLEAN, buf_len : 8..13, k : 0..12]

Turns  == [what : {"timeout", "interrupted", "fail", "reset", "closed"}, bytes : {0}] \cup [what : {"moved"}, bytes : {1, 2}]
Addresses == Strings({"socket_fails", "fcntl_fails", "refused", "select_expires", "so_error", "at_once", "in_progress"}, 0..3)
Failures == SUBSET {"malloc", "seed", "ca_crt", "client_cert", "key_file", "psk", "config_defaults", "own_cert",
                    "ssl_setup", "hostname", "net_connect", "handshake", "verify_result"}

Inputs ==
    CASE subject = "publish"   -> Publishes
      [] subject = "subscribe" -> Subscribes
      [] subject = "connect"   -> Connects
      [] subject = "construct" -> Constructs
      [] subject = "answer"    -> Answers
      [] subject = "length"    -> Lengths
      [] subject = "json"      -> Documents
      [] subject = "number"    -> -128..255
      [] subject = "report"    -> Reported
      [] subject = "files"     -> FileLists
      [] subject = "escape"    -> Strings({"x", "\"", "\\"}, 0..5)
      [] subject = "base64"    -> Strings(Bytes, 1..5)
      [] subject = "http"      -> Responses
      [] subject = "chunks"    -> Chunks
      [] subject = "request"   -> Requests
      [] subject = "file"      -> Files
      [] subject = "transfer"  -> Strings(Turns, 1..3)
      [] subject = "address"   -> Addresses
      [] subject = "tls"       -> {fails \in Failures : Cardinality(fails) <= 2}
      [] OTHER -> {}

Subjects == {"publish", "subscribe", "connect", "construct", "answer", "length", "topic", "json", "number", "report", "files", "escape",
             "base64", "http", "chunks", "request", "file", "transfer", "address", "tls", "digest", "list"}

-------------------------------------------------------------------------------
MCInit ==
    /\ subject \in Subjects
    /\ input = <<>>
    /\ Digest!Init
    /\ List!Init
    /\ Topic!Init

Try == input = <<>> /\ input' \in {<<i>> : i \in Inputs} /\ UNCHANGED <<subject, digestVars, linkedVars, topicVars>>

MCNext ==
    \/ Try
    \/ subject = "digest" /\ Digest!Next /\ UNCHANGED <<subject, input, linkedVars, topicVars>>
    \/ subject = "list" /\ List!Next /\ UNCHANGED <<subject, input, digestVars, topicVars>>
    \/ subject = "topic" /\ Topic!Next /\ UNCHANGED <<subject, input, digestVars, linkedVars>>

MCSpec == MCInit /\ [][MCNext]_<<subject, input, digestVars, linkedVars, topicVars>>

-------------------------------------------------------------------------------
(* Properties, each of the subject that has been taken. *)

Tried(name) == subject = name /\ input # <<>>
Given       == input[1]

\* Serializers and deserializers of mqtt_packet against a reader and a writer of MQTT; and
\* the CONNECT of any device against the device.
PacketsArrive ==
    /\ Tried("publish") =>
           \A stale \in {<<>>, <<0>>, <<255, 255>>} :
               Packet!PublishReadBack(Given.size, Given.flags, Given.id, Given.topic, Given.payload, stale)
    /\ Tried("subscribe") => Packet!FiltersArrive(Given.size, Given.id, Given.filters, Given.qos)
    /\ Tried("connect") => Packet!ConnectArrives(Given.size, Given.options)
    /\ Tried("construct") =>
           Packet!DeviceConnects(Given.mode, Given.params, [product_id |-> <<80>>, device_name |-> <<>>, device_secret |-> <<>>],
                                 Given.device, Given.random, Long(40), Given.fails)
    /\ Tried("answer") =>
           \A signed \in BOOLEAN :
               Packet!AnswersRead(Given.id, Given.present, Given.code, Given.codes, <<255, 255, 255, 255>>, signed)
    /\ Tried("length") => Packet!LengthReadBack(Given)

\* utils_json_value_get finds the values of the documents it is made for, and no other, those
\* of the SDK's own reports included; numbers come out of their texts, and
\* utils_json_strip_transfer undoes what escaping did.  It is not made for every well-formed
\* document: not for a string that ends in a backslash, for brackets or braces in the strings
\* of a nested array or object, for quotes or backslashes in keys, nor for tabs and newlines.
JsonFindsTheValue ==
    /\ Tried("json") => \A gap \in {<<>>, <<" ">>}, behind \in Behind, path \in Paths :
                            Json!FindsTheValue(Given, gap, behind, path)
    /\ Tried("number") => Json!NumberIsRead(Given, 8)
    /\ Tried("report") => Json!ReportsAreRead(Given.buf_len, Given.type, Given.version)
    /\ Tried("files") => Json!FileListIsRead(Given.buf_len, Given.files)
    /\ Tried("escape") => Json!StripsEscapes(Given)

\* utils_base64decode undoes utils_base64encode.
Base64RoundTrip ==
    Tried("base64") => \A break \in {<<>>, <<Base64!Newline>>, <<Base64!Space, Base64!Return, Base64!Newline>>} :
                           Base64!RoundTrip(Given, break)

\* An HTTP request is sent as it was asked for, and the content of its response arrives,
\* whatever the pieces it comes in and the buffers it is received into.
HttpBodyArrives ==
    /\ Tried("http") => Http!BodyArrives(Given.status, Given.body, Given.size, 5, Given.arrivals)
    /\ Tried("chunks") => \A size \in 1..50 : Http!ChunksArrive(Given, size)
    /\ Tried("file") /\ Given.offset <= Given.size =>
           Http!FileArrives([url |-> <<"http", "://", "h", "/", "f">>, file_size |-> Given.size, offset |-> Given.offset,
                             is_fragmentation |-> Given.is_fragmentation],
                            SubSeq(<<"x", "y", "z", "u", "v">>, 1, Given.size), Given.buf_len, Given.k)
    /\ Tried("request") =>
           LET request == [method |-> "GET", header |-> Given.header, content |-> Given.content, type |-> Given.type,
                           url |-> <<"http", "://">> \o Given.host \o Given.path
                                   \o (IF Given.path = <<>> THEN <<>> ELSE Given.fragment)]
           IN Http!RequestArrives(request, Given.host, IF Given.path = <<>> THEN <<"/">> ELSE Given.path, Given.fails)

\* The transports tell the truth: what they say was sent or received was, whatever the
\* operating system or mbedtls answers, and a connection is one open socket.
TransportTells ==
    /\ Tried("transfer") =>
           \A type \in {"TCP", "TLS"}, len \in 1..3 :
               /\ Net!WritesTell(type, Given, len)
               /\ Net!TlsWritesTell(Given, len)
               /\ \A next \in Strings(Turns, 1..2) : Net!ReadsTell(type, <<Given, next>>, len) /\ Net!TlsReadsTell(<<Given, next>>, len)
    /\ Tried("address") => \A next \in Strings({"refused", "at_once"}, 0..2), shutdown \in BOOLEAN :
                               Net!ConnectsTell(<<Given, next>>, shutdown)
    /\ Tried("tls") => \A mode \in {"key", "cert"} : Net!TlsTells(mode, Given)
===============================================================================
