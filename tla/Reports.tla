------------------------------- MODULE Reports -------------------------------
(***************************************************************************)
(* The reports the OTA service and the file management publish: each is    *)
(* printed into a buffer of the application, and as many bytes are         *)
(* published as it would have taken.  A name, a version or a number        *)
(* without a delimiter of JSON in it is one character here.                *)
(***************************************************************************)
EXTENDS UtilsJson

CONSTANT Unknown                             \* a byte of the buffer the report did not write

\* HAL_Snprintf leaves room for the NUL, and returns the length of the whole text.
Printed(room, s) == SubSeq(s, 1, IF Len(s) < room THEN Len(s) ELSE IF room = 0 THEN 0 ELSE room - 1)

\* _ota_mqtt_publish and service_mqtt_publish send len bytes of the buffer.
Published(bytes, len) == [i \in 1..len |-> IF i <= Len(bytes) THEN bytes[i] ELSE Unknown]
Publish(buf_len, s)   == Published(Printed(buf_len, s), Len(s))

QuotedText(w)    == IF w = "" THEN <<>> ELSE <<w>>
Key(k)     == <<Quote, k, Quote, ":">>
Pair(k, v) == Key(k) \o <<Quote>> \o QuotedText(v) \o <<Quote>>
In(parts)  == Joined("{", parts, "}", <<>>)
Only(condition, part) == IF condition THEN <<part>> ELSE <<>>

-------------------------------------------------------------------------------
(* ota_mqtt.c, with the types of IotOTAReportType from 0. *)

OtaTypes   == 0..7
ota_state  == <<"downloading", "burning", "done", "fail", "fail", "fail", "fail", "fail">>
OtaCode    == <<"0", "0", "0", "-1", "-2", "-3", "-4", "-5">>
OtaMessage == <<"", "", "", "timeout", "file not exit", "auth fail", "md5 not match", "upgrade fail">>

Percent(type, progress) == Only(type = 0, Pair("percent", progress))

OTA_ReportProgress(type, progress, version) ==
    LET told == In(<<Pair("state", ota_state[type + 1])>> \o Percent(type, progress)
                   \o <<Pair("result_code", OtaCode[type + 1]), Pair("result_msg", OtaMessage[type + 1])>>)
    IN  In(<<Pair("type", "report_progress"),
             Key("report") \o In(<<Key("progress") \o told, Pair("version", version)>>)>>)

OTA_ReportVersion(version) ==
    In(<<Pair("type", "report_version"), Key("report") \o In(<<Pair("version", version)>>)>>)

-------------------------------------------------------------------------------
(* file_manage.c, with the types of IotFileManageReportType from 0. *)

FileTypes    == 0..12
state_string == ota_state \o <<"fail", "done", "fail", "done", "fail">>
result_code  == OtaCode \o <<"-6", "0", "-7", "0", "-8">>
result_msg   == OtaMessage \o <<"space not enough", "", "del fail", "", "post fail">>

Method(type) ==
    CASE type = 0       -> "report_progress"
      [] type \in 1..8  -> "report_result"
      [] type \in 9..10 -> "del_result"
      [] OTHER          -> "report_post_result"
Named(type)     == IF type >= 11 THEN "resource_token" ELSE "resource_name"
Gap(type, part) == (IF type >= 9 THEN <<" ">> ELSE <<>>) \o part

FileManage_Report(type, progress, file_name_or_token, version) ==
    LET told == In(<<Pair(Named(type), file_name_or_token), Pair("state", state_string[type + 1])>>
                   \o Percent(type, progress)
                   \o <<Pair("result_code", result_code[type + 1]), Gap(type, Pair("result_msg", result_msg[type + 1]))>>)
    IN  In(<<Pair("method", Method(type)),
             Key("report") \o In(<<Key("progress") \o told>> \o Only(type < 11, Gap(type, Pair("version", version))))>>)

\* sg_file_manage_file_type_str; a type that is not there is -1.
file_type_str  == <<"FILE", "AUDIO", "VOICE", "VIDEO">>
Unkown         == -1
GetFileType(s) == IF \E i \in 0..3 : file_type_str[i + 1] = s
                  THEN CHOOSE i \in 0..3 : file_type_str[i + 1] = s ELSE Unkown

Resource(file) ==
    In(<<Pair("resource_name", file.name), Pair("version", file.version), Pair("resource_type", file_type_str[file.type + 1])>>)

PostRequest(file, request_id) ==
    In(<<Pair("method", "request_url"), Pair("request_id", request_id), Key("report") \o Resource(file)>>)

\* IOT_FileManage_ReportFileList prints entry by entry, each with a comma, and takes the last
\* comma back.  To vsnprintf a room below 0 is a huge one: it writes behind the buffer.
PrintedAt(buf_len, b, s) ==
    LET room == buf_len - b.len IN
    [bytes   |-> Published(b.bytes, b.len) \o (IF room < 0 THEN s ELSE Printed(room, s)),
     len     |-> b.len + Len(s),
     overrun |-> b.overrun \/ room < 0]
CommaBack(b) == IF At(b.bytes, b.len) = "[" THEN b
                ELSE [b EXCEPT !.len = b.len - 1, !.bytes = Published(b.bytes, b.len - 1)]
ListBegin    == <<"{">> \o Pair("method", "report_version") \o <<",">> \o Key("report") \o <<"{">> \o Key("resource_list") \o <<"[">>
Listed(files) == SelectSeq(files, LAMBDA f : f.type # Unkown /\ f.name # "")

ReportFileList(buf_len, files) ==
    LET entries == Listed(files)
        After[i \in 0..Len(entries)] ==
            IF i = 0 THEN PrintedAt(buf_len, [bytes |-> <<>>, len |-> 0, overrun |-> FALSE], ListBegin)
            ELSE PrintedAt(buf_len, After[i - 1], Resource(entries[i]) \o <<",">>)
        b == PrintedAt(buf_len, CommaBack(After[Len(entries)]), <<"]", "}", "}">>)
    IN  [b EXCEPT !.bytes = Published(b.bytes, b.len)]

-------------------------------------------------------------------------------
(* Properties. *)

Says(s, path, text) == ValueGet(s, Len(s), [i \in DOMAIN path |-> <<path[i]>>]) = [ok |-> TRUE, text |-> text]

\* Whatever is reported, the cloud finds it in the text, if the buffer has room for it: a
\* failure with its state, its code and its message, and the file or the version it is of.
Tells(s, state, code, message) ==
    /\ Says(s, <<"report", "progress", "state">>, QuotedText(state))
    /\ Says(s, <<"report", "progress", "result_code">>, QuotedText(code))
    /\ Says(s, <<"report", "progress", "result_msg">>, QuotedText(message))
    /\ state = "fail" <=> code # "0"
    /\ state = "fail" <=> message # ""

ReportsAreRead(buf_len, type, version) ==
    /\ LET s == OTA_ReportProgress(type, "7", version)  p == Publish(buf_len, s) IN
       type \in OtaTypes /\ Len(s) < buf_len =>
           /\ Tells(p, ota_state[type + 1], OtaCode[type + 1], OtaMessage[type + 1])
           /\ Says(p, <<"report", "version">>, QuotedText(version))
           /\ Says(p, <<"report", "progress", "percent">>, <<"7">>) <=> type = 0
    /\ LET s == OTA_ReportVersion(version) IN
       Len(s) < buf_len => Says(Publish(buf_len, s), <<"report", "version">>, QuotedText(version))
    /\ LET s == FileManage_Report(type, "7", "name", version)  p == Publish(buf_len, s) IN
       type \in FileTypes /\ Len(s) < buf_len =>
           /\ Tells(p, state_string[type + 1], result_code[type + 1], result_msg[type + 1])
           /\ Says(p, <<"report", "progress", Named(type)>>, <<"name">>)
           /\ Says(p, <<"report", "version">>, QuotedText(version)) <=> type < 11

\* A list that fits stays in its buffer and names each file that is there once and in its
\* order; a request for an upload names the type GetFileType knows.
FileListIsRead(buf_len, files) ==
    LET list == ReportFileList(buf_len, files)
        text == [i \in DOMAIN Listed(files) |-> Resource(Listed(files)[i])]
    IN  /\ list.len < buf_len =>
               ~list.overrun /\ Says(list.bytes, <<"report", "resource_list">>, Joined("[", text, "]", <<>>))
        /\ \A i \in DOMAIN files : files[i].type # Unkown =>
               LET s == PostRequest(files[i], "9") IN
               Len(s) < buf_len =>
                   \E w \in ToSet(file_type_str) : /\ Says(Publish(buf_len, s), <<"report", "resource_type">>, <<w>>)
                                                   /\ GetFileType(w) = files[i].type
===============================================================================
