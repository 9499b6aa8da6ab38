------------------------------ MODULE OtaDownload ------------------------------
(* The firmware download of the OTA application (app/ota): the loop of           *)
(* utils_downloader_process with the callbacks of ota_downloader.c, the two      *)
(* files of ota_firmware_save.c, and the HTTP download under them                *)
(* (cos_download.c, http_client.c).                                              *)
(*                                                                               *)
(* A firmware is a row of blocks; block i of firmware f holds <<f, i>>.  What is  *)
(* on disk survives a crash, everything else is lost with the process.           *)
(*                                                                               *)
(* The program has one thread: announcements arrive while it waits for MQTT, that *)
(* is before ota_downloader_init has been called ("starting") and between two     *)
(* calls of ota_downloader_process ("idle").                                      *)
EXTENDS Integers, Sequences

CONSTANTS
    Firmwares,        \* the firmwares the service announces
    Size,             \* [Firmwares -> number of blocks]
    BufSize,          \* OTA_HTTP_BUF_SIZE, in blocks
    Fragmentation,    \* the values is_fragmentation may have: ota_downloader.c passes FALSE
    Mishaps,          \* what may go wrong
    MaxResponses,     \* bound: responses under way at once
    None, Blank       \* no firmware; the content of a block that was never written

AllMishaps ==
    {"net",           \* connecting, sending or receiving fails
     "status",        \* the service answers with an error status
     "silent",        \* nothing arrives after the header within the timeout
     "open",          \* a file cannot be opened
     "full"}          \* fwrite stores less than it was given

ASSUME DownloadAssumption ==
    /\ Size \in [Firmwares -> Nat \ {0}]
    /\ BufSize \in Nat \ {0}
    /\ Fragmentation \subseteq BOOLEAN
    /\ Mishaps \subseteq AllMishaps
    /\ MaxResponses \in Nat \ {0}
    /\ None \notin Firmwares
    /\ Blank \notin Firmwares \X (Nat \ {0})

VARIABLES
    break_point_file, \* ./break_point.dat
    firmware_file,    \* ./app_ota_fw.bin
    status,           \* handle->status
    download_now,     \* handle->download_now
    break_point,      \* handle->break_point
    download_md5,     \* handle->download_md5_ctx: the blocks digested since the reset
    download_buff,    \* handle->download_buff, its first download_size bytes
    cos,              \* HTTPCosDownloadHandle
    responses,        \* HTTP responses not received to their end, in order
    pc,               \* where the program is
    report,           \* the result reported last
    seen              \* history: the mishaps of the latest ota_downloader_process

disk   == <<break_point_file, firmware_file>>
memory == <<status, download_now, break_point, download_md5, download_buff, cos, responses>>
vars   == <<disk, memory, pc, report, seen>>

-------------------------------------------------------------------------------
(* The data.                                                                      *)

Content(f) == [i \in 1 .. Size[f] |-> <<f, i>>]

Data == Firmwares \X (Nat \ {0}) \cup {Blank}

\* What a read of the firmware file gives; behind its end nothing is read, and the
\* buffer keeps what it held.
Stored(i) == IF i \in DOMAIN firmware_file THEN firmware_file[i] ELSE Blank

NoBreakPoint == [file_id |-> None, downloaded_size |-> 0]

NoDownload == [position |-> 0, is_fragmentation |-> FALSE, need |-> 0]

FileSize == Size[download_now]

\* _ota_break_point_check
IsBreakPointOf(bp, f) == bp.file_id = f /\ bp.downloaded_size <= Size[f]

\* _ota_data_download_is_over, and IOT_COS_DownloadIsFinished: position and
\* downloaded_size are equal whenever they are compared with the size.
IsOver == break_point.downloaded_size = FileSize

-------------------------------------------------------------------------------
(* IOT_COS_DownloadFetch.                                                         *)

\* When a request is sent first.
Requests == cos.position = 0 \/ (cos.is_fragmentation /\ cos.need = 0)

min_http(x, y) == IF x < y THEN x ELSE y

\* _cos_download_request, and the service that answers it: a range that begins
\* behind the end is answered by an error, a response without blocks.
Answer ==
    [at     |-> cos.position,
     length |-> IF cos.position >= FileSize THEN 0
                ELSE IF cos.is_fragmentation
                THEN min_http(BufSize, FileSize - cos.position)
                ELSE FileSize]

Queue == IF Requests THEN Append(responses, Answer) ELSE responses

\* What is left of the response being received, its header read or not:
\* need_recv_len is zero between two responses.
Left == CASE cos.need > 0 -> cos.need
          [] cos.need = 0 /\ Queue # << >> -> Head(Queue).length
          [] OTHER -> 0

Received(n) ==
    LET first == Head(Queue).at + Head(Queue).length - Left
    IN  [i \in 1 .. n |-> <<download_now, first + i>>]

-------------------------------------------------------------------------------
Init ==
    /\ break_point_file = NoBreakPoint
    /\ firmware_file = << >>
    /\ status = "no_initted"
    /\ download_now = None
    /\ break_point = NoBreakPoint
    /\ download_md5 = << >>
    /\ download_buff = << >>
    /\ cos = NoDownload
    /\ responses = << >>
    /\ pc = "starting"
    /\ report = "none"
    /\ seen = {}

\* ota_downloader_init, after IOT_OTA_Init has subscribed and waited for the answer.
Start ==
    /\ pc = "starting"
    /\ pc' = "idle"
    /\ status' = "initted"
    /\ UNCHANGED <<disk, download_now, break_point, download_md5, download_buff, cos,
                   responses, report, seen>>

\* _update_firmware_callback: ota_downloader_info_set.  A download that is announced
\* or under way is not disturbed.
Announce(f) ==
    /\ pc \in {"starting", "idle"}
    /\ status # "downloading"
    /\ status' = "downloading"
    /\ download_now' = f
    /\ report' = "none"
    /\ UNCHANGED <<disk, break_point, download_md5, download_buff, cos, responses, pc, seen>>

\* The process ends, at any place, and is started again.
Crash ==
    /\ pc' = "starting"
    /\ status' = "no_initted"
    /\ download_now' = None
    /\ break_point' = NoBreakPoint
    /\ download_md5' = << >>
    /\ download_buff' = << >>
    /\ cos' = NoDownload
    /\ responses' = << >>
    /\ report' = "none"
    /\ seen' = {}
    /\ UNCHANGED disk

-------------------------------------------------------------------------------
(* _ota_data_download_finish and the deinit callbacks: the result is reported,    *)
(* the downloader is free for the next announcement.                              *)

Finish_Busy(result) ==
    /\ pc' = "idle"
    /\ report' = result
    /\ break_point' = NoBreakPoint
    /\ cos' = NoDownload
    /\ responses' = << >>
    /\ UNCHANGED <<firmware_file, status, download_now>>

Finish(result) ==
    /\ pc' = "idle"
    /\ status' = "finished"
    /\ report' = result
    /\ break_point' = NoBreakPoint
    /\ cos' = NoDownload
    /\ responses' = << >>
    /\ UNCHANGED <<firmware_file, download_now>>

\* The results of the statuses other than SUCCESS.
Fail(result) == Finish(result) /\ UNCHANGED <<break_point_file, download_md5, download_buff>>

FailBy(mishap, result) ==
    /\ mishap \in Mishaps
    /\ seen' = seen \cup {mishap}
    /\ Fail(result)

Valid == download_md5 = Content(download_now)

Succeed ==
    /\ pc = "fetch"
    /\ IsOver
    /\ Valid
    /\ Finish("success")
    /\ UNCHANGED <<break_point_file, download_md5, download_buff, seen>>

\* The break point is cleared on disk too, unless its file cannot be opened.
Mismatch ==
    /\ pc = "fetch"
    /\ IsOver
    /\ ~Valid
    /\ \/ break_point_file' = NoBreakPoint /\ UNCHANGED seen
       \/ /\ "open" \in Mishaps
          /\ seen' = seen \cup {"open"}
          /\ UNCHANGED break_point_file
    /\ Finish("md5_not_match")
    /\ UNCHANGED <<download_md5, download_buff>>

-------------------------------------------------------------------------------
(* utils_downloader_process.                                                      *)

\* break_point_init: the digest is reset and the break point read.
Begin_SameDigest ==
    /\ pc = "idle"
    /\ status = "downloading"
    /\ pc' = "check"
    /\ break_point' = break_point_file
    /\ seen' = {}
    /\ UNCHANGED <<disk, status, download_now, download_md5, download_buff, cos, responses,
                   report>>

Begin ==
    /\ pc = "idle"
    /\ status = "downloading"
    /\ pc' = "check"
    /\ download_md5' = << >>
    /\ break_point' = break_point_file
    /\ seen' = {}
    /\ UNCHANGED <<disk, status, download_now, download_buff, cos, responses, report>>

BeginFails ==
    /\ pc = "idle"
    /\ status = "downloading"
    /\ "open" \in Mishaps
    /\ seen' = {"open"}
    /\ download_md5' = << >>
    /\ Finish("upgrade_fail")
    /\ UNCHANGED <<break_point_file, download_buff>>

\* break_point_check, then break_point_set.
SetBreakPoint ==
    /\ pc = "check"
    /\ ~IsBreakPointOf(break_point, download_now)
    /\ pc' = "connect"
    /\ break_point' = [file_id |-> download_now, downloaded_size |-> 0]
    /\ UNCHANGED <<disk, status, download_now, download_md5, download_buff, cos, responses,
                   report, seen>>

\* break_point_check, then break_point_restore: the digest of the blocks on disk.
Restore ==
    /\ pc = "check"
    /\ IsBreakPointOf(break_point, download_now)
    /\ pc' = "connect"
    /\ download_md5' =
         download_md5 \o [i \in 1 .. break_point.downloaded_size |-> Stored(i)]
    /\ UNCHANGED <<disk, status, download_now, break_point, download_buff, cos, responses,
                   report, seen>>

\* The firmware file cannot be opened after n reads.
RestoreFails(n) ==
    /\ pc = "check"
    /\ IsBreakPointOf(break_point, download_now)
    /\ n * BufSize < break_point.downloaded_size
    /\ "open" \in Mishaps
    /\ seen' = seen \cup {"open"}
    /\ pc' = "connect"
    /\ download_md5' = download_md5 \o [i \in 1 .. n * BufSize |-> Stored(i)]
    /\ break_point' = [break_point EXCEPT !.downloaded_size = 0]
    /\ UNCHANGED <<disk, status, download_now, download_buff, cos, responses, report>>

\* data_download_init: IOT_COS_DownloadInit.
Connect(fragmented) ==
    /\ pc = "connect"
    /\ pc' = "fetch"
    /\ cos' = [position |-> break_point.downloaded_size, is_fragmentation |-> fragmented,
               need |-> 0]
    /\ UNCHANGED <<disk, status, download_now, break_point, download_md5, download_buff,
                   responses, report, seen>>

ConnectFails == pc = "connect" /\ FailBy("net", "upgrade_fail")

\* data_download_recv: n blocks arrive.
Fetch(n) ==
    /\ pc = "fetch"
    /\ ~IsOver
    /\ n <= Left
    /\ pc' = "save"
    /\ download_buff' = Received(n)
    /\ cos' = [cos EXCEPT !.position = @ + n, !.need = Left - n]
    /\ responses' = IF n = Left THEN Tail(Queue) ELSE Queue
    /\ UNCHANGED <<disk, status, download_now, break_point, download_md5, report, seen>>

\* data_download_recv: the header has arrived and then nothing.
FetchNothing ==
    /\ pc = "fetch"
    /\ ~IsOver
    /\ "silent" \in Mishaps
    /\ Left > 0
    /\ Len(Queue) < MaxResponses
    /\ seen' = seen \cup {"silent"}
    /\ pc' = "save"
    /\ download_buff' = << >>
    /\ cos' = [cos EXCEPT !.need = Left]
    /\ responses' = Queue
    /\ UNCHANGED <<disk, status, download_now, break_point, download_md5, report>>

\* data_download_recv: an error, or no header within the timeout.
FetchFails ==
    /\ pc = "fetch"
    /\ ~IsOver
    /\ FailBy("net", "download_timeout")

FetchRefused ==
    /\ pc = "fetch"
    /\ ~IsOver
    /\ cos.need = 0
    /\ Queue # << >>
    /\ FailBy("status", "download_timeout")

\* The service refuses the range, or nothing was requested and nothing answers.
FetchUnanswered ==
    /\ pc = "fetch"
    /\ ~IsOver
    /\ Left = 0
    /\ Fail("download_timeout")
    /\ UNCHANGED seen

\* data_download_save: ota_firmware_write.  Of the blocks in the buffer the first n
\* are stored; fewer than all goes unnoticed.
WrittenAt(offset, n) ==
    [i \in 1 .. (IF n > 0 /\ offset + n > Len(firmware_file)
                 THEN offset + n ELSE Len(firmware_file)) |->
        IF i \in offset + 1 .. offset + n THEN download_buff[i - offset] ELSE Stored(i)]

Written_AtStart(n) == WrittenAt(0, n)
Written(n) == WrittenAt(break_point.downloaded_size, n)

SaveData(n) ==
    /\ pc = "save"
    /\ n <= Len(download_buff)
    /\ n < Len(download_buff) => "full" \in Mishaps
    /\ seen' = IF n < Len(download_buff) THEN seen \cup {"full"} ELSE seen
    /\ pc' = "truncate"
    /\ firmware_file' = Written(n)
    /\ UNCHANGED <<break_point_file, memory, report>>

SaveDataFails ==
    /\ pc = "save"
    /\ download_buff # << >>
    /\ FailBy("open", "upgrade_fail")

\* break_point_save: size, digest and progress, then ota_break_point_write, which
\* empties the file (TruncateBreakPoint) and fills it (WriteBreakPoint).  A record
\* that is empty is read as zeros.
TruncateBreakPoint ==
    /\ pc = "truncate"
    /\ pc' = "write"
    /\ break_point' = [break_point EXCEPT !.downloaded_size = @ + Len(download_buff)]
    /\ download_md5' = download_md5 \o download_buff
    /\ break_point_file' = NoBreakPoint
    /\ UNCHANGED <<firmware_file, status, download_now, download_buff, cos, responses,
                   report, seen>>

WriteBreakPoint ==
    /\ pc = "write"
    /\ pc' = "fetch"
    /\ break_point_file' = break_point
    /\ UNCHANGED <<firmware_file, memory, report, seen>>

WriteBreakPointLost ==
    /\ pc = "write"
    /\ "full" \in Mishaps
    /\ seen' = seen \cup {"full"}
    /\ pc' = "fetch"
    /\ UNCHANGED <<disk, memory, report>>

SaveBreakPointFails ==
    /\ pc = "truncate"
    /\ "open" \in Mishaps
    /\ seen' = seen \cup {"open"}
    /\ download_md5' = download_md5 \o download_buff
    /\ Finish("upgrade_fail")
    /\ UNCHANGED <<break_point_file, download_buff>>

-------------------------------------------------------------------------------
FetchSome == \E n \in 1 .. BufSize : Fetch(n)

Restoring == Restore \/ \E n \in 0 .. break_point.downloaded_size : RestoreFails(n)

Connecting == (\E fragmented \in Fragmentation : Connect(fragmented)) \/ ConnectFails

Fetching == FetchSome \/ FetchNothing \/ FetchFails \/ FetchRefused \/ FetchUnanswered

Saving == (\E n \in 0 .. BufSize : SaveData(n)) \/ SaveDataFails

SavingBreakPoint ==
    TruncateBreakPoint \/ WriteBreakPoint \/ WriteBreakPointLost \/ SaveBreakPointFails

Process ==
    \/ Begin \/ BeginFails \/ SetBreakPoint \/ Restoring \/ Connecting
    \/ Fetching \/ Saving \/ SavingBreakPoint \/ Succeed \/ Mismatch

Next ==
    \/ Start
    \/ \E f \in Firmwares : Announce(f)
    \/ Process
    \/ Crash

Spec == Init /\ [][Next]_vars

\* The program goes on while it runs, and a service that is asked for data again and
\* again delivers some.
FairSpec == Spec /\ WF_vars(Start) /\ WF_vars(Process) /\ SF_vars(FetchSome)

-------------------------------------------------------------------------------
(* Properties.                                                                    *)

TypeOK ==
    /\ break_point_file \in [file_id : Firmwares \cup {None}, downloaded_size : Nat]
    /\ firmware_file \in Seq(Data)
    /\ status \in {"no_initted", "initted", "downloading", "finished"}
    /\ download_now \in Firmwares \cup {None}
    /\ break_point \in [file_id : Firmwares \cup {None}, downloaded_size : Nat]
    /\ download_md5 \in Seq(Data)
    /\ download_buff \in Seq(Data) /\ Len(download_buff) <= BufSize
    /\ cos \in [position : Nat, is_fragmentation : BOOLEAN, need : Nat]
    /\ responses \in Seq([at : Nat, length : Nat]) /\ Len(responses) <= MaxResponses
    /\ pc \in {"starting", "idle", "check", "connect", "fetch", "save", "truncate", "write"}
    /\ report \in {"none", "success", "md5_not_match", "download_timeout", "upgrade_fail"}
    /\ seen \subseteq Mishaps

StoredWhenReported ==
    report = "success" /\ "full" \notin seen =>
        \A i \in 1 .. FileSize : Stored(i) = <<download_now, i>>

\* What is reported as downloaded lies on disk, block for block, whatever crashes,
\* rollbacks to another firmware, short reads and doubled answers came before: unless
\* the disk was full in this very download, which ota_firmware_write does not notice.
\* (The types of the variables are part of it.)
SuccessIsAnnouncedFile == TypeOK /\ StoredWhenReported

\* A file whose digest is reported as wrong is wrong: a download that is resumed,
\* after a crash or another firmware, digests each block once and in order.
MismatchIsReal ==
    report = "md5_not_match" /\ seen \cap {"open", "full"} = {} =>
        \E i \in 1 .. FileSize : Stored(i) # <<download_now, i>>

\* An announcement the downloader has taken is answered by a result, or the program
\* has been started again.
AnnouncementIsAnswered ==
    pc = "idle" /\ status = "downloading" ~> status = "finished" \/ pc = "starting"
===============================================================================
