------------------------------ MODULE CosDownload ------------------------------
(***************************************************************************)
(* The COS download (services/common/cos) over the HTTP client: a file is  *)
(* fetched with one request, or in fragments that fit the caller's buffer. *)
(***************************************************************************)
EXTENDS HttpClient

\* IOT_HTTP_Connect and IOT_COS_DownloadInit: a handle, or none when the connection fails.
\* The allocations succeed.  When that of the client fails, the exit path passes to
\* HAL_Free a request header that was never set: what a program does then is not modelled.
IOT_HTTP_Connect(url, connects) == IF ParseUrl(url).rc # 0 \/ ~connects THEN Refused ELSE 0

NoHandle == <<>>
IOT_COS_DownloadInit(params, connects) ==
    IF IOT_HTTP_Connect(params.url, connects) # 0 THEN NoHandle
    ELSE <<[params |-> params, client |-> Client(<<>>, <<>>), download_size |-> params.offset]>>

IOT_COS_DownloadIsFinished(h) == h.download_size = h.params.file_size

\* _cos_download_request_header_construct
RequestHeader(is_fragmentation, begin_byte, end_byte) ==
    <<"Accept">> \o CRLF \o <<"Range", ToString(begin_byte), ToString(end_byte)>> \o CRLF
    \o (IF is_fragmentation THEN <<"Connection:keep-alive">> \o CRLF ELSE <<>>)

\* _cos_download_request: what is asked for.
EndByte(h, max_len) ==
    IF h.params.is_fragmentation THEN h.download_size + Min({max_len, h.params.file_size - h.download_size}) - 1
    ELSE h.params.file_size - 1

CosRequest(h, max_len) ==
    Request([method |-> "GET", url |-> h.params.url, content |-> <<>>, type |-> <<>>,
             header |-> RequestHeader(h.params.is_fragmentation, h.download_size, EndByte(h, max_len))], {})

\* COS answers with the bytes asked for, of which the first read finds k.
Answered(client, content, sent, k) ==
    LET at   == Find(<<"Range">>, sent)
        body == SubSeq(content, Number(<<sent[at + 1]>>) + 1, Number(<<sent[at + 2]>>) + 1)
        text == <<"200", "Content-Length", ToString(Len(body))>> \o CRLF \o CRLF \o body
    IN
    [client EXCEPT !.text = @ \o text, !.arrivals = <<client.taken + k>>, !.reads = 0]

\* _cos_download_recv_data
RecvData(h, buf_len, turns) ==
    LET Taken(r, n) == [handle |-> [h EXCEPT !.client = r.client, !.download_size = @ + n],
                        data   |-> SubSeq(r.buf, 1, n),
                        rc     |-> r.rc]
        Then(r) == Taken(r, Max({r.rc, 0}))
    IN  Then(IOT_HTTP_Recv(h.client, buf_len, turns))

\* Is a request sent before data is received?
RequestsFirst(h) ==
    \/ h.download_size = 0
    \/ h.params.is_fragmentation /\ IOT_HTTP_IsRecvFinished(h.client)

IOT_COS_DownloadFetch(h, content, buf_len, k, turns) ==
    IF IOT_COS_DownloadIsFinished(h) THEN [handle |-> h, data |-> <<>>, rc |-> 0]
    ELSE IF ~RequestsFirst(h) THEN RecvData(h, buf_len, turns)
    ELSE RecvData([h EXCEPT !.client = Answered(@, content, CosRequest(h, buf_len).sent, k)], buf_len, turns)

-------------------------------------------------------------------------------
\* The caller's loop, until the download is finished or a fetch fails.
RECURSIVE Fetched(_, _, _, _, _)
Fetched(h, content, buf_len, k, data) ==
    LET Then(r) == IF r.rc <= 0 THEN <<"failed">> ELSE Fetched(r.handle, content, buf_len, k, data \o r.data)
    IN  IF IOT_COS_DownloadIsFinished(h) THEN data
        ELSE Then(IOT_COS_DownloadFetch(h, content, buf_len, k, 5))

\* A file is fetched from the offset to its end, once and in order, whatever the fragments
\* the buffer makes of it, when the header fits the buffer and an answer brings some data.
\* Without fragments only offset 0 is a download that asks for anything.
FileArrives(params, content, buf_len, k) ==
    LET h == IOT_COS_DownloadInit(params, TRUE) IN
    h # NoHandle /\ (params.is_fragmentation \/ params.offset = 0) =>
        Fetched(h[1], content, buf_len, k, <<>>) = From(content, params.offset + 1)
===============================================================================
