------------------------------ MODULE HttpClient ------------------------------
(***************************************************************************)
(* The HTTP client (services/common/http_client): how an URL is taken      *)
(* apart, how a request is sent, and how a response is received that comes *)
(* in pieces, into buffers that may be shorter than it.                    *)
(*                                                                         *)
(* A text is a sequence of symbols: "CR" and "LF", the bytes of a body,    *)
(* and what the client looks for in a header as one symbol each.           *)
(***************************************************************************)
EXTENDS Integers, Sequences, SequencesExt, FiniteSetsExt

CRLF == <<"CR", "LF">>

\* Codes of this module: bytes received are >= 0.
Closed == -1    \* a failure of the network
TimedOut == -2  \* QCLOUD_ERR_HTTP_TIMEOUT
Refused == -3   \* QCLOUD_ERR_HTTP, _AUTH, _NOT_FOUND, _PARSE

\* strstr: where the pattern begins, or 0.
Find(pattern, text) ==
    LET at == {i \in 1..Len(text) - Len(pattern) + 1 : SubSeq(text, i, i + Len(pattern) - 1) = pattern} IN
    IF at = {} THEN 0 ELSE CHOOSE i \in at : \A j \in at : i <= j

From(text, i) == SubSeq(text, i, Len(text))

-------------------------------------------------------------------------------
(* Requests. *)

\* _http_client_parse_url
ParseUrl(url) ==
    LET at    == Find(<<"://">>, url)
        host  == From(url, at + 1)
        slash == Find(<<"/">>, host)
        path  == From(host, slash)
        hash  == Find(<<"#">>, host)
    IN
    IF at = 0 THEN [rc |-> Refused, host |-> <<>>, path |-> <<>>]
    ELSE IF slash = 0 THEN [rc |-> 0, host |-> host, path |-> <<"/">>]
    ELSE [rc |-> 0, host |-> SubSeq(host, 1, slash - 1),
          path |-> IF hash < slash THEN path ELSE SubSeq(path, 1, hash - slash)]

\* _http_client_send_request: the pieces it sends, each of which may fail.
RequestPieces(request) ==
    LET url == ParseUrl(request.url) IN
    <<<<request.method>> \o url.path \o <<"HTTP/1.1">> \o CRLF \o <<"Host:">> \o url.host \o CRLF>>
    \o (IF request.header = <<>> THEN <<>> ELSE <<request.header>>)
    \o (IF request.content = <<>> THEN <<CRLF>>
        ELSE <<<<"Content-Length">>  \o <<ToString(Len(request.content))>> \o CRLF>>
             \o (IF request.type = <<>> THEN <<>> ELSE <<<<"Content-Type">> \o request.type \o CRLF>>)
             \o <<CRLF, request.content>>)

\* IOT_HTTP_Request: the first piece that fails ends it.
Request(request, fails) ==
    LET Sent(pieces, k) ==
            IF k = 0 THEN [rc |-> 0, sent |-> FlattenSeq(pieces)]
            ELSE [rc |-> Closed, sent |-> FlattenSeq(SubSeq(pieces, 1, k - 1))]
        Send(pieces) == Sent(pieces, SelectInSeq([k \in DOMAIN pieces |-> k], LAMBDA k : k \in fails))
    IN  IF ParseUrl(request.url).rc # 0 THEN [rc |-> ParseUrl(request.url).rc, sent |-> <<>>]
        ELSE Send(RequestPieces(request))

-------------------------------------------------------------------------------
(* Receiving.  A client has its response and the stream: the text the server sends, how  *)
(* much of it is there at each read, after which all is there and the server closes.     *)

Client(text, arrivals) ==
    [need_recv_len |-> 0, recv_len |-> 0, is_chunked |-> FALSE, text |-> text, arrivals |-> arrivals, taken |-> 0, reads |-> 0]

There(c) ==
    IF c.reads >= Len(c.arrivals) THEN Len(c.text) ELSE Min({c.arrivals[c.reads + 1], Len(c.text)})

\* _http_client_recv: no bytes at all until the timeout is no failure; a read of no bytes
\* takes data that is there for the end of the stream.
Recv(c, len) ==
    LET Read(there, n) ==
            [client |-> [c EXCEPT !.reads = @ + 1, !.taken = @ + n],
             data   |-> SubSeq(c.text, c.taken + 1, c.taken + n),
             rc     |-> IF n > 0 THEN n
                        ELSE IF there > c.taken \/ c.reads >= Len(c.arrivals) THEN Closed ELSE 0]
    IN  Read(There(c), Min({There(c) - c.taken, len}))

\* The end of the header, 0 while it is not there.
HeaderEnd(buf) == LET at == Find(CRLF \o CRLF, buf) IN IF at = 0 THEN 0 ELSE at + 3

\* The loop of _http_client_recv_response; turns is what is left of the timer.
RECURSIVE ReadHeader(_, _, _, _)
ReadHeader(c, buf, size, turns) ==
    LET Then(r) ==
            IF r.rc < 0 THEN [client |-> r.client, buf |-> buf, rc |-> r.rc]
            ELSE ReadHeader(r.client, buf \o r.data, size, turns - 1)
    IN  IF HeaderEnd(buf) # 0 THEN [client |-> c, buf |-> buf, rc |-> 0]
        ELSE IF turns = 0 THEN [client |-> c, buf |-> buf, rc |-> TimedOut]
        ELSE Then(Recv(c, size - Len(buf) - 1))

\* _http_client_content_length_recv, into buf behind what is there already.
ContentLengthRecv(c, buf, size) ==
    LET Then(r) ==
            IF r.rc <= 0 THEN [client |-> r.client, buf |-> buf, rc |-> IF buf # <<>> THEN Len(buf) ELSE r.rc]
            ELSE [client |-> [r.client EXCEPT !.need_recv_len = @ - r.rc, !.recv_len = @ + r.rc],
                  buf    |-> buf \o r.data,
                  rc     |-> Len(buf) + r.rc]
    IN  IF c.need_recv_len <= 0 THEN [client |-> c, buf |-> buf, rc |-> Len(buf)]
        ELSE Then(Recv(c, Min({c.need_recv_len, size - Len(buf)})))

Digit == [d \in {"0", "1", "2", "3", "4", "5"} |-> CHOOSE n \in 0..5 : ToString(n) = d]
Number(text) == IF text # <<>> /\ text[1] \in DOMAIN Digit THEN Digit[text[1]] ELSE 0

\* memmove of the n bytes at from: what is behind them stays, and is found again.
Moved(buf, to, from, n) ==
    [i \in DOMAIN buf |-> IF i \in to..to + n - 1 THEN buf[from + i - to] ELSE buf[i]]

\* _http_client_chunked_recv: buf is the whole buffer, of which recv_len bytes count;
\* find_from is counted from 1; read_size is 0 while a size is looked for.
RECURSIVE ChunkedRecv(_, _, _, _, _)
ChunkedRecv(c, buf, find_from, read_size, turns) ==
    LET text == From(buf, find_from)
        end  == Find(<<"NUL">>, text)
        at   == Find(CRLF, IF end = 0 THEN text ELSE SubSeq(text, 1, end - 1))
        crlf == find_from + at - 1
        size == Number(SubSeq(buf, find_from, crlf - 1))
        cut  == [buf EXCEPT ![crlf] = "NUL"]
        left == c.recv_len - (IF read_size = 0 THEN crlf - find_from + 2 ELSE 2)
        r    == Recv(c, Len(buf) - c.recv_len)
        Kept(d, n) == [d EXCEPT !.recv_len = n]
    IN
    IF at = 0 /\ turns = 0 THEN [client |-> c, buf |-> buf, rc |-> 0]
    ELSE IF at = 0 /\ r.rc < 0 THEN [client |-> r.client, buf |-> buf, rc |-> c.recv_len]
    ELSE IF at = 0
    THEN ChunkedRecv(Kept(r.client, c.recv_len + r.rc),
                     [i \in DOMAIN buf |-> IF i \in c.recv_len + 1..c.recv_len + r.rc THEN r.data[i - c.recv_len] ELSE buf[i]],
                     find_from, read_size, turns - 1)
    ELSE IF read_size # 0
    THEN ChunkedRecv(Kept(c, left), Moved(buf, crlf, crlf + 2, left - crlf + 1), find_from + read_size, 0, turns)
    ELSE IF size = 0 THEN [client |-> [Kept(c, left) EXCEPT !.need_recv_len = 0], buf |-> cut, rc |-> left]
    ELSE ChunkedRecv(Kept(c, left), Moved(cut, find_from, crlf + 2, left - find_from + 1), find_from, size, turns)

\* What of the content is still to come after the header was read.
StillNeeded_All(content_length, len) == content_length
StillNeeded(content_length, len)     == content_length - len

\* _http_client_recv_response
RecvResponse(c, size, turns) ==
    LET Ready(client, is_chunked, body, need) ==
            [client EXCEPT !.is_chunked = is_chunked, !.recv_len = Len(body), !.need_recv_len = need]
        Then(h, body, at) ==
            IF h.rc < 0 THEN [client |-> h.client, buf |-> <<>>, rc |-> h.rc]
            ELSE IF h.buf[1] # "200" THEN [client |-> h.client, buf |-> <<>>, rc |-> Refused]
            ELSE IF at # 0
            THEN ContentLengthRecv(
                     Ready(h.client, FALSE, body, StillNeeded(Number(From(h.buf, at + 1)), Len(body))), body, size)
            ELSE IF Find(<<"Transfer-Encoding: chunked">>, h.buf) # 0
            THEN ChunkedRecv(Ready(h.client, TRUE, body, 1),
                             [i \in 1..size |-> IF i <= Len(body) THEN body[i]
                                                ELSE IF i <= Len(h.buf) THEN h.buf[i] ELSE "NUL"],
                             1, 0, turns)
            ELSE [client |-> h.client, buf |-> <<>>, rc |-> Refused]
        Read(h) == Then(h, From(h.buf, HeaderEnd(h.buf) + 1), Find(<<"Content-Length">>, h.buf))
    IN  Read(ReadHeader(c, <<>>, size, turns))

\* IOT_HTTP_Recv, into a cleared buffer
IOT_HTTP_Recv(c, size, turns) ==
    IF c.need_recv_len = 0 THEN RecvResponse(c, size, turns)
    ELSE IF c.is_chunked THEN ChunkedRecv(c, [i \in 1..size |-> "NUL"], 1, 0, turns)
    ELSE ContentLengthRecv(c, <<>>, size)

IOT_HTTP_IsRecvFinished(c) == c.need_recv_len = 0

-------------------------------------------------------------------------------
(* What is expected of it. *)

\* The caller's loop: it goes on until the response is finished or a call fails.
RECURSIVE Download(_, _, _, _)
Download(c, size, turns, content) ==
    LET Then(r) ==
            IF r.rc < 0 THEN [rc |-> r.rc, content |-> content]
            ELSE IF IOT_HTTP_IsRecvFinished(r.client) THEN [rc |-> 0, content |-> content \o SubSeq(r.buf, 1, r.rc)]
            ELSE Download(r.client, size, turns, content \o SubSeq(r.buf, 1, r.rc))
    IN  Then(IOT_HTTP_Recv(c, size, turns))

\* A response with a length, whose header fits the buffer and comes in time, is received
\* whole, whatever pieces the header and the body come in; one without is refused.
BodyArrives(status, body, size, turns, arrivals) ==
    LET header == <<status, "Content-Length", ToString(Len(body))>> \o CRLF \o CRLF
        d      == Download(Client(header \o body, arrivals), size, turns, <<>>)
    IN
    /\ IsPrefix(d.content, body)
    /\ (status = "200" /\ Len(header) < size /\ Len(arrivals) < turns) => d = [rc |-> 0, content |-> body]
    /\ status # "200" => d.rc < 0

\* A chunked response that is there when the client looks is decoded: the result begins
\* with the body.  Its length is two more: the last chunk's line, without its end, is left
\* behind the body, as much of it as the empty line after it has bytes.
ChunksArrive(chunks, size) ==
    LET Chunk(b) == <<ToString(Len(b))>> \o CRLF \o b \o CRLF
        text == <<"200", "Transfer-Encoding: chunked">> \o CRLF \o CRLF
                \o FlattenSeq([k \in DOMAIN chunks |-> Chunk(chunks[k])]) \o <<"0">> \o CRLF \o CRLF
        body == FlattenSeq(chunks)
        r    == IOT_HTTP_Recv(Client(text, <<>>), size, 3)
    IN
    size > Len(text) => /\ IOT_HTTP_IsRecvFinished(r.client)
                        /\ SubSeq(r.buf, 1, r.rc) = body \o <<"0", "NUL">>

\* A request that is said to be sent has been: the host, the path without the fragment,
\* and one empty line before the content, whose length is told.
RequestArrives(request, host, path, fails) ==
    LET r   == Request(request, fails)
        end == Find(CRLF \o CRLF, r.sent)
    IN
    r.rc = 0 =>
        /\ IsPrefix(<<request.method>> \o path \o <<"HTTP/1.1">> \o CRLF \o <<"Host:">> \o host \o CRLF \o request.header, r.sent)
        /\ end # 0 /\ From(r.sent, end + 4) = request.content
        /\ request.content # <<>> => Find(<<"Content-Length", ToString(Len(request.content))>>, SubSeq(r.sent, 1, end)) # 0
===============================================================================
