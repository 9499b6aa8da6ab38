-------------------------------- MODULE Network --------------------------------
(***************************************************************************)
(* The transports below MQTT and HTTP: sockets (platform/os/Linux,         *)
(* HAL_TCP_linux.c), TLS over mbedtls (3rd/mbedtls/port), and the network  *)
(* interface that hides which of them it is (platform/network).            *)
(*                                                                         *)
(* What the operating system or mbedtls answers in one turn of a loop is a *)
(* record: what came of it, and how many bytes were moved.  A call is given*)
(* its turns; when they are used up its timer has expired.                 *)
(***************************************************************************)
EXTENDS Integers, Sequences, SequencesExt, FiniteSetsExt

Moved(turn, room) == Min({turn.bytes, room})

\* What errno, or mbedtls, tells of an attempt that failed.
WriteCode == [timeout |-> "WRITE_TIMEOUT", fail |-> "WRITE_FAIL", reset |-> "PEER_SHUTDOWN", closed |-> "WRITE_FAIL"]
ReadCode  == [timeout |-> "READ_TIMEOUT", fail |-> "READ_FAIL", reset |-> "PEER_SHUTDOWN", closed |-> "PEER_SHUTDOWN"]

-------------------------------------------------------------------------------
(* Sockets. *)

\* The loop of HAL_TCP_Write.  An interrupted call leaves -1, a send its count.
RECURSIVE SendLoop(_, _, _, _)
SendLoop(turns, len, len_sent, rc) ==
    IF len_sent = len \/ turns = <<>> THEN [len |-> len_sent, rc |-> rc]
    ELSE IF turns[1].what = "moved"
    THEN SendLoop(Tail(turns), len, len_sent + Moved(turns[1], len - len_sent), "COUNT")
    ELSE IF turns[1].what = "interrupted" THEN SendLoop(Tail(turns), len, len_sent, "INTERRUPTED")
    ELSE [len |-> len_sent, rc |-> WriteCode[turns[1].what]]

HAL_TCP_Write(turns, len) ==
    LET loop == SendLoop(turns, len, 0, "SUCCESS") IN
    IF loop.len = len THEN [loop EXCEPT !.rc = "SUCCESS"] ELSE loop

\* The loop of HAL_TCP_Read: only select sees the timer.
RECURSIVE RecvLoop(_, _, _)
RecvLoop(turns, len, len_recv) ==
    IF turns = <<>> THEN [len |-> len_recv, rc |-> ReadCode.timeout]
    ELSE IF turns[1].what = "moved"
    THEN LET now == len_recv + Moved(turns[1], len - len_recv) IN
         IF now < len THEN RecvLoop(Tail(turns), len, now) ELSE [len |-> now, rc |-> "COUNT"]
    ELSE IF turns[1].what = "interrupted" THEN RecvLoop(Tail(turns), len, len_recv)
    ELSE [len |-> len_recv, rc |-> ReadCode[turns[1].what]]

\* What a read that ended with rc returns when it has read len bytes.
ReadResult_ByCode(len, rc) == IF rc = "COUNT" THEN "SUCCESS" ELSE IF rc = "READ_TIMEOUT" THEN "NOTHING_TO_READ" ELSE rc
ReadResult(len, rc) ==
    IF len > 0 THEN "SUCCESS" ELSE IF rc = "READ_TIMEOUT" THEN "NOTHING_TO_READ" ELSE rc

HAL_TCP_Read(turns, len) ==
    LET loop == RecvLoop(turns, len, 0) IN [loop EXCEPT !.rc = ReadResult(loop.len, loop.rc)]

\* HAL_TCP_Connect: the addresses of the host, each with where the attempt ends; the
\* socket of address k is k.
RECURSIVE TryAddresses(_, _, _)
TryAddresses(addresses, k, open) ==
    IF k > Len(addresses) THEN [rc |-> "TCP_CONNECT", fd |-> -1, open |-> open]
    ELSE CASE addresses[k] = "socket_fails" -> TryAddresses(addresses, k + 1, open)
           [] addresses[k] \in {"fcntl_fails", "refused", "select_expires", "so_error"} ->
                  TryAddresses(addresses, k + 1, (open \cup {k}) \ {k})
           [] addresses[k] \in {"at_once", "in_progress"} -> [rc |-> "SUCCESS", fd |-> k, open |-> open \cup {k}]

HAL_TCP_Connect(host) ==
    IF host = <<>> THEN [rc |-> "UNKNOWN_HOST", fd |-> -1, open |-> {}] ELSE TryAddresses(host, 1, {})

\* HAL_TCP_Disconnect: a shutdown that fails ends it before close.
HAL_TCP_Disconnect(open, fd, shutdown) == IF shutdown THEN open \ {fd} ELSE open

-------------------------------------------------------------------------------
(* TLS: mbedtls reads and writes through sockets (qcloud_iot_net_socket.c). *)

MbedtlsCode == [UNKNOWN_HOST |-> "NET_UNKNOWN_HOST", TCP_CONNECT |-> "NET_CONNECT_FAILED", WRITE_TIMEOUT |-> "WANT_WRITE",
                WRITE_FAIL |-> "NET_SEND_FAILED", PEER_SHUTDOWN |-> "NET_CONN_RESET", READ_TIMEOUT |-> "SSL_TIMEOUT",
                NOTHING_TO_READ |-> "WANT_READ", READ_FAIL |-> "NET_RECV_FAILED"]
_return_code_convert(rc) == IF rc \in DOMAIN MbedtlsCode THEN MbedtlsCode[rc] ELSE "-1"

mbedtls_net_recv_timeout(turns, len) ==
    LET r == HAL_TCP_Read(turns, len) IN
    IF r.rc = "SUCCESS" THEN [rc |-> "BYTES", len |-> r.len] ELSE [rc |-> _return_code_convert(r.rc), len |-> 0]
mbedtls_net_send(turns, len) ==
    LET w == HAL_TCP_Write(turns, len) IN
    IF w.rc = "SUCCESS" THEN [rc |-> "BYTES", len |-> w.len] ELSE [rc |-> _return_code_convert(w.rc), len |-> 0]

\* mbedtls_ssl_read and mbedtls_ssl_write as one turn of the loops below: they read or
\* write a record, and hand on what is wanted and what failed.
SslTurn(moved) ==
    [what  |-> IF moved.rc = "BYTES" THEN "moved"
               ELSE IF moved.rc \in {"WANT_READ", "WANT_WRITE", "SSL_TIMEOUT"} THEN "timeout" ELSE "fail",
     bytes |-> moved.len]

\* qcloud_iot_tls_client_connect and _mbedtls_tls_client_init: the calls that may fail,
\* in their order, and what each holds when it did not.
Steps(mode) ==
    <<"malloc", "seed">>
    \o (IF mode = "cert" THEN <<"ca_crt", "client_cert", "key_file">> ELSE <<"psk">>)
    \o <<"config_defaults">> \o (IF mode = "cert" THEN <<"own_cert">> ELSE <<>>)
    \o <<"ssl_setup">> \o (IF mode = "cert" THEN <<"hostname">> ELSE <<>>)
    \o <<"net_connect", "handshake", "verify_result">>
Holds == [malloc |-> "handle", seed |-> "ctr_drbg", ca_crt |-> "ca_cert", client_cert |-> "client_cert",
          key_file |-> "private_key", psk |-> "ssl_conf", own_cert |-> "ssl_conf", ssl_setup |-> "ssl",
          net_connect |-> "socket_fd", config_defaults |-> "ssl_conf", hostname |-> "ssl",
          handshake |-> "ssl", verify_result |-> "ssl"]

\* _mbedtls_tls_client_free
Freed(mode) == {"socket_fd", "ssl", "ssl_conf", "ctr_drbg", "handle"}
               \cup (IF mode = "cert" THEN {"client_cert", "ca_cert", "private_key"} ELSE {})

TlsConnect(mode, fails) ==
    LET steps  == Steps(mode)
        failed == SelectInSeq(steps, LAMBDA step : step \in fails)
        held   == {Holds[steps[k]] : k \in 1..(IF failed = 0 THEN Len(steps) ELSE failed - 1)}
    IN
    IF failed = 0 THEN [handle |-> TRUE, held |-> held]
    ELSE [handle |-> FALSE, held |-> IF held = {} THEN {} ELSE held \ Freed(mode)]

\* qcloud_iot_tls_client_disconnect
TlsDisconnect(mode, held) == held \ Freed(mode)

\* qcloud_iot_tls_client_write: a write that wants another turn when the timer expires
\* adds its code, which is negative, to what was written.
RECURSIVE TlsWriteLoop(_, _, _)
TlsWriteLoop(turns, len, written_so_far) ==
    IF written_so_far = len THEN [len |-> written_so_far, rc |-> "SUCCESS"]
    ELSE IF turns = <<>> THEN [len |-> written_so_far, rc |-> "WRITE_TIMEOUT"]
    ELSE IF turns[1].what = "moved"
    THEN TlsWriteLoop(Tail(turns), len, written_so_far + Moved(turns[1], len - written_so_far))
    ELSE IF turns[1].what \notin {"timeout", "interrupted"} THEN [len |-> 0, rc |-> "WRITE_FAIL"]
    ELSE IF Len(turns) = 1 THEN [len |-> -1, rc |-> "WRITE_TIMEOUT"]
    ELSE TlsWriteLoop(Tail(turns), len, written_so_far)

\* qcloud_iot_tls_client_read
RECURSIVE TlsReadLoop(_, _, _)
TlsReadLoop(turns, len, read_len) ==
    IF turns = <<>> \/ read_len >= len
    THEN [len |-> read_len, rc |-> IF read_len > 0 THEN "SUCCESS" ELSE "NOTHING_TO_READ"]
    ELSE IF turns[1].what = "moved" THEN TlsReadLoop(Tail(turns), len, read_len + Moved(turns[1], len - read_len))
    ELSE IF turns[1].what \in {"timeout", "interrupted"} THEN TlsReadLoop(Tail(turns), len, read_len)
    ELSE [len |-> read_len, rc |-> "READ_FAIL"]

-------------------------------------------------------------------------------
(* The network interface: qcloud_iot_network_init gives a network the functions of its type. *)

network_read(type, turns, len)  == IF type = "TCP" THEN HAL_TCP_Read(turns, len) ELSE TlsReadLoop(turns, len, 0)
network_write(type, turns, len) == IF type = "TCP" THEN HAL_TCP_Write(turns, len) ELSE TlsWriteLoop(turns, len, 0)

qcloud_iot_network_init == [fd |-> -1, open |-> {}]

_network_tcp_connect(network, host) ==
    LET c == HAL_TCP_Connect(host) IN [fd |-> c.fd, open |-> network.open \cup c.open]

_network_tcp_disconnect(network, shutdown) ==
    IF network.fd < 0 THEN network
    ELSE [fd |-> -1, open |-> HAL_TCP_Disconnect(network.open, network.fd, shutdown)]

_is_network_tcp_connected(network) == network.fd > 0

-------------------------------------------------------------------------------
(* What is expected of them. *)

Total(turns) == FoldSeq(LAMBDA turn, sum : sum + turn.bytes, 0, turns)
Dies(turns)  == \E k \in DOMAIN turns : turns[k].what \in {"fail", "reset", "closed"}

\* Reads, one after the other until one says that the link is dead.
Reads(type, calls, len) ==
    FoldLeft(LAMBDA acc, turns :
                 LET r == network_read(type, turns, len) IN
                 IF acc.dead THEN acc
                 ELSE [got   |-> acc.got + (IF r.rc = "SUCCESS" THEN r.len ELSE 0),
                       taken |-> acc.taken + r.len,
                       dead  |-> r.rc \notin {"SUCCESS", "NOTHING_TO_READ"}],
             [got |-> 0, taken |-> 0, dead |-> FALSE], calls)

\* No read takes bytes from the link and keeps them from its caller while the link lives,
\* and none calls a link dead that is not; a read of a socket never loses any.
ReadsTell(type, calls, len) ==
    LET r == Reads(type, calls, len) IN
    /\ ~r.dead \/ type = "TCP" => r.got = r.taken
    /\ r.dead => \E k \in DOMAIN calls : Dies(calls[k])

\* Over the sockets below, a turn of mbedtls for each sequence of theirs.
TlsReadsTell(calls, len) ==
    LET r == TlsReadLoop([k \in DOMAIN calls |-> SslTurn(mbedtls_net_recv_timeout(calls[k], len))], len, 0) IN
    /\ r.rc \in {"SUCCESS", "NOTHING_TO_READ", "READ_FAIL"}
    /\ r.rc = "READ_FAIL" => \E k \in DOMAIN calls : Dies(calls[k])
    /\ r.rc = "NOTHING_TO_READ" => \A k \in DOMAIN calls : calls[k][1].what # "moved"
TlsWritesTell(turns, len) ==
    LET w == TlsWriteLoop(<<SslTurn(mbedtls_net_send(turns, len))>>, len, 0) IN
    w.rc = "SUCCESS" => Total(turns) >= len \/ turns = <<>>

\* A write says SUCCESS exactly when all is written, unless its time is over before it
\* began, and an error that means the peer is gone only when it is.
WritesTell(type, turns, len) ==
    LET w == network_write(type, turns, len) IN
    /\ w.rc = "SUCCESS" /\ turns # <<>> => w.len = len /\ Total(turns) >= len
    /\ ~Dies(turns) /\ Total(turns) >= len => w.rc \in {"SUCCESS", "WRITE_TIMEOUT"}
    /\ w.rc \in {"PEER_SHUTDOWN", "WRITE_FAIL"} => Dies(turns)

\* A connection is one open socket, a failed attempt none, whichever addresses were tried,
\* and a disconnection closes it, unless the shutdown fails.
ConnectsTell(hosts, shutdown) ==
    LET Again(acc, host) ==
            LET c == _network_tcp_connect(acc.network, host)
                d == _network_tcp_disconnect(c, shutdown)
            IN [network |-> d,
                right   |-> acc.right /\ (_is_network_tcp_connected(c) <=> c.fd \in c.open)
                            /\ (shutdown => c.open = {c.fd} \ {-1} /\ d.open = {}) /\ ~_is_network_tcp_connected(d)]
    IN FoldLeft(Again, [network |-> qcloud_iot_network_init, right |-> TRUE], hosts).right

\* A TLS connection that fails at any step holds nothing, and a disconnection frees all.
TlsTells(mode, fails) ==
    LET c == TlsConnect(mode, fails) IN
    /\ c.handle <=> fails \cap ToSet(Steps(mode)) = {}
    /\ ~c.handle => c.held = {}
    /\ TlsDisconnect(mode, c.held) = {}
===============================================================================
