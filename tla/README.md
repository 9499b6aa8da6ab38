# TLA+ models of the IoT Hub / IoT Explorer device SDK

This directory specifies the parts of the SDK whose correctness depends on
order, time, failure and threads: TLA+ modules translated from the C sources,
configurations with which TLC checks them on small instances, and theorems that
TLAPS proves for every size of the instance. Source paths below are relative to
`src/`; `PROJECT.json` maps each definition to the lines it models.

Contents: [1 the system](#1-the-system), [2 what is hard](#2-what-is-hard),
[3 modules](#3-modules), [4 runs](#4-runs), [5 fairness](#5-fairness),
[6 proofs](#6-proofs), [7 what the models show of the code](#7-what-the-models-show-of-the-code),
[8 not modelled](#8-not-modelled), [9 plan](#9-plan).

## 1 The system

A device program links the SDK, constructs an MQTT client, subscribes and
publishes, and calls `IOT_MQTT_Yield` in a loop. *Everything* the client does by
itself happens inside `yield`: it reads packets, answers them, calls back, checks
timeouts, pings and reconnects. Higher services (OTA, system time, broadcast, data
template, file management) are built on subscribe, publish and yield.

| Component | State it keeps | Operations | Talks to |
|---|---|---|---|
| MQTT client, connection (`mqtt_client.c`, `mqtt_client_connect.c`, `mqtt_client_yield.c`) | `is_connected`, `was_manually_disconnected`, `auto_connect_enable`, `is_ping_outstanding`, `ping_timer`, `current_reconnect_wait_interval`, `reconnect_delay_timer` | construct, connect, yield, destroy | network stack (calls), application (events by callback) |
| MQTT client, outgoing messages (`mqtt_client_publish.c`, `mqtt_client_common.c`) | `next_packet_id`, `write_buf`, `list_pub_wait_ack` | publish, handle PUBACK, check timeouts | shares `write_buf` with every other packet; list; events |
| MQTT client, subscriptions (`mqtt_client_subscribe.c`) | `sub_handles[]`, `list_sub_wait_ack` | subscribe, unsubscribe, handle SUBACK and UNSUBACK, check timeouts, resubscribe, is_sub_ready, clear | takes over the caller's user data; events of the client and of the handle |
| MQTT client, incoming messages (same files) | ring of the last 10 packet ids, `read_buf` | read a packet, drop a duplicate, find the handler, send PUBACK | handlers of the subscriptions |
| Packet codec (`common/mqtt_packet`) | none | serialize, deserialize | client |
| List (`utils_list.c`) | nodes, length, lock | create, push, pop, remove, process | the three waiting lists and the service list |
| Downloader, OTA (`utils_downloader.c`, `app/ota`, `ota_mqtt.c`) | break point and firmware on disk, digest in memory | break point and data hooks, report progress | COS download, file system, MQTT |
| COS and HTTP (`cos_download.c`, `http_client.c`) | offset, response lengths | request, receive | network |
| System time (`system_mqtt.c`) | result flag in the user data of a subscription | get time, set time | subscribe, publish, yield |
| Service topic, file management (`sevice_mqtt.c`, `file_manage.c`) | list of services in the user data of one subscription | register, unregister, dispatch | subscription, list |
| Data template (`services/explorer/data_template`, `app/data_template`) | client token, change flags | property, event, action messages | subscribe, publish |
| Broadcast (`broadcast.c`) | none | subscribe, callback | subscription |
| Network, TCP, TLS (`network_interface.c`, `HAL_TCP_linux.c`, `3rd/mbedtls/port`) | descriptor, session | connect, read, write, disconnect | operating system |
| Platform (`HAL_Timer_linux.c`, `HAL_OS_linux.c`) | timers, recursive mutexes | countdown, expired, lock | operating system |
| Cryptology, JSON, log | none between calls | pure functions | everyone |

Two builds matter: without `MULTITHREAD_ENABLED` (the hub configuration) all locks
are no-ops and there is one thread; with it (the explorer configuration) several
threads publish and subscribe while one yields.

### What makes each component correct

* **Outgoing messages.** A publish that returned a packet id is told of by success or
  timeout, and by a success after a timeout if its PUBACK is late; one that returned an error by nothing. A success is
  only reported of a message that reached the broker. Threads do not send each
  other's packets. No two waiting messages have one packet id. The list is not
  damaged by removals during its own traversal. No call waits for ever.
* **Connection.** One socket; none left behind by any failing path. Each loss is
  announced. A reconnection is reported only when the client is connected and has
  asked for all its topics. Delays double and attempts are bounded. An outage
  ends. A silent link is noticed in bounded time, a working one is not given up.
* **Subscriptions.** One handle per filter; what a handle points to is allocated,
  released once, and not leaked. An accepted request is answered once. When
  nothing is under way, ready filters and the broker's filters agree but for refusals, whatever the
  number of reconnections.
* **Incoming messages.** A QoS 1 message that is acknowledged is delivered, once,
  to a handler that exists; reads stay aligned with packets.
* **Downloader.** The firmware reported as valid is the file that was announced,
  over any number of failures and crashes; a download with a working server ends.
* **Services.** A reply is not taken for that of another request; user data has
  one owner.

## 2 What is hard

* *Threads*: packet ids, the single write buffer, the waiting list, and a send that
  fails after as long as the timeout of its own node.
* *Callbacks*: the callback of an event may publish, connect or fail, in the middle
  of a traversal or a disconnection.
* *Time*: acknowledgements that come after the timeout; ping timers that survive
  from one call of yield to the next; back-off.
* *Failure*: each step of connecting, subscribing, resubscribing and sending.
* *Sharing*: two copies of a subscription handle with the same pointers.
* *The broker forgets*: each connection is a clean session.

`PROJECT.json` lists the hazards one by one, at the line where each bites, with the
properties that cover it.

## 3 Modules

| Module | Models | Checked and proved by |
|---|---|---|
| `MqttPublish` | outgoing QoS 1 messages, any number of threads | `MCMqttPublish`, `MqttPublish_proofs` |
| `PublishPromise` | what a publish promises the application | refined by `MqttPublish` |
| `MqttSession` | connection, keep alive, reconnection, in time | `MCMqttSession`, `MqttSession_proofs` |
| `SessionPromise` | what the application is promised of its connection | refined by `MqttSession` |
| `MqttSubscribe` | table of subscriptions, waiting list, memory, broker | `MCMqttSubscribe`, `MqttSubscribe_proofs` |
| `MqttInbound` | the stream of bytes, incoming messages, the ring of packet ids | itself, `MqttInbound_proofs` |
| `Services` | system time, broadcast, OTA, data template and service topic over subscriptions | itself, `Services_proofs` |
| `DataTemplate` | properties and actions of a device | itself, `DataTemplate_proofs` |
| `OtaDownload` | firmware download: downloader, files on disk, HTTP requests, crashes | `MCOtaDownload`, `OtaDownload_proofs` |
| `MqttPacket`, `MqttConnectOption` | the packet codec; the options of CONNECT of a device | `MCAlgorithms`, `MqttInbound_proofs` |
| `TopicFilter`, in `TopicMatch` | the match of a topic with a filter | `MCAlgorithms`, `MqttInbound_proofs` |
| `UtilsJson`, `Reports` | the search in JSON texts; the reports the SDK prints | `MCAlgorithms` |
| `Base64` | Base64 | `MCAlgorithms` |
| `Digest`, in `MessageDigest` | MD5, SHA-1 and HMAC fed in pieces | `MCAlgorithms`, `OtaDownload_proofs` |
| `HttpClient`, `CosDownload` | requests and responses of HTTP; a download over them | `MCAlgorithms` |
| `Network` | TCP, TLS and the interface above them | `MCAlgorithms` |
| `UtilsList`, in `LinkedList` | the doubly linked list | `MCAlgorithms`, `MqttPublish_proofs` |
| `ListSequence` | the sequence of values a list is | refined by `UtilsList` |
| `SequenceFacts` | nothing: lemmas about sequences and the community operators the proofs use | TLAPS |

The modules meet at their borders. `MqttPublish` and `MqttSubscribe` use the sequence of
`ListSequence`, which `UtilsList` implements. The outcomes of a read in `MqttInbound`
are those `Network` gives; its packets are those `MqttPacket` decodes; which handler a
message goes to is `TopicFilter`'s part. `Services` uses the subscription as `MqttSubscribe`
shows it to an orderly application. The range and the offset of `OtaDownload` are those
of `CosDownload`, its digest that of `Digest`.

`LinkedList`, `MessageDigest` and `TopicMatch` hold the constants, the variables and the properties of one list,
one digest and one match, so that the run and the theorems are about the same instance. Their theorems are at
the end of the proof module of their main user, whose lemmas they share: the list at the end of
`MqttPublish_proofs`, the digest at the end of `OtaDownload_proofs`, the match at the end of `MqttInbound_proofs`,
followed by the packet codec.

In each module an operator with a suffix (`Unlink_Nothing`, `PingsLost_OneMore`) is a
plausible wrong version of the operator below it. No specification uses it; it is
there to make sure, by substitution, that a property can fail.

### MqttPublish

`pc[p]` is where thread *p* is in `qcloud_iot_mqtt_publish`, `ypc` where the yielding
thread Y is in one turn of `qcloud_iot_mqtt_yield`. A step is what happens
between two points where another thread can act: the two halves of
`get_next_packet_id` (`AllocId`, `ReadId`), taking the write buffer, serializing
and pushing the node (`PushPubInfo`), the write (`SendOk`, `SendFail`), and the
removal of the node of a failed send (`RemoveFailed`). `lock_generic` and most uses
of the list's lock are taken and released within one step. The lock of the list is
a variable because Y holds it during the whole traversal of the timeouts
(`ScanBegin` ... `ScanEnd`), callbacks included. Mutexes are recursive, as on Linux.

Nodes are numbered in the order of their pushes, so that the list is a *set* of
numbers and its order is that of the numbers; a removed node has been released, and
`misused` records a second removal, after which the model stops. `BrokerAcks`
answers a packet, or does not; `ConnectionLost` loses what is under way; `Expire`
lets the timer of a node run out at any time. `Threads = {}` is the build without
threads. What the application may do in callbacks is `RepublishOn`.

The timeout of a node, its event and its removal are three different steps
(`Expire`, `ScanExpired`, `TimeoutCallbackReturns`), and so the callback runs
with the node still in the list, as in the code.

An event carries a packet id and nothing else. `TellsOf` says which publish it tells the application of: the node
that waits under the id or, when there is none, the last publish that returned it. `HandlePuback` raises success
for an id without a node too, as the code does, so that a PUBACK after the timeout makes `event` `"late"`: success
after timeout.

`PublishPromise` has two variables for each publish, what the call returned and what the
application was told; threads, locks, list and broker are gone. `MqttPublish` implements it
with its own `outcome` and `event` (`KeepsPromise`): the refinement mapping is
the identity on both, and everything else stutters. A timeout may be corrected (`Correct`), nothing else is taken back.

### MqttSession

One thread: `pc` says whether it is in the application (`app`), opening a
connection (`dial`, `hello`, `connack`, `close`, for one of four callers), in the
loop of yield (`loop`, `read`, `keepalive`), or handling a loss (`lost`,
`disconnect_cb`). Time is ticks; a timer is the number of ticks left, and `Tick`
happens only where the code waits. `net` is the link: `dead` is a link that fails
without a word, `reset` one that fails with an error. `Modes` are the ways to
construct the client: connected at once and reconnecting (`auto`), reconnecting but
constructed without a connection (`lazy`), neither (`manual`).

What a read delivers is abstracted to the outcomes that yield tells apart: nothing,
an acknowledgement (which restarts the ping timer), a message (which only clears
the count of pings), a packet that cannot be read (yield returns, the client stays
connected), and an error. Topics are a set: which of them have a handle, and which
have been requested on this connection.

`owed`, `silence`, `since`, `due` and `requested` are histories that the
properties refer to. They are capped just above what the properties compare.

`SessionPromise` has no time, no link and no codes: a client is down, resuming, announcing, up, lost or has
given up; the application has topics, and the broker has been asked for some of them. `Told` computes the first
from the program counter and `is_connected`; `auto`, `topics` and `asked` are `auto_connect_enable`,
`handles` and `requested`, as far as there is a client and a connection (`SessionAsPromised`). It promises that
no loss goes untold, that the client reconnects by itself only if it was constructed so, not before the
loss has been told and not after it has given up, and that a reconnection is told when the broker
has been asked for every topic, and never before. Whether a topic can be asked for is left open:
`NotResumed` is what happens when one cannot.

### MqttSubscribe

Call *n* of subscribe or unsubscribe copies its filter, takes over user data and
gets a packet id; all three are written *n*, and `heap` is the set of calls whose
memory is allocated. The handle in `sub_handles` and the one in the node of
`list_sub_wait_ack` are copies of one structure, so both point to the memory of
*n*: that is what `HandlesValid` is about. `misused` is set when released memory is
compared, passed on or released again; the model stops there, since nothing is
known of such a program. The broker handles requests in order and answers in order;
it forgets everything with the connection. It may refuse any SUBSCRIBE, also one of `resubscribe`, whose answer
the client does not look at; `refused` is the filters it has refused last. `Nacks` is what the client
reads the 0x80 of a refusal as: 128, or -128 where plain `char` is signed, which
`handle_suback` takes for a grant (`GrantedQos`).

`Mishaps` says what an instance admits: late or missing answers (`slow`), refusals
(`nack`), failing sends (`sendfail`), a call for a filter whose last call has not been
answered (`impatient`), full tables (`full`). The properties fall into those that hold
with all mishaps and those that need an orderly environment. That split is a
result (section 7).

Assumed: applications give `user_data_free`; packet ids do not wrap around while
a request waits (`EventsAreTrue` of `MqttPublish` is about the counter); one thread. The SUBSCRIBEs of a resubscription have packet ids no node
waits for; they are written 0.

### MqttInbound

`wire` is the bytes that have not been read, each with the packet it is of and its place
there, so that a read takes bytes whatever packet they belong to. `pc` is where
`_read_mqtt_packet` and `_cycle_for_read` are. The four reads of a packet (header, length byte by byte,
payload, and the pieces of a packet to discard) are four actions, each over all the
outcomes `network_stack.read` has: some bytes, nothing in time, a loss, or a loss after
some bytes. A byte that is taken for a header and is none leads to `garbled`, which only a
reconnection ends; `StreamAligned` says when that cannot come about. `short` marks the
connection on which a read found nothing inside a packet, or bytes of the next packet were discarded.
A connection breaks at any byte (`Break`): what was on its way before may still be read.

The broker keeps a message until it gets the PUBACK and sends it again after a
reconnection, before anything new (`resend`, `Resend`), if it has kept the session; each `Reconnect` leaves
both open, and the ring of the client stays as it is. A new message gets any id of which the
broker waits for no PUBACK (`FreeIds`), since it knows nothing of the ring; `reused` is the messages whose id was in the ring then.

### Services

One application thread makes calls (`Call`) and yields. Each call goes through its topics:
it allocates a context, gives it to `IOT_MQTT_SubscribeSync`, which hands it to the handle,
yields until the SUBACK or returns at once, and goes on: registers a service, publishes a
request for the time and waits for the answer. A context is numbered by its allocation; a handle, a
waiting UNSUBSCRIBE or nobody owns it. `Programs` are the calls an application makes
use of: the run checks each of four applications. A yield takes one unit of time.

The broker is in time for subscriptions: it grants before `IOT_MQTT_SubscribeSync` gives
up. Answers to requests for the time may be late, by up to `MaxDelay`
from the request to the moment they are read, or not come at all; a request that takes longer is
not answered, since no bound on the clock could hold otherwise; and the connection may be
lost between any two steps but in a subscription. A message carries its method, and
whether it has all its fields; `last` is what it called and what it was for.

### DataTemplate

`property` and `input` are the tables of `data_template_config.c`, with value and
`need_report` of each. The main loop yields, which reads messages in callbacks, and then
reports what has changed. `link` is the connection: up, broken before the client
knows, or down. Messages have QoS 0. There is one property of each kind the code
distinguishes: numbers, strings, and the struct, which is set as a whole. `lost` and `refused`
are histories of the two ways a change can stay unreported (section 7).

### Algorithms

`MqttPacket`, `UtilsJson`, `Base64`, `HttpClient`, `Network` and the modules that extend them are functions of
their input, `TopicFilter`, `Digest` and `UtilsList` state machines; each states next to the code's
version the reference it must agree with: a writer and a reader of MQTT 3.1.1, the
levels of a topic, a document and its value, the bytes encoded, the digest of the
undivided message, the body sent. A call that loops over `read`, `write` or `select` is given the
row of answers it meets. `MCAlgorithms` is one state machine over all of them: it
takes a subject and then one input, or, for a topic, a digest or a list, the steps of its module.

Texts are sequences of bytes where lengths count (`MqttPacket`, `Base64`), and sequences
of symbols else: a key or a file name without a delimiter in it is one symbol.
The compression functions of the digests are left out: a digest is the sequence of blocks it
was given, so that two digests agree when the blocks do. What is left is what feeding in pieces can get
wrong: the buffer of what does not fill a block, the two words of the count with their carry, and the padding,
which may or may not need a block of its own.

A step of `TopicFilter` is one turn of the loop of `_is_topic_matched`, with `curf` and `curn` counted from 1; what a
"+" or a "#" skips is in `After`. The reference (`Matches`) pairs the levels of the filter with those of the name, the first
with the first and the next with the next.

`UtilsList` has the nodes with their `prev` and `next`, and the iterator of
`utils_list_process`; a traversal is one step per node, with the handle in
between, which may push, remove the node in hand, or stop. `Chain` is the nodes from `head` on;
the sequence of their values is the list of `ListSequence`.

### OtaDownload

The OTA application runs one loop: process a download, yield. An announcement
arrives in yield; `Announce` can therefore happen in `idle`, and in `starting`,
where `IOT_OTA_Init` yields before `ota_downloader_init` overwrites the status and so
forgets it. `utils_downloader_process` goes from `check` over `connect`, `fetch`,
`save`, `truncate` and `write` back to `fetch`; each callback of
`ota_downloader.c` is a step, but for the save of the break point, which is two,
since `fopen` empties the file that `fwrite` fills. `Crash` can happen at
any place: memory is lost, the files stay. A crash of the process is meant; what the
operating system has been given is on disk.

A firmware is a row of blocks and block *i* of *f* is `<<f, i>>`, so that the
firmware file and the digest are sequences of blocks, and two digests agree exactly
if the sequences do. A write behind the end of the file leaves a hole, a shorter firmware
leaves the tail of a longer one, and a read behind the end gives `Blank`.

`responses` is what the service has been asked for and has not delivered to its end,
and `cos.need` is `need_recv_len`. Requests are sent where `IOT_COS_DownloadFetch`
sends them; one more than is wanted is sent when the header of the first response
arrives without data. `MaxResponses` bounds that. `Fragmentation` has both
values of `is_fragmentation`; the application passes `FALSE`, with which a
resumed download never asks for its data (section 7), so that only `TRUE` shows
what happens behind the resumption. `seen` is the mishaps of the latest download.

Assumed of the service: a range is answered by that range of the announced firmware,
with a content length.

## 4 Runs

| Run | Instance | Shows |
|---|---|---|
| `publish_one_thread` | one thread, 3 calls, 3 ids, list of 2, callbacks publish on both events | each accepted publish is resolved by an event, a failed one gets none, success means received; ids of waiting publishes differ while the counter wraps; the traversal survives its callbacks |
| `publish_threads` | two publishing threads and the yielding one, 2 calls, 2 ids, list of 2 | writers are separated, the waiting list is exact, every step keeps the promise of `PublishPromise`, every call returns |
| `session_safety` | keep alive 3, command timeout 1, yield 1, 1 tick away, first interval 1 or 2, limit 4, TLS, `auto` and `manual`, refusal 5, one topic | sockets, announcements, readiness, back-off, bounds of silence; every step keeps the promise of `SessionPromise` |
| `session_outage` | keep alive 3, first interval 1, limit 2, `auto` | every outage ends; a working link is not given up |
| `subscribe_orderly` | three filters, three slots, 6 calls, no mishaps | memory has one owner, nothing is used after release or leaked; the broker's filters have one handle each |
| `subscribe_mishaps` | two filters and a wildcard, two slots, 5 calls, all mishaps | what holds in spite of everything: one answer per request, no filter ready that the broker was not asked for; a refusal is read as 128 or as -128 |
| `subscribe_timeout` | one filter, late answers | *violated*: the table points to released memory |
| `inbound` | 3 messages of 3 sizes, one a byte too long for the buffer, 2 broken connections, a ring of 2 | the stream is cut where packets begin; acknowledged means delivered, but for an id that was in the ring, and not twice |
| `services` | four applications, 4 contexts, 1 message, 1 lost connection, 5 yields, answers up to 2 yields late | services stay reachable, contexts have one owner, the clock is set from the right answer |
| `data_template` | 2 messages, 1 name each, 1 value the application sets, 1 break | the cloud learns each value; actions use their own inputs |
| `ota_download` | firmwares of 3 and 2 blocks, buffer of 2, both kinds of requests, all mishaps, any number of crashes and announcements | the result agrees with the file on disk, everything is of its type; an announcement is answered |
| `algorithms` | see `MCAlgorithms` | each algorithm agrees with its reference; the linked list implements a sequence and loses no node; a digest in pieces is that of the whole |

**Are the bounds enough?** *Publish*: three calls give a node before, at and after
the one that is removed while a callback publishes another; the list limit of 2 is
reached; three ids (two) make the counter wrap within the run from every start.
Two calls by three threads give every race of two calls, and every race of a
call with the yielding thread; longer runs are what the proofs are for.
*Session*: three doublings are made before the limit; keep alive is longer than the
command timeout, so that the two settings of the ping timer differ; one tick of absence
lets timers expire between calls. `MaxSockets = 2` is one more than is correct, so
that a leak is a violation and not a missing step. *Subscribe*: five calls fill two
slots, refill one and fail; six fill three slots, take one away and subscribe it again; two reconnections can fall between any of them, since
nothing but the number of calls is bounded. *Inbound*: one message fits, one is just too long, one is
longer than the buffer by half and needs a second piece; two breaks let a message be
sent three times; three messages turn the ring of two once, and
each may have an id of its own or, once that is acknowledged, the id of one before. `Radix` 8 stands for 128, so
that a length of two bytes occurs. *Services*: a second context on a topic, a third after a
deinit and a call that finds no memory all occur; an answer can come after its
call has given up and during the next. *Data template*: a control, a second one
before the first is reported, and a change by the application between them. *OTA*: the longer firmware
does not fit into the buffer, so that a download takes several chunks and can be
interrupted between them; the other firmware is shorter, so that old blocks stay behind its end and in the place of blocks not yet
written; nothing but the responses under way is bounded. *Algorithms*: buffers one byte too
short, exact and one too long; lengths at each change of their field; filters of up to four
characters, and of five with a "#", against names of up to four; blocks of four bytes with pieces below, at and above; up to three turns
of a socket, with every failure in each; up to two failures of the thirteen steps of a TLS connection; lists of three nodes.
Deadlock is not checked where the
model runs out of calls (`CHECK_DEADLOCK FALSE`); there, liveness properties look for threads
that wait. Symmetry is used for interchangeable filters, in runs that check
invariants only.

## 5 Fairness

`MqttPublish`: the scheduler runs every thread that can run (weak fairness of each
thread's step and of Y's); a mutex that is free again and again is not withheld for
ever (strong fairness of the steps that take one, which is what a pthread mutex gives
in practice); the application keeps calling yield and time passes (`Expire`).
`ReadNothing` is strongly fair, because a turn whose read fails never reaches the
check of timeouts: the claim that each publish is resolved is about clients
that do get such turns. Nothing is assumed of the broker: `AcceptedIsResolved`
holds although it may never answer.

`MqttSession`: calls go on (`Opening`, `Yield` weakly fair), yield is called again
and again (strong, since other calls interrupt the application's waiting), time passes even if packets keep
arriving (strong, since it is enabled only where the code waits). Nothing is
assumed of network, broker, or of the application connecting or giving up:
`OutageEnds` allows the end by giving up, and that is what bounds it.

`OtaDownload`: the one thread goes on while the program runs (weak fairness), and a
service that is asked again and again delivers some data (strong fairness of
`FetchSome`). Without the latter a silent service keeps the loop of
`utils_downloader_process` going for ever: a receive of 0 bytes is not an error. A
crash may come at any time and is not an answer: `AnnouncementIsAnswered` says "answered
or started again".

## 6 Proofs

TLC checked each property, and each inductive invariant below, on the instances of section 4
before it was proved. A theorem has a hypothesis only where TLC violates the property without it (section 7 names the
instance), with three exceptions: `GrantedIsHandled` leaves refusals out, because a refusal that is read
as one ends in the use of released memory, where the model stops and a property would hold for that
reason alone (`ReadyMeansHeard` has no such hypothesis: a refusal of a resubscription, or one read as -128, does
not end the model); the second hypothesis of `EventsTellTheTruth` (below); and hypotheses that say what a constant
is: `NULL` is no cell of a list, and a first interval, below 2 seconds in the code, is at most
`MAX_RECONNECT_WAIT_INTERVAL`, which is 60.

`MqttPublish_proofs` proves, for every set of threads, number of calls, packet ids and
list limit (from `PublishAssumption` alone, which only says that the constants are
of their kind):

| Theorem | |
|---|---|
| `Invariance` | `Spec => []IInv` |
| `TypeCorrect` | `TypeOK` |
| `WritersSeparated` | `SentOwnPacket`: no thread sends another's packet |
| `WaitListCorrect` | `WaitListIsExact`: an accepted publish waits until its event, nothing else waits |
| `PromiseKept` | `KeepsPromise`: `MqttPublish` implements `PublishPromise` |
| `IteratorValid` | `IteratorInList`: the traversal never holds a removed node |
| `IdsAreNonzero` | `IdsNonzero` |
| `EventsAreOrdered` | `EventsFollow`, an action property: after an event comes nothing, or success after a timeout |
| `SoleThreadRemovesListedNode` | `RemovesListedNode` if there are no other threads |
| `EventsTellTheTruth` | `EventsAreTrue` if there are no other threads and the ids do not come round |

None of these is inductive by itself. `IInv` adds

* `WriterInv`: who is at which program counter holds `lock_write_buf`, and the buffer
  then contains that thread's packet. Without it, `SentOwnPacket` says nothing about the
  step before the write.
* `NodeInv`: a thread refers to a node only between push and return, two threads
  never to the same, and a publish is "sending" exactly as long. This is why a
  failed send does not remove somebody else's node.
* `ListInv`: a node without an event is in the list, one with an event is not (but for
  the one in hand).
* `LockInv`: the lock of the list is held exactly during the traversal, so that
  `iter` stays in the list; Y itself, in a callback, refers to a later node.
* `IdInv`: between its two halves `get_next_packet_id` may return another thread's
  id but never 0.
* `SoleInv`: with one thread, a node that is still to be removed is in the list.
* `EventInv`, for `EventsTellTheTruth` alone. A PUBACK is matched by its id alone, and so a success is
  true only if no two nodes ever have one id. `ApartInv` says how far back the id of each node is from
  the counter: less than the number of calls, while that is at most `MaxPacketId`. `AnswerInv`: each PUBACK
  is for a node the broker has received. `FailedInv`: the node of a call that can still fail has no event. Two
  threads can get one id (section 7); and after 65535 calls an id comes round, when a PUBACK that is
  that late would answer another message, and a call made with such a message still waiting would get its id.

The step case has one lemma per group of actions, with one step per
conjunct of `IInv`. The refinement takes the invariant as well: that an event is raised only for a
publish under way follows from the list holding nothing else (`NoStaleNode`), and that a late one only
corrects a timeout from the event of the publish that returned the id last. That `First` yields the least node needs a least element of a set of
numbers; `LeastElement` gets it from the well-foundedness of strict inclusion on
finite sets, since induction theorems with an operator parameter cannot be used.

Its last section proves, for lists of any length over any cells and values, if `NULL` is no cell:

| Theorem | |
|---|---|
| `ListCorrect` | `ListIsLinked`: the nodes in use are one chain, in both directions |
| `ListRefines` | `ListIsSequence`: `UtilsList` implements `ListSequence` |

`Chain` is chosen by what each node has behind it; there is at most one such (`OneChain`), and each operation
needs a witness for the one it leaves. `LinkedInv` says that the list is made of a chain of distinct nodes with
all their pointers (`IsMadeOf`), and that the nodes the iterator stands on are in it. Pushing appends to the chain, popping takes its tail, removing one node closes the gap;
`next` of the iterator is read before the handler runs, and stays in the list because the handler
removes no node but the one in hand.

`OtaDownload_proofs` proves, from `DownloadAssumption`, for firmwares and buffers of every
size, any number of crashes and any choice of mishaps:

| Theorem | |
|---|---|
| `DownloadInvariant` | `Spec => []IInv` |
| `TypeCorrect` | `TypeOK`, which `SuccessIsAnnouncedFile` includes |
| `SuccessIsOnDisk` | `SuccessIsAnnouncedFile` |
| `MismatchIsOnDisk` | `MismatchIsReal` |

Both properties look at the moment of the report only. What makes them hold before
is `DigestInv`: the digest has at least as many blocks as the break point counts, exactly as many
unless restoring failed half-way, and then they are the blocks on disk unless a
write was lost. At the end the break point counts the whole file, and a digest
of that length that is right is the file (`DigestDecides`); a longer one is
never right, which is why a failed restoration cannot be reported as a success.
`StatusInv` says that nothing is reported while a download is under way, so that the
firmware a report is about is still the announced one. `ResponsesInv` gives the type and bound
of `responses`. The step has one lemma per phase of the download.

Its last section proves, from `DigestAssumption`, for blocks and words of any size, a message of any length and
pieces of any lengths:

| Theorem | |
|---|---|
| `DigestsAreOfWhole` | `DigestOfWhole`: MD5 in pieces, SHA-1 at once and HMAC are the digests of the standards |

`DigestAssumption` says that the length fits behind a block's end, that a block divides a word, and that a piece is
no longer than a word counts. The inductive invariant `ContextInv` says that the context is that of the bytes so far, in
one piece (`Fed`): `state` is their whole blocks, `buffer` begins with the rest, and the words of `total` are
their number. `UpdateStep` shows that an update keeps this, whatever was in the buffer and however long the
piece is (`TotalIsCounted` is the carry: it is seen in the lower word because a piece is shorter than a word);
the two updates of `Finish` and the passes of HMAC are then the same lemma again, and `PaddingFits` says that their end is the
end of a block. Nothing here is an induction over the message: each call of update is one step.

`MqttSession_proofs` proves, from `SessionAssumption`, for every keep alive, timeout, interval and
absence, and for every way to construct the client but where a hypothesis says otherwise:

| Theorem | | Hypothesis |
|---|---|---|
| `TypeCorrect` | `BaseInv`: `TypeOK`, and who is where with a connection | |
| `SocketsAreClosed` | `NoSocketLeft` | TLS |
| `LossesAreAnnounced` | `LossIsAnnounced` | |
| `ReconnectionsAreReady` | `ReconnectedIsReady` | no refusal has the code of a reconnection |
| `SilenceIsBounded` | `SilenceBounded` | |
| `WorkingLinkIsKept` | `GiveUpIsJustified`, an action property | every packet that arrives can be read |
| `BackoffIsExponential` | `BackoffGrows` | not mode `lazy`, no such refusal |
| `SessionKeepsItsPromise` | `SessionAsPromised`: `MqttSession` implements `SessionPromise` | no such refusal; first intervals are no longer than the longest |

`BaseInv` ties `is_connected`, `net` and `sockets` to the program counter. On it stand, each with a lemma over all
actions: `SocketInv` (exactly one descriptor, exactly while the link is not closed); `LossInv`
(the flag of a manual disconnection is seen only inside the callback `_handle_disconnect` makes);
`ReadyInv` (topics not yet asked for are still `todo`); `SilenceInv` (the silence so far and what is left on
`ping_timer` together stay within the bound, which is what makes `SilenceBounded` inductive over yields and
absences); `PingInv` (an outstanding ping has been waited for, but for what is left on the timer); and `BackoffInv` (what
is left of the delay, and what has passed, make up the interval).

For `SessionKeepsItsPromise`, `PromiseInv` adds what the program counter says of what was told: only a
client that reconnects by itself is in the loop without a connection, and it has not used up its attempts when it opens
one; and what `resub` has still to ask for is exactly the handles not yet requested. The step case has one lemma per group
of actions, each naming the action of `SessionPromise` it is, or that it is none.

`MqttSubscribe_proofs` proves, from `SubscribeAssumption`, for any filters, slots and number of calls:

| Theorem | | Hypothesis |
|---|---|---|
| `TypeCorrect` | `BaseInv`: `TypeOK`, and what a packet id stands for | |
| `EveryRequestIsAnswered` | `AcceptedIsAnswered` | |
| `ReadyMeansHeard` | `ReadyIsHeard` | |
| `GrantedIsHandled` | `GrantedHasOneHandle` | `Reliable`: no wildcard, refusal, failing send or full table |
| `OwnedMemory` | `MemoryIsOwned` | `Orderly`: no wildcard and no mishap |

`BaseInv` identifies: one handle per filter, one request per id, and what waits or is on its way was
accepted. `OrderInv` is the hard part of `ReadyMeansHeard`: a handle is of the *last* call for its filter,
so that a late UNSUBSCRIBE cannot follow its SUBSCRIBE; `StatusInv` then says that what a ready
handle stands for the broker knows, has refused (`Heard`), or is about to be asked by resubscribe. `KnownInv` is the converse
for `GrantedIsHandled`. `OwnerInv` counts owners: a call's memory is allocated exactly while a handle or a
waiting UNSUBSCRIBE points to it.

`MqttInbound_proofs` proves, from `InboundAssumption`, for packets, buffers and rings of every size and any number
of broken connections:

| Theorem | |
|---|---|
| `TypeCorrect` | `TypeInv`, and where the reading thread is in the stream |
| `PacketsAreCut` | `StreamAligned` |
| `AcksAreTrue` | `AckedIsDelivered` |
| `RepeatsAreDropped` | `RepeatIsDropped`, an action property |

`StreamInv` says that the stream is whole packets, but for the first, which begins where the reading
thread is inside it, and the last, when the connection has broken. `MessageInv` is about where a message is: to be sent
again, on its way, read, or its PUBACK on its way, in one place at a time (`ResendInv`, `WayInv`, `AcksInv`);
`DeliveryInv` needs that to say that the message of an id in the ring was delivered, unless it was given the id while it was there. `RingInv` is
about the place: an id is no further behind `cnt` than messages have come since (`Age`), so that fewer
than `RingLength` of them cannot have overwritten it, wherever the ring began and whatever was repeated.

Its last section but one proves, for filters and topics of any length and any characters:

| Theorem | |
|---|---|
| `TopicsAreMatched` | `TopicMatchAgrees`: a match is found exactly where the rules of MQTT have one, but for topics with an empty level and `#` for no level (section 7) |

Induction over the levels is not available, and not needed: `At(h, b)` says that `h` pairs each level of the filter before
`b` with its own of the name, and that the scan is as far in level `b` of the filter as in its partner, or has passed
a wildcard. `TopicInvariant` says that some `h` is so scanned, which at the end pairs all levels (`EndsArePaired`),
and that every `h` that pairs the whole filter is; such a scan stops early only in front of an empty level
(`PairedIsScanned`). A step at a "/" gives the next level its partner (`StepOverSlash`), any other stays in its level (`StepInLevel`).

Its last section proves of `MqttPacket`, for every packet the code can write or a broker answers with:

| Theorem | |
|---|---|
| `LengthsReadBack` | `LengthReadBack`, for each length up to the longest of MQTT, 268435455 |
| `PublishesReadBack` | `PublishReadBack`, for each buffer, topic, payload, id and flags, and whatever bytes are behind the packet |
| `AnswersAreRead` | `AnswersRead`, for each id, code and list of codes, with signed and unsigned `char` |

These are parts of `PacketsArrive`, which the run checks for a few packets. A length has one to four bytes: each case is a
lemma of arithmetic (`LengthIsWritten`, `LengthIsDecoded`, from `SevenBitsAtATime`). `PartsAre` finds the first byte,
the length and the contents of a packet in a buffer with other bytes behind it (from `AssembledIs` and `FrameIs`), `ContentsAre` the
topic, the id and the payload in the contents. Two hypotheses are limits of MQTT: a topic has one to 65535 bytes, as its
length takes two, and the buffer is no longer than the longest packet, for which no fifth byte of length exists. The third
is the SDK's: a SUBACK has at most 125 codes, so that its length is one byte; it never subscribes to more than one filter at a time.

`Services_proofs` proves, from `ServicesAssumption`, for any programs and number of contexts:

| Theorem | |
|---|---|
| `TypeCorrect` | `BaseInv`: types, and the context of a call that goes on |
| `ContextsHaveOwners` | `ContextsAreOwned` |
| `ServicesStayReached` | `ServicesAreReached` |
| `ClockStaysClose` | `ClockIsClose` |

`OwnInv` follows an UNSUBSCRIBE from its node to its request and its answer: it is in one of the two last places
at most, and its context belongs to no handle. `ReachedInv` needs `SettledInv`, that the requests on their way
end with the broker knowing each topic that has a handle, and `HandlesInv`, that a handle leads to what
registered first. `ClockInv` bounds the times in each answer by those of its request and of `now`. The
attempt to prove it showed that a request delayed without bound makes the clock wrong without bound; the
answer to one that is later than `MaxDelay` is therefore left out of the model.

`DataTemplate_proofs` proves, for any values and names and any number of messages and broken links:

| Theorem | |
|---|---|
| `TypeCorrect` | `TypeInv`, types in the detail the other two need |
| `CloudAgrees` | `ReportedAgrees` |
| `ActionsAreOwn` | `ActionInputsAreNew` |

`ReportedAgrees` and `ActionInputsAreNew` are inductive on top of `TypeInv`: what is on its way to the cloud is part of the first.

Only model-checked:

* Liveness (`AcceptedIsResolved`, `PublishReturns`, `OutageEnds`, `AnnouncementIsAnswered`): it needs fairness
  and ENABLED, which TLAPS does not reach.
* `JsonFindsTheValue`, `Base64RoundTrip`, `HttpBodyArrives` and
  `TransportTells`: these algorithms are recursive, or loops over what a call meets, and what they compute for
  every input takes induction over data. List, digest and match are proved because there each call, or turn of a loop, is a step.
* The rest of `PacketsArrive`: what a broker gets of SUBSCRIBE, UNSUBSCRIBE and CONNECT (`FiltersArrive`, `ConnectArrives`, `DeviceConnects`),
  since it reads as many strings as the packet has. PUBLISH, lengths and answers are proved.


## 7 What the models show of the code

The run `subscribe_timeout` is a trace of a model that follows the code: a SUBSCRIBE that
times out leaves a handle in the table that points to released memory
(`mqtt_client_subscribe.c:154`). `PROJECT.json` quotes the comment it contradicts.

Two more disagreements with the comments of the code are found by adding a property to a run:

* `subscribe_mishaps` with `Nacks <- SignedChar` violates `ReadyIsSubscribed`, which is what the comment of `IOT_MQTT_IsSubReady`
  says ("Check if MQTT topic has been subscribed or not", `qcloud_iot_mqtt_client.h:283`). `_read_char` returns a plain `char` (`mqtt_packet_deserialize.c:38`). Where it is signed, as
  with gcc on x86 (`config/toolchains/linux_x86_gcc.cmake` has no `-funsigned-char`), the 0x80 of a refused
  SUBSCRIBE is read as -128, which is not the 0x80 of `mqtt_client_subscribe.c:390`: the filter becomes ready
  and the application is told `MQTT_EVENT_SUBSCRIBE_SUCCESS`. `PacketsArrive` says what is read with either `char`;
  what becomes of it is in `MqttSubscribe` (`Nacks`).
* `inbound` violates `AtLeastOnce`, which is what QoS 1 is ("At least once delivery, PUBACK is required",
  `qcloud_iot_mqtt_client.h:134`). Nothing clears the ring of packet ids, and a broker does not know it. A new message
  with an id of the last ten, as in a new session, which begins with the first ids again, is dropped
  and acknowledged (`mqtt_client_publish.c:333`). `AckedIsDelivered` excepts that message and no other.

The following have no run of their own. Those that name a run come from its model with
other constants; the others are cases a property excepts, for the reason given
here.

*Publish*

* A PUBACK after the timeout gives `MQTT_EVENT_PUBLISH_TIMEOUT` and then `MQTT_EVENT_PUBLISH_SUCCESS` for one publish:
  the event is raised whether or not a node was found (`mqtt_client_publish.c:375-382`). The promise allows it
  (`Correct`). A PUBACK that is later still, when its id has come round and another publish has returned it, would be taken for that one's.
* `publish_threads` with `EventsAreTrue`: two threads can get one packet id
  (`mqtt_client_common.c:48`), after which one PUBACK answers for both.
* `publish_threads` with `RepublishOn = {"timeout"}`, one thread and three calls
  violates `PublishReturns`: the callback of a timeout, which runs with the list
  locked, waits for the write buffer, whose holder waits for the list.
* `publish_threads` with one thread and one call violates `RemovesListedNode`: a send
  that fails after the timeout of its node removes a node the yielding thread has
  already removed and released (`mqtt_client_publish.c:295`).

*Session*

* `session_safety` with mode `lazy`: a client constructed without a connection
  reconnects without delay and without end (`mqtt_client_yield.c:397`).
* `session_safety` with `Refusals = {1}` violates `ReconnectedIsReady`: CONNACK code 1
  equals `QCLOUD_RET_MQTT_RECONNECTED` (`mqtt_client_connect.c:75`), so that a refused
  connection is reported as reconnected, and the delay is not started.
* When a topic cannot be asked for again, the client stays connected, goes on without it and reports no
  reconnection (`NotResumed`); if that was the last attempt, yield may report that it has given up
  although the client is connected. The first
  yield after a loss reports that a reconnection is attempted, even if the callback has just connected.
* `session_safety` with `Tls = FALSE` violates `NoSocketLeft`: `HAL_TCP_Disconnect`
  does not close when `shutdown` fails.
* `session_outage` with `Unreadable = TRUE` violates `GiveUpIsJustified`: a packet that is too long or of
  no known type ends yield before the count of pings is cleared (`mqtt_client_yield.c:264`), and a link that
  has just brought one is given up.
* A keep alive below 1000 ms becomes 0, which turns it off. The CONNECT serializer checks the
  buffer without the fixed header; the options of a device fit all the same.

*Subscribe*

* `subscribe_orderly` with any one mishap violates `MemoryIsOwned` (`nack` where a refusal is read as 128); with `sendfail` or `full`,
  `GrantedHasOneHandle` as well.
* A resubscription that the broker refuses is not noticed (`mqtt_client_subscribe.c:383`): the handle stays ready. This
  and the refusal that is taken for a grant are why `ReadyIsHeard` says "known to the broker or refused last". The application
  hears of neither. `Services` assumes a broker that refuses nothing.
* Unsubscribing a filter with a wildcard removes all handles
  (`mqtt_client_subscribe.c:209`), and `IOT_MQTT_IsSubReady` of one answers with the status
  of the first slot (`mqtt_client_subscribe.c:580`).

*Incoming messages*

* A read that finds nothing inside a packet, or fails inside its length, is not taken
  for a loss, and the next read begins in the middle of the packet (`mqtt_client_yield.c:99`).
* A packet that is too long for the buffer by less than its fixed header loses the
  first bytes of the next one: a whole buffer is discarded (`mqtt_client_yield.c:131`).

*Services*

* When `IOT_MQTT_SubscribeSync` fails after it has sent, its caller releases a context the handle
  or the waiting node still owns (`system_mqtt.c:119`, and the same in each service).
* A second initialisation on a ready topic returns success and keeps the callback of
  the first; a second file management service gets no message.
* `IOT_Sys_GetTime` does not forget the last answer (`system_mqtt.c:200`): a second call may
  return the time of the first. `result->time * 1000` overflows 32 bits (`system_mqtt.c:88`).
* Methods of file management and types of OTA messages are compared by the length of what arrived, so
  that a part of a name is taken for every name that begins with it.

*Data template*

* A report that is sent on a link that is not up any more is lost and its
  flags stay cleared (`data_template_config.c:397`); a control with a value that cannot be
  read clears `need_report` of a change the application made. `ReportedAgrees` excepts both.
* Setting a string property replaces the pointer by the caller's (`data_template_config.c:316`): a
  later control writes into the literal, which ends the program (`ParseStops`).
  `usr_data_template_property_struct_value_set` stores nothing (`data_template_config.c:339`).

*Download*

* A download that is resumed without fragments sends no request, and ends in a timeout
  each time until another firmware is announced (`cos_download.c:213`).
* `ota_download` without the exceptions for `"full"` and `"open"` in its properties: a full
  disk makes a success of a damaged file (`ota_firmware_save.c:126`), and a
  restoration that fails half-way a mismatch of a correct one (`ota_downloader.c:184`).
  The file of a shorter firmware keeps the tail of the longer one before it
  (`ota_firmware_finish` does nothing): the properties are about the announced blocks.
* A chunk whose data contains CRLF is corrupted (`http_client.c:331`), and one that ends with what
  has arrived is cut short (`http_client.c:362`).

*Transports and algorithms*

* A "#" is not found to match the level above it, nor "+" and "#" an empty level (`mqtt_client_publish.c:152`);
  `TopicMatchAgrees` leaves both out. A wildcard also matches topics that begin with "$", which MQTT leaves to the broker.
* `HAL_TCP_Write` with timeout 0 returns success and has sent nothing
  (`HAL_TCP_linux.c:173`). A TLS write whose timer expires adds a negative code to its
  count (`qcloud_iot_tls_client.c:329`), and the handshake has no timer (`qcloud_iot_tls_client.c:258`).
* A report longer than its buffer is published with the bytes behind the text, and
  `IOT_FileManage_ReportFileList` writes behind the buffer (`file_manage.c:375`). Names and
  versions are not escaped.
* `utils_json_value_get` takes a quote behind a backslash for an escaped one, also when the backslash is itself
  escaped (`utils_json.c:147`), so that a string that ends in a backslash is not found or swallows what follows; it
  counts brackets and braces in the strings of nested values (`utils_json.c:256`); and it ends a key at any quote.
  `JsonFindsTheValue` holds of the other documents (`Readable`): of the 322 documents of the run 170, while it fails on 138
  of the remaining 152. The search does not know exponents, or newlines between tokens; a leading 0 is read as octal.

## 8 Not modelled

* `IOT_MQTT_Connect` by the application and subscriptions: it opens a clean session
  without resubscribing (`mqtt_client.c:352`). `MqttSubscribe` has only the
  reconnection by yield.
* Callbacks of subscriptions that call back into the client, and `default_subscribe`.
* Several threads in `MqttSession`, `MqttSubscribe`, `MqttInbound` and `Services`: their functions run in the
  yielding thread, but for subscribe and unsubscribe. The handler of a message that another
  thread unsubscribes between lookup and call (`mqtt_client_publish.c:183`) is therefore out of reach.
* `IOT_COS_DownloadInit` and `IOT_HTTP_Init` when an allocation fails: `IOT_COS_DownloadInit` then passes
  a `http_request.header` that was never set to `HAL_Free` (`cos_download.c:184`). No property depends on it.
* Event posts, replies of the data template, and the texts of its messages: they keep no state of
  their own.
* Services that ignore HTTP ranges; loss of power, with which
  writes may reach the disk in another order; the percentage in progress reports.
* The compression functions of MD5 and SHA-1, which test vectors settle; mbedtls and the operating system, whose
  answers are inputs; the log; samples and configuration.

## 9 Plan

1. *Abstract specifications*: a download fetches the announced file or reports an error, implemented by
   `OtaDownload`; what a subscription promises, implemented by `MqttSubscribe` and assumed by `Services`, which
   now states that assumption itself.
2. *Proofs*: these two, from the invariants of section 6; a weaker hypothesis of
   `EventsTellTheTruth`, that no PUBACK is late by as many calls as there are ids.
3. *Threads* that subscribe and unsubscribe while another one yields and delivers.
