-------------------------- MODULE OtaDownload_proofs --------------------------
(***************************************************************************)
(* What holds of OtaDownload for firmwares and buffers of every size and   *)
(* every set of mishaps.  IInv says what the digest in memory is worth:    *)
(* at least as many blocks as the break point counts, and exactly those on *)
(* disk unless a write was lost in this download.                          *)
(***************************************************************************)
EXTENDS OtaDownload, MessageDigest, SequenceFacts, TLAPS

Response == [at : Nat, length : Nat]

\* A download is under way with an announced firmware and no result yet.
StatusInv ==
    /\ pc \notin {"starting", "idle"} => status = "downloading"
    /\ status = "downloading" => download_now \in Firmwares /\ report = "none"
    /\ report # "none" => download_now \in Firmwares

\* What the client still expects belongs to the first response; before a request
\* there is room for another response.
ResponsesInv ==
    /\ cos.need > 0 => responses # << >> /\ cos.need <= Head(responses).length
    /\ cos.need = 0 \/ cos.position = 0 => Len(responses) < MaxResponses
    /\ pc \notin {"fetch", "save", "truncate", "write"} => cos.need = 0

\* Restoring may have begun and failed: then the digest is longer than the break
\* point says, for good.
DigestInv ==
    /\ pc = "check" => download_md5 = << >>
    /\ pc \in {"connect", "fetch", "save", "truncate", "write"} =>
         /\ Len(download_md5) >= break_point.downloaded_size
         /\ "open" \notin seen => Len(download_md5) = break_point.downloaded_size
         /\ Len(download_md5) = break_point.downloaded_size /\ "full" \notin seen =>
              \A i \in 1 .. Len(download_md5) : download_md5[i] = Stored(i)
    /\ pc = "truncate" /\ "full" \notin seen =>
         \A i \in 1 .. Len(download_buff) :
            download_buff[i] = Stored(break_point.downloaded_size + i)

IInv ==
    /\ TypeOK
    /\ StatusInv
    /\ ResponsesInv
    /\ DigestInv
    /\ StoredWhenReported
    /\ MismatchIsReal

\* A block that is read is a block that was stored, or Blank.
LEMMA StoredIsData ==
  ASSUME TypeOK, NEW i \in Nat
  PROVE  Stored(i) \in Data
<1>1. CASE i \in DOMAIN firmware_file
  BY <1>1 DEF TypeOK, Stored
<1>2. CASE i \notin DOMAIN firmware_file
  BY <1>2 DEF Stored, Data
<1> QED
  BY <1>1, <1>2

\* The responses the client waits for, its new request included.
LEMMA QueueFacts ==
  ASSUME TypeOK, StatusInv, ResponsesInv, pc = "fetch"
  PROVE  /\ FileSize \in Nat
         /\ Queue \in Seq(Response)
         /\ Len(Queue) <= MaxResponses
         /\ Left \in Nat
         /\ Left > 0 => Queue # << >> /\ Left <= Head(Queue).length
<1>1. FileSize \in Nat \ {0}
  BY DownloadAssumption DEF DownloadAssumption, StatusInv, FileSize
<1>2. Answer \in Response
  BY <1>1, DownloadAssumption DEF DownloadAssumption, TypeOK, Answer, Response, min_http
<1>3. responses \in Seq(Response)
  BY DEF TypeOK, Response
<1>4. Queue \in Seq(Response) /\ Len(Queue) <= MaxResponses
  BY <1>2, <1>3, DownloadAssumption
     DEF DownloadAssumption, TypeOK, ResponsesInv, Queue, Requests
<1>5. CASE cos.need > 0
  <2>1. responses # << >> /\ Head(Queue) = Head(responses) /\ Queue # << >>
    BY <1>2, <1>3, <1>5 DEF ResponsesInv, Queue
  <2>2. Left = cos.need /\ cos.need \in Nat
    BY <1>5 DEF TypeOK, Left
  <2> QED
    BY <1>1, <1>4, <1>5, <2>1, <2>2 DEF ResponsesInv
<1>6. CASE ~(cos.need > 0) /\ Queue # << >>
  <2>1. cos.need = 0
    BY <1>6 DEF TypeOK
  <2>2. Head(Queue) \in Response
    BY <1>4, <1>6
  <2>3. Left = Head(Queue).length
    BY <1>6, <2>1 DEF Left
  <2> QED
    BY <1>1, <1>4, <1>6, <2>2, <2>3 DEF Response
<1>7. CASE ~(cos.need > 0) /\ Queue = << >>
  <2>1. Left = 0
    BY <1>7 DEF Left
  <2> QED
    BY <1>1, <1>4, <2>1
<1> QED
  BY <1>5, <1>6, <1>7

\* The blocks that arrive are blocks of the announced firmware.
LEMMA ReceivedBlocks ==
  ASSUME TypeOK, StatusInv, ResponsesInv, pc = "fetch", NEW n \in Nat, n <= Left, n > 0
  PROVE  Received(n) \in Seq(Data) /\ Len(Received(n)) = n
<1>1. /\ Head(Queue).at \in Nat /\ Head(Queue).length \in Nat
      /\ Left \in Nat /\ Left <= Head(Queue).length
  <2>1. /\ Queue \in Seq(Response) /\ Queue # << >>
        /\ Left \in Nat /\ Left <= Head(Queue).length
    <3>1. Queue \in Seq(Response) /\ Left \in Nat
      BY QueueFacts
    <3>2. Left > 0
      BY <3>1
    <3> QED
      BY QueueFacts, <3>1, <3>2
  <2>2. Head(Queue) \in Response
    BY <2>1
  <2> QED
    BY <2>1, <2>2 DEF Response
<1>2. download_now \in Firmwares
  BY DEF StatusInv
<1> DEFINE first == Head(Queue).at + Head(Queue).length - Left
<1>3. first \in Nat
  BY <1>1
<1>4. \A i \in 1 .. n : <<download_now, first + i>> \in Data
  BY <1>2, <1>3 DEF Data
<1> HIDE DEF first
<1>5. [i \in 1 .. n |-> <<download_now, first + i>>] \in Seq(Data)
  BY <1>4
<1> QED
  BY <1>5 DEF Received, first

\* A write leaves the blocks before its offset alone and stores the first n blocks.
LEMMA WrittenBlocks ==
  ASSUME TypeOK, NEW n \in Nat, n <= Len(download_buff),
         firmware_file' = Written(n), break_point' = break_point
  PROVE  /\ firmware_file' \in Seq(Data)
         /\ \A i \in 1 .. break_point.downloaded_size : Stored(i)' = Stored(i)
         /\ \A i \in 1 .. n : Stored(break_point.downloaded_size + i)' = download_buff[i]
<1> DEFINE offset == break_point.downloaded_size
           last == IF n > 0 /\ offset + n > Len(firmware_file)
                   THEN offset + n ELSE Len(firmware_file)
<1>1. offset \in Nat /\ last \in Nat /\ Len(firmware_file) \in Nat
  BY DEF TypeOK
<1>2. /\ DOMAIN firmware_file = 1 .. Len(firmware_file)
      /\ \A i \in 1 .. Len(firmware_file) : firmware_file[i] \in Data
      /\ \A i \in 1 .. Len(download_buff) : download_buff[i] \in Data
  BY DEF TypeOK
<1>3. firmware_file' = [i \in 1 .. last |->
                          IF i \in offset + 1 .. offset + n THEN download_buff[i - offset]
                          ELSE Stored(i)]
  BY DEF Written, WrittenAt
<1>4. DOMAIN firmware_file' = 1 .. last
  BY <1>3
<1> HIDE DEF offset
<1>5. \A i \in 1 .. last : firmware_file'[i] \in Data
  <2> SUFFICES ASSUME NEW i \in 1 .. last PROVE firmware_file'[i] \in Data
    OBVIOUS
  <2>1. CASE i \in offset + 1 .. offset + n
    <3>1. i - offset \in 1 .. Len(download_buff)
      BY <1>1, <2>1 DEF TypeOK
    <3> QED
      BY <1>2, <1>3, <2>1, <3>1
  <2>2. CASE i \notin offset + 1 .. offset + n
    BY <1>1, <1>3, <2>2, StoredIsData
  <2> QED
    BY <2>1, <2>2
<1>6. firmware_file' \in Seq(Data)
  <2>1. firmware_file' = [i \in 1 .. last |-> firmware_file'[i]]
    BY <1>3
  <2> QED
    BY <1>1, <1>5, <2>1
<1>7. ASSUME NEW i \in 1 .. offset PROVE Stored(i)' = Stored(i)
  <2>1. i \notin offset + 1 .. offset + n /\ i \in Nat
    BY <1>1
  <2>2. CASE i \in 1 .. last
    BY <1>3, <1>4, <2>1, <2>2 DEF Stored
  <2>3. CASE i \notin 1 .. last
    <3>1. i \notin 1 .. Len(firmware_file)
      BY <1>1, <2>3
    <3> QED
      BY <1>2, <1>4, <2>3, <3>1 DEF Stored
  <2> QED
    BY <2>2, <2>3
<1>8. ASSUME NEW i \in 1 .. n
      PROVE  Stored(break_point.downloaded_size + i)' = download_buff[i]
  <2>1. offset + i \in 1 .. last /\ offset + i \in offset + 1 .. offset + n
    BY <1>1
  <2>2. (offset + i) - offset = i
    BY <1>1
  <2>3. firmware_file'[offset + i] = download_buff[i]
    BY <1>3, <2>1, <2>2
  <2>4. break_point'.downloaded_size = offset
    BY DEF offset
  <2> QED
    BY <1>4, <2>1, <2>3, <2>4 DEF Stored
<1> QED
  BY <1>6, <1>7, <1>8 DEF offset

\* What the steps before the result have in common: none is reported.
Unreported == TypeOK /\ StatusInv /\ ResponsesInv /\ DigestInv /\ report = "none"

LEMMA UnreportedSuffices ==
  Unreported => IInv
BY DEF Unreported, IInv, StoredWhenReported, MismatchIsReal

LEMMA RunningIsUnreported ==
  IInv /\ (pc \notin {"starting", "idle"} \/ status = "downloading")
    => Unreported /\ download_now \in Firmwares /\ status = "downloading"
BY DEF Unreported, IInv, StatusInv

\* The end of a download, whatever its result.
LEMMA FinishKeeps ==
  ASSUME IInv, download_now \in Firmwares,
         NEW result \in {"success", "md5_not_match", "download_timeout", "upgrade_fail"},
         Finish(result),
         break_point_file' \in {break_point_file, NoBreakPoint},
         download_md5' \in Seq(Data), download_buff' = download_buff, seen' \subseteq Mishaps
  PROVE  /\ TypeOK' /\ StatusInv' /\ ResponsesInv' /\ DigestInv'
         /\ result \notin {"success", "md5_not_match"} => IInv'
<1>1. TypeOK'
  BY DownloadAssumption
     DEF DownloadAssumption, IInv, TypeOK, Finish, NoBreakPoint, NoDownload
<1>2. StatusInv'
  BY DEF Finish, StatusInv
<1>3. ResponsesInv'
  BY DownloadAssumption DEF DownloadAssumption, Finish, ResponsesInv, NoDownload
<1>4. DigestInv'
  BY DEF Finish, DigestInv
<1>5. result \notin {"success", "md5_not_match"} => StoredWhenReported' /\ MismatchIsReal'
  BY DEF Finish, StoredWhenReported, MismatchIsReal
<1> QED
  BY <1>1, <1>2, <1>3, <1>4, <1>5 DEF IInv

\* A download that fails.
LEMMA FailKeeps ==
  ASSUME IInv, pc \notin {"starting", "idle"},
         NEW result \in {"download_timeout", "upgrade_fail"}, Fail(result),
         seen' \subseteq Mishaps
  PROVE  IInv'
<1>1. download_now \in Firmwares
  BY RunningIsUnreported
<1>2. Finish(result) /\ break_point_file' = break_point_file /\ download_buff' = download_buff
      /\ download_md5' \in Seq(Data)
  BY DEF Fail, IInv, TypeOK
<1> QED
  BY <1>1, <1>2, FinishKeeps

LEMMA FailByKeeps ==
  ASSUME IInv, pc \notin {"starting", "idle"}, NEW mishap,
         NEW result \in {"download_timeout", "upgrade_fail"}, FailBy(mishap, result)
  PROVE  IInv'
<1>1. Fail(result) /\ seen' \subseteq Mishaps
  BY DEF FailBy, IInv, TypeOK
<1> QED
  BY <1>1, FailKeeps

\* The digest of a whole file is the digest of the announced one exactly if the file
\* on disk is the announced one: what Succeed and Mismatch report.
LEMMA DigestDecides ==
  ASSUME IInv, pc = "fetch", IsOver
  PROVE  /\ Valid /\ "full" \notin seen =>
              \A i \in 1 .. FileSize : Stored(i) = <<download_now, i>>
         /\ ~Valid /\ seen \cap {"open", "full"} = {} =>
              \E i \in 1 .. FileSize : Stored(i) # <<download_now, i>>
<1>1. FileSize \in Nat /\ FileSize = break_point.downloaded_size
  <2>1. download_now \in Firmwares
    BY RunningIsUnreported
  <2> QED
    BY <2>1, DownloadAssumption DEF DownloadAssumption, FileSize, IsOver
<1>2. Content(download_now) = [i \in 1 .. FileSize |-> <<download_now, i>>]
  BY DEF Content, FileSize
<1>3. download_md5 \in Seq(Data)
  BY DEF IInv, TypeOK
<1>4. /\ "open" \notin seen => Len(download_md5) = break_point.downloaded_size
      /\ Len(download_md5) = break_point.downloaded_size /\ "full" \notin seen =>
           \A i \in 1 .. Len(download_md5) : download_md5[i] = Stored(i)
  BY DEF IInv, DigestInv
<1>5. ASSUME Valid, "full" \notin seen, NEW i \in 1 .. FileSize
      PROVE  Stored(i) = <<download_now, i>>
  <2>1. download_md5 = [j \in 1 .. FileSize |-> <<download_now, j>>]
    BY <1>2, <1>5 DEF Valid
  <2>2. Len(download_md5) = FileSize
    BY <1>1, <1>3, <2>1
  <2> QED
    BY <1>1, <1>4, <1>5, <2>1, <2>2
<1>6. ASSUME seen \cap {"open", "full"} = {},
             \A i \in 1 .. FileSize : Stored(i) = <<download_now, i>>
      PROVE  Valid
  <2>1. Len(download_md5) = FileSize
        /\ \A i \in 1 .. FileSize : download_md5[i] = <<download_now, i>>
    BY <1>1, <1>4, <1>6
  <2>2. download_md5 = [i \in 1 .. FileSize |-> download_md5[i]]
    BY <1>3, <2>1
  <2> QED
    BY <1>2, <2>1, <2>2 DEF Valid
<1> QED
  BY <1>5, <1>6

LEMMA InitEstablishesIInv ==
  Init => IInv
<1> SUFFICES ASSUME Init PROVE IInv
  OBVIOUS
<1>1. TypeOK
  BY DownloadAssumption DEF DownloadAssumption, Init, TypeOK, NoBreakPoint, NoDownload
<1>2. ResponsesInv
  BY DownloadAssumption DEF DownloadAssumption, Init, ResponsesInv, NoDownload
<1>3. StatusInv /\ DigestInv /\ report = "none"
  BY DEF Init, StatusInv, DigestInv
<1> QED
  BY <1>1, <1>2, <1>3, UnreportedSuffices DEF Unreported

\* Start, Announce, Crash: no download is under way afterwards.
LEMMA OutsideKeeps ==
  ASSUME IInv, Start \/ (\E f \in Firmwares : Announce(f)) \/ Crash
  PROVE  IInv'
<1> USE DEF disk
<1>1. CASE Start
  <2>1. TypeOK'
    BY <1>1 DEF Start, IInv, TypeOK
  <2>2. StatusInv' /\ DigestInv'
    BY <1>1 DEF Start, IInv, StatusInv, DigestInv
  <2>3. ResponsesInv'
    BY <1>1 DEF Start, IInv, ResponsesInv
  <2>4. StoredWhenReported' /\ MismatchIsReal'
    BY <1>1 DEF Start, IInv, StoredWhenReported, MismatchIsReal, FileSize, Stored
  <2> QED
    BY <2>1, <2>2, <2>3, <2>4 DEF IInv
<1>2. CASE \E f \in Firmwares : Announce(f)
  <2> PICK f \in Firmwares : Announce(f)
    BY <1>2
  <2>1. TypeOK'
    BY DEF Announce, IInv, TypeOK
  <2>2. StatusInv' /\ DigestInv'
    BY DEF Announce, IInv, StatusInv, DigestInv
  <2>3. ResponsesInv'
    BY DEF Announce, IInv, ResponsesInv
  <2>4. StoredWhenReported' /\ MismatchIsReal'
    BY DEF Announce, StoredWhenReported, MismatchIsReal
  <2> QED
    BY <2>1, <2>2, <2>3, <2>4 DEF IInv
<1>3. CASE Crash
  <2>1. TypeOK'
    BY <1>3, DownloadAssumption
       DEF DownloadAssumption, Crash, IInv, TypeOK, NoBreakPoint, NoDownload
  <2>2. StatusInv' /\ DigestInv'
    BY <1>3 DEF Crash, StatusInv, DigestInv
  <2>3. ResponsesInv'
    BY <1>3, DownloadAssumption DEF DownloadAssumption, Crash, ResponsesInv, NoDownload
  <2>4. StoredWhenReported' /\ MismatchIsReal'
    BY <1>3 DEF Crash, StoredWhenReported, MismatchIsReal
  <2> QED
    BY <2>1, <2>2, <2>3, <2>4 DEF IInv
<1> QED
  BY <1>1, <1>2, <1>3

\* Reading the break point, restoring and connecting.
LEMMA PreparationKeeps ==
  ASSUME IInv, Begin \/ BeginFails \/ SetBreakPoint \/ Restoring \/ Connecting
  PROVE  IInv'
<1> USE DEF disk
<1>1. CASE Begin
  <2>1. Unreported /\ download_now \in Firmwares
    BY <1>1, RunningIsUnreported DEF Begin
  <2>2. TypeOK'
    BY <1>1, <2>1 DEF Begin, Unreported, TypeOK
  <2>3. StatusInv' /\ DigestInv' /\ report' = "none"
    BY <1>1, <2>1 DEF Begin, Unreported, StatusInv, DigestInv
  <2>4. ResponsesInv'
    BY <1>1, <2>1 DEF Begin, Unreported, ResponsesInv
  <2> QED
    BY <2>2, <2>3, <2>4, UnreportedSuffices DEF Unreported, IInv, StoredWhenReported,
       MismatchIsReal
<1>2. CASE BeginFails
  <2>1. download_now \in Firmwares
    BY <1>2, RunningIsUnreported DEF BeginFails
  <2>2. /\ Finish("upgrade_fail") /\ break_point_file' = break_point_file
        /\ download_md5' \in Seq(Data) /\ download_buff' = download_buff
        /\ seen' \subseteq Mishaps
    BY <1>2 DEF BeginFails
  <2> QED
    BY <2>1, <2>2, FinishKeeps
<1>3. CASE SetBreakPoint
  <2>1. Unreported /\ download_now \in Firmwares
    BY <1>3, RunningIsUnreported DEF SetBreakPoint
  <2>2. TypeOK'
    BY <1>3, <2>1 DEF SetBreakPoint, Unreported, TypeOK
  <2>3. StatusInv' /\ report' = "none"
    BY <1>3, <2>1 DEF SetBreakPoint, Unreported, StatusInv
  <2>4. ResponsesInv'
    BY <1>3, <2>1 DEF SetBreakPoint, Unreported, ResponsesInv
  <2>5. DigestInv'
    BY <1>3, <2>1 DEF SetBreakPoint, Unreported, DigestInv
  <2> QED
    BY <2>2, <2>3, <2>4, <2>5 DEF IInv, StoredWhenReported, MismatchIsReal
<1>4. ASSUME Restore PROVE IInv'
  <2>1. Unreported /\ download_now \in Firmwares
    BY <1>4, RunningIsUnreported DEF Restore
  <2>2. break_point.downloaded_size \in Nat /\ download_md5 = << >>
    BY <1>4, <2>1 DEF Restore, Unreported, TypeOK, DigestInv
  <2>3. [i \in 1 .. break_point.downloaded_size |-> Stored(i)] \in Seq(Data)
    <3>1. \A i \in 1 .. break_point.downloaded_size : Stored(i) \in Data
      BY <2>1, <2>2, StoredIsData DEF Unreported
    <3> QED
      BY <2>2, <3>1
  <2>4. download_md5' = [i \in 1 .. break_point.downloaded_size |-> Stored(i)]
    <3>1. \A r \in Seq(Data) : << >> \o r = r
      OBVIOUS
    <3> QED
      BY <1>4, <2>2, <2>3, <3>1 DEF Restore
  <2>5. TypeOK'
    BY <1>4, <2>1, <2>3, <2>4 DEF Restore, Unreported, TypeOK
  <2>6. StatusInv' /\ report' = "none"
    BY <1>4, <2>1 DEF Restore, Unreported, StatusInv
  <2>7. ResponsesInv'
    BY <1>4, <2>1 DEF Restore, Unreported, ResponsesInv
  <2>8. DigestInv'
    <3>1. Len(download_md5') = break_point.downloaded_size
          /\ \A i \in 1 .. break_point.downloaded_size : download_md5'[i] = Stored(i)
      BY <2>2, <2>4
    <3>2. \A i : Stored(i)' = Stored(i)
      BY <1>4 DEF Restore, Stored
    <3>3. pc' = "connect" /\ break_point' = break_point
      BY <1>4 DEF Restore
    <3> QED
      BY <2>2, <3>1, <3>2, <3>3 DEF DigestInv
  <2> QED
    BY <2>5, <2>6, <2>7, <2>8 DEF IInv, StoredWhenReported, MismatchIsReal
<1>5. ASSUME NEW n \in 0 .. break_point.downloaded_size, RestoreFails(n) PROVE IInv'
  <2>1. Unreported /\ download_now \in Firmwares
    BY <1>5, RunningIsUnreported DEF RestoreFails
  <2>2. break_point.downloaded_size \in Nat /\ download_md5 = << >> /\ n \in Nat
    BY <1>5, <2>1 DEF RestoreFails, Unreported, TypeOK, DigestInv
  <2> DEFINE k == n * BufSize
  <2>3. k \in Nat
    <3>1. BufSize \in Nat
      BY DownloadAssumption DEF DownloadAssumption
    <3> QED
      BY <2>2, <3>1
  <2>4. download_md5' = download_md5 \o [i \in 1 .. k |-> Stored(i)]
    BY <1>5 DEF RestoreFails
  <2> HIDE DEF k
  <2>5. [i \in 1 .. k |-> Stored(i)] \in Seq(Data)
    <3>1. \A i \in 1 .. k : Stored(i) \in Data
      BY <2>1, <2>3, StoredIsData DEF Unreported
    <3> QED
      BY <2>3, <3>1
  <2>6. download_md5' = [i \in 1 .. k |-> Stored(i)]
    <3>1. \A r \in Seq(Data) : << >> \o r = r
      OBVIOUS
    <3> QED
      BY <2>2, <2>4, <2>5, <3>1
  <2>7. TypeOK'
    BY <1>5, <2>1, <2>5, <2>6 DEF RestoreFails, Unreported, TypeOK
  <2>8. StatusInv' /\ report' = "none"
    BY <1>5, <2>1 DEF RestoreFails, Unreported, StatusInv
  <2>9. ResponsesInv'
    BY <1>5, <2>1 DEF RestoreFails, Unreported, ResponsesInv
  <2>10. DigestInv'
    <3>1. Len(download_md5') = k
      BY <2>3, <2>6
    <3>2. \A i \in 1 .. Len(download_md5') : download_md5'[i] = Stored(i)
      BY <2>3, <2>6, <3>1
    <3>3. \A i : Stored(i)' = Stored(i)
      BY <1>5 DEF RestoreFails, Stored
    <3>4. pc' = "connect" /\ "open" \in seen' /\ break_point'.downloaded_size = 0
      BY <1>5, <2>1 DEF RestoreFails, Unreported, TypeOK
    <3> QED
      BY <2>3, <3>1, <3>2, <3>3, <3>4 DEF DigestInv
  <2> QED
    BY <2>7, <2>8, <2>9, <2>10 DEF IInv, StoredWhenReported, MismatchIsReal
<1>6. ASSUME NEW fragmented \in Fragmentation, Connect(fragmented) PROVE IInv'
  <2>1. Unreported /\ download_now \in Firmwares
    BY <1>6, RunningIsUnreported DEF Connect
  <2>2. TypeOK'
    BY <1>6, <2>1, DownloadAssumption DEF DownloadAssumption, Connect, Unreported, TypeOK
  <2>3. StatusInv' /\ report' = "none"
    BY <1>6, <2>1 DEF Connect, Unreported, StatusInv
  <2>4. ResponsesInv'
    BY <1>6, <2>1 DEF Connect, Unreported, ResponsesInv
  <2>5. DigestInv'
    BY <1>6, <2>1 DEF Connect, Unreported, DigestInv, Stored
  <2> QED
    BY <2>2, <2>3, <2>4, <2>5 DEF IInv, StoredWhenReported, MismatchIsReal
<1>7. CASE ConnectFails
  BY <1>7, FailByKeeps DEF ConnectFails
<1> QED
  BY <1>1, <1>2, <1>3, <1>4, <1>5, <1>6, <1>7 DEF Restoring, Connecting

\* Receiving.
LEMMA FetchingKeeps ==
  ASSUME IInv, Fetching
  PROVE  IInv'
<1> USE DEF disk
<1>1. pc = "fetch"
  BY DEF Fetching, FetchSome, Fetch, FetchNothing, FetchFails, FetchRefused, FetchUnanswered
<1>2. Unreported /\ download_now \in Firmwares
  BY <1>1, RunningIsUnreported
<1>3. /\ FileSize \in Nat /\ Queue \in Seq(Response) /\ Len(Queue) <= MaxResponses
      /\ Left \in Nat
      /\ Left > 0 => Queue # << >> /\ Left <= Head(Queue).length
  BY <1>1, <1>2, QueueFacts DEF Unreported
<1>4. cos.position \in Nat /\ cos.is_fragmentation \in BOOLEAN /\ MaxResponses \in Nat
  BY <1>2, DownloadAssumption DEF DownloadAssumption, Unreported, TypeOK
<1>5. ASSUME NEW n \in 1 .. BufSize, Fetch(n) PROVE IInv'
  <2>1. n \in Nat /\ n > 0 /\ n <= Left /\ n <= BufSize /\ Left - n \in Nat
    BY <1>3, <1>5, DownloadAssumption DEF DownloadAssumption, Fetch
  <2>2. Queue # << >> /\ Left <= Head(Queue).length
    BY <1>3, <2>1
  <2>3. download_buff' \in Seq(Data) /\ Len(download_buff') = n
    BY <1>1, <1>2, <1>5, <2>1, ReceivedBlocks DEF Fetch, Unreported
  <2>4. /\ responses' \in Seq(Response)
        /\ Len(responses') <= MaxResponses
        /\ n = Left => Len(responses') < MaxResponses
        /\ n # Left => responses' = Queue
    BY <1>3, <1>4, <1>5, <2>1, <2>2 DEF Fetch
  <2>5. cos' = [position |-> cos.position + n, is_fragmentation |-> cos.is_fragmentation,
                need |-> Left - n]
    BY <1>2, <1>5 DEF Fetch, Unreported, TypeOK
  <2>6. TypeOK'
    <3>1. cos' \in [position : Nat, is_fragmentation : BOOLEAN, need : Nat]
      BY <1>4, <2>1, <2>5
    <3> QED
      BY <1>2, <1>5, <2>1, <2>3, <2>4, <3>1 DEF Fetch, Unreported, TypeOK, Response
  <2>7. StatusInv' /\ report' = "none"
    BY <1>2, <1>5 DEF Fetch, Unreported, StatusInv
  <2>8. ResponsesInv'
    <3>1. Left - n > 0 => responses' # << >> /\ Left - n <= Head(responses').length
      <4>1. CASE n = Left
        BY <1>3, <2>1, <4>1
      <4>2. CASE n # Left
        <5>1. Head(Queue) \in Response
          BY <1>3, <2>2
        <5> QED
          BY <1>3, <2>1, <2>2, <2>4, <4>2, <5>1 DEF Response
      <4> QED
        BY <4>1, <4>2
    <3>2. Left - n = 0 => n = Left
      BY <1>3, <2>1
    <3>3. cos.position + n # 0
      BY <1>4, <2>1
    <3>4. pc' = "save"
      BY <1>5 DEF Fetch
    <3> QED
      BY <2>4, <2>5, <3>1, <3>2, <3>3, <3>4 DEF ResponsesInv
  <2>9. DigestInv'
    BY <1>1, <1>2, <1>5 DEF Fetch, Unreported, DigestInv, Stored
  <2> QED
    BY <2>6, <2>7, <2>8, <2>9 DEF IInv, StoredWhenReported, MismatchIsReal
<1>6. CASE FetchNothing
  <2>1. /\ Queue # << >> /\ Left <= Head(Queue).length /\ Left > 0
        /\ Len(Queue) < MaxResponses /\ responses' = Queue
    BY <1>3, <1>6 DEF FetchNothing
  <2>2. cos' = [position |-> cos.position, is_fragmentation |-> cos.is_fragmentation,
                need |-> Left]
    BY <1>2, <1>6 DEF FetchNothing, Unreported, TypeOK
  <2>3. TypeOK'
    <3>1. cos' \in [position : Nat, is_fragmentation : BOOLEAN, need : Nat]
      BY <1>3, <1>4, <2>2
    <3>2. download_buff' \in Seq(Data) /\ Len(download_buff') <= BufSize
      BY <1>6, DownloadAssumption DEF FetchNothing, DownloadAssumption
    <3> QED
      BY <1>2, <1>3, <1>6, <2>1, <3>1, <3>2 DEF FetchNothing, Unreported, TypeOK, Response
  <2>4. StatusInv' /\ report' = "none"
    BY <1>2, <1>6 DEF FetchNothing, Unreported, StatusInv
  <2>5. ResponsesInv'
    BY <1>3, <1>6, <2>1, <2>2 DEF FetchNothing, ResponsesInv
  <2>6. DigestInv'
    BY <1>1, <1>2, <1>6 DEF FetchNothing, Unreported, DigestInv, Stored
  <2> QED
    BY <2>3, <2>4, <2>5, <2>6 DEF IInv, StoredWhenReported, MismatchIsReal
<1>7. CASE FetchFails
  BY <1>1, <1>7, FailByKeeps DEF FetchFails
<1>8. CASE FetchRefused
  BY <1>1, <1>8, FailByKeeps DEF FetchRefused
<1>9. CASE FetchUnanswered
  <2>1. seen' \subseteq Mishaps
    BY <1>2, <1>9 DEF FetchUnanswered, Unreported, TypeOK
  <2> QED
    BY <1>1, <1>9, <2>1, FailKeeps DEF FetchUnanswered
<1> QED
  BY <1>5, <1>6, <1>7, <1>8, <1>9 DEF Fetching, FetchSome

\* Writing the blocks.
LEMMA SavingKeeps ==
  ASSUME IInv, Saving
  PROVE  IInv'
<1> USE DEF disk, memory
<1>1. ASSUME NEW n \in 0 .. BufSize, SaveData(n) PROVE IInv'
  <2>1. Unreported /\ pc = "save"
    BY <1>1, RunningIsUnreported DEF SaveData
  <2>2. n \in Nat /\ n <= Len(download_buff) /\ break_point' = break_point
        /\ firmware_file' = Written(n) /\ download_buff' = download_buff
        /\ download_md5' = download_md5 /\ pc' = "truncate"
    BY <1>1, DownloadAssumption DEF DownloadAssumption, SaveData
  <2>3. /\ firmware_file' \in Seq(Data)
        /\ \A i \in 1 .. break_point.downloaded_size : Stored(i)' = Stored(i)
        /\ \A i \in 1 .. n : Stored(break_point.downloaded_size + i)' = download_buff[i]
    BY <2>1, <2>2, WrittenBlocks DEF Unreported
  <2>4. /\ seen' \subseteq Mishaps /\ seen \subseteq seen'
        /\ "open" \in seen' <=> "open" \in seen
        /\ "full" \notin seen' => n = Len(download_buff)
    <3>1. Len(download_buff) \in Nat
      BY <2>1 DEF Unreported, TypeOK
    <3>2. CASE n < Len(download_buff)
      BY <1>1, <2>1, <3>2 DEF SaveData, Unreported, TypeOK
    <3>3. CASE ~(n < Len(download_buff))
      BY <1>1, <2>1, <2>2, <3>1, <3>3 DEF SaveData, Unreported, TypeOK
    <3> QED
      BY <3>2, <3>3
  <2>5. TypeOK'
    BY <1>1, <2>1, <2>3, <2>4 DEF SaveData, Unreported, TypeOK
  <2>6. StatusInv' /\ report' = "none"
    BY <1>1, <2>1 DEF SaveData, Unreported, StatusInv
  <2>7. ResponsesInv'
    BY <1>1, <2>1 DEF SaveData, Unreported, ResponsesInv
  <2>8. DigestInv'
    <3>1. /\ Len(download_md5) >= break_point.downloaded_size
          /\ "open" \notin seen => Len(download_md5) = break_point.downloaded_size
          /\ Len(download_md5) = break_point.downloaded_size /\ "full" \notin seen =>
               \A i \in 1 .. Len(download_md5) : download_md5[i] = Stored(i)
      BY <2>1 DEF Unreported, DigestInv
    <3>2. Len(download_md5) = break_point.downloaded_size /\ "full" \notin seen' =>
             \A i \in 1 .. Len(download_md5) : download_md5[i] = Stored(i)'
      BY <2>3, <2>4, <3>1
    <3>3. "full" \notin seen' =>
             \A i \in 1 .. Len(download_buff) :
                download_buff[i] = Stored(break_point.downloaded_size + i)'
      BY <2>3, <2>4
    <3> QED
      BY <2>2, <2>4, <3>1, <3>2, <3>3 DEF DigestInv
  <2> QED
    BY <2>5, <2>6, <2>7, <2>8 DEF IInv, StoredWhenReported, MismatchIsReal
<1>2. CASE SaveDataFails
  BY <1>2, FailByKeeps DEF SaveDataFails
<1> QED
  BY <1>1, <1>2 DEF Saving

\* Digesting the blocks and writing the break point.
LEMMA SavingBreakPointKeeps ==
  ASSUME IInv, SavingBreakPoint
  PROVE  IInv'
<1> USE DEF disk, memory
<1>1. pc \in {"truncate", "write"}
  BY DEF SavingBreakPoint, TruncateBreakPoint, WriteBreakPoint, WriteBreakPointLost,
     SaveBreakPointFails
<1>2. Unreported /\ download_now \in Firmwares
  BY <1>1, RunningIsUnreported
<1>3. /\ download_md5 \in Seq(Data) /\ download_buff \in Seq(Data)
      /\ break_point.downloaded_size \in Nat /\ break_point.file_id \in Firmwares \cup {None}
  BY <1>2 DEF Unreported, TypeOK
<1>4. /\ download_md5 \o download_buff \in Seq(Data)
      /\ Len(download_md5 \o download_buff) = Len(download_md5) + Len(download_buff)
      /\ Len(download_md5) \in Nat /\ Len(download_buff) \in Nat
      /\ \A i \in 1 .. Len(download_md5) : (download_md5 \o download_buff)[i] = download_md5[i]
      /\ \A i \in 1 .. Len(download_buff) :
            (download_md5 \o download_buff)[Len(download_md5) + i] = download_buff[i]
  BY <1>3
<1>5. CASE TruncateBreakPoint
  <2>1. TypeOK'
    <3>1. break_point' \in [file_id : Firmwares \cup {None}, downloaded_size : Nat]
      <4>1. Len(download_buff) \in Nat
        BY <1>4
      <4>2. break_point \in [file_id : Firmwares \cup {None}, downloaded_size : Nat]
        BY <1>2 DEF Unreported, TypeOK
      <4>3. break_point.downloaded_size + Len(download_buff) \in Nat
        BY <1>3, <4>1
      <4> QED
        BY <1>5, <4>2, <4>3 DEF TruncateBreakPoint
    <3> QED
      BY <1>2, <1>4, <1>5, <3>1 DEF TruncateBreakPoint, Unreported, TypeOK, NoBreakPoint
  <2>2. StatusInv' /\ report' = "none"
    BY <1>2, <1>5 DEF TruncateBreakPoint, Unreported, StatusInv
  <2>3. ResponsesInv'
    BY <1>2, <1>5 DEF TruncateBreakPoint, Unreported, ResponsesInv
  <2>4. DigestInv'
    <3> DEFINE size == break_point.downloaded_size
    <3>1. /\ Len(download_md5) >= size
          /\ "open" \notin seen => Len(download_md5) = size
          /\ Len(download_md5) = size /\ "full" \notin seen =>
               \A i \in 1 .. Len(download_md5) : download_md5[i] = Stored(i)
          /\ "full" \notin seen =>
               \A i \in 1 .. Len(download_buff) : download_buff[i] = Stored(size + i)
      BY <1>2, <1>5 DEF TruncateBreakPoint, Unreported, DigestInv
    <3>2. break_point'.downloaded_size = size + Len(download_buff)
      BY <1>2, <1>3, <1>5 DEF TruncateBreakPoint, Unreported, TypeOK
    <3>3. /\ download_md5' = download_md5 \o download_buff /\ pc' = "write" /\ seen' = seen
          /\ firmware_file' = firmware_file
      BY <1>5 DEF TruncateBreakPoint
    <3> HIDE DEF size
    <3>4. ASSUME Len(download_md5) = size, "full" \notin seen,
                 NEW i \in 1 .. Len(download_md5 \o download_buff)
          PROVE  (download_md5 \o download_buff)[i] = Stored(i)
      <4>1. CASE i <= Len(download_md5)
        BY <1>4, <3>1, <3>4, <4>1
      <4>2. CASE ~(i <= Len(download_md5))
        <5> DEFINE j == i - Len(download_md5)
        <5>1. j \in 1 .. Len(download_buff) /\ i = Len(download_md5) + j
          BY <1>4, <4>2
        <5> HIDE DEF j
        <5> QED
          BY <1>4, <3>1, <3>4, <5>1
      <4> QED
        BY <4>1, <4>2
    <3>5. \A i : Stored(i)' = Stored(i)
      BY <3>3 DEF Stored
    <3>6. size \in Nat
      BY <1>3 DEF size
    <3>7. /\ Len(download_md5') >= break_point'.downloaded_size
          /\ Len(download_md5') = break_point'.downloaded_size <=> Len(download_md5) = size
      <4>1. Len(download_md5') = Len(download_md5) + Len(download_buff)
        BY <1>4, <3>3
      <4>2. Len(download_md5) \in Nat /\ Len(download_buff) \in Nat
        BY <1>4
      <4>3. Len(download_md5) >= size
        BY <3>1
      <4> QED
        BY <3>2, <3>6, <4>1, <4>2, <4>3
    <3> QED
      BY <3>1, <3>3, <3>4, <3>5, <3>7 DEF DigestInv
  <2> QED
    BY <2>1, <2>2, <2>3, <2>4 DEF IInv, StoredWhenReported, MismatchIsReal
<1>6. CASE WriteBreakPoint \/ WriteBreakPointLost
  <2>1. /\ pc = "write" /\ pc' = "fetch" /\ UNCHANGED <<firmware_file, memory, report>>
        /\ break_point_file' \in {break_point, break_point_file}
        /\ seen' \subseteq Mishaps /\ seen \subseteq seen'
        /\ "open" \in seen' => "open" \in seen
    BY <1>2, <1>6 DEF WriteBreakPoint, WriteBreakPointLost, Unreported, TypeOK
  <2>2. TypeOK'
    BY <1>2, <2>1 DEF Unreported, TypeOK
  <2>3. StatusInv' /\ report' = "none"
    BY <1>2, <2>1 DEF Unreported, StatusInv
  <2>4. ResponsesInv'
    BY <1>2, <2>1 DEF Unreported, ResponsesInv
  <2>5. DigestInv'
    BY <1>2, <2>1 DEF Unreported, DigestInv, Stored
  <2> QED
    BY <2>2, <2>3, <2>4, <2>5 DEF IInv, StoredWhenReported, MismatchIsReal
<1>7. CASE SaveBreakPointFails
  <2>1. /\ Finish("upgrade_fail") /\ break_point_file' = break_point_file
        /\ download_md5' \in Seq(Data) /\ download_buff' = download_buff
        /\ seen' \subseteq Mishaps
    BY <1>2, <1>4, <1>7 DEF SaveBreakPointFails, Unreported, TypeOK
  <2> QED
    BY <1>2, <2>1, FinishKeeps
<1> QED
  BY <1>5, <1>6, <1>7 DEF SavingBreakPoint

\* The two results that the digest decides.
LEMMA ResultKeeps ==
  ASSUME IInv, Succeed \/ Mismatch
  PROVE  IInv'
<1>1. pc = "fetch" /\ IsOver
  BY DEF Succeed, Mismatch
<1>2. Unreported /\ download_now \in Firmwares
  BY <1>1, RunningIsUnreported
<1>3. /\ download_md5' \in Seq(Data) /\ download_buff' = download_buff
      /\ seen' \subseteq Mishaps /\ seen \subseteq seen'
      /\ break_point_file' \in {break_point_file, NoBreakPoint}
      /\ firmware_file' = firmware_file /\ download_now' = download_now
  BY <1>2 DEF Succeed, Mismatch, Finish, Unreported, TypeOK
<1>4. FileSize' = FileSize /\ \A i : Stored(i)' = Stored(i)
  BY <1>3 DEF FileSize, Stored
<1>5. CASE Succeed
  <2>1. Finish("success") /\ Valid /\ report' = "success" /\ seen' = seen
    BY <1>5 DEF Succeed, Finish
  <2>2. TypeOK' /\ StatusInv' /\ ResponsesInv' /\ DigestInv'
    BY <1>2, <1>3, <2>1, FinishKeeps
  <2>3. StoredWhenReported'
    BY <1>1, <1>3, <1>4, <2>1, DigestDecides DEF StoredWhenReported
  <2> QED
    BY <2>1, <2>2, <2>3 DEF IInv, MismatchIsReal
<1>6. CASE Mismatch
  <2>1. Finish("md5_not_match") /\ ~Valid /\ report' = "md5_not_match"
    BY <1>6 DEF Mismatch, Finish
  <2>2. TypeOK' /\ StatusInv' /\ ResponsesInv' /\ DigestInv'
    BY <1>2, <1>3, <2>1, FinishKeeps
  <2>3. MismatchIsReal'
    BY <1>1, <1>3, <1>4, <2>1, DigestDecides DEF MismatchIsReal
  <2> QED
    BY <2>1, <2>2, <2>3 DEF IInv, StoredWhenReported
<1> QED
  BY <1>5, <1>6

LEMMA NextKeepsIInv ==
  IInv /\ [Next]_vars => IInv'
<1> SUFFICES ASSUME IInv, [Next]_vars PROVE IInv'
  OBVIOUS
<1>1. CASE Start \/ (\E f \in Firmwares : Announce(f)) \/ Crash
  BY <1>1, OutsideKeeps
<1>2. CASE Begin \/ BeginFails \/ SetBreakPoint \/ Restoring \/ Connecting
  BY <1>2, PreparationKeeps
<1>3. CASE Fetching
  BY <1>3, FetchingKeeps
<1>4. CASE Saving
  BY <1>4, SavingKeeps
<1>5. CASE SavingBreakPoint
  BY <1>5, SavingBreakPointKeeps
<1>6. CASE Succeed \/ Mismatch
  BY <1>6, ResultKeeps
<1>7. CASE UNCHANGED vars
  BY <1>7 DEF vars, disk, memory, IInv, TypeOK, StatusInv, ResponsesInv, DigestInv,
     StoredWhenReported, MismatchIsReal, FileSize, Stored
<1> QED
  BY <1>1, <1>2, <1>3, <1>4, <1>5, <1>6, <1>7 DEF Next, Process

\* The inductive invariant holds throughout, and with it the type invariant.
THEOREM DownloadInvariant ==
  Spec => []IInv
  <1> QED
    BY InitEstablishesIInv, NextKeepsIInv, PTL DEF Spec

\* Variables keep their types, and no more responses are under way than there is room
\* for.
THEOREM TypeCorrect ==
  Spec => []TypeOK
  <1>1. IInv => TypeOK
    BY DEF IInv
  <1> QED
    BY <1>1, DownloadInvariant, PTL

\* What is reported as downloaded lies on disk block for block, for firmwares and
\* buffers of every size and any sequence of crashes, unless a write was lost in that
\* download.
THEOREM SuccessIsOnDisk ==
  Spec => []SuccessIsAnnouncedFile
  <1>1. IInv => SuccessIsAnnouncedFile
    BY DEF IInv, SuccessIsAnnouncedFile
  <1> QED
    BY <1>1, DownloadInvariant, PTL

\* A digest that does not match is that of a wrong file, unless a file could not be
\* opened or a write was lost in that download.
THEOREM MismatchIsOnDisk ==
  Spec => []MismatchIsReal
  <1>1. IInv => MismatchIsReal
    BY DEF IInv
  <1> QED
    BY <1>1, DownloadInvariant, PTL

-------------------------------------------------------------------------------
(* The digests of cryptology, in which OtaDownload only counts the blocks. *)

\* What a division leaves.
LEMMA Division ==
  ASSUME NEW d \in Nat \ {0}, NEW n \in Nat
  PROVE  n \div d \in Nat /\ n % d \in 0..(d - 1) /\ n = d * (n \div d) + (n % d)
OBVIOUS

\* One multiple is at least the divisor below the next.
LEMMA Times ==
  ASSUME NEW d \in Nat \ {0}, NEW a \in Nat, NEW b \in Nat, a < b
  PROVE  d * a + d <= d * b
<1>1. b - a - 1 \in Nat /\ d * (b - a - 1) \in Nat
  OBVIOUS
<1>2. d * b = d * (a + 1 + (b - a - 1))
  OBVIOUS
<1>3. d * b = d * a + d + d * (b - a - 1)
  BY <1>2
<1> QED
  BY <1>1, <1>3

\* Quotient and rest are the only ones there are.
LEMMA DivisionIs ==
  ASSUME NEW d \in Nat \ {0}, NEW q \in Nat, NEW r \in 0..(d - 1)
  PROVE  (d * q + r) \div d = q /\ (d * q + r) % d = r
<1> DEFINE n == d * q + r  p == n \div d  s == n % d
<1>1. n \in Nat
  OBVIOUS
<1>2. p \in Nat /\ s \in 0..(d - 1) /\ d * q + r = d * p + s
  BY <1>1, Division
<1> HIDE DEF p, s
<1>3. p = q
  BY <1>2, Times
<1> QED
  BY <1>2, <1>3 DEF p, s

\* A multiple of the divisor more.
LEMMA MultipleMore ==
  ASSUME NEW d \in Nat \ {0}, NEW k \in Nat, NEW n \in Nat
  PROVE  (d * k + n) \div d = k + (n \div d) /\ (d * k + n) % d = n % d
<1> DEFINE q == n \div d  r == n % d
<1>1. q \in Nat /\ r \in 0..(d - 1) /\ n = d * q + r
  BY Division
<1> HIDE DEF q, r
<1>2. d * k + n = d * (k + q) + r /\ k + q \in Nat
  BY <1>1
<1>3. (d * k + n) \div d = k + q /\ (d * k + n) % d = r
  BY <1>1, <1>2, DivisionIs
<1> QED
  BY <1>3 DEF q, r

\* The counter of bytes, of a message of n bytes.
TotalOf(n) == <<n % Word, (n \div Word) % Word>>

\* The sizes, from DigestAssumption: a word counts whole blocks of bytes and of bits.
LEMMA SizesFit ==
  /\ BlockSize \in Nat \ {0} /\ LengthSize \in Nat \ {0} /\ Word \in Nat \ {0} /\ MaxLength \in Nat \ {0}
  /\ LengthSize < BlockSize
  /\ Pieces \subseteq 0..(Word - 1)
  /\ \E k \in Nat \ {0} : Word = BlockSize * (8 * k)
<1>1. /\ BlockSize \in Nat \ {0} /\ LengthSize \in Nat \ {0} /\ Word \in Nat \ {0} /\ MaxLength \in Nat \ {0}
      /\ LengthSize < BlockSize
      /\ Pieces \subseteq 0..(Word - 1)
      /\ Word % (8 * BlockSize) = 0
  BY DigestAssumption DEF DigestAssumption
<1> DEFINE d == 8 * BlockSize  k == Word \div d
<1>2. d \in Nat \ {0}
  BY <1>1
<1>3. k \in Nat /\ Word = d * k
  <2>1. k \in Nat /\ Word = d * k + (Word % d)
    BY <1>1, <1>2, Division
  <2> HIDE DEF k
  <2> QED
    BY <1>1, <2>1, <1>2
<1> HIDE DEF k
<1>4. k # 0 /\ Word = BlockSize * (8 * k)
  BY <1>1, <1>3
<1> QED
  BY <1>1, <1>3, <1>4

\* The counter of two words, with its carry, counts the message's bytes.
LEMMA TotalIsCounted ==
  ASSUME NEW l \in Nat, NEW n \in 0..(Word - 1)
  PROVE  Digest!Counted(TotalOf(l), n) = TotalOf(l + n)
<1>1. Word \in Nat \ {0}
  BY SizesFit
<1> DEFINE Q == l \div Word  L == l % Word
<1>2. Q \in Nat /\ L \in 0..(Word - 1) /\ l = Word * Q + L
  BY <1>1, Division
<1>3. n % Word = n
  BY <1>1, DivisionIs
<1>4. TotalOf(l)[1] = L /\ TotalOf(l)[2] = Q % Word
  BY DEF TotalOf
<1> HIDE DEF Q, L
<1>5. CASE L + n < Word
  <2>1. (L + n) % Word = L + n
    BY <1>1, <1>2, <1>5, DivisionIs
  <2>2. (l + n) \div Word = Q /\ (l + n) % Word = L + n
    <3>1. l + n = Word * Q + (L + n) /\ L + n \in 0..(Word - 1)
      BY <1>1, <1>2, <1>5
    <3> QED
      BY <1>1, <1>2, <3>1, DivisionIs
  <2>3. (Q % Word) \in 0..(Word - 1)
    BY <1>1, <1>2
  <2>4. ((Q % Word) + 0) % Word = Q % Word
    BY <1>1, <2>3, DivisionIs
  <2>5. ~ (L + n < n)
    BY <1>1, <1>2
  <2> QED
    BY <1>3, <1>4, <2>1, <2>2, <2>4, <2>5 DEF Digest!Counted, TotalOf
<1>6. CASE L + n >= Word
  <2>1. (L + n) % Word = L + n - Word
    <3>1. L + n = Word * 1 + (L + n - Word) /\ L + n - Word \in 0..(Word - 1)
      BY <1>1, <1>2, <1>6
    <3>2. (Word * 1 + (L + n - Word)) % Word = L + n - Word
      BY <1>1, <3>1, DivisionIs
    <3> QED
      BY <3>1, <3>2
  <2>2. (l + n) \div Word = Q + 1 /\ (l + n) % Word = L + n - Word
    <3>1. l + n = Word * (Q + 1) + (L + n - Word) /\ L + n - Word \in 0..(Word - 1)
      BY <1>1, <1>2, <1>6
    <3> QED
      BY <1>1, <1>2, <3>1, DivisionIs
  <2>3. ((Q % Word) + 1) % Word = (Q + 1) % Word
    <3> DEFINE a == Q \div Word  b == Q % Word
    <3>1. a \in Nat /\ b \in 0..(Word - 1) /\ Q = Word * a + b
      BY <1>1, <1>2, Division
    <3> HIDE DEF a, b
    <3>2. Q + 1 = Word * a + (b + 1)
      BY <1>1, <3>1
    <3>3. (Word * a + (b + 1)) % Word = (b + 1) % Word
      <4>1. b + 1 \in Nat
        BY <1>1, <3>1
      <4> QED
        BY <1>1, <3>1, <4>1, MultipleMore
    <3> QED
      BY <3>2, <3>3 DEF b
  <2>4. L + n - Word < n
    BY <1>1, <1>2
  <2> QED
    BY <1>3, <1>4, <2>1, <2>2, <2>3, <2>4 DEF Digest!Counted, TotalOf
<1> QED
  BY <1>1, <1>2, <1>5, <1>6

\* The lower word alone says how far the buffer is filled.
LEMMA LeftOver ==
  ASSUME NEW l \in Nat
  PROVE  TotalOf(l)[1] % BlockSize = l % BlockSize
<1>1. PICK k \in Nat \ {0} : Word = BlockSize * (8 * k)
  BY SizesFit
<1>2. Word \in Nat \ {0} /\ BlockSize \in Nat \ {0}
  BY SizesFit
<1> DEFINE Q == l \div Word  L == l % Word
<1>3. Q \in Nat /\ L \in 0..(Word - 1) /\ l = Word * Q + L
  BY <1>2, Division
<1>4. TotalOf(l)[1] = L
  BY DEF TotalOf
<1> HIDE DEF Q, L
<1>5. l = BlockSize * ((8 * k) * Q) + L /\ (8 * k) * Q \in Nat /\ L \in Nat
  BY <1>1, <1>2, <1>3
<1>6. (BlockSize * ((8 * k) * Q) + L) % BlockSize = L % BlockSize
  BY <1>2, <1>5, MultipleMore
<1> QED
  BY <1>4, <1>5, <1>6

\* The length in bits, from the counter of bytes.
LEMMA BitsAreCounted ==
  ASSUME NEW l \in Nat
  PROVE  Digest!Bits(TotalOf(l)) = Digest!BitsOf(l)
<1>1. Word \in Nat \ {0}
  BY SizesFit
<1> DEFINE Q == l \div Word  L == l % Word  x == (8 * L) \div Word  y == (8 * L) % Word
           a == Q \div Word  b == Q % Word
<1>2. Q \in Nat /\ L \in 0..(Word - 1) /\ l = Word * Q + L
  BY <1>1, Division
<1>3. x \in Nat /\ y \in 0..(Word - 1) /\ 8 * L = Word * x + y
  <2>1. 8 * L \in Nat
    BY <1>1, <1>2
  <2> HIDE DEF L
  <2> QED
    BY <1>1, <2>1, Division
<1>4. a \in Nat /\ b \in 0..(Word - 1) /\ Q = Word * a + b
  <2> HIDE DEF Q
  <2> QED
    BY <1>1, <1>2, Division
<1>5. Digest!Bits(TotalOf(l)) = <<y, (x + 8 * b) % Word>>
  BY DEF Digest!Bits, TotalOf
<1> HIDE DEF Q, L, x, y, a, b
<1>6. (8 * l) \div Word = 8 * Q + x /\ (8 * l) % Word = y
  <2>1. 8 * l = Word * (8 * Q + x) + y /\ 8 * Q + x \in Nat
    BY <1>1, <1>2, <1>3
  <2>2. (Word * (8 * Q + x) + y) \div Word = 8 * Q + x /\ (Word * (8 * Q + x) + y) % Word = y
    BY <1>1, <1>3, <2>1, DivisionIs
  <2> QED
    BY <2>1, <2>2
<1>7. (8 * Q + x) % Word = (x + 8 * b) % Word
  <2>1. 8 * Q + x = Word * (8 * a) + (x + 8 * b) /\ 8 * a \in Nat /\ x + 8 * b \in Nat
    BY <1>1, <1>3, <1>4
  <2>2. (Word * (8 * a) + (x + 8 * b)) % Word = (x + 8 * b) % Word
    BY <1>1, <2>1, MultipleMore
  <2> QED
    BY <2>1, <2>2
<1> QED
  BY <1>5, <1>6, <1>7 DEF Digest!BitsOf

\* There is one number of zeros that ends a block, one less than the padding's bytes.
LEMMA PaddingFits ==
  ASSUME NEW n \in Nat
  PROVE  /\ Digest!Zeros(n) \in 0..(BlockSize - 1)
         /\ Digest!PaddingLength(n % BlockSize) = Digest!Zeros(n) + 1
         /\ (n + 1 + Digest!Zeros(n) + LengthSize) % BlockSize = 0
<1>1. BlockSize \in Nat \ {0} /\ LengthSize \in Nat \ {0} /\ LengthSize < BlockSize
  BY SizesFit
<1> DEFINE q == n \div BlockSize  last == n % BlockSize  z == Digest!PaddingLength(last) - 1
           Ends(y) == (n + 1 + y + LengthSize) % BlockSize = 0
<1>2. q \in Nat /\ last \in 0..(BlockSize - 1) /\ n = BlockSize * q + last
  BY <1>1, Division
<1> HIDE DEF q, last
<1>3. z \in 0..(BlockSize - 1)
  BY <1>1, <1>2 DEF Digest!PaddingLength
<1>4. \E k \in Nat : n + 1 + z + LengthSize = BlockSize * k + 0
  <2>1. CASE last < BlockSize - LengthSize
    <3>1. n + 1 + z + LengthSize = BlockSize * (q + 1) + 0
      BY <1>1, <1>2, <2>1 DEF Digest!PaddingLength
    <3> QED
      BY <1>2, <3>1
  <2>2. CASE ~ (last < BlockSize - LengthSize)
    <3>1. n + 1 + z + LengthSize = BlockSize * (q + 2) + 0
      BY <1>1, <1>2, <2>2 DEF Digest!PaddingLength
    <3> QED
      BY <1>2, <3>1
  <2> QED
    BY <2>1, <2>2
<1> HIDE DEF z
<1>5. PICK k \in Nat : n + 1 + z + LengthSize = BlockSize * k
  BY <1>1, <1>4
<1>6. Ends(z)
  <2>1. (BlockSize * k + 0) % BlockSize = 0
    BY <1>1, DivisionIs
  <2> QED
    BY <1>1, <1>3, <1>5, <2>1
<1>7. ASSUME NEW y \in 0..(BlockSize - 1), Ends(y)
      PROVE  y = z
  <2> DEFINE m == n + 1 + y + LengthSize  j == m \div BlockSize
  <2>1. j \in Nat /\ m = BlockSize * j + (m % BlockSize)
    <3>1. m \in Nat
      BY <1>1
    <3> HIDE DEF m
    <3> QED
      BY <1>1, <3>1, Division
  <2> HIDE DEF j
  <2>2. n + 1 + y + LengthSize = BlockSize * j
    BY <1>1, <1>7, <2>1
  <2>3. j = k
    BY <1>1, <1>3, <1>5, <2>1, <2>2, Times
  <2> QED
    BY <1>1, <1>3, <1>5, <2>2, <2>3
<1>8. Digest!Zeros(n) = z
  BY <1>3, <1>6, <1>7 DEF Digest!Zeros
<1> QED
  <2>1. Digest!PaddingLength(last) = Digest!Zeros(n) + 1
    BY <1>1, <1>2, <1>8 DEF z, Digest!PaddingLength
  <2> QED
    BY <1>3, <1>6, <1>8, <2>1 DEF last

\* The bytes from behind a on, n of them.
LEMMA Part ==
  ASSUME NEW S, NEW m \in Seq(S), NEW a \in Nat, NEW n \in Nat, a + n <= Len(m)
  PROVE  SubSeq(m, a + 1, a + n) = [i \in 1..n |-> m[a + i]]
<1>1. /\ SubSeq(m, a + 1, a + n) \in Seq(S) /\ Len(SubSeq(m, a + 1, a + n)) = n
      /\ \A i \in 1..n : SubSeq(m, a + 1, a + n)[i] = m[a + i]
  BY SubSeqProperties
<1>2. SubSeq(m, a + 1, a + n) \in [1..n -> S]
  <2> DEFINE p == SubSeq(m, a + 1, a + n)
  <2>1. p \in Seq(S) /\ Len(p) = n
    BY <1>1
  <2> HIDE DEF p
  <2>2. p \in [1..Len(p) -> S]
    BY <2>1, LenProperties
  <2> QED
    BY <2>1, <2>2 DEF p
<1>3. SubSeq(m, a + 1, a + n) = [i \in 1..n |-> SubSeq(m, a + 1, a + n)[i]]
  BY <1>2
<1> QED
  BY <1>1, <1>3

\* A message of n bytes has the block behind each of n \div BlockSize multiples.
LEMMA BlocksOf ==
  ASSUME NEW S, NEW m \in Seq(S), NEW q \in Nat, NEW r \in 0..(BlockSize - 1), Len(m) = BlockSize * q + r
  PROVE  /\ Digest!Blocks(m) = [k \in 1..q |-> [i \in 1..BlockSize |-> m[(k - 1) * BlockSize + i]]]
         /\ Digest!Rest(m) = [i \in 1..r |-> m[BlockSize * q + i]]
<1>1. BlockSize \in Nat \ {0}
  BY SizesFit
<1>2. Len(m) \div BlockSize = q
  BY <1>1, DivisionIs
<1>3. ASSUME NEW k \in 1..q
      PROVE  SubSeq(m, (k - 1) * BlockSize + 1, k * BlockSize) = [i \in 1..BlockSize |-> m[(k - 1) * BlockSize + i]]
  <2> DEFINE a == (k - 1) * BlockSize
  <2>1. a \in Nat /\ a + BlockSize = k * BlockSize
    BY <1>1
  <2>2. a + BlockSize <= Len(m)
    <3>1. k - 1 \in Nat /\ k - 1 < q
      OBVIOUS
    <3>2. BlockSize * (k - 1) + BlockSize <= BlockSize * q
      BY <1>1, <3>1, Times
    <3> QED
      BY <1>1, <2>1, <3>2
  <2> HIDE DEF a
  <2>3. SubSeq(m, a + 1, a + BlockSize) = [i \in 1..BlockSize |-> m[a + i]]
    <3>1. BlockSize \in Nat
      BY <1>1
    <3>2. \A b, n \in Nat : b + n <= Len(m) => SubSeq(m, b + 1, b + n) = [i \in 1..n |-> m[b + i]]
      BY Part
    <3> QED
      BY <2>1, <2>2, <3>1, <3>2
  <2> QED
    BY <2>1, <2>3 DEF a
<1>4. Digest!Rest(m) = [i \in 1..r |-> m[BlockSize * q + i]]
  <2> DEFINE a == BlockSize * q
  <2>1. a \in Nat /\ r \in Nat /\ Len(m) = a + r
    BY <1>1
  <2> HIDE DEF a
  <2>2. SubSeq(m, a + 1, a + r) = [i \in 1..r |-> m[a + i]]
    <3>1. a + r <= Len(m)
      BY <2>1
    <3>2. \A b, n \in Nat : b + n <= Len(m) => SubSeq(m, b + 1, b + n) = [i \in 1..n |-> m[b + i]]
      BY Part
    <3> QED
      BY <2>1, <3>1, <3>2
  <2>3. Digest!Rest(m) = SubSeq(m, a + 1, Len(m))
    BY <1>2 DEF Digest!Rest, a
  <2> QED
    BY <2>1, <2>2, <2>3 DEF a
<1>5. Digest!Blocks(m) = [k \in 1..q |-> SubSeq(m, (k - 1) * BlockSize + 1, k * BlockSize)]
  BY <1>2 DEF Digest!Blocks
<1> QED
  BY <1>3, <1>4, <1>5

\* n blocks of a message, from behind block a on.
Cut(m, a, n) == [k \in 1..n |-> [i \in 1..BlockSize |-> m[BlockSize * (a + k - 1) + i]]]

\* Blocks behind blocks.
LEMMA CutsJoin ==
  \A m : \A a, n, p \in Nat : Cut(m, a, n) \o Cut(m, a + n, p) = Cut(m, a, n + p)
<1> SUFFICES ASSUME NEW m, NEW a \in Nat, NEW n \in Nat, NEW p \in Nat
             PROVE  Cut(m, a, n) \o Cut(m, a + n, p) = Cut(m, a, n + p)
  OBVIOUS
<1> DEFINE T == {[i \in 1..BlockSize |-> m[BlockSize * (b - 1) + i]] : b \in Nat}
           C(b, l) == [k \in 1..l |-> [i \in 1..BlockSize |-> m[BlockSize * (b + k - 1) + i]]]
<1>1. \A b, l \in Nat : C(b, l) \in Seq(T) /\ Len(C(b, l)) = l /\ C(b, l) = Cut(m, b, l)
  <2> SUFFICES ASSUME NEW b \in Nat, NEW l \in Nat
               PROVE  C(b, l) \in Seq(T) /\ Len(C(b, l)) = l /\ C(b, l) = Cut(m, b, l)
    OBVIOUS
  <2>1. \A k \in 1..l : b + k \in Nat /\ C(b, l)[k] = [i \in 1..BlockSize |-> m[BlockSize * ((b + k) - 1) + i]]
    OBVIOUS
  <2>2. \A k \in 1..l : C(b, l)[k] \in T
    BY <2>1
  <2>3. C(b, l) \in [1..l -> T]
    <3> HIDE DEF T
    <3> QED
      BY <2>2
  <2>4. C(b, l) = Cut(m, b, l)
    BY DEF Cut
  <2> HIDE DEF C, T
  <2> QED
    BY <2>3, <2>4
<1> DEFINE l == Cut(m, a, n)  r == Cut(m, a + n, p)  w == Cut(m, a, n + p)
<1>2. /\ l \in Seq(T) /\ Len(l) = n /\ r \in Seq(T) /\ Len(r) = p /\ w \in Seq(T) /\ Len(w) = n + p
  <2>1. a + n \in Nat /\ n + p \in Nat
    OBVIOUS
  <2> HIDE DEF T, C, l, r, w
  <2>2. \A b, j \in Nat : Cut(m, b, j) \in Seq(T) /\ Len(Cut(m, b, j)) = j
    BY <1>1
  <2> QED
    BY <2>1, <2>2 DEF l, r, w
<1>3. ASSUME NEW k \in 1..(n + p)
      PROVE  w[k] = IF k <= n THEN l[k] ELSE r[k - n]
  <2>1. CASE k <= n
    BY <2>1 DEF Cut
  <2>2. CASE ~ (k <= n)
    <3>1. k - n \in 1..p /\ a + n + (k - n) - 1 = a + k - 1
      BY <2>2
    <3> QED
      BY <2>2, <3>1 DEF Cut
  <2> QED
    BY <2>1, <2>2
<1> HIDE DEF T, l, r, w
<1>4. l \o r \in Seq(T) /\ Len(l \o r) = n + p /\ \A k \in 1..(n + p) : (l \o r)[k] = w[k]
  BY <1>2, <1>3, ConcatProperties
<1>5. l \o r = w
  BY <1>2, <1>4, SeqEqual
<1> QED
  BY <1>5 DEF l, r, w

\* Messages that agree have the same blocks.
LEMMA CutsAgree ==
  \A m, o, a, b, n, ma, ob, l :
     (/\ a \in Nat /\ b \in Nat /\ n \in Nat
      /\ ma = BlockSize * a /\ ob = BlockSize * b /\ l = BlockSize * n
      /\ \A j \in 1..l : m[ma + j] = o[ob + j])
        => Cut(m, a, n) = Cut(o, b, n)
<1> SUFFICES ASSUME NEW m, NEW o, NEW a, NEW b, NEW n, NEW ma, NEW ob, NEW l,
                    a \in Nat, b \in Nat, n \in Nat,
                    ma = BlockSize * a, ob = BlockSize * b, l = BlockSize * n,
                    \A j \in 1..l : m[ma + j] = o[ob + j]
             PROVE  Cut(m, a, n) = Cut(o, b, n)
  OBVIOUS
<1>1. BlockSize \in Nat \ {0}
  BY SizesFit
<1>2. ASSUME NEW k \in 1..n, NEW i \in 1..BlockSize
      PROVE  m[BlockSize * (a + k - 1) + i] = o[BlockSize * (b + k - 1) + i]
  <2> DEFINE j == BlockSize * (k - 1) + i
  <2>1. BlockSize * (k - 1) + BlockSize <= BlockSize * n
    <3>1. k - 1 \in Nat /\ k - 1 < n
      OBVIOUS
    <3> QED
      BY <1>1, <3>1, Times
  <2>2. BlockSize * (k - 1) \in Nat /\ BlockSize * n \in Nat
    BY <1>1
  <2>3. j \in 1..(BlockSize * n)
    BY <1>1, <2>1, <2>2
  <2>4. BlockSize * a + j = BlockSize * (a + k - 1) + i /\ BlockSize * b + j = BlockSize * (b + k - 1) + i
    BY <1>1
  <2> HIDE DEF j
  <2> QED
    BY <2>3, <2>4
<1>3. \A k \in 1..n : [i \in 1..BlockSize |-> m[BlockSize * (a + k - 1) + i]]
                     = [i \in 1..BlockSize |-> o[BlockSize * (b + k - 1) + i]]
  BY <1>2
<1> QED
  BY <1>3 DEF Cut

\* A message's whole blocks are cut from its beginning.
LEMMA BlocksAreCut ==
  ASSUME NEW S, NEW m \in Seq(S), NEW q \in Nat, NEW r \in 0..(BlockSize - 1), Len(m) = BlockSize * q + r
  PROVE  Digest!Blocks(m) = Cut(m, 0, q)
<1>1. Digest!Blocks(m) = [k \in 1..q |-> [i \in 1..BlockSize |-> m[(k - 1) * BlockSize + i]]]
  BY BlocksOf
<1>2. BlockSize \in Nat \ {0}
  BY SizesFit
<1>3. \A k \in 1..q : (k - 1) * BlockSize = BlockSize * (0 + k - 1)
  BY <1>2
<1> QED
  BY <1>1, <1>3 DEF Cut

\* The context of a message: its length, its whole blocks, and in the buffer the rest.
Fed(c, m, S) ==
  /\ c = [total |-> TotalOf(Len(m)), buffer |-> c.buffer, state |-> Digest!Blocks(m)]
  /\ c.buffer \in [1..BlockSize -> S]
  /\ \A i \in 1..(Len(m) % BlockSize) : c.buffer[i] = m[BlockSize * (Len(m) \div BlockSize) + i]

\* A part of a message, and what it is copied into.
LEMMA CopiedFacts ==
  \A b, p : \A l, n \in Nat : DOMAIN p = 1..n =>
     \A i \in 1..BlockSize :
        Digest!Copied(b, l, p)[i] = IF l < i /\ i <= l + n THEN p[i - l] ELSE b[i]
<1> SUFFICES ASSUME NEW b, NEW p, NEW l \in Nat, NEW n \in Nat, DOMAIN p = 1..n
             PROVE  \A i \in 1..BlockSize :
                       Digest!Copied(b, l, p)[i] = IF l < i /\ i <= l + n THEN p[i - l] ELSE b[i]
  OBVIOUS
<1>1. \A i \in 1..BlockSize : (i - l \in 1..n) <=> (l < i /\ i <= l + n)
  BY SizesFit
<1> QED
  BY <1>1 DEF Digest!Copied

\* The context of a message, fed with more of it, is that of the longer message.
LEMMA UpdateStep ==
  ASSUME NEW S, NEW m \in Seq(S), NEW x \in Seq(S), Len(x) < Word, NEW c, Fed(c, m, S)
  PROVE  Fed(Digest!Update(c, x), m \o x, S)
<1> DEFINE N == Len(m)  n == Len(x)  y == m \o x
           q == N \div BlockSize  r == N % BlockSize  w == Digest!Update(c, x)
<1>1. BlockSize \in Nat \ {0} /\ Word \in Nat \ {0} /\ N \in Nat /\ n \in Nat /\ n \in 0..(Word - 1)
  BY SizesFit, LenProperties
<1>2. q \in Nat /\ r \in 0..(BlockSize - 1) /\ N = BlockSize * q + r
  BY <1>1, Division
<1>3. /\ y \in Seq(S) /\ Len(y) = N + n
      /\ \A i \in 1..N : y[i] = m[i]
      /\ \A i \in 1..n : y[N + i] = x[i]
  <2>1. /\ y \in Seq(S) /\ Len(y) = N + n
        /\ \A i \in 1..(N + n) : y[i] = IF i <= N THEN m[i] ELSE x[i - N]
    BY ConcatProperties
  <2>2. \A i \in 1..n : N + i \in 1..(N + n) /\ ~ (N + i <= N) /\ (N + i) - N = i
    BY <1>1
  <2>3. \A i \in 1..N : i \in 1..(N + n) /\ i <= N
    BY <1>1
  <2> HIDE DEF y, N, n
  <2> QED
    BY <2>1, <2>2, <2>3
<1>4. Digest!Blocks(m) = Cut(m, 0, q)
  BY <1>2, BlocksAreCut
<1>5. Cut(m, 0, q) = Cut(y, 0, q)
  <2>1. \A j \in 1..(BlockSize * q) : m[BlockSize * 0 + j] = y[BlockSize * 0 + j]
    <3>1. \A j \in 1..(BlockSize * q) : j \in 1..N /\ BlockSize * 0 + j = j
      BY <1>1, <1>2
    <3> HIDE DEF y, N, q, r
    <3> QED
      BY <1>3, <3>1
  <2>2. q \in Nat /\ 0 \in Nat
    BY <1>2
  <2> HIDE DEF y, q
  <2> QED
    BY <2>1, <2>2, CutsAgree
<1>6. c.total = TotalOf(N) /\ c.state = Cut(y, 0, q) /\ c.buffer \in [1..BlockSize -> S]
  <2>1. c = [total |-> TotalOf(N), buffer |-> c.buffer, state |-> Digest!Blocks(m)] /\ c.buffer \in [1..BlockSize -> S]
    BY DEF Fed
  <2> HIDE DEF y, q, N
  <2> QED
    BY <2>1, <1>4, <1>5
<1>7. \A i \in 1..r : c.buffer[i] = y[BlockSize * q + i]
  <2>1. \A i \in 1..r : c.buffer[i] = m[BlockSize * q + i]
    BY DEF Fed
  <2>2. \A i \in 1..r : BlockSize * q + i \in 1..N
    BY <1>1, <1>2
  <2> HIDE DEF y, q, N, r
  <2> QED
    BY <2>1, <2>2, <1>3
<1>8. c.total[1] % BlockSize = r
  BY <1>1, <1>6, LeftOver
<1>9. Digest!Counted(c.total, n) = TotalOf(N + n)
  BY <1>1, <1>6, TotalIsCounted
<1>10. CASE x = <<>>
  <2>1. w = c
    BY <1>10 DEF Digest!Update
  <2>2. m \o x = m
    BY <1>10, ConcatEmptySeq
  <2> QED
    BY <2>1, <2>2
<1>11. CASE x # <<>> /\ Digest!FillsUp(r, n)
  <2> DEFINE f == BlockSize - r  P == (n - f) \div BlockSize  s == (n - f) % BlockSize
             part == SubSeq(x, 1, f)  more == SubSeq(x, f + 1, n)  full == Digest!Copied(c.buffer, r, part)
  <2>1. f = BlockSize - r /\ f \in 1..BlockSize /\ r > 0 /\ n - f \in Nat
    BY <1>1, <1>2, <1>11 DEF Digest!FillsUp
  <2>2. P \in Nat /\ s \in 0..(BlockSize - 1) /\ n - f = BlockSize * P + s
    <3> HIDE DEF f
    <3> QED
      BY <1>1, <2>1, Division
  <2>3. part = [i \in 1..f |-> x[0 + i]] /\ more = [i \in 1..(n - f) |-> x[f + i]]
    <3>1. \A b, k \in Nat : b + k <= Len(x) => SubSeq(x, b + 1, b + k) = [i \in 1..k |-> x[b + i]]
      BY Part
    <3>2. /\ 0 + f <= n /\ f + (n - f) <= n /\ f + (n - f) = n /\ 0 + 1 = 1 /\ 0 + f = f
          /\ f \in Nat /\ 0 \in Nat /\ n - f \in Nat
      BY <1>1, <2>1
    <3> HIDE DEF f
    <3>3. SubSeq(x, 0 + 1, 0 + f) = [i \in 1..f |-> x[0 + i]]
      BY <3>1, <3>2
    <3>4. SubSeq(x, f + 1, f + (n - f)) = [i \in 1..(n - f) |-> x[f + i]]
      BY <3>1, <3>2
    <3> QED
      BY <3>2, <3>3, <3>4
  <2>4. more \in Seq(S) /\ Len(more) = n - f
    BY <1>1, <2>1, SubSeqProperties
  <2>5. w = [total  |-> Digest!Counted(c.total, n),
             buffer |-> Digest!Copied(full, 0, Digest!Rest(more)),
             state  |-> c.state \o (<<full>> \o Digest!Blocks(more))]
    BY <1>8, <1>11 DEF Digest!Update, Digest!Process
  <2>6. full = [i \in 1..BlockSize |-> y[BlockSize * q + i]]
    <3>1. \A i \in 1..BlockSize : full[i] = IF r < i /\ i <= r + f THEN part[i - r] ELSE c.buffer[i]
      <4>1. f \in Nat /\ r \in Nat
        BY <1>1, <1>2, <2>1
      <4>2. DOMAIN part = 1..f
        <5> HIDE DEF f, part
        <5> QED
          BY <2>3
      <4> HIDE DEF f, part, r
      <4> QED
        BY <4>1, <4>2, CopiedFacts
    <3>2. ASSUME NEW i \in 1..BlockSize
          PROVE  full[i] = y[BlockSize * q + i]
      <4> HIDE DEF N, n, y, q, r, f, part, full
      <4>1. CASE r < i
        <5>1. i <= r + f /\ i - r \in 1..f /\ i - r \in 1..n /\ N + (i - r) = BlockSize * q + i /\ 0 + (i - r) = i - r
          BY <1>1, <1>2, <2>1, <4>1
        <5>2. part[i - r] = x[i - r]
          BY <2>3, <5>1
        <5> QED
          BY <1>3, <3>1, <4>1, <5>1, <5>2
      <4>2. CASE ~ (r < i)
        <5>1. i \in 1..r
          BY <1>1, <1>2, <4>2
        <5> QED
          BY <1>7, <3>1, <4>2, <5>1
      <4> QED
        BY <4>1, <4>2
    <3>3. full = [i \in 1..BlockSize |-> full[i]]
      BY DEF Digest!Copied
    <3> HIDE DEF full, y, q, r, f
    <3> QED
      BY <3>2, <3>3
  <2>7. Digest!Blocks(more) = Cut(y, q + 1, P)
    <3>1. Digest!Blocks(more) = Cut(more, 0, P)
      <4> HIDE DEF more, P, s, f
      <4> QED
        BY <2>2, <2>4, BlocksAreCut
    <3>2. \A j \in 1..(BlockSize * P) : more[BlockSize * 0 + j] = y[BlockSize * (q + 1) + j]
      <4> HIDE DEF N, n, y, q, r, f, P, s, more
      <4>1. \A j \in 1..(BlockSize * P) :
               /\ j \in 1..(n - f) /\ BlockSize * 0 + j = j
               /\ f + j \in 1..n /\ N + (f + j) = BlockSize * (q + 1) + j
        BY <1>1, <1>2, <2>1, <2>2
      <4> QED
        BY <1>3, <2>3, <4>1
    <3>3. q + 1 \in Nat /\ P \in Nat /\ 0 \in Nat /\ 1 \in Nat
      BY <1>2, <2>2
    <3> HIDE DEF more, P, q, y
    <3>4. Cut(more, 0, P) = Cut(y, q + 1, P)
      BY <3>2, <3>3, CutsAgree
    <3> QED
      BY <3>1, <3>4
  <2>8. <<full>> = Cut(y, q, 1)
    <3>1. \A k \in 1..1 : k = 1 /\ q + k - 1 = q
      BY <1>2
    <3> HIDE DEF full, y, q
    <3>2. Cut(y, q, 1) = [k \in 1..1 |-> full]
      BY <2>6, <3>1 DEF Cut
    <3> QED
      BY <3>2
  <2>9. w.state = Cut(y, 0, q + (1 + P))
    <3> DEFINE z == 0  one == 1  p == one + P
    <3>1. z \in Nat /\ one \in Nat /\ q \in Nat /\ P \in Nat /\ p \in Nat /\ z + q = q
      BY <1>2, <2>2
    <3> HIDE DEF w, full, y, q, P, more
    <3>2. w.state = Cut(y, z, q) \o (Cut(y, q, one) \o Cut(y, q + one, P))
      BY <1>6, <2>5, <2>7, <2>8
    <3>3. \A a, b, d \in Nat : Cut(y, a, b) \o Cut(y, a + b, d) = Cut(y, a, b + d)
      BY CutsJoin
    <3> HIDE DEF z, one
    <3>4. Cut(y, q, one) \o Cut(y, q + one, P) = Cut(y, q, p)
      BY <3>1, <3>3, Zenon
    <3> HIDE DEF p
    <3>5. Cut(y, z, q) \o Cut(y, z + q, p) = Cut(y, z, q + p)
      BY <3>1, <3>3, Zenon
    <3>6. w.state = Cut(y, z, q + p)
      BY <3>1, <3>2, <3>4, <3>5, Zenon
    <3> QED
      BY <3>6 DEF z, one, p
  <2>10. N + n = BlockSize * (q + (1 + P)) + s /\ q + (1 + P) \in Nat
    BY <1>1, <1>2, <2>2
  <2>11. Digest!Rest(more) = [i \in 1..s |-> more[BlockSize * P + i]]
    <3> HIDE DEF more, P, s, f
    <3> QED
      BY <2>2, <2>4, BlocksOf
  <2>12. w.buffer = [i \in 1..BlockSize |-> IF i <= s THEN y[BlockSize * (q + (1 + P)) + i] ELSE y[BlockSize * q + i]]
    <3> DEFINE rest == Digest!Rest(more)
    <3>1. \A i \in 1..BlockSize : w.buffer[i] = IF 0 < i /\ i <= 0 + s THEN rest[i - 0] ELSE full[i]
      <4>1. s \in Nat /\ 0 \in Nat /\ DOMAIN rest = 1..s
        BY <1>1, <2>2, <2>11
      <4> HIDE DEF w, more, P, s, full, rest
      <4>2. w.buffer = Digest!Copied(full, 0, rest)
        BY <2>5 DEF rest
      <4> QED
        BY <4>1, <4>2, CopiedFacts
    <3>2. ASSUME NEW i \in 1..BlockSize
          PROVE  w.buffer[i] = IF i <= s THEN y[BlockSize * (q + (1 + P)) + i] ELSE y[BlockSize * q + i]
      <4> HIDE DEF w, N, n, y, q, r, f, P, s, more, full, rest
      <4>1. CASE i <= s
        <5>1. /\ 0 < i /\ i <= 0 + s /\ i - 0 = i /\ i \in 1..s
              /\ BlockSize * P + i \in 1..(n - f)
              /\ f + (BlockSize * P + i) \in 1..n
              /\ N + (f + (BlockSize * P + i)) = BlockSize * (q + (1 + P)) + i
          BY <1>1, <1>2, <2>1, <2>2, <4>1
        <5>2. w.buffer[i] = more[BlockSize * P + i]
          BY <2>11, <3>1, <5>1 DEF rest
        <5> QED
          BY <1>3, <2>3, <4>1, <5>1, <5>2
      <4>2. CASE ~ (i <= s)
        <5>1. ~ (i <= 0 + s)
          BY <2>2, <4>2
        <5> QED
          BY <2>6, <3>1, <4>2, <5>1
      <4> QED
        BY <4>1, <4>2
    <3> HIDE DEF w, y, q, P, s, more, full
    <3>3. w.buffer = [i \in 1..BlockSize |-> w.buffer[i]]
      BY <2>5 DEF Digest!Copied
    <3> QED
      BY <3>2, <3>3
  <2>13. w.buffer \in [1..BlockSize -> S]
    <3>1. \A i \in 1..BlockSize : BlockSize * q + i \in 1..(N + n)
      <4> DEFINE Q == BlockSize * q
      <4>1. Q \in Nat /\ N = Q + r
        BY <1>1, <1>2
      <4> HIDE DEF Q, N, n
      <4>2. \A i \in 1..BlockSize : Q + i \in 1..(N + n)
        BY <1>1, <1>2, <2>1, <2>2, <4>1
      <4> QED
        BY <4>2 DEF Q
    <3>2. \A i \in 1..BlockSize : i <= s => BlockSize * (q + (1 + P)) + i \in 1..(N + n)
      BY <1>1, <2>2, <2>10
    <3>3. \A i \in 1..(N + n) : y[i] \in S
      <4> HIDE DEF y
      <4> QED
        BY <1>3, ElementOfSeq
    <3> HIDE DEF w, y, q, P, s, N, n
    <3> QED
      BY <2>12, <3>1, <3>2, <3>3
  <2>14. (N + n) \div BlockSize = q + (1 + P) /\ (N + n) % BlockSize = s
    <3> HIDE DEF N, n, q, P, s
    <3> DEFINE k == q + (1 + P)
    <3>1. k \in Nat /\ N + n = BlockSize * k + s
      BY <2>10
    <3> HIDE DEF k
    <3>2. (BlockSize * k + s) \div BlockSize = k /\ (BlockSize * k + s) % BlockSize = s
      BY <1>1, <2>2, <3>1, DivisionIs
    <3> QED
      BY <3>1, <3>2 DEF k
  <2>15. Digest!Blocks(y) = Cut(y, 0, q + (1 + P))
    <3> HIDE DEF y, N, n, q, P, s
    <3> QED
      BY <1>3, <2>2, <2>10, BlocksAreCut
  <2>16. w = [total |-> TotalOf(Len(y)), buffer |-> w.buffer, state |-> Digest!Blocks(y)]
    <3> HIDE DEF w, y, full, more, N, n, q, P
    <3> QED
      BY <1>3, <1>9, <2>5, <2>9, <2>15
  <2>17. \A i \in 1..s : w.buffer[i] = y[BlockSize * (q + (1 + P)) + i]
    <3>1. \A i \in 1..s : i \in 1..BlockSize /\ i <= s
      BY <1>1, <2>2
    <3> HIDE DEF w, y, q, P, s
    <3> QED
      BY <2>12, <3>1
  <2> HIDE DEF w, N, n, y, q, r, P, s, f, full, more, part
  <2>18. Fed(w, y, S)
    BY <1>3, <2>13, <2>14, <2>16, <2>17 DEF Fed
  <2> QED
    BY <2>18 DEF w, y
<1>12. CASE x # <<>> /\ ~ Digest!FillsUp(r, n)
  <2> DEFINE P == n \div BlockSize  s == n % BlockSize
  <2>1. P \in Nat /\ s \in 0..(BlockSize - 1) /\ n = BlockSize * P + s
    BY <1>1, Division
  <2>2. r + s \in 0..(BlockSize - 1) /\ (r = 0 \/ P = 0)
    <3>1. CASE r = 0
      BY <1>1, <1>2, <2>1, <3>1
    <3>2. CASE r # 0
      <4>1. n < BlockSize - r
        BY <1>1, <1>2, <1>12, <3>2 DEF Digest!FillsUp
      <4>2. P = 0
        <5>1. CASE P # 0
          <6>1. BlockSize * 0 + BlockSize <= BlockSize * P
            BY <1>1, <2>1, <5>1, Times
          <6> HIDE DEF P, s, n, r
          <6> QED
            BY <1>1, <1>2, <2>1, <4>1, <6>1
        <5> QED
          BY <5>1
      <4> HIDE DEF P, s, n, r
      <4> QED
        BY <1>1, <1>2, <2>1, <4>1, <4>2
    <3> QED
      BY <3>1, <3>2
  <2>3. w = [total  |-> Digest!Counted(c.total, n),
             buffer |-> Digest!Copied(c.buffer, r, Digest!Rest(x)),
             state  |-> c.state \o Digest!Blocks(x)]
    BY <1>8, <1>12 DEF Digest!Update, Digest!Process
  <2>4. Digest!Blocks(x) = Cut(y, q, P)
    <3>1. Digest!Blocks(x) = Cut(x, 0, P)
      <4> HIDE DEF P, s
      <4> QED
        BY <2>1, BlocksAreCut
    <3>2. \A j \in 1..(BlockSize * P) : x[BlockSize * 0 + j] = y[BlockSize * q + j]
      <4>1. \A j \in 1..(BlockSize * P) : j \in 1..n /\ BlockSize * 0 + j = j /\ N + j = BlockSize * q + j
        <5> HIDE DEF P, s, n, r, N, q
        <5>1. CASE r = 0
          BY <1>1, <1>2, <2>1, <5>1
        <5>2. CASE P = 0
          <6>1. BlockSize * P = 0
            BY <1>1, <5>2
          <6> QED
            BY <6>1
        <5> QED
          BY <2>2, <5>1, <5>2
      <4> HIDE DEF N, n, y, q, r, P, s
      <4> QED
        BY <1>3, <4>1
    <3>3. q \in Nat /\ P \in Nat /\ 0 \in Nat
      BY <1>2, <2>1
    <3> HIDE DEF P, q, y
    <3>4. Cut(x, 0, P) = Cut(y, q, P)
      BY <3>2, <3>3, CutsAgree
    <3> QED
      BY <3>1, <3>4
  <2>5. w.state = Cut(y, 0, q + P)
    <3>1. q \in Nat /\ P \in Nat /\ 0 \in Nat /\ 0 + q = q
      BY <1>2, <2>1
    <3> HIDE DEF w, y, q, P
    <3>2. Cut(y, 0, q) \o Cut(y, 0 + q, P) = Cut(y, 0, q + P)
      BY <3>1, CutsJoin
    <3> QED
      BY <1>6, <2>3, <2>4, <3>1, <3>2
  <2>6. N + n = BlockSize * (q + P) + (r + s) /\ q + P \in Nat
    <3> HIDE DEF N, n, q, r, P, s
    <3> QED
      BY <1>1, <1>2, <2>1
  <2>7. Digest!Rest(x) = [i \in 1..s |-> x[BlockSize * P + i]]
    <3> HIDE DEF P, s
    <3> QED
      BY <2>1, BlocksOf
  <2>8. /\ w.buffer = [i \in 1..BlockSize |-> w.buffer[i]]
        /\ \A i \in 1..BlockSize : w.buffer[i] = IF r < i /\ i <= r + s THEN x[BlockSize * P + (i - r)] ELSE c.buffer[i]
    <3> DEFINE rest == Digest!Rest(x)
    <3>1. s \in Nat /\ r \in Nat /\ DOMAIN rest = 1..s
      BY <1>2, <2>1, <2>7
    <3> HIDE DEF w, P, s, r, rest
    <3>2. w.buffer = Digest!Copied(c.buffer, r, rest)
      BY <2>3 DEF rest
    <3>3. \A i \in 1..BlockSize : w.buffer[i] = IF r < i /\ i <= r + s THEN rest[i - r] ELSE c.buffer[i]
      BY <3>1, <3>2, CopiedFacts
    <3>4. ASSUME NEW i \in 1..BlockSize, r < i, i <= r + s
          PROVE  rest[i - r] = x[BlockSize * P + (i - r)]
      <4>1. i - r \in 1..s
        BY <3>1, <3>4
      <4> QED
        BY <2>7, <4>1 DEF rest
    <3>5. w.buffer = [i \in 1..BlockSize |-> w.buffer[i]]
      BY <2>3 DEF Digest!Copied
    <3> QED
      BY <3>3, <3>4, <3>5
  <2>9. \A i \in 1..(r + s) : w.buffer[i] = y[BlockSize * (q + P) + i]
    <3> SUFFICES ASSUME NEW i \in 1..(r + s)
                 PROVE  w.buffer[i] = y[BlockSize * (q + P) + i]
      OBVIOUS
    <3>1. i \in 1..BlockSize /\ i <= r + s
      BY <1>1, <1>2, <2>1, <2>2
    <3>2. CASE r < i
      <4> HIDE DEF w, y, q, P, s, r, N, n
      <4>1. BlockSize * P + (i - r) \in 1..n /\ N + (BlockSize * P + (i - r)) = BlockSize * (q + P) + i
        BY <1>1, <1>2, <2>1, <3>2
      <4> QED
        BY <1>3, <2>8, <3>1, <3>2, <4>1
    <3>3. CASE ~ (r < i)
      <4>1. i \in 1..r /\ r # 0
        BY <1>1, <1>2, <3>3
      <4>2. P = 0 /\ BlockSize * (q + P) + i = BlockSize * q + i
        <5> HIDE DEF P, r, q
        <5> QED
          BY <1>2, <2>2, <4>1
      <4> HIDE DEF w, y, q, P, s, r
      <4> QED
        BY <1>7, <2>8, <3>1, <3>3, <4>1, <4>2
    <3> QED
      BY <3>2, <3>3
  <2>10. w.buffer \in [1..BlockSize -> S]
    <3>1. \A i \in 1..BlockSize : r < i /\ i <= r + s => BlockSize * P + (i - r) \in 1..n
      BY <1>1, <1>2, <2>1
    <3>2. \A i \in 1..n : x[i] \in S
      BY ElementOfSeq
    <3> HIDE DEF w, P, s, r, n
    <3> QED
      BY <1>6, <2>8, <3>1, <3>2
  <2>11. (N + n) \div BlockSize = q + P /\ (N + n) % BlockSize = r + s
    <3> HIDE DEF N, n, q, P, s, r
    <3> DEFINE k == q + P  t == r + s
    <3>1. k \in Nat /\ t \in 0..(BlockSize - 1) /\ N + n = BlockSize * k + t
      BY <2>2, <2>6
    <3> HIDE DEF k, t
    <3>2. (BlockSize * k + t) \div BlockSize = k /\ (BlockSize * k + t) % BlockSize = t
      BY <1>1, <3>1, DivisionIs
    <3> QED
      BY <3>1, <3>2 DEF k, t
  <2>12. Digest!Blocks(y) = Cut(y, 0, q + P)
    <3> HIDE DEF y, N, n, q, P, s, r
    <3> QED
      BY <1>3, <2>2, <2>6, BlocksAreCut
  <2>13. w = [total |-> TotalOf(Len(y)), buffer |-> w.buffer, state |-> Digest!Blocks(y)]
    <3> HIDE DEF w, y, N, n, q, P, s, r
    <3> QED
      BY <1>3, <1>9, <2>3, <2>5, <2>12
  <2> HIDE DEF w, N, n, y, q, r, P, s
  <2>14. Fed(w, y, S)
    BY <1>3, <2>9, <2>10, <2>11, <2>13 DEF Fed
  <2> QED
    BY <2>14 DEF w, y
<1> QED
  BY <1>10, <1>11, <1>12

\* The bytes a digest meets: those of the message, and its own.
All(T) == T \cup {Digest!First, Digest!Zero, Digest!Stale}
            \cup {Digest!LengthByte(Digest!BitsOf(n), i) : n \in Nat, i \in Int}

\* A block, and so the padding and the length, is shorter than a word counts.
LEMMA SmallEnough ==
  BlockSize < Word
<1>1. PICK k \in Nat \ {0} : Word = BlockSize * (8 * k)
  BY SizesFit
<1>2. BlockSize * 1 + BlockSize <= BlockSize * (8 * k)
  <2>1. 8 * k \in Nat /\ 1 < 8 * k
    OBVIOUS
  <2>2. BlockSize \in Nat \ {0}
    BY SizesFit
  <2> HIDE DEF Digest!First
  <2> QED
    BY <2>1, <2>2, Times
<1> QED
  BY <1>1, <1>2, SizesFit

\* A context that was started has been fed with nothing.
LEMMA StartedIsFed ==
  ASSUME NEW T
  PROVE  Fed(Digest!Started, <<>>, All(T))
<1>1. BlockSize \in Nat \ {0} /\ Word \in Nat \ {0}
  BY SizesFit
<1>2. 0 \div BlockSize = 0 /\ 0 % BlockSize = 0 /\ 0 \div Word = 0 /\ 0 % Word = 0
  BY <1>1
<1>3. Digest!Blocks(<<>>) = <<>>
  BY <1>2 DEF Digest!Blocks
<1>4. TotalOf(0) = <<0, 0>>
  BY <1>2 DEF TotalOf
<1>5. Digest!Stale \in All(T)
  BY DEF All
<1>6. Len(<<>>) = 0
  OBVIOUS
<1> QED
  <2> DEFINE c == Digest!Started
  <2>1. /\ c.total = <<0, 0>> /\ c.state = <<>>
      /\ c = [total |-> <<0, 0>>, buffer |-> c.buffer, state |-> <<>>]
    BY DEF Digest!Started
  <2>2. c.buffer \in [1..BlockSize -> All(T)]
    BY <1>5 DEF Digest!Started
  <2> HIDE DEF c
  <2>3. Fed(c, <<>>, All(T))
    <3>1. \A i \in 1..(Len(<<>>) % BlockSize) : FALSE
      BY <1>2, <1>6
    <3> QED
      BY <1>3, <1>4, <1>6, <2>1, <2>2, <3>1 DEF Fed
  <2> QED
    BY <2>3 DEF c

\* The padding behind a message, and the length behind that.
LEMMA EndedState ==
  ASSUME NEW T, NEW m \in Seq(All(T)), NEW c, Fed(c, m, All(T)),
         NEW e \in Seq(All(T)), Len(e) = LengthSize
  PROVE  Digest!Update(Digest!Update(c, Digest!Padding(c)), e).state = Digest!Blocks(Digest!Padded(m) \o e)
<1> DEFINE S == All(T)  n == Len(m)  z == Digest!Zeros(n)  zeros == [i \in 1..z |-> Digest!Zero]
           p == <<Digest!First>> \o zeros
<1>1. n \in Nat /\ BlockSize \in Nat \ {0} /\ Word \in Nat \ {0} /\ LengthSize \in Nat /\ LengthSize < BlockSize
  BY SizesFit, LenProperties
<1>2. z \in 0..(BlockSize - 1) /\ Digest!PaddingLength(n % BlockSize) = z + 1
  BY <1>1, PaddingFits
<1>3. c.total[1] % BlockSize = n % BlockSize
  <2>1. c.total = TotalOf(n)
    BY DEF Fed
  <2> QED
    BY <1>1, <2>1, LeftOver
<1>4. Digest!First \in S /\ Digest!Zero \in S
  BY DEF All
<1>5. /\ <<Digest!First>> \in Seq(S) /\ Len(<<Digest!First>>) = 1 /\ <<Digest!First>>[1] = Digest!First
      /\ zeros \in Seq(S) /\ Len(zeros) = z /\ \A i \in 1..z : zeros[i] = Digest!Zero
  <2> HIDE DEF S, z
  <2> QED
    BY <1>1, <1>2, <1>4
<1>6. /\ p \in Seq(S) /\ Len(p) = 1 + z
      /\ \A i \in 1..(1 + z) : p[i] = IF i <= 1 THEN <<Digest!First>>[i] ELSE zeros[i - 1]
  <2> HIDE DEF S, z, zeros
  <2> QED
    BY <1>5, ConcatProperties
<1>7. Digest!Padding(c) = p
  <2>1. Digest!Padding(c) = [i \in 1..(1 + z) |-> IF i = 1 THEN Digest!First ELSE Digest!Zero]
    <3>1. z + 1 = 1 + z
      BY <1>1, <1>2
    <3> HIDE DEF z
    <3> QED
      BY <1>2, <1>3, <3>1 DEF Digest!Padding
  <2>2. p \in [1..(1 + z) -> S]
    <3> HIDE DEF p, S, z
    <3> QED
      BY <1>6, LenProperties
  <2>3. \A i \in 1..(1 + z) : p[i] = IF i = 1 THEN Digest!First ELSE Digest!Zero
    <3> SUFFICES ASSUME NEW i \in 1..(1 + z)
                 PROVE  p[i] = IF i = 1 THEN Digest!First ELSE Digest!Zero
      OBVIOUS
    <3>1. CASE i = 1
      <4> HIDE DEF p, S, z, zeros
      <4> QED
        BY <1>5, <1>6, <3>1
    <3>2. CASE i # 1
      <4>1. ~ (i <= 1) /\ i - 1 \in 1..z
        BY <1>2, <3>2
      <4> HIDE DEF p, S, z, zeros
      <4> QED
        BY <1>5, <1>6, <3>2, <4>1
    <3> QED
      BY <3>1, <3>2
  <2> HIDE DEF p, S, z
  <2> QED
    BY <2>1, <2>2, <2>3
<1>8. Digest!Padded(m) = m \o p
  <2>1. Digest!Padded(m) = (m \o <<Digest!First>>) \o zeros
    BY DEF Digest!Padded
  <2> HIDE DEF S, z, zeros
  <2> QED
    BY <1>5, <2>1, ConcatAssociative
<1> DEFINE d == Digest!Update(c, p)  w == m \o p
<1>9. Fed(d, w, S) /\ w \in Seq(S)
  <2>1. Len(p) < Word
    BY <1>1, <1>2, <1>6, SmallEnough
  <2>2. p \in Seq(S) /\ m \in Seq(S) /\ Fed(c, m, S)
    BY <1>6
  <2> HIDE DEF p, S
  <2>3. Fed(Digest!Update(c, p), m \o p, S)
    BY <2>1, <2>2, UpdateStep
  <2>4. m \o p \in Seq(S)
    BY <2>2, ConcatProperties
  <2> QED
    BY <2>3, <2>4
<1>10. Fed(Digest!Update(d, e), w \o e, S)
  <2>1. Len(e) < Word
    BY <1>1, SmallEnough
  <2> HIDE DEF w, d
  <2> QED
    BY <1>9, <2>1, UpdateStep
<1> QED
  <2> HIDE DEF d, w
  <2>1. Digest!Update(d, e).state = Digest!Blocks(w \o e)
    <3> DEFINE g == Digest!Update(d, e)
    <3>1. g = [total |-> TotalOf(Len(w \o e)), buffer |-> g.buffer, state |-> Digest!Blocks(w \o e)]
      BY <1>10 DEF Fed
    <3> HIDE DEF g
    <3>2. g.state = Digest!Blocks(w \o e)
      BY <3>1
    <3> QED
      BY <3>2 DEF g
  <2> QED
    BY <1>7, <1>8, <2>1 DEF d, w

\* The digest of what a context has been fed with.
LEMMA DigestOfFed ==
  ASSUME NEW T, NEW m \in Seq(All(T)), NEW c, Fed(c, m, All(T))
  PROVE  Digest!Finish(c).state = Digest!Md5Of(m) /\ Digest!Sha1Finish(c).state = Digest!Sha1Of(m)
<1> DEFINE bits == Digest!BitsOf(Len(m))  low == Digest!LowFirst(bits)  high == Digest!HighFirst(bits)
<1>1. Len(m) \in Nat /\ LengthSize \in Nat
  BY SizesFit, LenProperties
<1>2. Digest!Bits(c.total) = bits
  <2>1. c.total = TotalOf(Len(m))
    BY DEF Fed
  <2> QED
    BY <1>1, <2>1, BitsAreCounted
<1>3. \A i \in Int : Digest!LengthByte(bits, i) \in All(T)
  BY <1>1 DEF All
<1>4. low \in Seq(All(T)) /\ Len(low) = LengthSize
  <2> HIDE DEF bits
  <2> QED
    BY <1>1, <1>3 DEF Digest!LowFirst
<1>5. high \in Seq(All(T)) /\ Len(high) = LengthSize
  <2>1. \A i \in 1..LengthSize : LengthSize + 1 - i \in Int
    BY <1>1
  <2> HIDE DEF bits
  <2> QED
    BY <1>1, <1>3, <2>1 DEF Digest!HighFirst
<1> HIDE DEF low, high
<1>6. Digest!Update(Digest!Update(c, Digest!Padding(c)), low).state = Digest!Blocks(Digest!Padded(m) \o low)
  BY <1>4, EndedState
<1>7. Digest!Update(Digest!Update(c, Digest!Padding(c)), high).state = Digest!Blocks(Digest!Padded(m) \o high)
  BY <1>5, EndedState
<1> QED
  BY <1>2, <1>6, <1>7
     DEF low, high, Digest!Finish, Digest!Sha1Finish, Digest!Sha1Update, Digest!Md5Of, Digest!Sha1Of

\* SHA-1 of a message at once.
LEMMA Sha1IsOfWhole ==
  ASSUME NEW T, NEW m \in Seq(All(T)), Len(m) < Word
  PROVE  /\ Digest!Sha1(m) = Digest!Sha1Of(m)
         /\ Fed(Digest!Update(Digest!Started, m), m, All(T))
<1> DEFINE c == Digest!Update(Digest!Started, m)
<1>1. Fed(c, m, All(T))
  <2>1. <<>> \in Seq(All(T)) /\ Fed(Digest!Started, <<>>, All(T))
    BY StartedIsFed, EmptySeq
  <2>2. Fed(c, <<>> \o m, All(T))
    BY <2>1, UpdateStep
  <2>3. <<>> \o m = m
    BY ConcatEmptySeq
  <2> QED
    BY <2>2, <2>3
<1> HIDE DEF c
<1>2. Digest!Sha1Finish(c).state = Digest!Sha1Of(m)
  BY <1>1, DigestOfFed
<1> QED
  BY <1>1, <1>2 DEF c, Digest!Sha1, Digest!Sha1Update

\* SHA-1 of a message in two parts.
LEMMA Sha1OfTwo ==
  ASSUME NEW T, NEW k \in Seq(All(T)), NEW m \in Seq(All(T)), Len(k) < Word, Len(m) < Word
  PROVE  Digest!Sha1Finish(Digest!Sha1Update(Digest!Sha1Update(Digest!Started, k), m)).state
           = Digest!Sha1Of(k \o m)
<1> DEFINE c == Digest!Update(Digest!Started, k)  d == Digest!Update(c, m)  w == k \o m
<1>1. Fed(c, k, All(T))
  BY Sha1IsOfWhole
<1> HIDE DEF c
<1>2. Fed(d, w, All(T)) /\ w \in Seq(All(T))
  <2>1. Fed(Digest!Update(c, m), k \o m, All(T))
    BY <1>1, UpdateStep
  <2>2. k \o m \in Seq(All(T))
    BY ConcatProperties
  <2> QED
    BY <2>1, <2>2
<1> HIDE DEF d, w
<1>3. Digest!Sha1Finish(d).state = Digest!Sha1Of(w)
  BY <1>2, DigestOfFed
<1> QED
  BY <1>3 DEF c, d, w, Digest!Sha1Update

\* HMAC is that of RFC 2104 for a key up to a block.
LEMMA HmacIsOfWhole ==
  ASSUME NEW U, NEW m \in Seq(U), Len(m) < Word, NEW key, Len(key) \in 0..BlockSize
  PROVE  Digest!Hmac(key, m) = Digest!HmacOf(key, m)
<1> DEFINE byte(i)   == IF i <= Len(key) THEN key[i] ELSE 0
           pad(mask) == [i \in 1..BlockSize |-> <<mask, byte(i)>>]
           out == Digest!Sha1Of(pad("ipad") \o m)
           end == <<"digest", out>>
           pads == {<<mask, byte(i)>> : mask \in {"ipad", "opad"}, i \in 1..BlockSize}
           T == U \cup pads \cup {end}
<1>1. BlockSize \in Nat \ {0} /\ Word \in Nat \ {0} /\ BlockSize < Word
  BY SizesFit, SmallEnough
<1>2. ASSUME NEW mask \in {"ipad", "opad"}
      PROVE  pad(mask) \in Seq(All(T)) /\ Len(pad(mask)) < Word
  <2>1. \A i \in 1..BlockSize : <<mask, byte(i)>> \in All(T)
    <3>1. \A i \in 1..BlockSize : <<mask, byte(i)>> \in T
      OBVIOUS
    <3> HIDE DEF T, byte
    <3> QED
      BY <3>1 DEF All
  <2> DEFINE p == pad(mask)
  <2>2. p \in [1..BlockSize -> All(T)] /\ DOMAIN p = 1..BlockSize
    <3> HIDE DEF T, byte
    <3> QED
      BY <2>1
  <2> HIDE DEF p, T
  <2>3. p \in Seq(All(T)) /\ Len(p) = BlockSize
    BY <1>1, <2>2
  <2> QED
    BY <1>1, <2>3 DEF p
<1>3. m \in Seq(All(T))
  <2> HIDE DEF pads, end
  <2>1. U \subseteq T
    OBVIOUS
  <2> HIDE DEF T
  <2>2. U \subseteq All(T)
    BY <2>1 DEF All
  <2>3. Seq(U) \subseteq Seq(All(T))
    <3> SUFFICES ASSUME NEW s \in Seq(U)
                 PROVE  s \in Seq(All(T))
      OBVIOUS
    <3> QED
      BY <2>2
  <2> QED
    BY <2>3
<1>4. <<end>> \in Seq(All(T)) /\ Len(<<end>>) < Word
  <2> HIDE DEF pads, end
  <2>1. end \in T
    OBVIOUS
  <2> HIDE DEF T
  <2>2. end \in All(T)
    BY <2>1 DEF All
  <2> QED
    BY <1>1, <2>2
<1> HIDE DEF T
<1> DEFINE first ==
             Digest!Sha1Finish(Digest!Sha1Update(Digest!Sha1Update(Digest!Started, pad("ipad")), m)).state
<1>5. first = out
  <2> DEFINE k == pad("ipad")
  <2>1. k \in Seq(All(T)) /\ Len(k) < Word
    <3> HIDE DEF pad
    <3> QED
      BY <1>2
  <2> HIDE DEF k
  <2>2. Digest!Sha1Finish(Digest!Sha1Update(Digest!Sha1Update(Digest!Started, k), m)).state
          = Digest!Sha1Of(k \o m)
    BY <1>3, <2>1, Sha1OfTwo
  <2> QED
    BY <2>2 DEF k
<1>6. Digest!Sha1Finish(Digest!Sha1Update(Digest!Sha1Update(Digest!Started, pad("opad")), <<end>>)).state
        = Digest!Sha1Of(pad("opad") \o <<end>>)
  <2> DEFINE k == pad("opad")  e == <<end>>
  <2>1. k \in Seq(All(T)) /\ Len(k) < Word
    <3> HIDE DEF pad
    <3> QED
      BY <1>2
  <2>2. e \in Seq(All(T)) /\ Len(e) < Word
    <3> HIDE DEF end
    <3> QED
      BY <1>4
  <2> HIDE DEF k, e
  <2>3. Digest!Sha1Finish(Digest!Sha1Update(Digest!Sha1Update(Digest!Started, k), e)).state
          = Digest!Sha1Of(k \o e)
    BY <2>1, <2>2, Sha1OfTwo
  <2> QED
    BY <2>3 DEF k, e
<1>7. Digest!HmacOf(key, m) = Digest!Sha1Of(pad("opad") \o <<end>>)
  BY Zenon DEF Digest!HmacOf
<1>8. Digest!Hmac(key, m)
        = Digest!Sha1Finish(Digest!Sha1Update(Digest!Sha1Update(Digest!Started, pad("opad")),
                                              <<<<"digest", first>>>>)).state
  <2>1. ~ (Len(key) > BlockSize)
    BY <1>1
  <2> QED
    BY <2>1, Zenon DEF Digest!Hmac
<1> HIDE DEF first, out, pad
<1> QED
  BY <1>5, <1>6, <1>7, <1>8

\* The bytes of messages, and the first n of them.
Bytes == {Digest!Message(n) : n \in Nat}

Whole(n) == [i \in 1..n |-> Digest!Message(i)]

\* Until it is finished the context is that of what has been fed; then it has the digest.
ContextInv ==
  /\ length \in Nat
  /\ finished \in BOOLEAN
  /\ ~finished => Fed(ctx, Whole(length), All(Bytes))
  /\ finished => ctx.state = Digest!Md5Of(Whole(length))

\* The message of n bytes.
LEMMA WholeIs ==
  ASSUME NEW n \in Nat
  PROVE  Whole(n) \in Seq(All(Bytes)) /\ Len(Whole(n)) = n
<1>1. \A i \in 1..n : Digest!Message(i) \in All(Bytes)
  BY DEF All, Bytes
<1> QED
  BY <1>1 DEF Whole

\* The message of n bytes and the p after them.
LEMMA WholeGrows ==
  ASSUME NEW n \in Nat, NEW p \in Nat
  PROVE  LET x == [i \in 1..p |-> Digest!Message(n + i)] IN
         x \in Seq(All(Bytes)) /\ Len(x) = p /\ Whole(n) \o x = Whole(n + p)
<1> DEFINE x == [i \in 1..p |-> Digest!Message(n + i)]  w == Whole(n)  v == Whole(n + p)
<1>1. x \in Seq(All(Bytes)) /\ Len(x) = p
  <2>1. \A i \in 1..p : Digest!Message(n + i) \in All(Bytes)
    <3>1. \A i \in 1..p : n + i \in Nat
      OBVIOUS
    <3> QED
      BY <3>1 DEF All, Bytes
  <2> QED
    BY <2>1
<1>2. w \in Seq(All(Bytes)) /\ Len(w) = n /\ v \in Seq(All(Bytes)) /\ Len(v) = n + p
  <2>1. n + p \in Nat
    OBVIOUS
  <2> QED
    BY <2>1, WholeIs
<1>3. ASSUME NEW i \in 1..(n + p)
      PROVE  v[i] = IF i <= n THEN w[i] ELSE x[i - n]
  <2>1. CASE i <= n
    BY <2>1 DEF Whole
  <2>2. CASE ~ (i <= n)
    <3>1. i - n \in 1..p /\ n + (i - n) = i
      BY <2>2
    <3>2. v[i] = Digest!Message(i) /\ x[i - n] = Digest!Message(n + (i - n))
      BY <3>1 DEF Whole
    <3> QED
      BY <2>2, <3>1, <3>2
  <2> QED
    BY <2>1, <2>2
<1> HIDE DEF x, w, v
<1>4. w \o x = v
  <2>1. w \o x \in Seq(All(Bytes)) /\ Len(w \o x) = n + p /\ \A i \in 1..(n + p) : (w \o x)[i] = v[i]
    BY <1>1, <1>2, <1>3, ConcatProperties
  <2> QED
    BY <1>2, <2>1, SeqEqual
<1> QED
  BY <1>1, <1>4 DEF x, w, v

\* The invariant holds of a started context,
LEMMA ContextInvInit ==
  Digest!Init => ContextInv
<1> SUFFICES ASSUME Digest!Init
             PROVE  ContextInv
  OBVIOUS
<1>1. ctx = Digest!Started /\ length = 0 /\ finished = FALSE
  BY DEF Digest!Init
<1>2. Whole(0) = <<>>
  BY DEF Whole
<1>3. Fed(Digest!Started, <<>>, All(Bytes))
  BY StartedIsFed
<1> QED
  BY <1>1, <1>2, <1>3 DEF ContextInv

\* every piece and the end preserve it,
LEMMA ContextInvStep ==
  ContextInv /\ [Digest!Next]_digestVars => ContextInv'
<1> SUFFICES ASSUME ContextInv, [Digest!Next]_digestVars
             PROVE  ContextInv'
  OBVIOUS
<1>1. CASE UNCHANGED digestVars
  BY <1>1 DEF ContextInv, digestVars
<1>2. CASE Digest!Finished
  <2>1. /\ ~finished /\ ctx' = Digest!Finish(ctx) /\ finished' = TRUE /\ length' = length
        /\ length \in Nat /\ Fed(ctx, Whole(length), All(Bytes))
    BY <1>2 DEF Digest!Finished, ContextInv
  <2>2. Digest!Finish(ctx).state = Digest!Md5Of(Whole(length))
    BY <2>1, WholeIs, DigestOfFed
  <2> QED
    BY <2>1, <2>2 DEF ContextInv
<1>3. ASSUME NEW n \in Pieces, Digest!Feed(n)
      PROVE  ContextInv'
  <2> DEFINE x == [i \in 1..n |-> Digest!Message(length + i)]
  <2>1. /\ ~finished /\ ctx' = Digest!Update(ctx, x) /\ length' = length + n /\ finished' = finished
        /\ length \in Nat /\ finished \in BOOLEAN /\ Fed(ctx, Whole(length), All(Bytes))
    BY <1>3 DEF Digest!Feed, ContextInv
  <2>2. n \in Nat /\ n < Word
    BY SizesFit
  <2>3. x \in Seq(All(Bytes)) /\ Len(x) = n /\ Whole(length) \o x = Whole(length + n)
    BY <2>1, <2>2, WholeGrows
  <2>4. Whole(length) \in Seq(All(Bytes))
    BY <2>1, WholeIs
  <2> HIDE DEF x
  <2>5. Fed(Digest!Update(ctx, x), Whole(length) \o x, All(Bytes))
    BY <2>1, <2>2, <2>3, <2>4, UpdateStep
  <2> QED
    BY <2>1, <2>2, <2>3, <2>5 DEF ContextInv
<1> QED
  BY <1>1, <1>2, <1>3 DEF Digest!Next

\* and at the end it says what DigestOfWhole does.
LEMMA ContextInvIsIt ==
  ContextInv => DigestOfWhole
<1> SUFFICES ASSUME ContextInv, finished
             PROVE  DigestOfWhole
  BY DEF DigestOfWhole, Digest!OfWhole
<1>1. length \in Nat /\ ctx.state = Digest!Md5Of(Whole(length))
  BY DEF ContextInv
<1>2. Whole(length) \in Seq(All(Bytes)) /\ Len(Whole(length)) = length
  BY <1>1, WholeIs
<1>3. ASSUME length < Word
      PROVE  Digest!Sha1(Whole(length)) = Digest!Sha1Of(Whole(length))
  BY <1>2, <1>3, Sha1IsOfWhole
<1>4. ASSUME length < Word, NEW k \in 0..BlockSize
      PROVE  Digest!Hmac([i \in 1..k |-> i], Whole(length)) = Digest!HmacOf([i \in 1..k |-> i], Whole(length))
  <2> DEFINE key == [i \in 1..k |-> i]
  <2>1. Len(key) \in 0..BlockSize
    <3>1. k \in Nat
      BY SizesFit
    <3>2. Len(key) = k
      BY <3>1
    <3> QED
      BY <3>2
  <2> HIDE DEF key
  <2>2. Digest!Hmac(key, Whole(length)) = Digest!HmacOf(key, Whole(length))
    BY <1>2, <1>4, <2>1, HmacIsOfWhole
  <2> QED
    BY <2>2 DEF key
<1> QED
  BY <1>1, <1>3, <1>4 DEF DigestOfWhole, Digest!OfWhole, Whole

\* Digests of cryptology (utils_md5_update, utils_md5_finish and their SHA-1 twins,
\* utils_hmac_sha1): for blocks, words, pieces and messages of every size the digest of a
\* message that comes in pieces is that of the whole message.
THEOREM DigestsAreOfWhole ==
  Digest!Spec => []DigestOfWhole
<1>1. ContextInv /\ [Digest!Next]_<<ctx, length, finished>> => ContextInv'
  BY ContextInvStep DEF digestVars
<1>2. QED
  BY ContextInvInit, <1>1, ContextInvIsIt, PTL DEF Digest!Spec, Digest!vars
===============================================================================
