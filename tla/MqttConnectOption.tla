-------------------------- MODULE MqttConnectOption --------------------------
(***************************************************************************)
(* What IOT_MQTT_Construct makes of the device and of the application's    *)
(* parameters: the options of CONNECT, the timeouts and the address of the *)
(* broker.  A string is a sequence of bytes and is written into a buffer   *)
(* of a fixed size, which HAL_Snprintf cuts it to.                         *)
(***************************************************************************)
EXTENDS MqttPacket

MaxClientId   == 80                                  \* MAX_SIZE_OF_CLIENT_ID
MaxUserName   == MaxClientId + 8 + 6 + 20            \* MAX_MQTT_CONNECT_USR_NAME_LEN
MaxPassword   == 51                                  \* MAX_MQTT_CONNECT_PASSWORD_LEN
HostLength    == 64                                  \* HOST_STR_LENGTH
TxBufLen      == 2048                                \* QCLOUD_IOT_MQTT_TX_BUF_LEN
Handshake     == 5000                                \* QCLOUD_IOT_TLS_HANDSHAKE_TIMEOUT
MaxProductId  == 10
MaxDeviceName == 48
MaxSecret     == 64

Appid     == <<50, 49, 48, 49, 48, 52, 48, 54>>      \* QCLOUD_IOT_DEVICE_SDK_APPID
Expiry    == <<50, 49, 52, 55, 52, 56, 51, 54, 52, 55>>  \* 0x7fffffff, with MAX_ACCESS_EXPIRE_TIMEOUT 0
Hmacsha1  == <<104, 109, 97, 99, 115, 104, 97, 49>>
Domain    == [i \in 1..27 |-> 100]                   \* QCLOUD_IOT_MQTT_DIRECT_DOMAIN
Semicolon == <<59>>
Dot       == <<46>>

Snprintf(size, s) == SubSeq(s, 1, IF Len(s) < size THEN Len(s) ELSE size - 1)

-------------------------------------------------------------------------------
(* The device. *)

Field == [product_id |-> MaxProductId, device_name |-> MaxDeviceName, device_secret |-> MaxSecret]

\* HAL_SetDevInfo and HAL_GetDevInfo copy field by field; device_info_copy refuses what is
\* too long and leaves the field alone.
CopyField(from, to, f) == IF Len(from[f]) > Field[f] THEN to[f] ELSE from[f]
HAL_SetDevInfo(device, stored) ==
    [rc   |-> IF \E f \in DOMAIN Field : Len(device[f]) > Field[f] THEN "dev_info" ELSE "ok",
     info |-> [f \in DOMAIN Field |-> CopyField(device, stored, f)]]
HAL_GetDevInfo(stored) ==
    [rc   |-> IF \E f \in DOMAIN Field : Len(stored[f]) > Field[f] THEN "dev_info" ELSE "ok",
     info |-> [f \in DOMAIN Field |-> CopyField(stored, [g \in DOMAIN Field |-> <<>>], f)]]

ClientId(device) == Snprintf(MaxClientId, device.product_id \o device.device_name)

-------------------------------------------------------------------------------
(* _mqtt_client_connect_option_init. *)

\* get_next_conn_id: a lower or upper case letter or a digit for each pair of random numbers.
ConnId(random) ==
    [i \in 1..5 |-> LET r == random[i] IN
        CASE r[1] % 3 = 0 -> 97 + (r[2] % 26) [] r[1] % 3 = 1 -> 65 + (r[2] % 26) [] OTHER -> 48 + (r[2] % 10)]

KeepAlive(ms) == IF ms \div 1000 > 690 THEN 690 ELSE ms \div 1000

UserName(client_id, conn_id) ==
    Snprintf(MaxUserName, client_id \o Semicolon \o Appid \o Semicolon \o conn_id \o Semicolon \o Expiry)

\* Without TLS a device with a key signs the user name: the 40 digits of an HMAC.
Signs(mode)    == mode = "key_no_tls"
Password(sign) == Snprintf(MaxPassword, sign \o Semicolon \o Hmacsha1)

\* A failing HAL_Malloc releases what has been allocated.
ConnectOptionInit(mode, params, device, random, sign, fails) ==
    IF "username" \in fails \/ (Signs(mode) /\ "password" \in fails)
    THEN [rc |-> "malloc", held |-> {}]
    ELSE [rc      |-> "ok",
          held    |-> {"username"} \cup (IF Signs(mode) THEN {"password"} ELSE {}),
          options |-> [version       |-> 4,
                       client_id     |-> ClientId(device),
                       keep_alive    |-> KeepAlive(params.keep_alive_interval_ms),
                       clean_session |-> params.clean_session,
                       will          |-> None,
                       username      |-> <<UserName(ClientId(device), ConnId(random))>>,
                       password      |-> IF Signs(mode) THEN <<Password(sign)>> ELSE None]]

-------------------------------------------------------------------------------
(* The network and the timeouts. *)

\* _qcloud_iot_mqtt_client_init brings the timeout into its range.
CommandTimeout(ms) == IF ms < 500 THEN 500 ELSE IF ms > 20000 THEN 20000 ELSE ms

NetworkInit(mode, params, device) ==
    LET tls     == mode # "key_no_tls" /\ mode # "cert_no_tls"
        timeout == CommandTimeout(params.command_timeout)
    IN  [host    |-> Snprintf(HostLength, device.product_id \o Dot \o (IF params.host = None THEN Domain ELSE params.host[1])),
         port    |-> IF tls THEN 8883 ELSE 1883,
         type    |-> IF tls THEN "TLS" ELSE "TCP",
         psk_id  |-> IF mode = "key_tls" THEN <<ClientId(device)>> ELSE None,
         timeout |-> IF tls /\ timeout < Handshake THEN Handshake ELSE timeout]

-------------------------------------------------------------------------------
(* Properties. *)

\* Whatever device it is and whichever buffers its strings go through, the broker is told
\* of exactly that device: no string is cut, the CONNECT fits the write buffer with its
\* fixed header, and the broker will not wait longer for the client than it was told.
DeviceConnects(mode, params, stored, device, random, sign, fails) ==
    LET set    == HAL_SetDevInfo(device, stored)
        got    == HAL_GetDevInfo(set.info).info
        c      == ConnectOptionInit(mode, params, got, random, sign, fails)
        w      == SerializeConnect(TxBufLen, c.options)
        net    == NetworkInit(mode, params, got)
        id     == device.product_id \o device.device_name
    IN  IF c.rc # "ok" THEN c.held = {}
        ELSE set.rc = "ok" =>
             /\ c.options.client_id = id
             /\ Len(c.options.username[1]) = Len(id) + 8 + 5 + 10 + 3
             /\ SubSeq(c.options.username[1], 1, Len(id) + 1) = id \o Semicolon
             /\ c.options.password # None => SubSeq(c.options.password[1], 1, 40) = sign
                                             /\ Len(c.options.password[1]) = 49
             /\ w.rc = Ok /\ Len(w.bytes) <= TxBufLen
             /\ ConnectArrives(TxBufLen, c.options)
             /\ c.options.keep_alive * 1000 <= params.keep_alive_interval_ms
             /\ net.host = device.product_id \o Dot \o (IF params.host = None THEN Domain ELSE params.host[1])
             /\ net.psk_id \in {None, <<id>>}
             /\ net.timeout >= 500 /\ net.timeout <= 20000
===============================================================================
