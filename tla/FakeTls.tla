------------------------------ MODULE FakeTls ------------------------------
(***************************************************************************)
(* The record layer of faketls.rs, as operators on records.  A record is   *)
(* its type, its version and its payload; it is read whole, with           *)
(* read_exact, so a reader meets a record only once all of it is there.    *)
(***************************************************************************)
EXTENDS Obfuscation

CONSTANTS
  MaxPayload,          \* TLS_MAX_RECORD_PAYLOAD: 2^14
  Headroom,            \* TLS_READ_HEADROOM: 256
  MaxHandshakeRecords  \* TLS_MAX_HANDSHAKE_RECORDS: 20

ASSUME RecordAssumption ==
  /\ MaxPayload \in Nat \ {0} /\ Headroom \in Nat
  /\ MaxHandshakeRecords \in Nat \ {0}
  /\ HandshakeLen <= MaxPayload

Record(type, version, payload) ==
  [type |-> type, version |-> version, payload |-> payload]

AppData(payload) == Record("appdata", "1.2", payload)

(* CLIENT_READ_BUF_SIZE, and the size of every other buffer for records.   *)
BufSize == MaxPayload + Headroom

-----------------------------------------------------------------------------
(* Fault: one record, whatever the size.                                   *)
WriteOneRecord(data) == <<AppData(data)>>

(* write_tls_appdata: no record is empty, none exceeds MaxPayload.         *)
write_tls_appdata(data) ==
  LET count == (Len(data) + MaxPayload - 1) \div MaxPayload
  IN [i \in 1..count |->
        AppData(SubSeq(data, (i - 1) * MaxPayload + 1,
                       Min({i * MaxPayload, Len(data)})))]

(* read_tls_appdata's verdict on the next record: "data", "skip" and go on *)
(* with the record after it, or "end", the Ok(0) that every loop takes for *)
(* the end of the stream, which is also what an empty record gives.        *)
read_tls_appdata(record) ==
  IF Len(record.payload) > BufSize THEN "end"
  ELSE CASE record.type = "ccs" -> "skip"
         [] record.type = "appdata" /\ record.payload # <<>> -> "data"
         [] OTHER -> "end"

(* One round of drain_faketls_server_hello, which has read n records.      *)
drain_faketls_server_hello(record, n) ==
  IF record.version # "1.2" \/ Len(record.payload) > BufSize THEN "fail"
  ELSE CASE record.type = "appdata" -> "done"
         [] record.type \in {"handshake", "ccs"} /\ n + 1 < MaxHandshakeRecords -> "more"
         [] OTHER -> "fail"

-----------------------------------------------------------------------------
(* A ClientHello names a host and is signed with a key; the signature, an  *)
(* HMAC, verifies under that key and no other.  The time that is mixed     *)
(* into its last four bytes is left out: no reader looks at it, so a       *)
(* recorded hello is as good as a new one.                                 *)
client_hello(key, host) == Record("handshake", "1.0", <<Byte("hello", <<key, host>>)>>)

(* Fault: the host is enough, the signature is not verified.               *)
HelloUnsigned(record, secrets, host) ==
  /\ Len(record.payload) = 1 /\ record.payload[1].v[1] = "hello"
  /\ record.type = "handshake" /\ record.version = "1.0"
  /\ record.payload[1].v[2][2] = host

(* read_tls_record and the checks of accept_inbound_faketls.               *)
HelloAccepted(record, secrets, host) ==
  /\ Len(record.payload) = 1 /\ record.payload[1].v[1] = "hello"
  /\ record.type = "handshake" /\ record.version = "1.0"
  /\ \E s \in secrets : record.payload[1] = Byte("hello", <<s, host>>)

(* Fault: no record ends the fake handshake.                               *)
ServerHelloNoCert ==
  << Record("handshake", "1.2", <<Byte("shello", 0)>>),
     Record("ccs", "1.2", <<Byte("ccs", 1)>>) >>

(* Exactly one record of application data, the certificate, at its end.    *)
build_faketls_server_hello ==
  << Record("handshake", "1.2", <<Byte("shello", 0)>>),
     Record("ccs", "1.2", <<Byte("ccs", 1)>>),
     AppData(<<Byte("cert", 0)>>) >>

=============================================================================
