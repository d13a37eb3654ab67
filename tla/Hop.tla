-------------------------------- MODULE Hop --------------------------------
(***************************************************************************)
(* One link into this proxy, from the ClientHello or the 64-byte init to   *)
(* the last byte: the serving side is handle_client_with_runtime with      *)
(* read_inbound_handshake, accept_inbound_faketls and ClientReader; the    *)
(* connecting side is either this program too (connect_mtproto_upstream    *)
(* and bridge_relay, as when one instance is the --mtproto-proxy of        *)
(* another), or any client, which frames its bytes as it likes, or a       *)
(* scanner, which sends whatever it has got hold of and reads nothing.     *)
(* Behind the server is Telegram, which opens the relay init and decrypts  *)
(* what follows it.  The scheduling of a session's two directions is the   *)
(* subject of Bridge; here every read is followed by its write.            *)
(***************************************************************************)
EXTENDS FakeTls, FiniteSets

CONSTANTS
  Secrets,     \* the secrets the server knows
  Host,        \* --listen-faketls-domain
  Links,       \* the ways a client connects, see Init
  UpWrites,    \* sizes of the client's writes, at most BufSize for an own one
  DownWrites,  \* sizes of the messages from Telegram
  Frames,      \* payload sizes any client puts in a record
  MaxOdd,      \* most ChangeCipherSpec and alert records any client adds
  Probes,      \* the records, or their bytes, that a scanner has to send
  MaxProbes    \* most of them that it sends after its first

ProbeBytes == UNION {{r.payload[i] : i \in 1..Len(r.payload)} : r \in Probes}

ASSUME HopAssumption ==
  /\ \A l \in Links : IsI16(l.dc) /\ l.up \in Nat /\ l.down \in Nat
  /\ UpWrites \subseteq Nat \ {0} /\ DownWrites \subseteq Nat \ {0}
  /\ Frames \subseteq Nat /\ MaxOdd \in Nat

(* A scanner may hold anything: records of every type and size, hellos it  *)
(* has recorded, made with a known secret, and bytes under any keystream   *)
(* but those derived from a known secret, which cover the tag of an init.  *)
(* Who sends an init made with a known secret is a client to the server,   *)
(* whoever made it: that is a link with this secret.                       *)
ASSUME ProbeAssumption ==
  /\ \A r \in Probes : /\ r = Record(r.type, r.version, r.payload)
                       /\ r.payload \in Seq(ProbeBytes)
  /\ \A b \in ProbeBytes : /\ b = [v |-> b.v, ks |-> b.ks]
                           /\ \A u \in b.ks : u[1].secret \notin Secrets
  /\ \A l \in Links : l.peer = "scanner" => l.opening \in Probes
  /\ MaxProbes \in Nat

VARIABLES
  link,        \* [kind, peer, secret, host, proto, dc, up, down], for a
               \* scanner also the record it opens with
  cli,         \* the connecting side
  srv,         \* the serving side; late: it was not the client who ended it
  up, down,    \* what is on the wire: records, or bytes on a plain link
  upEof, downEof, cut,
  sentUp, gotUp,      \* bytes put on the link, bytes Telegram decrypted
  sentDown, gotDown,  \* bytes Telegram sent, bytes the client decrypted
  odd,         \* records added, and whether the framing was broken
  pads, padded \* history: keystream bytes used on any wire, and how often

vars == <<link, cli, srv, up, down, upEof, downEof, cut, sentUp, gotUp,
          sentDown, gotDown, odd, pads, padded>>

FakeTLS == link.kind = "faketls"
Own == link.peer = "own"
Scanner == link.peer = "scanner"

Data(dir, n) == [i \in 1..n |-> Byte(dir, i)]
Fresh(dir, from, n) == [i \in 1..n |-> Byte(dir, from + i)]

Init ==
  /\ link \in Links
  /\ cli = LET hs == generate_client_handshake(link.secret, link.dc, link.proto,
                                               Random("client"))
           IN [pc |-> "start", records |-> 0, out |-> <<>>, ended |-> FALSE,
               handshake |-> hs.handshake, enc |-> hs.enc, dec |-> hs.dec]
  /\ srv = [pc |-> IF link.kind = "faketls" THEN "hello" ELSE "init",
            filled |-> <<>>, pending |-> <<>>, ended |-> FALSE, late |-> FALSE]
  /\ up = <<>> /\ down = <<>>
  /\ upEof = FALSE /\ downEof = FALSE /\ cut = FALSE
  /\ sentUp = 0 /\ gotUp = <<>> /\ sentDown = 0 /\ gotDown = <<>>
  /\ odd = [count |-> 0, broken |-> FALSE]
  /\ pads = {} /\ padded = 0

(* Keystream bytes used on a wire are remembered.                          *)
Uses(units) ==
  /\ pads' = pads \union units
  /\ padded' = padded + Cardinality(units)

-----------------------------------------------------------------------------
(* The connecting side.                                                    *)

InitUnits == Units(Keyed(PrekeyIv(cli.handshake), link.secret), DcPos)
               \ Units(Keyed(PrekeyIv(cli.handshake), link.secret), TagPos - 1)

(* A FakeTLS client of either kind begins with its hello.                  *)
ClientHello ==
  /\ ~Scanner /\ FakeTLS /\ cli.pc = "start"
  /\ up' = <<client_hello(link.secret, link.host)>>
  /\ cli' = [cli EXCEPT !.pc = "drain"]
  /\ UNCHANGED <<link, srv, down, upEof, downEof, cut, sentUp, gotUp, sentDown,
                 gotDown, odd, pads, padded>>

(* The init: this program writes it at once, any client frames it itself.  *)
SendInit ==
  /\ IF Own
     THEN /\ up' = up \o (IF FakeTLS THEN write_tls_appdata(cli.handshake)
                                     ELSE cli.handshake)
          /\ cli' = [cli EXCEPT !.pc = "open"]
     ELSE /\ cli' = [cli EXCEPT !.pc = "open", !.out = cli.handshake]
          /\ UNCHANGED up
  /\ Uses(InitUnits)
  /\ UNCHANGED <<link, srv, upEof, downEof, cut, sentUp, gotUp, sentDown,
                 gotDown, odd>>

PlainInit ==
  ~Scanner /\ ~FakeTLS /\ cli.pc = "start" /\ SendInit /\ UNCHANGED down

ClientGone(told) == /\ cli' = [cli EXCEPT !.pc = "gone", !.ended = told]
                    /\ upEof' = TRUE

(* A round of drain_faketls_server_hello.                                  *)
Drain ==
  /\ cli.pc = "drain"
  /\ down # <<>>
  /\ LET verdict == drain_faketls_server_hello(Head(down), cli.records)
     IN \/ /\ verdict = "more"
           /\ cli' = [cli EXCEPT !.records = @ + 1]
           /\ UNCHANGED <<link, srv, up, upEof, downEof, cut, sentUp, gotUp,
                          sentDown, gotDown, odd, pads, padded>>
        \/ /\ verdict = "done"
           /\ SendInit
        \/ /\ verdict = "fail"
           /\ ClientGone(FALSE)
           /\ UNCHANGED <<link, srv, up, downEof, cut, sentUp, gotUp,
                          sentDown, gotDown, odd, pads, padded>>
  /\ down' = Tail(down)

(* The server closed before its hello was complete.                        *)
DrainEof ==
  /\ cli.pc = "drain"
  /\ down = <<>> /\ downEof
  /\ ClientGone(FALSE)
  /\ UNCHANGED <<link, srv, up, down, downEof, cut, sentUp, gotUp, sentDown,
                 gotDown, odd, pads, padded>>

(* A write of n bytes; any client keeps them until it makes records.       *)
ClientWrite(n) ==
  /\ cli.pc = "open" /\ ~cut
  /\ sentUp + n <= link.up
  /\ LET bytes == apply_keystream(cli.enc, Fresh("up", sentUp, n))
     IN IF Own
        THEN /\ up' = up \o (IF FakeTLS THEN write_tls_appdata(bytes) ELSE bytes)
             /\ cli' = [cli EXCEPT !.enc = Advance(@, n)]
        ELSE /\ cli' = [cli EXCEPT !.enc = Advance(@, n), !.out = @ \o bytes]
             /\ UNCHANGED up
  /\ sentUp' = sentUp + n
  /\ Uses(Units(cli.enc, n))
  /\ UNCHANGED <<link, srv, down, upEof, downEof, cut, gotUp, sentDown,
                 gotDown, odd>>

(* Any client: the next n bytes of its stream as one record, or as bytes.  *)
(* A record without payload, or too large for every buffer, breaks the     *)
(* framing.                                                                *)
Frame(n) ==
  /\ cli.pc = "open" /\ ~Own /\ ~cut
  /\ n <= Len(cli.out)
  /\ ~FakeTLS => n > 0
  /\ up' = up \o (IF FakeTLS THEN <<AppData(SubSeq(cli.out, 1, n))>>
                             ELSE SubSeq(cli.out, 1, n))
  /\ cli' = [cli EXCEPT !.out = SubSeq(@, n + 1, Len(@))]
  /\ odd' = [odd EXCEPT !.broken = @ \/ (FakeTLS /\ (n = 0 \/ n > MaxPayload + Headroom)),
                        !.count = IF n = 0 THEN @ + 1 ELSE @]
  /\ odd.count < MaxOdd \/ n > 0
  /\ UNCHANGED <<link, srv, down, upEof, downEof, cut, sentUp, gotUp, sentDown,
                 gotDown, pads, padded>>

(* Any client: a ChangeCipherSpec, which is harmless, or an alert.         *)
OddRecord(type) ==
  /\ FakeTLS /\ ~Own /\ cli.pc = "open" /\ ~cut
  /\ odd.count < MaxOdd
  /\ up' = Append(up, Record(type, "1.2", <<Byte(type, 1)>>))
  /\ odd' = [count |-> odd.count + 1, broken |-> odd.broken \/ type = "alert"]
  /\ UNCHANGED <<link, cli, srv, down, upEof, downEof, cut, sentUp, gotUp,
                 sentDown, gotDown, pads, padded>>

(* A read of the client's: a record, or some of the bytes.                 *)
ClientTakes(bytes) ==
  /\ gotDown' = gotDown \o apply_keystream(cli.dec, bytes)
  /\ cli' = [cli EXCEPT !.dec = Advance(@, Len(bytes))]
  /\ UNCHANGED <<link, srv, up, upEof, downEof, cut, sentUp, gotUp, sentDown,
                 odd, pads, padded>>

ClientRead ==
  /\ cli.pc = "open" /\ down # <<>>
  /\ IF FakeTLS
     THEN /\ down' = Tail(down)
          /\ \/ read_tls_appdata(Head(down)) = "data" /\ ClientTakes(Head(down).payload)
             \/ /\ read_tls_appdata(Head(down)) = "end"
                /\ ClientGone(TRUE)
                /\ UNCHANGED <<link, srv, up, downEof, cut, sentUp, gotUp,
                               sentDown, gotDown, odd, pads, padded>>
     ELSE \E n \in {1, Len(down)} :
            /\ down' = SubSeq(down, n + 1, Len(down))
            /\ ClientTakes(SubSeq(down, 1, n))

(* The client has had enough, at any time it has nothing left to frame.    *)
ClientClose ==
  /\ cli.pc = "open" /\ ~cut
  /\ cli.out = <<>>
  /\ ClientGone(FALSE)
  /\ UNCHANGED <<link, srv, up, down, downEof, cut, sentUp, gotUp, sentDown,
                 gotDown, odd, pads, padded>>

(* It is told of the end of the stream; after a cut, by its next read or   *)
(* write.                                                                  *)
ClientEof ==
  /\ cli.pc = "open"
  /\ down = <<>> /\ downEof
  /\ ClientGone(TRUE)
  /\ UNCHANGED <<link, srv, up, down, downEof, cut, sentUp, gotUp, sentDown,
                 gotDown, odd, pads, padded>>

(* A scanner: its first record or bytes, then any others, without regard   *)
(* to what the server makes of them; it leaves when it likes.              *)
Scans(r, pc) ==
  /\ up' = up \o (IF FakeTLS THEN <<r>> ELSE r.payload)
  /\ cli' = [cli EXCEPT !.pc = pc]
  /\ UNCHANGED <<link, srv, down, upEof, downEof, cut, sentUp, gotUp, sentDown,
                 gotDown, pads, padded>>

Scan ==
  /\ Scanner /\ cli.pc = "start"
  /\ Scans(link.opening, "probing")
  /\ UNCHANGED odd

Probe(r) ==
  /\ cli.pc = "probing" /\ ~cut
  /\ odd.count < MaxProbes
  /\ Scans(r, "probing")
  /\ odd' = [odd EXCEPT !.count = @ + 1]

ScannerLeaves ==
  /\ cli.pc = "probing"
  /\ ClientGone(FALSE)
  /\ UNCHANGED <<link, srv, up, down, downEof, cut, sentUp, gotUp, sentDown,
                 gotDown, odd, pads, padded>>

(* The connection is lost with what was on it.                             *)
Cut ==
  /\ ~cut
  /\ cli.pc # "start" /\ (cli.pc # "gone" \/ srv.pc # "gone")
  /\ cut' = TRUE
  /\ upEof' = TRUE /\ downEof' = TRUE
  /\ up' = <<>> /\ down' = <<>>
  /\ UNCHANGED <<link, cli, srv, sentUp, gotUp, sentDown, gotDown, odd, pads,
                 padded>>

-----------------------------------------------------------------------------
(* The serving side.                                                       *)

ServerGone == /\ srv' = [srv EXCEPT !.pc = "gone", !.ended = (srv.pc = "session")]
              /\ downEof' = TRUE
              /\ UNCHANGED <<down, pads, padded>>

(* The record that must be a ClientHello: a bad one is not drained.        *)
ServerHello ==
  /\ srv.pc = "hello" /\ up # <<>>
  /\ up' = Tail(up)
  /\ \/ /\ HelloAccepted(Head(up), Secrets, Host)
        /\ down' = down \o build_faketls_server_hello
        /\ srv' = [srv EXCEPT !.pc = "init"]
        /\ UNCHANGED <<downEof, pads, padded>>
     \/ /\ ~HelloAccepted(Head(up), Secrets, Host)
        /\ ServerGone
  /\ UNCHANGED <<link, cli, upEof, cut, sentUp, gotUp, sentDown, gotDown, odd>>

(* The parse of a complete init: ciphers and relay init, or the drain.     *)
Parsed(handshake, pending) ==
  LET infos == {parse_handshake(handshake, s) : s \in Secrets} \ {Rejected}
  IN \/ /\ infos = {}
        /\ srv' = [srv EXCEPT !.pc = "draining", !.filled = <<>>]
        /\ UNCHANGED <<down, downEof, pads, padded>>
     \/ \E info \in infos :
          LET init == generate_relay_init(info.proto, DcIdx(info), Random("relay"))
              relay == Raw(PrekeyIv(init))
              c == build_connection_ciphers(info.prekey_and_iv, info.secret, init)
          IN /\ srv' = [pc |-> "session", filled |-> <<>>, pending |-> pending,
                        ended |-> FALSE, late |-> FALSE,
                        relayInit |-> init, ciphers |-> c,
                        tgDec |-> FastForward(relay),
                        tgEnc |-> Raw(Reverse(PrekeyIv(init)))]
             /\ Uses(Units(relay, PadPos) \ Units(relay, TagPos - 1))
             /\ UNCHANGED <<down, downEof>>

(* Fault: off by one, a complete init waits for one more record.           *)
FillPastEnd(bytes) ==
  LET all == srv.filled \o bytes
  IN \/ /\ Len(all) <= HandshakeLen
        /\ srv' = [srv EXCEPT !.filled = all]
        /\ UNCHANGED <<down, downEof, pads, padded>>
     \/ /\ Len(all) > HandshakeLen
        /\ Parsed(SubSeq(all, 1, HandshakeLen),
                  SubSeq(all, HandshakeLen + 1, Len(all)))

(* Fault: what follows the init in its record is lost.                     *)
FillDropsPending(bytes) ==
  LET all == srv.filled \o bytes
  IN \/ /\ Len(all) < HandshakeLen
        /\ srv' = [srv EXCEPT !.filled = all]
        /\ UNCHANGED <<down, downEof, pads, padded>>
     \/ /\ Len(all) >= HandshakeLen
        /\ Parsed(SubSeq(all, 1, HandshakeLen), <<>>)

(* The fill loop of accept_inbound_faketls: the init may be spread over    *)
(* records, and the last of them may hold the first data already.          *)
Fill(bytes) ==
  LET all == srv.filled \o bytes
  IN \/ /\ Len(all) < HandshakeLen
        /\ srv' = [srv EXCEPT !.filled = all]
        /\ UNCHANGED <<down, downEof, pads, padded>>
     \/ /\ Len(all) >= HandshakeLen
        /\ Parsed(SubSeq(all, 1, HandshakeLen),
                  SubSeq(all, HandshakeLen + 1, Len(all)))

ServerInit ==
  /\ srv.pc = "init"
  /\ IF FakeTLS
     THEN /\ up # <<>>
          /\ up' = Tail(up)
          /\ LET verdict == read_tls_appdata(Head(up))
             IN \/ verdict = "data" /\ Fill(Head(up).payload)
                \/ verdict = "skip" /\ UNCHANGED <<srv, down, downEof, pads, padded>>
                \/ verdict = "end" /\ ServerGone
     ELSE /\ Len(up) >= HandshakeLen
          /\ up' = SubSeq(up, HandshakeLen + 1, Len(up))
          /\ Parsed(SubSeq(up, 1, HandshakeLen), <<>>)
  /\ UNCHANGED <<link, cli, upEof, cut, sentUp, gotUp, sentDown, gotDown, odd>>

(* The stream is over before the handshake is.                             *)
NoHandshake ==
  /\ srv.pc \in {"hello", "init"}
  /\ upEof
  /\ up = <<>> \/ (~FakeTLS /\ Len(up) < HandshakeLen)
  /\ ServerGone
  /\ UNCHANGED <<link, cli, up, upEof, cut, sentUp, gotUp, sentDown, gotDown, odd>>

(* The handshake takes longer than its timeout.                            *)
HandshakeTimeout ==
  /\ srv.pc \in {"hello", "init"}
  /\ srv' = [srv EXCEPT !.pc = "gone", !.late = TRUE]
  /\ downEof' = TRUE
  /\ UNCHANGED <<down, pads, padded>>
  /\ UNCHANGED <<link, cli, up, upEof, cut, sentUp, gotUp, sentDown, gotDown, odd>>

(* A bad handshake: everything is swallowed until the peer closes.         *)
Swallow ==
  /\ srv.pc = "draining"
  /\ \/ up # <<>> /\ up' = <<>> /\ UNCHANGED <<srv, down, downEof, pads, padded>>
     \/ up = <<>> /\ upEof /\ ServerGone /\ UNCHANGED up
  /\ UNCHANGED <<link, cli, upEof, cut, sentUp, gotUp, sentDown, gotDown, odd>>

-----------------------------------------------------------------------------
(* The session: client to Telegram.                                        *)

Forward(bytes) ==
  LET c == srv.ciphers
      n == Len(bytes)
      wire == apply_keystream(c.tg_enc, apply_keystream(c.clt_dec, bytes))
  IN /\ gotUp' = gotUp \o apply_keystream(srv.tgDec, wire)
     /\ srv' = [srv EXCEPT !.ciphers.clt_dec = Advance(@, n),
                           !.ciphers.tg_enc = Advance(@, n),
                           !.tgDec = Advance(@, n),
                           !.pending = IF @ = <<>> THEN @ ELSE SubSeq(@, n + 1, Len(@))]
     /\ Uses(Units(c.tg_enc, n))
     /\ UNCHANGED <<down, downEof>>

EndSession == /\ ServerGone
              /\ UNCHANGED gotUp

(* ClientReader::read, then the upload loop's body.                        *)
ServerRead ==
  /\ srv.pc = "session"
  /\ IF srv.pending # <<>>
     THEN /\ Forward(SubSeq(srv.pending, 1, Min({BufSize, Len(srv.pending)})))
          /\ UNCHANGED up
     ELSE IF FakeTLS
     THEN /\ up # <<>>
          /\ up' = Tail(up)
          /\ LET verdict == read_tls_appdata(Head(up))
             IN \/ verdict = "data" /\ Forward(Head(up).payload)
                \/ /\ verdict = "skip"
                   /\ UNCHANGED <<srv, down, downEof, gotUp, pads, padded>>
                \/ verdict = "end" /\ EndSession
     ELSE \E n \in {1, Min({BufSize, Len(up)})} :
            /\ n <= Len(up)
            /\ up' = SubSeq(up, n + 1, Len(up))
            /\ n > 0 /\ Forward(SubSeq(up, 1, n))
  /\ UNCHANGED <<link, cli, upEof, cut, sentUp, sentDown, gotDown, odd>>

ServerEof ==
  /\ srv.pc = "session"
  /\ srv.pending = <<>> /\ up = <<>> /\ upEof
  /\ EndSession
  /\ UNCHANGED <<link, cli, up, upEof, cut, sentUp, sentDown, gotDown, odd>>

(* Telegram to client: a message of n bytes.                               *)
ServerWrite(n) ==
  /\ srv.pc = "session" /\ ~cut
  /\ sentDown + n <= link.down
  /\ LET c == srv.ciphers
         wire == apply_keystream(srv.tgEnc, Fresh("down", sentDown, n))
         bytes == apply_keystream(c.clt_enc, apply_keystream(c.tg_dec, wire))
     IN /\ down' = down \o (IF FakeTLS THEN write_tls_appdata(bytes) ELSE bytes)
        /\ srv' = [srv EXCEPT !.ciphers.tg_dec = Advance(@, n),
                              !.ciphers.clt_enc = Advance(@, n),
                              !.tgEnc = Advance(@, n)]
        /\ Uses(Units(c.clt_enc, n))
  /\ sentDown' = sentDown + n
  /\ UNCHANGED <<link, cli, up, upEof, downEof, cut, sentUp, gotUp, gotDown, odd>>

(* No tier of the ladder connects, or Telegram closes: the session ends    *)
(* with what was written to the client.                                    *)
TelegramEnds ==
  /\ srv.pc = "session"
  /\ srv' = [srv EXCEPT !.pc = "gone", !.late = TRUE]
  /\ downEof' = TRUE
  /\ UNCHANGED <<link, cli, up, down, upEof, cut, sentUp, gotUp, sentDown,
                 gotDown, odd, pads, padded>>

-----------------------------------------------------------------------------
Client ==
  \/ ClientHello \/ PlainInit \/ Drain \/ DrainEof
  \/ ClientRead \/ ClientClose \/ ClientEof
  \/ \E n \in UpWrites : ClientWrite(n)
  \/ \E n \in Frames : Frame(n)
  \/ \E type \in {"ccs", "alert"} : OddRecord(type)
  \/ Scan \/ ScannerLeaves
  \/ \E r \in Probes : Probe(r)

Receive == ServerHello \/ ServerInit \/ NoHandshake \/ Swallow \/ ServerRead \/ ServerEof

Over == cli.pc = "gone" /\ srv.pc = "gone" /\ UNCHANGED vars

Next ==
  \/ Client \/ Receive \/ HandshakeTimeout \/ TelegramEnds \/ Cut \/ Over
  \/ \E n \in DownWrites : ServerWrite(n)

(* Code that can go on does; an own client's handshake is code too.        *)
Spec ==
  /\ Init /\ [][Next]_vars
  /\ WF_vars(Receive)
  /\ WF_vars(ClientHello \/ PlainInit \/ Drain \/ DrainEof)

-----------------------------------------------------------------------------
TypeOK ==
  /\ link \in Links
  /\ cli.pc \in {"start", "drain", "open", "probing", "gone"}
  /\ srv.pc \in {"hello", "init", "draining", "session", "gone"}
  /\ Len(cli.out) <= HandshakeLen + link.up
  /\ Len(srv.filled) < HandshakeLen
  /\ sentUp \in 0..link.up /\ sentDown \in 0..link.down

(***************************************************************************)
(* Either direction of the link is a pipe: through both layers of          *)
(* encryption, records of any size, an init that shares its record with    *)
(* data or is spread over several, Telegram decrypts the client's bytes    *)
(* and the client Telegram's, in order and complete, and no side takes a   *)
(* record for the end of the stream unless the peer broke the framing.     *)
(***************************************************************************)
UpPipe ==
  INSTANCE Pipe WITH sent <- Data("up", sentUp), got <- gotUp, closed <- upEof,
                     broken <- cut \/ odd.broken, ended <- srv.ended

DownPipe ==
  INSTANCE Pipe WITH sent <- Data("down", sentDown), got <- gotDown,
                     closed <- downEof, broken <- cut, ended <- cli.ended

ImplementsUpPipe == UpPipe!Spec
ImplementsDownPipe == DownPipe!Spec

(***************************************************************************)
(* "The CTR keystream used there must not be reused": over both            *)
(* handshakes, both directions of the link and the way up to Telegram (the *)
(* way down is under Telegram's own hand), no keystream byte covers two    *)
(* bytes.  Both ends would agree on a reused keystream, so no exchange of  *)
(* data would show it.                                                     *)
(***************************************************************************)
KeystreamOnce == Cardinality(pads) = padded

(***************************************************************************)
(* Telegram is asked for the DC and the protocol the client asked for, to  *)
(* the last value of the signed 16-bit index: its way is through an        *)
(* absolute value, u32, back to i16 and a negation.                        *)
(***************************************************************************)
DcKept ==
  srv.pc = "session" =>
    Opened(srv.relayInit, Raw(PrekeyIv(srv.relayInit)))
      = [ok |-> TRUE, proto |-> link.proto, dc |-> link.dc]

Stranger == link.secret \notin Secrets \/ (FakeTLS /\ link.host # Host)

(* The scanner's first record is a hello for the host, made with a known   *)
(* secret: one that it has recorded.                                       *)
Replayed == Scanner /\ \E s \in Secrets : link.opening = client_hello(s, Host)

(***************************************************************************)
(* "Drain the connection silently to avoid giving information to           *)
(* scanners": nothing that a stranger sends, in whatever records and in    *)
(* whatever order, reaches Telegram or brings them a byte of it; and they  *)
(* are sent nothing at all, but for one case.  A hello has no age, since   *)
(* parse_faketls_client_hello does not look at its timestamp: who opens    *)
(* with a recorded one is sent the ServerHello, once, and no more.         *)
(***************************************************************************)
StrangersGetNothing ==
  Stranger \/ Scanner =>
    /\ gotUp = <<>> /\ sentDown = 0
    /\ \/ down = <<>>
       \/ FakeTLS /\ Replayed /\ down = build_faketls_server_hello

(***************************************************************************)
(* Between two instances of this program everything sent arrives: the      *)
(* FakeTLS handshake of one side brings the other's to its end, and no     *)
(* byte stays behind, unless the connection is cut, the handshake is too   *)
(* slow or Telegram's side ends the session.                               *)
(***************************************************************************)
OwnStreamArrives ==
  Own /\ ~Stranger =>
    \/ <>[](Len(gotUp) = sentUp /\ (srv.pc = "session" \/ srv.ended))
    \/ <>cut
    \/ <>srv.late

=============================================================================
