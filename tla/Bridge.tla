------------------------------- MODULE Bridge -------------------------------
(***************************************************************************)
(* A bridged session of proxy.rs: bridge_ws, bridge_relay or bridge_tcp    *)
(* with its upload and download tasks, and join_bridge, which waits for    *)
(* the first of them and aborts the other.                                 *)
(*                                                                         *)
(* The upload carries real bytes, because the WebSocket framing depends on *)
(* them; the download is a count of bytes.  A task can be descheduled, and *)
(* cancelled, at every await: between two messages of the upload and       *)
(* between any two bytes of a write_all.                                   *)
(***************************************************************************)
EXTENDS Splitter

CONSTANTS
  Kinds,     \* the bridges in play, out of BridgeKinds
  Streams,   \* what clients send: the bytes, and where their packets end
  ReadBuf,   \* CLIENT_READ_BUF_SIZE
  Messages,  \* sizes of the messages or reads of the download, a sequence
  MayStall   \* whether a peer may stop reading without closing

(* WebSocket with one packet per message, WebSocket tunnel through a       *)
(* Worker, upstream MTProto proxy, raw TCP.                                *)
BridgeKinds == {"packets", "tunnel", "relay", "tcp"}

(* The bytes of one packet of MTProto's transports: a length in words and  *)
(* one byte, or three behind 127, or in bytes and four of them; the high   *)
(* bit asks for a quick acknowledgement.  A length of zero is no packet.   *)
Packet(proto, p) ==
  LET words == p[2] + 256 * p[3] + 65536 * p[4]
      bytes == p[1] + 256 * p[2] + 65536 * p[3] + 16777216 * (p[4] % 128)
  IN IF proto # "abridged" THEN Len(p) > 4 /\ Len(p) = 4 + bytes
     ELSE IF p[1] % 128 = 127 THEN Len(p) > 4 /\ Len(p) = 4 + 4 * words
     ELSE Len(p) > 1 /\ Len(p) = 1 + 4 * (p[1] % 128)

(* A stream begins with whole packets; what follows them is any bytes.     *)
Framed(s) ==
  /\ s.bytes \in Seq(Byte) /\ s.ends \in Seq(1..Len(s.bytes))
  /\ \A i, j \in 1..Len(s.ends) : i < j => s.ends[i] < s.ends[j]
  /\ \A i \in 1..Len(s.ends) :
       LET from == IF i = 1 THEN 0 ELSE s.ends[i - 1]
       IN Packet(s.proto, SubSeq(s.bytes, from + 1, s.ends[i]))

ASSUME BridgeAssumption ==
  /\ Kinds \subseteq BridgeKinds
  /\ \A s \in Streams : Framed(s)
  /\ ReadBuf \in Nat \ {0}
  /\ Messages \in Seq(Nat \ {0})
  /\ MayStall \in BOOLEAN

VARIABLES
  kind,      \* which bridge this is
  stream,    \* the member of Streams this client sends
  rpos,      \* bytes of it read, and position of clt_dec and tg_enc
  splitter,  \* MsgSplitter, used for kind "packets"
  up,        \* the upload task
  wire,      \* bytes the remote connection accepted
  down,      \* the download task
  counters,  \* BridgeCounters
  session,   \* where the session's own task is, and what it logged
  client,    \* the client's end of its socket
  remote     \* the far end of the remote connection

upload == <<rpos, splitter, up, wire>>
peers == <<client, remote>>
vars == <<kind, stream, upload, down, counters, session, peers>>

Init ==
  /\ kind \in Kinds
  /\ stream \in Streams
  /\ rpos = 0
  /\ splitter = NewSplitter(stream.proto)
  /\ up = [pc |-> "read", parts |-> <<>>, n |-> 0]
  /\ wire = <<>>
  /\ down = [pc |-> "read", i |-> 1, todo |-> 0, written |-> 0]
  /\ counters = [up |-> 0, down |-> 0]
  /\ session = [pc |-> "init", closed_by |-> "none",
                logged |-> [up |-> 0, down |-> 0]]
  /\ client = "reads"
  /\ remote = "reads"

(* Both tasks are spawned.  An aborted one can still be in the middle of a *)
(* poll, so it runs on until it is cancelled at its next await.            *)
TasksRun == session.pc \notin {"init", "failed"}

(* A write to a peer: it waits for one that does not read, and it can fail *)
(* once the connection is gone.                                            *)
Accepts(peer) == peer # "stalled"

-----------------------------------------------------------------------------
(* What happens before the tasks are spawned.  bridge_ws and bridge_tcp    *)
(* send the relay init, bridge_tcp after connecting; for an upstream proxy *)
(* connect_mtproto_upstream has sent it.                                   *)

Begin ==
  /\ session.pc = "init"
  /\ session' = [session EXCEPT !.pc = "run"]
  /\ UNCHANGED <<kind, stream, upload, down, counters, peers>>

BeginFails ==
  /\ session.pc = "init"
  /\ kind # "relay"
  /\ session' = [session EXCEPT !.pc = "failed"]
  /\ UNCHANGED <<kind, stream, upload, down, counters, peers>>

-----------------------------------------------------------------------------
(* Upload                                                                  *)

(* The units in which a chunk reaches the remote: packets, the chunk as    *)
(* one message, or, for write_all, single bytes.                           *)
Cut(chunk) ==
  CASE kind = "packets" -> Split(splitter, chunk)
    [] kind = "tunnel"  -> [s |-> splitter, parts |-> <<chunk>>]
    [] OTHER            -> [s |-> splitter,
                            parts |-> [i \in 1..Len(chunk) |-> <<chunk[i]>>]]

UpRead(n) ==
  /\ TasksRun /\ up.pc = "read"
  /\ n \in 1..ReadBuf /\ rpos + n <= Len(stream.bytes)
  /\ LET cut == Cut(Encrypted(SubSeq(stream.bytes, rpos + 1, rpos + n), rpos))
     IN /\ splitter' = cut.s
        /\ up' = [pc |-> "send", parts |-> cut.parts, n |-> n]
  /\ rpos' = rpos + n
  /\ UNCHANGED <<kind, stream, wire, down, counters, session, peers>>

UpSend ==
  /\ TasksRun /\ up.pc = "send"
  /\ up.parts # <<>>
  /\ Accepts(remote)
  /\ wire' = wire \o Head(up.parts)
  /\ up' = [up EXCEPT !.parts = Tail(@)]
  /\ UNCHANGED <<kind, stream, rpos, splitter, down, counters, session, peers>>

(* Fault: a part that cannot be sent is passed over.                       *)
UpSendFailContinues ==
  /\ TasksRun /\ up.pc = "send"
  /\ up.parts # <<>>
  /\ remote = "gone"
  /\ up' = [up EXCEPT !.parts = Tail(@)]
  /\ UNCHANGED <<kind, stream, rpos, splitter, wire, down, counters, session,
                 peers>>

(* The task ends without flushing or closing.                              *)
UpSendFail ==
  /\ TasksRun /\ up.pc = "send"
  /\ up.parts # <<>>
  /\ remote = "gone"
  /\ up' = [up EXCEPT !.pc = "done", !.parts = <<>>]
  /\ UNCHANGED <<kind, stream, rpos, splitter, wire, down, counters, session,
                 peers>>

(* counters.add_up(n), once the whole read has gone out.                   *)
UpCount ==
  /\ TasksRun /\ up.pc = "send"
  /\ up.parts = <<>>
  /\ counters' = [counters EXCEPT !.up = @ + up.n]
  /\ up' = [up EXCEPT !.pc = "read", !.n = 0]
  /\ UNCHANGED <<kind, stream, rpos, splitter, wire, down, session, peers>>

(* The client closed, or its read failed.  Only bridge_ws has anything     *)
(* left to do: flush the splitter and close the sink.                      *)
UpEof ==
  /\ TasksRun /\ up.pc = "read"
  /\ client = "gone"
  /\ LET tail == Flush(splitter)
     IN IF kind = "packets"
        THEN /\ splitter' = tail.s
             /\ up' = [up EXCEPT !.pc = "flush", !.parts = tail.parts]
        ELSE /\ up' = [up EXCEPT !.pc = IF kind = "tunnel" THEN "flush" ELSE "done"]
             /\ UNCHANGED splitter
  /\ UNCHANGED <<kind, stream, rpos, wire, down, counters, session, peers>>

(* The partial last packet; a failure is ignored.                          *)
UpFlush ==
  /\ TasksRun /\ up.pc = "flush"
  /\ up.parts # <<>>
  /\ Accepts(remote)
  /\ \/ wire' = wire \o Head(up.parts)
     \/ remote = "gone" /\ UNCHANGED wire
  /\ up' = [up EXCEPT !.parts = Tail(@)]
  /\ UNCHANGED <<kind, stream, rpos, splitter, down, counters, session, peers>>

UpClose ==
  /\ TasksRun /\ up.pc = "flush"
  /\ up.parts = <<>>
  /\ Accepts(remote)
  /\ up' = [up EXCEPT !.pc = "done"]
  /\ UNCHANGED <<kind, stream, rpos, splitter, wire, down, counters, session,
                 peers>>

-----------------------------------------------------------------------------
(* Download                                                                *)

DownRead ==
  /\ TasksRun /\ down.pc = "read"
  /\ down.i <= Len(Messages)
  /\ down' = [down EXCEPT !.pc = "write", !.todo = Messages[down.i], !.i = @ + 1]
  /\ UNCHANGED <<kind, stream, upload, counters, session, peers>>

DownEof ==
  /\ TasksRun /\ down.pc = "read"
  /\ remote = "gone"
  /\ down' = [down EXCEPT !.pc = "done"]
  /\ UNCHANGED <<kind, stream, upload, counters, session, peers>>

(* Fault: the loop of write_all runs once more than there are bytes.       *)
DownWriteOneTooMany ==
  /\ TasksRun /\ down.pc = "write"
  /\ down.todo >= 0
  /\ Accepts(client)
  /\ down' = [down EXCEPT !.todo = @ - 1, !.written = @ + 1]
  /\ UNCHANGED <<kind, stream, upload, counters, session, peers>>

DownWrite ==
  /\ TasksRun /\ down.pc = "write"
  /\ down.todo > 0
  /\ Accepts(client)
  /\ down' = [down EXCEPT !.todo = @ - 1, !.written = @ + 1]
  /\ UNCHANGED <<kind, stream, upload, counters, session, peers>>

DownWriteFail ==
  /\ TasksRun /\ down.pc = "write"
  /\ down.todo > 0
  /\ client = "gone"
  /\ down' = [down EXCEPT !.pc = "done"]
  /\ UNCHANGED <<kind, stream, upload, counters, session, peers>>

DownCount ==
  /\ TasksRun /\ down.pc = "write"
  /\ down.todo = 0
  /\ counters' = [counters EXCEPT !.down = @ + Messages[down.i - 1]]
  /\ down' = [down EXCEPT !.pc = "read"]
  /\ UNCHANGED <<kind, stream, upload, session, peers>>

-----------------------------------------------------------------------------
(* join_bridge: select! takes whichever task is done.                      *)

Finished(pc) == pc \in {"done", "aborted"}

(* Fault: the other direction is joined instead of aborted.                *)
JoinUploadWaits ==
  /\ session.pc = "run"
  /\ up.pc = "done" /\ down.pc = "done"
  /\ session' = [session EXCEPT !.pc = "abort_down", !.closed_by = "client"]
  /\ UNCHANGED <<kind, stream, upload, down, counters, peers>>

JoinUpload ==
  /\ session.pc = "run"
  /\ up.pc = "done"
  /\ session' = [session EXCEPT !.pc = "abort_down", !.closed_by = "client"]
  /\ UNCHANGED <<kind, stream, upload, down, counters, peers>>

JoinDownload ==
  /\ session.pc = "run"
  /\ down.pc = "done"
  /\ session' = [session EXCEPT !.pc = "abort_up", !.closed_by = "upstream"]
  /\ UNCHANGED <<kind, stream, upload, down, counters, peers>>

(* The aborted task is dropped at one of its awaits.                       *)
CancelUp ==
  /\ session.pc = "abort_up"
  /\ ~Finished(up.pc)
  /\ ~(up.pc = "send" /\ up.parts = <<>>)
  /\ up' = [up EXCEPT !.pc = "aborted"]
  /\ UNCHANGED <<kind, stream, rpos, splitter, wire, down, counters, session,
                 peers>>

CancelDown ==
  /\ session.pc = "abort_down"
  /\ ~Finished(down.pc)
  /\ ~(down.pc = "write" /\ down.todo = 0)
  /\ down' = [down EXCEPT !.pc = "aborted"]
  /\ UNCHANGED <<kind, stream, upload, counters, session, peers>>

(* Fault: the aborted task is not awaited before the totals are read.      *)
LogUnjoined ==
  /\ session.pc \in {"abort_up", "abort_down"}
  /\ session' = [session EXCEPT !.pc = "over", !.logged = counters]
  /\ UNCHANGED <<kind, stream, upload, down, counters, peers>>

(* The aborted task has been awaited; totals and log_session_closed.       *)
Log ==
  /\ \/ session.pc = "abort_up" /\ Finished(up.pc)
     \/ session.pc = "abort_down" /\ Finished(down.pc)
  /\ session' = [session EXCEPT !.pc = "over", !.logged = counters]
  /\ UNCHANGED <<kind, stream, upload, down, counters, peers>>

-----------------------------------------------------------------------------
(* While the session lasts, the peers close, or stop reading, for a while  *)
(* or for good, and stay connected.                                        *)

Lasts == session.pc \notin {"over", "failed"}

ClientStep ==
  /\ Lasts
  /\ \/ client # "gone" /\ client' = "gone"
     \/ MayStall /\ client = "reads" /\ client' = "stalled"
     \/ client = "stalled" /\ client' = "reads"
  /\ UNCHANGED <<kind, stream, upload, down, counters, session, remote>>

RemoteStep ==
  /\ Lasts
  /\ \/ remote # "gone" /\ remote' = "gone"
     \/ MayStall /\ remote = "reads" /\ remote' = "stalled"
     \/ remote = "stalled" /\ remote' = "reads"
  /\ UNCHANGED <<kind, stream, upload, down, counters, session, client>>

(* What each task does by itself; its reads of data need a peer that sends *)
UploadRuns == UpSend \/ UpSendFail \/ UpCount \/ UpEof \/ UpFlush \/ UpClose
DownloadRuns == DownEof \/ DownWrite \/ DownWriteFail \/ DownCount

Session ==
  Begin \/ BeginFails \/ JoinUpload \/ JoinDownload \/ CancelUp \/ CancelDown
    \/ Log

Next ==
  \/ \E n \in 1..ReadBuf : UpRead(n)
  \/ UploadRuns
  \/ DownRead
  \/ DownloadRuns
  \/ Session
  \/ ClientStep
  \/ RemoteStep

Spec == Init /\ [][Next]_vars

(***************************************************************************)
(* The three tasks are polled whenever they can go on.  The peers owe      *)
(* nothing: they need neither send, nor read, nor close.                   *)
(***************************************************************************)
FairSpec ==
  Spec /\ WF_vars(UploadRuns) /\ WF_vars(DownloadRuns) /\ WF_vars(Session)

-----------------------------------------------------------------------------
TypeOK ==
  /\ kind \in Kinds /\ stream \in Streams
  /\ rpos \in 0..Len(stream.bytes)
  /\ splitter \in [proto : {stream.proto}, dec : Nat, cipher_buf : Seq(Byte),
                   plain_buf : Seq(Byte), disabled : BOOLEAN]
  /\ up \in [pc : {"read", "send", "flush", "done", "aborted"},
             parts : Seq(Seq(Byte)), n : 0..ReadBuf]
  /\ wire \in Seq(Byte)
  /\ down \in [pc : {"read", "write", "done", "aborted"},
               i : 1..(Len(Messages) + 1), todo : Nat, written : Nat]
  /\ counters \in [up : Nat, down : Nat]
  /\ session \in [pc : {"init", "failed", "run", "abort_up", "abort_down",
                        "over"},
                  closed_by : {"none", "client", "upstream"},
                  logged : [up : Nat, down : Nat]]
  /\ {client, remote} \subseteq {"reads", "stalled", "gone"}

(***************************************************************************)
(* Whichever bridge carries it, however reads cut it and wherever a send   *)
(* fails or the task is aborted: what the remote connection accepted       *)
(* decrypts to a prefix of what the client sent, without gap, repetition   *)
(* or exchange.  A keystream that slipped would turn all later bytes into  *)
(* noise.                                                                  *)
(***************************************************************************)
RemoteSeesStream ==
  Decrypted(wire, 0) = SubSeq(stream.bytes, 1, Len(wire))

(***************************************************************************)
(* "One WebSocket message per MTProto packet" (WsFraming::Packets): every  *)
(* message sent while the stream is understood begins where one of the     *)
(* client's packets begins and ends where that packet ends.                *)
(***************************************************************************)
PacketFrom(at) ==
  CHOOSE e \in {stream.ends[i] : i \in 1..Len(stream.ends)} :
    e > at /\ \A i \in 1..Len(stream.ends) : stream.ends[i] > at => e <= stream.ends[i]

OnePacketPerMessage ==
  [][kind = "packets" /\ up.pc = "send" /\ wire' # wire
       /\ (\E i \in 1..Len(stream.ends) : stream.ends[i] > Len(wire))
     => Len(wire') = PacketFrom(Len(wire))]_vars

(***************************************************************************)
(* The totals a session logs are final and true to what was carried        *)
(* although one direction was cancelled: at most the read or message in    *)
(* progress is missing from them, and no whole packet is counted that the  *)
(* remote connection did not get.                                          *)
(***************************************************************************)
TotalsHonest ==
  session.pc = "over" =>
    LET logged == session.logged
    IN /\ logged = counters
       /\ Len(wire) <= logged.up + up.n
       /\ kind # "packets" => logged.up <= Len(wire)
       /\ \A i \in 1..Len(stream.ends) :
            ~(Len(wire) < stream.ends[i] /\ stream.ends[i] <= logged.up)
       /\ logged.down <= down.written
       /\ down.i > 1 => down.written <= logged.down + Messages[down.i - 1]
       /\ down.i = 1 => down.written = 0

(***************************************************************************)
(* join_bridge exists so that a closed side ends the session ("the other   *)
(* is cancelled immediately rather than hanging on blocked I/O").  It does *)
(* unless the task that would notice is itself blocked in a write to a     *)
(* peer that stays connected and does not read.                            *)
(***************************************************************************)
Blocked ==
  \/ up.pc \in {"send", "flush"} /\ ~Accepts(remote)
  \/ down.pc = "write" /\ ~Accepts(client)

ClosedSideEndsSession ==
  []<>(\/ client # "gone" /\ remote # "gone"
       \/ session.pc \in {"over", "failed"}
       \/ Blocked)

=============================================================================
