------------------------------- MODULE Fetch -------------------------------
(***************************************************************************)
(* The start-up fetch of the default Cloudflare domain list:               *)
(* default_domains.rs (fetch, parse, deobfuscate, built-in fallback) over  *)
(* default_domains/http.rs (one bounded HTTP exchange).                    *)
(*                                                                         *)
(* A response is a sequence of tokens, one unit of length each: a header   *)
(* byte, the end of the headers, a line of the list, a chunk-size line, a  *)
(* line end, a trailer, the blank line after the trailers.  The server's   *)
(* tokens arrive in reads of any length; the connection may break, or go   *)
(* silent until a timeout, at any point.                                   *)
(***************************************************************************)
EXTENDS Integers, FiniteSets, Sequences

CONSTANTS
  Responses,   \* the responses the server may give, see Wire
  None,        \* no response yet
  Builtin,     \* FALLBACK_ENCODED, deobfuscated
  Letters,     \* size of the alphabet: 26
  MaxHeader,   \* MAX_HEADER_BYTES
  MaxBody,     \* MAX_BODY_BYTES
  MaxRead      \* most tokens one read returns: 8192

ASSUME FetchAssumption ==
  /\ MaxHeader \in Nat /\ MaxBody \in Nat /\ MaxRead \in Nat \ {0}
  /\ MaxHeader <= MaxBody
  /\ Letters \in Nat \ {0}
  /\ Builtin \in Seq(Seq(Nat)) \ {<<>>}

VARIABLES
  fetchPc,   \* where https_get is
  resp,      \* the response of this exchange
  rest,      \* tokens of it not read yet
  buf,       \* the buffer of the current reader
  pos,       \* position in buf, for chunks and trailers
  decoded,   \* body bytes decoded from chunks
  why,       \* "none", then how the exchange ended
  domains    \* the result of fetch_default_domains_with_outbound

fetchVars == <<fetchPc, resp, rest, buf, pos, decoded, why, domains>>

-----------------------------------------------------------------------------
(* A domain's name without its suffix is a sequence of characters, the     *)
(* letters being 0..Letters-1 and everything else above.  The list's       *)
(* maintainer shifts the letters forward by their number.                  *)

Name == Seq(Nat)

LetterCount(name) == Cardinality({i \in 1..Len(name) : name[i] < Letters})

Obfuscate(name) ==
  [i \in 1..Len(name) |->
     IF name[i] < Letters THEN (name[i] + LetterCount(name)) % Letters
     ELSE name[i]]

deobfuscate(name) ==
  [i \in 1..Len(name) |->
     IF name[i] < Letters THEN (name[i] - LetterCount(name)) % Letters
     ELSE name[i]]

(* Lines without the .com suffix, comments and empty lines are dropped.    *)
Line(name) == [type |-> "line", name |-> Obfuscate(name)]
Comment == [type |-> "comment"]

LinesOf(body) == {i \in 1..Len(body) : body[i].type = "line"}

Nth(places, k) == CHOOSE i \in places : Cardinality({j \in places : j <= i}) = k

parse_domain_list(body) ==
  [k \in 1..Cardinality(LinesOf(body)) |->
     deobfuscate(body[Nth(LinesOf(body), k)].name)]

-----------------------------------------------------------------------------
(* A response: status and headers (their number, whether two lengths are   *)
(* in conflict), the framing of the body and the body, its content; the    *)
(* length the headers declare, or the chunks the body is cut into (the     *)
(* place of a chunk's last token in the body, and the size it declares)    *)
(* with the trailers after the last one; extra tokens behind it all; cut,  *)
(* how many tokens at the end the server does not send, and open, whether  *)
(* it then leaves the connection open instead of closing it.  list is what *)
(* it published.                                                           *)
Tok(type) == [type |-> type]
Size(n) == [type |-> "size", n |-> n]
Unparsable == -1   \* the number of a size line that is not one

Token ==
  [type : {"header", "end", "crlf", "trailer", "blank", "comment"}]
    \union [type : {"size"}, n : Nat \union {Unparsable}]
    \union [type : {"line"}, name : Name]

(* Whatever stands where a chunk begins is parsed as its size line.        *)
SizeOf(t) == IF t.type = "size" THEN t.n ELSE Unparsable

Lines(list) == [i \in 1..Len(list) |-> Line(list[i])]

LastOf(r, i) == IF i = 0 THEN 0 ELSE r.chunks[i].last

(* Where the size line and the line end of chunk i stand: every chunk adds *)
(* these two to the content.                                               *)
SizePlace(r, i) == LastOf(r, i - 1) + 2 * i - 1
EndPlace(r, i) == LastOf(r, i) + 2 * i

ChunkAt(r, p) ==
  CHOOSE i \in 1..Len(r.chunks) : SizePlace(r, i) <= p /\ p <= EndPlace(r, i)

ChunkToken(r, p) ==
  LET i == ChunkAt(r, p)
  IN CASE p = SizePlace(r, i) -> Size(r.chunks[i].size)
       [] p = EndPlace(r, i) -> Tok("crlf")
       [] OTHER -> r.body[p - (2 * i - 1)]

ChunkTokens(r) ==
  [p \in 1..(Len(r.body) + 2 * Len(r.chunks)) |-> ChunkToken(r, p)]

Repeat(t, n) == [i \in 1..n |-> t]

BodyTokens(r) ==
  CASE r.framing = "chunked" ->
         ChunkTokens(r) \o <<Size(0)>>
           \o Repeat(Tok("trailer"), r.trailers) \o <<Tok("blank")>>
    [] OTHER -> r.body

Behind(r) == BodyTokens(r) \o r.extra

Sent(r) == Repeat(Tok("header"), r.headers) \o <<Tok("end")>> \o Behind(r)

Wire(r) == SubSeq(Sent(r), 1, Len(Sent(r)) - r.cut)

ASSUME ResponseAssumption ==
  \A r \in Responses :
    /\ r.framing \in {"length", "eof", "chunked"}
    /\ r.headers \in Nat /\ r.trailers \in Nat /\ r.len \in Nat
    /\ r.body \in Seq(Token) /\ r.extra \in Seq(Token)
    /\ Sent(r) \in Seq(Token) /\ r.cut \in 0..Len(Sent(r))

(* The names in the body, comments aside, are the published ones.          *)
Published(r) ==
  /\ r.list \in Seq(Name)
  /\ Cardinality(LinesOf(r.body)) = Len(r.list)
  /\ \A k \in 1..Len(r.list) : r.body[Nth(LinesOf(r.body), k)] = Line(r.list[k])

(* The chunks cut the body into non-empty parts.                           *)
Cut(r) ==
  /\ r.chunks \in Seq([last : Nat, size : Nat \union {Unparsable}])
  /\ \A i \in 0..Len(r.chunks), j \in 1..Len(r.chunks) :
       i < j => LastOf(r, i) < LastOf(r, j)
  /\ LastOf(r, Len(r.chunks)) = Len(r.body)

RightSize(r, i) == r.chunks[i].size = LastOf(r, i) - LastOf(r, i - 1)

(* A wrong size no reader can overlook: it is no number, or no line end    *)
(* follows the tokens it counts.                                           *)
PlainlyWrong(r, i) ==
  LET end == SizePlace(r, i) + r.chunks[i].size + 1
  IN \/ r.chunks[i].size = Unparsable
     \/ /\ r.chunks[i].size # 0
        /\ end <= Len(Behind(r)) => Behind(r)[end].type # "crlf"

(***************************************************************************)
(* The framing tells where the body ends, or fails to in a way that shows. *)
(* No reader of HTTP can tell a declared length that falls short of the    *)
(* body, a connection closed in the middle of a body it ends, or an empty  *)
(* chunk in the middle of the list from a shorter list.                    *)
(***************************************************************************)
Framed(r) ==
  CASE r.framing = "length" ->
         r.len = Len(r.body) \/ r.len > Len(r.body) + Len(r.extra)
    [] r.framing = "eof" -> r.extra = <<>> /\ (r.cut = 0 \/ r.open)
    [] r.framing = "chunked" ->
         /\ Cut(r)
         /\ \A i \in 1..Len(r.chunks) :
              \/ RightSize(r, i)
              \/ PlainlyWrong(r, i)
              \/ i = 1 /\ r.chunks[i].size = 0

ASSUME ListAssumption == \A r \in Responses : Published(r) /\ Framed(r)

FetchInit ==
  /\ fetchPc = "connect"
  /\ resp = None
  /\ rest = <<>>
  /\ buf = <<>> /\ pos = 1 /\ decoded = <<>>
  /\ why = "none"
  /\ domains = <<>>

-----------------------------------------------------------------------------
(* fetch_default_domains_with_outbound, once https_get has returned.       *)

Fail(reason) ==
  /\ why' = reason
  /\ domains' = Builtin
  /\ fetchPc' = "done"
  /\ UNCHANGED <<resp, rest, buf, pos, decoded>>

(* Fault: an empty list replaces the built-in one.                         *)
SucceedEmpty(body) ==
  /\ why' = "ok"
  /\ domains' = parse_domain_list(body)
  /\ fetchPc' = "done"
  /\ UNCHANGED <<resp, rest, buf, pos, decoded>>

Succeed(body) ==
  /\ why' = "ok"
  /\ domains' = LET list == parse_domain_list(body)
                IN IF list = <<>> THEN Builtin ELSE list
  /\ fetchPc' = "done"
  /\ UNCHANGED <<resp, rest, buf, pos, decoded>>

-----------------------------------------------------------------------------
(* https_get up to the response: the connect and the TLS handshake are     *)
(* under a timeout; the request fits an empty send buffer.                 *)
Connected ==
  /\ fetchPc = "connect"
  /\ fetchPc' = "tls"
  /\ UNCHANGED <<resp, rest, buf, pos, decoded, why, domains>>

Requested ==
  /\ fetchPc = "tls"
  /\ fetchPc' = "headers"
  /\ resp' \in Responses
  /\ rest' = Wire(resp')
  /\ UNCHANGED <<buf, pos, decoded, why, domains>>

(* A refused or broken connection, or an elapsed FETCH_TIMEOUT.            *)
NetworkFails ==
  /\ fetchPc \notin {"done", "returned"}
  /\ Fail("network")

(* Fault: a read takes what there is, the limit only starts it.            *)
ReadMoreOvershoots(limit) ==
  \/ Len(buf) >= limit /\ Fail("limit")
  \/ Len(buf) < limit /\ rest = <<>> /\ ~resp.open /\ Fail("eof")
  \/ /\ Len(buf) < limit
     /\ \E n \in 1..MaxRead :
          /\ n <= Len(rest)
          /\ buf' = buf \o SubSeq(rest, 1, n)
          /\ rest' = SubSeq(rest, n + 1, Len(rest))
     /\ UNCHANGED <<fetchPc, resp, pos, decoded, why, domains>>

(* read_more: at most limit bytes in the buffer, EOF is an error.          *)
ReadMore(limit) ==
  \/ Len(buf) >= limit /\ Fail("limit")
  \/ Len(buf) < limit /\ rest = <<>> /\ ~resp.open /\ Fail("eof")
  \/ /\ Len(buf) < limit
     /\ \E n \in 1..MaxRead :
          /\ n <= limit - Len(buf) /\ n <= Len(rest)
          /\ buf' = buf \o SubSeq(rest, 1, n)
          /\ rest' = SubSeq(rest, n + 1, Len(rest))
     /\ UNCHANGED <<fetchPc, resp, pos, decoded, why, domains>>

HeaderEnd == {i \in 1..Len(buf) : buf[i].type = "end"}

(* read_until_headers and the dispatch of read_http_response_body.         *)
Headers ==
  /\ fetchPc = "headers"
  /\ IF HeaderEnd = {}
     THEN ReadMore(MaxHeader)
     ELSE \/ /\ resp.status # 200 \/ resp.conflict
             /\ Fail("status")
          \/ /\ resp.status = 200 /\ ~resp.conflict
             /\ fetchPc' = resp.framing
             /\ \E i \in HeaderEnd :
                  /\ \A j \in HeaderEnd : i <= j
                  /\ buf' = SubSeq(buf, i + 1, Len(buf))
             /\ UNCHANGED <<resp, rest, pos, decoded, why, domains>>

(* read_content_length_body                                                *)
LengthBody ==
  /\ fetchPc = "length"
  /\ LET len == resp.len
     IN \/ len > MaxBody /\ Fail("limit")
        \/ len <= MaxBody /\ Len(buf) < len /\ ReadMore(len)
        \/ len <= MaxBody /\ Len(buf) >= len /\ Succeed(SubSeq(buf, 1, len))

(* Fault: the limit is checked before the last bytes are known to fit.     *)
EofBodyStrict ==
  /\ fetchPc = "eof"
  /\ \/ Len(buf) >= MaxBody /\ Fail("limit")
     \/ Len(buf) < MaxBody /\ rest = <<>> /\ ~resp.open /\ Succeed(buf)
     \/ /\ Len(buf) < MaxBody /\ rest # <<>>
        /\ ReadMore(MaxBody)

(* read_until_eof_limited: at the limit one more byte is asked for, to     *)
(* tell a body that ends there from one that goes on.                      *)
EofBody ==
  /\ fetchPc = "eof"
  /\ \/ rest = <<>> /\ ~resp.open /\ Succeed(buf)
     \/ rest # <<>> /\ Len(buf) >= MaxBody /\ Fail("limit")
     \/ rest # <<>> /\ Len(buf) < MaxBody /\ ReadMore(MaxBody)

(* One round of read_chunked_body: the size line, then the chunk.          *)
Chunk ==
  /\ fetchPc = "chunked"
  /\ IF pos > Len(buf) THEN ReadMore(MaxBody)
     ELSE LET n == SizeOf(buf[pos])
              end == pos + n + 1
          IN \/ n = Unparsable /\ Fail("syntax")
             \/ /\ n = 0
                /\ fetchPc' = "trailers" /\ pos' = pos + 1
                /\ UNCHANGED <<resp, rest, buf, decoded, why, domains>>
             \/ /\ n > 0
                /\ Len(decoded) + n > MaxBody
                /\ Fail("limit")
             \/ /\ n > 0
                /\ Len(decoded) + n <= MaxBody
                /\ IF Len(buf) < end THEN ReadMore(MaxBody)
                   ELSE IF buf[end].type # "crlf" THEN Fail("syntax")
                   ELSE /\ decoded' = decoded \o SubSeq(buf, pos + 1, pos + n)
                        /\ pos' = end + 1
                        /\ UNCHANGED <<fetchPc, resp, rest, buf, why, domains>>

(* read_chunk_trailers: the trailer lines up to a blank one.               *)
Trailers ==
  /\ fetchPc = "trailers"
  /\ LET blank == {i \in pos..Len(buf) : buf[i].type = "blank"}
     IN IF blank # {} THEN Succeed(decoded)
        ELSE \/ Len(buf) - (pos - 1) >= MaxHeader /\ Fail("limit")
             \/ Len(buf) - (pos - 1) < MaxHeader /\ ReadMore(MaxBody)

FetchStep ==
  Connected \/ Requested \/ Headers \/ LengthBody \/ EofBody \/ Chunk \/ Trailers

FetchNext == FetchStep \/ NetworkFails

(* The caller has taken domains; what the call held is gone.               *)
FetchReturned ==
  /\ fetchPc' = "returned"
  /\ resp' = None /\ rest' = <<>> /\ buf' = <<>> /\ pos' = 1
  /\ decoded' = <<>> /\ why' = "none" /\ domains' = <<>>

-----------------------------------------------------------------------------
(* A response the limits leave room for.  For chunks the limit is on the   *)
(* raw bytes, their framing included.                                      *)
Acceptable(r) ==
  /\ r.status = 200 /\ ~r.conflict
  /\ r.headers < MaxHeader
  /\ Len(BodyTokens(r)) <= MaxBody
  /\ r.trailers < MaxHeader
  /\ r.cut = 0
  /\ r.framing = "length" => r.len = Len(r.body)
  /\ r.framing = "chunked" => \A i \in 1..Len(r.chunks) : RightSize(r, i)
  /\ r.list # <<>>

(***************************************************************************)
(* However the response is cut into reads, and wherever the connection     *)
(* breaks, the proxy starts with the published names, all of them and      *)
(* deobfuscated, or with the built-in ones: never with a part of the list, *)
(* with framing taken for content, or with nothing ("Falls back to the     *)
(* embedded list on any error").                                           *)
(***************************************************************************)
WholeListOrBuiltin ==
  fetchPc = "done" =>
    domains = Builtin \/ (resp.list # <<>> /\ domains = resp.list)

(***************************************************************************)
(* The limits refuse nothing they leave room for: a response that fits, to *)
(* the last byte, is used unless the network failed.                       *)
(***************************************************************************)
AcceptableUsed ==
  fetchPc = "done" /\ why # "network" /\ Acceptable(resp) =>
    domains = resp.list

(***************************************************************************)
(* MAX_HEADER_BYTES and MAX_BODY_BYTES bound what a server can make the    *)
(* proxy hold, at every moment of every reader, whatever the response      *)
(* declares and however it is cut into reads.                              *)
(***************************************************************************)
BufferBounded ==
  /\ Len(buf) <= IF fetchPc = "headers" THEN MaxHeader ELSE MaxBody
  /\ Len(decoded) <= MaxBody

=============================================================================
