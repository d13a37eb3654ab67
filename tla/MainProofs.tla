----------------------------- MODULE MainProofs -----------------------------
(***************************************************************************)
(* The process as a whole contains the accept loop: what AcceptProofs      *)
(* establishes for the loop alone holds for the process, through the fetch *)
(* and the check that come before it.  Of the fetch: its readers stay      *)
(* within their limits, and what it ends with is the whole published list  *)
(* or the built-in one.                                                    *)
(***************************************************************************)
EXTENDS Main, AcceptProofs

(***************************************************************************)
(* main.rs implements the accept loop of module Accept: the fetch and the  *)
(* check leave its state alone, and every other step is one of its steps.  *)
(***************************************************************************)
THEOREM MainImplementsAccept == MainSpec => AcceptSpec
<1>1. MainInit => AcceptInit
  BY DEF MainInit
<1>2. [MainNext]_mainVars => [AcceptNext]_acceptVars
  <2> SUFFICES ASSUME [MainNext]_mainVars
               PROVE  AcceptNext \/ UNCHANGED acceptVars
    OBVIOUS
  <2>1. CASE Fetching
    BY <2>1 DEF Fetching
  <2>2. CASE Fetched
    BY <2>2 DEF Fetched
  <2>3. CASE Checking
    BY <2>3 DEF Checking
  <2>4. CASE Serving
    BY <2>4 DEF Serving, Serve
  <2>5. CASE UNCHANGED mainVars
    BY <2>5 DEF mainVars
  <2>6. QED
    BY <2>1, <2>2, <2>3, <2>4, <2>5 DEF MainNext, Exited
<1>3. QED
  BY <1>1, <1>2, PTL DEF MainSpec, AcceptSpec

(***************************************************************************)
(* From its start to its end the process neither loses nor makes a permit. *)
(***************************************************************************)
THEOREM MainKeepsPermits == MainSpec => []PermitsKept
  BY MainImplementsAccept, PermitsConserved, PTL

(***************************************************************************)
(* Whatever the process did before it served, a cap within the budget of   *)
(* limits.rs leaves a free descriptor to whoever is about to open one.     *)
(***************************************************************************)
THEOREM MainStaysInBudget == MainSpec => []BudgetSuffices
  BY MainImplementsAccept, BudgetIsEnough, PTL

-----------------------------------------------------------------------------
(* The fetch. *)

(* A sequence of anything.                                                 *)
IsList(s) == s \in Seq({s[i] : i \in DOMAIN s})

(* The readers hold sequences of tokens within the limits, and the list of *)
(* domains is a list.                                                      *)
FetchOK ==
  /\ fetchPc \in {"connect", "tls", "headers", "length", "eof", "chunked",
                 "trailers", "done", "returned"}
  /\ why \in {"none", "ok", "network", "limit", "eof", "syntax", "status"}
  /\ fetchPc \in {"headers", "length", "eof", "chunked", "trailers"} =>
       resp \in Responses
  /\ fetchPc \in {"connect", "tls"} => buf = <<>>
  /\ buf \in Seq(Token) /\ rest \in Seq(Token) /\ decoded \in Seq(Token)
  /\ pos \in Nat \ {0}
  /\ IsList(domains)
  /\ BufferBounded

LEMMA ListOf ==
  ASSUME NEW S, NEW s \in Seq(S)
  PROVE  IsList(s)
<1>1. /\ Len(s) \in Nat /\ s \in [1..Len(s) -> S] /\ DOMAIN s = 1..Len(s)
  BY LenProperties
<1>2. s \in [1..Len(s) -> {s[i] : i \in DOMAIN s}]
  BY <1>1
<1>3. QED
  BY <1>1, <1>2, SeqDef DEF IsList

LEMMA ListByDomain ==
  ASSUME NEW n \in Nat, NEW s, s = [i \in 1..n |-> s[i]]
  PROVE  IsList(s)
<1>1. s \in [1..n -> {s[i] : i \in 1..n}]
  OBVIOUS
<1>2. s \in Seq({s[i] : i \in 1..n})
  BY <1>1, SeqDef
<1>3. QED
  BY <1>2, ListOf

(* What parse_domain_list returns is a list, whatever the body.            *)
LEMMA ParsedList ==
  ASSUME NEW body \in Seq(Token)
  PROVE  IsList(parse_domain_list(body))
<1>1. Len(body) \in Nat
  BY LenProperties
<1>2. IsFiniteSet(1..Len(body)) /\ LinesOf(body) \in SUBSET (1..Len(body))
  BY <1>1, FS_Interval DEF LinesOf
<1>3. Cardinality(LinesOf(body)) \in Nat
  BY <1>2, FS_Subset, FS_CardinalityType
<1> DEFINE n == Cardinality(LinesOf(body))
           s == parse_domain_list(body)
<1>4. s = [k \in 1..n |-> deobfuscate(body[Nth(LinesOf(body), k)].name)]
  BY DEF parse_domain_list
<1> HIDE DEF n, s
<1>5. s = [k \in 1..n |-> s[k]]
  BY <1>4
<1>6. n \in Nat
  BY <1>3 DEF n
<1>7. IsList(s)
  BY <1>5, <1>6, ListByDomain
<1>8. QED
  BY <1>7 DEF s

LEMMA BuiltinList == IsList(Builtin) /\ IsList(<<>>)
<1>1. IsList(Builtin)
  BY FetchAssumption, ListOf
<1>2. <<>> \in Seq({})
  BY EmptySeq
<1>3. IsList(<<>>)
  BY <1>2, ListOf
<1>4. QED
  BY <1>1, <1>3

(* The end of an exchange, either way, keeps what the readers hold.        *)
LEMMA FailKept ==
  ASSUME FetchOK, NEW reason, Fail(reason),
         reason \in {"network", "limit", "eof", "syntax", "status"}
  PROVE  FetchOK'
<1>1. BufferBounded'
  BY FetchAssumption, LenProperties DEF FetchOK, Fail, BufferBounded
<1>2. QED
  BY <1>1, BuiltinList DEF FetchOK, Fail

LEMMA SucceedKept ==
  ASSUME FetchOK, NEW body \in Seq(Token), Succeed(body)
  PROVE  FetchOK'
<1>1. BufferBounded'
  BY FetchAssumption, LenProperties DEF FetchOK, Succeed, BufferBounded
<1>2. IsList(domains')
  BY BuiltinList, ParsedList DEF Succeed
<1>3. QED
  BY <1>1, <1>2 DEF FetchOK, Succeed

(* A part of a sequence.                                                   *)
LEMMA PartOf ==
  ASSUME NEW S, NEW s \in Seq(S), NEW m \in Nat \ {0}, NEW n \in Nat,
         n <= Len(s)
  PROVE  /\ SubSeq(s, m, n) \in Seq(S)
         /\ Len(SubSeq(s, m, n)) = IF m <= n THEN n - m + 1 ELSE 0
<1>1. \A i \in m..n : s[i] \in S
  BY LenProperties, ElementOfSeq
<1>2. QED
  BY <1>1, SubSeqProperties

(* read_more never goes past its limit, if the limit is the reader's.      *)
LEMMA ReadMoreKept ==
  ASSUME FetchOK, NEW limit \in Nat, ReadMore(limit),
         fetchPc \notin {"connect", "tls"},
         limit <= IF fetchPc = "headers" THEN MaxHeader ELSE MaxBody
  PROVE  FetchOK'
<1>1. CASE Fail("limit") \/ Fail("eof")
  BY <1>1, FailKept
<1>2. ASSUME NEW n \in 1..MaxRead, n <= limit - Len(buf), n <= Len(rest),
             buf' = buf \o SubSeq(rest, 1, n),
             rest' = SubSeq(rest, n + 1, Len(rest)),
             UNCHANGED <<fetchPc, resp, pos, decoded, why, domains>>
      PROVE  FetchOK'
  <2>1. /\ n \in Nat \ {0} /\ Len(buf) \in Nat /\ Len(rest) \in Nat
        /\ buf \in Seq(Token) /\ rest \in Seq(Token)
    BY <1>2, FetchAssumption, LenProperties DEF FetchOK
  <2>2. SubSeq(rest, 1, n) \in Seq(Token) /\ Len(SubSeq(rest, 1, n)) = n
    BY <1>2, <2>1, PartOf
  <2>3. buf' \in Seq(Token) /\ Len(buf') = Len(buf) + n
    BY <1>2, <2>1, <2>2, ConcatProperties
  <2>4. rest' \in Seq(Token)
    BY <1>2, <2>1, PartOf
  <2>5. BufferBounded'
    BY <1>2, <2>1, <2>3, FetchAssumption DEF FetchOK, BufferBounded
  <2>6. QED
    BY <1>2, <2>3, <2>4, <2>5 DEF FetchOK
<1>3. QED
  BY <1>1, <1>2 DEF ReadMore

(* What a server sends is a sequence of tokens, however much it cuts off.  *)
LEMMA WireSeq ==
  ASSUME NEW r \in Responses
  PROVE  Wire(r) \in Seq(Token) /\ Len(Wire(r)) = Len(Sent(r)) - r.cut
<1>1. /\ Sent(r) \in Seq(Token) /\ Len(Sent(r)) \in Nat
      /\ r.cut \in 0..Len(Sent(r))
  BY ResponseAssumption, LenProperties
<1>2. PICK n \in Nat : n = Len(Sent(r)) - r.cut
  BY <1>1
<1>3. SubSeq(Sent(r), 1, n) \in Seq(Token) /\ Len(SubSeq(Sent(r), 1, n)) = n
  BY <1>1, <1>2, PartOf
<1>4. QED
  BY <1>2, <1>3 DEF Wire

LEMMA HeadersKept ==
  ASSUME FetchOK, Headers
  PROVE  FetchOK'
<1>1. fetchPc = "headers" /\ resp \in Responses
  BY DEF Headers, FetchOK
<1>2. CASE HeaderEnd = {}
  BY <1>1, <1>2, ReadMoreKept, FetchAssumption DEF Headers
<1>3. CASE Fail("status")
  BY <1>3, FailKept
<1>4. ASSUME NEW i \in HeaderEnd, fetchPc' = resp.framing,
             buf' = SubSeq(buf, i + 1, Len(buf)),
             UNCHANGED <<resp, rest, pos, decoded, why, domains>>
      PROVE  FetchOK'
  <2>1. Len(buf) \in Nat /\ i \in 1..Len(buf) /\ buf \in Seq(Token)
    BY LenProperties DEF HeaderEnd, FetchOK
  <2>2. buf' \in Seq(Token) /\ Len(buf') <= Len(buf)
    BY <1>4, <2>1, PartOf
  <2>3. fetchPc' \in {"length", "eof", "chunked"}
    BY <1>1, <1>4, ResponseAssumption
  <2>4. Len(buf) <= MaxHeader /\ Len(decoded) <= MaxBody
    BY <1>1 DEF FetchOK, BufferBounded
  <2>5. Len(buf') \in Nat
    BY <2>2, LenProperties
  <2>6. BufferBounded'
    BY <1>4, <2>1, <2>2, <2>3, <2>4, <2>5, FetchAssumption DEF BufferBounded
  <2>7. QED
    BY <1>1, <1>4, <2>2, <2>3, <2>6 DEF FetchOK
<1>5. QED
  BY <1>2, <1>3, <1>4 DEF Headers

LEMMA LengthBodyKept ==
  ASSUME FetchOK, LengthBody
  PROVE  FetchOK'
<1>1. /\ fetchPc = "length" /\ resp \in Responses /\ resp.len \in Nat
      /\ buf \in Seq(Token)
  BY ResponseAssumption DEF LengthBody, FetchOK
<1>2. CASE Fail("limit")
  BY <1>2, FailKept
<1>3. CASE resp.len <= MaxBody /\ ReadMore(resp.len)
  BY <1>1, <1>3, ReadMoreKept
<1>4. CASE Len(buf) >= resp.len /\ Succeed(SubSeq(buf, 1, resp.len))
  <2>1. SubSeq(buf, 1, resp.len) \in Seq(Token)
    BY <1>1, <1>4, PartOf, LenProperties
  <2>2. QED
    BY <1>4, <2>1, SucceedKept
<1>5. QED
  BY <1>2, <1>3, <1>4 DEF LengthBody

LEMMA EofBodyKept ==
  ASSUME FetchOK, EofBody
  PROVE  FetchOK'
<1>1. fetchPc = "eof" /\ buf \in Seq(Token) /\ MaxBody \in Nat
  BY FetchAssumption DEF EofBody, FetchOK
<1>2. CASE Fail("limit")
  BY <1>2, FailKept
<1>3. CASE ReadMore(MaxBody)
  BY <1>1, <1>3, ReadMoreKept
<1>4. CASE Succeed(buf)
  BY <1>1, <1>4, SucceedKept
<1>5. QED
  BY <1>2, <1>3, <1>4 DEF EofBody

LEMMA ChunkKept ==
  ASSUME FetchOK, Chunk
  PROVE  FetchOK'
<1> DEFINE n == SizeOf(buf[pos])
           end == pos + n + 1
<1>1. /\ fetchPc = "chunked" /\ resp \in Responses /\ MaxBody \in Nat
      /\ buf \in Seq(Token) /\ decoded \in Seq(Token) /\ pos \in Nat \ {0}
      /\ Len(buf) \in Nat /\ Len(decoded) \in Nat
  BY FetchAssumption, LenProperties DEF Chunk, FetchOK
<1>2. CASE ReadMore(MaxBody)
  BY <1>1, <1>2, ReadMoreKept
<1>3. CASE Fail("syntax") \/ Fail("limit")
  BY <1>3, FailKept
<1>4. CASE /\ fetchPc' = "trailers" /\ pos' = pos + 1
           /\ UNCHANGED <<resp, rest, buf, decoded, why, domains>>
  <2>1. BufferBounded'
    BY <1>1, <1>4 DEF FetchOK, BufferBounded
  <2>2. QED
    BY <1>1, <1>4, <2>1 DEF FetchOK
<1>5. CASE /\ pos <= Len(buf) /\ n > 0 /\ Len(decoded) + n <= MaxBody
           /\ end <= Len(buf)
           /\ decoded' = decoded \o SubSeq(buf, pos + 1, pos + n)
           /\ pos' = end + 1
           /\ UNCHANGED <<fetchPc, resp, rest, buf, why, domains>>
  <2>1. buf[pos] \in Token
    BY <1>1, <1>5, ElementOfSeq
  <2>2. n \in Nat \ {0}
    <3>1. n \in Nat \union {Unparsable}
      BY <2>1 DEF Token, SizeOf
    <3>2. QED
      BY <1>5, <3>1 DEF Unparsable
  <2> HIDE DEF n
  <2>3. /\ SubSeq(buf, pos + 1, pos + n) \in Seq(Token)
        /\ Len(SubSeq(buf, pos + 1, pos + n)) = n
    BY <1>1, <1>5, <2>2, PartOf
  <2>4. decoded' \in Seq(Token) /\ Len(decoded') = Len(decoded) + n
    BY <1>1, <1>5, <2>3, ConcatProperties
  <2>5. pos' \in Nat \ {0}
    BY <1>1, <1>5, <2>2
  <2>6. BufferBounded'
    BY <1>1, <1>5, <2>4 DEF FetchOK, BufferBounded
  <2>7. QED
    BY <1>1, <1>5, <2>4, <2>5, <2>6 DEF FetchOK
<1>6. CASE pos > Len(buf)
  BY <1>2, <1>6 DEF Chunk
<1>7. CASE ~(pos > Len(buf))
  <2>1. pos <= Len(buf)
    BY <1>1, <1>7
  <2>2. CASE /\ n > 0 /\ Len(decoded) + n <= MaxBody /\ ~(Len(buf) < end)
             /\ decoded' = decoded \o SubSeq(buf, pos + 1, pos + n)
             /\ pos' = end + 1
             /\ UNCHANGED <<fetchPc, resp, rest, buf, why, domains>>
    <3>1. n \in Int
      <4>1. buf[pos] \in Token
        BY <1>1, <2>1, ElementOfSeq
      <4>2. QED
        BY <4>1 DEF Token, SizeOf, Unparsable
    <3> HIDE DEF n
    <3>2. end <= Len(buf)
      BY <1>1, <2>2, <3>1
    <3>3. QED
      BY <1>5, <2>1, <2>2, <3>2
  <2>3. QED
    BY <1>2, <1>3, <1>4, <1>7, <2>2 DEF Chunk
<1>8. QED
  BY <1>6, <1>7

LEMMA TrailersKept ==
  ASSUME FetchOK, Trailers
  PROVE  FetchOK'
<1>1. fetchPc = "trailers" /\ decoded \in Seq(Token) /\ MaxBody \in Nat
  BY FetchAssumption DEF Trailers, FetchOK
<1>2. CASE Fail("limit")
  BY <1>2, FailKept
<1>3. CASE ReadMore(MaxBody)
  BY <1>1, <1>3, ReadMoreKept
<1>4. CASE Succeed(decoded)
  BY <1>1, <1>4, SucceedKept
<1>5. QED
  BY <1>2, <1>3, <1>4 DEF Trailers

LEMMA FetchKept ==
  ASSUME FetchOK, FetchNext
  PROVE  FetchOK'
<1>1. CASE Connected
  BY <1>1, FetchAssumption, LenProperties
  DEF Connected, FetchOK, BufferBounded
<1>2. CASE Requested
  <2>1. resp' \in Responses /\ rest' \in Seq(Token)
    BY <1>2, WireSeq DEF Requested
  <2>2. BufferBounded'
    BY <1>2, EmptySeq, FetchAssumption DEF Requested, FetchOK, BufferBounded
  <2>3. QED
    BY <1>2, <2>1, <2>2 DEF Requested, FetchOK
<1>3. CASE NetworkFails
  BY <1>3, FailKept DEF NetworkFails
<1>4. QED
  BY <1>1, <1>2, <1>3, HeadersKept, LengthBodyKept, EofBodyKept, ChunkKept,
     TrailersKept
  DEF FetchNext, FetchStep

-----------------------------------------------------------------------------
(* The check. *)

(* What a probe may find.                                                  *)
Findings == {"up", "down", "mute", "hollow", "slow", "talks", "broken"}

(* The probes so far and the endpoints to come are together the endpoints  *)
(* of the configuration, and all_ok is what the probes so far have met.    *)
Progress(e) ==
  /\ checkPc \in {"probe", "settle", "exit"}
  /\ IsList(todo) /\ seen \in Seq(Findings) /\ allOk \in BOOLEAN
  /\ Len(seen) + Len(todo) = Len(e)
  /\ \A i \in 1..Len(todo) : todo[i] = e[Len(seen) + i]
  /\ allOk <=> \A i \in 1..Len(seen) : seen[i] \in Healthy(e[i].kind)
  /\ checkPc = "settle" => todo # <<>> /\ Head(todo).kind = "worker"
  /\ checkPc = "exit" => todo = <<>> /\ exitCode = IF allOk THEN 0 ELSE 1

CheckOK ==
  /\ phase \in {"fetch", "check", "serve"}
  /\ IsList(cf_domains)
  /\ phase # "check" => checkPc = "idle" /\ seen = <<>> /\ allOk = TRUE
  /\ phase = "check" => Progress(Endpoints(cf_domains))

LEMMA ListConcat ==
  ASSUME NEW s, NEW t, IsList(s), IsList(t)
  PROVE  IsList(s \o t)
<1> DEFINE S == {s[i] : i \in DOMAIN s}
           T == {t[i] : i \in DOMAIN t}
<1>1. s \in Seq(S) /\ t \in Seq(T)
  BY DEF IsList
<1> HIDE DEF S, T
<1>2. s \in Seq(S \union T) /\ t \in Seq(S \union T)
  BY <1>1, SeqMonotonic
<1>3. s \o t \in Seq(S \union T)
  BY <1>2, ConcatProperties
<1>4. QED
  BY <1>3, ListOf

LEMMA ListLen ==
  ASSUME NEW s, IsList(s)
  PROVE  Len(s) \in Nat /\ (s # <<>> => Len(s) > 0)
  BY LenProperties, EmptySeq DEF IsList

LEMMA EndpointList ==
  ASSUME NEW names, IsList(names)
  PROVE  IsList(Endpoints(names))
<1>1. ASSUME NEW kind, NEW list, IsList(list)
      PROVE  IsList(OfKind(kind, list))
  <2> DEFINE s == OfKind(kind, list)
             n == Len(list)
  <2>1. n \in Nat
    BY <1>1, ListLen
  <2>2. s = [i \in 1..n |-> Endpoint(kind, list[i])]
    BY DEF OfKind
  <2> HIDE DEF s, n
  <2>3. s = [i \in 1..n |-> s[i]]
    BY <2>2
  <2>4. IsList(s)
    BY <2>1, <2>3, ListByDomain
  <2>5. QED
    BY <2>4 DEF s
<1>2. IsList(Workers) /\ IsList(Upstreams)
  BY CheckAssumption, ListOf
<1>3. IsList(OfKind("zone", names)) /\ IsList(OfKind("worker", Workers))
  BY <1>1, <1>2
<1>4. IsList(OfKind("zone", names) \o OfKind("worker", Workers))
  BY <1>3, ListConcat
<1>5. QED
  BY <1>2, <1>4, ListConcat DEF Endpoints

(* A probe that reports what its kind of endpoint calls healthy.           *)
LEMMA ReportKept ==
  ASSUME NEW e, Progress(e), todo # <<>>, NEW met \in Findings,
         NEW ok \in BOOLEAN, ok <=> met \in Healthy(Head(todo).kind),
         Report(met, ok)
  PROVE  Progress(e)'
<1> DEFINE n == Len(seen)
           S == {todo[i] : i \in DOMAIN todo}
<1>1. todo \in Seq(S) /\ seen \in Seq(Findings)
  BY DEF Progress, IsList
<1> HIDE DEF S
<1>2. n \in Nat /\ Len(todo) \in Nat /\ Len(todo) > 0
  BY <1>1, LenProperties, EmptySeq
<1>3. /\ Tail(todo) \in Seq(S) /\ Len(Tail(todo)) = Len(todo) - 1
      /\ \A i \in 1..Len(Tail(todo)) : Tail(todo)[i] = todo[i + 1]
      /\ Head(todo) = todo[1]
  BY <1>1, HeadTailProperties
<1>4. /\ seen' \in Seq(Findings) /\ Len(seen') = n + 1 /\ seen'[n + 1] = met
      /\ \A i \in 1..n : seen'[i] = seen[i]
  BY <1>1, AppendProperties DEF Report
<1>5. todo' = Tail(todo) /\ IsList(todo')
  BY <1>3, ListOf DEF Report
<1>6. Len(seen') + Len(todo') = Len(e)
  BY <1>2, <1>3, <1>4, <1>5 DEF Progress
<1>7. \A i \in 1..Len(todo') : todo'[i] = e[Len(seen') + i]
  <2> SUFFICES ASSUME NEW i \in 1..Len(todo')
               PROVE  todo'[i] = e[n + 1 + i]
    BY <1>4
  <2>1. todo'[i] = todo[i + 1] /\ i + 1 \in 1..Len(todo)
    BY <1>2, <1>3, <1>5
  <2>2. todo[i + 1] = e[n + (i + 1)]
    BY <2>1 DEF Progress
  <2>3. n + (i + 1) = n + 1 + i
    BY <1>2, <1>3, <1>5
  <2>4. QED
    BY <2>1, <2>2, <2>3
<1>8. Head(todo) = e[n + 1]
  BY <1>2, <1>3 DEF Progress
<1>9. allOk' \in BOOLEAN /\ (allOk' <=> allOk /\ ok)
  BY DEF Report, Progress
<1>10. allOk' <=> \A i \in 1..Len(seen') : seen'[i] \in Healthy(e[i].kind)
  <2>1. 1..Len(seen') = (1..n) \union {n + 1}
    BY <1>2, <1>4
  <2>2. allOk <=> \A i \in 1..n : seen[i] \in Healthy(e[i].kind)
    BY DEF Progress
  <2>3. ok <=> seen'[n + 1] \in Healthy(e[n + 1].kind)
    BY <1>4, <1>8
  <2>4. QED
    BY <1>4, <1>9, <2>1, <2>2, <2>3
<1>11. checkPc' = "probe"
  BY DEF Report
<1>12. QED
  BY <1>4, <1>5, <1>6, <1>7, <1>9, <1>10, <1>11 DEF Progress

LEMMA GoodReport ==
  ASSUME NEW e, Progress(e), todo # <<>>, NEW met \in Findings,
         met \in Healthy(Head(todo).kind), Report(met, TRUE)
  PROVE  Progress(e)'
<1>1. TRUE <=> met \in Healthy(Head(todo).kind)
  OBVIOUS
<1>2. QED
  BY <1>1, ReportKept

LEMMA BadReport ==
  ASSUME NEW e, Progress(e), todo # <<>>, NEW met \in Findings,
         met \notin Healthy(Head(todo).kind), Report(met, FALSE)
  PROVE  Progress(e)'
<1>1. FALSE <=> met \in Healthy(Head(todo).kind)
  OBVIOUS
<1>2. QED
  BY <1>1, ReportKept

LEMMA CheckStepKept ==
  ASSUME NEW e, Progress(e), CheckStep
  PROVE  Progress(e)'
<1>0. /\ Healthy("zone") = {"up"} /\ Healthy("faketls") = {"up"}
      /\ Healthy("worker") = {"up", "slow"} /\ Healthy("plain") = {"up", "mute"}
  BY DEF Healthy
<1>1. CASE probe_cf_domain
  <2>1. todo # <<>> /\ Head(todo).kind = "zone"
    BY <1>1 DEF probe_cf_domain, Probing
  <2>2. QED
    BY <1>0, <1>1, <2>1, GoodReport, BadReport DEF Findings, probe_cf_domain
<1>2. CASE WorkerOpen
  <2>1. todo # <<>> /\ Head(todo).kind = "worker"
    BY <1>2 DEF WorkerOpen, Probing
  <2>2. CASE Report("down", FALSE)
    <3>1. "down" \in Findings /\ "down" \notin Healthy(Head(todo).kind)
      BY <1>0, <2>1 DEF Findings
    <3>2. QED
      BY <2>1, <2>2, <3>1, BadReport
  <2>3. CASE checkPc' = "settle" /\ UNCHANGED <<todo, seen, allOk, exitCode>>
    BY <2>1, <2>3 DEF Progress
  <2>4. QED
    BY <1>2, <2>2, <2>3 DEF WorkerOpen
<1>3. CASE WorkerSettle
  <2>1. todo # <<>> /\ Head(todo).kind = "worker"
    BY <1>3 DEF WorkerSettle, Progress
  <2>2. QED
    <3>1. /\ {"up", "slow"} \subseteq Findings \intersect Healthy(Head(todo).kind)
          /\ {"hollow", "talks"} \subseteq Findings \ Healthy(Head(todo).kind)
      BY <1>0, <2>1 DEF Findings
    <3>2. QED
      BY <1>3, <2>1, <3>1, GoodReport, BadReport DEF WorkerSettle
<1>4. CASE probe_mtproto_proxy
  <2>1. todo # <<>> /\ Head(todo).kind \in {"plain", "faketls"}
    BY <1>4 DEF probe_mtproto_proxy, Probing
  <2>2. CASE Report("mute", Head(todo).kind = "plain")
    <3>1. CASE Head(todo).kind = "plain"
      <4>1. Report("mute", TRUE)
        BY <2>2, <3>1 DEF Report
      <4>2. QED
        BY <1>0, <2>1, <3>1, <4>1, GoodReport DEF Findings
    <3>2. CASE Head(todo).kind = "faketls"
      <4>1. Report("mute", FALSE)
        BY <2>2, <3>2 DEF Report
      <4>2. QED
        BY <1>0, <2>1, <3>2, <4>1, BadReport DEF Findings
    <3>3. QED
      BY <2>1, <3>1, <3>2
  <2>3. CASE Report("up", TRUE) \/ Report("down", FALSE) \/ Report("broken", FALSE)
    <3>1. /\ "up" \in Findings \intersect Healthy(Head(todo).kind)
          /\ {"down", "broken"} \subseteq Findings \ Healthy(Head(todo).kind)
      BY <1>0, <2>1 DEF Findings
    <3>2. QED
      BY <2>1, <2>3, <3>1, GoodReport, BadReport
  <2>4. QED
    BY <1>4, <2>2, <2>3 DEF probe_mtproto_proxy
<1>5. CASE CheckExit
  BY <1>5 DEF CheckExit, Progress
<1>6. QED
  BY <1>1, <1>2, <1>3, <1>4, <1>5 DEF CheckStep

LEMMA CheckStarts ==
  ASSUME NEW names, IsList(names), CheckStart(names), seen = <<>>, allOk = TRUE
  PROVE  Progress(Endpoints(names))'
<1>1. /\ todo' = Endpoints(names) /\ IsList(todo') /\ checkPc' = "probe"
      /\ seen' = <<>> /\ allOk' = TRUE
  BY EndpointList DEF CheckStart
<1>2. /\ Len(seen') = 0 /\ seen' \in Seq(Findings) /\ Len(todo') \in Nat
  BY <1>1, ListLen, EmptySeq
<1>3. \A i \in 1..Len(todo') : todo'[i] = todo'[Len(seen') + i]
  BY <1>2
<1>4. QED
  BY <1>1, <1>2, <1>3 DEF Progress

-----------------------------------------------------------------------------
(* The process. *)

StartInv == FetchOK /\ CheckOK

LEMMA StartInit == MainInit => StartInv
<1> SUFFICES ASSUME MainInit PROVE StartInv
  OBVIOUS
<1>1. FetchOK
  BY BuiltinList, EmptySeq, FetchAssumption
  DEF MainInit, FetchInit, FetchOK, BufferBounded
<1>2. IsList(CfDomains)
  BY MainAssumption, ListOf
<1>3. CheckOK
  BY <1>2 DEF MainInit, CheckInit, CheckOK
<1>4. QED
  BY <1>1, <1>3 DEF StartInv

LEMMA StartNext == StartInv /\ [MainNext]_mainVars => StartInv'
<1> SUFFICES ASSUME StartInv, [MainNext]_mainVars PROVE StartInv'
  OBVIOUS
<1>1. CASE Fetching
  <2>1. FetchOK'
    BY <1>1, FetchKept DEF Fetching, StartInv
  <2>2. CheckOK'
    BY <1>1 DEF Fetching, StartInv, CheckOK, checkVars
  <2>3. QED
    BY <2>1, <2>2 DEF StartInv
<1>2. CASE Fetched
  <2>1. FetchOK'
    BY <1>2, BuiltinList, EmptySeq, FetchAssumption
    DEF Fetched, FetchReturned, FetchOK, BufferBounded
  <2>2. IsList(cf_domains')
    BY <1>2, BuiltinList, ListConcat DEF Fetched, StartInv, FetchOK, CheckOK
  <2>3. CASE check /\ phase' = "check" /\ CheckStart(cf_domains')
    <3>1. seen = <<>> /\ allOk = TRUE
      BY <1>2 DEF Fetched, StartInv, CheckOK
    <3>2. PICK names : names = cf_domains'
      OBVIOUS
    <3>3. Progress(Endpoints(names))'
      BY <2>2, <2>3, <3>1, <3>2, CheckStarts
    <3>4. Progress(Endpoints(cf_domains))'
      BY <3>2, <3>3 DEF Progress
    <3>5. QED
      BY <2>1, <2>2, <2>3, <3>4 DEF StartInv, CheckOK
  <2>4. CASE phase' = "serve" /\ UNCHANGED checkVars
    BY <1>2, <2>1, <2>2, <2>4 DEF Fetched, StartInv, CheckOK, checkVars
  <2>5. QED
    BY <1>2, <2>3, <2>4 DEF Fetched
<1>3. CASE Checking
  <2>1. FetchOK'
    BY <1>3 DEF Checking, StartInv, FetchOK, fetchVars, BufferBounded
  <2>2. Progress(Endpoints(cf_domains))'
    BY <1>3, CheckStepKept DEF Checking, StartInv, CheckOK
  <2>3. QED
    BY <1>3, <2>1, <2>2 DEF Checking, StartInv, CheckOK
<1>4. CASE Serving \/ Exited \/ UNCHANGED mainVars
  <2>1. /\ UNCHANGED <<phase, cf_domains>> /\ UNCHANGED fetchVars
        /\ UNCHANGED checkVars
    BY <1>4 DEF Serving, Serve, Exited, mainVars
  <2>2. FetchOK'
    BY <2>1 DEF StartInv, FetchOK, fetchVars, BufferBounded
  <2>3. CheckOK'
    BY <2>1 DEF StartInv, CheckOK, checkVars, Progress
  <2>4. QED
    BY <2>2, <2>3 DEF StartInv
<1>5. QED
  BY <1>1, <1>2, <1>3, <1>4 DEF MainNext

(***************************************************************************)
(* Fetch, check and accept loop keep their types from the start of the     *)
(* process on, whatever the response is and however it is cut into reads.  *)
(***************************************************************************)
THEOREM MainTypeCorrect == MainSpec => []TypeOK
<1>1. MainSpec => []StartInv
  BY StartInit, StartNext, PTL DEF MainSpec
<1>2. MainSpec => []AcceptTypeOK
  BY MainImplementsAccept, AcceptTypeCorrect, PTL
<1>3. StartInv /\ AcceptTypeOK => TypeOK
  BY DEF StartInv, FetchOK, CheckOK, Progress, TypeOK
<1>4. QED
  BY <1>1, <1>2, <1>3, PTL

(***************************************************************************)
(* No response, whatever it declares, in whatever reads it comes, makes    *)
(* http.rs hold more than its limits, for every size of the limits.        *)
(***************************************************************************)
THEOREM FetchStaysBounded == MainSpec => []BufferBounded
<1>1. MainSpec => []StartInv
  BY StartInit, StartNext, PTL DEF MainSpec
<1>2. StartInv => BufferBounded
  BY DEF StartInv, FetchOK
<1>3. QED
  BY <1>1, <1>2, PTL

(***************************************************************************)
(* The exit code of --check tells the truth about every endpoint, for any  *)
(* number of domains, fetched or given, of Workers and of upstreams.       *)
(***************************************************************************)
THEOREM CheckTellsTheTruth == MainSpec => []VerdictHonest
<1>1. MainSpec => []StartInv
  BY StartInit, StartNext, PTL DEF MainSpec
<1>2. StartInv => VerdictHonest
  <2> SUFFICES ASSUME StartInv, checkPc = "exit"
               PROVE  Honest(Endpoints(cf_domains))
    BY DEF VerdictHonest
  <2>1. Progress(Endpoints(cf_domains))
    BY DEF StartInv, CheckOK
  <2>2. Len(seen) = Len(Endpoints(cf_domains))
    BY <2>1, LenProperties, EmptySeq DEF Progress
  <2>3. QED
    BY <2>1, <2>2 DEF Progress, Honest
<1>3. QED
  BY <1>1, <1>2, PTL

-----------------------------------------------------------------------------
(* What the fetch ends with. *)

(* Division with remainder, and that the remainder is the only one.        *)
LEMMA Division ==
  ASSUME NEW L \in Nat \ {0}, NEW a \in Int
  PROVE  \E q \in Int : (a % L) \in 0..(L - 1) /\ a = (L * q) + (a % L)
<1>1. /\ (a % L) \in 0..(L - 1)
      /\ a = (L * (a \div L)) + (a % L)
      /\ (a \div L) \in Int
  OBVIOUS
<1>2. QED
  BY <1>1

LEMMA OneRemainder ==
  ASSUME NEW L \in Nat \ {0}, NEW x \in 0..(L - 1), NEW y \in 0..(L - 1),
         NEW q \in Int, NEW p \in Int, L * q + x = L * p + y
  PROVE  x = y
  OBVIOUS

(* A letter shifted forward and back again is the letter.                  *)
LEMMA ShiftedBack ==
  ASSUME NEW L \in Nat \ {0}, NEW x \in 0..(L - 1), NEW n \in Nat
  PROVE  (((x + n) % L) - n) % L = x
<1>1. PICK a \in Int : a = x + n
  OBVIOUS
<1>2. PICK q \in Int : (a % L) \in 0..(L - 1) /\ a = (L * q) + (a % L)
  BY Division
<1>3. PICK s \in Int : s = a % L
  BY <1>2
<1>4. PICK b \in Int : b = s - n
  OBVIOUS
<1>5. PICK p \in Int : (b % L) \in 0..(L - 1) /\ b = (L * p) + (b % L)
  BY Division
<1>6. PICK t \in 0..(L - 1) : t = b % L
  BY <1>5
<1>7. /\ q + p \in Int /\ L * (q + p) = L * q + L * p
      /\ L * q \in Int /\ L * p \in Int /\ L * 0 = 0
  BY <1>2, <1>5
<1>8. x + n = L * q + s /\ s - n = L * p + t
  BY <1>1, <1>2, <1>3, <1>4, <1>5, <1>6
<1>9. L * 0 + x = L * (q + p) + t
  BY <1>7, <1>8
<1>10. x = t
  BY <1>6, <1>7, <1>9, OneRemainder
<1>11. QED
  BY <1>1, <1>3, <1>4, <1>6, <1>10

(* deobfuscate undoes what the list's maintainer did: the shift keeps the  *)
(* letters letters, so both count the same number of them.                 *)
LEMMA Deobfuscated ==
  ASSUME NEW name \in Name
  PROVE  deobfuscate(Obfuscate(name)) = name
<1> DEFINE n == LetterCount(name)
           c == Obfuscate(name)
           m == Len(name)
<1>1. /\ m \in Nat /\ DOMAIN name = 1..m /\ \A i \in 1..m : name[i] \in Nat
      /\ name = [i \in 1..m |-> name[i]]
  BY LenProperties, ElementOfSeq DEF Name
<1>2. n \in Nat
  <2>1. PICK S : S = {i \in 1..m : name[i] < Letters}
    OBVIOUS
  <2>2. IsFiniteSet(1..m) /\ S \in SUBSET (1..m)
    BY <1>1, <2>1, FS_Interval
  <2>3. Cardinality(S) \in Nat
    BY ONLY <2>2, FS_Subset, FS_CardinalityType
  <2>4. QED
    BY <2>1, <2>3 DEF LetterCount
<1>3. c = [i \in 1..m |-> IF name[i] < Letters THEN (name[i] + n) % Letters
                          ELSE name[i]]
  BY DEF Obfuscate
<1> HIDE DEF n, c, m
<1>4. \A i \in 1..m : name[i] < Letters => ((name[i] + n) % Letters) \in 0..(Letters - 1)
  <2> TAKE i \in 1..m
  <2>1. PICK a \in Int : a = name[i] + n
    BY <1>1, <1>2
  <2>2. (a % Letters) \in 0..(Letters - 1)
    BY Division, FetchAssumption
  <2>3. QED
    BY <2>1, <2>2
<1>5. \A i \in 1..m : c[i] \in Nat /\ (c[i] < Letters <=> name[i] < Letters)
  BY <1>1, <1>3, <1>4, FetchAssumption
<1>6. c \in [1..m -> Nat]
  BY <1>3, <1>5
<1>7. c \in Seq(Nat) /\ Len(c) = m
  BY <1>1, <1>6, SeqDef, LenProperties
<1>8. LetterCount(c) = n
  <2>1. {i \in 1..m : c[i] < Letters} = {i \in 1..m : name[i] < Letters}
    BY <1>5
  <2>2. QED
    BY <1>7, <2>1 DEF LetterCount, n, m
<1>9. deobfuscate(c) =
        [i \in 1..m |-> IF c[i] < Letters THEN (c[i] - n) % Letters ELSE c[i]]
  BY <1>7, <1>8 DEF deobfuscate
<1>10. ASSUME NEW i \in 1..m
       PROVE  (IF c[i] < Letters THEN (c[i] - n) % Letters ELSE c[i]) = name[i]
  <2>1. CASE name[i] < Letters
    <3>1. PICK x \in 0..(Letters - 1) : x = name[i]
      BY <1>1, <2>1, FetchAssumption
    <3>2. (((x + n) % Letters) - n) % Letters = x
      BY <1>2, ShiftedBack, FetchAssumption
    <3>3. c[i] = (x + n) % Letters /\ c[i] < Letters
      BY <1>3, <1>5, <2>1, <3>1
    <3>4. QED
      BY <3>1, <3>2, <3>3
  <2>2. CASE ~(name[i] < Letters)
    BY <1>3, <1>5, <2>2
  <2>3. QED
    BY <2>1, <2>2
<1>11. deobfuscate(c) = [i \in 1..m |-> name[i]]
  BY <1>9, <1>10
<1>12. QED
  BY <1>1, <1>11 DEF c

(* What parse_domain_list makes of the whole body is the published list.   *)
LEMMA ParsedBody ==
  ASSUME NEW r \in Responses
  PROVE  parse_domain_list(r.body) = r.list
<1> DEFINE n == Len(r.list)
<1>1. /\ r.list \in Seq(Name) /\ Cardinality(LinesOf(r.body)) = n
      /\ \A k \in 1..n : r.body[Nth(LinesOf(r.body), k)] = Line(r.list[k])
  BY ListAssumption DEF Published
<1>2. n \in Nat /\ r.list = [k \in 1..n |-> r.list[k]]
  BY <1>1, LenProperties
<1>3. \A k \in 1..n : r.list[k] \in Name
  BY <1>1, ElementOfSeq
<1>4. parse_domain_list(r.body) =
        [k \in 1..n |-> deobfuscate(r.body[Nth(LinesOf(r.body), k)].name)]
  BY <1>1 DEF parse_domain_list
<1> HIDE DEF n
<1>5. ASSUME NEW k \in 1..n
      PROVE  deobfuscate(r.body[Nth(LinesOf(r.body), k)].name) = r.list[k]
  <2>1. PICK name : name = r.list[k]
    OBVIOUS
  <2>2. name \in Name
    BY <1>3, <2>1
  <2>3. r.body[Nth(LinesOf(r.body), k)] = Line(name)
    BY <1>1, <2>1
  <2>4. Line(name).name = Obfuscate(name)
    BY DEF Line
  <2>5. QED
    BY <2>1, <2>2, <2>3, <2>4, Deobfuscated
<1>6. QED
  BY <1>2, <1>4, <1>5

LEMMA ParsedNothing == parse_domain_list(<<>>) = <<>>
<1>1. PICK e : e = <<>>
  OBVIOUS
<1>2. 1..Len(e) = {}
  BY <1>1, EmptySeq
<1>3. LinesOf(e) = {}
  BY <1>2 DEF LinesOf
<1>4. Cardinality(LinesOf(e)) = 0
  BY <1>3, FS_EmptySet
<1>5. PICK s : s = parse_domain_list(e)
  OBVIOUS
<1>6. s = [k \in 1..0 |-> deobfuscate(e[Nth(LinesOf(e), k)].name)]
  BY <1>4, <1>5 DEF parse_domain_list
<1>7. s \in [1..0 -> {}]
  BY <1>6
<1>8. s \in Seq({}) /\ Len(s) = 0
  BY <1>7, SeqDef, LenProperties
<1>9. QED
  BY <1>1, <1>5, <1>8, EmptySeq

(* The places of two lists put together.                                   *)
LEMMA ConcatPlaces ==
  ASSUME NEW s, NEW t, IsList(s), IsList(t)
  PROVE  /\ IsList(s \o t)
         /\ Len(s) \in Nat /\ Len(t) \in Nat
         /\ Len(s \o t) = Len(s) + Len(t)
         /\ \A i \in 1..Len(s) : (s \o t)[i] = s[i]
         /\ \A i \in 1..Len(t) : (s \o t)[Len(s) + i] = t[i]
<1> DEFINE S == {s[i] : i \in DOMAIN s}
           T == {t[i] : i \in DOMAIN t}
<1>1. s \in Seq(S) /\ t \in Seq(T)
  BY DEF IsList
<1> HIDE DEF S, T
<1>2. s \in Seq(S \union T) /\ t \in Seq(S \union T)
  BY <1>1, SeqMonotonic
<1>3. Len(s) \in Nat /\ Len(t) \in Nat
  BY <1>1, LenProperties
<1>4. /\ Len(s \o t) = Len(s) + Len(t)
      /\ \A i \in 1..(Len(s) + Len(t)) :
           (s \o t)[i] = IF i <= Len(s) THEN s[i] ELSE t[i - Len(s)]
  BY <1>2, ConcatProperties
<1>5. \A i \in 1..Len(s) : (s \o t)[i] = s[i]
  BY <1>3, <1>4
<1>6. \A i \in 1..Len(t) : (s \o t)[Len(s) + i] = t[i]
  BY <1>3, <1>4
<1>7. QED
  BY <1>3, <1>4, <1>5, <1>6, ListConcat

LEMMA OneToken ==
  ASSUME NEW t
  PROVE  IsList(<<t>>) /\ Len(<<t>>) = 1 /\ <<t>>[1] = t
<1>1. <<t>> \in Seq({t})
  OBVIOUS
<1>2. QED
  BY <1>1, ListOf

LEMMA Repeated ==
  ASSUME NEW t, NEW n \in Nat
  PROVE  /\ IsList(Repeat(t, n)) /\ Len(Repeat(t, n)) = n
         /\ \A i \in 1..n : Repeat(t, n)[i] = t
<1>1. Repeat(t, n) \in [1..n -> {t}]
  BY DEF Repeat
<1>2. Repeat(t, n) \in Seq({t}) /\ Len(Repeat(t, n)) = n
  BY <1>1, SeqDef, LenProperties
<1>3. QED
  BY <1>1, <1>2, ListOf

(* The headers, their end, then what is behind them.                       *)
LEMMA SentPlaces ==
  ASSUME NEW r \in Responses, IsList(Behind(r))
  PROVE  /\ Len(Behind(r)) \in Nat
         /\ Len(Sent(r)) = r.headers + 1 + Len(Behind(r))
         /\ \A i \in 1..r.headers : Sent(r)[i].type = "header"
         /\ Sent(r)[r.headers + 1].type = "end"
         /\ \A i \in 1..Len(Behind(r)) :
              Sent(r)[r.headers + 1 + i] = Behind(r)[i]
<1>1. r.headers \in Nat
  BY ResponseAssumption
<1>2. PICK h : h = Repeat(Tok("header"), r.headers)
  OBVIOUS
<1>3. PICK e : e = <<Tok("end")>>
  OBVIOUS
<1>4. PICK b : b = Behind(r)
  OBVIOUS
<1>5. /\ IsList(h) /\ Len(h) = r.headers
      /\ \A i \in 1..r.headers : h[i] = Tok("header")
  BY <1>1, <1>2, Repeated
<1>6. IsList(e) /\ Len(e) = 1 /\ e[1] = Tok("end")
  BY <1>3, OneToken
<1>7. PICK he : he = h \o e
  OBVIOUS
<1>8. /\ IsList(he) /\ Len(he) = r.headers + 1
      /\ \A i \in 1..r.headers : he[i] = Tok("header")
      /\ he[r.headers + 1] = Tok("end")
  <2>0. IsList(h) /\ IsList(e)
    BY <1>5, <1>6
  <2>1. /\ IsList(h \o e) /\ Len(h \o e) = Len(h) + Len(e)
        /\ \A i \in 1..Len(h) : (h \o e)[i] = h[i]
        /\ \A i \in 1..Len(e) : (h \o e)[Len(h) + i] = e[i]
    BY ONLY <2>0, ConcatPlaces
  <2>2. /\ IsList(he) /\ Len(he) = Len(h) + Len(e)
        /\ \A i \in 1..Len(h) : he[i] = h[i]
        /\ \A i \in 1..Len(e) : he[Len(h) + i] = e[i]
    BY <1>7, <2>1
  <2>3. QED
    BY <1>1, <1>5, <1>6, <2>2
<1>9. Sent(r) = he \o b
  BY <1>2, <1>3, <1>4, <1>7 DEF Sent
<1>10. /\ Len(b) \in Nat /\ Len(he \o b) = Len(he) + Len(b)
       /\ \A i \in 1..Len(he) : (he \o b)[i] = he[i]
       /\ \A i \in 1..Len(b) : (he \o b)[Len(he) + i] = b[i]
  BY <1>4, <1>8, ConcatPlaces
<1>11. Tok("header").type = "header" /\ Tok("end").type = "end"
  BY DEF Tok
<1>12. /\ \A i \in 1..r.headers : Sent(r)[i] = Tok("header")
       /\ Sent(r)[r.headers + 1] = Tok("end")
       /\ \A i \in 1..Len(b) : Sent(r)[r.headers + 1 + i] = b[i]
       /\ Len(Sent(r)) = r.headers + 1 + Len(b)
  BY <1>1, <1>8, <1>9, <1>10
<1>13. QED
  BY <1>4, <1>10, <1>11, <1>12

(* Behind the headers of a body that is not in chunks.                     *)
LEMMA PlainPlaces ==
  ASSUME NEW r \in Responses, r.framing # "chunked"
  PROVE  /\ IsList(Behind(r)) /\ BodyTokens(r) = r.body
         /\ Len(r.body) \in Nat /\ Len(r.extra) \in Nat
         /\ Len(Behind(r)) = Len(r.body) + Len(r.extra)
         /\ \A i \in 1..Len(r.body) : Behind(r)[i] = r.body[i]
<1>1. BodyTokens(r) = r.body
  BY DEF BodyTokens
<1>2. IsList(r.body) /\ IsList(r.extra)
  BY ResponseAssumption, ListOf
<1>3. PICK b, x : b = r.body /\ x = r.extra
  OBVIOUS
<1>3a. IsList(b) /\ IsList(x)
  BY <1>2, <1>3
<1>4. /\ IsList(b \o x) /\ Len(b) \in Nat /\ Len(x) \in Nat
      /\ Len(b \o x) = Len(b) + Len(x)
      /\ \A i \in 1..Len(b) : (b \o x)[i] = b[i]
  BY ONLY <1>3a, ConcatPlaces
<1>5. Behind(r) = b \o x
  BY <1>1, <1>3 DEF Behind
<1>6. QED
  BY <1>1, <1>3, <1>4, <1>5

(* The chunks stand one behind the other.                                  *)
LEMMA ChunkOrder ==
  ASSUME NEW r, Cut(r)
  PROVE  /\ Len(r.chunks) \in Nat
         /\ \A i \in 0..Len(r.chunks) : LastOf(r, i) \in Nat
         /\ \A i \in 1..Len(r.chunks) :
              /\ r.chunks[i].size \in Nat \union {Unparsable}
              /\ LastOf(r, i - 1) < LastOf(r, i)
              /\ LastOf(r, i) <= Len(r.body)
         /\ \A i, j \in 1..Len(r.chunks) :
              i < j => LastOf(r, i) <= LastOf(r, j - 1)
         /\ LastOf(r, 0) = 0
         /\ LastOf(r, Len(r.chunks)) = Len(r.body)
<1> DEFINE n == Len(r.chunks)
<1>1. /\ n \in Nat
      /\ \A i \in 1..n : r.chunks[i] \in [last : Nat, size : Nat \union {Unparsable}]
  BY LenProperties, ElementOfSeq DEF Cut
<1>2. /\ \A i \in 0..n, j \in 1..n : i < j => LastOf(r, i) < LastOf(r, j)
      /\ LastOf(r, n) = Len(r.body)
  BY DEF Cut
<1>3. LastOf(r, 0) = 0
  BY DEF LastOf
<1>4. \A i \in 1..n : LastOf(r, i) = r.chunks[i].last
  BY DEF LastOf
<1> HIDE DEF n
<1>5. \A i \in 1..n : r.chunks[i].size \in Nat \union {Unparsable}
  BY <1>1
<1>6. \A i \in 1..n : LastOf(r, i) \in Nat
  BY <1>1, <1>4
<1>7. \A i \in 0..n : LastOf(r, i) \in Nat
  BY <1>1, <1>3, <1>6
<1>8. \A i \in 1..n : LastOf(r, i - 1) < LastOf(r, i)
  BY <1>1, <1>2
<1>9. \A i \in 1..n : LastOf(r, i) <= LastOf(r, n)
  <2> TAKE i \in 1..n
  <2>1. CASE i = n
    BY <1>1, <1>7, <2>1
  <2>2. CASE i # n
    BY <1>1, <1>2, <1>7, <2>2
  <2>3. QED
    BY <2>1, <2>2
<1>10. ASSUME NEW i \in 1..n, NEW j \in 1..n, i < j
       PROVE  LastOf(r, i) <= LastOf(r, j - 1)
  <2>1. CASE i = j - 1
    BY <1>1, <1>7, <2>1
  <2>2. CASE i # j - 1
    <3>1. PICK k \in 1..n : k = j - 1 /\ i < k
      BY <1>1, <1>10, <2>2
    <3>2. LastOf(r, i) < LastOf(r, k)
      BY <1>1, <1>2, <3>1
    <3>3. LastOf(r, i) \in Nat /\ LastOf(r, k) \in Nat
      BY <1>6
    <3>4. QED
      BY <3>1, <3>2, <3>3
  <2>3. QED
    BY <2>1, <2>2
<1>11. QED
  BY <1>1, <1>2, <1>3, <1>5, <1>7, <1>8, <1>9, <1>10 DEF n

(* A place of a chunk is of that chunk only.                               *)
LEMMA OneChunk ==
  ASSUME NEW r, Cut(r), NEW k \in 1..Len(r.chunks), NEW p \in Int,
         SizePlace(r, k) <= p, p <= EndPlace(r, k)
  PROVE  ChunkAt(r, p) = k
<1> DEFINE n == Len(r.chunks)
           i == ChunkAt(r, p)
<1>1. i \in 1..n /\ SizePlace(r, i) <= p /\ p <= EndPlace(r, i)
  BY DEF ChunkAt
<1> HIDE DEF i
<1>2. PICK a \in 1..n : a = i
  BY <1>1
<1>3. SizePlace(r, a) <= p /\ p <= EndPlace(r, a)
  BY <1>1, <1>2
<1>4. ASSUME NEW x \in 1..n, NEW y \in 1..n, x < y
      PROVE  EndPlace(r, x) \in Int /\ SizePlace(r, y) \in Int
             /\ EndPlace(r, x) < SizePlace(r, y)
  <2>1. /\ n \in Nat /\ LastOf(r, x) \in Nat /\ LastOf(r, y - 1) \in Nat
        /\ LastOf(r, x) <= LastOf(r, y - 1)
    BY <1>4, ChunkOrder
  <2>2. QED
    BY <1>4, <2>1 DEF EndPlace, SizePlace
<1>5. a \in Int /\ k \in Int
  OBVIOUS
<1>6. ~(a < k)
  BY <1>3, <1>4
<1>7. ~(k < a)
  BY <1>3, <1>4
<1>8. a = k
  BY <1>5, <1>6, <1>7
<1>9. QED
  BY <1>2, <1>8 DEF i

(* Where the parts of a body in chunks stand.                              *)
LEMMA ChunkPlaces ==
  ASSUME NEW r \in Responses, r.framing = "chunked", Cut(r)
  PROVE  /\ IsList(ChunkTokens(r))
         /\ Len(ChunkTokens(r)) = Len(r.body) + 2 * Len(r.chunks)
         /\ \A k \in 1..Len(r.chunks) :
              /\ SizePlace(r, k) \in 1..Len(ChunkTokens(r))
              /\ ChunkTokens(r)[SizePlace(r, k)] = Size(r.chunks[k].size)
              /\ EndPlace(r, k) \in 1..Len(ChunkTokens(r))
              /\ ChunkTokens(r)[EndPlace(r, k)] = Tok("crlf")
              /\ \A j \in (LastOf(r, k - 1) + 1)..LastOf(r, k) :
                   /\ j + 2 * k - 1 \in 1..Len(ChunkTokens(r))
                   /\ ChunkTokens(r)[j + 2 * k - 1] = r.body[j]
<1> DEFINE n == Len(r.chunks)
           m == Len(r.body)
<1>1. n \in Nat /\ m \in Nat
  BY ChunkOrder, ResponseAssumption, LenProperties
<1>2. PICK c : c = ChunkTokens(r)
  OBVIOUS
<1>3. c = [p \in 1..(m + 2 * n) |-> ChunkToken(r, p)]
  BY <1>2 DEF ChunkTokens
<1> HIDE DEF n, m
<1>4. c = [p \in 1..(m + 2 * n) |-> c[p]]
  BY <1>3
<1>5. PICK w \in Nat : w = m + 2 * n
  BY <1>1
<1>6. c = [p \in 1..w |-> c[p]] /\ \A p \in 1..w : c[p] = ChunkToken(r, p)
  BY <1>3, <1>4, <1>5
<1>7. IsList(c) /\ Len(c) = w
  <2>1. IsList(c)
    BY <1>6, ListByDomain
  <2>2. c \in [1..w -> {c[i] : i \in 1..w}]
    BY <1>6
  <2>3. Len(c) = w
    BY <2>2, SeqDef, LenProperties
  <2>4. QED
    BY <2>1, <2>3
<1>8. ASSUME NEW k \in 1..n
      PROVE  /\ SizePlace(r, k) \in 1..w /\ c[SizePlace(r, k)] = Size(r.chunks[k].size)
             /\ EndPlace(r, k) \in 1..w /\ c[EndPlace(r, k)] = Tok("crlf")
             /\ \A j \in (LastOf(r, k - 1) + 1)..LastOf(r, k) :
                   j + 2 * k - 1 \in 1..w /\ c[j + 2 * k - 1] = r.body[j]
  <2>1. PICK a, b : a = LastOf(r, k - 1) /\ b = LastOf(r, k)
    OBVIOUS
  <2>2. a \in Nat /\ b \in Nat /\ a < b /\ b <= m
    <3>1. k \in 0..n /\ k - 1 \in 0..n
      BY <1>1
    <3>2. /\ LastOf(r, k) \in Nat /\ LastOf(r, k - 1) \in Nat
          /\ LastOf(r, k - 1) < LastOf(r, k) /\ LastOf(r, k) <= Len(r.body)
      BY <3>1, ChunkOrder DEF n
    <3>3. QED
      BY <2>1, <3>2 DEF m
  <2>3. PICK s, e : s = SizePlace(r, k) /\ e = EndPlace(r, k)
    OBVIOUS
  <2>4. s = a + 2 * k - 1 /\ e = b + 2 * k
    BY <2>1, <2>3 DEF SizePlace, EndPlace
  <2>5. k \in Nat /\ s \in Int /\ e \in Int /\ s < e /\ s \in 1..w /\ e \in 1..w
    BY <1>1, <1>5, <2>2, <2>4
  <2>6. ASSUME NEW p \in Int, s <= p, p <= e PROVE ChunkAt(r, p) = k
    <3>1. SizePlace(r, k) <= p /\ p <= EndPlace(r, k)
      BY <2>3, <2>6
    <3>2. QED
      BY <3>1, OneChunk DEF n
  <2>7. ASSUME NEW p \in Int, s <= p, p <= e
        PROVE  ChunkToken(r, p) = CASE p = s -> Size(r.chunks[k].size)
                         [] p = e -> Tok("crlf")
                         [] OTHER -> r.body[p - (2 * k - 1)]
    BY <2>3, <2>6, <2>7 DEF ChunkToken
  <2>8. c[s] = Size(r.chunks[k].size)
    <3>1. ChunkToken(r, s) = Size(r.chunks[k].size)
      BY <2>5, <2>7
    <3>2. QED
      BY <1>6, <2>5, <3>1
  <2>9. c[e] = Tok("crlf")
    <3>1. ChunkToken(r, e) = Tok("crlf")
      BY <2>5, <2>7
    <3>2. QED
      BY <1>6, <2>5, <3>1
  <2>10. ASSUME NEW j \in (a + 1)..b
         PROVE  j + 2 * k - 1 \in 1..w /\ c[j + 2 * k - 1] = r.body[j]
    <3>1. PICK p \in Int : p = j + 2 * k - 1
      BY <2>2, <2>5
    <3>2. s < p /\ p < e /\ p \in 1..w /\ p - (2 * k - 1) = j
      BY <2>2, <2>4, <2>5, <3>1, <1>5, <1>1
    <3>3. ChunkToken(r, p) = r.body[p - (2 * k - 1)]
      BY <2>5, <2>7, <3>2
    <3>4. QED
      BY <1>6, <3>1, <3>2, <3>3
  <2>11. QED
    BY <2>1, <2>3, <2>5, <2>8, <2>9, <2>10
<1>9. QED
  BY <1>2, <1>5, <1>7, <1>8 DEF n, m

(* Behind the headers of a body in chunks: the chunks, the size line that  *)
(* ends them, and the trailers up to the blank line.                       *)
LEMMA ChunkedPlaces ==
  ASSUME NEW r \in Responses, r.framing = "chunked", Cut(r)
  PROVE  /\ IsList(Behind(r))
         /\ \E z \in Nat :
              /\ z = SizePlace(r, Len(r.chunks) + 1)
              /\ z = Len(r.body) + 2 * Len(r.chunks) + 1
              /\ Len(BodyTokens(r)) = z + r.trailers + 1
              /\ Len(Behind(r)) \in Nat /\ Len(BodyTokens(r)) <= Len(Behind(r))
              /\ Behind(r)[z] = Size(0)
              /\ Behind(r)[z + r.trailers + 1] = Tok("blank")
              /\ \A i \in 1..(z - 1) : Behind(r)[i] = ChunkTokens(r)[i]
<1>1. r.trailers \in Nat /\ Len(r.body) \in Nat /\ Len(r.chunks) \in Nat
  BY ResponseAssumption, ChunkOrder, LenProperties
<1>2. PICK c : c = ChunkTokens(r)
  OBVIOUS
<1>3. PICK m \in Nat, n \in Nat, w \in Nat :
         m = Len(r.body) /\ n = Len(r.chunks) /\ w = r.trailers
  BY <1>1
<1>4. PICK z \in Nat \ {0} : z = m + 2 * n + 1
  OBVIOUS
<1>4a. IsList(c) /\ Len(c) = m + 2 * n
  BY <1>2, <1>3, ChunkPlaces
<1>4b. z = SizePlace(r, n + 1)
  <2>1. PICK q \in Nat : q = n + 1
    OBVIOUS
  <2>2. q - 1 = n
    BY <2>1
  <2>3. LastOf(r, n) = m
    BY <1>3, ChunkOrder
  <2>4. SizePlace(r, q) = LastOf(r, q - 1) + 2 * q - 1
    BY DEF SizePlace
  <2>5. SizePlace(r, q) = m + 2 * q - 1
    BY <2>2, <2>3, <2>4
  <2>6. m + 2 * q - 1 = z
    BY <1>4, <2>1
  <2>7. QED
    BY <2>1, <2>5, <2>6
<1>5. PICK s, t, b, x : /\ s = <<Size(0)>> /\ t = Repeat(Tok("trailer"), r.trailers)
                        /\ b = <<Tok("blank")>> /\ x = r.extra
  OBVIOUS
<1>6. /\ IsList(s) /\ Len(s) = 1 /\ s[1] = Size(0)
      /\ IsList(b) /\ Len(b) = 1 /\ b[1] = Tok("blank")
  BY <1>5, OneToken
<1>7. IsList(t) /\ Len(t) = w
  BY <1>3, <1>5, Repeated
<1>8. IsList(x)
  BY <1>5, ResponseAssumption, ListOf
<1>9. /\ IsList(c \o s) /\ Len(c \o s) = Len(c) + Len(s)
      /\ \A i \in 1..Len(c) : (c \o s)[i] = c[i]
      /\ \A i \in 1..Len(s) : (c \o s)[Len(c) + i] = s[i]
  <2>1. IsList(c) /\ IsList(s)
    BY <1>4a, <1>6
  <2>2. QED
    BY ONLY <2>1, ConcatPlaces
<1>10. PICK cs : cs = c \o s
  OBVIOUS
<1>11. /\ IsList(cs) /\ Len(cs) = z /\ cs[z] = Size(0)
       /\ \A i \in 1..(z - 1) : cs[i] = c[i]
  <2>1. Len(c) \in Nat /\ z = Len(c) + 1 /\ z - 1 = Len(c)
    BY <1>4, <1>4a
  <2>2. (c \o s)[Len(c) + 1] = s[1]
    BY <1>6, <1>9
  <2>3. IsList(cs) /\ Len(cs) = z
    BY <1>6, <1>9, <1>10, <2>1
  <2>4. cs[z] = Size(0)
    BY <1>6, <1>10, <2>1, <2>2
  <2>5. QED
    BY <1>9, <1>10, <2>1, <2>3, <2>4
<1>12. /\ IsList(cs \o t) /\ Len(cs \o t) = Len(cs) + Len(t)
       /\ \A i \in 1..Len(cs) : (cs \o t)[i] = cs[i]
  <2>1. IsList(cs) /\ IsList(t)
    BY <1>7, <1>11
  <2>2. QED
    BY ONLY <2>1, ConcatPlaces
<1>13. PICK ct : ct = cs \o t
  OBVIOUS
<1>14. /\ IsList(ct) /\ Len(ct) = z + w /\ ct[z] = Size(0)
       /\ \A i \in 1..(z - 1) : ct[i] = c[i]
  <2>1. z \in Nat \ {0}
    OBVIOUS
  <2>2. IsList(ct) /\ Len(ct) = z + w
    BY <1>7, <1>11, <1>12, <1>13
  <2>3. \A i \in 1..z : ct[i] = cs[i]
    BY <1>11, <1>12, <1>13
  <2>4. z \in 1..z /\ \A i \in 1..(z - 1) : i \in 1..z
    BY <2>1
  <2>5. QED
    BY <1>11, <2>2, <2>3, <2>4
<1>15. /\ IsList(ct \o b) /\ Len(ct \o b) = Len(ct) + Len(b)
       /\ \A i \in 1..Len(ct) : (ct \o b)[i] = ct[i]
       /\ \A i \in 1..Len(b) : (ct \o b)[Len(ct) + i] = b[i]
  <2>1. IsList(ct) /\ IsList(b)
    BY <1>6, <1>14
  <2>2. QED
    BY ONLY <2>1, ConcatPlaces
<1>16. PICK bt : bt = ct \o b
  OBVIOUS
<1>17. /\ IsList(bt) /\ Len(bt) = z + w + 1 /\ bt[z] = Size(0)
       /\ bt[z + w + 1] = Tok("blank")
       /\ \A i \in 1..(z - 1) : bt[i] = c[i]
  <2>1. z \in Nat \ {0}
    OBVIOUS
  <2>2. IsList(bt) /\ Len(bt) = z + w + 1
    BY <1>6, <1>14, <1>15, <1>16
  <2>3. \A i \in 1..(z + w) : bt[i] = ct[i]
    BY <1>14, <1>15, <1>16
  <2>4. z \in 1..(z + w) /\ \A i \in 1..(z - 1) : i \in 1..(z + w)
    BY <2>1
  <2>5. (ct \o b)[Len(ct) + 1] = b[1]
    BY <1>6, <1>15
  <2>6. bt[z + w + 1] = Tok("blank")
    BY <1>6, <1>14, <1>16, <2>5
  <2>7. QED
    BY <1>14, <2>2, <2>3, <2>4, <2>6
<1>18. BodyTokens(r) = bt
  BY <1>2, <1>5, <1>10, <1>13, <1>16 DEF BodyTokens
<1>19. /\ IsList(bt \o x) /\ Len(bt \o x) = Len(bt) + Len(x) /\ Len(x) \in Nat
       /\ \A i \in 1..Len(bt) : (bt \o x)[i] = bt[i]
  <2>1. IsList(bt) /\ IsList(x)
    BY <1>8, <1>17
  <2>2. QED
    BY ONLY <2>1, ConcatPlaces
<1>20. PICK a : a = bt \o x
  OBVIOUS
<1>21. /\ IsList(a) /\ Len(a) \in Nat /\ Len(bt) <= Len(a) /\ a[z] = Size(0)
       /\ a[z + w + 1] = Tok("blank")
       /\ \A i \in 1..(z - 1) : a[i] = c[i]
  <2>1. z \in Nat \ {0} /\ Len(bt) \in Nat
    BY <1>17
  <2>2. IsList(a) /\ Len(a) \in Nat /\ Len(bt) <= Len(a)
    BY <1>19, <1>20, <2>1
  <2>3. \A i \in 1..(z + w + 1) : a[i] = bt[i]
    BY <1>17, <1>19, <1>20
  <2>4. /\ z \in 1..(z + w + 1)
        /\ z + w + 1 \in 1..(z + w + 1)
        /\ \A i \in 1..(z - 1) : i \in 1..(z + w + 1)
    BY <2>1
  <2>5. QED
    BY <1>17, <2>2, <2>3, <2>4
<1>22. Behind(r) = a
  BY <1>5, <1>18, <1>20 DEF Behind
<1>23. /\ IsList(Behind(r)) /\ z = SizePlace(r, Len(r.chunks) + 1)
       /\ z = Len(r.body) + 2 * Len(r.chunks) + 1
       /\ Len(BodyTokens(r)) = z + r.trailers + 1
       /\ Len(Behind(r)) \in Nat /\ Len(BodyTokens(r)) <= Len(Behind(r))
       /\ Behind(r)[z] = Size(0)
       /\ Behind(r)[z + r.trailers + 1] = Tok("blank")
       /\ \A i \in 1..(z - 1) : Behind(r)[i] = ChunkTokens(r)[i]
  BY <1>2, <1>3, <1>4, <1>4b, <1>17, <1>18, <1>21, <1>22
<1>24. QED
  BY <1>23

LEMMA BehindList ==
  ASSUME NEW r \in Responses
  PROVE  IsList(Behind(r)) /\ Len(Behind(r)) \in Nat
<1>1. IsList(Behind(r))
  <2>1. CASE r.framing = "chunked"
    BY <2>1, ListAssumption, ChunkedPlaces DEF Framed
  <2>2. CASE r.framing # "chunked"
    BY <2>2, PlainPlaces
  <2>3. QED
    BY <2>1, <2>2
<1>2. QED
  BY <1>1, ListLen

-----------------------------------------------------------------------------
(* The readers of a body.                                                  *)
BodyReaders == {"length", "eof", "chunked", "trailers"}

(* What is buffered and what is still to come are together the stream s,   *)
(* up to where the server cuts it off.                                     *)
Holds(s) ==
  /\ Len(buf) + Len(rest) = Len(s) - resp.cut
  /\ \A i \in 1..Len(buf) : buf[i] = s[i]
  /\ \A i \in 1..Len(rest) : rest[i] = s[Len(buf) + i]

(* The chunks before the k-th are decoded, and the k-th, or the size line  *)
(* that ends the body, is next.                                            *)
AtChunk(k) ==
  /\ pos = SizePlace(resp, k)
  /\ Len(decoded) = LastOf(resp, k - 1)
  /\ \A i \in 1..Len(decoded) : decoded[i] = resp.body[i]

(* All of the body is decoded, or nothing: an empty first chunk ended it.  *)
Decoded ==
  \/ /\ decoded = resp.body
     /\ pos = SizePlace(resp, Len(resp.chunks) + 1) + 1
  \/ decoded = <<>> /\ ~Acceptable(resp)

FetchReads ==
  /\ fetchPc \in {"connect", "tls", "headers"} => pos = 1 /\ decoded = <<>>
  /\ fetchPc = "headers" => Holds(Sent(resp))
  /\ fetchPc \in BodyReaders => Holds(Behind(resp))
  /\ fetchPc \in {"length", "eof"} => resp.framing = fetchPc
  /\ fetchPc \in {"chunked", "trailers"} => resp.framing = "chunked"
  /\ fetchPc = "chunked" => \E k \in 1..(Len(resp.chunks) + 1) : AtChunk(k)
  /\ fetchPc = "trailers" => Decoded
  /\ fetchPc = "done" => domains = Builtin \/ resp \in Responses
  /\ WholeListOrBuiltin /\ AcceptableUsed

(* An exchange that fails ends with the built-in list.                     *)
LEMMA FailReads ==
  ASSUME NEW reason, Fail(reason), reason = "network" \/ ~Acceptable(resp)
  PROVE  FetchReads'
<1>1. fetchPc' = "done" /\ domains' = Builtin /\ why' = reason /\ resp' = resp
  BY DEF Fail
<1>2. Acceptable(resp)' => Acceptable(resp)
  BY <1>1 DEF Acceptable
<1>3. WholeListOrBuiltin' /\ AcceptableUsed'
  BY <1>1, <1>2 DEF WholeListOrBuiltin, AcceptableUsed
<1>4. QED
  BY <1>1, <1>3 DEF FetchReads, BodyReaders

(* One that succeeds, with the list or with the built-in one for none.     *)
LEMMA SucceedReads ==
  ASSUME NEW body, Succeed(body), resp \in Responses,
         \/ parse_domain_list(body) = resp.list
         \/ parse_domain_list(body) = <<>> /\ ~Acceptable(resp)
  PROVE  FetchReads'
<1>1. /\ fetchPc' = "done" /\ why' = "ok" /\ resp' = resp
      /\ domains' = IF parse_domain_list(body) = <<>> THEN Builtin
                    ELSE parse_domain_list(body)
  BY DEF Succeed
<1>2. Acceptable(resp)' => Acceptable(resp)
  BY <1>1 DEF Acceptable
<1>3. Acceptable(resp) => resp.list # <<>>
  BY DEF Acceptable
<1>4. WholeListOrBuiltin' /\ AcceptableUsed'
  BY <1>1, <1>2, <1>3 DEF WholeListOrBuiltin, AcceptableUsed
<1>5. QED
  BY <1>1, <1>4 DEF FetchReads, BodyReaders

(* A read moves tokens from what is to come to what is buffered.           *)
LEMMA ReadHolds ==
  ASSUME NEW s, Holds(s), buf \in Seq(Token), rest \in Seq(Token),
         NEW n \in Nat \ {0}, n <= Len(rest),
         buf' = buf \o SubSeq(rest, 1, n),
         rest' = SubSeq(rest, n + 1, Len(rest)), resp' = resp
  PROVE  Holds(s)'
<1>1. PICK b, t, x, y : b = Len(buf) /\ t = Len(rest) /\ x = SubSeq(rest, 1, n)
                        /\ y = SubSeq(rest, n + 1, Len(rest))
  OBVIOUS
<1>2. b \in Nat /\ t \in Nat /\ n <= t
  BY <1>1, LenProperties
<1>3. \A i \in 1..t : rest[i] \in Token
  BY <1>1, ElementOfSeq
<1>4. x \in Seq(Token) /\ Len(x) = n /\ \A i \in 1..n : x[i] = rest[i]
  <2>1. \A i \in 1..n : rest[i] \in Token
    BY <1>2, <1>3
  <2>2. QED
    BY <1>1, <1>2, <2>1, SubSeqProperties
<1>5. y \in Seq(Token) /\ Len(y) = t - n /\ \A i \in 1..(t - n) : y[i] = rest[n + i]
  <2>1. \A i \in (n + 1)..t : rest[i] \in Token
    BY <1>2, <1>3
  <2>2. QED
    BY <1>1, <1>2, <2>1, SubSeqProperties
<1>6. /\ Len(buf') = b + n
      /\ \A i \in 1..(b + n) : buf'[i] = IF i <= b THEN buf[i] ELSE x[i - b]
  BY <1>1, <1>4, ConcatProperties
<1>7. /\ b + t = Len(s) - resp.cut
      /\ \A i \in 1..b : buf[i] = s[i]
      /\ \A i \in 1..t : rest[i] = s[b + i]
  BY <1>1 DEF Holds
<1>8. \A i \in 1..(b + n) : buf'[i] = s[i]
  <2> TAKE i \in 1..(b + n)
  <2>1. CASE i <= b
    BY <1>2, <1>6, <1>7, <2>1
  <2>2. CASE ~(i <= b)
    <3>1. i - b \in 1..n /\ i - b \in 1..t /\ b + (i - b) = i
      BY <1>2, <2>2
    <3>2. buf'[i] = x[i - b]
      BY <1>6, <2>2
    <3>3. x[i - b] = rest[i - b] /\ rest[i - b] = s[b + (i - b)]
      BY <1>4, <1>7, <3>1
    <3>4. QED
      BY <3>1, <3>2, <3>3
  <2>3. QED
    BY <2>1, <2>2
<1>9. \A i \in 1..(t - n) : rest'[i] = s[b + n + i]
  <2> TAKE i \in 1..(t - n)
  <2>1. n + i \in 1..t /\ b + (n + i) = b + n + i
    BY <1>2
  <2>2. rest'[i] = rest[n + i]
    BY <1>1, <1>5
  <2>3. rest[n + i] = s[b + (n + i)]
    BY <1>7, <2>1
  <2>4. QED
    BY <2>1, <2>2, <2>3
<1>10. Len(rest') = t - n
  BY <1>1, <1>5
<1>11. Len(buf') + Len(rest') = Len(s) - resp'.cut
  <2>1. (b + n) + (t - n) = b + t
    BY <1>2
  <2>2. QED
    BY <1>6, <1>7, <1>10, <2>1
<1>12. QED
  BY <1>6, <1>8, <1>9, <1>10, <1>11 DEF Holds

(* read_more keeps the stream together; of an acceptable response it never *)
(* meets the limit or the end.                                             *)
LEMMA ReadMoreReads ==
  ASSUME FetchOK, FetchReads, NEW limit \in Nat, ReadMore(limit),
         fetchPc = "headers" \/ fetchPc \in BodyReaders,
         Acceptable(resp) => Len(buf) < limit /\ rest # <<>>
  PROVE  FetchReads'
<1>1. Len(buf) \in Nat /\ buf \in Seq(Token) /\ rest \in Seq(Token)
  BY LenProperties DEF FetchOK
<1>2. CASE Len(buf) >= limit /\ Fail("limit")
  BY <1>1, <1>2, FailReads
<1>3. CASE rest = <<>> /\ Fail("eof")
  BY <1>3, FailReads
<1>4. ASSUME NEW n \in 1..MaxRead, n <= Len(rest),
             buf' = buf \o SubSeq(rest, 1, n),
             rest' = SubSeq(rest, n + 1, Len(rest)),
             UNCHANGED <<fetchPc, resp, pos, decoded, why, domains>>
      PROVE  FetchReads'
  <2>1. n \in Nat \ {0}
    BY FetchAssumption
  <2>2. ASSUME NEW s, Holds(s) PROVE Holds(s)'
    BY ONLY <1>1, <1>4, <2>1, <2>2, ReadHolds
  <2>3. PICK s, b : s = Sent(resp) /\ b = Behind(resp)
    OBVIOUS
  <2>4. fetchPc = "headers" => Holds(s)'
    BY <2>2, <2>3 DEF FetchReads
  <2>5. fetchPc \in BodyReaders => Holds(b)'
    BY <2>2, <2>3 DEF FetchReads
  <2>6. s = Sent(resp') /\ b = Behind(resp')
    BY <1>4, <2>3
  <2>7. /\ fetchPc = "headers" => Holds(Sent(resp))'
        /\ fetchPc \in BodyReaders => Holds(Behind(resp))'
    BY <2>4, <2>5, <2>6 DEF Holds
  <2>8. WholeListOrBuiltin' /\ AcceptableUsed'
    BY <1>4 DEF WholeListOrBuiltin, AcceptableUsed, BodyReaders
  <2>9. fetchPc = "chunked" => (\E k \in 1..(Len(resp.chunks) + 1) : AtChunk(k))'
    BY <1>4 DEF FetchReads, AtChunk
  <2>10. fetchPc = "trailers" => Decoded'
    BY <1>4 DEF FetchReads, Decoded, Acceptable
  <2>11. QED
    BY <1>4, <2>7, <2>8, <2>9, <2>10 DEF FetchReads
<1>5. QED
  BY <1>2, <1>3, <1>4 DEF ReadMore

(* The buffer ends the headers where the first end of headers stands.      *)
LEMMA HeadersReads ==
  ASSUME FetchOK, FetchReads, Headers
  PROVE  FetchReads'
<1>1. fetchPc = "headers" /\ resp \in Responses /\ Holds(Sent(resp))
  BY DEF Headers, FetchOK, FetchReads
<1>2. PICK r \in Responses : r = resp
  BY <1>1
<1>3. PICK h \in Nat, b \in Nat, t \in Nat, v \in Nat, cut \in Nat :
         /\ h = r.headers /\ b = Len(buf) /\ t = Len(rest)
         /\ v = Len(Behind(r)) /\ cut = r.cut
  <2>1. r.headers \in Nat /\ r.cut \in 0..Len(Sent(r)) /\ Len(Sent(r)) \in Nat
    BY ResponseAssumption, LenProperties
  <2>2. Len(buf) \in Nat /\ Len(rest) \in Nat
    BY LenProperties DEF FetchOK
  <2>3. Len(Behind(r)) \in Nat
    BY BehindList
  <2>4. QED
    BY <2>1, <2>2, <2>3
<1>4. /\ Len(Sent(r)) = h + 1 + v
      /\ \A i \in 1..h : Sent(r)[i].type = "header"
      /\ Sent(r)[h + 1].type = "end"
      /\ \A i \in 1..v : Sent(r)[h + 1 + i] = Behind(r)[i]
  BY <1>3, BehindList, SentPlaces
<1>5. /\ b + t = h + 1 + v - cut
      /\ \A i \in 1..b : buf[i] = Sent(r)[i]
      /\ \A i \in 1..t : rest[i] = Sent(r)[b + i]
  <2>1. PICK s : s = Sent(r)
    OBVIOUS
  <2>2. Holds(s)
    BY <1>1, <1>2, <2>1
  <2>3. /\ Len(buf) + Len(rest) = Len(s) - resp.cut
        /\ \A i \in 1..Len(buf) : buf[i] = s[i]
        /\ \A i \in 1..Len(rest) : rest[i] = s[Len(buf) + i]
    BY <2>2 DEF Holds
  <2>4. Len(s) = h + 1 + v /\ resp.cut = cut
    BY <1>2, <1>3, <1>4, <2>1
  <2>5. b + t = h + 1 + v - cut
    <3>1. Len(buf) + Len(rest) = b + t
      BY <1>3
    <3>2. Len(s) - resp.cut = h + 1 + v - cut
      BY <2>4
    <3>3. QED
      BY <2>3, <3>1, <3>2
  <2>6. /\ \A i \in 1..b : buf[i] = s[i]
        /\ \A i \in 1..t : rest[i] = s[b + i]
    BY <1>3, <2>3
  <2>7. QED
    BY <2>1, <2>5, <2>6
<1>6. CASE HeaderEnd = {}
  <2>1. ReadMore(MaxHeader) /\ MaxHeader \in Nat
    BY <1>6, FetchAssumption DEF Headers
  <2>2. b <= h
    <3>1. SUFFICES ASSUME h + 1 \in 1..b PROVE FALSE
      OBVIOUS
    <3>2. buf[h + 1].type = "end"
      BY <1>4, <1>5, <3>1
    <3>3. h + 1 \in HeaderEnd
      BY <1>3, <3>1, <3>2 DEF HeaderEnd
    <3>4. QED
      BY <1>6, <3>3
  <2>3. ASSUME Acceptable(resp) PROVE Len(buf) < MaxHeader /\ rest # <<>>
    <3>1. h < MaxHeader /\ cut = 0
      BY <1>2, <1>3, <2>3 DEF Acceptable
    <3>2. t > 0
      BY <1>5, <2>2, <3>1
    <3>3. rest # <<>>
      BY <1>3, <3>2, EmptySeq
    <3>4. QED
      BY <1>3, <2>1, <2>2, <3>1, <3>3
  <2>4. QED
    BY <1>1, <2>1, <2>3, ReadMoreReads
<1>7. CASE (resp.status # 200 \/ resp.conflict) /\ Fail("status")
  BY <1>7, FailReads DEF Acceptable
<1>8. ASSUME NEW i \in HeaderEnd, \A j \in HeaderEnd : i <= j,
             fetchPc' = resp.framing, buf' = SubSeq(buf, i + 1, Len(buf)),
             UNCHANGED <<resp, rest, pos, decoded, why, domains>>
      PROVE  FetchReads'
  <2>1. i \in 1..b /\ buf[i].type = "end"
    BY <1>3 DEF HeaderEnd
  <2>2. i = h + 1
    <3>1. ~(i <= h)
      <4>1. SUFFICES ASSUME i \in 1..h PROVE FALSE
        BY <2>1
      <4>2. buf[i].type = "header"
        BY <1>4, <1>5, <2>1, <4>1
      <4>3. QED
        BY <2>1, <4>2
    <3>2. h + 1 \in 1..b
      BY <2>1, <3>1
    <3>3. buf[h + 1].type = "end"
      BY <1>4, <1>5, <3>2
    <3>4. h + 1 \in HeaderEnd
      BY <1>3, <3>2, <3>3 DEF HeaderEnd
    <3>5. i <= h + 1
      BY <1>8, <3>4
    <3>6. QED
      BY <2>1, <3>1, <3>5
  <2>3. Len(buf') = b - i /\ \A j \in 1..(b - i) : buf'[j] = buf[i + j]
    <3>1. \A j \in (i + 1)..b : buf[j] \in Token
      BY <1>3, <2>1, ElementOfSeq DEF FetchOK
    <3>2. QED
      BY <1>3, <1>8, <2>1, <3>1, SubSeqProperties DEF FetchOK
  <2>4. \A j \in 1..(b - i) : buf'[j] = Behind(r)[j]
    <3> TAKE j \in 1..(b - i)
    <3>1. i + j \in 1..b /\ h + 1 + j = i + j /\ j \in 1..v
      BY <1>5, <2>1, <2>2
    <3>2. QED
      BY <1>4, <1>5, <2>3, <3>1
  <2>5. \A j \in 1..t : rest'[j] = Behind(r)[(b - i) + j]
    <3> TAKE j \in 1..t
    <3>1. PICK k \in 1..v : k = (b - i) + j /\ h + 1 + k = b + j
      BY <1>5, <2>1, <2>2
    <3>2. rest'[j] = Sent(r)[b + j]
      BY <1>5, <1>8
    <3>3. Sent(r)[h + 1 + k] = Behind(r)[k]
      BY <1>4
    <3>4. QED
      BY <3>1, <3>2, <3>3
  <2>6. Holds(Behind(resp))'
    <3>1. /\ resp' = r /\ Len(buf') = b - i /\ Len(rest') = t
          /\ Len(Behind(r)) = v /\ r.cut = cut
      BY <1>2, <1>3, <1>8, <2>3
    <3>2. (b - i) + t = v - cut
      BY <1>5, <2>1, <2>2
    <3>3. QED
      BY <2>4, <2>5, <3>1, <3>2 DEF Holds
  <2>7. fetchPc' \in {"length", "eof", "chunked"} /\ resp' = r /\ fetchPc' = r.framing
    BY <1>2, <1>8, ResponseAssumption
  <2>8. fetchPc' = "chunked" => (\E k \in 1..(Len(resp.chunks) + 1) : AtChunk(k))'
    <3>1. HAVE fetchPc' = "chunked"
    <3>2. Cut(r)
      BY <2>7, <3>1, ListAssumption DEF Framed
    <3>3. Len(r.chunks) \in Nat /\ LastOf(r, 0) = 0
      BY <3>2, ChunkOrder
    <3>4. pos' = 1 /\ decoded' = <<>>
      BY <1>1, <1>8 DEF FetchReads
    <3>5. SizePlace(r, 1) = 1 /\ LastOf(r, 1 - 1) = 0
      BY <3>3 DEF SizePlace
    <3>6. AtChunk(1)'
      BY <2>7, <3>4, <3>5, EmptySeq DEF AtChunk
    <3>7. 1 \in 1..(Len(resp'.chunks) + 1)
      BY <2>7, <3>3
    <3>8. QED
      BY <3>6, <3>7
  <2>9. WholeListOrBuiltin' /\ AcceptableUsed'
    BY <2>7 DEF WholeListOrBuiltin, AcceptableUsed
  <2>10. QED
    BY <2>6, <2>7, <2>8, <2>9 DEF FetchReads, BodyReaders
<1>9. QED
  BY <1>6, <1>7, <1>8 DEF Headers

(* What has been buffered of the stream, and what is to come.              *)
LEMMA InStream ==
  ASSUME FetchOK, FetchReads, fetchPc \in BodyReaders
  PROVE  \E r \in Responses, b \in Nat, t \in Nat, v \in Nat, cut \in Nat :
           /\ r = resp /\ b = Len(buf) /\ t = Len(rest) /\ v = Len(Behind(r))
           /\ cut = r.cut /\ b + t = v - cut
           /\ \A i \in 1..b : buf[i] = Behind(r)[i]
           /\ t = 0 <=> rest = <<>>
<1>1. resp \in Responses /\ Holds(Behind(resp))
  BY DEF FetchOK, FetchReads, BodyReaders
<1>2. resp.cut \in Nat
  BY <1>1, ResponseAssumption, LenProperties
<1>3. Len(buf) \in Nat /\ Len(rest) \in Nat /\ (Len(rest) = 0 <=> rest = <<>>)
  BY LenProperties, EmptySeq DEF FetchOK
<1>4. Len(Behind(resp)) \in Nat
  BY <1>1, BehindList
<1>5. /\ Len(buf) + Len(rest) = Len(Behind(resp)) - resp.cut
      /\ \A i \in 1..Len(buf) : buf[i] = Behind(resp)[i]
  BY <1>1 DEF Holds
<1>6. QED
  BY <1>1, <1>2, <1>3, <1>4, <1>5

LEMMA LengthReads ==
  ASSUME FetchOK, FetchReads, LengthBody
  PROVE  FetchReads'
<1>1. fetchPc = "length" /\ fetchPc \in BodyReaders /\ resp.framing = "length"
  BY DEF LengthBody, FetchReads, BodyReaders
<1>2. PICK r \in Responses, b \in Nat, t \in Nat, v \in Nat, cut \in Nat :
           /\ r = resp /\ b = Len(buf) /\ t = Len(rest) /\ v = Len(Behind(r))
           /\ cut = r.cut /\ b + t = v - cut
           /\ \A i \in 1..b : buf[i] = Behind(r)[i]
           /\ t = 0 <=> rest = <<>>
  BY <1>1, InStream
<1>3. /\ BodyTokens(r) = r.body /\ Len(r.body) \in Nat /\ Len(r.extra) \in Nat
      /\ v = Len(r.body) + Len(r.extra)
      /\ \A i \in 1..Len(r.body) : Behind(r)[i] = r.body[i]
  BY <1>1, <1>2, PlainPlaces
<1>4. PICK len \in Nat, m \in Nat : len = r.len /\ m = Len(r.body)
  BY <1>3, ResponseAssumption
<1>5. len = m \/ len > v
  BY <1>1, <1>2, <1>3, <1>4, ListAssumption DEF Framed
<1>6. Acceptable(resp) => len = m /\ m <= MaxBody /\ cut = 0
  BY <1>1, <1>2, <1>3, <1>4 DEF Acceptable
<1>7. MaxBody \in Nat /\ m <= v
  <2>1. PICK x \in Nat : x = Len(r.extra)
    BY <1>3
  <2>2. v = m + x
    BY <1>3, <1>4, <2>1
  <2>3. QED
    BY <2>2, FetchAssumption
<1>8. CASE len > MaxBody /\ Fail("limit")
  BY <1>6, <1>7, <1>8, FailReads
<1>9. CASE b < len /\ ReadMore(len)
  <2>1. Acceptable(resp) => t # 0
    BY <1>2, <1>6, <1>7, <1>9
  <2>2. QED
    BY <1>1, <1>2, <1>9, <2>1, ReadMoreReads
<1>10. CASE b >= len /\ Succeed(SubSeq(buf, 1, len))
  <2>1. len = m
    BY <1>2, <1>5, <1>10
  <2>2. SubSeq(buf, 1, len) = r.body
    <3>1. buf \in Seq(Token) /\ r.body \in Seq(Token)
      BY ResponseAssumption DEF FetchOK
    <3>2. \A i \in 1..len : buf[i] \in Token
      BY <1>2, <1>10, <3>1, ElementOfSeq
    <3>3. PICK s : s = SubSeq(buf, 1, len)
      OBVIOUS
    <3>4. s \in Seq(Token) /\ Len(s) = len /\ \A i \in 1..len : s[i] = buf[i]
      BY <1>2, <1>10, <3>1, <3>2, <3>3, SubSeqProperties
    <3>5. \A i \in 1..len : s[i] = r.body[i]
      BY <1>2, <1>3, <1>4, <1>10, <2>1, <3>4
    <3>6. s = r.body
      BY <1>4, <2>1, <3>1, <3>4, <3>5, SeqEqual
    <3>7. QED
      BY <3>3, <3>6
  <2>3. QED
    BY <1>2, <1>10, <2>2, ParsedBody, SucceedReads
<1>11. QED
  BY <1>2, <1>4, <1>8, <1>9, <1>10 DEF LengthBody

LEMMA EofReads ==
  ASSUME FetchOK, FetchReads, EofBody
  PROVE  FetchReads'
<1>1. fetchPc = "eof" /\ fetchPc \in BodyReaders /\ resp.framing = "eof"
  BY DEF EofBody, FetchReads, BodyReaders
<1>2. PICK r \in Responses, b \in Nat, t \in Nat, v \in Nat, cut \in Nat :
           /\ r = resp /\ b = Len(buf) /\ t = Len(rest) /\ v = Len(Behind(r))
           /\ cut = r.cut /\ b + t = v - cut
           /\ \A i \in 1..b : buf[i] = Behind(r)[i]
           /\ t = 0 <=> rest = <<>>
  BY <1>1, InStream
<1>3. /\ BodyTokens(r) = r.body /\ Len(r.body) \in Nat
      /\ v = Len(r.body) + Len(r.extra)
      /\ \A i \in 1..Len(r.body) : Behind(r)[i] = r.body[i]
  BY <1>1, <1>2, PlainPlaces
<1>4. r.extra = <<>> /\ (cut = 0 \/ r.open)
  BY <1>1, <1>2, ListAssumption DEF Framed
<1>5. PICK m \in Nat : m = Len(r.body) /\ v = m
  BY <1>3, <1>4, EmptySeq
<1>6. Acceptable(resp) => m <= MaxBody /\ cut = 0
  BY <1>2, <1>3, <1>5 DEF Acceptable
<1>7. MaxBody \in Nat
  BY FetchAssumption
<1>8. CASE rest = <<>> /\ ~resp.open /\ Succeed(buf)
  <2>1. t = 0 /\ cut = 0 /\ b = m
    BY <1>2, <1>4, <1>5, <1>8
  <2>2. buf \in Seq(Token) /\ r.body \in Seq(Token)
    BY ResponseAssumption DEF FetchOK
  <2>3. \A i \in 1..m : buf[i] = r.body[i]
    BY <1>2, <1>3, <1>5, <2>1
  <2>4. buf = r.body
    BY <1>2, <1>5, <2>1, <2>2, <2>3, SeqEqual
  <2>5. QED
    BY <1>2, <1>8, <2>4, ParsedBody, SucceedReads
<1>9. CASE rest # <<>> /\ b >= MaxBody /\ Fail("limit")
  <2>1. ~Acceptable(resp)
    BY <1>2, <1>5, <1>6, <1>7, <1>9
  <2>2. QED
    BY <1>9, <2>1, FailReads
<1>10. CASE rest # <<>> /\ b < MaxBody /\ ReadMore(MaxBody)
  BY <1>1, <1>2, <1>7, <1>10, ReadMoreReads
<1>11. QED
  BY <1>2, <1>8, <1>9, <1>10 DEF EofBody

(* A chunk whose size is right is decoded whole, and the next one follows; *)
(* a wrong size fails the exchange or, an empty first chunk, ends it with  *)
(* nothing decoded.                                                        *)
LEMMA ChunkReads ==
  ASSUME FetchOK, FetchReads, Chunk
  PROVE  FetchReads'
<1>1. fetchPc = "chunked" /\ fetchPc \in BodyReaders /\ resp.framing = "chunked"
  BY DEF Chunk, FetchReads, BodyReaders
<1>2. PICK r \in Responses, b \in Nat, t \in Nat, v \in Nat, cut \in Nat :
           /\ r = resp /\ b = Len(buf) /\ t = Len(rest) /\ v = Len(Behind(r))
           /\ cut = r.cut /\ b + t = v - cut
           /\ \A i \in 1..b : buf[i] = Behind(r)[i]
           /\ t = 0 <=> rest = <<>>
  BY <1>1, InStream
<1>3. r.framing = "chunked" /\ Cut(r)
  BY <1>1, <1>2, ListAssumption DEF Framed
<1>4. PICK n \in Nat, m \in Nat, w \in Nat :
         n = Len(r.chunks) /\ m = Len(r.body) /\ w = r.trailers
  BY <1>3, ChunkOrder, ResponseAssumption, LenProperties
<1>5. PICK z \in Nat :
         /\ z = SizePlace(r, n + 1) /\ z = m + 2 * n + 1
         /\ Len(BodyTokens(r)) = z + w + 1 /\ z + w + 1 <= v
         /\ Behind(r)[z] = Size(0)
         /\ \A i \in 1..(z - 1) : Behind(r)[i] = ChunkTokens(r)[i]
  BY <1>2, <1>3, <1>4, ChunkedPlaces
<1>6. Acceptable(resp) =>
        /\ z + w + 1 <= MaxBody /\ cut = 0
        /\ \A i \in 1..n : RightSize(r, i)
  BY <1>2, <1>3, <1>4, <1>5 DEF Acceptable
<1>7. PICK k \in 1..(n + 1) : AtChunk(k)
  BY <1>1, <1>2, <1>4 DEF FetchReads
<1>8. MaxBody \in Nat /\ pos \in Nat /\ decoded \in Seq(Token) /\ buf \in Seq(Token)
  BY FetchAssumption DEF FetchOK
<1>9. PICK d \in Nat : d = Len(decoded) /\ d = LastOf(r, k - 1)
  BY <1>2, <1>7, <1>8, LenProperties DEF AtChunk
<1>10. pos = SizePlace(r, k) /\ pos = d + 2 * k - 1
  <2>1. pos = SizePlace(r, k)
    BY <1>2, <1>7 DEF AtChunk
  <2>2. QED
    BY <1>9, <2>1 DEF SizePlace
<1>11. \A i \in 1..d : decoded[i] = r.body[i]
  BY <1>2, <1>7, <1>9 DEF AtChunk
<1>12. d <= m
  <2>1. k - 1 \in 0..n
    BY <1>7
  <2>2. CASE k - 1 = 0
    BY <1>3, <1>9, <2>2, ChunkOrder
  <2>3. CASE k - 1 # 0
    <3>1. PICK j \in 1..n : j = k - 1
      BY <2>1, <2>3
    <3>2. LastOf(r, j) <= Len(r.body)
      BY <1>3, <1>4, ChunkOrder
    <3>3. QED
      BY <1>4, <1>9, <3>1, <3>2
  <2>4. QED
    BY <2>2, <2>3
<1>13. pos <= z /\ pos >= 1
  BY <1>5, <1>7, <1>10, <1>12
<1>14. ASSUME ReadMore(MaxBody), Acceptable(resp) => b < z + w + 1
       PROVE  FetchReads'
  <2>1. Acceptable(resp) => b < MaxBody /\ t # 0
    BY <1>2, <1>5, <1>6, <1>8, <1>14
  <2>2. QED
    BY <1>1, <1>2, <1>8, <1>14, <2>1, ReadMoreReads
<1>15. CASE pos > Len(buf)
  <2>1. ReadMore(MaxBody)
    BY <1>15 DEF Chunk
  <2>2. b < z + w + 1
    BY <1>2, <1>8, <1>13, <1>15
  <2>3. QED
    BY <1>14, <2>1, <2>2
<1>16. CASE ~(pos > Len(buf))
  <2>1. pos <= b /\ pos \in 1..b
    BY <1>2, <1>8, <1>13, <1>16
  <2>2. buf[pos] = Behind(r)[pos]
    BY <1>2, <2>1
  <2>3. CASE k = n + 1
    <3>1. pos = z /\ buf[pos] = Size(0) /\ SizeOf(buf[pos]) = 0
      <4>1. pos = z
        BY <1>5, <1>10, <2>3
      <4>2. buf[pos] = Size(0)
        BY <1>5, <2>2, <4>1
      <4>3. SizeOf(Size(0)) = 0
        BY DEF SizeOf, Size
      <4>4. QED
        BY <4>1, <4>2, <4>3
    <3>2. /\ fetchPc' = "trailers" /\ pos' = pos + 1
          /\ UNCHANGED <<resp, rest, buf, decoded, why, domains>>
      BY <1>16, <3>1 DEF Chunk, Unparsable
    <3>3. k - 1 = n /\ d = m
      <4>1. k - 1 = n
        BY <2>3
      <4>2. QED
        BY <1>3, <1>4, <1>9, <4>1, ChunkOrder
    <3>4. decoded = r.body
      <4>1. r.body \in Seq(Token)
        BY ResponseAssumption
      <4>2. QED
        BY <1>4, <1>8, <1>9, <1>11, <3>3, <4>1, SeqEqual
    <3>5. Decoded'
      <4>1. decoded' = resp'.body
        BY <1>2, <3>2, <3>4
      <4>2. pos' = SizePlace(resp', Len(resp'.chunks) + 1) + 1
        BY <1>2, <1>4, <1>5, <3>1, <3>2
      <4>3. QED
        BY <4>1, <4>2 DEF Decoded
    <3>6. Holds(Behind(resp))'
      BY <1>1, <3>2 DEF FetchReads, Holds
    <3>7. QED
      BY <1>1, <3>2, <3>5, <3>6
      DEF FetchReads, BodyReaders, WholeListOrBuiltin, AcceptableUsed
  <2>4. CASE k # n + 1
    <3>1. k \in 1..n
      BY <1>7, <2>4
    <3>2. PICK size : size = r.chunks[k].size
      OBVIOUS
    <3>3. size \in Nat \union {Unparsable} /\ Unparsable = 0 - 1
      BY <1>3, <1>4, <3>1, <3>2, ChunkOrder DEF Unparsable
    <3>4. PICK e \in Nat : e = LastOf(r, k) /\ d < e /\ e <= m
      <4>1. /\ LastOf(r, k) \in Nat
            /\ LastOf(r, k - 1) < LastOf(r, k) /\ LastOf(r, k) <= Len(r.body)
        BY <1>3, <1>4, <3>1, ChunkOrder
      <4>2. QED
        BY <1>4, <1>9, <4>1
    <3>5. /\ pos \in 1..(z - 1) /\ ChunkTokens(r)[pos] = Size(size)
          /\ e + 2 * k \in 1..(z - 1) /\ ChunkTokens(r)[e + 2 * k] = Tok("crlf")
          /\ \A j \in (d + 1)..e :
               j + 2 * k - 1 \in 1..(z - 1) /\ ChunkTokens(r)[j + 2 * k - 1] = r.body[j]
      <4>1. Len(ChunkTokens(r)) = z - 1
        <5>1. Len(ChunkTokens(r)) = m + 2 * n
          BY <1>3, <1>4, ChunkPlaces
        <5>2. m + 2 * n = z - 1
          BY <1>5
        <5>3. QED
          BY <5>1, <5>2
      <4>2. EndPlace(r, k) = e + 2 * k
        BY <3>4 DEF EndPlace
      <4>3. /\ SizePlace(r, k) \in 1..Len(ChunkTokens(r))
            /\ ChunkTokens(r)[SizePlace(r, k)] = Size(r.chunks[k].size)
            /\ EndPlace(r, k) \in 1..Len(ChunkTokens(r))
            /\ ChunkTokens(r)[EndPlace(r, k)] = Tok("crlf")
            /\ \A j \in (LastOf(r, k - 1) + 1)..LastOf(r, k) :
                 /\ j + 2 * k - 1 \in 1..Len(ChunkTokens(r))
                 /\ ChunkTokens(r)[j + 2 * k - 1] = r.body[j]
        BY <1>3, <1>4, <3>1, ChunkPlaces
      <4>4. QED
        BY <1>9, <1>10, <3>2, <3>4, <4>1, <4>2, <4>3
    <3>6. SizeOf(buf[pos]) = size
      <4>1. buf[pos] = Size(size)
        BY <1>5, <2>2, <3>5
      <4>2. SizeOf(Size(size)) = size
        BY DEF SizeOf, Size
      <4>3. QED
        BY <4>1, <4>2
    <3>7. RightSize(r, k) <=> size = e - d
      BY <1>9, <3>2, <3>4 DEF RightSize
    <3>8. Acceptable(resp) => size = e - d
      BY <1>6, <3>1, <3>7
    <3>9. CASE size = Unparsable /\ Fail("syntax")
      <4>1. ~Acceptable(resp)
        BY <3>3, <3>4, <3>8, <3>9
      <4>2. QED
        BY <3>9, <4>1, FailReads
    <3>10. CASE /\ size = 0
                /\ fetchPc' = "trailers" /\ pos' = pos + 1
                /\ UNCHANGED <<resp, rest, buf, decoded, why, domains>>
      <4>1. ~RightSize(r, k) /\ ~Acceptable(resp)
        BY <3>4, <3>7, <3>8, <3>10
      <4>2. ~PlainlyWrong(r, k)
        BY <3>2, <3>10 DEF PlainlyWrong, Unparsable
      <4>3. k = 1
        BY <1>3, <1>4, <3>1, <4>1, <4>2, ListAssumption DEF Framed
      <4>4. decoded = <<>>
        <5>1. d = 0
          BY <1>3, <1>9, <4>3, ChunkOrder
        <5>2. QED
          BY <1>8, <1>9, <5>1, EmptySeq
      <4>5. Decoded'
        <5>1. decoded' = <<>>
          BY <3>10, <4>4
        <5>2. ~Acceptable(resp)'
          BY <3>10, <4>1 DEF Acceptable
        <5>3. QED
          BY <5>1, <5>2 DEF Decoded
      <4>6. Holds(Behind(resp))'
        BY <1>1, <3>10 DEF FetchReads, Holds
      <4>7. QED
        BY <1>1, <3>10, <4>5, <4>6
        DEF FetchReads, BodyReaders, WholeListOrBuiltin, AcceptableUsed
    <3>11. CASE size > 0 /\ Len(decoded) + size > MaxBody /\ Fail("limit")
      <4>1. ~Acceptable(resp)
        <5>1. SUFFICES ASSUME Acceptable(resp) PROVE FALSE
          OBVIOUS
        <5>2. size = e - d /\ z + w + 1 <= MaxBody
          BY <1>6, <3>8, <5>1
        <5>3. d + size = e /\ d + size > MaxBody
          BY <1>9, <3>4, <3>11, <5>2
        <5>4. e <= z
          BY <1>5, <3>4
        <5>5. QED
          BY <1>8, <5>2, <5>3, <5>4
      <4>2. QED
        BY <3>11, <4>1, FailReads
    <3>12. CASE size > 0 /\ Len(buf) < pos + size + 1 /\ ReadMore(MaxBody)
      <4>1. ASSUME Acceptable(resp) PROVE b < z + w + 1
        <5>1. pos + size + 1 = e + 2 * k
          BY <1>10, <3>4, <3>8, <4>1
        <5>2. b < e + 2 * k
          BY <1>2, <3>12, <5>1
        <5>3. QED
          BY <3>5, <5>2
      <4>2. QED
        BY <1>14, <3>12, <4>1
    <3>13. CASE /\ size > 0 /\ ~(Len(buf) < pos + size + 1)
                /\ buf[pos + size + 1].type # "crlf" /\ Fail("syntax")
      <4>1. ~Acceptable(resp)
        <5>1. SUFFICES ASSUME Acceptable(resp) PROVE FALSE
          OBVIOUS
        <5>2. pos + size + 1 = e + 2 * k
          BY <1>10, <3>4, <3>8, <5>1
        <5>3. e + 2 * k \in 1..b
          BY <1>2, <3>5, <3>13, <5>2
        <5>4. buf[e + 2 * k] = Tok("crlf")
          BY <1>2, <1>5, <3>5, <5>3
        <5>5. Tok("crlf").type = "crlf"
          BY DEF Tok
        <5>6. QED
          BY <3>13, <5>2, <5>4, <5>5
      <4>2. QED
        BY <3>13, <4>1, FailReads
    <3>14. CASE /\ size > 0 /\ ~(Len(buf) < pos + size + 1)
                /\ buf[pos + size + 1].type = "crlf"
                /\ decoded' = decoded \o SubSeq(buf, pos + 1, pos + size)
                /\ pos' = pos + size + 1 + 1
                /\ UNCHANGED <<fetchPc, resp, rest, buf, why, domains>>
      <4>1. size \in Nat \ {0}
        BY <3>3, <3>14
      <4>2. PICK q \in Nat : q = pos + size + 1
        BY <1>8, <4>1
      <4>3. q \in 1..b /\ buf[q].type = "crlf"
        <5>1. q >= 1 /\ ~(b < q)
          BY <1>2, <1>8, <3>14, <4>1, <4>2
        <5>2. QED
          BY <3>14, <4>2, <5>1
      <4>4. q <= v /\ Behind(r)[q].type = "crlf"
        BY <1>2, <4>3
      <4>5. ~PlainlyWrong(r, k)
        <5>1. SizePlace(r, k) + r.chunks[k].size + 1 = q
          BY <1>10, <3>2, <4>2
        <5>2. size # Unparsable /\ size # 0
          BY <3>3, <4>1
        <5>3. QED
          BY <1>2, <3>2, <4>4, <5>1, <5>2 DEF PlainlyWrong
      <4>6. size = e - d
        <5>1. RightSize(r, k)
          BY <1>3, <1>4, <3>1, <3>2, <4>1, <4>5, ListAssumption DEF Framed
        <5>2. QED
          BY <3>7, <5>1
      <4>7. q = e + 2 * k /\ pos + size = e + 2 * k - 1 /\ d + size = e
        BY <1>10, <3>4, <4>2, <4>6
      <4>8. PICK x : x = SubSeq(buf, pos + 1, pos + size)
        OBVIOUS
      <4>9. x \in Seq(Token) /\ Len(x) = size /\ \A i \in 1..size : x[i] = buf[pos + i]
        <5>1. pos + 1 \in Int /\ pos + size \in Int
          BY <1>8, <4>1
        <5>2. \A i \in (pos + 1)..(pos + size) : buf[i] \in Token
          <6> TAKE i \in (pos + 1)..(pos + size)
          <6>1. i \in 1..b
            BY <1>8, <4>1, <4>2, <4>3
          <6>2. QED
            BY <1>2, <1>8, <6>1, ElementOfSeq
        <5>3. /\ SubSeq(buf, pos + 1, pos + size) \in Seq(Token)
              /\ Len(SubSeq(buf, pos + 1, pos + size)) = size
              /\ \A i \in 1..size :
                   SubSeq(buf, pos + 1, pos + size)[i] = buf[pos + 1 + i - 1]
          BY <1>8, <4>1, <5>1, <5>2, SubSeqProperties
        <5>4. \A i \in 1..size : pos + 1 + i - 1 = pos + i
          BY <1>8, <4>1
        <5>5. QED
          BY <4>8, <5>3, <5>4
      <4>10. /\ Len(decoded') = e
             /\ \A i \in 1..e : decoded'[i] = IF i <= d THEN decoded[i] ELSE x[i - d]
        <5>1. decoded' = decoded \o x
          BY <3>14, <4>8
        <5>2. QED
          <6>1. /\ Len(decoded \o x) = Len(decoded) + Len(x)
                /\ \A i \in 1..(Len(decoded) + Len(x)) :
                     (decoded \o x)[i] =
                       IF i <= Len(decoded) THEN decoded[i] ELSE x[i - Len(decoded)]
            BY <1>8, <4>9, ConcatProperties
          <6>2. Len(decoded) = d /\ Len(decoded) + Len(x) = e
            BY <1>9, <4>7, <4>9
          <6>3. QED
            BY <5>1, <6>1, <6>2
      <4>11. ASSUME NEW i \in 1..e PROVE decoded'[i] = r.body[i]
        <5>1. CASE i <= d
          BY <1>11, <4>10, <5>1
        <5>2. CASE ~(i <= d)
          <6>1. PICK g \in 1..size : g = i - d
            BY <3>4, <4>1, <4>7, <5>2
          <6>2. PICK p \in 1..b : p = pos + g /\ p = i + 2 * k - 1
            BY <1>8, <1>10, <1>13, <4>1, <4>2, <4>3, <6>1
          <6>3. i \in (d + 1)..e
            BY <5>2
          <6>4. p \in 1..(z - 1) /\ ChunkTokens(r)[p] = r.body[i]
            BY <3>5, <6>2, <6>3
          <6>5. x[g] = buf[p] /\ buf[p] = Behind(r)[p]
            BY <1>2, <4>9, <6>2
          <6>6. Behind(r)[p] = ChunkTokens(r)[p]
            BY <1>5, <6>4
          <6>7. QED
            BY <4>10, <5>2, <6>1, <6>4, <6>5, <6>6
        <5>3. QED
          BY <5>1, <5>2
      <4>12. PICK l \in 1..(n + 1) : l = k + 1
        BY <3>1
      <4>13. LastOf(r, l - 1) = e /\ SizePlace(r, l) = e + 2 * l - 1
        <5>1. l - 1 = k
          BY <3>1, <4>12
        <5>2. QED
          BY <3>4, <5>1 DEF SizePlace
      <4>14. AtChunk(l)'
        <5>1. pos' = SizePlace(r, l)
          BY <3>1, <3>14, <4>2, <4>7, <4>12, <4>13
        <5>2. Len(decoded') = LastOf(r, l - 1)
          BY <4>10, <4>13
        <5>3. resp' = r
          BY <1>2, <3>14
        <5>4. QED
          BY <4>10, <4>11, <5>1, <5>2, <5>3 DEF AtChunk
      <4>15. (\E j \in 1..(Len(resp.chunks) + 1) : AtChunk(j))'
        BY <1>2, <1>4, <3>14, <4>14
      <4>16. Holds(Behind(resp))'
        BY <1>1, <3>14 DEF FetchReads, Holds
      <4>17. QED
        BY <1>1, <3>14, <4>15, <4>16
        DEF FetchReads, BodyReaders, WholeListOrBuiltin, AcceptableUsed
    <3>15. QED
      BY <1>16, <3>6, <3>9, <3>10, <3>11, <3>12, <3>13, <3>14 DEF Chunk
  <2>5. QED
    BY <2>3, <2>4
<1>17. QED
  BY <1>15, <1>16

LEMMA TrailersReads ==
  ASSUME FetchOK, FetchReads, Trailers
  PROVE  FetchReads'
<1> DEFINE blank == {i \in pos..Len(buf) : buf[i].type = "blank"}
<1>1. /\ fetchPc = "trailers" /\ fetchPc \in BodyReaders
      /\ resp.framing = "chunked" /\ Decoded
  BY DEF Trailers, FetchReads, BodyReaders
<1>2. PICK r \in Responses, b \in Nat, t \in Nat, v \in Nat, cut \in Nat :
           /\ r = resp /\ b = Len(buf) /\ t = Len(rest) /\ v = Len(Behind(r))
           /\ cut = r.cut /\ b + t = v - cut
           /\ \A i \in 1..b : buf[i] = Behind(r)[i]
           /\ t = 0 <=> rest = <<>>
  BY <1>1, InStream
<1>3. r.framing = "chunked" /\ Cut(r)
  BY <1>1, <1>2, ListAssumption DEF Framed
<1>4. PICK w \in Nat, z \in Nat :
         /\ w = r.trailers /\ z = SizePlace(r, Len(r.chunks) + 1)
         /\ Len(BodyTokens(r)) = z + w + 1 /\ z + w + 1 <= v
         /\ Behind(r)[z + w + 1] = Tok("blank")
  <2>1. PICK z \in Nat :
           /\ z = SizePlace(r, Len(r.chunks) + 1)
           /\ Len(BodyTokens(r)) = z + r.trailers + 1
           /\ Len(BodyTokens(r)) <= Len(Behind(r))
           /\ Behind(r)[z + r.trailers + 1] = Tok("blank")
    BY <1>3, ChunkedPlaces
  <2>2. r.trailers \in Nat
    BY ResponseAssumption
  <2>3. QED
    BY <1>2, <2>1, <2>2
<1>5. MaxBody \in Nat /\ MaxHeader \in Nat /\ pos \in Nat
  BY FetchAssumption DEF FetchOK
<1>6. CASE Succeed(decoded)
  <2>1. CASE decoded = resp.body
    BY <1>2, <1>6, <2>1, ParsedBody, SucceedReads
  <2>2. CASE decoded = <<>> /\ ~Acceptable(resp)
    BY <1>2, <1>6, <2>2, ParsedNothing, SucceedReads
  <2>3. QED
    BY <1>1, <2>1, <2>2 DEF Decoded
<1>7. ASSUME Acceptable(resp), blank = {}
      PROVE  /\ b < MaxBody /\ t # 0 /\ Len(buf) - (pos - 1) < MaxHeader
  <2>1. w < MaxHeader /\ z + w + 1 <= MaxBody /\ cut = 0
    BY <1>2, <1>4, <1>7 DEF Acceptable
  <2>2. pos = z + 1
    BY <1>1, <1>2, <1>4, <1>7 DEF Decoded
  <2>3. b < z + w + 1
    <3>1. SUFFICES ASSUME z + w + 1 <= b PROVE FALSE
      OBVIOUS
    <3>2. PICK p \in Nat : p = z + w + 1
      OBVIOUS
    <3>3. p \in 1..b /\ p \in pos..b
      BY <2>2, <3>1, <3>2
    <3>4. buf[p] = Tok("blank")
      BY <1>2, <1>4, <3>2, <3>3
    <3>5. Tok("blank").type = "blank"
      BY DEF Tok
    <3>6. p \in blank
      BY <1>2, <3>3, <3>4, <3>5
    <3>7. QED
      BY <1>7, <3>6
  <2>4. b < MaxBody /\ t # 0
    BY <1>2, <1>4, <1>5, <2>1, <2>3
  <2>5. b - (pos - 1) < MaxHeader
    BY <1>5, <2>1, <2>2, <2>3
  <2>6. QED
    BY <1>2, <2>4, <2>5
<1>8. CASE blank = {} /\ Len(buf) - (pos - 1) >= MaxHeader /\ Fail("limit")
  <2>1. b - (pos - 1) \in Int /\ Len(buf) = b
    BY <1>2, <1>5
  <2>2. ~Acceptable(resp)
    BY <1>5, <1>7, <1>8, <2>1
  <2>3. QED
    BY <1>8, <2>2, FailReads
<1>9. CASE blank = {} /\ ReadMore(MaxBody)
  <2>1. Acceptable(resp) => Len(buf) < MaxBody /\ rest # <<>>
    BY <1>2, <1>7, <1>9
  <2>2. QED
    BY <1>1, <1>5, <1>9, <2>1, ReadMoreReads
<1>10. CASE blank # {}
  BY <1>6, <1>10 DEF Trailers
<1>11. CASE blank = {}
  BY <1>8, <1>9, <1>11 DEF Trailers
<1>12. QED
  BY <1>10, <1>11

LEMMA RequestedReads ==
  ASSUME FetchOK, FetchReads, Requested
  PROVE  FetchReads'
<1>1. /\ fetchPc = "tls" /\ fetchPc' = "headers" /\ buf' = <<>>
      /\ pos' = 1 /\ decoded' = <<>>
  BY DEF Requested, FetchOK, FetchReads
<1>2. PICK r \in Responses : r = resp' /\ rest' = Wire(r)
  BY DEF Requested
<1>3. PICK s, n : s = Sent(r) /\ n = Len(s) - r.cut
  OBVIOUS
<1>4. s \in Seq(Token) /\ Len(s) \in Nat /\ n \in Nat /\ n <= Len(s)
  BY <1>3, ResponseAssumption, LenProperties
<1>5. Len(rest') = n /\ \A i \in 1..n : rest'[i] = s[i]
  <2>1. \A i \in 1..n : s[i] \in Token
    BY <1>4, ElementOfSeq
  <2>2. rest' = SubSeq(s, 1, n)
    BY <1>2, <1>3 DEF Wire
  <2>3. QED
    BY <1>4, <2>1, <2>2, SubSeqProperties
<1>6. Holds(Sent(resp))'
  <2>1. Len(buf') = 0
    BY <1>1, EmptySeq
  <2>2. Len(buf') + Len(rest') = Len(s) - resp'.cut
    BY <1>2, <1>3, <1>4, <1>5, <2>1
  <2>3. \A i \in 1..Len(rest') : rest'[i] = s[Len(buf') + i]
    BY <1>4, <1>5, <2>1
  <2>4. Sent(resp') = s
    BY <1>2, <1>3
  <2>5. QED
    BY <2>1, <2>2, <2>3, <2>4 DEF Holds
<1>7. WholeListOrBuiltin' /\ AcceptableUsed'
  BY <1>1 DEF WholeListOrBuiltin, AcceptableUsed
<1>8. QED
  BY <1>1, <1>6, <1>7 DEF FetchReads, BodyReaders

LEMMA FetchNextReads ==
  ASSUME FetchOK, FetchReads, FetchNext
  PROVE  FetchReads'
<1>1. CASE Connected
  BY <1>1 DEF Connected, FetchReads, BodyReaders, WholeListOrBuiltin, AcceptableUsed
<1>2. CASE NetworkFails
  BY <1>2, FailReads DEF NetworkFails
<1>3. QED
  BY <1>1, <1>2, RequestedReads, HeadersReads, LengthReads, EofReads,
     ChunkReads, TrailersReads
  DEF FetchNext, FetchStep

(* Nothing but the fetch touches its state, until its result is taken.     *)
LEMMA FetchReadsKept == StartInv /\ FetchReads /\ [MainNext]_mainVars => FetchReads'
<1> SUFFICES ASSUME StartInv, FetchReads, [MainNext]_mainVars PROVE FetchReads'
  OBVIOUS
<1>1. CASE Fetching
  BY <1>1, FetchNextReads DEF Fetching, StartInv
<1>2. CASE Fetched
  BY <1>2 DEF Fetched, FetchReturned, FetchReads, BodyReaders,
              WholeListOrBuiltin, AcceptableUsed
<1>3. CASE Checking \/ Serving \/ Exited \/ UNCHANGED mainVars
  <2>1. UNCHANGED fetchVars
    BY <1>3 DEF Checking, Serving, Serve, Exited, mainVars
  <2>2. UNCHANGED <<fetchPc, resp, rest, buf, pos, decoded, why, domains>>
    BY <2>1 DEF fetchVars
  <2>3. Acceptable(resp)' <=> Acceptable(resp)
    BY <2>2 DEF Acceptable
  <2>4. WholeListOrBuiltin' /\ AcceptableUsed'
    BY <2>2, <2>3 DEF FetchReads, WholeListOrBuiltin, AcceptableUsed
  <2>5. /\ fetchPc = "headers" => Holds(Sent(resp))'
        /\ fetchPc \in BodyReaders => Holds(Behind(resp))'
    BY <2>2 DEF FetchReads, Holds
  <2>6. /\ fetchPc = "chunked" => (\E k \in 1..(Len(resp.chunks) + 1) : AtChunk(k))'
        /\ fetchPc = "trailers" => Decoded'
    BY <2>2, <2>3 DEF FetchReads, AtChunk, Decoded
  <2>7. QED
    BY <2>2, <2>4, <2>5, <2>6 DEF FetchReads
<1>4. QED
  BY <1>1, <1>2, <1>3 DEF MainNext

LEMMA FetchReadsAlways == MainSpec => []FetchReads
<1>1. MainInit => FetchReads
  BY DEF MainInit, FetchInit, FetchReads, BodyReaders, WholeListOrBuiltin,
         AcceptableUsed
<1>2. MainSpec => []StartInv
  BY StartInit, StartNext, PTL DEF MainSpec
<1>3. QED
  BY <1>1, <1>2, FetchReadsKept, PTL DEF MainSpec

(***************************************************************************)
(* However the response is framed, cut off and read, the fetch ends with   *)
(* the whole published list, deobfuscated, or with the built-in one; for   *)
(* every alphabet, limit, number of names and of chunks, and every server  *)
(* whose framing does not lie where no reader could tell.                  *)
(***************************************************************************)
THEOREM FetchedListIsWhole == MainSpec => []WholeListOrBuiltin
<1>1. FetchReads => WholeListOrBuiltin
  BY DEF FetchReads
<1>2. QED
  BY <1>1, FetchReadsAlways, PTL

(***************************************************************************)
(* The limits of http.rs refuse nothing that fits them, for every size of  *)
(* the limits and of the reads: a response of exactly the limit is used.   *)
(***************************************************************************)
THEOREM FittingListIsUsed == MainSpec => []AcceptableUsed
<1>1. FetchReads => AcceptableUsed
  BY DEF FetchReads
<1>2. QED
  BY <1>1, FetchReadsAlways, PTL

(***************************************************************************)
(* Whatever became of the fetch, the check and the server work with the    *)
(* configured domains, in their order, and behind them one whole list: one *)
(* that was published, or the built-in one ("append the resulting domains  *)
(* to any that were supplied with --cf-domain").                           *)
(***************************************************************************)
DomainsSettled ==
  phase # "fetch" =>
    \/ ~default_domains /\ cf_domains = CfDomains
    \/ default_domains /\ cf_domains = CfDomains \o Builtin
    \/ /\ default_domains
       /\ \E r \in Responses : r.list # <<>> /\ cf_domains = CfDomains \o r.list

(* Until the fetch is over the domains are the configured ones.            *)
Settled == (phase = "fetch" => cf_domains = CfDomains) /\ DomainsSettled

LEMMA SettledKept ==
  ASSUME FetchReads, Settled, [MainNext]_mainVars
  PROVE  Settled'
<1>1. CASE Fetched
  <2>1. /\ phase' \in {"check", "serve"} /\ default_domains' = default_domains
        /\ default_domains => fetchPc = "done"
        /\ cf_domains' = CfDomains \o (IF default_domains THEN domains ELSE <<>>)
    BY <1>1 DEF Fetched, Settled
  <2>2. CASE default_domains
    <3>1. /\ domains = Builtin \/ resp \in Responses
          /\ domains = Builtin \/ (resp.list # <<>> /\ domains = resp.list)
      BY <2>1, <2>2 DEF FetchReads, WholeListOrBuiltin
    <3>2. CASE domains = Builtin
      BY <2>1, <2>2, <3>2 DEF Settled, DomainsSettled
    <3>3. CASE resp \in Responses /\ resp.list # <<>> /\ domains = resp.list
      <4>1. PICK r \in Responses : r.list # <<>> /\ domains = r.list
        BY <3>3
      <4>2. cf_domains' = CfDomains \o r.list
        BY <2>1, <2>2, <4>1
      <4>3. QED
        BY <2>1, <2>2, <4>1, <4>2 DEF Settled, DomainsSettled
    <3>4. QED
      BY <3>1, <3>2, <3>3
  <2>3. CASE ~default_domains
    <3>1. CfDomains \o <<>> = CfDomains
      BY MainAssumption, ConcatEmptySeq
    <3>2. cf_domains' = CfDomains
      BY <2>1, <2>3, <3>1
    <3>3. QED
      BY <2>1, <2>3, <3>2 DEF Settled, DomainsSettled
  <2>4. QED
    BY <2>2, <2>3
<1>2. CASE Fetching \/ Checking \/ Serving \/ Exited \/ UNCHANGED mainVars
  <2>1. UNCHANGED <<phase, default_domains, cf_domains>>
    BY <1>2 DEF Fetching, Checking, Serving, Serve, Exited, mainVars
  <2>2. QED
    BY <2>1 DEF Settled, DomainsSettled
<1>3. QED
  BY <1>1, <1>2 DEF MainNext

(***************************************************************************)
(* What main.rs checks and serves with is the configured domains and, if   *)
(* asked for, one whole list behind them, for every server and any number  *)
(* of domains.                                                             *)
(***************************************************************************)
THEOREM DomainsAreWhole == MainSpec => []DomainsSettled
<1>1. MainInit => Settled
  BY DEF MainInit, Settled, DomainsSettled
<1>2. FetchReads /\ Settled /\ [MainNext]_mainVars => Settled'
  BY SettledKept
<1>3. Settled => DomainsSettled
  BY DEF Settled
<1>4. QED
  BY <1>1, <1>2, <1>3, FetchReadsAlways, PTL DEF MainSpec

=============================================================================
