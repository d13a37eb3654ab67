----------------------------- MODULE WsConnect -----------------------------
(***************************************************************************)
(* The two loops of ws_client.rs that walk the hostnames of a data centre: *)
(* connect_ws_for_dc (Telegram's own hosts, reached at a --dc-ip address)  *)
(* and connect_cf_ws_for_dc (the kws{N} and kws{N}-1 records of the        *)
(* configured Cloudflare zones), the latter driven by CfAttempts.          *)
(*                                                                         *)
(* A dial is a TCP connection through the outbound connector               *)
(* (outbound/connector.rs), directly or by way of a proxy, and then TLS    *)
(* and the upgrade (connect_ws_with_path).  How each part ends is the      *)
(* network's choice; a failed lookup stands for a record that is not in    *)
(* DNS as well as for a resolver that gave up.                             *)
(***************************************************************************)
EXTENDS Integers, Sequences, FiniteSets

CONSTANTS
  Zones,   \* --cf-domain in the order given to connect_cf_ws_for_dc
  Dashed,  \* those whose own name contains "-1."
  Proxies, \* the proxies to consider: "none", or one of either kind
  NoProxy  \* the zones that --no-proxy matches

(* cf_proxy and the check call connect_cf_ws_for_dc with at least one      *)
(* domain; no zone is another one with its "-1." cut out.                  *)
ASSUME ZonesAssumption ==
  /\ Zones \in Seq(STRING) \ {<<>>}
  /\ Dashed \subseteq {Zones[i] : i \in 1..Len(Zones)} /\ "" \notin Dashed

VARIABLES
  walk,      \* "cf" or "direct"
  is_media,
  proxy,     \* the outbound connector's proxy
  queue,     \* CfAttempts::queue, or the rest of the direct loop's domains
  tried,     \* CfAttempts::tried
  timed_out, \* CfAttempts::timed_out
  current,   \* the record being dialled
  flags,     \* what the walk will report: the fields of WsAttempt
  result,    \* "next", "dialling", "upgrading", "connected" or "failed"
  log        \* history: the dials, as (record, outcome)

vars ==
  <<walk, is_media, proxy, queue, tried, timed_out, current, flags, result,
    log>>

-----------------------------------------------------------------------------
(* Hostnames.  A record is its zone and whether it is the -1 variant; the  *)
(* zone "" stands for web.telegram.org.  Cutting a zone's own "-1." leads  *)
(* to a name outside the configured zones.                                 *)

Base(zone) == [zone |-> zone, dash_one |-> FALSE, outside |-> FALSE]
DashOne(zone) == [zone |-> zone, dash_one |-> TRUE, outside |-> FALSE]
Outside(zone) == [zone |-> zone, dash_one |-> FALSE, outside |-> TRUE]

ZoneSet == {Zones[i] : i \in 1..Len(Zones)}

CfRecords ==
  {Base(z) : z \in ZoneSet} \union {DashOne(z) : z \in ZoneSet}
    \union {Outside(z) : z \in Dashed}

Records == CfRecords \union {Base(""), DashOne("")}

ordered_records(zone, media) ==
  IF media THEN <<DashOne(zone), Base(zone)>> ELSE <<Base(zone), DashOne(zone)>>

ws_domains(media) == ordered_records("", media)

(* flat_map over the zones: two records for each.                          *)
cf_ws_domains(media) ==
  [i \in 1..(2 * Len(Zones)) |->
     ordered_records(Zones[(i + 1) \div 2], media)[2 - (i % 2)]]

(* domain.replacen("-1.", ".", 1): the first label's suffix if it has one, *)
(* else whatever "-1." the zone's name has.                                *)
HasBase(r) == r.dash_one \/ (r.zone \in Dashed /\ ~r.outside)

(* Fault: the zone's name is searched even when the first label matches.   *)
BaseOfZone(r) == Outside(r.zone)

base_cf_record(r) ==
  IF r.dash_one THEN Base(r.zone) ELSE Outside(r.zone)

-----------------------------------------------------------------------------
Unforced(records) ==
  [i \in 1..Len(records) |-> [domain |-> records[i], forced |-> FALSE]]

NoRecord == Base("")
NoFlags == [all_redirects |-> TRUE, upgrade |-> FALSE, connect |-> FALSE]

Init ==
  /\ walk \in {"cf", "direct"}
  /\ is_media \in BOOLEAN
  /\ proxy \in Proxies
  /\ queue = Unforced(IF walk = "cf" THEN cf_ws_domains(is_media)
                                     ELSE ws_domains(is_media))
  /\ tried = {}
  /\ timed_out = {}
  /\ current = NoRecord
  /\ flags = NoFlags
  /\ result = "next"
  /\ log = <<>>

(* next_domain: a forced attempt always runs, another one unless tried.    *)
Skipped(a) == ~a.forced /\ a.domain \in tried

NextDomain ==
  /\ result = "next"
  /\ \E i \in 1..Len(queue) :
       /\ ~Skipped(queue[i])
       /\ \A j \in 1..(i - 1) : Skipped(queue[j])
       /\ queue' = SubSeq(queue, i + 1, Len(queue))
       /\ current' = queue[i].domain
       /\ tried' = IF queue[i].forced THEN tried
                   ELSE tried \union {queue[i].domain}
  /\ result' = "dialling"
  /\ UNCHANGED <<walk, is_media, proxy, timed_out, flags, log>>

(* The loop is over: (None, None, all_redirects) or a failed WsAttempt.    *)
GiveUp ==
  /\ result = "next"
  /\ \A i \in 1..Len(queue) : Skipped(queue[i])
  /\ queue' = <<>>
  /\ result' = "failed"
  /\ UNCHANGED <<walk, is_media, proxy, tried, timed_out, current, flags, log>>

-----------------------------------------------------------------------------
(* How a dial ends: in the connector, or in the upgrade.                   *)

should_bypass(r) == r.zone \in NoProxy /\ ~r.outside

Unproxied == proxy = "none" \/ should_bypass(current)

Dialled(outcome) ==
  /\ log' = Append(log, <<current, outcome>>)
  /\ UNCHANGED <<walk, is_media, proxy, tried, current>>

(* The connector gives a stream; the request is built and sent over TLS.   *)
TcpConnected ==
  /\ result = "dialling"
  /\ result' = "upgrading"
  /\ UNCHANGED <<walk, is_media, proxy, queue, tried, timed_out, current, flags,
                 log>>

(* Status 101.                                                             *)
Connected ==
  /\ result = "upgrading"
  /\ Dialled("connected")
  /\ result' = "connected"
  /\ flags' = [NoFlags EXCEPT !.all_redirects = FALSE]
  /\ UNCHANGED <<queue, timed_out>>

(* A redirect status.                                                      *)
Redirect ==
  /\ result = "upgrading"
  /\ Dialled("redirect")
  /\ result' = "next"
  /\ UNCHANGED <<queue, timed_out, flags>>

(* Any other error: of the connect, of the proxy (its own lookup and the   *)
(* lookup of the record on the other side included), of TLS or of HTTP.    *)
Failed ==
  /\ result \in {"dialling", "upgrading"}
  /\ Dialled("failed")
  /\ result' = "next"
  /\ flags' = [flags EXCEPT !.all_redirects = FALSE]
  /\ UNCHANGED <<queue, timed_out>>

(* Fault: the base record only gets its own turn in the queue.             *)
MissingUnforced ==
  /\ result = "dialling" /\ walk = "cf" /\ Unproxied
  /\ Dialled("dns")
  /\ result' = "next"
  /\ IF HasBase(current) /\ base_cf_record(current) \notin timed_out
     THEN /\ queue' = Unforced(<<base_cf_record(current)>>) \o queue
          /\ UNCHANGED flags
     ELSE /\ flags' = [flags EXCEPT !.all_redirects = FALSE]
          /\ UNCHANGED queue
  /\ UNCHANGED timed_out

(* Fault: the retry is queued behind the other zones.                      *)
MissingPushBack ==
  /\ result = "dialling" /\ walk = "cf" /\ Unproxied
  /\ Dialled("dns")
  /\ result' = "next"
  /\ IF HasBase(current) /\ base_cf_record(current) \notin timed_out
     THEN /\ queue' = Append(queue, [domain |-> base_cf_record(current),
                                    forced |-> TRUE])
          /\ UNCHANGED flags
     ELSE /\ flags' = [flags EXCEPT !.all_redirects = FALSE]
          /\ UNCHANGED queue
  /\ UNCHANGED timed_out

(* Fault: a record that has timed out is forced all the same.              *)
MissingForgetsTimeouts ==
  /\ result = "dialling" /\ walk = "cf" /\ Unproxied
  /\ Dialled("dns")
  /\ result' = "next"
  /\ IF HasBase(current)
     THEN /\ queue' = <<[domain |-> base_cf_record(current), forced |-> TRUE]>>
                        \o queue
          /\ UNCHANGED flags
     ELSE /\ flags' = [flags EXCEPT !.all_redirects = FALSE]
          /\ UNCHANGED queue
  /\ UNCHANGED timed_out

(* is_dns_not_found and retry_base_of: not counted against all_redirects   *)
(* when the base record is queued.  Direct dials go to an address, and the *)
(* reason a proxy gives does not begin with "TCP connect:".                *)
Missing ==
  /\ result = "dialling" /\ walk = "cf" /\ Unproxied
  /\ Dialled("dns")
  /\ result' = "next"
  /\ IF HasBase(current) /\ base_cf_record(current) \notin timed_out
     THEN /\ queue' = <<[domain |-> base_cf_record(current), forced |-> TRUE]>>
                        \o queue
          /\ UNCHANGED flags
     ELSE /\ flags' = [flags EXCEPT !.all_redirects = FALSE]
          /\ UNCHANGED queue
  /\ UNCHANGED timed_out

(* Fault: a stalled handshake still counts as a redirect.                  *)
TimedOutKeepsRedirects(phase) ==
  /\ result = IF phase = "connect" THEN "dialling" ELSE "upgrading"
  /\ Dialled(phase)
  /\ result' = "next"
  /\ IF walk = "cf"
     THEN timed_out' = timed_out \union {current} /\ UNCHANGED flags
     ELSE flags' = [flags EXCEPT ![phase] = TRUE] /\ UNCHANGED timed_out
  /\ UNCHANGED queue

(* The connect or the upgrade ran out the clock.                           *)
TimedOut(phase) ==
  /\ result = IF phase = "connect" THEN "dialling" ELSE "upgrading"
  /\ Dialled(phase)
  /\ result' = "next"
  /\ IF walk = "cf"
     THEN /\ timed_out' = timed_out \union {current}
          /\ flags' = [flags EXCEPT !.all_redirects = FALSE]
     ELSE /\ flags' = [flags EXCEPT !.all_redirects = FALSE, ![phase] = TRUE]
          /\ UNCHANGED timed_out
  /\ UNCHANGED queue

Next ==
  \/ NextDomain
  \/ GiveUp
  \/ TcpConnected
  \/ Connected
  \/ Redirect
  \/ Failed
  \/ Missing
  \/ \E phase \in {"connect", "upgrade"} : TimedOut(phase)

Spec == Init /\ [][Next]_vars

-----------------------------------------------------------------------------
Outcomes == {"connected", "redirect", "failed", "dns", "connect", "upgrade"}

TypeOK ==
  /\ walk \in {"cf", "direct"} /\ is_media \in BOOLEAN
  /\ queue \in Seq([domain : Records, forced : BOOLEAN])
  /\ tried \subseteq Records /\ timed_out \subseteq Records
  /\ current \in Records
  /\ flags \in [all_redirects : BOOLEAN, upgrade : BOOLEAN, connect : BOOLEAN]
  /\ proxy \in Proxies
  /\ result \in {"next", "dialling", "upgrading", "connected", "failed"}
  /\ log \in Seq(Records \X Outcomes)

Ended(outcome) == \E i \in 1..Len(log) : log[i][2] = outcome
Dials(r) == Cardinality({i \in 1..Len(log) : log[i][1] = r})
NotFound(r) == \E i \in 1..Len(log) : log[i] = <<r, "dns">>
RanOut(r) == \E i \in 1..Len(log) : log[i] \in {r} \X {"connect", "upgrade"}

(***************************************************************************)
(* "That second attempt is load-bearing": when a walk over the Cloudflare  *)
(* records gives up, each zone's -1 record was dialled once, and its base  *)
(* record twice if the -1 record was not found and the base record never   *)
(* ran out the clock, for media and other DCs alike; without a missing -1  *)
(* record the base record is dialled once.  No record is ever dialled more *)
(* than twice, so the loop ends.                                           *)
(***************************************************************************)
AttemptsPerRecord ==
  /\ \A r \in Records : Dials(r) <= 2
  /\ result = "failed" /\ walk = "cf" =>
       \A z \in ZoneSet :
         /\ Dials(DashOne(z)) = 1
         /\ ~NotFound(DashOne(z)) => Dials(Base(z)) = 1
         /\ NotFound(DashOne(z)) /\ ~RanOut(Base(z)) => Dials(Base(z)) = 2

(***************************************************************************)
(* "The first domain has highest priority": a forced retry comes before    *)
(* the records of the next zone, so the zones are exhausted one by one.  A *)
(* zone listed twice counts where it is listed first.                      *)
(***************************************************************************)
NotAfter(y, z) ==
  \A q \in 1..Len(Zones) : Zones[q] = z => \E p \in 1..q : Zones[p] = y

ZoneByZone ==
  walk = "cf" =>
    \A i, j \in 1..Len(log) :
      i < j => NotAfter(log[i][1].zone, log[j][1].zone)

(***************************************************************************)
(* The flags the ladder backs off on (module Route): a failed walk reports *)
(* all_redirects only when something redirected and nothing failed in      *)
(* another way than by a failed lookup, and a direct walk reports a        *)
(* stalled connect or upgrade exactly when there was one.                  *)
(***************************************************************************)
FlagsTellHow ==
  result = "failed" =>
    /\ flags.all_redirects =>
         Ended("redirect")
           /\ ~Ended("failed") /\ ~Ended("connect") /\ ~Ended("upgrade")
    /\ (\A i \in 1..Len(log) : log[i][2] = "redirect") => flags.all_redirects
    /\ walk = "direct" => /\ flags.connect <=> Ended("connect")
                          /\ flags.upgrade <=> Ended("upgrade")

(* The i-th dial was the forced retry of the record before it.             *)
ForcedRetry(i) ==
  /\ i > 1 /\ log[i - 1][2] = "dns"
  /\ HasBase(log[i - 1][1])
  /\ log[i][1] = base_cf_record(log[i - 1][1])

(***************************************************************************)
(* "Retrying a record that ran out the clock just buys another full        *)
(* connect timeout": a record that timed out is dialled again in one case  *)
(* only, when the dial that timed out was a forced retry and the record's  *)
(* own turn was still to come, which is the base record of a media DC.     *)
(***************************************************************************)
TimedOutNotForced ==
  \A i, j \in 1..Len(log) :
    i < j /\ log[i][1] = log[j][1] /\ log[i][2] \in {"connect", "upgrade"} =>
      ForcedRetry(i) /\ ~ForcedRetry(j) /\ is_media

=============================================================================
