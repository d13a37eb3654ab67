------------------------------- MODULE Route -------------------------------
(***************************************************************************)
(* The fallback ladder of proxy.rs (select_upstream and Route): concurrent *)
(* client connections walk the tiers while they share the process-wide     *)
(* cooldowns WS_FAIL, IP_FAIL, UPSTREAM_FAIL and FRONTING_FAIL and the     *)
(* sticky fronting window of runtime.rs.                                   *)
(*                                                                         *)
(* A connection runs atomically between two awaits, except where direct_ws *)
(* reads WS_FAIL a second time.  What the network answers, and whether the *)
(* pool or a Cloudflare tier has a connection to give, is a free choice.   *)
(***************************************************************************)
EXTENDS Integers, Sequences

CONSTANTS
  Conns,        \* client connections
  Dcs,          \* data centres clients ask for
  Media,        \* the is_media values in play
  Ips,          \* addresses of --dc-ip
  NoIp,         \* a DC without a --dc-ip entry
  TargetIp,     \* Config::dc_target_ip, a function on Dcs
  BuiltIn,      \* DCs with a built-in address (default_dc_ip)
  CfTiers,      \* the configured Cloudflare tiers
  Upstreams,    \* number of --mtproto-proxy entries
  FakeTls,      \* those whose secret selects FakeTLS
  CfPriority,   \* --cf-priority
  Fronting,     \* --fronting-domain is set
  WsFailCooldown, WsRedirectCooldown, IpFailCooldown, UpstreamFailCooldown,
  FrontingFailCooldown, FrontingCooldown,
  MaxTime       \* bound on the clock

ASSUME ConfigAssumption ==
  /\ Media \subseteq BOOLEAN
  /\ NoIp \notin Ips
  /\ TargetIp \in [Dcs -> Ips \union {NoIp}]
  /\ BuiltIn \subseteq Dcs
  /\ CfTiers \subseteq {"worker", "proxy"}
  /\ Upstreams \in Nat
  /\ FakeTls \subseteq 1..Upstreams
  /\ CfPriority \in BOOLEAN
  /\ Fronting \in BOOLEAN

ASSUME TimeAssumption ==
  /\ {WsFailCooldown, WsRedirectCooldown, IpFailCooldown,
      UpstreamFailCooldown, FrontingFailCooldown, FrontingCooldown}
       \subseteq Nat
  /\ MaxTime \in Nat

VARIABLES
  conn,          \* the connections walking the ladder
  wsFail,        \* WS_FAIL: deadline per (dc, is_media)
  ipFail,        \* IP_FAIL: deadline per address
  upstreamFail,  \* UPSTREAM_FAIL: deadline per upstream
  frontingFail,  \* FRONTING_FAIL: deadline per (dc, is_media)
  frontingUntil, \* Runtime::fronting_until
  now            \* Instant::now()

cooldowns == <<wsFail, ipFail, upstreamFail, frontingFail, frontingUntil>>
vars == <<conn, cooldowns, now>>

Keys == Dcs \X Media

(* A deadline of 0 is an absent entry: CooldownMap::active.                *)
Active(deadline) == now < deadline

HasFallback == CfTiers # {} \/ Upstreams > 0

Target(c) == TargetIp[conn[c].key[1]]

-----------------------------------------------------------------------------
(* WsAttempt: how the domains of one attempt failed.  Redirects counts     *)
(* only when every domain redirected; the timeouts when any domain did.    *)
Attempt == [all_redirects : BOOLEAN, upgrade : BOOLEAN, connect : BOOLEAN]

FailedAttempts ==
  {a \in Attempt : a.all_redirects => ~a.upgrade /\ ~a.connect}

NoAttempt == [all_redirects |-> FALSE, upgrade |-> FALSE, connect |-> FALSE]

(* One connection.  phase says what called the fallback chain, log is the  *)
(* sequence of tiers dialled and skipped the upstreams passed over; both   *)
(* are history, kept for the properties.                                   *)
NewConn(k) ==
  [pc |-> "start", key |-> k, phase |-> "none", cooling |-> FALSE,
   sticky |-> FALSE, probing |-> FALSE, short |-> FALSE,
   attempt |-> NoAttempt, up |-> 1, log |-> <<>>, skipped |-> {},
   out |-> "none"]

Idle == [NewConn(<<>>) EXCEPT !.pc = "idle"]

Init ==
  /\ conn = [c \in Conns |-> Idle]
  /\ wsFail = [k \in Keys |-> 0]
  /\ ipFail = [ip \in Ips |-> 0]
  /\ upstreamFail = [u \in 1..Upstreams |-> 0]
  /\ frontingFail = [k \in Keys |-> 0]
  /\ frontingUntil = 0
  /\ now = 0

-----------------------------------------------------------------------------
At(c, pc) == conn[c].pc = pc

Goto(c, pc) == conn' = [conn EXCEPT ![c].pc = pc]

Routed(c, out) == [conn[c] EXCEPT !.pc = "routed", !.out = out]

Dialled(c, tier) == [conn[c] EXCEPT !.log = Append(@, tier)]

(* The head of fallback_chain.                                             *)
EnterChain(r, phase, skip_cf) ==
  [r EXCEPT !.phase = phase, !.up = 1,
            !.pc = IF skip_cf THEN "upstream" ELSE "worker"]

Arrive(c, k) ==
  /\ At(c, "idle")
  /\ conn' = [conn EXCEPT ![c] = NewConn(k)]
  /\ UNCHANGED <<cooldowns, now>>

(* The entry of select_upstream.                                           *)
Start(c) ==
  /\ At(c, "start")
  /\ conn' = [conn EXCEPT ![c] =
       CASE Target(c) = NoIp /\ @.key[1] \notin BuiltIn -> Routed(c, "none")
         [] Target(c) = NoIp /\ @.key[1] \in BuiltIn ->
              EnterChain(@, "nodirect", FALSE)
         [] Target(c) # NoIp /\ CfPriority -> EnterChain(@, "priority", FALSE)
         [] OTHER -> [@ EXCEPT !.pc = "ipcheck"]]
  /\ UNCHANGED <<cooldowns, now>>

-----------------------------------------------------------------------------
(* cf_tiers, seen from here: each tier, if configured, answers or fails.   *)

Worker(c) ==
  /\ At(c, "worker")
  /\ \/ /\ "worker" \notin CfTiers
        /\ Goto(c, "proxy")
     \/ /\ "worker" \in CfTiers
        /\ \/ conn' = [conn EXCEPT ![c] = [Dialled(c, <<"worker", 0>>) EXCEPT !.pc = "proxy"]]
           \/ conn' = [conn EXCEPT ![c] =
                [Dialled(c, <<"worker", 0>>) EXCEPT !.pc = "routed", !.out = "tunnel"]]
  /\ UNCHANGED <<cooldowns, now>>

AfterCf(c) == IF conn[c].phase = "priority" THEN "ipcheck" ELSE "upstream"

Proxy(c) ==
  /\ At(c, "proxy")
  /\ \/ /\ "proxy" \notin CfTiers
        /\ Goto(c, AfterCf(c))
     \/ /\ "proxy" \in CfTiers
        /\ \/ conn' = [conn EXCEPT ![c] = [Dialled(c, <<"proxy", 0>>) EXCEPT !.pc = AfterCf(c)]]
           \/ conn' = [conn EXCEPT ![c] =
                [Dialled(c, <<"proxy", 0>>) EXCEPT !.pc = "routed", !.out = "packets"]]
  /\ UNCHANGED <<cooldowns, now>>

-----------------------------------------------------------------------------
(* upstream_proxies: the entries in order, the ones in cooldown skipped.   *)

(* Fault: the loop does not advance past an upstream in cooldown.          *)
UpstreamSkipStuck(c) ==
  /\ At(c, "upstream")
  /\ conn[c].up <= Upstreams
  /\ Active(upstreamFail[conn[c].up])
  /\ conn' = [conn EXCEPT ![c].skipped = @ \union {<<"upstream", conn[c].up>>}]
  /\ UNCHANGED <<cooldowns, now>>

UpstreamSkip(c) ==
  /\ At(c, "upstream")
  /\ conn[c].up <= Upstreams
  /\ Active(upstreamFail[conn[c].up])
  /\ conn' = [conn EXCEPT ![c].up = @ + 1,
                          ![c].skipped = @ \union {<<"upstream", conn[c].up>>}]
  /\ UNCHANGED <<cooldowns, now>>

UpstreamDial(c) ==
  /\ At(c, "upstream")
  /\ conn[c].up <= Upstreams
  /\ ~Active(upstreamFail[conn[c].up])
  /\ conn' = [conn EXCEPT ![c] = [Dialled(c, <<"upstream", conn[c].up>>) EXCEPT !.pc = "updial"]]
  /\ UNCHANGED <<cooldowns, now>>

UpstreamOk(c) ==
  /\ conn' = [conn EXCEPT ![c] = Routed(c, "mtproto")]
  /\ upstreamFail' = [upstreamFail EXCEPT ![conn[c].up] = 0]
  /\ UNCHANGED <<wsFail, ipFail, frontingFail, frontingUntil, now>>

UpstreamFailed(c) ==
  /\ conn' = [conn EXCEPT ![c].pc = "upstream", ![c].up = @ + 1]
  /\ upstreamFail' = [upstreamFail EXCEPT ![conn[c].up] =
                        now + UpstreamFailCooldown]
  /\ UNCHANGED <<wsFail, ipFail, frontingFail, frontingUntil, now>>

(* connect_mtproto_upstream: the TCP connect is under a timeout; a FakeTLS *)
(* upstream then has to answer the ClientHello.                            *)
UpstreamTcp(c) ==
  /\ At(c, "updial")
  /\ \/ UpstreamFailed(c)
     \/ /\ conn[c].up \notin FakeTls
        /\ UpstreamOk(c)
     \/ /\ conn[c].up \in FakeTls
        /\ Goto(c, "hello")
        /\ UNCHANGED <<cooldowns, now>>

UpstreamHello(c) ==
  /\ At(c, "hello")
  /\ UpstreamOk(c) \/ UpstreamFailed(c)

(* Every tier of the chain failed or was skipped: back to its caller.      *)
ChainFailed(c) ==
  /\ At(c, "upstream")
  /\ conn[c].up > Upstreams
  /\ conn' = [conn EXCEPT ![c] = IF @.phase = "cooling"
                                 THEN [@ EXCEPT !.pc = "pool"]
                                 ELSE Routed(c, "tcp")]
  /\ UNCHANGED <<cooldowns, now>>

-----------------------------------------------------------------------------
(* The direct tier.                                                        *)

(* Fault: the stepped-over address skips the Cloudflare tiers as well.     *)
IpCheckSkipsCf(c) ==
  /\ At(c, "ipcheck")
  /\ LET cooling == Active(ipFail[Target(c)]) /\ HasFallback
         r == [conn[c] EXCEPT !.cooling = cooling]
     IN conn' = [conn EXCEPT ![c] =
                   IF cooling THEN EnterChain(r, "cooling", TRUE)
                   ELSE [r EXCEPT !.pc = "pool"]]
  /\ UNCHANGED <<cooldowns, now>>

IpCheck(c) ==
  /\ At(c, "ipcheck")
  /\ LET cooling == Active(ipFail[Target(c)]) /\ HasFallback
         r == [conn[c] EXCEPT !.cooling = cooling]
     IN conn' = [conn EXCEPT ![c] =
                   IF cooling THEN EnterChain(r, "cooling", CfPriority)
                   ELSE [r EXCEPT !.pc = "pool"]]
  /\ UNCHANGED <<cooldowns, now>>

(* pool.get, module WsPool; here it hits or misses.                        *)
PoolGet(c) ==
  /\ At(c, "pool")
  /\ \/ conn' = [conn EXCEPT ![c] =
          [Dialled(c, <<"direct", 0>>) EXCEPT !.pc = "routed", !.out = "packets"]]
     \/ Goto(c, "direct")
  /\ UNCHANGED <<cooldowns, now>>

(* The local variables of direct_ws end with it.                           *)
Returned(r) == [r EXCEPT !.sticky = FALSE, !.probing = FALSE, !.short = FALSE]

(* direct_ws up to the call of connect_ws.                                 *)
Direct(c) ==
  /\ At(c, "direct")
  /\ conn' = [conn EXCEPT ![c] =
       [Dialled(c, <<"direct", 0>>) EXCEPT
          !.pc = "timeout",
          !.sticky = Fronting /\ Active(frontingUntil),
          !.probing = Active(wsFail[conn[c].key])]]
  /\ UNCHANGED <<cooldowns, now>>

(* connect_ws picks its timeout from WS_FAIL as it is now.                 *)
ConnectWs(c) ==
  /\ At(c, "timeout")
  /\ conn' = [conn EXCEPT ![c].pc = "dialing",
                          ![c].short = Active(wsFail[conn[c].key])]
  /\ UNCHANGED <<cooldowns, now>>

(* on_fronting_success                                                     *)
FrontingSuccess(c) ==
  /\ conn' = [conn EXCEPT ![c] = Returned(Routed(c, "packets"))]
  /\ frontingFail' = [frontingFail EXCEPT ![conn[c].key] = 0]
  /\ frontingUntil' = now + FrontingCooldown
  /\ UNCHANGED <<wsFail, ipFail, upstreamFail, now>>

DirectOk(c) ==
  /\ At(c, "dialing")
  /\ ~conn[c].sticky
  /\ conn' = [conn EXCEPT ![c] = Returned(Routed(c, "packets"))]
  /\ wsFail' = [wsFail EXCEPT ![conn[c].key] = 0]
  /\ ipFail' = [ipFail EXCEPT ![Target(c)] = 0]
  /\ UNCHANGED <<upstreamFail, frontingFail, frontingUntil, now>>

StickyOk(c) ==
  /\ At(c, "dialing")
  /\ conn[c].sticky
  /\ FrontingSuccess(c)

(* Fault: the window is ended by moving its deadline into the past.        *)
StickyFailRewinds(c) ==
  /\ At(c, "dialing")
  /\ conn[c].sticky
  /\ \E a \in FailedAttempts :
       conn' = [conn EXCEPT ![c].pc = "cool", ![c].attempt = a]
  /\ frontingUntil' = now - 1
  /\ frontingFail' = [frontingFail EXCEPT ![conn[c].key] =
                        now + FrontingFailCooldown]
  /\ UNCHANGED <<wsFail, ipFail, upstreamFail, now>>

StickyFail(c) ==
  /\ At(c, "dialing")
  /\ conn[c].sticky
  /\ \E a \in FailedAttempts :
       conn' = [conn EXCEPT ![c].pc = "cool", ![c].attempt = a]
  /\ frontingUntil' = 0
  /\ frontingFail' = [frontingFail EXCEPT ![conn[c].key] =
                        now + FrontingFailCooldown]
  /\ UNCHANGED <<wsFail, ipFail, upstreamFail, now>>

(* A failed plain attempt, up to the decision of reactive_fronting.        *)
DirectFail(c) ==
  /\ At(c, "dialing")
  /\ ~conn[c].sticky
  /\ \E a \in FailedAttempts :
       LET retry == a.upgrade /\ ~Active(frontingFail[conn[c].key]) /\ Fronting
       IN conn' = [conn EXCEPT ![c].attempt = a,
                               ![c].pc = IF retry THEN "fronting" ELSE "cool"]
  /\ UNCHANGED <<cooldowns, now>>

(* The one fronted retry of reactive_fronting.                             *)
ReactiveFronting(c) ==
  /\ At(c, "fronting")
  /\ \/ FrontingSuccess(c)
     \/ /\ Goto(c, "cool")
        /\ frontingFail' = [frontingFail EXCEPT ![conn[c].key] =
                              now + FrontingFailCooldown]
        /\ UNCHANGED <<wsFail, ipFail, upstreamFail, frontingUntil, now>>

(* Fault: a re-probed address that fails walks the chain a second time.    *)
AfterDirectTwice(c) == EnterChain(conn[c], "late", CfPriority)

(* What select_upstream does once direct_ws returned None.                 *)
AfterDirect(c) ==
  IF conn[c].cooling THEN Routed(c, "tcp")
                     ELSE EnterChain(conn[c], "late", CfPriority)

(* cool_down_ws and cool_down_ip, the end of direct_ws.                    *)
CoolDown(c) ==
  /\ At(c, "cool")
  /\ LET a == conn[c].attempt
     IN /\ wsFail' = [wsFail EXCEPT ![conn[c].key] =
              now + IF a.all_redirects THEN WsRedirectCooldown
                                       ELSE WsFailCooldown]
        /\ ipFail' = IF a.connect /\ ~conn[c].probing
                     THEN [ipFail EXCEPT ![Target(c)] = now + IpFailCooldown]
                     ELSE ipFail
  /\ conn' = [conn EXCEPT ![c] = Returned(AfterDirect(c))]
  /\ UNCHANGED <<upstreamFail, frontingFail, frontingUntil, now>>

-----------------------------------------------------------------------------
(* The bridge takes over and the client slot becomes free.                 *)
Leave(c) ==
  /\ At(c, "routed")
  /\ conn' = [conn EXCEPT ![c] = Idle]
  /\ UNCHANGED <<cooldowns, now>>

Tick ==
  /\ now < MaxTime
  /\ now' = now + 1
  /\ UNCHANGED <<conn, cooldowns>>

(* The steps a connection takes by itself: code between awaits, and dials  *)
(* that end with an answer or their timeout.                               *)
Walk(c) ==
  \/ Start(c) \/ Worker(c) \/ Proxy(c)
  \/ UpstreamSkip(c) \/ UpstreamDial(c) \/ UpstreamTcp(c) \/ ChainFailed(c)
  \/ IpCheck(c) \/ PoolGet(c) \/ Direct(c) \/ ConnectWs(c)
  \/ DirectOk(c) \/ DirectFail(c) \/ StickyOk(c) \/ StickyFail(c)
  \/ ReactiveFronting(c) \/ CoolDown(c)

Next ==
  \/ \E c \in Conns :
       \/ \E k \in Keys : Arrive(c, k)
       \/ Walk(c)
       \/ UpstreamHello(c)
       \/ Leave(c)
  \/ Tick

Spec == Init /\ [][Next]_vars

(***************************************************************************)
(* Every dial but one is under a timeout, so a connection keeps walking.   *)
(* The exception is drain_faketls_server_hello: nothing bounds the wait    *)
(* for a FakeTLS upstream's records, so UpstreamHello has no fairness.     *)
(***************************************************************************)
FairSpec == Spec /\ \A c \in Conns : WF_vars(Walk(c))

-----------------------------------------------------------------------------
(* Every tier of this configuration that a connection may be sent through. *)
TiersOf(dc) ==
  (CfTiers \X {0}) \union ({"upstream"} \X (1..Upstreams))
    \union (IF TargetIp[dc] = NoIp THEN {} ELSE {<<"direct", 0>>})

Tiers == UNION {TiersOf(dc) : dc \in Dcs}

ConnState ==
  [pc : {"idle", "start", "worker", "proxy", "upstream", "updial", "hello",
         "ipcheck", "pool", "direct", "timeout", "dialing", "fronting",
         "cool", "routed"},
   key : Keys \union {<<>>},
   phase : {"none", "nodirect", "priority", "cooling", "late"},
   cooling : BOOLEAN, sticky : BOOLEAN, probing : BOOLEAN, short : BOOLEAN,
   attempt : Attempt, up : 1..(Upstreams + 1), log : Seq(Tiers),
   skipped : SUBSET Tiers,
   out : {"none", "tunnel", "packets", "mtproto", "tcp"}]

TypeOK ==
  /\ conn \in [Conns -> ConnState]
  /\ wsFail \in [Keys -> Nat]
  /\ ipFail \in [Ips -> Nat]
  /\ upstreamFail \in [1..Upstreams -> Nat]
  /\ frontingFail \in [Keys -> Nat]
  /\ frontingUntil \in Nat
  /\ now \in Nat

(* Position of a tier in the ladder of Fallbacks.md: direct first, after   *)
(* the Cloudflare tiers with --cf-priority, last for an address that is    *)
(* stepped over.                                                           *)
Rank(tier, cooling) ==
  CASE tier[1] = "worker"   -> 2
    [] tier[1] = "proxy"    -> 4
    [] tier[1] = "upstream" -> 4 + 2 * tier[2]
    [] tier[1] = "direct"   -> IF cooling THEN 2 * Upstreams + 5
                               ELSE IF CfPriority THEN 5 ELSE 1

(* The tiers a connection has dialled or stepped over.                     *)
Passed(r) == {r.log[i] : i \in 1..Len(r.log)} \union r.skipped

(* How a connection goes through a tier: the variants of Upstream.         *)
Way(tier) ==
  CASE tier[1] = "worker"   -> "tunnel"
    [] tier[1] = "upstream" -> "mtproto"
    [] OTHER                -> "packets"

(* Only an upstream in cooldown is passed without being dialled.           *)
IsUpstream(tier) == tier[1] = "upstream"

(* The abstract ladder: what is left to a connection is what its log and   *)
(* the skipped upstreams leave over.                                       *)
LeftOf(r) == IF r.pc = "idle" THEN {} ELSE TiersOf(r.key[1]) \ Passed(r)

TryingOf(r) == IF r.log = <<>> THEN <<>> ELSE r.log[Len(r.log)]

DecisionOf(r) ==
  IF r.pc = "idle" THEN "idle"
  ELSE IF r.pc = "routed" /\ r.out = "none" THEN "refused" ELSE r.out

Abstract == INSTANCE Ladder WITH
  Ladders <- {TiersOf(dc) : dc \in Dcs},
  Skippable <- IsUpstream,
  left <- [c \in Conns |-> LeftOf(conn[c])],
  trying <- [c \in Conns |-> TryingOf(conn[c])],
  putOff <- [c \in Conns |-> conn[c].cooling],
  decision <- [c \in Conns |-> DecisionOf(conn[c])]

(***************************************************************************)
(* Each connection, seen alone, is the ladder of module Ladder: whatever   *)
(* the others do to the shared cooldowns and to the fronting window, every *)
(* step it takes passes the next tier in rank, settles on the tier dialled *)
(* last, or is invisible; the direct tier is put off at most once, and raw *)
(* TCP and the refusal come only where the ladder has them.                *)
(***************************************************************************)
ImplementsLadder == Abstract!Spec

(***************************************************************************)
(* Wherever a connection is in the ladder it gets out of it with a         *)
(* decision, whatever is configured and whatever the others do to the      *)
(* cooldowns; the only step it can be held at is the wait for a FakeTLS    *)
(* upstream's ServerHello.                                                 *)
(***************************************************************************)
HeldOnlyByHello ==
  \A c \in Conns : []<>(conn[c].pc \in {"idle", "routed", "hello"})

(***************************************************************************)
(* Fallbacks.md: "Every client connection is routed through the first tier *)
(* that works", and an upstream that fails "enters a 60-second cooldown so *)
(* subsequent connections skip it without delay".  A connection that       *)
(* entered the ladder leaves it with a decision, the wait for a FakeTLS    *)
(* upstream included.                                                      *)
(***************************************************************************)
EventuallyRouted ==
  \A c \in Conns : conn[c].pc = "start" ~> conn[c].pc = "routed"

(***************************************************************************)
(* Fallbacks.md on --ip-fail-cooldown: "only a timeout [...] and only at   *)
(* the full connect timeout (not the short probe a DC in cooldown gets)".  *)
(***************************************************************************)
IpCooledAtFullTimeout ==
  [][\A c \in Conns :
       At(c, "cool") /\ conn'[c].pc # "cool" /\ ipFail' # ipFail
         => ~conn[c].short]_vars

=============================================================================
