------------------------------- MODULE Check -------------------------------
(***************************************************************************)
(* The connectivity check of check.rs (--check): one probe after the other *)
(* for every Cloudflare domain, every Worker and every upstream MTProto    *)
(* proxy, and one verdict.                                                 *)
(*                                                                         *)
(* What a probe meets at its endpoint is a free choice, made when the      *)
(* probe gets there:                                                       *)
(*   up     does what it is configured for                                 *)
(*   down   no connection, or no upgrade, within the timeout               *)
(*   mute   accepts the connection and never answers                       *)
(*   hollow a Worker that answers 101 and cannot reach Telegram: the       *)
(*          tunnel is closed, or breaks, before the settle time is over    *)
(*   slow   the same, but the close comes after the settle time            *)
(*   talks  a Worker whose far end is not a Telegram DC                    *)
(*   broken an upstream whose configured secret cannot be used             *)
(***************************************************************************)
EXTENDS Integers, Sequences

CONSTANTS
  Workers,     \* cf_worker_domains(), in order
  Upstreams    \* mtproto_proxies, in order, of two kinds

ASSUME CheckAssumption ==
  /\ Workers \in Seq(STRING)
  /\ Upstreams \in Seq([kind : {"plain", "faketls"}, name : STRING])

VARIABLES
  checkPc,     \* "idle", "probe", "settle", then "exit"
  todo,        \* endpoints not probed yet
  seen,        \* history: what each probe met, in order
  allOk,       \* all_ok
  exitCode     \* -1 while the process runs

checkVars == <<checkPc, todo, seen, allOk, exitCode>>

-----------------------------------------------------------------------------
Endpoint(kind, name) == [kind |-> kind, name |-> name]

OfKind(kind, names) == [i \in 1..Len(names) |-> Endpoint(kind, names[i])]

(* The order of run_check_with_outbound.                                   *)
Endpoints(cfDomains) ==
  OfKind("zone", cfDomains) \o OfKind("worker", Workers) \o Upstreams

CheckInit ==
  /\ checkPc = "idle"
  /\ todo = <<>> /\ seen = <<>>
  /\ allOk = TRUE
  /\ exitCode = -1

(* With nothing configured there is nothing to check, and all is well.     *)
CheckStart(cfDomains) ==
  /\ checkPc = "idle"
  /\ todo' = Endpoints(cfDomains)
  /\ checkPc' = "probe"
  /\ UNCHANGED <<seen, allOk, exitCode>>

-----------------------------------------------------------------------------
(* Fault: an endpoint that fails is probed again until it answers.         *)
ReportRetries(met, ok) ==
  /\ seen' = IF ok THEN Append(seen, met) ELSE seen
  /\ todo' = IF ok THEN Tail(todo) ELSE todo
  /\ checkPc' = "probe"
  /\ UNCHANGED <<allOk, exitCode>>

(* A probe has returned: if it is not Ok, all_ok is lost for good.         *)
Report(met, ok) ==
  /\ seen' = Append(seen, met)
  /\ allOk' = (allOk /\ ok)
  /\ todo' = Tail(todo)
  /\ checkPc' = "probe"
  /\ UNCHANGED exitCode

Probing(kinds) == checkPc = "probe" /\ todo # <<>> /\ Head(todo).kind \in kinds

(* kws2.{domain}: the walk of WsConnect over a single domain.              *)
probe_cf_domain ==
  /\ Probing({"zone"})
  /\ \/ Report("up", TRUE)
     \/ Report("down", FALSE)

(* The tunnel, and the init pushed through it.                             *)
WorkerOpen ==
  /\ Probing({"worker"})
  /\ \/ Report("down", FALSE)
     \/ /\ checkPc' = "settle"
        /\ UNCHANGED <<todo, seen, allOk, exitCode>>

(* Silence until WORKER_TUNNEL_SETTLE is the good sign; a Worker that      *)
(* gives up later than that is silent too.                                 *)
WorkerSettle ==
  /\ checkPc = "settle"
  /\ \/ Report("up", TRUE)
     \/ Report("slow", TRUE)
     \/ Report("hollow", FALSE)
     \/ Report("talks", FALSE)

(* A plain upstream answers nothing to a handshake: it is enough that the  *)
(* handshake can be sent.  A FakeTLS one must answer with its ServerHello  *)
(* within the timeout.                                                     *)
probe_mtproto_proxy ==
  /\ Probing({"plain", "faketls"})
  /\ \/ Report("up", TRUE)
     \/ Report("mute", Head(todo).kind = "plain")
     \/ Report("down", FALSE)
     \/ Report("broken", FALSE)

(* std::process::exit                                                      *)
CheckExit ==
  /\ checkPc = "probe" /\ todo = <<>>
  /\ exitCode' = IF allOk THEN 0 ELSE 1
  /\ checkPc' = "exit"
  /\ UNCHANGED <<todo, seen, allOk>>

CheckStep ==
  probe_cf_domain \/ WorkerOpen \/ WorkerSettle \/ probe_mtproto_proxy \/ CheckExit

-----------------------------------------------------------------------------
(* What a probe of each kind takes for healthy.                            *)
Healthy(kind) ==
  CASE kind \in {"zone", "faketls"} -> {"up"}
    [] kind = "worker" -> {"up", "slow"}
    [] kind = "plain" -> {"up", "mute"}

(* The verdict on these endpoints, given what the probes met.              *)
Honest(endpoints) ==
  /\ Len(seen) = Len(endpoints)
  /\ exitCode = IF \A i \in 1..Len(seen) : seen[i] \in Healthy(endpoints[i].kind)
                THEN 0 ELSE 1

=============================================================================
