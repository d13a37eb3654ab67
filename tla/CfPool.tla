------------------------------- MODULE CfPool -------------------------------
(***************************************************************************)
(* The two Cloudflare tiers: client connections walking cf_tiers of        *)
(* proxy.rs (Worker first, then proxy), the round-robin counters of        *)
(* --cf-balance, CF_WORKER_FAIL, and the spare connections cf_get and      *)
(* cf_prefetch of pool.rs keep for them in the background.                 *)
(*                                                                         *)
(* Time is abstracted: an idle connection turns stale, by age or because   *)
(* the far end closed it, and a Worker's cooldown ends, at any moment.  A  *)
(* counter is kept modulo the number of domains it rotates over.           *)
(***************************************************************************)
EXTENDS Integers, Sequences

CONSTANTS
  Clients,   \* client connections
  Tasks,     \* slots for spawned refills
  Dcs,       \* the (dc, is_media) pairs in play
  Workers,   \* --cf-worker-domain, a sequence
  Zones,     \* --cf-domain, a sequence
  PoolSize,  \* --pool-size
  CfBalance  \* --cf-balance

ASSUME CfAssumption ==
  /\ PoolSize \in Nat
  /\ CfBalance \in BOOLEAN
  /\ Workers \in Seq(STRING) /\ Zones \in Seq(STRING)

VARIABLES
  cfIdle,      \* WsPool::cf_idle
  cfRefilling, \* WsPool::cf_refilling
  task,        \* the spawned cf_refill tasks
  client,      \* connections inside cf_tiers
  counter,     \* CF_WORKER_BALANCE_COUNTER and CF_BALANCE_COUNTER
  workerFail,  \* CF_WORKER_FAIL: the Workers in cooldown
  answered,    \* history: targets that answered a client's own dial
  lead         \* history: the domain a tier's last rotation started with

vars ==
  <<cfIdle, cfRefilling, task, client, counter, workerFail, answered, lead>>

CfTier == {"worker", "proxy"}
CfKey == CfTier \X Dcs

CF_POOL_MAX == 1
Budget == IF PoolSize < CF_POOL_MAX THEN PoolSize ELSE CF_POOL_MAX

NoName == "none"
Names ==
  {Workers[i] : i \in DOMAIN Workers} \union {Zones[i] : i \in DOMAIN Zones}
    \union {NoName}

Domains(tier) == IF tier = "worker" THEN Workers ELSE Zones

(* What is dialled: a Worker's host, a bare zone, or one of its kws{N}     *)
(* records (cf_ws_domains; kws{N}-1 is not told apart).                    *)
Target == [kind : {"worker", "zone", "record"}, name : Names]

Host(tier, name) ==
  [kind |-> IF tier = "worker" THEN "worker" ELSE "record", name |-> name]

(* An element of Config::cf_worker_domains or Config::cf_domains itself.   *)
Configured(tier, name) ==
  [kind |-> IF tier = "worker" THEN "worker" ELSE "zone", name |-> name]

-----------------------------------------------------------------------------
(* balanced: the domains from the counter's on, wrapping around.           *)

Rotated(domains, idx) ==
  [i \in 1..Len(domains) |-> domains[((idx + i - 1) % Len(domains)) + 1]]

Bumped(tier) ==
  IF Len(Domains(tier)) <= 1 THEN counter
  ELSE [counter EXCEPT ![tier] = (@ + 1) % Len(Domains(tier))]

(* balance_order                                                           *)
Order(tier) ==
  IF CfBalance THEN Rotated(Domains(tier), counter[tier]) ELSE Domains(tier)

Ordered(tier) == IF CfBalance THEN Bumped(tier) ELSE counter

Led(tier) ==
  IF CfBalance THEN [lead EXCEPT ![tier] = Order(tier)[1]] ELSE lead

(* Fault: the spare always goes to the next domain.                        *)
SpareTargetNext(tier, host) == Host(tier, Rotated(Domains(tier), 1)[1])

(* cf_target: off, the host that just answered; on, the head of another    *)
(* rotation of the configured names.                                       *)
SpareTarget(tier, host) ==
  IF CfBalance
  THEN Configured(tier, Rotated(Domains(tier), counter[tier])[1])
  ELSE host

-----------------------------------------------------------------------------
NoTarget == [kind |-> "zone", name |-> NoName]
NoKey == <<>>
FreeTask == [pc |-> "free", key |-> NoKey, target |-> NoTarget]
OutClient == [pc |-> "out", dc |-> NoKey, order |-> <<>>, out |-> NoTarget]

Init ==
  /\ cfIdle = [k \in CfKey |-> <<>>]
  /\ cfRefilling = {}
  /\ task = [t \in Tasks |-> FreeTask]
  /\ client = [c \in Clients |-> OutClient]
  /\ counter = [tier \in CfTier |-> 0]
  /\ workerFail = {}
  /\ answered = {}
  /\ lead = [tier \in CfTier |-> NoName]

(* cf_prefetch                                                             *)
Spawn(key, target) ==
  \E t \in Tasks :
    /\ task[t].pc = "free"
    /\ task' = [task EXCEPT ![t] = [pc |-> "spawned", key |-> key,
                                    target |-> target]]

(* cf_tiers; a tier without domains is left at once.                       *)
Enter(c, dc) ==
  /\ client[c].pc = "out"
  /\ client' = [client EXCEPT ![c] =
       [OutClient EXCEPT !.dc = dc,
                         !.pc = IF Workers = <<>> THEN "proxy" ELSE "worker"]]
  /\ UNCHANGED <<cfIdle, cfRefilling, task, counter, workerFail, answered, lead>>

(* cf_get on a bucket: entries above the last fresh one are discarded; on  *)
(* a hit the replacement is requested through the entry's own domain.      *)
CfHit(c, tier) ==
  LET k == <<tier, client[c].dc>>
  IN \E i \in 1..Len(cfIdle[k]) :
       /\ cfIdle[k][i].fresh
       /\ \A j \in (i + 1)..Len(cfIdle[k]) : ~cfIdle[k][j].fresh
       /\ cfIdle' = [cfIdle EXCEPT ![k] = SubSeq(@, 1, i - 1)]
       /\ Spawn(k, cfIdle[k][i].target)
       /\ client' = [client EXCEPT ![c].pc = "served",
                                   ![c].order = <<>>,
                                   ![c].out = cfIdle[k][i].target]

CfMiss(c, tier) ==
  LET k == <<tier, client[c].dc>>
  IN /\ \A i \in 1..Len(cfIdle[k]) : ~cfIdle[k][i].fresh
     /\ cfIdle' = [cfIdle EXCEPT ![k] = <<>>]

-----------------------------------------------------------------------------
(* cf_worker: the pool is asked before the rotation advances.              *)

WorkerGet(c) ==
  /\ client[c].pc = "worker"
  /\ \/ CfHit(c, "worker") /\ UNCHANGED <<counter, lead>>
     \/ /\ CfMiss(c, "worker")
        /\ client' = [client EXCEPT ![c].pc = "workers",
                                    ![c].order = Order("worker")]
        /\ counter' = Ordered("worker")
        /\ lead' = Led("worker")
        /\ UNCHANGED task
  /\ UNCHANGED <<cfRefilling, workerFail, answered>>

WorkerSkip(c) ==
  /\ client[c].pc = "workers"
  /\ client[c].order # <<>>
  /\ Head(client[c].order) \in workerFail
  /\ client' = [client EXCEPT ![c].order = Tail(@)]
  /\ UNCHANGED <<cfIdle, cfRefilling, task, counter, workerFail, answered, lead>>

WorkerDial(c) ==
  /\ client[c].pc = "workers"
  /\ client[c].order # <<>>
  /\ Head(client[c].order) \notin workerFail
  /\ client' = [client EXCEPT ![c].pc = "workerdial"]
  /\ UNCHANGED <<cfIdle, cfRefilling, task, counter, workerFail, answered, lead>>

(* A dial that worked: the tier's counter moves once more under            *)
(* --cf-balance, and a spare is requested.                                 *)
Answer(c, tier, name) ==
  LET host == Host(tier, name)
  IN /\ answered' = answered \union {host}
     /\ counter' = Ordered(tier)
     /\ Spawn(<<tier, client[c].dc>>, SpareTarget(tier, host))
     /\ client' = [client EXCEPT ![c].pc = "served", ![c].order = <<>>,
                                 ![c].out = host]

WorkerOk(c) ==
  /\ client[c].pc = "workerdial"
  /\ Answer(c, "worker", Head(client[c].order))
  /\ workerFail' = workerFail \ {Head(client[c].order)}
  /\ UNCHANGED <<cfIdle, cfRefilling, lead>>

(* Fault: the cooldown is filed under the DC instead of the Worker.        *)
WorkerFailByDc(c) ==
  /\ client[c].pc = "workerdial"
  /\ workerFail' = workerFail \union {client[c].dc}
  /\ client' = [client EXCEPT ![c].pc = "workers", ![c].order = Tail(@)]
  /\ UNCHANGED <<cfIdle, cfRefilling, task, counter, answered, lead>>

WorkerFail(c) ==
  /\ client[c].pc = "workerdial"
  /\ workerFail' = workerFail \union {Head(client[c].order)}
  /\ client' = [client EXCEPT ![c].pc = "workers", ![c].order = Tail(@)]
  /\ UNCHANGED <<cfIdle, cfRefilling, task, counter, answered, lead>>

WorkersDone(c) ==
  /\ client[c].pc = "workers"
  /\ client[c].order = <<>>
  /\ client' = [client EXCEPT ![c].pc = "proxy"]
  /\ UNCHANGED <<cfIdle, cfRefilling, task, counter, workerFail, answered, lead>>

-----------------------------------------------------------------------------
(* cf_proxy: the rotation advances before the pool is asked, and there is  *)
(* no cooldown.                                                            *)

ProxyOrder(c) ==
  /\ client[c].pc = "proxy"
  /\ IF Zones = <<>>
     THEN /\ client' = [client EXCEPT ![c].pc = "failed"]
          /\ UNCHANGED <<counter, lead>>
     ELSE /\ client' = [client EXCEPT ![c].pc = "proxyget",
                                      ![c].order = Order("proxy")]
          /\ counter' = Ordered("proxy")
          /\ lead' = Led("proxy")
  /\ UNCHANGED <<cfIdle, cfRefilling, task, workerFail, answered>>

ProxyGet(c) ==
  /\ client[c].pc = "proxyget"
  /\ \/ CfHit(c, "proxy")
     \/ /\ CfMiss(c, "proxy")
        /\ client' = [client EXCEPT ![c].pc = "proxydial"]
        /\ UNCHANGED task
  /\ UNCHANGED <<cfRefilling, counter, workerFail, answered, lead>>

(* connect_cf_ws_for_dc: the zones in order until one answers.             *)
ProxyDialFail(c) ==
  /\ client[c].pc = "proxydial"
  /\ client' = [client EXCEPT ![c].order = Tail(@),
                              ![c].pc = IF Len(client[c].order) = 1
                                        THEN "failed" ELSE "proxydial"]
  /\ UNCHANGED <<cfIdle, cfRefilling, task, counter, workerFail, answered, lead>>

ProxyDialOk(c) ==
  /\ client[c].pc = "proxydial"
  /\ Answer(c, "proxy", Head(client[c].order))
  /\ UNCHANGED <<cfIdle, cfRefilling, workerFail, lead>>

Leave(c) ==
  /\ client[c].pc \in {"served", "failed"}
  /\ client' = [client EXCEPT ![c] = OutClient]
  /\ UNCHANGED <<cfIdle, cfRefilling, task, counter, workerFail, answered, lead>>

-----------------------------------------------------------------------------
(* cf_refill                                                               *)

(* Fault: the cf_refilling set is not consulted.                           *)
RegisterUnguarded(t) ==
  /\ task[t].pc = "spawned"
  /\ cfRefilling' = cfRefilling \union {task[t].key}
  /\ task' = [task EXCEPT ![t].pc = "checking"]
  /\ UNCHANGED <<cfIdle, client, counter, workerFail, answered, lead>>

Register(t) ==
  /\ task[t].pc = "spawned"
  /\ IF task[t].key \in cfRefilling
     THEN task' = [task EXCEPT ![t] = FreeTask] /\ UNCHANGED cfRefilling
     ELSE /\ cfRefilling' = cfRefilling \union {task[t].key}
          /\ task' = [task EXCEPT ![t].pc = "checking"]
  /\ UNCHANGED <<cfIdle, client, counter, workerFail, answered, lead>>

Check(t) ==
  /\ task[t].pc = "checking"
  /\ task' = [task EXCEPT ![t].pc = IF Len(cfIdle[task[t].key]) >= Budget
                                    THEN "releasing" ELSE "dialing"]
  /\ UNCHANGED <<cfIdle, cfRefilling, client, counter, workerFail, answered, lead>>

(* cf_connect_one                                                          *)
Connect(t) ==
  /\ task[t].pc = "dialing"
  /\ \E pc \in {"adding", "releasing"} : task' = [task EXCEPT ![t].pc = pc]
  /\ UNCHANGED <<cfIdle, cfRefilling, client, counter, workerFail, answered, lead>>

Add(t) ==
  /\ task[t].pc = "adding"
  /\ LET k == task[t].key
     IN cfIdle' = IF Len(cfIdle[k]) >= Budget THEN cfIdle
                  ELSE [cfIdle EXCEPT ![k] =
                          Append(@, [target |-> task[t].target, fresh |-> TRUE])]
  /\ task' = [task EXCEPT ![t].pc = "releasing"]
  /\ UNCHANGED <<cfRefilling, client, counter, workerFail, answered, lead>>

Release(t) ==
  /\ task[t].pc = "releasing"
  /\ cfRefilling' = cfRefilling \ {task[t].key}
  /\ task' = [task EXCEPT ![t] = FreeTask]
  /\ UNCHANGED <<cfIdle, client, counter, workerFail, answered, lead>>

-----------------------------------------------------------------------------
Stale(k) ==
  /\ \E i \in 1..Len(cfIdle[k]) :
       /\ cfIdle[k][i].fresh
       /\ cfIdle' = [cfIdle EXCEPT ![k][i].fresh = FALSE]
  /\ UNCHANGED <<cfRefilling, task, client, counter, workerFail, answered, lead>>

CooldownEnds ==
  /\ \E w \in workerFail : workerFail' = workerFail \ {w}
  /\ UNCHANGED <<cfIdle, cfRefilling, task, client, counter, answered, lead>>

Walk(c) ==
  \/ \E dc \in Dcs : Enter(c, dc)
  \/ WorkerGet(c) \/ WorkerSkip(c) \/ WorkerDial(c)
  \/ WorkerOk(c) \/ WorkerFail(c) \/ WorkersDone(c)
  \/ ProxyOrder(c) \/ ProxyGet(c) \/ ProxyDialOk(c) \/ ProxyDialFail(c)
  \/ Leave(c)

Refill(t) ==
  Register(t) \/ Check(t) \/ Connect(t) \/ Add(t) \/ Release(t)

Next ==
  \/ \E c \in Clients : Walk(c)
  \/ \E t \in Tasks : Refill(t)
  \/ \E k \in CfKey : Stale(k)
  \/ CooldownEnds

Spec == Init /\ [][Next]_vars

-----------------------------------------------------------------------------
Entry == [target : Target, fresh : BOOLEAN]

TaskState ==
  [pc : {"free", "spawned", "checking", "dialing", "adding", "releasing"},
   key : CfKey \union {NoKey}, target : Target]

ClientState ==
  [pc : {"out", "worker", "workers", "workerdial", "proxy", "proxyget",
         "proxydial", "served", "failed"},
   dc : Dcs \union {NoKey}, order : Seq(Names), out : Target]

TypeOK ==
  /\ cfIdle \in [CfKey -> Seq(Entry)]
  /\ cfRefilling \in SUBSET CfKey
  /\ task \in [Tasks -> TaskState]
  /\ client \in [Clients -> ClientState]
  /\ counter \in [CfTier -> Nat]
  /\ workerFail \in SUBSET {Workers[i] : i \in DOMAIN Workers}
  /\ answered \in SUBSET Target
  /\ lead \in [CfTier -> Names]

(***************************************************************************)
(* A bucket of the Cloudflare pool never has more connections, idle and    *)
(* being opened together, than min(CF_POOL_MAX, pool_size): with           *)
(* --pool-size 0 nothing at all is opened in the background ("which an     *)
(* empty bucket must not talk its way out of").                            *)
(***************************************************************************)
Opening(k) == {t \in Tasks : task[t].key = k /\ task[t].pc \in {"dialing", "adding"}}

CfBudget ==
  \A k \in CfKey :
    /\ Len(cfIdle[k]) <= Budget
    /\ \A t \in Opening(k) : Opening(k) = {t} /\ Len(cfIdle[k]) + 1 <= Budget

(***************************************************************************)
(* cf_prefetch is "deliberately only called off a connection that just     *)
(* worked, so a dead Worker [...] is not dialled again behind the user's   *)
(* back": the background dials only what has answered a client before.     *)
(* True without --cf-balance, with it not.                                 *)
(***************************************************************************)
SparesKnown ==
  \A t \in Tasks : task[t].pc = "dialing" => task[t].target \in answered

(***************************************************************************)
(* connect_cf_record_with_outbound is to "reconnect to a single already-   *)
(* expanded kws{N} Cloudflare record": the proxy tier's refill never dials *)
(* a bare zone.                                                            *)
(***************************************************************************)
RecordExpanded ==
  \A t \in Tasks :
    task[t].pc = "dialing" /\ task[t].key[1] = "proxy"
      => task[t].target.kind = "record"

(***************************************************************************)
(* Fallbacks.md: "--cf-balance distributes connections evenly across all   *)
(* configured CF domains using round-robin selection": of two consecutive  *)
(* connections that take a rotation of a tier with several domains, the    *)
(* second starts with another domain.                                      *)
(***************************************************************************)
TurnsAlternate ==
  [][\A c \in Clients :
       client[c].order = <<>> /\ client'[c].order # <<>> =>
         LET tier == IF client[c].pc = "worker" THEN "worker" ELSE "proxy"
         IN Len(Domains(tier)) > 1 => client'[c].order[1] # lead[tier]]_vars

=============================================================================
