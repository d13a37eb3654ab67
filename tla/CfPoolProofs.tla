---------------------------- MODULE CfPoolProofs ----------------------------
(***************************************************************************)
(* Proofs about CfPool for every set of clients, tasks and DCs, every list *)
(* of Workers and zones, with and without balancing, and every pool_size,  *)
(* zero included: type correctness, the budget of the spares and, without   *)
(* balancing, that a spare is dialled only where a connection has answered. *)
(***************************************************************************)
EXTENDS CfPool, SequenceTheorems, TLAPS

WorkerSet == {Workers[i] : i \in DOMAIN Workers}

(* A connection inside the tiers has a DC; one that is about to dial has a *)
(* domain to dial, and on the Worker tier it is a Worker.                  *)
ClientOK(r) ==
  /\ r.pc # "out" => r.dc \in Dcs
  /\ r.pc = "worker" => Workers # <<>>
  /\ r.pc \in {"workers", "workerdial"} => r.order \in Seq(WorkerSet)
  /\ r.pc \in {"workerdial", "proxyget", "proxydial"} => r.order # <<>>
  /\ r.pc \in {"proxyget", "proxydial"} => Zones # <<>>

ClientsOK(cl) ==
  /\ cl \in [Clients -> ClientState]
  /\ \A c \in Clients : ClientOK(cl[c])

WellFormed ==
  /\ TypeOK
  /\ ClientsOK(client)
  /\ \A t \in Tasks : task[t].pc # "free" => task[t].key \in CfKey

Inside(t) == task[t].pc \in {"checking", "dialing", "adding", "releasing"}

(* One refill of a bucket at a time is past its registration.              *)
OneRefill ==
  /\ \A t \in Tasks : Inside(t) => task[t].key \in cfRefilling
  /\ \A t, u \in Tasks :
       Inside(t) /\ Inside(u) /\ task[t].key = task[u].key => t = u

(* A bucket has room for the spare being opened.                           *)
RoomKept ==
  /\ \A k \in CfKey : Len(cfIdle[k]) <= Budget
  /\ \A t \in Tasks :
       task[t].pc \in {"dialing", "adding"} =>
         Len(cfIdle[task[t].key]) + 1 <= Budget

IInv == WellFormed /\ OneRefill /\ RoomKept

-----------------------------------------------------------------------------
(* Facts about the domain lists. *)

(* The budget is a number, whatever pool_size is.                          *)
LEMMA BudgetFacts == Budget \in Nat
  BY CfAssumption DEF Budget, CF_POOL_MAX

(* balanced returns as many domains as it is given, and no other ones.     *)
LEMMA RotatedFacts ==
  ASSUME NEW S, NEW domains \in Seq(S), NEW idx \in Nat
  PROVE  Rotated(domains, idx) \in Seq(S)
           /\ Len(Rotated(domains, idx)) = Len(domains)
<1> DEFINE n == Len(domains)
           at(i) == ((idx + i - 1) % n) + 1
<1>1. n \in Nat
  OBVIOUS
<1>2. ASSUME NEW i \in 1..n PROVE domains[at(i)] \in S
  <2>1. n > 0 /\ idx + i - 1 \in Nat
    BY <1>1, <1>2
  <2>2. (idx + i - 1) % n \in 0..(n - 1)
    BY <1>1, <2>1
  <2>3. at(i) \in 1..n
    BY <1>1, <2>2
  <2>4. QED
    BY <2>3
<1>3. [i \in 1..n |-> domains[at(i)]] \in Seq(S)
        /\ Len([i \in 1..n |-> domains[at(i)]]) = n
  <2> HIDE DEF at
  <2>1. QED
    BY <1>1, <1>2
<1>4. QED
  BY <1>3 DEF Rotated

(* The configured lists are lists of names.                                *)
LEMMA NamesFacts ==
  /\ Workers \in Seq(WorkerSet) /\ WorkerSet \subseteq Names
  /\ Workers \in Seq(Names) /\ Zones \in Seq(Names)
<1>1. Workers \in Seq(STRING) /\ Zones \in Seq(STRING)
  BY CfAssumption
<1>2. \A i \in 1..Len(Workers) : Workers[i] \in WorkerSet
  BY <1>1 DEF WorkerSet
<1>3. WorkerSet \subseteq Names
  BY DEF WorkerSet, Names
<1>4. \A i \in 1..Len(Zones) : Zones[i] \in Names
  BY <1>1 DEF Names
<1>5. QED
  BY <1>1, <1>2, <1>3, <1>4, IsASeq

(* balance_order: a list of the tier's own domains, and a counter that     *)
(* stays a number.                                                         *)
LEMMA OrderFacts ==
  ASSUME TypeOK, NEW tier \in CfTier
  PROVE  /\ Order(tier) \in Seq(Names)
         /\ Len(Order(tier)) = Len(Domains(tier))
         /\ tier = "worker" => Order(tier) \in Seq(WorkerSet)
         /\ Ordered(tier) \in [CfTier -> Nat]
         /\ Domains(tier) # <<>> => Led(tier) \in [CfTier -> Names]
<1>1. Domains(tier) \in Seq(Names) /\ counter[tier] \in Nat
  BY NamesFacts DEF Domains, TypeOK
<1>2. Order(tier) \in Seq(Names) /\ Len(Order(tier)) = Len(Domains(tier))
  BY <1>1, RotatedFacts DEF Order
<1>3. ASSUME tier = "worker" PROVE Order(tier) \in Seq(WorkerSet)
  BY <1>1, <1>3, NamesFacts, RotatedFacts DEF Order, Domains
<1>4. Ordered(tier) \in [CfTier -> Nat]
  <2> DEFINE n == Len(Domains(tier))
             m == (counter[tier] + 1) % n
  <2>1. n \in Nat
    BY <1>1
  <2>2. n > 1 => m \in Nat
    BY <1>1, <2>1
  <2>3. Bumped(tier) = IF n <= 1 THEN counter ELSE [counter EXCEPT ![tier] = m]
    BY DEF Bumped, TypeOK
  <2> HIDE DEF m
  <2>4. QED
    BY <2>1, <2>2, <2>3 DEF Ordered, TypeOK
<1>5. ASSUME Domains(tier) # <<>> PROVE Led(tier) \in [CfTier -> Names]
  <2>1. Order(tier)[1] \in Names
    BY <1>1, <1>2, <1>5
  <2>2. QED
    BY <2>1 DEF Led, TypeOK
<1>6. QED
  BY <1>2, <1>3, <1>4, <1>5

(* cf_target names something that can be dialled.                          *)
LEMMA SpareFacts ==
  ASSUME TypeOK, NEW tier \in CfTier, Domains(tier) # <<>>, NEW host \in Target
  PROVE  SpareTarget(tier, host) \in Target
<1>1. Domains(tier) \in Seq(Names) /\ counter[tier] \in Nat
  BY NamesFacts DEF Domains, TypeOK
<1>2. Rotated(Domains(tier), counter[tier])[1] \in Names
  BY <1>1, RotatedFacts
<1>3. QED
  BY <1>2 DEF SpareTarget, Configured, Target

(* What starting refills and taking from buckets leaves alone.             *)
Quiet ==
  /\ cfRefilling' = cfRefilling
  /\ \A t \in Tasks :
       task'[t] = task[t] \/ (task[t].pc = "free" /\ task'[t].pc = "spawned")
  /\ \A k \in CfKey : Len(cfIdle'[k]) <= Len(cfIdle[k])

TasksOK(tk) ==
  /\ tk \in [Tasks -> TaskState]
  /\ \A t \in Tasks : tk[t].pc # "free" => tk[t].key \in CfKey

(* cf_prefetch starts a refill in a free slot.                             *)
LEMMA SpawnFacts ==
  ASSUME WellFormed, NEW key \in CfKey, NEW target \in Target,
         Spawn(key, target)
  PROVE  /\ TasksOK(task')
         /\ \A t \in Tasks : task'[t] = task[t]
              \/ (task[t].pc = "free" /\ task'[t].pc = "spawned")
<1>1. PICK t \in Tasks :
        /\ task[t].pc = "free"
        /\ task' = [task EXCEPT ![t] = [pc |-> "spawned", key |-> key,
                                        target |-> target]]
  BY DEF Spawn
<1>2. [pc |-> "spawned", key |-> key, target |-> target] \in TaskState
  BY DEF TaskState
<1>3. QED
  BY <1>1, <1>2 DEF WellFormed, TypeOK, TasksOK

(* A connection that was handed a stream.                                  *)
LEMMA ServedFacts ==
  ASSUME WellFormed, NEW c \in Clients, client[c].pc # "out", NEW out \in Target,
         client' = [client EXCEPT ![c].pc = "served", ![c].order = <<>>,
                                  ![c].out = out]
  PROVE  ClientsOK(client')
<1>1. <<>> \in Seq(Names)
  OBVIOUS
<1>2. client' \in [Clients -> ClientState]
  BY <1>1 DEF WellFormed, TypeOK, ClientState
<1>3. ASSUME NEW d \in Clients PROVE ClientOK(client'[d])
  BY <1>3 DEF WellFormed, TypeOK, ClientState, ClientsOK, ClientOK
<1>4. QED
  BY <1>2, <1>3 DEF ClientsOK

-----------------------------------------------------------------------------
(* The walk through the tiers. *)

(* cf_get: a hit takes from the bucket, hands a connection over and starts *)
(* the replacement.                                                        *)
LEMMA HitFacts ==
  ASSUME WellFormed, NEW c \in Clients, NEW tier \in CfTier,
         client[c].pc # "out", CfHit(c, tier)
  PROVE  /\ cfIdle' \in [CfKey -> Seq(Entry)]
         /\ \A k \in CfKey : Len(cfIdle'[k]) <= Len(cfIdle[k])
         /\ TasksOK(task')
         /\ \A t \in Tasks : task'[t] = task[t]
              \/ (task[t].pc = "free" /\ task'[t].pc = "spawned")
         /\ ClientsOK(client')
<1> DEFINE k == <<tier, client[c].dc>>
<1>1. k \in CfKey
  BY DEF WellFormed, ClientsOK, ClientOK, CfKey
<1>2. cfIdle[k] \in Seq(Entry)
  BY <1>1 DEF WellFormed, TypeOK
<1>3. PICK i \in 1..Len(cfIdle[k]) :
        /\ cfIdle' = [cfIdle EXCEPT ![k] = SubSeq(@, 1, i - 1)]
        /\ Spawn(k, cfIdle[k][i].target)
        /\ client' = [client EXCEPT ![c].pc = "served", ![c].order = <<>>,
                                    ![c].out = cfIdle[k][i].target]
  BY DEF CfHit
<1>4. cfIdle[k][i].target \in Target
  <2>1. cfIdle[k][i] \in Entry
    BY <1>2
  <2>2. QED
    BY <2>1 DEF Entry
<1>5. SubSeq(cfIdle[k], 1, i - 1) \in Seq(Entry)
        /\ Len(SubSeq(cfIdle[k], 1, i - 1)) = i - 1
  BY <1>2, SubSeqProperties
<1>6. cfIdle' = [cfIdle EXCEPT ![k] = SubSeq(cfIdle[k], 1, i - 1)]
  BY <1>3
<1>7. cfIdle' \in [CfKey -> Seq(Entry)]
  BY <1>5, <1>6 DEF WellFormed, TypeOK
<1>8. ASSUME NEW j \in CfKey PROVE Len(cfIdle'[j]) <= Len(cfIdle[j])
  <2>1. CASE j = k
    BY <1>1, <1>2, <1>5, <1>6, <2>1 DEF WellFormed, TypeOK
  <2>2. CASE j # k
    <3>1. cfIdle'[j] = cfIdle[j] /\ cfIdle[j] \in Seq(Entry)
      BY <1>6, <2>2 DEF WellFormed, TypeOK
    <3>2. QED
      BY <3>1
  <2>3. QED
    BY <2>1, <2>2
<1>9. TasksOK(task') /\ \A t \in Tasks : task'[t] = task[t]
        \/ (task[t].pc = "free" /\ task'[t].pc = "spawned")
  BY <1>1, <1>3, <1>4, SpawnFacts
<1>10. ClientsOK(client')
  BY <1>3, <1>4, ServedFacts
<1>11. QED
  BY <1>7, <1>8, <1>9, <1>10

(* cf_get: a miss leaves the bucket empty.                                 *)
LEMMA MissFacts ==
  ASSUME WellFormed, NEW c \in Clients, NEW tier \in CfTier,
         client[c].pc # "out", CfMiss(c, tier)
  PROVE  /\ cfIdle' \in [CfKey -> Seq(Entry)]
         /\ \A k \in CfKey : Len(cfIdle'[k]) <= Len(cfIdle[k])
<1> DEFINE k == <<tier, client[c].dc>>
<1>1. k \in CfKey
  BY DEF WellFormed, ClientsOK, ClientOK, CfKey
<1>2. cfIdle' = [cfIdle EXCEPT ![k] = <<>>]
  BY DEF CfMiss
<1>3. cfIdle' \in [CfKey -> Seq(Entry)]
  BY <1>2, EmptySeq DEF WellFormed, TypeOK
<1>4. ASSUME NEW j \in CfKey PROVE Len(cfIdle'[j]) <= Len(cfIdle[j])
  <2>1. cfIdle[j] \in Seq(Entry) /\ cfIdle'[j] = IF j = k THEN <<>> ELSE cfIdle[j]
    BY <1>1, <1>2 DEF WellFormed, TypeOK
  <2>2. QED
    BY <2>1
<1>5. QED
  BY <1>3, <1>4

(* A dial that worked.                                                     *)
LEMMA AnswerFacts ==
  ASSUME WellFormed, NEW c \in Clients, NEW tier \in CfTier, NEW name \in Names,
         client[c].pc # "out", Domains(tier) # <<>>, Answer(c, tier, name)
  PROVE  /\ answered' \in SUBSET Target
         /\ counter' \in [CfTier -> Nat]
         /\ TasksOK(task')
         /\ \A t \in Tasks : task'[t] = task[t]
              \/ (task[t].pc = "free" /\ task'[t].pc = "spawned")
         /\ ClientsOK(client')
<1> DEFINE host == Host(tier, name)
<1>1. host \in Target
  BY DEF Host, Target
<1>2. client[c].dc \in Dcs /\ TypeOK
  BY DEF WellFormed, ClientsOK, ClientOK
<1>3. <<tier, client[c].dc>> \in CfKey
  BY <1>2 DEF CfKey
<1>4. SpareTarget(tier, host) \in Target
  BY <1>1, <1>2, SpareFacts
<1> HIDE DEF host
<1>5. /\ answered' = answered \union {host}
      /\ counter' = Ordered(tier)
      /\ Spawn(<<tier, client[c].dc>>, SpareTarget(tier, host))
      /\ client' = [client EXCEPT ![c].pc = "served", ![c].order = <<>>,
                                  ![c].out = host]
  BY DEF Answer, host
<1>6. ClientsOK(client')
  BY <1>1, <1>5, ServedFacts
<1>7. answered' \in SUBSET Target
  BY <1>1, <1>2, <1>5 DEF TypeOK
<1>8. counter' \in [CfTier -> Nat]
  BY <1>2, <1>5, OrderFacts
<1>9. TasksOK(task') /\ \A t \in Tasks : task'[t] = task[t]
        \/ (task[t].pc = "free" /\ task'[t].pc = "spawned")
  BY <1>3, <1>4, <1>5, SpawnFacts
<1>10. QED
  BY <1>6, <1>7, <1>8, <1>9

(* A step that only moves connections along is quiet.                      *)
LEMMA MoveFacts ==
  ASSUME WellFormed, ClientsOK(client'),
         UNCHANGED <<cfIdle, cfRefilling, task, answered>>,
         counter' \in [CfTier -> Nat], lead' \in [CfTier -> Names],
         workerFail' \in SUBSET WorkerSet
  PROVE  WellFormed' /\ Quiet
<1>1. WellFormed'
  BY DEF WellFormed, TypeOK, WorkerSet, ClientsOK
<1>2. \A k \in CfKey : Len(cfIdle[k]) \in Nat
  BY DEF WellFormed, TypeOK
<1>3. QED
  BY <1>1, <1>2 DEF Quiet

(* The rest of a list of domains is a list of domains.                     *)
LEMMA TailFacts ==
  ASSUME NEW S, NEW order \in Seq(S), order # <<>>
  PROVE  Head(order) \in S /\ Tail(order) \in Seq(S)
           /\ Len(Tail(order)) = Len(order) - 1
  OBVIOUS

(* A connection outside the tiers.                                         *)
LEMMA OutFacts == OutClient \in ClientState
<1>1. <<>> \in Seq(Names)
  OBVIOUS
<1>2. NoTarget \in Target
  BY DEF NoTarget, Target, Names
<1>3. QED
  BY <1>1, <1>2 DEF OutClient, ClientState

(* A step of a connection keeps the state well formed and is quiet.        *)
LEMMA WalkStep ==
  ASSUME WellFormed, NEW c \in Clients, Walk(c)
  PROVE  WellFormed' /\ Quiet
<1>0. /\ TypeOK /\ ClientsOK(client)
      /\ counter \in [CfTier -> Nat] /\ lead \in [CfTier -> Names]
      /\ workerFail \in SUBSET WorkerSet
      /\ client \in [Clients -> ClientState] /\ ClientOK(client[c])
      /\ client[c].order \in Seq(Names)
      /\ \A k \in CfKey : Len(cfIdle[k]) \in Nat
  BY DEF WellFormed, TypeOK, WorkerSet, ClientsOK, ClientState
<1>1. ASSUME NEW dc \in Dcs, Enter(c, dc)
      PROVE  WellFormed' /\ Quiet
  <2>1. OutClient \in ClientState
    BY OutFacts
  <2>2. client' \in [Clients -> ClientState]
    BY <1>0, <1>1, <2>1 DEF Enter, OutClient, ClientState
  <2>3. ASSUME NEW d \in Clients PROVE ClientOK(client'[d])
    BY <1>0, <1>1, <2>3 DEF Enter, OutClient, ClientOK, ClientsOK
  <2>4. QED
    BY <1>0, <1>1, <2>2, <2>3, MoveFacts DEF Enter, ClientsOK
<1>2. CASE WorkerGet(c)
  <2>1. CASE CfHit(c, "worker") /\ UNCHANGED <<counter, lead>>
    <3>1. /\ cfIdle' \in [CfKey -> Seq(Entry)]
          /\ \A k \in CfKey : Len(cfIdle'[k]) <= Len(cfIdle[k])
          /\ TasksOK(task')
          /\ \A t \in Tasks : task'[t] = task[t]
               \/ (task[t].pc = "free" /\ task'[t].pc = "spawned")
          /\ ClientsOK(client')
      <4>1. client[c].pc # "out" /\ "worker" \in CfTier
        BY <1>2 DEF WorkerGet, CfTier
      <4>2. QED
        BY <2>1, <4>1, HitFacts
    <3>2. UNCHANGED <<cfRefilling, counter, lead, workerFail, answered>>
      BY <1>2, <2>1 DEF WorkerGet
    <3>3. QED
      BY <3>1, <3>2 DEF WellFormed, TypeOK, ClientsOK, TasksOK, Quiet
  <2>2. CASE ~(CfHit(c, "worker") /\ UNCHANGED <<counter, lead>>)
    <3>1. /\ CfMiss(c, "worker")
          /\ client' = [client EXCEPT ![c].pc = "workers",
                                      ![c].order = Order("worker")]
          /\ counter' = Ordered("worker")
          /\ lead' = Led("worker")
          /\ UNCHANGED task
      BY <1>2, <2>2 DEF WorkerGet
    <3>2. client[c].pc = "worker" /\ "worker" \in CfTier
          /\ Domains("worker") # <<>>
      BY <1>0, <1>2 DEF WorkerGet, CfTier, Domains, ClientOK
    <3>3. /\ Order("worker") \in Seq(Names) /\ Order("worker") \in Seq(WorkerSet)
          /\ counter' \in [CfTier -> Nat] /\ lead' \in [CfTier -> Names]
      BY <1>0, <3>1, <3>2, OrderFacts
    <3>4. client' \in [Clients -> ClientState]
      BY <1>0, <3>1, <3>3 DEF ClientState
    <3>5. ASSUME NEW d \in Clients PROVE ClientOK(client'[d])
      BY <1>0, <3>1, <3>2, <3>3, <3>5 DEF ClientsOK, ClientOK, ClientState
    <3>6. /\ cfIdle' \in [CfKey -> Seq(Entry)]
          /\ \A k \in CfKey : Len(cfIdle'[k]) <= Len(cfIdle[k])
      BY <3>1, <3>2, MissFacts
    <3>7. QED
      BY <1>2, <3>1, <3>3, <3>4, <3>5, <3>6
         DEF WorkerGet, WellFormed, TypeOK, ClientsOK, Quiet
  <2>3. QED
    BY <2>1, <2>2
<1>3. CASE WorkerSkip(c)
  <2>1. /\ Tail(client[c].order) \in Seq(Names)
        /\ Tail(client[c].order) \in Seq(WorkerSet)
    BY <1>0, <1>3, TailFacts DEF WorkerSkip, ClientOK
  <2>2. client' \in [Clients -> ClientState]
    BY <1>0, <1>3, <2>1 DEF WorkerSkip, ClientState
  <2>3. ASSUME NEW d \in Clients PROVE ClientOK(client'[d])
    BY <1>0, <1>3, <2>1, <2>3 DEF WorkerSkip, ClientOK, ClientsOK, ClientState
  <2>4. QED
    BY <1>0, <1>3, <2>2, <2>3, MoveFacts DEF WorkerSkip, ClientsOK
<1>4. CASE WorkerDial(c)
  <2>1. client' \in [Clients -> ClientState]
    BY <1>0, <1>4 DEF WorkerDial, ClientState
  <2>2. ASSUME NEW d \in Clients PROVE ClientOK(client'[d])
    BY <1>0, <1>4, <2>2 DEF WorkerDial, ClientOK, ClientsOK, ClientState
  <2>3. QED
    BY <1>0, <1>4, <2>1, <2>2, MoveFacts DEF WorkerDial, ClientsOK
<1>5. CASE WorkerOk(c)
  <2>1. Head(client[c].order) \in WorkerSet /\ Head(client[c].order) \in Names
    BY <1>0, <1>5, TailFacts DEF WorkerOk, ClientOK
  <2>2. Domains("worker") # <<>> /\ "worker" \in CfTier
    BY <2>1 DEF WorkerSet, Domains, CfTier
  <2>3. /\ answered' \in SUBSET Target
        /\ counter' \in [CfTier -> Nat]
        /\ TasksOK(task')
        /\ \A t \in Tasks : task'[t] = task[t]
             \/ (task[t].pc = "free" /\ task'[t].pc = "spawned")
        /\ ClientsOK(client')
    BY <1>5, <2>1, <2>2, AnswerFacts DEF WorkerOk
  <2>4. QED
    BY <1>0, <1>5, <2>3
       DEF WorkerOk, WellFormed, TypeOK, TasksOK, ClientsOK, Quiet
<1>6. CASE WorkerFail(c)
  <2>1. /\ Head(client[c].order) \in WorkerSet
        /\ Tail(client[c].order) \in Seq(Names)
        /\ Tail(client[c].order) \in Seq(WorkerSet)
    BY <1>0, <1>6, TailFacts DEF WorkerFail, ClientOK
  <2>2. client' \in [Clients -> ClientState]
    BY <1>0, <1>6, <2>1 DEF WorkerFail, ClientState
  <2>3. ASSUME NEW d \in Clients PROVE ClientOK(client'[d])
    BY <1>0, <1>6, <2>1, <2>3 DEF WorkerFail, ClientOK, ClientsOK, ClientState
  <2>4. workerFail' \in SUBSET WorkerSet
    BY <1>0, <1>6, <2>1 DEF WorkerFail
  <2>5. QED
    BY <1>0, <1>6, <2>2, <2>3, <2>4, MoveFacts DEF WorkerFail, ClientsOK
<1>7. CASE WorkersDone(c)
  <2>1. client' \in [Clients -> ClientState]
    BY <1>0, <1>7 DEF WorkersDone, ClientState
  <2>2. ASSUME NEW d \in Clients PROVE ClientOK(client'[d])
    BY <1>0, <1>7, <2>2 DEF WorkersDone, ClientOK, ClientsOK, ClientState
  <2>3. QED
    BY <1>0, <1>7, <2>1, <2>2, MoveFacts DEF WorkersDone, ClientsOK
<1>8. CASE ProxyOrder(c)
  <2>1. CASE Zones = <<>>
    <3>1. client' \in [Clients -> ClientState]
      BY <1>0, <1>8, <2>1 DEF ProxyOrder, ClientState
    <3>2. ASSUME NEW d \in Clients PROVE ClientOK(client'[d])
      BY <1>0, <1>8, <2>1, <3>2 DEF ProxyOrder, ClientOK, ClientsOK, ClientState
    <3>3. QED
      BY <1>0, <1>8, <2>1, <3>1, <3>2, MoveFacts DEF ProxyOrder, ClientsOK
  <2>2. CASE Zones # <<>>
    <3>1. "proxy" \in CfTier /\ Domains("proxy") = Zones /\ Zones \in Seq(Names)
      BY NamesFacts DEF CfTier, Domains
    <3>2. /\ Order("proxy") \in Seq(Names) /\ Len(Order("proxy")) = Len(Zones)
          /\ Ordered("proxy") \in [CfTier -> Nat]
          /\ Led("proxy") \in [CfTier -> Names]
      BY <1>0, <2>2, <3>1, OrderFacts
    <3>3. Order("proxy") # <<>>
      BY <2>2, <3>1, <3>2
    <3>4. /\ client' = [client EXCEPT ![c].pc = "proxyget",
                                      ![c].order = Order("proxy")]
          /\ counter' = Ordered("proxy") /\ lead' = Led("proxy")
          /\ client[c].pc = "proxy"
      BY <1>8, <2>2 DEF ProxyOrder
    <3>5. client' \in [Clients -> ClientState]
      BY <1>0, <3>2, <3>4 DEF ClientState
    <3>6. ASSUME NEW d \in Clients PROVE ClientOK(client'[d])
      BY <1>0, <2>2, <3>3, <3>4, <3>6 DEF ClientOK, ClientsOK, ClientState
    <3>7. QED
      BY <1>0, <1>8, <3>2, <3>4, <3>5, <3>6, MoveFacts DEF ProxyOrder, ClientsOK
  <2>3. QED
    BY <2>1, <2>2
<1>9. CASE ProxyGet(c)
  <2>1. CASE CfHit(c, "proxy")
    <3>1. /\ cfIdle' \in [CfKey -> Seq(Entry)]
          /\ \A k \in CfKey : Len(cfIdle'[k]) <= Len(cfIdle[k])
          /\ TasksOK(task')
          /\ \A t \in Tasks : task'[t] = task[t]
               \/ (task[t].pc = "free" /\ task'[t].pc = "spawned")
          /\ ClientsOK(client')
      <4>1. client[c].pc # "out" /\ "proxy" \in CfTier
        BY <1>9 DEF ProxyGet, CfTier
      <4>2. QED
        BY <2>1, <4>1, HitFacts
    <3>2. UNCHANGED <<cfRefilling, counter, lead, workerFail, answered>>
      BY <1>9, <2>1 DEF ProxyGet
    <3>3. QED
      BY <3>1, <3>2 DEF WellFormed, TypeOK, ClientsOK, TasksOK, Quiet
  <2>2. CASE ~CfHit(c, "proxy")
    <3>1. /\ CfMiss(c, "proxy")
          /\ client' = [client EXCEPT ![c].pc = "proxydial"]
          /\ client[c].pc = "proxyget"
          /\ UNCHANGED task
      BY <1>9, <2>2 DEF ProxyGet
    <3>2. client' \in [Clients -> ClientState]
      BY <1>0, <3>1 DEF ClientState
    <3>3. ASSUME NEW d \in Clients PROVE ClientOK(client'[d])
      BY <1>0, <3>1, <3>3 DEF ClientOK, ClientsOK, ClientState
    <3>4. /\ cfIdle' \in [CfKey -> Seq(Entry)]
          /\ \A k \in CfKey : Len(cfIdle'[k]) <= Len(cfIdle[k])
      BY <3>1, MissFacts DEF CfTier
    <3>5. QED
      BY <1>9, <3>1, <3>2, <3>3, <3>4
         DEF ProxyGet, WellFormed, TypeOK, ClientsOK, Quiet
  <2>3. QED
    BY <2>1, <2>2
<1>10. CASE ProxyDialOk(c)
  <2>1. Head(client[c].order) \in Names
    BY <1>0, <1>10, TailFacts DEF ProxyDialOk, ClientOK
  <2>2. Domains("proxy") # <<>> /\ "proxy" \in CfTier
    BY <1>0, <1>10 DEF ProxyDialOk, ClientOK, Domains, CfTier
  <2>3. /\ answered' \in SUBSET Target
        /\ counter' \in [CfTier -> Nat]
        /\ TasksOK(task')
        /\ \A t \in Tasks : task'[t] = task[t]
             \/ (task[t].pc = "free" /\ task'[t].pc = "spawned")
        /\ ClientsOK(client')
    BY <1>10, <2>1, <2>2, AnswerFacts DEF ProxyDialOk
  <2>4. QED
    BY <1>0, <1>10, <2>3
       DEF ProxyDialOk, WellFormed, TypeOK, TasksOK, ClientsOK, Quiet
<1>11. CASE ProxyDialFail(c)
  <2>1. client[c].order # <<>> /\ Zones # <<>>
    BY <1>0, <1>11 DEF ProxyDialFail, ClientOK
  <2>2. /\ Tail(client[c].order) \in Seq(Names)
        /\ Len(client[c].order) # 1 => Tail(client[c].order) # <<>>
    <3>1. /\ Tail(client[c].order) \in Seq(Names)
          /\ Len(Tail(client[c].order)) = Len(client[c].order) - 1
      BY <1>0, <2>1, TailFacts
    <3>2. Len(client[c].order) # 1 => Len(Tail(client[c].order)) # 0
      BY <1>0, <3>1
    <3>3. Len(<<>>) = 0
      OBVIOUS
    <3>4. QED
      BY <3>1, <3>2, <3>3
  <2>3. client' \in [Clients -> ClientState]
    BY <1>0, <1>11, <2>2 DEF ProxyDialFail, ClientState
  <2>4. ASSUME NEW d \in Clients PROVE ClientOK(client'[d])
    BY <1>0, <1>11, <2>1, <2>2, <2>4
       DEF ProxyDialFail, ClientOK, ClientsOK, ClientState
  <2>5. QED
    BY <1>0, <1>11, <2>3, <2>4, MoveFacts DEF ProxyDialFail, ClientsOK
<1>12. CASE Leave(c)
  <2>1. OutClient \in ClientState
    BY OutFacts
  <2>2. client' \in [Clients -> ClientState]
    BY <1>0, <1>12, <2>1 DEF Leave
  <2>3. ASSUME NEW d \in Clients PROVE ClientOK(client'[d])
    BY <1>0, <1>12, <2>3 DEF Leave, OutClient, ClientOK, ClientsOK
  <2>4. QED
    BY <1>0, <1>12, <2>2, <2>3, MoveFacts DEF Leave, ClientsOK
<1>13. QED
  BY <1>1, <1>2, <1>3, <1>4, <1>5, <1>6, <1>7, <1>8, <1>9, <1>10, <1>11, <1>12
     DEF Walk

-----------------------------------------------------------------------------
(* The refills. *)

(* A quiet step keeps the refills apart and their room free.               *)
LEMMA QuietStep ==
  ASSUME IInv, WellFormed', Quiet
  PROVE  OneRefill' /\ RoomKept'
<1>1. \A t \in Tasks : Inside(t)' => Inside(t) /\ task'[t] = task[t]
  BY DEF Quiet, Inside
<1>2. OneRefill'
  BY <1>1 DEF IInv, OneRefill, Quiet, Inside
<1>3. /\ Budget \in Nat
      /\ \A k \in CfKey : Len(cfIdle[k]) \in Nat /\ Len(cfIdle'[k]) \in Nat
  BY BudgetFacts DEF IInv, WellFormed, TypeOK
<1>4. ASSUME NEW k \in CfKey PROVE Len(cfIdle'[k]) <= Budget
  BY <1>3 DEF IInv, RoomKept, Quiet
<1>5. ASSUME NEW t \in Tasks, task'[t].pc \in {"dialing", "adding"}
      PROVE  Len(cfIdle'[task'[t].key]) + 1 <= Budget
  <2>1. task'[t] = task[t]
    BY <1>5 DEF Quiet
  <2>2. task[t].key \in CfKey /\ Len(cfIdle[task[t].key]) + 1 <= Budget
    BY <1>5, <2>1 DEF IInv, WellFormed, RoomKept
  <2>3. QED
    BY <1>3, <2>1, <2>2 DEF Quiet
<1>6. QED
  BY <1>2, <1>4, <1>5 DEF RoomKept

(* A step of a refill keeps the state well formed.                         *)
LEMMA RefillType ==
  ASSUME WellFormed, NEW t \in Tasks, Refill(t)
  PROVE  WellFormed'
<1>0. FreeTask \in TaskState
  BY DEF FreeTask, TaskState, NoTarget, Target, Names
<1>1. TasksOK(task')
  <2>1. task' \in [Tasks -> TaskState]
    <3>1. CASE Register(t)
      <4>1. [task[t] EXCEPT !.pc = "checking"] \in TaskState
        BY DEF WellFormed, TypeOK, TaskState
      <4>2. QED
        BY <1>0, <3>1, <4>1 DEF Register, WellFormed, TypeOK
    <3>2. CASE Check(t)
      BY <3>2 DEF Check, WellFormed, TypeOK, TaskState
    <3>3. CASE Connect(t)
      BY <3>3 DEF Connect, WellFormed, TypeOK, TaskState
    <3>4. CASE Add(t)
      BY <3>4 DEF Add, WellFormed, TypeOK, TaskState
    <3>5. CASE Release(t)
      BY <1>0, <3>5 DEF Release, WellFormed, TypeOK
    <3>6. QED
      BY <3>1, <3>2, <3>3, <3>4, <3>5 DEF Refill
  <2>2. ASSUME NEW u \in Tasks, task'[u].pc # "free" PROVE task'[u].key \in CfKey
    <3>0. task \in [Tasks -> TaskState]
      BY DEF WellFormed, TypeOK
    <3>1. task[u].pc # "free" /\ task'[u].key = task[u].key
      <4>1. CASE Register(t)
        BY <2>2, <3>0, <4>1 DEF Register, TaskState, FreeTask
      <4>2. CASE Check(t)
        BY <2>2, <3>0, <4>2 DEF Check, TaskState
      <4>3. CASE Connect(t) \/ Add(t)
        BY <2>2, <3>0, <4>3 DEF Connect, Add, TaskState
      <4>4. CASE Release(t)
        BY <2>2, <3>0, <4>4 DEF Release, FreeTask
      <4>5. QED
        BY <4>1, <4>2, <4>3, <4>4 DEF Refill
    <3>2. QED
      BY <3>1 DEF WellFormed
  <2>3. QED
    BY <2>1, <2>2 DEF TasksOK
<1>2. cfRefilling' \in SUBSET CfKey
  BY DEF Refill, Register, Check, Connect, Add, Release, WellFormed, TypeOK
<1>3. cfIdle' \in [CfKey -> Seq(Entry)]
  <2>1. CASE Add(t)
    <3> DEFINE k == task[t].key
               e == [target |-> task[t].target, fresh |-> TRUE]
    <3>1. k \in CfKey /\ cfIdle[k] \in Seq(Entry)
      BY <2>1 DEF Add, WellFormed, TypeOK
    <3>2. e \in Entry
      BY DEF Entry, WellFormed, TypeOK, TaskState
    <3>3. Append(cfIdle[k], e) \in Seq(Entry)
      BY <3>1, <3>2
    <3>4. cfIdle' = cfIdle \/ cfIdle' = [cfIdle EXCEPT ![k] = Append(cfIdle[k], e)]
      BY <2>1 DEF Add
    <3>5. QED
      BY <3>3, <3>4 DEF WellFormed, TypeOK
  <2>2. CASE ~Add(t)
    BY <2>2 DEF Refill, Register, Check, Connect, Release, WellFormed, TypeOK
  <2>3. QED
    BY <2>1, <2>2
<1>4. UNCHANGED <<client, counter, workerFail, answered, lead>>
  BY DEF Refill, Register, Check, Connect, Add, Release
<1>5. QED
  BY <1>1, <1>2, <1>3, <1>4 DEF WellFormed, TypeOK, TasksOK

(* The cf_refilling set keeps the refills of a bucket apart.               *)
LEMMA RefillApart ==
  ASSUME WellFormed, OneRefill, NEW t \in Tasks, Refill(t)
  PROVE  OneRefill'
<1>0. task \in [Tasks -> TaskState]
  BY DEF WellFormed, TypeOK
<1>1. CASE Register(t)
  <2>1. CASE task[t].key \in cfRefilling
    <3>1. \A u \in Tasks : Inside(u)' => u # t /\ Inside(u) /\ task'[u] = task[u]
      BY <1>0, <1>1, <2>1 DEF Register, Inside, FreeTask
    <3>2. QED
      BY <1>1, <2>1, <3>1 DEF Register, OneRefill, Inside
  <2>2. CASE task[t].key \notin cfRefilling
    <3>1. /\ cfRefilling' = cfRefilling \union {task[t].key}
          /\ task'[t].key = task[t].key
          /\ \A u \in Tasks \ {t} : task'[u] = task[u]
      BY <1>0, <1>1, <2>2 DEF Register, TaskState
    <3>2. QED
      BY <2>2, <3>1 DEF OneRefill, Inside
  <2>3. QED
    BY <2>1, <2>2
<1>2. CASE Release(t)
  <2>1. Inside(t) /\ cfRefilling' = cfRefilling \ {task[t].key}
    BY <1>2 DEF Release, Inside
  <2>2. \A u \in Tasks : Inside(u)' => u # t /\ Inside(u) /\ task'[u] = task[u]
    BY <1>0, <1>2 DEF Release, Inside, FreeTask
  <2>3. QED
    BY <2>1, <2>2 DEF OneRefill, Inside
<1>3. CASE Check(t) \/ Connect(t) \/ Add(t)
  <2>1. cfRefilling' = cfRefilling
    BY <1>3 DEF Check, Connect, Add
  <2>2. \A u \in Tasks : Inside(u)' => Inside(u) /\ task'[u].key = task[u].key
    BY <1>0, <1>3 DEF Check, Connect, Add, Inside, TaskState
  <2>3. QED
    BY <2>1, <2>2 DEF OneRefill, Inside
<1>4. QED
  BY <1>1, <1>2, <1>3 DEF Refill

(* A spare is opened only where the check found room, and nobody else      *)
(* takes that room before it is pushed.                                    *)
LEMMA RefillRoom ==
  ASSUME WellFormed, OneRefill, RoomKept, NEW t \in Tasks, Refill(t)
  PROVE  RoomKept'
<1>0. /\ task \in [Tasks -> TaskState] /\ Budget \in Nat
      /\ cfIdle \in [CfKey -> Seq(Entry)]
      /\ \A k \in CfKey : Len(cfIdle[k]) \in Nat
  BY BudgetFacts DEF WellFormed, TypeOK
<1>1. CASE Register(t) \/ Connect(t) \/ Release(t)
  <2>1. cfIdle' = cfIdle
    BY <1>1 DEF Register, Connect, Release
  <2>2. \A u \in Tasks : task'[u].pc \in {"dialing", "adding"} =>
          task[u].pc \in {"dialing", "adding"} /\ task'[u].key = task[u].key
    <3>1. CASE Register(t)
      BY <1>0, <3>1 DEF Register, FreeTask, TaskState
    <3>2. CASE Connect(t)
      BY <1>0, <3>2 DEF Connect, TaskState
    <3>3. CASE Release(t)
      BY <1>0, <3>3 DEF Release, FreeTask
    <3>4. QED
      BY <1>1, <3>1, <3>2, <3>3
  <2>3. QED
    BY <2>1, <2>2 DEF RoomKept
<1>2. CASE Check(t)
  <2>1. cfIdle' = cfIdle /\ task[t].key \in CfKey
    BY <1>2 DEF Check, WellFormed
  <2>2. \A u \in Tasks : task'[u].pc \in {"dialing", "adding"} =>
          /\ task'[u].key = task[u].key
          /\ \/ u = t /\ ~(Len(cfIdle[task[t].key]) >= Budget)
             \/ task[u].pc \in {"dialing", "adding"}
    BY <1>0, <1>2 DEF Check, TaskState
  <2>3. QED
    BY <1>0, <2>1, <2>2 DEF RoomKept
<1>3. CASE Add(t)
  <2> DEFINE k == task[t].key
             e == [target |-> task[t].target, fresh |-> TRUE]
  <2>1. k \in CfKey /\ Len(cfIdle[k]) + 1 <= Budget
    BY <1>3 DEF Add, WellFormed, RoomKept
  <2>2. cfIdle' = cfIdle \/ cfIdle' = [cfIdle EXCEPT ![k] = Append(cfIdle[k], e)]
    BY <1>3 DEF Add
  <2>3. e \in Entry
    BY <1>0 DEF Entry, TaskState
  <2>4. Len(Append(cfIdle[k], e)) = Len(cfIdle[k]) + 1
    BY <1>0, <2>1, <2>3
  <2>5. ASSUME NEW j \in CfKey PROVE Len(cfIdle'[j]) <= Budget
    <3>1. cfIdle'[j] = cfIdle[j] \/ (j = k /\ cfIdle'[j] = Append(cfIdle[k], e))
      BY <1>0, <2>2
    <3>2. QED
      BY <2>1, <2>4, <3>1 DEF RoomKept
  <2>6. ASSUME NEW u \in Tasks, task'[u].pc \in {"dialing", "adding"}
        PROVE  Len(cfIdle'[task'[u].key]) + 1 <= Budget
    <3>1. u # t /\ task'[u] = task[u] /\ Inside(u) /\ Inside(t)
      BY <1>0, <1>3, <2>6 DEF Add, Inside, TaskState
    <3>2. task[u].key \in CfKey /\ task[u].key # k
      BY <3>1 DEF OneRefill, WellFormed, Inside
    <3>3. cfIdle'[task[u].key] = cfIdle[task[u].key]
      BY <1>0, <2>2, <3>2
    <3>4. QED
      BY <2>6, <3>1, <3>3 DEF RoomKept
  <2>7. QED
    BY <2>5, <2>6 DEF RoomKept
<1>4. QED
  BY <1>1, <1>2, <1>3 DEF Refill

-----------------------------------------------------------------------------
(* A connection going stale, and a Worker's cooldown ending, are quiet.    *)
LEMMA TimeStep ==
  ASSUME WellFormed, CooldownEnds \/ \E k \in CfKey : Stale(k)
  PROVE  WellFormed' /\ Quiet
<1>0. /\ cfIdle \in [CfKey -> Seq(Entry)]
      /\ \A k \in CfKey : Len(cfIdle[k]) \in Nat
  BY DEF WellFormed, TypeOK
<1>1. CASE CooldownEnds
  BY <1>0, <1>1 DEF CooldownEnds, WellFormed, TypeOK, Quiet
<1>2. ASSUME NEW k \in CfKey, Stale(k) PROVE WellFormed' /\ Quiet
  <2>1. PICK i \in 1..Len(cfIdle[k]) :
          cfIdle' = [cfIdle EXCEPT ![k][i].fresh = FALSE]
    BY <1>2 DEF Stale
  <2> DEFINE e == [cfIdle[k][i] EXCEPT !.fresh = FALSE]
             b == [cfIdle[k] EXCEPT ![i] = e]
  <2>2. cfIdle[k] \in Seq(Entry) /\ cfIdle[k][i] \in Entry
    BY <1>0
  <2>3. e \in Entry
    BY <2>2 DEF Entry
  <2>4. b \in Seq(Entry) /\ Len(b) = Len(cfIdle[k])
    <3> HIDE DEF e
    <3>1. QED
      BY <2>2, <2>3
  <2>5. cfIdle' = [cfIdle EXCEPT ![k] = b]
    BY <1>0, <2>1, <2>2
  <2> HIDE DEF b
  <2>6. cfIdle' \in [CfKey -> Seq(Entry)]
    BY <1>0, <2>4, <2>5
  <2>7. \A j \in CfKey : Len(cfIdle'[j]) <= Len(cfIdle[j])
    BY <1>0, <2>4, <2>5
  <2>8. UNCHANGED <<cfRefilling, task, client, counter, workerFail, answered, lead>>
    BY <1>2 DEF Stale
  <2>9. QED
    BY <2>6, <2>7, <2>8 DEF WellFormed, TypeOK, Quiet
<1>3. QED
  BY <1>1, <1>2

(* The initial state satisfies the inductive invariant.                    *)
LEMMA InitIInv == Init => IInv
<1> SUFFICES ASSUME Init PROVE IInv
  OBVIOUS
<1>1. FreeTask \in TaskState
  BY DEF FreeTask, TaskState, NoTarget, Target, Names
<1>2. TypeOK
  <2>1. cfIdle \in [CfKey -> Seq(Entry)]
    BY EmptySeq DEF Init
  <2>2. counter \in [CfTier -> Nat] /\ lead \in [CfTier -> Names]
    BY DEF Init, Names
  <2>3. QED
    BY <1>1, <2>1, <2>2, OutFacts DEF Init, TypeOK
<1>3. ClientsOK(client)
  BY OutFacts DEF Init, ClientsOK, ClientOK, OutClient
<1>4. \A t \in Tasks : task[t].pc = "free"
  BY DEF Init, FreeTask
<1>5. \A k \in CfKey : Len(cfIdle[k]) = 0
  BY DEF Init
<1>6. QED
  BY <1>2, <1>3, <1>4, <1>5, BudgetFacts
     DEF IInv, WellFormed, OneRefill, RoomKept, Inside

(* The inductive invariant holds in every reachable state.                 *)
THEOREM CfInvariance == Spec => []IInv
<1>1. IInv /\ [Next]_vars => IInv'
  <2> SUFFICES ASSUME IInv, [Next]_vars PROVE IInv'
    OBVIOUS
  <2>1. ASSUME NEW c \in Clients, Walk(c) PROVE IInv'
    BY <2>1, WalkStep, QuietStep DEF IInv
  <2>2. ASSUME NEW t \in Tasks, Refill(t) PROVE IInv'
    BY <2>2, RefillType, RefillApart, RefillRoom DEF IInv
  <2>3. CASE CooldownEnds \/ \E k \in CfKey : Stale(k)
    BY <2>3, TimeStep, QuietStep DEF IInv
  <2>4. CASE UNCHANGED vars
    BY <2>4 DEF vars, IInv, WellFormed, TypeOK, ClientsOK, OneRefill, RoomKept, Inside
  <2>5. QED
    BY <2>1, <2>2, <2>3, <2>4 DEF Next
<1>2. QED
  BY InitIInv, <1>1, PTL DEF Spec

(* The state of the Cloudflare tiers and their pool keeps its types.       *)
THEOREM CfTypeCorrect == Spec => []TypeOK
<1>1. IInv => TypeOK
  BY DEF IInv, WellFormed
<1>2. QED
  BY CfInvariance, <1>1, PTL

(* min(CF_POOL_MAX, pool_size) of cf_refill is kept by every interleaving  *)
(* of connections and refills; with --pool-size 0 nothing is opened.       *)
THEOREM CfBudgetHolds == Spec => []CfBudget
<1>1. IInv => CfBudget
  <2> SUFFICES ASSUME IInv, NEW k \in CfKey
               PROVE  /\ Len(cfIdle[k]) <= Budget
                      /\ \A t \in Opening(k) :
                           Opening(k) = {t} /\ Len(cfIdle[k]) + 1 <= Budget
    BY DEF CfBudget
  <2>1. Len(cfIdle[k]) <= Budget
    BY DEF IInv, RoomKept
  <2>2. ASSUME NEW t \in Opening(k)
        PROVE  Opening(k) = {t} /\ Len(cfIdle[k]) + 1 <= Budget
    <3>1. t \in Tasks /\ task[t].key = k /\ task[t].pc \in {"dialing", "adding"}
      BY <2>2 DEF Opening
    <3>2. ASSUME NEW u \in Opening(k) PROVE u = t
      BY <3>1, <3>2 DEF Opening, IInv, OneRefill, Inside
    <3>3. QED
      BY <2>2, <3>1, <3>2 DEF IInv, RoomKept
  <2>3. QED
    BY <2>1, <2>2
<1>2. QED
  BY CfInvariance, <1>1, PTL

-----------------------------------------------------------------------------
(* Where the background dials. *)

(* Every spare, idle or on its way, goes to a target that has answered a   *)
(* connection.                                                             *)
IdleKnown ==
  \A k \in CfKey : \A i \in 1..Len(cfIdle[k]) : cfIdle[k][i].target \in answered

TasksKnown ==
  \A t \in Tasks : task[t].pc # "free" => task[t].target \in answered

Known == IdleKnown /\ TasksKnown

(* Taking from a bucket, and a request for a spare through what is known,  *)
(* keep the spares known.                                                  *)
LEMMA SpawnKnown ==
  ASSUME WellFormed, Known, NEW key \in CfKey, NEW target \in answered',
         answered \subseteq answered', Spawn(key, target)
  PROVE  TasksKnown'
<1>1. PICK t \in Tasks :
        task' = [task EXCEPT ![t] = [pc |-> "spawned", key |-> key,
                                     target |-> target]]
  BY DEF Spawn
<1>2. ASSUME NEW u \in Tasks, task'[u].pc # "free"
      PROVE  task'[u].target \in answered'
  BY <1>1, <1>2 DEF WellFormed, TypeOK, Known, TasksKnown
<1>3. QED
  BY <1>2 DEF TasksKnown

(* cf_get: the replacement goes where the connection handed out came from. *)
LEMMA HitKnown ==
  ASSUME WellFormed, Known, NEW c \in Clients, NEW tier \in CfTier,
         client[c].pc # "out", CfHit(c, tier), answered' = answered
  PROVE  Known'
<1> DEFINE k == <<tier, client[c].dc>>
<1>1. k \in CfKey
  BY DEF WellFormed, ClientsOK, ClientOK, CfKey
<1>2. /\ cfIdle \in [CfKey -> Seq(Entry)] /\ cfIdle[k] \in Seq(Entry)
      /\ Len(cfIdle[k]) \in Nat
  BY <1>1 DEF WellFormed, TypeOK
<1>3. PICK i \in 1..Len(cfIdle[k]) :
        /\ cfIdle' = [cfIdle EXCEPT ![k] = SubSeq(cfIdle[k], 1, i - 1)]
        /\ Spawn(k, cfIdle[k][i].target)
  BY DEF CfHit
<1>4. cfIdle[k][i].target \in answered
  BY <1>1 DEF Known, IdleKnown
<1> HIDE DEF k
<1>5. TasksKnown'
  BY <1>1, <1>3, <1>4, SpawnKnown
<1>6. /\ Len(SubSeq(cfIdle[k], 1, i - 1)) = i - 1
      /\ \A j \in 1..(i - 1) : SubSeq(cfIdle[k], 1, i - 1)[j] = cfIdle[k][j]
  BY <1>2, SubSeqProperties
<1>7. ASSUME NEW l \in CfKey, NEW j \in 1..Len(cfIdle'[l])
      PROVE  cfIdle'[l][j].target \in answered'
  <2>1. CASE l = k
    <3>1. cfIdle'[k] = SubSeq(cfIdle[k], 1, i - 1)
      BY <1>1, <1>2, <1>3
    <3>2. j \in 1..(i - 1) /\ j \in 1..Len(cfIdle[k])
      BY <1>2, <1>6, <1>7, <2>1, <3>1
    <3>3. cfIdle'[l][j] = cfIdle[k][j]
      BY <1>6, <2>1, <3>1, <3>2
    <3>4. QED
      BY <1>1, <3>2, <3>3 DEF Known, IdleKnown
  <2>2. CASE l # k
    <3>1. cfIdle'[l] = cfIdle[l]
      BY <1>2, <1>3, <2>2
    <3>2. QED
      BY <1>7, <3>1 DEF Known, IdleKnown
  <2>3. QED
    BY <2>1, <2>2
<1>8. QED
  BY <1>5, <1>7 DEF Known, IdleKnown

(* cf_get: a miss only discards.                                           *)
LEMMA MissKnown ==
  ASSUME WellFormed, Known, NEW c \in Clients, NEW tier \in CfTier,
         client[c].pc # "out", CfMiss(c, tier), UNCHANGED <<task, answered>>
  PROVE  Known'
<1> DEFINE k == <<tier, client[c].dc>>
<1>1. k \in CfKey
  BY DEF WellFormed, ClientsOK, ClientOK, CfKey
<1>2. cfIdle' = [cfIdle EXCEPT ![k] = <<>>] /\ cfIdle \in [CfKey -> Seq(Entry)]
  BY DEF CfMiss, WellFormed, TypeOK
<1> HIDE DEF k
<1>3. ASSUME NEW l \in CfKey, NEW j \in 1..Len(cfIdle'[l])
      PROVE  cfIdle'[l][j].target \in answered'
  <2>1. cfIdle'[l] = IF l = k THEN <<>> ELSE cfIdle[l]
    BY <1>1, <1>2
  <2>2. l # k
    BY <1>3, <2>1
  <2>3. QED
    BY <1>3, <2>1, <2>2 DEF Known, IdleKnown
<1>4. QED
  BY <1>3 DEF Known, IdleKnown, TasksKnown

(* Without balancing the spare goes to the host that just answered.        *)
LEMMA AnswerKnown ==
  ASSUME WellFormed, Known, ~CfBalance, NEW c \in Clients, NEW tier \in CfTier,
         NEW name \in Names, client[c].pc # "out", Answer(c, tier, name),
         cfIdle' = cfIdle
  PROVE  Known'
<1> DEFINE host == Host(tier, name)
<1>1. <<tier, client[c].dc>> \in CfKey
  BY DEF WellFormed, ClientsOK, ClientOK, CfKey
<1>2. answered' = answered \union {host} /\ Spawn(<<tier, client[c].dc>>, host)
  BY DEF Answer, SpareTarget
<1> HIDE DEF host
<1>3. host \in answered' /\ answered \subseteq answered'
  BY <1>2
<1>4. TasksKnown'
  BY <1>1, <1>2, <1>3, SpawnKnown
<1>5. QED
  BY <1>3, <1>4 DEF Known, IdleKnown

(* A connection's step keeps the spares known.                             *)
LEMMA WalkKnown ==
  ASSUME WellFormed, Known, ~CfBalance, NEW c \in Clients, Walk(c)
  PROVE  Known'
<1>0. /\ ClientOK(client[c]) /\ client[c].order \in Seq(Names)
      /\ "worker" \in CfTier /\ "proxy" \in CfTier
  BY DEF WellFormed, ClientsOK, ClientState, CfTier
<1>1. ASSUME UNCHANGED <<cfIdle, task, answered>> PROVE Known'
  BY <1>1 DEF Known, IdleKnown, TasksKnown
<1>2. CASE WorkerGet(c)
  <2>1. client[c].pc # "out" /\ answered' = answered
        /\ (CfHit(c, "worker") \/ (CfMiss(c, "worker") /\ UNCHANGED task))
    BY <1>2 DEF WorkerGet
  <2>2. QED
    BY <1>0, <2>1, HitKnown, MissKnown
<1>3. CASE ProxyGet(c)
  <2>1. client[c].pc # "out" /\ answered' = answered
        /\ (CfHit(c, "proxy") \/ (CfMiss(c, "proxy") /\ UNCHANGED task))
    BY <1>3 DEF ProxyGet
  <2>2. QED
    BY <1>0, <2>1, HitKnown, MissKnown
<1>4. CASE WorkerOk(c)
  <2>1. Head(client[c].order) \in Names
    BY <1>0, <1>4, TailFacts DEF WorkerOk, ClientOK
  <2>2. QED
    BY <1>0, <1>4, <2>1, AnswerKnown DEF WorkerOk
<1>5. CASE ProxyDialOk(c)
  <2>1. Head(client[c].order) \in Names
    BY <1>0, <1>5, TailFacts DEF ProxyDialOk, ClientOK
  <2>2. QED
    BY <1>0, <1>5, <2>1, AnswerKnown DEF ProxyDialOk
<1>6. CASE \/ \E dc \in Dcs : Enter(c, dc)
           \/ WorkerSkip(c) \/ WorkerDial(c) \/ WorkerFail(c) \/ WorkersDone(c)
           \/ ProxyOrder(c) \/ ProxyDialFail(c) \/ Leave(c)
  BY <1>1, <1>6 DEF Enter, WorkerSkip, WorkerDial, WorkerFail, WorkersDone,
     ProxyOrder, ProxyDialFail, Leave
<1>7. QED
  BY <1>2, <1>3, <1>4, <1>5, <1>6 DEF Walk

(* A refill puts a spare to the target it was asked for.                   *)
LEMMA RefillKnown ==
  ASSUME WellFormed, Known, NEW t \in Tasks, Refill(t)
  PROVE  Known'
<1>0. /\ task \in [Tasks -> TaskState] /\ cfIdle \in [CfKey -> Seq(Entry)]
      /\ answered' = answered
  BY DEF WellFormed, TypeOK, Refill, Register, Check, Connect, Add, Release
<1>1. ASSUME NEW u \in Tasks, task'[u].pc # "free"
      PROVE  task'[u].target \in answered'
  <2>1. task[u].pc # "free" /\ task'[u].target = task[u].target
    <3>1. CASE Register(t)
      BY <1>0, <1>1, <3>1 DEF Register, TaskState, FreeTask
    <3>2. CASE Check(t)
      BY <1>0, <1>1, <3>2 DEF Check, TaskState
    <3>3. CASE Connect(t) \/ Add(t)
      BY <1>0, <1>1, <3>3 DEF Connect, Add, TaskState
    <3>4. CASE Release(t)
      BY <1>0, <1>1, <3>4 DEF Release, FreeTask
    <3>5. QED
      BY <3>1, <3>2, <3>3, <3>4 DEF Refill
  <2>2. QED
    BY <1>0, <2>1 DEF Known, TasksKnown
<1>2. IdleKnown'
  <2>1. CASE Add(t)
    <3> DEFINE k == task[t].key
               e == [target |-> task[t].target, fresh |-> TRUE]
    <3>1. k \in CfKey /\ cfIdle[k] \in Seq(Entry) /\ task[t].target \in answered
      BY <1>0, <2>1 DEF Add, WellFormed, Known, TasksKnown
    <3>2. e \in Entry /\ e.target \in answered
      BY <1>0, <3>1 DEF Entry, TaskState
    <3>3. cfIdle' = cfIdle \/ cfIdle' = [cfIdle EXCEPT ![k] = Append(cfIdle[k], e)]
      BY <2>1 DEF Add
    <3> HIDE DEF k, e
    <3>4. /\ Len(Append(cfIdle[k], e)) = Len(cfIdle[k]) + 1
          /\ Append(cfIdle[k], e)[Len(cfIdle[k]) + 1] = e
          /\ \A j \in 1..Len(cfIdle[k]) : Append(cfIdle[k], e)[j] = cfIdle[k][j]
      BY <3>1, <3>2
    <3>5. ASSUME NEW l \in CfKey, NEW j \in 1..Len(cfIdle'[l])
          PROVE  cfIdle'[l][j].target \in answered'
      <4>1. CASE cfIdle'[l] = cfIdle[l]
        BY <1>0, <3>5, <4>1 DEF Known, IdleKnown
      <4>2. CASE l = k /\ cfIdle'[l] = Append(cfIdle[k], e)
        <5>1. Len(cfIdle[k]) \in Nat
          BY <3>1
        <5>2. j \in 1..Len(cfIdle[k]) \/ j = Len(cfIdle[k]) + 1
          BY <3>4, <3>5, <4>2, <5>1
        <5>3. cfIdle'[l][j] = e \/ (j \in 1..Len(cfIdle[k]) /\ cfIdle'[l][j] = cfIdle[k][j])
          BY <3>4, <4>2, <5>2
        <5>4. QED
          BY <1>0, <3>1, <3>2, <5>3 DEF Known, IdleKnown
      <4>3. QED
        BY <1>0, <3>1, <3>3, <4>1, <4>2
    <3>6. QED
      BY <3>5 DEF IdleKnown
  <2>2. CASE ~Add(t)
    <3>1. cfIdle' = cfIdle
      BY <2>2 DEF Refill, Register, Check, Connect, Release
    <3>2. QED
      BY <1>0, <3>1 DEF Known, IdleKnown
  <2>3. QED
    BY <2>1, <2>2
<1>3. QED
  BY <1>1, <1>2 DEF Known, TasksKnown

(* A connection that goes stale keeps its target.                          *)
LEMMA TimeKnown ==
  ASSUME WellFormed, Known, CooldownEnds \/ \E k \in CfKey : Stale(k)
  PROVE  Known'
<1>0. cfIdle \in [CfKey -> Seq(Entry)]
  BY DEF WellFormed, TypeOK
<1>1. CASE CooldownEnds
  BY <1>1 DEF CooldownEnds, Known, IdleKnown, TasksKnown
<1>2. ASSUME NEW k \in CfKey, Stale(k) PROVE Known'
  <2>1. PICK i \in 1..Len(cfIdle[k]) :
          cfIdle' = [cfIdle EXCEPT ![k][i].fresh = FALSE]
    BY <1>2 DEF Stale
  <2>2. cfIdle[k] \in Seq(Entry) /\ cfIdle[k][i] \in Entry
    BY <1>0
  <2> DEFINE e == [cfIdle[k][i] EXCEPT !.fresh = FALSE]
             b == [cfIdle[k] EXCEPT ![i] = e]
  <2>3. e.target = cfIdle[k][i].target
    BY <2>2 DEF Entry
  <2>4. cfIdle' = [cfIdle EXCEPT ![k] = b]
    BY <1>0, <2>1, <2>2
  <2>5. ASSUME NEW j \in 1..Len(cfIdle[k]) PROVE b[j].target = cfIdle[k][j].target
    <3> HIDE DEF e
    <3>1. b[j] = IF j = i THEN e ELSE cfIdle[k][j]
      BY <2>2
    <3>2. QED
      BY <2>3, <3>1
  <2>6. Len(b) = Len(cfIdle[k])
    <3> HIDE DEF e
    <3>1. QED
      BY <2>2
  <2> HIDE DEF b
  <2>7. ASSUME NEW l \in CfKey, NEW j \in 1..Len(cfIdle'[l])
        PROVE  cfIdle'[l][j].target \in answered
    <3>1. cfIdle'[l] = IF l = k THEN b ELSE cfIdle[l]
      BY <1>0, <2>4
    <3>2. j \in 1..Len(cfIdle[l])
      BY <2>6, <2>7, <3>1
    <3>3. cfIdle'[l][j].target = cfIdle[l][j].target
      BY <2>5, <3>1, <3>2
    <3>4. QED
      BY <3>2, <3>3 DEF Known, IdleKnown
  <2>8. UNCHANGED <<task, answered>>
    BY <1>2 DEF Stale
  <2>9. QED
    BY <2>7, <2>8 DEF Known, IdleKnown, TasksKnown
<1>3. QED
  BY <1>1, <1>2

(* "So a dead Worker [...] is not dialled again behind the user's back":   *)
(* without --cf-balance cf_refill dials only a host that answered a        *)
(* connection's own dial, whatever the interleaving.                       *)
THEOREM SparesAreKnown == Spec => [](~CfBalance => SparesKnown)
<1> DEFINE K == ~CfBalance => Known
<1>1. Init => K
  BY DEF Init, Known, IdleKnown, TasksKnown, FreeTask
<1>2. IInv /\ K /\ [Next]_vars => K'
  <2> SUFFICES ASSUME IInv, Known, ~CfBalance, [Next]_vars PROVE Known'
    OBVIOUS
  <2>1. CASE UNCHANGED vars
    BY <2>1 DEF vars, Known, IdleKnown, TasksKnown
  <2>2. CASE Next
    BY <2>2, WalkKnown, RefillKnown, TimeKnown DEF Next, IInv
  <2>3. QED
    BY <2>1, <2>2
<1>3. K => (~CfBalance => SparesKnown)
  BY DEF Known, TasksKnown, SparesKnown
<1>4. QED
  BY CfInvariance, <1>1, <1>2, <1>3, PTL DEF Spec

=============================================================================
