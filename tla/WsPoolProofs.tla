---------------------------- MODULE WsPoolProofs ----------------------------
(***************************************************************************)
(* Proofs about WsPool for every set of DCs, clients and tasks and every   *)
(* pool_size: type correctness, the exactness of the refilling set, the    *)
(* descriptor reservation of main.rs, and what a refill and a get do to a  *)
(* bucket.                                                                 *)
(***************************************************************************)
EXTENDS WsPool, SequenceTheorems, TLAPS

(* Whoever works on a bucket names one.                                    *)
KeyOK ==
  /\ \A t \in Tasks : task[t].pc # "free" => task[t].key \in Keys
  /\ warm.pc \in {"dialing", "adding"} => warm.key \in warm.todo
  /\ \A c \in Clients : client[c].pc = "locking" => client[c].key \in Keys

(* What a bucket may hold: warmup adds at most pool_size to it, once.      *)
Cap(k) == IF k \in warm.todo THEN PoolSize ELSE 2 * PoolSize

(* A refill dials for the room it measured, and what is pushed meanwhile   *)
(* raises the cap by as much.                                              *)
TaskCount(t) ==
  /\ task[t].pc \in {"spawned", "checking"} => task[t].got = 0
  /\ task[t].pc = "dialing" => task[t].got < task[t].needed
  /\ task[t].pc = "adding" => task[t].got <= task[t].needed
  /\ task[t].pc \in {"dialing", "adding"} =>
       Len(idle[task[t].key]) + task[t].needed <= Cap(task[t].key)

Counts ==
  /\ \A k \in Keys : Len(idle[k]) <= Cap(k)
  /\ \A t \in Tasks : TaskCount(t)
  /\ warm.pc = "dialing" => warm.got < PoolSize
  /\ warm.pc = "adding" => warm.got <= PoolSize

IInv == TypeOK /\ KeyOK /\ GuardExact /\ Counts

-----------------------------------------------------------------------------
(* Facts about buckets. *)

(* Pushing n connections onto a bucket lengthens it by n.                  *)
LEMMA PushedFacts ==
  ASSUME NEW bucket \in Seq(PoolEntry), NEW n \in Nat, now \in Nat
  PROVE  /\ Pushed(bucket, n) \in Seq(PoolEntry)
         /\ Len(Pushed(bucket, n)) = Len(bucket) + n
<1> DEFINE batch == [i \in 1..n |-> FreshEntry]
<1>1. FreshEntry \in PoolEntry
  BY DEF FreshEntry, PoolEntry
<1>2. batch \in Seq(PoolEntry) /\ Len(batch) = n
  BY <1>1
<1>3. QED
  BY <1>2 DEF Pushed

(* What a refill adds is no more than it dialled, and fits.                *)
LEMMA TakenFacts ==
  ASSUME NEW bucket \in Seq(PoolEntry), NEW got \in Nat
  PROVE  /\ Taken(bucket, got) \in Nat
         /\ Taken(bucket, got) <= got
         /\ Taken(bucket, got) > 0 => Len(bucket) + Taken(bucket, got) <= PoolSize
  BY PoolSizeAssumption DEF Taken, Room

(* The far end closing a connection leaves the bucket's length alone.      *)
LEMMA CloseFacts ==
  ASSUME NEW bucket \in Seq(PoolEntry), NEW i \in 1..Len(bucket)
  PROVE  /\ [bucket EXCEPT ![i].open = FALSE] \in Seq(PoolEntry)
         /\ Len([bucket EXCEPT ![i].open = FALSE]) = Len(bucket)
<1>1. bucket[i] \in PoolEntry
  OBVIOUS
<1>2. [bucket[i] EXCEPT !.open = FALSE] \in PoolEntry
  BY <1>1 DEF PoolEntry
<1>3. QED
  BY <1>2

(* Taking the i-th connection drops it and everything above it.            *)
LEMMA TakeFacts ==
  ASSUME NEW bucket \in Seq(PoolEntry), NEW i \in 1..Len(bucket)
  PROVE  /\ SubSeq(bucket, 1, i - 1) \in Seq(PoolEntry)
         /\ Len(SubSeq(bucket, 1, i - 1)) = i - 1
         /\ bucket[i] \in PoolEntry
  BY SubSeqProperties

-----------------------------------------------------------------------------
(* Type correctness, with the keys it depends on. *)

(* A get spawns its refill, if any, with a bucket's key.                   *)
LEMMA SpawnFacts ==
  ASSUME TypeOK, KeyOK, NEW k \in Keys, NEW allow \in BOOLEAN,
         SpawnRefill(k, allow)
  PROVE  /\ task' \in [Tasks -> TaskState]
         /\ \A t \in Tasks : task'[t].pc # "free" => task'[t].key \in Keys
         /\ \A t \in Tasks :
              \/ task'[t] = task[t]
              \/ task[t].pc = "free" /\ task'[t].pc = "spawned" /\ task'[t].got = 0
<1>1. CASE ~allow
  BY <1>1 DEF SpawnRefill, TypeOK, KeyOK
<1>2. CASE allow
  <2>1. PICK t \in Tasks :
          /\ task[t].pc = "free"
          /\ task' = [task EXCEPT ![t] = [pc |-> "spawned", key |-> k,
                                          needed |-> 0, got |-> 0]]
    BY <1>2 DEF SpawnRefill
  <2>2. [pc |-> "spawned", key |-> k, needed |-> 0, got |-> 0] \in TaskState
    BY DEF TaskState
  <2>3. QED
    BY <2>1, <2>2 DEF TypeOK, KeyOK, TaskState
<1>3. QED
  BY <1>1, <1>2

(* The initial state satisfies the inductive invariant.                    *)
LEMMA InitIInv == Init => IInv
<1> SUFFICES ASSUME Init PROVE IInv
  OBVIOUS
<1>1. TypeOK
  BY DEF Init, TypeOK, TaskState, WarmState, ClientState, FreeTask, OutClient,
         NoEntry, PoolEntry
<1>2. KeyOK
  BY DEF Init, KeyOK, FreeTask, OutClient
<1>3. GuardExact
  BY DEF Init, GuardExact, Inside, FreeTask
<1>4. Counts
  BY PoolSizeAssumption DEF Init, Counts, TaskCount, Cap, FreeTask
<1>5. QED
  BY <1>1, <1>2, <1>3, <1>4 DEF IInv

(* A client's step keeps the types.                                        *)
LEMMA ClientType ==
  ASSUME TypeOK, KeyOK, NEW c \in Clients, ClientStep(c)
  PROVE  TypeOK' /\ KeyOK'
<1>1. ASSUME NEW k \in Keys, NEW allow \in BOOLEAN, Get(c, k, allow)
      PROVE  TypeOK' /\ KeyOK'
  BY <1>1 DEF Get, TypeOK, KeyOK, ClientState, NoEntry, PoolEntry
<1>2. CASE GetHit(c)
  <2> DEFINE k == client[c].key
  <2>1. k \in Keys /\ client[c].allow \in BOOLEAN /\ idle[k] \in Seq(PoolEntry)
    BY <1>2 DEF GetHit, TypeOK, KeyOK, ClientState
  <2>2. PICK i \in 1..Len(idle[k]) :
          /\ idle' = [idle EXCEPT ![k] = SubSeq(idle[k], 1, i - 1)]
          /\ client' = [client EXCEPT ![c].pc = "served", ![c].ws = idle[k][i]]
          /\ SpawnRefill(k, client[c].allow)
    BY <1>2 DEF GetHit
  <2>3. /\ SubSeq(idle[k], 1, i - 1) \in Seq(PoolEntry)
        /\ idle[k][i] \in PoolEntry
    BY <2>1, TakeFacts
  <2>4. /\ task' \in [Tasks -> TaskState]
        /\ \A t \in Tasks : task'[t].pc # "free" => task'[t].key \in Keys
    BY <2>1, <2>2, SpawnFacts
  <2>5. /\ client' \in [Clients -> ClientState]
        /\ \A d \in Clients : client'[d].pc = "locking" => client'[d].key \in Keys
    <3>1. PICK e : e = idle[k][i]
      OBVIOUS
    <3>2. e \in PoolEntry /\ client[c] \in ClientState /\ client \in [Clients -> ClientState]
      BY <2>3, <3>1 DEF TypeOK
    <3>3. PICK s : s = [client[c] EXCEPT !.pc = "served", !.ws = e]
      OBVIOUS
    <3>4. s \in ClientState /\ s.pc = "served"
      BY <3>2, <3>3 DEF ClientState
    <3>5. client' = [client EXCEPT ![c] = s]
      BY <2>2, <3>1, <3>2, <3>3
    <3>6. QED
      BY <3>2, <3>4, <3>5 DEF KeyOK
  <2>6. idle' \in [Keys -> Seq(PoolEntry)]
    BY <2>2, <2>3 DEF TypeOK
  <2>7. QED
    BY <1>2, <2>4, <2>5, <2>6 DEF GetHit, TypeOK, KeyOK
<1>3. CASE GetMiss(c)
  <2> DEFINE k == client[c].key
  <2>1. k \in Keys /\ client[c].allow \in BOOLEAN
    BY <1>3 DEF GetMiss, TypeOK, KeyOK, ClientState
  <2>2. /\ task' \in [Tasks -> TaskState]
        /\ \A t \in Tasks : task'[t].pc # "free" => task'[t].key \in Keys
    BY <1>3, <2>1, SpawnFacts DEF GetMiss
  <2>3. /\ client' \in [Clients -> ClientState]
        /\ \A d \in Clients : client'[d].pc = "locking" => client'[d].key \in Keys
    BY <1>3 DEF GetMiss, TypeOK, KeyOK, ClientState
  <2>4. idle' \in [Keys -> Seq(PoolEntry)]
    BY <1>3, EmptySeq DEF GetMiss, TypeOK
  <2>5. QED
    BY <1>3, <2>2, <2>3, <2>4 DEF GetMiss, TypeOK, KeyOK
<1>4. CASE Leave(c)
  BY <1>4 DEF Leave, TypeOK, KeyOK, ClientState, OutClient, NoEntry, PoolEntry
<1>5. QED
  BY <1>1, <1>2, <1>3, <1>4 DEF ClientStep

(* A refill task's step keeps the types.                                   *)
LEMMA RefillType ==
  ASSUME TypeOK, KeyOK, NEW t \in Tasks, Refill(t)
  PROVE  TypeOK' /\ KeyOK'
<1> USE PoolSizeAssumption
<1>1. CASE Register(t)
  <2>1. FreeTask \in TaskState
    BY DEF FreeTask, TaskState
  <2>2. [task[t] EXCEPT !.pc = "checking"] \in TaskState
    BY DEF TypeOK, TaskState
  <2>3. task' \in [Tasks -> TaskState]
    BY <1>1, <2>1, <2>2 DEF Register, TypeOK
  <2>4. \A u \in Tasks : task'[u].pc # "free" => task'[u].key \in Keys
    <3>1. task \in [Tasks -> TaskState] /\ task[t].pc = "spawned" /\ task[t].key \in Keys
      BY <1>1 DEF Register, TypeOK, KeyOK
    <3>2. PICK s : s = [task[t] EXCEPT !.pc = "checking"]
      OBVIOUS
    <3>3. FreeTask.pc = "free" /\ s.key = task[t].key
      BY <3>1, <3>2 DEF FreeTask, TaskState
    <3>4. task' = [task EXCEPT ![t] = FreeTask] \/ task' = [task EXCEPT ![t] = s]
      BY <1>1, <3>1, <3>2 DEF Register
    <3>5. QED
      BY <3>1, <3>3, <3>4 DEF KeyOK
  <2>5. refilling' \in SUBSET Keys
    BY <1>1 DEF Register, TypeOK, KeyOK
  <2>6. QED
    BY <1>1, <2>3, <2>4, <2>5 DEF Register, TypeOK, KeyOK
<1>2. CASE Check(t)
  <2>1. Len(idle[task[t].key]) \in Nat
    BY <1>2 DEF Check, TypeOK, KeyOK
  <2> DEFINE current == Len(idle[task[t].key])
             full == [task[t] EXCEPT !.pc = "releasing"]
             short == [task[t] EXCEPT !.pc = "dialing",
                                      !.needed = PoolSize - current]
  <2>2. full \in TaskState
    BY DEF TypeOK, TaskState
  <2>3. ASSUME current < PoolSize PROVE short \in TaskState
    <3> DEFINE n == PoolSize - current
    <3>1. n \in Nat
      BY <2>1, <2>3
    <3> HIDE DEF n
    <3>2. [task[t] EXCEPT !.pc = "dialing", !.needed = n] \in TaskState
      BY <3>1 DEF TypeOK, TaskState
    <3>3. QED
      BY <3>2 DEF n
  <2>4. task' = [task EXCEPT ![t] = IF current >= PoolSize THEN full ELSE short]
    BY <1>2 DEF Check, TypeOK
  <2>5. task' \in [Tasks -> TaskState]
    BY <2>1, <2>2, <2>4, <2>3 DEF TypeOK
  <2>6. \A u \in Tasks : task'[u].pc # "free" => task'[u].key \in Keys
    BY <1>2 DEF Check, TypeOK, KeyOK, TaskState
  <2>7. QED
    BY <1>2, <2>5, <2>6 DEF Check, TypeOK, KeyOK
<1>3. CASE DialOk(t)
  <2> DEFINE n == task[t].got + 1
  <2>1. n \in Nat
    BY DEF TypeOK, TaskState
  <2>2. PICK pc \in {"adding", "dialing"} :
          task' = [task EXCEPT ![t].got = n, ![t].pc = pc]
    BY <1>3 DEF DialOk
  <2> HIDE DEF n
  <2>3. task' \in [Tasks -> TaskState]
    BY <2>1, <2>2 DEF TypeOK, TaskState
  <2>4. \A u \in Tasks : task'[u].pc # "free" => task'[u].key \in Keys
    BY <1>3 DEF DialOk, TypeOK, KeyOK, TaskState
  <2>5. QED
    BY <1>3, <2>3, <2>4 DEF DialOk, TypeOK, KeyOK
<1>4. CASE DialFail(t)
  <2>1. task' \in [Tasks -> TaskState]
    BY <1>4 DEF DialFail, TypeOK, TaskState
  <2>2. \A u \in Tasks : task'[u].pc # "free" => task'[u].key \in Keys
    BY <1>4 DEF DialFail, TypeOK, KeyOK, TaskState
  <2>3. QED
    BY <1>4, <2>1, <2>2 DEF DialFail, TypeOK, KeyOK
<1>5. CASE Add(t)
  <2> DEFINE k == task[t].key
             n == Taken(idle[k], task[t].got)
  <2>1. k \in Keys /\ idle[k] \in Seq(PoolEntry) /\ task[t].got \in Nat
    BY <1>5 DEF Add, TypeOK, KeyOK, TaskState
  <2>2. Pushed(idle[k], n) \in Seq(PoolEntry)
    BY <2>1, TakenFacts, PushedFacts DEF TypeOK
  <2>3. idle' = [idle EXCEPT ![k] = Pushed(idle[k], n)]
    BY <1>5 DEF Add
  <2>4. idle' \in [Keys -> Seq(PoolEntry)]
    BY <2>2, <2>3 DEF TypeOK
  <2>5. task' \in [Tasks -> TaskState]
    BY <1>5 DEF Add, TypeOK, TaskState
  <2>6. \A u \in Tasks : task'[u].pc # "free" => task'[u].key \in Keys
    BY <1>5 DEF Add, TypeOK, KeyOK, TaskState
  <2>7. QED
    BY <1>5, <2>4, <2>5, <2>6 DEF Add, TypeOK, KeyOK
<1>6. CASE Release(t)
  <2>1. task' \in [Tasks -> TaskState]
    BY <1>6 DEF Release, TypeOK, TaskState, FreeTask
  <2>2. \A u \in Tasks : task'[u].pc # "free" => task'[u].key \in Keys
    BY <1>6 DEF Release, TypeOK, KeyOK, TaskState, FreeTask
  <2>3. QED
    BY <1>6, <2>1, <2>2 DEF Release, TypeOK, KeyOK
<1>7. QED
  BY <1>1, <1>2, <1>3, <1>4, <1>5, <1>6 DEF Refill

(* A step of the warmup task keeps the types.                              *)
LEMMA WarmupType ==
  ASSUME TypeOK, KeyOK, Warmup
  PROVE  TypeOK' /\ KeyOK'
<1>1. CASE WarmPick
  <2>1. ASSUME NEW k \in Keys, WarmNext(k),
               NEW pc \in {"adding", "dialing"},
               warm' = [warm EXCEPT !.key = k, !.got = 0, !.pc = pc]
        PROVE  warm' \in WarmState /\ warm'.key \in warm'.todo
    BY <2>1 DEF WarmNext, TypeOK, WarmState
  <2>2. ASSUME warm' = [warm EXCEPT !.pc = "done"]
        PROVE  warm' \in WarmState /\ warm'.pc = "done"
    BY <2>2 DEF TypeOK, WarmState
  <2>3. /\ warm' \in WarmState
        /\ warm'.pc \in {"dialing", "adding"} => warm'.key \in warm'.todo
    BY <1>1, <2>1, <2>2 DEF WarmPick
  <2>4. QED
    BY <1>1, <2>3 DEF WarmPick, TypeOK, KeyOK
<1>2. CASE WarmDialOk
  <2> DEFINE n == warm.got + 1
  <2>1. n \in Nat
    BY DEF TypeOK, WarmState
  <2>2. PICK pc \in {"adding", "dialing"} :
          warm' = [warm EXCEPT !.got = n, !.pc = pc]
    BY <1>2 DEF WarmDialOk
  <2> HIDE DEF n
  <2>3. warm' \in WarmState /\ warm'.key = warm.key /\ warm'.todo = warm.todo
    BY <2>1, <2>2 DEF TypeOK, WarmState
  <2>4. QED
    BY <1>2, <2>3 DEF WarmDialOk, TypeOK, KeyOK
<1>3. CASE WarmDialFail
  BY <1>3 DEF WarmDialFail, TypeOK, KeyOK, WarmState
<1>4. CASE WarmAdd
  <2>1. warm.key \in Keys /\ idle[warm.key] \in Seq(PoolEntry) /\ warm.got \in Nat
    BY <1>4 DEF WarmAdd, TypeOK, KeyOK, WarmState
  <2>2. Pushed(idle[warm.key], warm.got) \in Seq(PoolEntry)
    BY <2>1, PushedFacts DEF TypeOK
  <2>3. idle' \in [Keys -> Seq(PoolEntry)]
    BY <1>4, <2>2 DEF WarmAdd, TypeOK
  <2>4. QED
    BY <1>4, <2>3 DEF WarmAdd, TypeOK, KeyOK, WarmState
<1>5. QED
  BY <1>1, <1>2, <1>3, <1>4 DEF Warmup

(* Every step keeps the types.                                             *)
LEMMA TypeStep ==
  ASSUME TypeOK, KeyOK, [Next]_vars
  PROVE  TypeOK' /\ KeyOK'
<1>1. ASSUME NEW k \in Keys, RemoteClose(k)
      PROVE  TypeOK' /\ KeyOK'
  <2>1. PICK i \in 1..Len(idle[k]) :
          idle' = [idle EXCEPT ![k][i].open = FALSE]
    BY <1>1 DEF RemoteClose
  <2>2. [idle[k] EXCEPT ![i].open = FALSE] \in Seq(PoolEntry)
    BY CloseFacts DEF TypeOK
  <2>3. idle' \in [Keys -> Seq(PoolEntry)]
    BY <2>1, <2>2 DEF TypeOK
  <2>4. QED
    BY <1>1, <2>3 DEF RemoteClose, TypeOK, KeyOK
<1>2. CASE Tick
  BY <1>2 DEF Tick, TypeOK, KeyOK
<1>3. CASE UNCHANGED vars
  BY <1>3 DEF vars, TypeOK, KeyOK
<1>4. QED
  BY <1>1, <1>2, <1>3, ClientType, RefillType, WarmupType DEF Next

-----------------------------------------------------------------------------
(* The refilling set. *)

(* A client's step starts no refill that is already inside.                *)
LEMMA ClientTasks ==
  ASSUME TypeOK, KeyOK, NEW c \in Clients, ClientStep(c)
  PROVE  /\ UNCHANGED <<refilling, warm>>
         /\ \A t \in Tasks :
              \/ task'[t] = task[t]
              \/ task[t].pc = "free" /\ task'[t].pc = "spawned" /\ task'[t].got = 0
<1>1. CASE \E k \in Keys, allow \in BOOLEAN : Get(c, k, allow)
  BY <1>1 DEF Get
<1>2. CASE GetHit(c) \/ GetMiss(c)
  <2>1. /\ client[c].key \in Keys /\ client[c].allow \in BOOLEAN
        /\ SpawnRefill(client[c].key, client[c].allow)
    BY <1>2 DEF GetHit, GetMiss, TypeOK, KeyOK, ClientState
  <2>2. QED
    BY <1>2, <2>1, SpawnFacts DEF GetHit, GetMiss
<1>3. CASE Leave(c)
  BY <1>3 DEF Leave
<1>4. QED
  BY <1>1, <1>2, <1>3 DEF ClientStep

(* Every step keeps the refilling set exact.                               *)
LEMMA GuardStep ==
  ASSUME TypeOK, KeyOK, GuardExact, [Next]_vars
  PROVE  GuardExact'
<1>1. ASSUME NEW c \in Clients, ClientStep(c)
      PROVE  GuardExact'
  <2>1. /\ refilling' = refilling
        /\ \A t \in Tasks :
             \/ task'[t] = task[t]
             \/ task[t].pc = "free" /\ task'[t].pc = "spawned" /\ task'[t].got = 0
    BY <1>1, ClientTasks
  <2>2. \A t \in Tasks : /\ Inside(t)' <=> Inside(t)
                         /\ Inside(t) => task'[t].key = task[t].key
    BY <2>1 DEF Inside
  <2>3. QED
    BY <2>1, <2>2 DEF GuardExact
<1>2. ASSUME NEW t \in Tasks, Refill(t)
      PROVE  GuardExact'
  <2>1. CASE Register(t)
    <3>1. CASE task[t].key \in refilling
      <4>1. refilling' = refilling /\ ~Inside(t) /\ ~Inside(t)'
        BY <2>1, <3>1 DEF Register, TypeOK, Inside, FreeTask
      <4>2. \A u \in Tasks \ {t} : task'[u] = task[u]
        BY <2>1, <3>1 DEF Register, TypeOK
      <4>3. QED
        BY <4>1, <4>2 DEF GuardExact, Inside
    <3>2. CASE task[t].key \notin refilling
      <4>1. /\ refilling' = refilling \union {task[t].key}
            /\ task' = [task EXCEPT ![t].pc = "checking"]
        BY <2>1, <3>2 DEF Register
      <4>2. task'[t].key = task[t].key /\ Inside(t)' /\ ~Inside(t)
        BY <2>1, <4>1 DEF TypeOK, TaskState, Inside, Register
      <4>3. \A u \in Tasks \ {t} : task'[u] = task[u]
        BY <4>1 DEF TypeOK
      <4>4. QED
        BY <3>2, <4>1, <4>2, <4>3 DEF GuardExact, Inside
    <3>3. QED
      BY <3>1, <3>2
  <2>2. CASE Check(t) \/ DialOk(t) \/ DialFail(t) \/ Add(t)
    <3>1. /\ refilling' = refilling
          /\ task'[t].key = task[t].key /\ Inside(t)' /\ Inside(t)
      BY <2>2 DEF Check, DialOk, DialFail, Add, TypeOK, TaskState, Inside
    <3>2. \A u \in Tasks \ {t} : task'[u] = task[u]
      BY <2>2 DEF Check, DialOk, DialFail, Add, TypeOK
    <3>3. QED
      BY <3>1, <3>2 DEF GuardExact, Inside
  <2>3. CASE Release(t)
    <3>1. /\ refilling' = refilling \ {task[t].key}
          /\ Inside(t) /\ ~Inside(t)'
      BY <2>3 DEF Release, TypeOK, Inside, FreeTask
    <3>2. \A u \in Tasks \ {t} : task'[u] = task[u]
      BY <2>3 DEF Release, TypeOK
    <3>3. QED
      BY <3>1, <3>2 DEF GuardExact, Inside
  <2>4. QED
    BY <1>2, <2>1, <2>2, <2>3 DEF Refill
<1>3. CASE Warmup
  <2>1. refilling' = refilling /\ task' = task
    BY <1>3 DEF Warmup, WarmPick, WarmDialOk, WarmDialFail, WarmAdd
  <2>2. QED
    BY <2>1 DEF GuardExact, Inside
<1>4. CASE \/ \E k \in Keys : RemoteClose(k)
           \/ Tick
           \/ UNCHANGED vars
  <2>1. refilling' = refilling /\ task' = task
    BY <1>4 DEF RemoteClose, Tick, vars
  <2>2. QED
    BY <2>1 DEF GuardExact, Inside
<1>5. QED
  BY <1>1, <1>2, <1>3, <1>4 DEF Next

-----------------------------------------------------------------------------
(* The counts. *)

(* Shrinking buckets and starting tasks disturbs no count.                 *)
LEMMA ShrinkCounts ==
  ASSUME TypeOK, TypeOK', KeyOK, Counts, warm' = warm,
         \A k \in Keys : Len(idle'[k]) <= Len(idle[k]),
         \A t \in Tasks :
           \/ task'[t] = task[t]
           \/ task'[t].pc \in {"free", "releasing"}
           \/ task'[t].pc \in {"spawned", "checking"} /\ task'[t].got = 0
  PROVE  Counts'
<1>1. \A k \in Keys : /\ Cap(k)' = Cap(k) /\ Cap(k) \in Nat
                      /\ Len(idle[k]) \in Nat /\ Len(idle'[k]) \in Nat
  BY PoolSizeAssumption DEF Cap, TypeOK
<1>2. \A k \in Keys : Len(idle'[k]) <= Cap(k)'
  BY <1>1 DEF Counts
<1>3. ASSUME NEW t \in Tasks
      PROVE  TaskCount(t)'
  <2>1. CASE task'[t] = task[t]
    <3>1. CASE task[t].pc \in {"dialing", "adding"}
      <4>1. task[t].key \in Keys /\ task[t].needed \in Nat
        BY <3>1 DEF KeyOK, TypeOK, TaskState
      <4>2. QED
        BY <1>1, <2>1, <3>1, <4>1 DEF Counts, TaskCount
    <3>2. CASE task[t].pc \notin {"dialing", "adding"}
      BY <2>1, <3>2 DEF Counts, TaskCount
    <3>3. QED
      BY <3>1, <3>2
  <2>2. CASE task'[t] # task[t]
    BY <2>2 DEF TaskCount
  <2>3. QED
    BY <2>1, <2>2
<1>4. QED
  BY <1>2, <1>3 DEF Counts

(* A step of a refill task keeps the counts: what it pushes fits, because  *)
(* the room it measured is still set aside for it.                         *)
LEMMA RefillCounts ==
  ASSUME TypeOK, TypeOK', KeyOK, GuardExact, Counts,
         NEW t \in Tasks, Refill(t)
  PROVE  Counts'
<1>0. /\ warm' = warm
      /\ \A u \in Tasks \ {t} : task'[u] = task[u]
      /\ \A j \in Keys : /\ Cap(j)' = Cap(j) /\ Cap(j) \in Nat
                         /\ PoolSize <= Cap(j)
                         /\ Len(idle[j]) \in Nat /\ Len(idle'[j]) \in Nat
  BY PoolSizeAssumption DEF Refill, Register, Check, DialOk, DialFail, Add,
                            Release, Cap, TypeOK
<1>1. CASE Register(t) \/ Release(t)
  <2>1. /\ idle' = idle
        /\ \/ task'[t].pc = "free"
           \/ task'[t].pc = "checking" /\ task'[t].got = 0
    BY <1>1 DEF Register, Release, FreeTask, TypeOK, TaskState, Counts, TaskCount
  <2>2. \A j \in Keys : Len(idle'[j]) <= Len(idle[j])
    BY <1>0, <2>1
  <2>3. \A u \in Tasks :
          \/ task'[u] = task[u]
          \/ task'[u].pc \in {"free", "releasing"}
          \/ task'[u].pc \in {"spawned", "checking"} /\ task'[u].got = 0
    BY <1>0, <2>1
  <2>4. QED
    BY <1>0, <2>2, <2>3, ShrinkCounts
<1>2. CASE Check(t)
  <2>1. PICK k \in Keys : k = task[t].key /\ idle' = idle
    BY <1>2 DEF Check, KeyOK
  <2>2. CASE Len(idle[k]) >= PoolSize
    <3>1. task'[t].pc = "releasing"
      BY <1>2, <2>1, <2>2 DEF Check, TypeOK
    <3>2. QED
      BY <1>0, <2>1, <3>1, ShrinkCounts
  <2>3. CASE Len(idle[k]) < PoolSize
    <3>1. /\ task'[t].pc = "dialing" /\ task'[t].key = k
          /\ task'[t].needed = PoolSize - Len(idle[k])
          /\ task'[t].got = 0
      BY <1>0, <1>2, <2>1, <2>3, PoolSizeAssumption
         DEF Check, TypeOK, TaskState, Counts, TaskCount
    <3>2. TaskCount(t)'
      BY <1>0, <2>1, <2>3, <3>1, PoolSizeAssumption DEF TaskCount, Counts
    <3>3. QED
      BY <1>0, <2>1, <3>2 DEF Counts, TaskCount, Cap
  <2>4. QED
    BY <1>0, <2>1, <2>2, <2>3, PoolSizeAssumption
<1>3. CASE DialOk(t) \/ DialFail(t)
  <2>1. PICK k \in Keys : k = task[t].key /\ idle' = idle
    BY <1>3 DEF DialOk, DialFail, KeyOK
  <2>2. TaskCount(t)'
    <3>1. CASE DialOk(t)
      <4>1. /\ task'[t].key = k /\ task'[t].needed = task[t].needed
            /\ task'[t].got = task[t].got + 1
            /\ task'[t].pc = IF task[t].got + 1 = task[t].needed
                             THEN "adding" ELSE "dialing"
            /\ task[t].got \in Nat /\ task[t].needed \in Nat
        BY <2>1, <3>1 DEF DialOk, TypeOK, TaskState
      <4>2. QED
        BY <1>0, <2>1, <3>1, <4>1 DEF DialOk, TaskCount, Counts
    <3>2. CASE DialFail(t)
      <4>1. /\ task'[t].key = k /\ task'[t].needed = task[t].needed
            /\ task'[t].got = task[t].got
            /\ task'[t].pc \in {"releasing", "adding"}
            /\ task[t].got \in Nat /\ task[t].needed \in Nat
        BY <2>1, <3>2 DEF DialFail, TypeOK, TaskState
      <4>2. QED
        BY <1>0, <2>1, <3>2, <4>1 DEF DialFail, TaskCount, Counts
    <3>3. QED
      BY <1>3, <3>1, <3>2
  <2>3. QED
    BY <1>0, <2>1, <2>2 DEF Counts, TaskCount, Cap
<1>4. CASE Add(t)
  <2>1. PICK k \in Keys :
          /\ k = task[t].key /\ idle[k] \in Seq(PoolEntry)
          /\ task[t].got \in Nat /\ task[t].needed \in Nat
    BY <1>4 DEF Add, KeyOK, TypeOK, TaskState
  <2> DEFINE n == Taken(idle[k], task[t].got)
  <2>2. n \in Nat /\ n <= task[t].got
    BY <2>1, TakenFacts
  <2>3. /\ idle' = [idle EXCEPT ![k] = Pushed(idle[k], n)]
        /\ task'[t].pc = "releasing"
    BY <1>4, <2>1 DEF Add, TypeOK
  <2>4. Len(idle'[k]) = Len(idle[k]) + n
    BY <2>1, <2>2, <2>3, PushedFacts DEF TypeOK
  <2> HIDE DEF n
  <2>5. task[t].got <= task[t].needed /\ Len(idle[k]) + task[t].needed <= Cap(k)
    BY <1>4, <2>1 DEF Add, Counts, TaskCount
  <2>6. \A j \in Keys \ {k} : idle'[j] = idle[j]
    BY <2>3 DEF TypeOK
  <2>7. \A j \in Keys : Len(idle'[j]) <= Cap(j)'
    <3>1. Len(idle[k]) \in Nat /\ Cap(k) \in Nat /\ Cap(k)' = Cap(k)
      BY <1>0, <2>1
    <3>2. Len(idle'[k]) <= Cap(k)'
      BY <2>1, <2>2, <2>4, <2>5, <3>1
    <3>3. QED
      BY <1>0, <2>6, <3>2 DEF Counts
  <2>8. ASSUME NEW u \in Tasks PROVE TaskCount(u)'
    <3>1. CASE u = t
      BY <2>3, <3>1 DEF TaskCount
    <3>2. CASE u # t /\ task[u].pc \in {"dialing", "adding"}
      <4>1. task[u].key \in Keys \ {k}
        BY <1>4, <2>1, <3>2 DEF GuardExact, Inside, KeyOK, Add
      <4>2. QED
        BY <1>0, <2>6, <3>2, <4>1 DEF Counts, TaskCount
    <3>3. CASE u # t /\ task[u].pc \notin {"dialing", "adding"}
      BY <1>0, <3>3 DEF Counts, TaskCount
    <3>4. QED
      BY <3>1, <3>2, <3>3
  <2>9. QED
    BY <1>0, <2>7, <2>8 DEF Counts
<1>5. QED
  BY <1>1, <1>2, <1>3, <1>4 DEF Refill

(* A step of warmup keeps the counts: its one push into a bucket is paid   *)
(* for by the bucket leaving warm.todo.                                    *)
LEMMA WarmupCounts ==
  ASSUME TypeOK, TypeOK', KeyOK, Counts, Warmup
  PROVE  Counts'
<1> USE PoolSizeAssumption
<1>0. task' = task
  BY DEF Warmup, WarmPick, WarmDialOk, WarmDialFail, WarmAdd
<1>1. ASSUME idle' = idle, warm'.todo = warm.todo
      PROVE  /\ \A k \in Keys : (Len(idle[k]) <= Cap(k))'
             /\ \A t \in Tasks : TaskCount(t)'
  BY <1>0, <1>1 DEF Counts, TaskCount, Cap
<1>2. CASE WarmPick
  <2>1. /\ idle' = idle /\ warm'.todo = warm.todo
        /\ warm'.pc = "dialing" => warm'.got = 0 /\ PoolSize # 0
        /\ warm'.pc = "adding" => warm'.got = 0
    BY <1>2 DEF WarmPick, TypeOK, WarmState
  <2>2. QED
    BY <1>1, <2>1 DEF Counts
<1>3. CASE WarmDialOk
  <2>1. /\ idle' = idle /\ warm'.todo = warm.todo /\ warm.got \in Nat
        /\ warm.got < PoolSize /\ warm'.got = warm.got + 1
        /\ warm'.pc = IF warm.got + 1 = PoolSize THEN "adding" ELSE "dialing"
    BY <1>3 DEF WarmDialOk, TypeOK, WarmState, Counts
  <2>2. QED
    BY <1>1, <2>1 DEF Counts
<1>4. CASE WarmDialFail
  <2>1. /\ idle' = idle /\ warm'.todo = warm.todo /\ warm.got \in Nat
        /\ warm.got < PoolSize /\ warm'.got = warm.got /\ warm'.pc = "adding"
    BY <1>4 DEF WarmDialFail, TypeOK, WarmState, Counts
  <2>2. QED
    BY <1>1, <2>1 DEF Counts
<1>5. CASE WarmAdd
  <2>1. PICK k \in Keys :
          /\ k = warm.key /\ k \in warm.todo /\ idle[k] \in Seq(PoolEntry)
          /\ warm.got \in Nat /\ warm.got <= PoolSize
          /\ Len(idle[k]) \in Nat
    BY <1>5 DEF WarmAdd, KeyOK, TypeOK, WarmState, Counts
  <2>2. /\ idle' = [idle EXCEPT ![k] = Pushed(idle[k], warm.got)]
        /\ warm'.todo = warm.todo \ {k} /\ warm'.pc = "pick"
    BY <1>5, <2>1 DEF WarmAdd, TypeOK, WarmState
  <2>3. Len(idle'[k]) = Len(idle[k]) + warm.got
    BY <2>1, <2>2, PushedFacts DEF TypeOK
  <2>4. Cap(k) = PoolSize /\ Cap(k)' = 2 * PoolSize
    BY <2>1, <2>2 DEF Cap
  <2>5. \A j \in Keys \ {k} : idle'[j] = idle[j] /\ Cap(j)' = Cap(j)
    BY <2>2 DEF TypeOK, Cap
  <2>6. \A j \in Keys : Len(idle'[j]) <= Cap(j)'
    BY <2>1, <2>3, <2>4, <2>5 DEF Counts
  <2>7. ASSUME NEW t \in Tasks PROVE TaskCount(t)'
    <3>1. CASE task[t].pc \in {"dialing", "adding"}
      <4>1. task[t].key \in Keys /\ task[t].needed \in Nat
        BY <3>1 DEF KeyOK, TypeOK, TaskState
      <4>2. CASE task[t].key = k
        <5>1. Len(idle[k]) + task[t].needed <= PoolSize
          BY <2>4, <3>1, <4>2 DEF Counts, TaskCount
        <5>2. Len(idle'[k]) + task[t].needed <= 2 * PoolSize
          BY <2>1, <2>3, <4>1, <5>1
        <5>3. QED
          BY <1>0, <2>4, <3>1, <4>2, <5>2 DEF Counts, TaskCount
      <4>3. CASE task[t].key # k
        BY <1>0, <2>5, <3>1, <4>1, <4>3 DEF Counts, TaskCount
      <4>4. QED
        BY <4>2, <4>3
    <3>2. CASE task[t].pc \notin {"dialing", "adding"}
      BY <1>0, <3>2 DEF Counts, TaskCount
    <3>3. QED
      BY <3>1, <3>2
  <2>8. QED
    BY <2>2, <2>6, <2>7 DEF Counts
<1>6. QED
  BY <1>2, <1>3, <1>4, <1>5 DEF Warmup

(* Every step keeps the counts.                                            *)
LEMMA CountStep ==
  ASSUME TypeOK, TypeOK', KeyOK, GuardExact, Counts, [Next]_vars
  PROVE  Counts'
<1>1. ASSUME NEW c \in Clients, ClientStep(c)
      PROVE  Counts'
  <2>1. \A k \in Keys : Len(idle'[k]) <= Len(idle[k])
    <3>1. CASE GetHit(c)
      <4> DEFINE k == client[c].key
      <4>1. k \in Keys /\ idle[k] \in Seq(PoolEntry)
        BY <3>1 DEF GetHit, KeyOK, TypeOK
      <4>2. PICK i \in 1..Len(idle[k]) :
              idle' = [idle EXCEPT ![k] = SubSeq(idle[k], 1, i - 1)]
        BY <3>1 DEF GetHit
      <4>3. Len(idle'[k]) = i - 1
        BY <4>1, <4>2, TakeFacts DEF TypeOK
      <4>4. QED
        BY <4>1, <4>2, <4>3 DEF TypeOK
    <3>2. CASE GetMiss(c)
      BY <3>2 DEF GetMiss, TypeOK
    <3>3. CASE UNCHANGED idle
      BY <3>3 DEF TypeOK
    <3>4. QED
      BY <1>1, <3>1, <3>2, <3>3 DEF ClientStep, Get, Leave
  <2>2. QED
    BY <1>1, <2>1, ClientTasks, ShrinkCounts
<1>2. ASSUME NEW k \in Keys, RemoteClose(k)
      PROVE  Counts'
  <2>1. PICK i \in 1..Len(idle[k]) :
          idle' = [idle EXCEPT ![k][i].open = FALSE]
    BY <1>2 DEF RemoteClose
  <2>2. Len([idle[k] EXCEPT ![i].open = FALSE]) = Len(idle[k])
    BY CloseFacts DEF TypeOK
  <2>3. \A j \in Keys : Len(idle'[j]) <= Len(idle[j])
    BY <2>1, <2>2 DEF TypeOK
  <2>4. QED
    BY <1>2, <2>3, ShrinkCounts DEF RemoteClose
<1>3. CASE Tick \/ UNCHANGED vars
  <2>1. UNCHANGED <<idle, task, warm>>
    BY <1>3 DEF Tick, vars
  <2>2. QED
    BY <2>1, ShrinkCounts DEF TypeOK
<1>4. QED
  BY <1>1, <1>2, <1>3, RefillCounts, WarmupCounts DEF Next

-----------------------------------------------------------------------------
(* The inductive invariant holds in every reachable state.                 *)
THEOREM Invariance == Spec => []IInv
<1>1. IInv /\ [Next]_vars => IInv'
  BY TypeStep, GuardStep, CountStep DEF IInv
<1>2. QED
  BY InitIInv, <1>1, PTL DEF Spec

(* pool.rs keeps its state well formed: TypeOK is an invariant for every   *)
(* set of DCs, clients and tasks and every pool_size.                      *)
THEOREM TypeCorrect == Spec => []TypeOK
  BY Invariance, PTL DEF IInv

(* RefillGuard: for any number of concurrent refills the refilling set     *)
(* names exactly the buckets being refilled, each by one task.             *)
THEOREM GuardIsExact == Spec => []GuardExact
  BY Invariance, PTL DEF IInv

(* The reservation of 2 * pool_size descriptors for a bucket (main.rs,     *)
(* limits.rs) is never exceeded, warmup included.                          *)
THEOREM FdBudgetHolds == Spec => []FdBudget
<1>1. IInv => FdBudget
  <2> SUFFICES ASSUME IInv, NEW k \in Keys
               PROVE  /\ Len(idle[k]) + WarmFds(k) <= 2 * PoolSize
                      /\ \A t \in Tasks :
                           RefillFds(t, k) > 0 =>
                             /\ Len(idle[k]) + WarmFds(k) + RefillFds(t, k)
                                  <= 2 * PoolSize
                             /\ \A u \in Tasks \ {t} : RefillFds(u, k) = 0
    BY DEF FdBudget
  <2> USE PoolSizeAssumption DEF IInv
  <2>1. /\ Len(idle[k]) \in Nat /\ WarmFds(k) \in Nat
        /\ Len(idle[k]) <= Cap(k)
        /\ Cap(k) + WarmFds(k) <= 2 * PoolSize
    BY DEF TypeOK, WarmState, Counts, KeyOK, Cap, WarmFds, BatchFds
  <2>2. ASSUME NEW t \in Tasks, RefillFds(t, k) > 0
        PROVE  /\ Len(idle[k]) + WarmFds(k) + RefillFds(t, k) <= 2 * PoolSize
               /\ \A u \in Tasks \ {t} : RefillFds(u, k) = 0
    <3>1. task[t].key = k /\ task[t].pc \in {"dialing", "adding"}
      BY <2>2 DEF RefillFds, BatchFds
    <3>2. /\ task[t].got \in Nat /\ task[t].needed \in Nat
          /\ RefillFds(t, k) \in Nat /\ RefillFds(t, k) <= task[t].needed
      BY <3>1 DEF RefillFds, BatchFds, TypeOK, TaskState, Counts, TaskCount
    <3>3. Len(idle[k]) + task[t].needed <= Cap(k)
      BY <3>1 DEF Counts, TaskCount
    <3>4. Cap(k) \in Nat
      BY DEF Cap
    <3>5. ASSUME NEW u \in Tasks \ {t} PROVE RefillFds(u, k) = 0
      BY <3>1 DEF GuardExact, Inside, RefillFds, BatchFds
    <3>6. QED
      BY <2>1, <3>2, <3>3, <3>4, <3>5
  <2>3. QED
    BY <2>1, <2>2 DEF Cap
<1>2. QED
  BY Invariance, <1>1, PTL

-----------------------------------------------------------------------------
(* What a step does to a bucket. *)

(* "Re-check available space": a refill never grows a bucket past          *)
(* pool_size, whatever was pushed between its check and its push.          *)
THEOREM RefillsKeepSize == Spec => RefillKeepsSize
<1>1. ASSUME IInv, Next, NEW k \in Keys, Len(idle'[k]) > Len(idle[k]), UNCHANGED warm
      PROVE  Len(idle'[k]) <= PoolSize
  <2> USE <1>1 DEF IInv
  <2>1. idle \in [Keys -> Seq(PoolEntry)] /\ Len(idle[k]) \in Nat
    BY DEF TypeOK
  <2>2. idle' # idle
    BY <2>1
  <2>3. ASSUME NEW c \in Clients, ClientStep(c) PROVE FALSE
    <3>1. CASE GetHit(c)
      <4> DEFINE l == client[c].key
      <4>1. l \in Keys /\ idle[l] \in Seq(PoolEntry)
        BY <3>1 DEF GetHit, KeyOK, TypeOK
      <4>2. PICK i \in 1..Len(idle[l]) :
              idle' = [idle EXCEPT ![l] = SubSeq(idle[l], 1, i - 1)]
        BY <3>1 DEF GetHit
      <4>3. Len(SubSeq(idle[l], 1, i - 1)) = i - 1 /\ Len(idle[l]) \in Nat
        BY <4>1, TakeFacts
      <4> HIDE DEF l
      <4>4. idle'[k] = IF k = l THEN SubSeq(idle[l], 1, i - 1) ELSE idle[k]
        BY <2>1, <4>2
      <4>5. QED
        BY <2>1, <4>3, <4>4
    <3>2. CASE GetMiss(c)
      <4>1. idle'[k] = <<>> \/ idle'[k] = idle[k]
        BY <2>1, <3>2 DEF GetMiss
      <4>2. QED
        BY <2>1, <4>1
    <3>3. QED
      BY <2>2, <2>3, <3>1, <3>2 DEF ClientStep, Get, Leave
  <2>4. ASSUME NEW t \in Tasks, Refill(t) PROVE Len(idle'[k]) <= PoolSize
    <3>1. Add(t)
      BY <2>2, <2>4 DEF Refill, Register, Check, DialOk, DialFail, Release
    <3> DEFINE l == task[t].key
               n == Taken(idle[l], task[t].got)
    <3>2. l \in Keys /\ idle[l] \in Seq(PoolEntry) /\ task[t].got \in Nat /\ now \in Nat
      BY <3>1 DEF Add, TypeOK, KeyOK, TaskState
    <3>3. n \in Nat /\ (n > 0 => Len(idle[l]) + n <= PoolSize)
      BY <3>2, TakenFacts
    <3>4. idle' = [idle EXCEPT ![l] = Pushed(idle[l], n)]
      BY <3>1 DEF Add
    <3> HIDE DEF l, n
    <3>5. Len(Pushed(idle[l], n)) = Len(idle[l]) + n /\ Len(idle[l]) \in Nat
      <4>1. Len(Pushed(idle[l], n)) = Len(idle[l]) + n
        BY ONLY <3>2, <3>3, PushedFacts, Zenon
      <4>2. Len(idle[l]) \in Nat
        BY <3>2
      <4>3. QED
        BY <4>1, <4>2
    <3>6. idle'[k] = IF k = l THEN Pushed(idle[l], n) ELSE idle[k]
      BY <2>1, <3>4
    <3>7. k = l /\ n > 0
      BY <2>1, <3>3, <3>5, <3>6
    <3>8. QED
      BY <3>3, <3>5, <3>6, <3>7
  <2>5. ~Warmup
    BY <2>2 DEF Warmup, WarmPick, WarmDialOk, WarmDialFail, WarmAdd, TypeOK, WarmState
  <2>6. ASSUME NEW l \in Keys, RemoteClose(l) PROVE FALSE
    <3>1. PICK i \in 1..Len(idle[l]) :
            idle' = [idle EXCEPT ![l][i].open = FALSE]
      BY <2>6 DEF RemoteClose
    <3>2. idle'[k] = IF k = l THEN [idle[l] EXCEPT ![i].open = FALSE] ELSE idle[k]
      BY <2>1, <3>1
    <3>3. idle[l] \in Seq(PoolEntry)
      BY <2>1
    <3>4. Len([idle[l] EXCEPT ![i].open = FALSE]) = Len(idle[l])
      BY <3>3, CloseFacts
    <3>5. QED
      BY <2>1, <3>2, <3>4
  <2>7. ~Tick
    BY <2>2 DEF Tick
  <2>8. QED
    BY <2>3, <2>4, <2>5, <2>6, <2>7 DEF Next
<1>2. IInv /\ [Next]_vars =>
        [\A k \in Keys :
           Len(idle'[k]) > Len(idle[k]) /\ UNCHANGED warm
             => Len(idle'[k]) <= PoolSize]_vars
  BY <1>1
<1>3. QED
  BY Invariance, <1>2, PTL DEF Spec, RefillKeepsSize

(* A bucket is in the order its connections were pushed, none of them      *)
(* later than the clock: what lies further up is fresher.                  *)
Sorted(bucket, at) ==
  /\ \A i \in 1..Len(bucket) : bucket[i].created <= at
  /\ \A i, j \in 1..Len(bucket) : i <= j => bucket[i].created <= bucket[j].created

IdleSorted == \A k \in Keys : Sorted(idle[k], now)

(* Taking from the top keeps a bucket sorted.                              *)
LEMMA TakeSorted ==
  ASSUME NEW bucket \in Seq(PoolEntry), NEW at \in Nat, Sorted(bucket, at),
         NEW i \in 1..Len(bucket)
  PROVE  /\ Sorted(SubSeq(bucket, 1, i - 1), at)
         /\ \A j \in 1..Len(SubSeq(bucket, 1, i - 1)) :
              SubSeq(bucket, 1, i - 1)[j].created <= bucket[i].created
<1> DEFINE s == SubSeq(bucket, 1, i - 1)
<1>1. Len(s) = i - 1 /\ \A j \in 1..(i - 1) : s[j] = bucket[j]
  BY SubSeqProperties
<1>2. \A j \in 1..(i - 1) : j \in 1..Len(bucket) /\ j <= i
  OBVIOUS
<1> HIDE DEF s
<1>3. Sorted(s, at) /\ \A j \in 1..Len(s) : s[j].created <= bucket[i].created
  BY <1>1, <1>2 DEF Sorted
<1>4. QED
  BY <1>3 DEF s

(* Pushing at the top, with the clock's reading, keeps it sorted.          *)
LEMMA PushSorted ==
  ASSUME NEW bucket \in Seq(PoolEntry), NEW n \in Nat, now \in Nat,
         Sorted(bucket, now)
  PROVE  Sorted(Pushed(bucket, n), now)
<1> DEFINE m == Len(bucket)
           p == Pushed(bucket, n)
           batch == [i \in 1..n |-> FreshEntry]
<1>1. FreshEntry \in PoolEntry /\ FreshEntry.created = now
  BY DEF FreshEntry, PoolEntry
<1>2. batch \in Seq(PoolEntry) /\ Len(batch) = n /\ \A i \in 1..n : batch[i] = FreshEntry
  BY <1>1
<1>3. /\ m \in Nat /\ Len(p) = m + n
      /\ \A i \in 1..(m + n) : p[i] = IF i <= m THEN bucket[i] ELSE batch[i - m]
  <2> HIDE DEF batch
  <2>1. p = bucket \o batch
    BY DEF Pushed, batch
  <2>2. /\ m \in Nat /\ Len(bucket \o batch) = m + n
        /\ \A i \in 1..(m + n) :
             (bucket \o batch)[i] = IF i <= m THEN bucket[i] ELSE batch[i - m]
    BY <1>2
  <2>3. QED
    BY <2>1, <2>2
<1> HIDE DEF batch, p
<1>4. ASSUME NEW i \in 1..(m + n)
      PROVE  p[i].created = IF i <= m THEN bucket[i].created ELSE now
  <2>1. CASE i <= m
    BY <1>3, <2>1
  <2>2. CASE ~(i <= m)
    <3>1. i - m \in 1..n
      BY <1>3, <2>2
    <3>2. p[i] = batch[i - m]
      BY <1>3, <2>2
    <3>3. QED
      BY <1>1, <1>2, <2>2, <3>1, <3>2
  <2>3. QED
    BY <2>1, <2>2
<1>5. \A i \in 1..(m + n) : i <= m => i \in 1..m
  BY <1>3
<1>6. ASSUME NEW i \in 1..(m + n) PROVE p[i].created <= now
  BY <1>4, <1>5 DEF Sorted
<1>7. ASSUME NEW i \in 1..(m + n), NEW j \in 1..(m + n), i <= j
      PROVE  p[i].created <= p[j].created
  <2>1. CASE j <= m
    <3>1. i \in 1..m /\ j \in 1..m
      BY <1>3, <1>7, <2>1
    <3>2. QED
      BY <1>4, <1>7, <2>1, <3>1 DEF Sorted
  <2>2. CASE ~(j <= m)
    BY <1>4, <1>6, <2>2
  <2>3. QED
    BY <2>1, <2>2
<1>8. Sorted(p, now)
  BY <1>3, <1>6, <1>7 DEF Sorted
<1>9. QED
  BY <1>8 DEF p

(* The far end closing a connection leaves the order alone.                *)
LEMMA CloseSorted ==
  ASSUME NEW bucket \in Seq(PoolEntry), NEW i \in 1..Len(bucket), NEW at \in Nat,
         Sorted(bucket, at)
  PROVE  Sorted([bucket EXCEPT ![i].open = FALSE], at)
<1> DEFINE b == [bucket EXCEPT ![i].open = FALSE]
           e == [bucket[i] EXCEPT !.open = FALSE]
<1>1. e.created = bucket[i].created
  BY DEF PoolEntry
<1>2. b = [bucket EXCEPT ![i] = e]
  OBVIOUS
<1>3. Len(b) = Len(bucket)
  BY CloseFacts
<1> HIDE DEF b, e
<1>4. \A j \in 1..Len(bucket) : b[j].created = bucket[j].created
  BY <1>1, <1>2
<1>5. Sorted(b, at)
  BY <1>3, <1>4 DEF Sorted
<1>6. QED
  BY <1>5 DEF b

(* Every step keeps the buckets sorted.                                    *)
LEMMA SortedStep ==
  ASSUME IInv, IdleSorted, [Next]_vars
  PROVE  IdleSorted'
<1> USE DEF IInv
<1>0. idle \in [Keys -> Seq(PoolEntry)] /\ now \in Nat
  BY DEF TypeOK
<1>1. ASSUME NEW l \in Keys, NEW b, Sorted(b, now),
             idle' = [idle EXCEPT ![l] = b], now' = now
      PROVE  IdleSorted'
  <2>1. ASSUME NEW k \in Keys PROVE Sorted(idle'[k], now')
    <3>1. idle'[k] = IF k = l THEN b ELSE idle[k]
      BY <1>0, <1>1
    <3>2. QED
      BY <1>1, <3>1 DEF IdleSorted
  <2>2. QED
    BY <2>1 DEF IdleSorted
<1>2. ASSUME UNCHANGED <<idle, now>> PROVE IdleSorted'
  BY <1>2 DEF IdleSorted
<1>3. ASSUME NEW c \in Clients, GetHit(c) PROVE IdleSorted'
  <2> DEFINE l == client[c].key
  <2>1. l \in Keys /\ idle[l] \in Seq(PoolEntry) /\ now' = now
    BY <1>3 DEF GetHit, KeyOK, TypeOK
  <2>2. PICK i \in 1..Len(idle[l]) :
          idle' = [idle EXCEPT ![l] = SubSeq(idle[l], 1, i - 1)]
    BY <1>3 DEF GetHit
  <2>3. Sorted(SubSeq(idle[l], 1, i - 1), now)
    BY <1>0, <2>1, TakeSorted DEF IdleSorted
  <2> HIDE DEF l
  <2>4. QED
    BY <1>1, <2>1, <2>2, <2>3
<1>4. ASSUME NEW c \in Clients, GetMiss(c) PROVE IdleSorted'
  <2>1. Sorted(<<>>, now)
    BY DEF Sorted
  <2>2. client[c].key \in Keys /\ now' = now
        /\ idle' = [idle EXCEPT ![client[c].key] = <<>>]
    BY <1>4 DEF GetMiss, KeyOK
  <2>3. QED
    BY <1>1, <2>1, <2>2
<1>5. ASSUME NEW t \in Tasks, Add(t) PROVE IdleSorted'
  <2> DEFINE l == task[t].key
             n == Taken(idle[l], task[t].got)
  <2>1. l \in Keys /\ idle[l] \in Seq(PoolEntry) /\ task[t].got \in Nat
    BY <1>5 DEF Add, TypeOK, KeyOK, TaskState
  <2>2. n \in Nat
    BY <2>1, TakenFacts
  <2>3. idle' = [idle EXCEPT ![l] = Pushed(idle[l], n)] /\ now' = now
    BY <1>5 DEF Add
  <2> HIDE DEF n
  <2>4. Sorted(Pushed(idle[l], n), now)
    BY <1>0, <2>1, <2>2, PushSorted DEF IdleSorted
  <2> HIDE DEF l
  <2>5. QED
    BY <1>1, <2>1, <2>3, <2>4
<1>6. CASE WarmAdd
  <2>1. PICK l \in Keys : l = warm.key /\ idle[l] \in Seq(PoolEntry) /\ warm.got \in Nat
    BY <1>6 DEF WarmAdd, TypeOK, KeyOK, WarmState
  <2>2. idle' = [idle EXCEPT ![l] = Pushed(idle[l], warm.got)] /\ now' = now
    BY <1>6, <2>1 DEF WarmAdd
  <2>3. Sorted(Pushed(idle[l], warm.got), now)
    BY <1>0, <2>1, PushSorted DEF IdleSorted
  <2>4. QED
    BY <1>1, <2>2, <2>3
<1>7. ASSUME NEW l \in Keys, RemoteClose(l) PROVE IdleSorted'
  <2>1. PICK i \in 1..Len(idle[l]) :
          idle' = [idle EXCEPT ![l][i].open = FALSE]
    BY <1>7 DEF RemoteClose
  <2>2. idle' = [idle EXCEPT ![l] = [idle[l] EXCEPT ![i].open = FALSE]] /\ now' = now
    BY <1>0, <1>7, <2>1 DEF RemoteClose
  <2>3. idle[l] \in Seq(PoolEntry)
    BY <1>0
  <2>4. Sorted([idle[l] EXCEPT ![i].open = FALSE], now)
    BY <1>0, <2>3, CloseSorted DEF IdleSorted
  <2>5. QED
    BY <1>1, <2>2, <2>4
<1>8. CASE Tick
  <2>1. idle' = idle /\ now' = now + 1
    BY <1>8 DEF Tick
  <2>2. ASSUME NEW k \in Keys PROVE Sorted(idle[k], now + 1)
    <3>1. idle[k] \in Seq(PoolEntry) /\ Sorted(idle[k], now)
      BY <1>0 DEF IdleSorted
    <3>2. ASSUME NEW i \in 1..Len(idle[k]) PROVE idle[k][i].created \in Nat
      <4>1. idle[k][i] \in PoolEntry
        BY <3>1
      <4>2. QED
        BY <4>1 DEF PoolEntry
    <3>3. QED
      BY <1>0, <3>1, <3>2 DEF Sorted
  <2>3. QED
    BY <2>1, <2>2 DEF IdleSorted
<1>9. CASE Warmup /\ ~WarmAdd
  BY <1>2, <1>9 DEF Warmup, WarmPick, WarmDialOk, WarmDialFail
<1>10. ASSUME NEW t \in Tasks, Refill(t), ~Add(t) PROVE IdleSorted'
  BY <1>2, <1>10 DEF Refill, Register, Check, DialOk, DialFail, Release
<1>11. ASSUME NEW c \in Clients, ClientStep(c) PROVE IdleSorted'
  BY <1>2, <1>3, <1>4, <1>11 DEF ClientStep, Get, Leave
<1>12. CASE UNCHANGED vars
  BY <1>2, <1>12 DEF vars
<1>13. QED
  BY <1>5, <1>6, <1>7, <1>8, <1>9, <1>10, <1>11, <1>12 DEF Next

(* "The freshest connections are used first": get hands out an open        *)
(* connection within max_age, and leaves none behind that was opened       *)
(* later.                                                                  *)
THEOREM FreshestFirst == Spec => HandsOutFreshest
<1> DEFINE Freshness(c) ==
             LET k == client[c].key
             IN /\ client'[c].ws.open
                /\ client[c].at - client'[c].ws.created <= MaxAge
                /\ \A i \in 1..Len(idle'[k]) :
                     idle'[k][i].created <= client'[c].ws.created
<1>1. ASSUME IInv, IdleSorted, Next, NEW c \in Clients,
             client[c].pc = "locking", client'[c].pc = "served"
      PROVE  Freshness(c)
  <2> USE <1>1 DEF IInv
  <2>0. client \in [Clients -> ClientState] /\ idle \in [Keys -> Seq(PoolEntry)]
        /\ now \in Nat
    BY DEF TypeOK
  <2>1. GetHit(c)
    <3>1. client'[c] # client[c]
      OBVIOUS
    <3>2. ASSUME NEW d \in Clients, ClientStep(d) PROVE GetHit(c)
      <4>1. CASE \E k \in Keys, allow \in BOOLEAN : Get(d, k, allow)
        BY <2>0, <4>1 DEF Get
      <4>2. CASE GetHit(d)
        <5>1. PICK ws : client' = [client EXCEPT ![d].pc = "served", ![d].ws = ws]
          BY <4>2 DEF GetHit
        <5>2. d = c
          BY <2>0, <3>1, <5>1
        <5>3. QED
          BY <4>2, <5>2
      <4>3. CASE GetMiss(d)
        BY <2>0, <4>3 DEF GetMiss
      <4>4. CASE Leave(d)
        BY <2>0, <4>4 DEF Leave, OutClient
      <4>5. QED
        BY <3>2, <4>1, <4>2, <4>3, <4>4 DEF ClientStep
    <3>3. ASSUME client' = client PROVE FALSE
      BY <3>1, <3>3
    <3>4. QED
      BY <3>2, <3>3 DEF Next, Refill, Register, Check, DialOk, DialFail, Add, Release,
         Warmup, WarmPick, WarmDialOk, WarmDialFail, WarmAdd, RemoteClose, Tick
  <2> DEFINE k == client[c].key
  <2>2. k \in Keys /\ idle[k] \in Seq(PoolEntry) /\ Sorted(idle[k], now)
        /\ client[c].at \in Nat
    BY <2>0 DEF KeyOK, IdleSorted, ClientState
  <2>3. PICK i \in 1..Len(idle[k]) :
          /\ Freshest(idle[k], client[c].at, i)
          /\ idle' = [idle EXCEPT ![k] = SubSeq(idle[k], 1, i - 1)]
          /\ client' = [client EXCEPT ![c].pc = "served", ![c].ws = idle[k][i]]
    BY <2>1 DEF GetHit
  <2>4. idle[k][i] \in PoolEntry /\ client'[c].ws = idle[k][i]
    BY <2>0, <2>2, <2>3 DEF ClientState
  <2>5. idle[k][i].open /\ ~(client[c].at - idle[k][i].created > MaxAge)
    BY <2>3 DEF Freshest, Usable
  <2>6. client[c].at - idle[k][i].created <= MaxAge
    <3>1. idle[k][i].created \in Nat
      BY <2>4 DEF PoolEntry
    <3>2. QED
      BY <2>2, <2>5, <3>1, MaxAgeAssumption
  <2>7. idle'[k] = SubSeq(idle[k], 1, i - 1)
    BY <2>0, <2>2, <2>3
  <2>8. \A j \in 1..Len(idle'[k]) : idle'[k][j].created <= idle[k][i].created
    BY <2>0, <2>2, <2>7, TakeSorted
  <2> HIDE DEF k
  <2>9. QED
    BY <2>4, <2>5, <2>6, <2>8 DEF k
<1>2. IInv /\ IdleSorted /\ [Next]_vars =>
        [\A c \in Clients :
           client[c].pc = "locking" /\ client'[c].pc = "served" => Freshness(c)]_vars
  <2> HIDE DEF Freshness
  <2>1. QED
    BY <1>1
<1>3. Init => IdleSorted
  BY DEF Init, IdleSorted, Sorted
<1>4. QED
  BY Invariance, SortedStep, <1>2, <1>3, PTL DEF Spec, HandsOutFreshest

=============================================================================
