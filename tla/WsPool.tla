------------------------------- MODULE WsPool -------------------------------
(***************************************************************************)
(* The pool of pre-warmed direct WebSocket connections of pool.rs: client  *)
(* tasks taking connections with get, the background refill tasks those    *)
(* calls spawn, and the start-up warmup task that runs beside them.        *)
(*                                                                         *)
(* Every await and every lock release of the code ends an action here, so  *)
(* the tasks interleave exactly where the runtime lets them.  A connection *)
(* is abstracted to the moment it entered its bucket and to whether the    *)
(* far end still keeps it open; dialling is a choice between success and   *)
(* failure made by the network.                                            *)
(***************************************************************************)
EXTENDS Integers, Sequences

CONSTANTS
  Dcs,       \* data centres that have a --dc-ip entry
  Media,     \* the is_media values in play: BOOLEAN, or one to bound a run
  Clients,   \* client connections calling get
  Tasks,     \* slots for spawned refill tasks
  PoolSize,  \* --pool-size
  MaxAge,    \* --pool-max-age
  MaxTime,   \* bound on the clock
  DialFails  \* whether the network may refuse a dial

ASSUME MediaAssumption == Media \subseteq BOOLEAN
ASSUME PoolSizeAssumption == PoolSize \in Nat
ASSUME MaxAgeAssumption == MaxAge \in Nat
ASSUME MaxTimeAssumption == MaxTime \in Nat
ASSUME DialFailsAssumption == DialFails \in BOOLEAN

VARIABLES
  idle,       \* WsPool::idle, one bucket per (dc, is_media)
  refilling,  \* WsPool::refilling, keys with a refill in flight
  task,       \* the spawned refill tasks
  warm,       \* the warmup task
  client,     \* the tasks inside or past a call of get
  now         \* Instant::now()

vars == <<idle, refilling, task, warm, client, now>>

Keys == Dcs \X Media

(* PoolEntry: when it was pushed, and whether the server still holds it.   *)
PoolEntry == [created : Nat, open : BOOLEAN]

NoKey == <<>>
NoEntry == [created |-> 0, open |-> FALSE]

-----------------------------------------------------------------------------
(* Helpers of the bucket.                                                  *)

FreshEntry == [created |-> now, open |-> TRUE]

(* n connections pushed one after the other while the lock is held.        *)
Pushed(bucket, n) == bucket \o [i \in 1..n |-> FreshEntry]

(* Fault: get forgets the age test.                                        *)
UsableAtAnyAge(entry, at) == entry.open

(* The two discard tests of get: too old when get was called, or readable  *)
(* although idle, which only a closed connection is.                       *)
Usable(entry, at) == entry.open /\ ~(at - entry.created > MaxAge)

(* pool_size.saturating_sub(bucket.len())                                  *)
Room(bucket) == IF Len(bucket) >= PoolSize THEN 0 ELSE PoolSize - Len(bucket)

(* Fault: the space is not measured again before pushing.                  *)
TakenUnmeasured(bucket, got) == got

(* new_conns.into_iter().take(can_add): the surplus is dropped.            *)
Taken(bucket, got) == IF got <= Room(bucket) THEN got ELSE Room(bucket)

-----------------------------------------------------------------------------
FreeTask == [pc |-> "free", key |-> NoKey, needed |-> 0, got |-> 0]
OutClient == [pc |-> "out", key |-> NoKey, at |-> 0, allow |-> FALSE,
              ws |-> NoEntry]

Init ==
  /\ idle = [k \in Keys |-> <<>>]
  /\ refilling = {}
  /\ task = [t \in Tasks |-> FreeTask]
  /\ warm = [pc |-> "pick", key |-> NoKey, todo |-> Keys, got |-> 0]
  /\ client = [c \in Clients |-> OutClient]
  /\ now = 0

-----------------------------------------------------------------------------
(* get.  The clock is read before the lock is awaited, so a client can     *)
(* wait for the lock with an old reading.                                  *)

Get(c, k, allow_refill) ==
  /\ client[c].pc = "out"
  /\ client' = [client EXCEPT ![c] = [pc |-> "locking", key |-> k, at |-> now,
                                      allow |-> allow_refill, ws |-> NoEntry]]
  /\ UNCHANGED <<idle, refilling, task, warm, now>>

(* tokio::spawn(pool.refill(..)) when the caller allows it.                *)
SpawnRefill(k, allow_refill) ==
  IF allow_refill
  THEN \E t \in Tasks :
         /\ task[t].pc = "free"
         /\ task' = [task EXCEPT ![t] = [pc |-> "spawned", key |-> k,
                                         needed |-> 0, got |-> 0]]
  ELSE UNCHANGED task

(* The entry the draining loop stops at: the last usable one.              *)
Freshest(bucket, at, i) ==
  /\ Usable(bucket[i], at)
  /\ \A j \in (i + 1)..Len(bucket) : ~Usable(bucket[j], at)

GetHit(c) ==
  /\ client[c].pc = "locking"
  /\ LET k == client[c].key
         bucket == idle[k]
     IN \E i \in 1..Len(bucket) :
          /\ Freshest(bucket, client[c].at, i)
          /\ idle' = [idle EXCEPT ![k] = SubSeq(bucket, 1, i - 1)]
          /\ client' = [client EXCEPT ![c].pc = "served", ![c].ws = bucket[i]]
          /\ SpawnRefill(k, client[c].allow)
  /\ UNCHANGED <<refilling, warm, now>>

GetMiss(c) ==
  /\ client[c].pc = "locking"
  /\ LET k == client[c].key
         bucket == idle[k]
     IN /\ \A i \in 1..Len(bucket) : ~Usable(bucket[i], client[c].at)
        /\ idle' = [idle EXCEPT ![k] = <<>>]
        /\ client' = [client EXCEPT ![c].pc = "missed"]
        /\ SpawnRefill(k, client[c].allow)
  /\ UNCHANGED <<refilling, warm, now>>

(* The caller is done with what get gave it.                               *)
Leave(c) ==
  /\ client[c].pc \in {"served", "missed"}
  /\ client' = [client EXCEPT ![c] = OutClient]
  /\ UNCHANGED <<idle, refilling, task, warm, now>>

-----------------------------------------------------------------------------
(* refill, one action between every two points where it can be descheduled *)

(* Fault: the refilling set is not consulted.                              *)
RegisterUnguarded(t) ==
  /\ task[t].pc = "spawned"
  /\ refilling' = refilling \union {task[t].key}
  /\ task' = [task EXCEPT ![t].pc = "checking"]
  /\ UNCHANGED <<idle, warm, client, now>>

Register(t) ==
  /\ task[t].pc = "spawned"
  /\ IF task[t].key \in refilling
     THEN task' = [task EXCEPT ![t] = FreeTask] /\ UNCHANGED refilling
     ELSE /\ refilling' = refilling \union {task[t].key}
          /\ task' = [task EXCEPT ![t].pc = "checking"]
  /\ UNCHANGED <<idle, warm, client, now>>

(* Fault: pool_size - current without the early return (usize underflow).  *)
CheckUnderflow(t) ==
  /\ task[t].pc = "checking"
  /\ task' = [task EXCEPT ![t].pc = "dialing",
                          ![t].needed = PoolSize - Len(idle[task[t].key])]
  /\ UNCHANGED <<idle, refilling, warm, client, now>>

Check(t) ==
  /\ task[t].pc = "checking"
  /\ LET current == Len(idle[task[t].key])
     IN task' = IF current >= PoolSize
                THEN [task EXCEPT ![t].pc = "releasing"]
                ELSE [task EXCEPT ![t].pc = "dialing",
                                  ![t].needed = PoolSize - current]
  /\ UNCHANGED <<idle, refilling, warm, client, now>>

(* connect_batch: one connection after the other, ended by the first       *)
(* failure.                                                                *)
DialOk(t) ==
  /\ task[t].pc = "dialing"
  /\ task' = [task EXCEPT ![t].got = @ + 1,
                          ![t].pc = IF task[t].got + 1 = task[t].needed
                                    THEN "adding" ELSE "dialing"]
  /\ UNCHANGED <<idle, refilling, warm, client, now>>

(* Fault: an empty batch returns without dropping the guard.               *)
DialFailLeak(t) ==
  /\ DialFails
  /\ task[t].pc = "dialing"
  /\ task' = IF task[t].got = 0
             THEN [task EXCEPT ![t] = FreeTask]
             ELSE [task EXCEPT ![t].pc = "adding"]
  /\ UNCHANGED <<idle, refilling, warm, client, now>>

DialFail(t) ==
  /\ DialFails
  /\ task[t].pc = "dialing"
  /\ task' = [task EXCEPT ![t].pc = IF task[t].got = 0
                                    THEN "releasing" ELSE "adding"]
  /\ UNCHANGED <<idle, refilling, warm, client, now>>

(* Back under the lock: the space is measured again before pushing.        *)
Add(t) ==
  /\ task[t].pc = "adding"
  /\ LET k == task[t].key
     IN idle' = [idle EXCEPT ![k] = Pushed(@, Taken(@, task[t].got))]
  /\ task' = [task EXCEPT ![t].pc = "releasing", ![t].got = 0]
  /\ UNCHANGED <<refilling, warm, client, now>>

(* RefillGuard::drop, reached on every path out of refill.                 *)
Release(t) ==
  /\ task[t].pc = "releasing"
  /\ refilling' = refilling \ {task[t].key}
  /\ task' = [task EXCEPT ![t] = FreeTask]
  /\ UNCHANGED <<idle, warm, client, now>>

-----------------------------------------------------------------------------
(* warmup: the DCs in HashMap order, for each the plain bucket and then    *)
(* the media one, each filled by one batch.                                *)

Untouched(dc) == \A m \in Media : <<dc, m>> \in warm.todo

WarmNext(k) ==
  /\ k \in warm.todo
  /\ k[2] => <<k[1], FALSE>> \notin warm.todo
  /\ \A j \in warm.todo : j[1] = k[1] \/ Untouched(j[1])

WarmPick ==
  /\ warm.pc = "pick"
  /\ \/ \E k \in Keys :
          /\ WarmNext(k)
          /\ warm' = [warm EXCEPT !.key = k, !.got = 0,
                                  !.pc = IF PoolSize = 0 THEN "adding"
                                                         ELSE "dialing"]
     \/ /\ warm.todo = {}
        /\ warm' = [warm EXCEPT !.pc = "done"]
  /\ UNCHANGED <<idle, refilling, task, client, now>>

WarmDialOk ==
  /\ warm.pc = "dialing"
  /\ warm' = [warm EXCEPT !.got = @ + 1,
                          !.pc = IF warm.got + 1 = PoolSize
                                 THEN "adding" ELSE "dialing"]
  /\ UNCHANGED <<idle, refilling, task, client, now>>

WarmDialFail ==
  /\ DialFails
  /\ warm.pc = "dialing"
  /\ warm' = [warm EXCEPT !.pc = "adding"]
  /\ UNCHANGED <<idle, refilling, task, client, now>>

(* Everything the batch opened is pushed; the bucket is not measured.      *)
WarmAdd ==
  /\ warm.pc = "adding"
  /\ idle' = [idle EXCEPT ![warm.key] = Pushed(@, warm.got)]
  /\ warm' = [warm EXCEPT !.pc = "pick", !.got = 0,
                          !.todo = @ \ {warm.key}]
  /\ UNCHANGED <<refilling, task, client, now>>

-----------------------------------------------------------------------------
(* Environment: the server closes an idle connection, and time passes.     *)

RemoteClose(k) ==
  /\ \E i \in 1..Len(idle[k]) :
       /\ idle[k][i].open
       /\ idle' = [idle EXCEPT ![k][i].open = FALSE]
  /\ UNCHANGED <<refilling, task, warm, client, now>>

Tick ==
  /\ now < MaxTime
  /\ now' = now + 1
  /\ UNCHANGED <<idle, refilling, task, warm, client>>

-----------------------------------------------------------------------------
Refill(t) ==
  \/ Register(t)
  \/ Check(t)
  \/ DialOk(t)
  \/ DialFail(t)
  \/ Add(t)
  \/ Release(t)

Warmup == WarmPick \/ WarmDialOk \/ WarmDialFail \/ WarmAdd

ClientStep(c) ==
  \/ \E k \in Keys, allow_refill \in BOOLEAN : Get(c, k, allow_refill)
  \/ GetHit(c)
  \/ GetMiss(c)
  \/ Leave(c)

Next ==
  \/ \E c \in Clients : ClientStep(c)
  \/ \E t \in Tasks : Refill(t)
  \/ Warmup
  \/ \E k \in Keys : RemoteClose(k)
  \/ Tick

Spec == Init /\ [][Next]_vars

(***************************************************************************)
(* A spawned task is polled until it completes and every dial is under a   *)
(* timeout, so each task keeps taking steps; nothing makes clients come.   *)
(***************************************************************************)
FairSpec ==
  /\ Spec
  /\ \A t \in Tasks : WF_vars(Refill(t))
  /\ WF_vars(Warmup)

-----------------------------------------------------------------------------
TaskState ==
  [pc : {"free", "spawned", "checking", "dialing", "adding", "releasing"},
   key : Keys \union {NoKey}, needed : Nat, got : Nat]

WarmState ==
  [pc : {"pick", "dialing", "adding", "done"}, key : Keys \union {NoKey},
   todo : SUBSET Keys, got : Nat]

ClientState ==
  [pc : {"out", "locking", "served", "missed"}, key : Keys \union {NoKey},
   at : Nat, allow : BOOLEAN, ws : PoolEntry]

TypeOK ==
  /\ idle \in [Keys -> Seq(PoolEntry)]
  /\ refilling \in SUBSET Keys
  /\ task \in [Tasks -> TaskState]
  /\ warm \in WarmState
  /\ client \in [Clients -> ClientState]
  /\ now \in Nat

(* Sockets a batch has open: the finished ones and the one being dialled.  *)
BatchFds(pc, got) ==
  CASE pc = "dialing" -> got + 1
    [] pc = "adding"  -> got
    [] OTHER          -> 0

RefillFds(t, k) ==
  IF task[t].key = k THEN BatchFds(task[t].pc, task[t].got) ELSE 0

WarmFds(k) == IF warm.key = k THEN BatchFds(warm.pc, warm.got) ELSE 0

(***************************************************************************)
(* main.rs and limits.rs reserve 2 * pool_size descriptors for a bucket,   *)
(* "idle + one refill".  The reservation holds although warmup dials       *)
(* beside the refills and pushes without measuring: at most one refill     *)
(* task holds sockets of a bucket, and with the idle connections and       *)
(* warmup's batch it never exceeds the reservation.                        *)
(***************************************************************************)
FdBudget ==
  \A k \in Keys :
    /\ Len(idle[k]) + WarmFds(k) <= 2 * PoolSize
    /\ \A t \in Tasks :
         RefillFds(t, k) > 0 =>
           /\ Len(idle[k]) + WarmFds(k) + RefillFds(t, k) <= 2 * PoolSize
           /\ \A u \in Tasks \ {t} : RefillFds(u, k) = 0

(***************************************************************************)
(* The refilling set is exact: a key is in it precisely while one task is  *)
(* between its registration and the drop of its RefillGuard, whichever way *)
(* the refill ended.  A key left behind would stop every later refill of   *)
(* the bucket.                                                             *)
(***************************************************************************)
Inside(t) == task[t].pc \in {"checking", "dialing", "adding", "releasing"}

GuardExact ==
  /\ \A k \in refilling : \E t \in Tasks : Inside(t) /\ task[t].key = k
  /\ \A t \in Tasks : Inside(t) => task[t].key \in refilling
  /\ \A t, u \in Tasks :
       Inside(t) /\ Inside(u) /\ task[t].key = task[u].key => t = u

(***************************************************************************)
(* A refill never grows a bucket past pool_size, even when warmup filled   *)
(* it between the refill's check and its push ("Re-check available         *)
(* space").                                                                *)
(***************************************************************************)
RefillKeepsSize ==
  [][\A k \in Keys :
       Len(idle'[k]) > Len(idle[k]) /\ UNCHANGED warm
         => Len(idle'[k]) <= PoolSize]_vars

(***************************************************************************)
(* "The freshest connections are used first": what get hands out is open,  *)
(* within max_age of the moment get was called, and no usable connection   *)
(* that stays behind in the bucket was opened later.                       *)
(***************************************************************************)
HandsOutFreshest ==
  [][\A c \in Clients :
       client[c].pc = "locking" /\ client'[c].pc = "served" =>
         LET k == client[c].key
         IN /\ client'[c].ws.open
            /\ client[c].at - client'[c].ws.created <= MaxAge
            /\ \A i \in 1..Len(idle'[k]) :
                 idle'[k][i].created <= client'[c].ws.created]_vars

(***************************************************************************)
(* Every refill that registered its bucket gives it back, so a bucket is   *)
(* never shut out of refilling for good.                                   *)
(***************************************************************************)
RefillReleases ==
  \A k \in Keys : k \in refilling ~> k \notin refilling

=============================================================================
