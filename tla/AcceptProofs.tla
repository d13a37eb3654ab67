---------------------------- MODULE AcceptProofs ----------------------------
(***************************************************************************)
(* Proofs about Accept for every set of clients, every descriptor limit,   *)
(* pool and spare sizes and every --max-connections: type correctness, the *)
(* conservation of permits, and the promise of limits.rs that a cap within *)
(* the budget leaves a free descriptor to whoever needs one.               *)
(***************************************************************************)
EXTENDS Accept, FiniteSetTheorems, SequenceTheorems, TLAPS

(* The kernel's queue holds each waiting client once and nobody else.      *)
QueueOK ==
  /\ \A i \in 1..Len(backlog) : client[backlog[i]] = "backlog"
  /\ \A i, j \in 1..Len(backlog) : backlog[i] = backlog[j] => i = j

(* Finitely many clients hold a permit, even if arbitrarily many may come. *)
Counted == IsFiniteSet(Holders) /\ PermitsKept

IInv == AcceptTypeOK /\ QueueOK /\ Counted

-----------------------------------------------------------------------------
(* The automatic cap is a number, and so is the one in force.              *)
LEMMA CapFacts ==
  ASSUME requested \in Requests
  PROVE  auto_max_connections \in Nat /\ max_connections \in Nat
<1> DEFINE room == Saturating(FdLimit, Reserved)
<1>1. room \in Nat
  BY LimitAssumption DEF Saturating, Reserved
<1>2. room \div 2 \in Nat
  BY <1>1
<1>3. auto_max_connections \in Nat
  BY <1>2, LimitAssumption
  DEF auto_max_connections, AtLeast, FdsPerConnection
<1>4. QED
  BY <1>3, LimitAssumption DEF max_connections

(* In the initial state nobody holds a permit and the semaphore is full.   *)
LEMMA InitInvariant == AcceptInit => IInv
<1> SUFFICES ASSUME AcceptInit PROVE IInv
  OBVIOUS
<1>1. AcceptTypeOK
  BY CapFacts, LimitAssumption DEF AcceptInit, AcceptTypeOK
<1>2. QueueOK
  BY DEF AcceptInit, QueueOK
<1>3. Holders = {}
  BY DEF AcceptInit, Holders, ClientSockets, InState
<1>4. Counted
  BY <1>3, FS_EmptySet, CapFacts
  DEF AcceptInit, Counted, PermitsKept, LoopPermit
<1>5. QED
  BY <1>1, <1>2, <1>4 DEF IInv

-----------------------------------------------------------------------------
HolderStates ==
  {"handshake", "draining", "routing", "dialling", "session", "closed"}

(* Those who hold a permit, by their state alone.                          *)
LEMMA HoldersByState == Holders = {c \in Clients : client[c] \in HolderStates}
  BY DEF Holders, ClientSockets, InState, HolderStates

(* A client that changes its state without entering or leaving the states  *)
(* that hold a permit leaves the holders as they are.                      *)
LEMMA HoldersKept ==
  ASSUME AcceptTypeOK, NEW c \in Clients, NEW to,
         client' = [client EXCEPT ![c] = to],
         client[c] \in HolderStates <=> to \in HolderStates
  PROVE  Holders' = Holders
<1>1. Holders' = {d \in Clients : client'[d] \in HolderStates}
  BY DEF Holders, ClientSockets, InState, HolderStates
<1>2. \A d \in Clients : client'[d] = IF d = c THEN to ELSE client[d]
  BY DEF AcceptTypeOK
<1>3. QED
  BY <1>1, <1>2, HoldersByState

(* A client that is given a permit.                                        *)
LEMMA HolderAdded ==
  ASSUME AcceptTypeOK, IsFiniteSet(Holders), NEW c \in Clients, NEW to,
         client' = [client EXCEPT ![c] = to],
         client[c] \notin HolderStates, to \in HolderStates
  PROVE  IsFiniteSet(Holders')
           /\ Cardinality(Holders') = Cardinality(Holders) + 1
<1>1. Holders' = {d \in Clients : client'[d] \in HolderStates}
  BY DEF Holders, ClientSockets, InState, HolderStates
<1>2. \A d \in Clients : client'[d] = IF d = c THEN to ELSE client[d]
  BY DEF AcceptTypeOK
<1>3. Holders' = Holders \cup {c} /\ c \notin Holders
  BY <1>1, <1>2, HoldersByState
<1>4. QED
  BY <1>3, FS_AddElement

(* A client that gives its permit back.                                    *)
LEMMA HolderRemoved ==
  ASSUME AcceptTypeOK, IsFiniteSet(Holders), NEW c \in Clients, NEW to,
         client' = [client EXCEPT ![c] = to],
         client[c] \in HolderStates, to \notin HolderStates
  PROVE  IsFiniteSet(Holders')
           /\ Cardinality(Holders') = Cardinality(Holders) - 1
<1>1. Holders' = {d \in Clients : client'[d] \in HolderStates}
  BY DEF Holders, ClientSockets, InState, HolderStates
<1>2. \A d \in Clients : client'[d] = IF d = c THEN to ELSE client[d]
  BY DEF AcceptTypeOK
<1>3. Holders' = Holders \ {c} /\ c \in Holders
  BY <1>1, <1>2, HoldersByState
<1>4. QED
  BY <1>3, FS_RemoveElement

(* A client outside the queue may change without touching the queue.       *)
LEMMA QueueKept ==
  ASSUME AcceptTypeOK, QueueOK, NEW c \in Clients, NEW to,
         client' = [client EXCEPT ![c] = to],
         client[c] # "backlog", backlog' = backlog
  PROVE  QueueOK'
<1>1. \A i \in 1..Len(backlog) : backlog[i] \in Clients /\ backlog[i] # c
  BY DEF AcceptTypeOK, QueueOK
<1>2. \A i \in 1..Len(backlog) : client'[backlog[i]] = client[backlog[i]]
  BY <1>1 DEF AcceptTypeOK
<1>3. QED
  BY <1>2 DEF QueueOK

(* Taking the head of the queue: its client was waiting, the others still  *)
(* are, and it is none of them.                                            *)
LEMMA QueuePopped ==
  ASSUME AcceptTypeOK, QueueOK, backlog # <<>>, NEW to,
         client' = [client EXCEPT ![Head(backlog)] = to],
         backlog' = Tail(backlog)
  PROVE  /\ Head(backlog) \in Clients
         /\ client[Head(backlog)] = "backlog"
         /\ backlog' \in Seq(Clients)
         /\ QueueOK'
<1>1. /\ backlog \in Seq(Clients)
      /\ Len(backlog) \in Nat /\ Len(backlog) > 0
      /\ Head(backlog) = backlog[1]
  BY EmptySeq DEF AcceptTypeOK
<1>2. Head(backlog) \in Clients /\ client[Head(backlog)] = "backlog"
  BY <1>1 DEF QueueOK
<1>3. /\ backlog' \in Seq(Clients)
      /\ Len(backlog') = Len(backlog) - 1
      /\ \A i \in 1..Len(backlog') : backlog'[i] = backlog[i + 1]
  BY <1>1, HeadTailProperties
<1>4. ASSUME NEW i \in 1..Len(backlog')
      PROVE  client'[backlog'[i]] = "backlog"
  <2>1. i + 1 \in 1..Len(backlog) /\ backlog'[i] = backlog[i + 1]
    BY <1>1, <1>3
  <2>2. backlog[i + 1] # Head(backlog)
    BY <1>1, <2>1 DEF QueueOK
  <2>3. backlog[i + 1] \in Clients /\ client[backlog[i + 1]] = "backlog"
    BY <1>1, <2>1 DEF QueueOK
  <2>4. QED
    BY <2>1, <2>2, <2>3 DEF AcceptTypeOK
<1>5. ASSUME NEW i \in 1..Len(backlog'), NEW j \in 1..Len(backlog'),
             backlog'[i] = backlog'[j]
      PROVE  i = j
  <2>1. /\ i + 1 \in 1..Len(backlog) /\ backlog'[i] = backlog[i + 1]
        /\ j + 1 \in 1..Len(backlog) /\ backlog'[j] = backlog[j + 1]
    BY <1>1, <1>3
  <2>2. i + 1 = j + 1
    BY <1>5, <2>1 DEF QueueOK
  <2>3. QED
    BY <2>2
<1>6. QED
  BY <1>2, <1>3, <1>4, <1>5 DEF QueueOK

-----------------------------------------------------------------------------
(* The cap in force does not move, and the permits of the loop are a       *)
(* number.                                                                 *)
LEMMA CapKept ==
  ASSUME requested' = requested
  PROVE  max_connections' = max_connections
  BY DEF max_connections, auto_max_connections, AtLeast, Saturating, Reserved

(* What PermitsKept adds up are numbers.                                   *)
LEMMA SumFacts ==
  ASSUME IInv
  PROVE  /\ permits \in Nat /\ LoopPermit \in 0..1
         /\ IsFiniteSet(Holders) /\ Cardinality(Holders) \in Nat
         /\ max_connections \in Nat
         /\ permits + LoopPermit + Cardinality(Holders) = max_connections
  BY CapFacts, FS_CardinalityType
  DEF IInv, AcceptTypeOK, Counted, PermitsKept, LoopPermit

(* A step of the loop that leaves the clients and the queue alone.         *)
LEMMA LoopStep ==
  ASSUME IInv, NEW to \in {"permit", "accept", "backoff"},
         loop' = to, permits' \in Nat,
         permits' + LoopPermit' = permits + LoopPermit,
         UNCHANGED <<requested, backlog, client, dials, poolFds, cfFds>>
  PROVE  IInv'
<1>1. AcceptTypeOK'
  BY DEF IInv, AcceptTypeOK
<1>2. QueueOK'
  BY DEF IInv, QueueOK
<1>3. Holders' = Holders
  BY DEF Holders, ClientSockets, InState
<1>4. LoopPermit' \in 0..1
  BY DEF LoopPermit
<1>5. Counted'
  BY <1>3, <1>4, SumFacts, CapKept DEF Counted, PermitsKept
<1>6. QED
  BY <1>1, <1>2, <1>5 DEF IInv

(* A client task that goes on and keeps its permit.                        *)
LEMMA TaskStep ==
  ASSUME IInv, NEW c \in Clients, NEW to \in HolderStates,
         client[c] \in HolderStates,
         client' = [client EXCEPT ![c] = to],
         dials' \in [Clients -> 0..MaxDials],
         poolFds' \in 0..PoolFds, cfFds' \in 0..CfFds,
         UNCHANGED <<requested, loop, permits, backlog>>
  PROVE  IInv'
<1>1. AcceptTypeOK'
  BY DEF IInv, AcceptTypeOK, HolderStates
<1>2. client[c] # "backlog"
  BY DEF HolderStates
<1>3. QueueOK'
  BY <1>2, QueueKept DEF IInv
<1>4. Holders' = Holders
  BY HoldersKept DEF IInv
<1>5. LoopPermit' = LoopPermit
  BY DEF LoopPermit
<1>6. Counted'
  BY <1>4, <1>5, SumFacts, CapKept DEF Counted, PermitsKept
<1>7. QED
  BY <1>1, <1>3, <1>6 DEF IInv

(* A pool that opens or closes a socket within its bound.                  *)
LEMMA PoolStep ==
  ASSUME IInv, poolFds' \in 0..PoolFds, cfFds' \in 0..CfFds,
         UNCHANGED <<requested, loop, permits, backlog, client, dials>>
  PROVE  IInv'
<1>1. AcceptTypeOK'
  BY DEF IInv, AcceptTypeOK
<1>2. QueueOK'
  BY DEF IInv, QueueOK
<1>3. Holders' = Holders /\ LoopPermit' = LoopPermit
  BY DEF Holders, ClientSockets, InState, LoopPermit
<1>4. Counted'
  BY <1>3, SumFacts, CapKept DEF Counted, PermitsKept
<1>5. QED
  BY <1>1, <1>2, <1>4 DEF IInv

-----------------------------------------------------------------------------
(* Every step of the accept loop keeps the invariant.                      *)
LEMMA LoopInvariant == ASSUME IInv, Loop PROVE IInv'
<1>1. CASE Acquire
  <2>1. permits' \in Nat /\ permits' + LoopPermit' = permits + LoopPermit
    BY <1>1, SumFacts DEF Acquire, LoopPermit
  <2>2. QED
    BY <1>1, <2>1, LoopStep DEF Acquire
<1>2. CASE AcceptOk
  <2> DEFINE c == Head(backlog)
  <2>1. /\ c \in Clients /\ client[c] = "backlog"
        /\ backlog' \in Seq(Clients) /\ QueueOK'
    BY <1>2, QueuePopped DEF IInv, AcceptOk
  <2>2. client' = [client EXCEPT ![c] = "handshake"]
    BY <1>2 DEF AcceptOk
  <2>3. AcceptTypeOK'
    BY <1>2, <2>1, <2>2 DEF IInv, AcceptTypeOK, AcceptOk
  <2>4. client[c] \notin HolderStates /\ "handshake" \in HolderStates
    BY <2>1 DEF HolderStates
  <2>5. IsFiniteSet(Holders') /\ Cardinality(Holders') = Cardinality(Holders) + 1
    BY <2>1, <2>2, <2>4, SumFacts, HolderAdded DEF IInv
  <2>6. permits' = permits /\ LoopPermit = 1 /\ LoopPermit' = 0
    BY <1>2 DEF AcceptOk, LoopPermit
  <2>7. max_connections' = max_connections
    BY <1>2, CapKept DEF AcceptOk
  <2>8. Counted'
    BY <2>5, <2>6, <2>7, SumFacts DEF Counted, PermitsKept
  <2>9. QED
    BY <2>1, <2>3, <2>8 DEF IInv
<1>3. CASE AcceptEmfile
  <2>1. permits' \in Nat /\ permits' + LoopPermit' = permits + LoopPermit
    BY <1>3, SumFacts DEF AcceptEmfile, LoopPermit
  <2>2. QED
    BY <1>3, <2>1, LoopStep DEF AcceptEmfile
<1>4. CASE AcceptAborted
  <2> DEFINE c == Head(backlog)
  <2>1. /\ c \in Clients /\ client[c] = "backlog"
        /\ backlog' \in Seq(Clients) /\ QueueOK'
    BY <1>4, QueuePopped DEF IInv, AcceptAborted
  <2>2. client' = [client EXCEPT ![c] = "away"]
    BY <1>4 DEF AcceptAborted
  <2>3. AcceptTypeOK'
    BY <1>4, <2>1, <2>2 DEF IInv, AcceptTypeOK, AcceptAborted
  <2>4. client[c] \notin HolderStates /\ "away" \notin HolderStates
    BY <2>1 DEF HolderStates
  <2>5. Holders' = Holders
    BY <2>1, <2>2, <2>4, HoldersKept DEF IInv
  <2>6. permits' = permits /\ LoopPermit' = LoopPermit
    BY <1>4 DEF AcceptAborted, LoopPermit
  <2>7. max_connections' = max_connections
    BY <1>4, CapKept DEF AcceptAborted
  <2>8. Counted'
    BY <2>5, <2>6, <2>7, SumFacts DEF Counted, PermitsKept
  <2>9. QED
    BY <2>1, <2>3, <2>8 DEF IInv
<1>5. CASE BackedOff
  <2>1. permits' \in Nat /\ permits' + LoopPermit' = permits + LoopPermit
    BY <1>5, SumFacts DEF BackedOff, LoopPermit
  <2>2. QED
    BY <1>5, <2>1, LoopStep DEF BackedOff
<1>6. QED
  BY <1>1, <1>2, <1>3, <1>4, <1>5 DEF Loop

(* A move of a client task between two states that hold a permit.          *)
LEMMA BecomesInvariant ==
  ASSUME IInv, NEW c \in Clients, NEW from \in HolderStates,
         NEW to \in HolderStates, Becomes(c, from, to)
  PROVE  IInv'
<1>1. /\ dials' \in [Clients -> 0..MaxDials]
      /\ poolFds' \in 0..PoolFds /\ cfFds' \in 0..CfFds
  BY DEF IInv, AcceptTypeOK, Becomes
<1>2. QED
  BY <1>1, TaskStep DEF Becomes

(* A dial of the ladder, with or without a descriptor for it.              *)
LEMMA DialsInvariant ==
  ASSUME IInv, NEW c \in Clients, NEW to \in HolderStates, Dials(c, to)
  PROVE  IInv'
<1>1. dials[c] \in 0..MaxDials /\ MaxDials \in Nat
  BY LimitAssumption DEF IInv, AcceptTypeOK
<1>2. dials[c] + 1 \in 0..MaxDials
  BY <1>1 DEF Dials
<1>3. /\ dials' \in [Clients -> 0..MaxDials]
      /\ poolFds' \in 0..PoolFds /\ cfFds' \in 0..CfFds
  BY <1>2 DEF IInv, AcceptTypeOK, Dials
<1>4. client[c] \in HolderStates
  BY DEF Dials, HolderStates
<1>5. QED
  BY <1>3, <1>4, TaskStep DEF Dials

(* Every step of a client task or of its peer keeps the invariant.         *)
LEMMA ClientInvariant ==
  ASSUME IInv, NEW c \in Clients, Proceed(c) \/ Peer(c)
  PROVE  IInv'
<1> USE DEF HolderStates
<1>1. CASE HandshakeOk(c)
  BY <1>1, BecomesInvariant DEF HandshakeOk
<1>2. CASE HandshakeBad(c)
  BY <1>2, BecomesInvariant DEF HandshakeBad
<1>3. CASE HandshakeNone(c)
  BY <1>3, BecomesInvariant DEF HandshakeNone
<1>4. CASE Drained(c)
  BY <1>4, BecomesInvariant DEF Drained
<1>5. CASE DialFailed(c)
  BY <1>5, BecomesInvariant DEF DialFailed
<1>6. CASE DialOk(c)
  BY <1>6, BecomesInvariant DEF DialOk
<1>7. CASE Unroutable(c)
  BY <1>7, BecomesInvariant DEF Unroutable
<1>8. CASE SessionEnds(c)
  BY <1>8, BecomesInvariant DEF SessionEnds
<1>9. CASE Dial(c)
  BY <1>9, DialsInvariant DEF Dial
<1>10. CASE DialEmfile(c)
  BY <1>10, DialsInvariant DEF DialEmfile
<1>11. CASE PoolHit(c)
  <2>1. /\ dials' \in [Clients -> 0..MaxDials]
        /\ poolFds' \in 0..PoolFds /\ cfFds' \in 0..CfFds
    BY <1>11, LimitAssumption DEF IInv, AcceptTypeOK, PoolHit
  <2>2. QED
    BY <1>11, <2>1, TaskStep DEF PoolHit
<1>12. CASE Connect(c)
  <2>1. /\ backlog \in Seq(Clients) /\ Len(backlog) \in Nat
        /\ \A i \in 1..Len(backlog) :
             backlog[i] \in Clients /\ backlog[i] # c
    BY <1>12, LenProperties, ElementOfSeq DEF IInv, AcceptTypeOK, QueueOK, Connect
  <2>2. /\ backlog' \in Seq(Clients)
        /\ Len(backlog') = Len(backlog) + 1
        /\ \A i \in 1..Len(backlog) : backlog'[i] = backlog[i]
        /\ backlog'[Len(backlog) + 1] = c
    BY <1>12, <2>1, AppendProperties DEF Connect
  <2>3. \A d \in Clients : client'[d] = IF d = c THEN "backlog" ELSE client[d]
    BY <1>12 DEF IInv, AcceptTypeOK, Connect
  <2>4. QueueOK'
    <3>1. \A i \in 1..Len(backlog') :
            i \in 1..Len(backlog) \/ i = Len(backlog) + 1
      BY <2>1, <2>2
    <3>2. \A i \in 1..Len(backlog') : client'[backlog'[i]] = "backlog"
      BY <2>1, <2>2, <2>3, <3>1 DEF IInv, QueueOK
    <3>3. ASSUME NEW i \in 1..Len(backlog'), NEW j \in 1..Len(backlog'),
                 backlog'[i] = backlog'[j]
          PROVE  i = j
      BY <2>1, <2>2, <3>1, <3>3 DEF IInv, QueueOK
    <3>4. QED
      BY <3>2, <3>3 DEF QueueOK
  <2>5. AcceptTypeOK'
    BY <1>12, <2>2 DEF IInv, AcceptTypeOK, Connect
  <2>6. Holders' = Holders
    <3>1. client' = [client EXCEPT ![c] = "backlog"] /\ client[c] = "away"
      BY <1>12 DEF Connect
    <3>2. QED
      BY <3>1, HoldersKept DEF IInv
  <2>7. permits' = permits /\ LoopPermit' = LoopPermit
    BY <1>12 DEF Connect, LoopPermit
  <2>8. max_connections' = max_connections
    BY <1>12, CapKept DEF Connect
  <2>9. Counted'
    BY <2>6, <2>7, <2>8, SumFacts DEF Counted, PermitsKept
  <2>10. QED
    BY <2>4, <2>5, <2>9 DEF IInv
<1>13. CASE Release(c)
  <2>1. client[c] = "closed" /\ client' = [client EXCEPT ![c] = "away"]
    BY <1>13 DEF Release
  <2>2. AcceptTypeOK'
    BY <1>13, LimitAssumption DEF IInv, AcceptTypeOK, Release
  <2>3. QueueOK'
    BY <1>13, <2>1, QueueKept DEF IInv, Release
  <2>4. IsFiniteSet(Holders') /\ Cardinality(Holders') = Cardinality(Holders) - 1
    BY <2>1, SumFacts, HolderRemoved DEF IInv
  <2>5. permits' = permits + 1 /\ LoopPermit' = LoopPermit
    BY <1>13 DEF Release, LoopPermit
  <2>6. max_connections' = max_connections
    BY <1>13, CapKept DEF Release
  <2>7. Counted'
    BY <2>4, <2>5, <2>6, SumFacts DEF Counted, PermitsKept
  <2>8. QED
    BY <2>2, <2>3, <2>7 DEF IInv
<1>14. QED
  BY <1>1, <1>2, <1>3, <1>4, <1>5, <1>6, <1>7, <1>8, <1>9, <1>10, <1>11,
     <1>12, <1>13 DEF Proceed, Peer

(* Every step of the pools keeps the invariant.                            *)
LEMMA PoolInvariant ==
  ASSUME IInv, PoolDials \/ PoolDrops \/ CfDials \/ CfDrops
  PROVE  IInv'
<1>1. poolFds' \in 0..PoolFds /\ cfFds' \in 0..CfFds
  BY LimitAssumption
  DEF IInv, AcceptTypeOK, PoolDials, PoolDrops, CfDials, CfDrops
<1>2. QED
  BY <1>1, PoolStep DEF PoolDials, PoolDrops, CfDials, CfDrops

(* The invariant is inductive.                                             *)
LEMMA StepInvariant == IInv /\ [AcceptNext]_acceptVars => IInv'
<1> SUFFICES ASSUME IInv, [AcceptNext]_acceptVars PROVE IInv'
  OBVIOUS
<1>1. CASE Loop
  BY <1>1, LoopInvariant
<1>2. CASE \E c \in Clients : Proceed(c) \/ Peer(c)
  BY <1>2, ClientInvariant
<1>3. CASE PoolDials \/ PoolDrops \/ CfDials \/ CfDrops
  BY <1>3, PoolInvariant
<1>4. CASE UNCHANGED acceptVars
  <2>1. UNCHANGED <<requested, loop, permits, backlog, client, dials>>
          /\ poolFds' \in 0..PoolFds /\ cfFds' \in 0..CfFds
    BY <1>4 DEF acceptVars, IInv, AcceptTypeOK
  <2>2. QED
    BY <2>1, PoolStep
<1>5. QED
  BY <1>1, <1>2, <1>3, <1>4 DEF AcceptNext

LEMMA InvariantHolds == AcceptSpec => []IInv
  BY InitInvariant, StepInvariant, PTL DEF AcceptSpec

-----------------------------------------------------------------------------
(* The sockets of the clients, counted against the permits: a client that  *)
(* holds one has its own socket and at most one more.                      *)
LEMMA SocketFacts ==
  ASSUME IInv
  PROVE  /\ IsFiniteSet(ClientSockets) /\ IsFiniteSet(OutboundSockets)
         /\ Cardinality(ClientSockets) \in Nat
         /\ Cardinality(OutboundSockets) \in Nat
         /\ Cardinality(ClientSockets) <= Cardinality(Holders)
         /\ Cardinality(OutboundSockets) <= Cardinality(ClientSockets)
         /\ InState({"routing"}) # {} =>
              Cardinality(OutboundSockets) < Cardinality(ClientSockets)
<1>1. ClientSockets \subseteq Holders /\ OutboundSockets \subseteq ClientSockets
  BY DEF Holders, ClientSockets, OutboundSockets, InState
<1>2. /\ IsFiniteSet(ClientSockets)
      /\ Cardinality(ClientSockets) <= Cardinality(Holders)
  BY <1>1, SumFacts, FS_Subset
<1>3. /\ IsFiniteSet(OutboundSockets)
      /\ Cardinality(OutboundSockets) <= Cardinality(ClientSockets)
      /\ Cardinality(ClientSockets) = Cardinality(OutboundSockets)
           => ClientSockets = OutboundSockets
  BY <1>1, <1>2, FS_Subset
<1>4. /\ Cardinality(ClientSockets) \in Nat
      /\ Cardinality(OutboundSockets) \in Nat
  BY <1>2, <1>3, FS_CardinalityType
<1>5. InState({"routing"}) # {} => ClientSockets # OutboundSockets
  BY DEF ClientSockets, OutboundSockets, InState
<1>6. QED
  BY <1>2, <1>3, <1>4, <1>5

(* Within the budget two descriptors per permit fit beside the reserved.   *)
LEMMA BudgetFacts ==
  ASSUME IInv, WithinBudget
  PROVE  2 * max_connections + 1 + PoolFds + RuntimeReserved <= FdLimit
<1> DEFINE room == FdLimit - Reserved
<1>1. Reserved \in Nat /\ FdLimit >= Reserved /\ room \in Nat
      /\ room >= 2 * MinMaxConnections
  BY LimitAssumption DEF WithinBudget, Reserved, FdsPerConnection
<1>2. Saturating(FdLimit, Reserved) = room
  BY <1>1 DEF Saturating
<1>3. room \div 2 \in Nat /\ 2 * (room \div 2) <= room
      /\ room \div 2 >= MinMaxConnections
  BY <1>1, LimitAssumption
<1>4. auto_max_connections = room \div 2
  BY <1>2, <1>3 DEF auto_max_connections, AtLeast, FdsPerConnection
<1>5. max_connections <= room \div 2 /\ max_connections \in Nat
  BY <1>4, SumFacts DEF WithinBudget
<1>6. 2 * max_connections <= room
  BY <1>3, <1>5, <1>1
<1>7. QED
  BY <1>1, <1>5, <1>6, LimitAssumption DEF Reserved

(* A free descriptor for an accept, a dial and a pool.                     *)
LEMMA BudgetStep == IInv => BudgetSuffices
<1> SUFFICES ASSUME IInv, WithinBudget
             PROVE  /\ loop = "accept" => FdFree
                    /\ InState({"routing"}) # {} => FdFree
                    /\ poolFds < PoolFds \/ cfFds < CfFds => FdFree
  BY DEF BudgetSuffices
<1> DEFINE cs == Cardinality(ClientSockets)
           os == Cardinality(OutboundSockets)
<1>1. cs \in Nat /\ os \in Nat /\ os <= cs /\ cs + LoopPermit <= max_connections
      /\ LoopPermit \in 0..1 /\ max_connections \in Nat
  BY SocketFacts, SumFacts
<1>2. /\ poolFds \in Nat /\ poolFds <= PoolFds /\ PoolFds \in Nat
      /\ cfFds \in Nat /\ cfFds <= CfFds /\ CfFds \in Nat
      /\ RuntimeFds \in Nat /\ RuntimeReserved \in Nat /\ FdLimit \in Nat
      /\ RuntimeFds + CfFds <= RuntimeReserved
  BY LimitAssumption, MarginAssumption DEF IInv, AcceptTypeOK
<1>3. 2 * max_connections + 1 + PoolFds + RuntimeReserved <= FdLimit
  BY BudgetFacts
<1>4. FdFree <=> 1 + RuntimeFds + poolFds + cfFds + cs + os < FdLimit
  BY DEF FdFree, Used
<1> HIDE DEF cs, os
<1>5. ASSUME loop = "accept" PROVE FdFree
  <2>1. LoopPermit = 1
    BY <1>5 DEF LoopPermit
  <2>2. QED
    BY <1>1, <1>2, <1>3, <1>4, <2>1
<1>6. ASSUME InState({"routing"}) # {} PROVE FdFree
  <2>1. os < cs
    BY <1>6, SocketFacts DEF cs, os
  <2>2. QED
    BY <1>1, <1>2, <1>3, <1>4, <2>1
<1>7. ASSUME poolFds < PoolFds \/ cfFds < CfFds PROVE FdFree
  BY <1>1, <1>2, <1>3, <1>4, <1>7
<1>8. QED
  BY <1>5, <1>6, <1>7

-----------------------------------------------------------------------------
(***************************************************************************)
(* The accept loop, its clients and the pools beside them keep their       *)
(* types: no more permits are taken than there are (the semaphore never    *)
(* goes below zero), the pools stay within their descriptors and a walk of *)
(* the ladder within its dials.                                            *)
(***************************************************************************)
THEOREM AcceptTypeCorrect == AcceptSpec => []AcceptTypeOK
<1>1. IInv => AcceptTypeOK
  BY DEF IInv
<1>2. QED
  BY <1>1, InvariantHolds, PTL

(***************************************************************************)
(* No path of main.rs or of the client task loses or makes a permit: what  *)
(* is not in the semaphore is with the loop or with exactly one client.    *)
(***************************************************************************)
THEOREM PermitsConserved == AcceptSpec => []PermitsKept
<1>1. IInv => PermitsKept
  BY DEF IInv, Counted
<1>2. QED
  BY <1>1, InvariantHolds, PTL

(***************************************************************************)
(* The sum of limits.rs is right for every limit, pool size and cap within *)
(* it: whoever is about to open a descriptor (the accept, a client's dial, *)
(* a refill, a spare) finds a free one.                                    *)
(***************************************************************************)
THEOREM BudgetIsEnough == AcceptSpec => []BudgetSuffices
  BY BudgetStep, InvariantHolds, PTL

=============================================================================
