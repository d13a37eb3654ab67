------------------------------- MODULE Accept -------------------------------
(***************************************************************************)
(* The accept loop of main.rs with its semaphore, the descriptor budget of *)
(* limits.rs that the semaphore is sized from, and the life of a client    *)
(* task, handle_client_with_runtime, as far as it holds descriptors and a  *)
(* permit: handshake, drain of a bad one, routing, session.                *)
(*                                                                         *)
(* The pools open and close their sockets beside the clients, within the   *)
(* bounds that WsPool and CfPool establish.  What a client sends, when it  *)
(* leaves, and how a dial ends is a free choice.                           *)
(***************************************************************************)
EXTENDS Integers, Sequences, FiniteSets

CONSTANTS
  Clients,            \* client sockets that may try to connect
  FdLimit,            \* soft_nofile_limit()
  Requests,           \* values of --max-connections, NotGiven if not given
  NotGiven,
  PoolFds,            \* pool_size * dc_buckets * FDS_PER_POOL_SLOT
  CfFds,              \* spares of the Cloudflare tiers (CfPool!CfBudget)
  RuntimeReserved,    \* RUNTIME_RESERVED_FDS
  RuntimeFds,         \* of these, what the runtime and stdio really hold
  MinMaxConnections,  \* MIN_MAX_CONNECTIONS
  MaxDials            \* most dials on one walk of the ladder

FdsPerConnection == 2

ASSUME LimitAssumption ==
  /\ FdLimit \in Nat /\ PoolFds \in Nat /\ CfFds \in Nat
  /\ RuntimeReserved \in Nat /\ RuntimeFds \in Nat
  /\ MinMaxConnections \in Nat /\ MaxDials \in Nat
  /\ NotGiven \notin Nat
  /\ Requests \subseteq Nat \union {NotGiven}

(* The listener, the runtime's own descriptors and the CF spares share     *)
(* RUNTIME_RESERVED_FDS and the one reserved for the listener.             *)
ASSUME MarginAssumption == RuntimeFds + CfFds <= RuntimeReserved

-----------------------------------------------------------------------------
Saturating(a, b) == IF a >= b THEN a - b ELSE 0
AtLeast(a, b) == IF a >= b THEN a ELSE b

Reserved == 1 + PoolFds + RuntimeReserved

(* Fault: one descriptor per connection.                                   *)
auto_single_fd ==
  AtLeast(Saturating(FdLimit, Reserved), MinMaxConnections)

(* Without its unlimited case, which caps at a constant.                   *)
auto_max_connections ==
  AtLeast(Saturating(FdLimit, Reserved) \div FdsPerConnection,
          MinMaxConnections)

VARIABLES
  requested, \* --max-connections of this process
  loop,     \* the accept loop: "permit", "accept" or "backoff"
  permits,  \* permits left in the semaphore
  backlog,  \* the kernel's queue of connections not accepted yet
  client,   \* where each client is
  dials,    \* dials of the walk each client is on
  poolFds,  \* sockets of the direct pool, idle or being dialled
  cfFds     \* sockets of the Cloudflare spares

acceptVars ==
  <<requested, loop, permits, backlog, client, dials, poolFds, cfFds>>

(* A value the user gave is kept, with a warning when it is not safe.      *)
max_connections == IF requested = NotGiven THEN auto_max_connections ELSE requested

-----------------------------------------------------------------------------
InState(states) == {c \in Clients : client[c] \in states}

(* The accepted socket lives until the task's function returns, the        *)
(* outbound one while the task dials and relays.                           *)
ClientSockets == InState({"handshake", "draining", "routing", "dialling", "session"})
OutboundSockets == InState({"dialling", "session"})

(* The permit is dropped after the sockets: _permit outlives the call.     *)
Holders == ClientSockets \union InState({"closed"})

Used ==
  1 + RuntimeFds + poolFds + cfFds
    + Cardinality(ClientSockets) + Cardinality(OutboundSockets)

FdFree == Used < FdLimit

AcceptInit ==
  /\ requested \in Requests
  /\ loop = "permit"
  /\ permits = max_connections
  /\ backlog = <<>>
  /\ client = [c \in Clients |-> "away"]
  /\ dials = [c \in Clients |-> 0]
  /\ poolFds = 0
  /\ cfFds = 0

-----------------------------------------------------------------------------
(* Clients connecting: the kernel completes the handshake and queues them. *)
Connect(c) ==
  /\ client[c] = "away"
  /\ client' = [client EXCEPT ![c] = "backlog"]
  /\ backlog' = Append(backlog, c)
  /\ UNCHANGED <<requested, loop, permits, dials, poolFds, cfFds>>

-----------------------------------------------------------------------------
(* The accept loop.                                                        *)

(* Fault: the semaphore is not waited for.                                 *)
AcquireUnchecked ==
  /\ loop = "permit"
  /\ permits' = permits - 1
  /\ loop' = "accept"
  /\ UNCHANGED <<requested, backlog, client, dials, poolFds, cfFds>>

(* Fault: off by one, the last permit is never taken.                      *)
AcquireLeavesOne ==
  /\ loop = "permit"
  /\ permits > 1
  /\ permits' = permits - 1
  /\ loop' = "accept"
  /\ UNCHANGED <<requested, backlog, client, dials, poolFds, cfFds>>

Acquire ==
  /\ loop = "permit"
  /\ permits > 0
  /\ permits' = permits - 1
  /\ loop' = "accept"
  /\ UNCHANGED <<requested, backlog, client, dials, poolFds, cfFds>>

(* Ok: the permit moves into the spawned task.                             *)
AcceptOk ==
  /\ loop = "accept"
  /\ backlog # <<>>
  /\ FdFree
  /\ client' = [client EXCEPT ![Head(backlog)] = "handshake"]
  /\ backlog' = Tail(backlog)
  /\ loop' = "permit"
  /\ UNCHANGED <<requested, permits, dials, poolFds, cfFds>>

(* EMFILE or ENFILE: the client stays queued, the loop sleeps.             *)
AcceptEmfile ==
  /\ loop = "accept"
  /\ backlog # <<>>
  /\ ~FdFree
  /\ loop' = "backoff"
  /\ UNCHANGED <<requested, permits, backlog, client, dials, poolFds, cfFds>>

(* Any other error: the queued client had given up already.                *)
AcceptAborted ==
  /\ loop = "accept"
  /\ backlog # <<>>
  /\ client' = [client EXCEPT ![Head(backlog)] = "away"]
  /\ backlog' = Tail(backlog)
  /\ loop' = "backoff"
  /\ UNCHANGED <<requested, permits, dials, poolFds, cfFds>>

(* Fault: the permit of a failed accept is not given back.                 *)
BackedOffLeaks ==
  /\ loop = "backoff"
  /\ loop' = "permit"
  /\ UNCHANGED <<requested, permits, backlog, client, dials, poolFds, cfFds>>

(* The sleep is over and the iteration ends, dropping its permit.          *)
BackedOff ==
  /\ loop = "backoff"
  /\ loop' = "permit"
  /\ permits' = permits + 1
  /\ UNCHANGED <<requested, backlog, client, dials, poolFds, cfFds>>

-----------------------------------------------------------------------------
(* The client task.                                                        *)

Becomes(c, from, to) ==
  /\ client[c] = from
  /\ client' = [client EXCEPT ![c] = to]
  /\ UNCHANGED <<requested, loop, permits, backlog, dials, poolFds, cfFds>>

(* A valid handshake under one of the secrets.                             *)
HandshakeOk(c) == Becomes(c, "handshake", "routing")

(* 64 bytes that no secret explains: drained until the peer closes.        *)
HandshakeBad(c) == Becomes(c, "handshake", "draining")

(* No handshake within the timeout, a closed socket, a refused FakeTLS     *)
(* hello: read_inbound_handshake gave nothing.                             *)
HandshakeNone(c) == Becomes(c, "handshake", "closed")

(* The drain has no timeout: it ends when the peer closes.                 *)
Drained(c) == Becomes(c, "draining", "closed")

(* A dial of some tier; the walk of the ladder has only so many.           *)
Dials(c, to) ==
  /\ client[c] = "routing"
  /\ dials[c] < MaxDials
  /\ dials' = [dials EXCEPT ![c] = @ + 1]
  /\ client' = [client EXCEPT ![c] = to]
  /\ UNCHANGED <<requested, loop, permits, backlog, poolFds, cfFds>>

Dial(c) == FdFree /\ Dials(c, "dialling")

(* No descriptor for the socket: the dial fails at once.                   *)
DialEmfile(c) == ~FdFree /\ Dials(c, "routing")

DialFailed(c) == Becomes(c, "dialling", "routing")

DialOk(c) == Becomes(c, "dialling", "session")

(* A pool or spare hit: the socket changes its owner.                      *)
PoolHit(c) ==
  /\ client[c] = "routing"
  /\ client' = [client EXCEPT ![c] = "session"]
  /\ \/ poolFds > 0 /\ poolFds' = poolFds - 1 /\ UNCHANGED cfFds
     \/ cfFds > 0 /\ cfFds' = cfFds - 1 /\ UNCHANGED poolFds
  /\ UNCHANGED <<requested, loop, permits, backlog, dials>>

(* select_upstream gave nothing, or the last resort did not connect.       *)
Unroutable(c) == Becomes(c, "routing", "closed")

(* join_bridge waited for both directions: all halves are dropped.         *)
SessionEnds(c) == Becomes(c, "session", "closed")

(* The function has returned, its sockets are closed; now _permit goes.    *)
Release(c) ==
  /\ client[c] = "closed"
  /\ client' = [client EXCEPT ![c] = "away"]
  /\ dials' = [dials EXCEPT ![c] = 0]
  /\ permits' = permits + 1
  /\ UNCHANGED <<requested, loop, backlog, poolFds, cfFds>>

-----------------------------------------------------------------------------
(* The pools beside the clients: WsPool!FdBudget and CfPool!CfBudget.      *)
PoolDials ==
  /\ FdFree /\ poolFds < PoolFds
  /\ poolFds' = poolFds + 1
  /\ UNCHANGED <<requested, loop, permits, backlog, client, dials, cfFds>>

PoolDrops ==
  /\ poolFds > 0
  /\ poolFds' = poolFds - 1
  /\ UNCHANGED <<requested, loop, permits, backlog, client, dials, cfFds>>

CfDials ==
  /\ FdFree /\ cfFds < CfFds
  /\ cfFds' = cfFds + 1
  /\ UNCHANGED <<requested, loop, permits, backlog, client, dials, poolFds>>

CfDrops ==
  /\ cfFds > 0
  /\ cfFds' = cfFds - 1
  /\ UNCHANGED <<requested, loop, permits, backlog, client, dials, poolFds>>

-----------------------------------------------------------------------------
Loop == Acquire \/ AcceptOk \/ AcceptEmfile \/ AcceptAborted \/ BackedOff

(* What a client task does by itself: code, and waits under a timeout.     *)
Proceed(c) ==
  \/ HandshakeOk(c) \/ HandshakeBad(c) \/ HandshakeNone(c)
  \/ Dial(c) \/ DialEmfile(c) \/ PoolHit(c) \/ Unroutable(c)
  \/ Release(c)

(* What only a peer can bring about.  A dial is one of these because the   *)
(* wait for a FakeTLS upstream's hello has no timeout.                     *)
Peer(c) ==
  \/ Connect(c) \/ Drained(c) \/ SessionEnds(c)
  \/ DialFailed(c) \/ DialOk(c)

AcceptNext ==
  \/ Loop
  \/ \E c \in Clients : Proceed(c) \/ Peer(c)
  \/ PoolDials \/ PoolDrops \/ CfDials \/ CfDrops

AcceptSpec == AcceptInit /\ [][AcceptNext]_acceptVars

-----------------------------------------------------------------------------
AcceptTypeOK ==
  /\ requested \in Requests
  /\ loop \in {"permit", "accept", "backoff"}
  /\ permits \in Nat
  /\ backlog \in Seq(Clients)
  /\ client \in [Clients -> {"away", "backlog", "handshake", "draining",
                            "routing", "dialling", "session", "closed"}]
  /\ dials \in [Clients -> 0..MaxDials]
  /\ poolFds \in 0..PoolFds
  /\ cfFds \in 0..CfFds

(* The cap is within what auto_max_connections would allow, and the limit  *)
(* is not so tight that the floor of MIN_MAX_CONNECTIONS decides.          *)
WithinBudget ==
  /\ max_connections <= auto_max_connections
  /\ FdLimit >= Reserved + FdsPerConnection * MinMaxConnections

(***************************************************************************)
(* "This prevents EMFILE by keeping file-descriptor usage bounded": with a *)
(* cap within the budget, an accept, a client's dial and a pool's dial     *)
(* always find a free descriptor, whatever clients and pools do beside     *)
(* each other.  The Cloudflare spares, which limits.rs does not count, fit *)
(* because its safety margin is larger than they are.                      *)
(***************************************************************************)
BudgetSuffices ==
  WithinBudget =>
    /\ loop = "accept" => FdFree
    /\ InState({"routing"}) # {} => FdFree
    /\ poolFds < PoolFds \/ cfFds < CfFds => FdFree

(***************************************************************************)
(* Permits are neither lost nor made, on any path of the loop and of the   *)
(* task: what is not in the semaphore is with the loop or with a client.   *)
(* A lost permit would lower the cap for the rest of the process's life.   *)
(***************************************************************************)
LoopPermit == IF loop = "permit" THEN 0 ELSE 1

PermitsKept == permits + LoopPermit + Cardinality(Holders) = max_connections

(***************************************************************************)
(* "Pending TCP connections queue in the kernel backlog until capacity     *)
(* frees up": a client waits in the backlog for ever only if from some     *)
(* time on every permit stays with a session, with the drain of a bad      *)
(* handshake or with a dial; with a cap beyond the budget also if          *)
(* descriptors run out again and again.  The drain is on the list because  *)
(* it has no timeout.                                                      *)
(***************************************************************************)
AllPinned ==
  /\ permits = 0 /\ loop = "permit"
  /\ Holders \subseteq InState({"session", "draining", "dialling"})

WaitsOnlyForCapacity ==
  \A c \in Clients :
    \/ []<>(client[c] # "backlog")
    \/ <>[]AllPinned
    \/ ~WithinBudget /\ []<>~FdFree

=============================================================================
