---------------------------- MODULE RouteProofs ----------------------------
(***************************************************************************)
(* Proofs about Route for every set of connections and DCs, every          *)
(* configuration of the tiers and any number of upstreams: type            *)
(* correctness, and that each connection is the ladder of module Ladder,   *)
(* whatever the others do to the cooldowns.                                *)
(***************************************************************************)
EXTENDS Route, SequenceTheorems, TLAPS

DirectPcs ==
  {"ipcheck", "pool", "direct", "timeout", "dialing", "fronting", "cool"}

DialPcs == {"timeout", "dialing", "fronting", "cool"}

UpstreamPcs == {"upstream", "updial", "hello"}

ChainPcs == {"worker", "proxy"} \union UpstreamPcs

WalkPcs == {"start"} \union DirectPcs \union ChainPcs

(* Which tiers a connection has passed, told from where it is, from who    *)
(* called the fallback chain, and from the place in the list of upstreams. *)
Done(r, tier) ==
  \/ /\ tier[1] = "worker"
     /\ \/ r.pc = "proxy" \/ r.pc \in UpstreamPcs
        \/ r.pc \in DirectPcs /\ r.phase \in {"priority", "cooling"}
  \/ /\ tier[1] = "proxy"
     /\ \/ r.pc \in UpstreamPcs
        \/ r.pc \in DirectPcs /\ r.phase \in {"priority", "cooling"}
  \/ /\ tier[1] = "upstream"
     /\ \/ r.pc = "upstream" /\ tier[2] < r.up
        \/ r.pc \in {"updial", "hello"} /\ tier[2] <= r.up
        \/ r.pc \in DirectPcs /\ r.phase = "cooling"
  \/ /\ tier[1] = "direct"
     /\ \/ r.pc \in DialPcs
        \/ r.pc \in ChainPcs /\ r.phase = "late"

PassedExactly(r) ==
  \A tier \in TiersOf(r.key[1]) : tier \in Passed(r) <=> Done(r, tier)

(* Who may have called the chain, and what that says of the configuration. *)
PhaseOK(r) ==
  /\ r.cooling <=> r.phase = "cooling"
  /\ r.pc = "start" => r.phase = "none"
  /\ r.pc = "ipcheck" => r.phase # "cooling"
  /\ r.pc \in DirectPcs =>
       /\ TargetIp[r.key[1]] # NoIp
       /\ r.phase \in {"none", "priority", "cooling"}
       /\ r.phase = "none" => ~CfPriority
       /\ r.phase = "priority" => CfPriority
  /\ r.pc \in ChainPcs =>
       /\ r.phase # "none"
       /\ r.phase = "nodirect" <=> TargetIp[r.key[1]] = NoIp
       /\ r.phase = "priority" => CfPriority
  /\ r.pc \in {"worker", "proxy"} /\ r.phase \in {"cooling", "late"} =>
       ~CfPriority
  /\ r.pc \in UpstreamPcs => r.phase # "priority"
  /\ r.pc \in {"worker", "proxy"} => r.up = 1
  /\ r.pc \in {"updial", "hello"} => r.up <= Upstreams

(* The tier dialled last, where the code is waiting for its answer.        *)
TryingOK(r) ==
  /\ r.pc = "start" => r.log = <<>> /\ r.skipped = {}
  /\ r.pc \in {"updial", "hello"} =>
       r.log # <<>> /\ r.log[Len(r.log)] = <<"upstream", r.up>>
  /\ r.pc \in DialPcs =>
       r.log # <<>> /\ r.log[Len(r.log)] = <<"direct", 0>>

ConnOK(r) ==
  /\ r.pc = "idle" =>
       r.log = <<>> /\ r.skipped = {} /\ ~r.cooling /\ r.out = "none"
  /\ r.pc # "idle" => r.key \in Keys
  /\ r.pc \in WalkPcs =>
       /\ r.out = "none"
       /\ PhaseOK(r) /\ TryingOK(r) /\ PassedExactly(r)

IInv == TypeOK /\ \A c \in Conns : ConnOK(conn[c])

-----------------------------------------------------------------------------
(* Facts about tiers. *)

(* What a tier of a DC looks like.                                         *)
LEMMA TierForms ==
  ASSUME NEW dc \in Dcs
  PROVE  /\ \A tier \in TiersOf(dc) :
              \/ tier = <<"worker", 0>> /\ "worker" \in CfTiers
              \/ tier = <<"proxy", 0>> /\ "proxy" \in CfTiers
              \/ \E u \in 1..Upstreams : tier = <<"upstream", u>>
              \/ tier = <<"direct", 0>> /\ TargetIp[dc] # NoIp
         /\ "worker" \in CfTiers => <<"worker", 0>> \in TiersOf(dc)
         /\ "proxy" \in CfTiers => <<"proxy", 0>> \in TiersOf(dc)
         /\ \A u \in 1..Upstreams : <<"upstream", u>> \in TiersOf(dc)
         /\ TargetIp[dc] # NoIp => <<"direct", 0>> \in TiersOf(dc)
         /\ TiersOf(dc) \subseteq Tiers
<1>1. \A x \in CfTiers : x = "worker" \/ x = "proxy"
  BY ConfigAssumption
<1>2. QED
  BY <1>1 DEF TiersOf, Tiers

(* Dialling a tier adds it to the passed ones and makes it the last.       *)
LEMMA AppendFacts ==
  ASSUME NEW r, NEW s, NEW tier \in Tiers, r.log \in Seq(Tiers),
         s.log = Append(r.log, tier), s.skipped = r.skipped
  PROVE  /\ s.log \in Seq(Tiers) /\ s.log # <<>>
         /\ s.log[Len(s.log)] = tier
         /\ Passed(s) = Passed(r) \union {tier}
<1>1. /\ s.log \in Seq(Tiers) /\ Len(r.log) \in Nat
      /\ Len(s.log) = Len(r.log) + 1
      /\ \A i \in 1..Len(r.log) : s.log[i] = r.log[i]
      /\ s.log[Len(s.log)] = tier
  BY AppendProperties, LenProperties
<1>2. s.log # <<>>
  BY <1>1, EmptySeq
<1>3. 1..Len(s.log) = (1..Len(r.log)) \union {Len(s.log)}
  BY <1>1
<1>4. {s.log[i] : i \in 1..Len(s.log)}
        = {r.log[i] : i \in 1..Len(r.log)} \union {tier}
  BY <1>1, <1>3
<1>5. QED
  BY <1>1, <1>2, <1>4 DEF Passed

(* The same log and the same skipped upstreams: the same tiers passed.     *)
LEMMA PassedSame ==
  ASSUME NEW r, NEW s, s.log = r.log, s.skipped = r.skipped
  PROVE  Passed(s) = Passed(r)
  BY DEF Passed

(* The record of a connection, by its fields.                              *)
LEMMA ConnFacts ==
  ASSUME IInv, NEW c \in Conns
  PROVE  /\ conn[c] \in ConnState /\ ConnOK(conn[c])
         /\ conn[c].pc # "idle" => conn[c].key[1] \in Dcs
  BY DEF IInv, TypeOK, ConnOK, Keys

(* A step of one connection leaves the others as they were.                *)
LEMMA OneConn ==
  ASSUME IInv, NEW c \in Conns, NEW s \in ConnState, ConnOK(s),
         conn' = [conn EXCEPT ![c] = s],
         wsFail' \in [Keys -> Nat], ipFail' \in [Ips -> Nat],
         upstreamFail' \in [1..Upstreams -> Nat],
         frontingFail' \in [Keys -> Nat],
         frontingUntil' \in Nat, now' \in Nat
  PROVE  IInv'
<1>1. conn' \in [Conns -> ConnState]
  BY DEF IInv, TypeOK
<1>2. ASSUME NEW d \in Conns PROVE ConnOK(conn'[d])
  <2>1. CASE d = c
    BY <2>1 DEF IInv, TypeOK
  <2>2. CASE d # c
    <3>1. conn'[d] = conn[d]
      BY <2>2 DEF IInv, TypeOK
    <3>2. QED
      BY <3>1 DEF IInv
  <2>3. QED
    BY <2>1, <2>2
<1>3. TypeOK'
  BY <1>1 DEF TypeOK
<1>4. \A d \in Conns : ConnOK(conn[d])'
  BY <1>2
<1>5. QED
  BY <1>3, <1>4 DEF IInv

-----------------------------------------------------------------------------
(* From one connection's step to a step of the ladder. *)

(* The mapping changes at the connection that moves and nowhere else.      *)
LEMMA MappedAt ==
  ASSUME NEW old, NEW new, NEW c \in Conns, NEW s,
         \A d \in Conns : new[d] = IF d = c THEN s ELSE old[d]
  PROVE  /\ [d \in Conns |-> LeftOf(new[d])] =
              [[d \in Conns |-> LeftOf(old[d])] EXCEPT ![c] = LeftOf(s)]
         /\ [d \in Conns |-> TryingOf(new[d])] =
              [[d \in Conns |-> TryingOf(old[d])] EXCEPT ![c] = TryingOf(s)]
         /\ [d \in Conns |-> new[d].cooling] =
              [[d \in Conns |-> old[d].cooling] EXCEPT ![c] = s.cooling]
         /\ [d \in Conns |-> DecisionOf(new[d])] =
              [[d \in Conns |-> DecisionOf(old[d])] EXCEPT ![c] = DecisionOf(s)]
<1>1. [d \in Conns |-> LeftOf(new[d])] =
        [[d \in Conns |-> LeftOf(old[d])] EXCEPT ![c] = LeftOf(s)]
  BY Zenon
<1>2. [d \in Conns |-> TryingOf(new[d])] =
        [[d \in Conns |-> TryingOf(old[d])] EXCEPT ![c] = TryingOf(s)]
  BY Zenon
<1>3. [d \in Conns |-> new[d].cooling] =
        [[d \in Conns |-> old[d].cooling] EXCEPT ![c] = s.cooling]
  BY Zenon
<1>4. [d \in Conns |-> DecisionOf(new[d])] =
        [[d \in Conns |-> DecisionOf(old[d])] EXCEPT ![c] = DecisionOf(s)]
  BY Zenon
<1>5. QED
  BY <1>1, <1>2, <1>3, <1>4

LEMMA Mapped ==
  ASSUME IInv, NEW c \in Conns, NEW s, conn' = [conn EXCEPT ![c] = s]
  PROVE  /\ [d \in Conns |-> LeftOf(conn'[d])] =
              [[d \in Conns |-> LeftOf(conn[d])] EXCEPT ![c] = LeftOf(s)]
         /\ [d \in Conns |-> TryingOf(conn'[d])] =
              [[d \in Conns |-> TryingOf(conn[d])] EXCEPT ![c] = TryingOf(s)]
         /\ [d \in Conns |-> conn'[d].cooling] =
              [[d \in Conns |-> conn[d].cooling] EXCEPT ![c] = s.cooling]
         /\ [d \in Conns |-> DecisionOf(conn'[d])] =
              [[d \in Conns |-> DecisionOf(conn[d])] EXCEPT ![c] = DecisionOf(s)]
<1>1. \A d \in Conns : conn'[d] = IF d = c THEN s ELSE conn[d]
  BY DEF IInv, TypeOK
<1>2. QED
  BY ONLY <1>1, c \in Conns, MappedAt

(* Where the mapped value of that connection is the same, nothing changed. *)
LEMMA Stays ==
  ASSUME IInv, NEW c \in Conns, NEW s, conn' = [conn EXCEPT ![c] = s]
  PROVE  /\ LeftOf(s) = LeftOf(conn[c]) =>
              [d \in Conns |-> LeftOf(conn'[d])]
                = [d \in Conns |-> LeftOf(conn[d])]
         /\ TryingOf(s) = TryingOf(conn[c]) =>
              [d \in Conns |-> TryingOf(conn'[d])]
                = [d \in Conns |-> TryingOf(conn[d])]
         /\ s.cooling = conn[c].cooling =>
              [d \in Conns |-> conn'[d].cooling]
                = [d \in Conns |-> conn[d].cooling]
         /\ DecisionOf(s) = DecisionOf(conn[c]) =>
              [d \in Conns |-> DecisionOf(conn'[d])]
                = [d \in Conns |-> DecisionOf(conn[d])]
<1>1. \A d \in Conns : conn'[d] = IF d = c THEN s ELSE conn[d]
  BY DEF IInv, TypeOK
<1>2. ASSUME LeftOf(s) = LeftOf(conn[c])
      PROVE  [d \in Conns |-> LeftOf(conn'[d])]
               = [d \in Conns |-> LeftOf(conn[d])]
  BY <1>1, <1>2
<1>3. ASSUME TryingOf(s) = TryingOf(conn[c])
      PROVE  [d \in Conns |-> TryingOf(conn'[d])]
               = [d \in Conns |-> TryingOf(conn[d])]
  BY <1>1, <1>3
<1>4. ASSUME s.cooling = conn[c].cooling
      PROVE  [d \in Conns |-> conn'[d].cooling]
               = [d \in Conns |-> conn[d].cooling]
  BY <1>1, <1>4
<1>5. ASSUME DecisionOf(s) = DecisionOf(conn[c])
      PROVE  [d \in Conns |-> DecisionOf(conn'[d])]
               = [d \in Conns |-> DecisionOf(conn[d])]
  BY <1>1, <1>5
<1>6. QED
  BY <1>2, <1>3, <1>4, <1>5

(* A step that the ladder does not see.                                    *)
LEMMA Unseen ==
  ASSUME IInv, NEW c \in Conns, NEW s, conn' = [conn EXCEPT ![c] = s],
         LeftOf(s) = LeftOf(conn[c]), TryingOf(s) = TryingOf(conn[c]),
         s.cooling = conn[c].cooling, DecisionOf(s) = DecisionOf(conn[c])
  PROVE  UNCHANGED Abstract!vars
  BY Stays DEF Abstract!vars

(* The next tier is passed.                                                *)
LEMMA Passes ==
  ASSUME IInv, NEW c \in Conns, NEW s, conn' = [conn EXCEPT ![c] = s],
         NEW tier, tier \in LeftOf(conn[c]),
         \A t \in LeftOf(conn[c]) \ {tier} :
           Rank(tier, conn[c].cooling) < Rank(t, conn[c].cooling),
         DecisionOf(conn[c]) = "none",
         LeftOf(s) = LeftOf(conn[c]) \ {tier},
         s.cooling = conn[c].cooling
  PROVE  Abstract!Pass(c, tier)
<1>1. Abstract!Walking(c)
  BY DEF Abstract!Walking
<1>2. Abstract!IsNext(c, tier)
  BY DEF Abstract!IsNext
<1>3. [d \in Conns |-> LeftOf(conn'[d])] =
        [[d \in Conns |-> LeftOf(conn[d])] EXCEPT ![c] = @ \ {tier}]
  <2>1. LeftOf(s) = [d \in Conns |-> LeftOf(conn[d])][c] \ {tier}
    OBVIOUS
  <2>2. [d \in Conns |-> LeftOf(conn'[d])] =
          [[d \in Conns |-> LeftOf(conn[d])] EXCEPT ![c] = LeftOf(s)]
    BY Mapped
  <2>3. QED
    BY ONLY <2>1, <2>2
<1>4. [d \in Conns |-> conn'[d].cooling] = [d \in Conns |-> conn[d].cooling]
  BY Stays
<1>5. QED
  BY <1>1, <1>2, <1>3, <1>4 DEF Abstract!Pass

(* The next tier is dialled.                                               *)
LEMMA Dials ==
  ASSUME IInv, NEW c \in Conns, NEW s, conn' = [conn EXCEPT ![c] = s],
         NEW tier, tier \in LeftOf(conn[c]),
         \A t \in LeftOf(conn[c]) \ {tier} :
           Rank(tier, conn[c].cooling) < Rank(t, conn[c].cooling),
         DecisionOf(conn[c]) = "none",
         LeftOf(s) = LeftOf(conn[c]) \ {tier}, TryingOf(s) = tier,
         s.cooling = conn[c].cooling,
         DecisionOf(s) \in {"none", Way(tier)}
  PROVE  Abstract!Next
<1>1. Abstract!Pass(c, tier)
  BY Passes
<1>2. /\ [d \in Conns |-> TryingOf(conn'[d])] =
           [[d \in Conns |-> TryingOf(conn[d])] EXCEPT ![c] = tier]
      /\ [d \in Conns |-> DecisionOf(conn'[d])] =
           [[d \in Conns |-> DecisionOf(conn[d])] EXCEPT ![c] = DecisionOf(s)]
  BY Mapped
<1>3. CASE DecisionOf(s) = "none"
  <2>1. [d \in Conns |-> DecisionOf(conn'[d])]
          = [d \in Conns |-> DecisionOf(conn[d])]
    BY <1>3, Stays
  <2>2. Abstract!Dial(c, tier)
    BY <1>1, <1>2, <2>1 DEF Abstract!Dial
  <2>3. QED
    BY <2>2 DEF Abstract!Next
<1>4. CASE DecisionOf(s) = Way(tier)
  <2>1. Abstract!Take(c, tier)
    BY <1>1, <1>2, <1>4 DEF Abstract!Take
  <2>2. QED
    BY <2>1 DEF Abstract!Next
<1>5. QED
  BY <1>3, <1>4

(* An upstream in cooldown is passed over.                                 *)
LEMMA Skips ==
  ASSUME IInv, NEW c \in Conns, NEW s, conn' = [conn EXCEPT ![c] = s],
         NEW tier, tier \in LeftOf(conn[c]), IsUpstream(tier),
         \A t \in LeftOf(conn[c]) \ {tier} :
           Rank(tier, conn[c].cooling) < Rank(t, conn[c].cooling),
         DecisionOf(conn[c]) = "none",
         LeftOf(s) = LeftOf(conn[c]) \ {tier},
         TryingOf(s) = TryingOf(conn[c]),
         s.cooling = conn[c].cooling, DecisionOf(s) = "none"
  PROVE  Abstract!Next
<1>1. Abstract!Pass(c, tier)
  BY Passes
<1>2. /\ [d \in Conns |-> TryingOf(conn'[d])]
           = [d \in Conns |-> TryingOf(conn[d])]
      /\ [d \in Conns |-> DecisionOf(conn'[d])]
           = [d \in Conns |-> DecisionOf(conn[d])]
  BY Stays
<1>3. Abstract!Skip(c, tier)
  BY <1>1, <1>2 DEF Abstract!Skip
<1>4. QED
  BY <1>3 DEF Abstract!Next

(* A decision: for the tier dialled last, for raw TCP, or for a refusal.   *)
LEMMA Decides ==
  ASSUME IInv, NEW c \in Conns, NEW s, conn' = [conn EXCEPT ![c] = s],
         DecisionOf(conn[c]) = "none",
         LeftOf(s) = LeftOf(conn[c]), TryingOf(s) = TryingOf(conn[c]),
         s.cooling = conn[c].cooling,
         \/ TryingOf(s) # <<>> /\ DecisionOf(s) = Way(TryingOf(s))
         \/ LeftOf(s) = {} /\ DecisionOf(s) = "tcp"
         \/ TryingOf(s) = <<>> /\ DecisionOf(s) = "refused"
  PROVE  Abstract!Next
<1>1. /\ [d \in Conns |-> LeftOf(conn'[d])]
           = [d \in Conns |-> LeftOf(conn[d])]
      /\ [d \in Conns |-> TryingOf(conn'[d])]
           = [d \in Conns |-> TryingOf(conn[d])]
      /\ [d \in Conns |-> conn'[d].cooling]
           = [d \in Conns |-> conn[d].cooling]
  BY Stays
<1>2. [d \in Conns |-> DecisionOf(conn'[d])] =
        [[d \in Conns |-> DecisionOf(conn[d])] EXCEPT ![c] = DecisionOf(s)]
  BY Mapped
<1>3. Abstract!Decide(c, DecisionOf(s))
  BY <1>1, <1>2 DEF Abstract!Decide, Abstract!Walking
<1>4. /\ [d \in Conns |-> LeftOf(conn[d])][c] = LeftOf(s)
      /\ [d \in Conns |-> TryingOf(conn[d])][c] = TryingOf(s)
  OBVIOUS
<1>5. CASE TryingOf(s) # <<>> /\ DecisionOf(s) = Way(TryingOf(s))
  <2>1. Abstract!Succeed(c)
    BY <1>3, <1>4, <1>5 DEF Abstract!Succeed, Abstract!Nothing
  <2>2. QED
    BY <2>1 DEF Abstract!Next
<1>6. CASE LeftOf(s) = {} /\ DecisionOf(s) = "tcp"
  <2>1. Abstract!LastResort(c)
    BY <1>3, <1>4, <1>6 DEF Abstract!LastResort
  <2>2. QED
    BY <2>1 DEF Abstract!Next
<1>7. CASE TryingOf(s) = <<>> /\ DecisionOf(s) = "refused"
  <2>1. Abstract!Refuse(c)
    BY <1>3, <1>4, <1>7 DEF Abstract!Refuse, Abstract!Nothing
  <2>2. QED
    BY <2>1 DEF Abstract!Next
<1>8. QED
  BY <1>5, <1>6, <1>7

-----------------------------------------------------------------------------
(* The kinds of steps a connection takes. *)

CooldownsOK ==
  /\ wsFail \in [Keys -> Nat] /\ ipFail \in [Ips -> Nat]
  /\ upstreamFail \in [1..Upstreams -> Nat]
  /\ frontingFail \in [Keys -> Nat]
  /\ frontingUntil \in Nat /\ now \in Nat

(* What every step has to keep: the invariant, and the ladder.             *)
Kept == IInv' /\ (Abstract!Next \/ UNCHANGED Abstract!vars)

(* One connection moves from conn[c] to s.                                 *)
Moves(c, s) ==
  /\ IInv
  /\ conn' = [conn EXCEPT ![c] = s]
  /\ CooldownsOK'
  /\ s \in ConnState
  /\ conn[c].pc \in WalkPcs
  /\ s.key = conn[c].key

(* It walks on, and the invariant's parts hold of it.                      *)
WalksOn(s) == s.pc \in WalkPcs /\ s.out = "none" /\ PhaseOK(s) /\ TryingOK(s)

(* tier comes before every other tier that is not done.                    *)
First(r, tier) ==
  /\ tier \in TiersOf(r.key[1])
  /\ ~Done(r, tier)
  /\ \A t \in TiersOf(r.key[1]) \ {tier} :
       ~Done(r, t) => Rank(tier, r.cooling) < Rank(t, r.cooling)

(* What the invariant says of a connection on its way.                     *)
LEMMA Here ==
  ASSUME IInv, NEW c \in Conns, conn[c].pc \in WalkPcs
  PROVE  /\ conn[c] \in ConnState /\ conn[c].key[1] \in Dcs
         /\ conn[c].key \in Keys
         /\ conn[c].pc # "idle" /\ conn[c].pc # "routed"
         /\ conn[c].out = "none"
         /\ PhaseOK(conn[c]) /\ TryingOK(conn[c]) /\ PassedExactly(conn[c])
         /\ DecisionOf(conn[c]) = "none"
         /\ LeftOf(conn[c]) = {t \in TiersOf(conn[c].key[1]) : ~Done(conn[c], t)}
<1>1. conn[c].pc # "idle" /\ conn[c].pc # "routed"
  BY DEF WalkPcs, DirectPcs, ChainPcs, UpstreamPcs
<1>2. /\ conn[c] \in ConnState /\ conn[c].key[1] \in Dcs
      /\ conn[c].key \in Keys /\ conn[c].out = "none"
      /\ PhaseOK(conn[c]) /\ TryingOK(conn[c]) /\ PassedExactly(conn[c])
  BY <1>1, ConnFacts DEF ConnOK
<1>3. DecisionOf(conn[c]) = "none"
  BY <1>1, <1>2 DEF DecisionOf
<1>4. LeftOf(conn[c]) = {t \in TiersOf(conn[c].key[1]) : ~Done(conn[c], t)}
  BY <1>1, <1>2 DEF LeftOf, PassedExactly
<1>5. QED
  BY <1>1, <1>2, <1>3, <1>4

LEMMA Walking ==
  ASSUME NEW c \in Conns, NEW s, Moves(c, s)
  PROVE  /\ conn[c] \in ConnState /\ conn[c].key[1] \in Dcs
         /\ conn[c].key \in Keys
         /\ conn[c].pc # "idle" /\ conn[c].pc # "routed"
         /\ conn[c].out = "none"
         /\ PhaseOK(conn[c]) /\ TryingOK(conn[c]) /\ PassedExactly(conn[c])
         /\ DecisionOf(conn[c]) = "none"
         /\ LeftOf(conn[c]) = {t \in TiersOf(conn[c].key[1]) : ~Done(conn[c], t)}
  BY Here DEF Moves

(* The invariant after the step, where the connection walks on.            *)
LEMMA KeepsWalking ==
  ASSUME NEW c \in Conns, NEW s, Moves(c, s), WalksOn(s), PassedExactly(s)
  PROVE  IInv'
<1>1. s.pc # "idle"
  BY DEF WalksOn, WalkPcs, DirectPcs, ChainPcs, UpstreamPcs
<1>2. ConnOK(s)
  BY <1>1, Walking DEF ConnOK, WalksOn, Moves
<1>3. QED
  BY <1>2, OneConn DEF Moves, CooldownsOK

(* The invariant after the step, where it is routed.                       *)
LEMMA KeepsRouted ==
  ASSUME NEW c \in Conns, NEW s, Moves(c, s), s.pc = "routed"
  PROVE  IInv'
<1>1. ConnOK(s)
  BY Walking DEF ConnOK, Moves, WalkPcs, DirectPcs, ChainPcs, UpstreamPcs
<1>2. QED
  BY <1>1, OneConn DEF Moves, CooldownsOK

(* A step that passes no tier and decides nothing.                         *)
LEMMA Silent ==
  ASSUME NEW c \in Conns, NEW s, Moves(c, s), WalksOn(s),
         s.log = conn[c].log, s.skipped = conn[c].skipped,
         s.cooling = conn[c].cooling,
         \A t \in TiersOf(conn[c].key[1]) : Done(s, t) <=> Done(conn[c], t)
  PROVE  Kept
<1>1. Passed(s) = Passed(conn[c])
  BY PassedSame
<1>2. PassedExactly(s)
  BY <1>1, Walking DEF PassedExactly, Moves
<1>3. s.pc # "idle" /\ s.pc # "routed"
  BY DEF WalksOn, WalkPcs, DirectPcs, ChainPcs, UpstreamPcs
<1>4. LeftOf(s) = LeftOf(conn[c])
  BY <1>1, <1>3, Walking DEF LeftOf, Moves
<1>5. TryingOf(s) = TryingOf(conn[c])
  BY DEF TryingOf
<1>6. DecisionOf(s) = DecisionOf(conn[c])
  BY <1>3, Walking DEF DecisionOf, WalksOn
<1>7. UNCHANGED Abstract!vars
  BY <1>4, <1>5, <1>6, Unseen DEF Moves
<1>8. QED
  BY <1>2, <1>7, KeepsWalking DEF Kept

(* The first tier left is dialled: the connection waits for the answer, or *)
(* goes the tier's way at once.                                            *)
LEMMA Dialling ==
  ASSUME NEW c \in Conns, NEW s, NEW tier, Moves(c, s),
         First(conn[c], tier), s.log = Append(conn[c].log, tier),
         s.skipped = conn[c].skipped, s.cooling = conn[c].cooling,
         \/ /\ WalksOn(s)
            /\ \A t \in TiersOf(conn[c].key[1]) :
                 Done(s, t) <=> Done(conn[c], t) \/ t = tier
         \/ s.pc = "routed" /\ s.out = Way(tier)
  PROVE  Kept
<1>1. tier \in Tiers
  BY Walking, TierForms DEF First
<1>2. conn[c].log \in Seq(Tiers)
  BY Walking DEF ConnState
<1>3. /\ s.log # <<>> /\ s.log[Len(s.log)] = tier
      /\ Passed(s) = Passed(conn[c]) \union {tier}
  BY <1>1, <1>2, AppendFacts
<1>4. s.pc # "idle"
  BY DEF WalksOn, WalkPcs, DirectPcs, ChainPcs, UpstreamPcs
<1>5. LeftOf(s) = LeftOf(conn[c]) \ {tier}
  BY <1>3, <1>4, Walking DEF LeftOf, Moves
<1>6. TryingOf(s) = tier
  BY <1>3 DEF TryingOf
<1>7. tier # <<>> /\ Way(tier) # "none"
  BY Walking, TierForms DEF First, Way
<1>8. DecisionOf(s) \in {"none", Way(tier)}
  BY <1>4, <1>7 DEF DecisionOf, WalksOn, WalkPcs, DirectPcs, ChainPcs, UpstreamPcs
<1>9. /\ tier \in LeftOf(conn[c])
      /\ \A t \in LeftOf(conn[c]) \ {tier} :
           Rank(tier, conn[c].cooling) < Rank(t, conn[c].cooling)
  BY Walking DEF First
<1>10. Abstract!Next
  BY <1>5, <1>6, <1>8, <1>9, Walking, Dials DEF Moves
<1>11. IInv'
  <2>1. CASE s.pc = "routed"
    BY <2>1, KeepsRouted
  <2>2. CASE s.pc # "routed"
    <3>1. PassedExactly(s)
      BY <1>3, <2>2, Walking DEF PassedExactly, Moves
    <3>2. QED
      BY <3>1, <2>2, KeepsWalking
  <2>3. QED
    BY <2>1, <2>2
<1>12. QED
  BY <1>10, <1>11 DEF Kept

(* An upstream in cooldown is passed over.                                 *)
LEMMA Skipping ==
  ASSUME NEW c \in Conns, NEW s, NEW tier, Moves(c, s), WalksOn(s),
         First(conn[c], tier), IsUpstream(tier), s.log = conn[c].log,
         s.skipped = conn[c].skipped \union {tier},
         s.cooling = conn[c].cooling,
         \A t \in TiersOf(conn[c].key[1]) :
           Done(s, t) <=> Done(conn[c], t) \/ t = tier
  PROVE  Kept
<1>1. Passed(s) = Passed(conn[c]) \union {tier}
  BY DEF Passed
<1>2. s.pc # "idle" /\ s.pc # "routed"
  BY DEF WalksOn, WalkPcs, DirectPcs, ChainPcs, UpstreamPcs
<1>3. LeftOf(s) = LeftOf(conn[c]) \ {tier}
  BY <1>1, <1>2, Walking DEF LeftOf, Moves
<1>4. TryingOf(s) = TryingOf(conn[c]) /\ DecisionOf(s) = "none"
  BY <1>2 DEF TryingOf, DecisionOf, WalksOn
<1>5. /\ tier \in LeftOf(conn[c])
      /\ \A t \in LeftOf(conn[c]) \ {tier} :
           Rank(tier, conn[c].cooling) < Rank(t, conn[c].cooling)
  BY Walking DEF First
<1>6. Abstract!Next
  BY <1>3, <1>4, <1>5, Walking, Skips DEF Moves
<1>7. PassedExactly(s)
  BY <1>1, Walking DEF PassedExactly, Moves
<1>8. QED
  BY <1>6, <1>7, KeepsWalking DEF Kept

(* The connection is routed: through the tier it dialled last, to raw TCP  *)
(* when every tier is done, or not at all before the first one.            *)
LEMMA Settling ==
  ASSUME NEW c \in Conns, NEW s, Moves(c, s), s.pc = "routed",
         s.log = conn[c].log, s.skipped = conn[c].skipped,
         s.cooling = conn[c].cooling,
         \/ /\ conn[c].log # <<>> /\ s.out # "none"
            /\ s.out = Way(conn[c].log[Len(conn[c].log)])
            /\ conn[c].log[Len(conn[c].log)] # <<>>
         \/ /\ \A t \in TiersOf(conn[c].key[1]) : Done(conn[c], t)
            /\ s.out = "tcp"
         \/ conn[c].log = <<>> /\ s.out = "none"
  PROVE  Kept
<1>1. Passed(s) = Passed(conn[c])
  BY PassedSame
<1>2. LeftOf(s) = LeftOf(conn[c])
  BY <1>1, Walking DEF LeftOf, Moves
<1>3. TryingOf(s) = TryingOf(conn[c])
  BY DEF TryingOf
<1>4. \/ TryingOf(s) # <<>> /\ DecisionOf(s) = Way(TryingOf(s))
      \/ LeftOf(s) = {} /\ DecisionOf(s) = "tcp"
      \/ TryingOf(s) = <<>> /\ DecisionOf(s) = "refused"
  BY <1>2, Walking DEF TryingOf, DecisionOf
<1>5. Abstract!Next
  BY <1>2, <1>3, <1>4, Walking, Decides DEF Moves
<1>6. QED
  BY <1>5, KeepsRouted DEF Kept

-----------------------------------------------------------------------------
(* The actions, one by one. *)

(* The rank of every kind of tier.                                         *)
LEMMA Ranks ==
  ASSUME NEW cooling \in BOOLEAN
  PROVE  /\ Rank(<<"worker", 0>>, cooling) = 2
         /\ Rank(<<"proxy", 0>>, cooling) = 4
         /\ \A u \in 1..Upstreams :
              Rank(<<"upstream", u>>, cooling) = 4 + 2 * u
         /\ Rank(<<"direct", 0>>, cooling) =
              IF cooling THEN 2 * Upstreams + 5
              ELSE IF CfPriority THEN 5 ELSE 1
  BY DEF Rank

(* Where a tier is the first of those left, for each place in the ladder.  *)
LEMMA FirstTier ==
  ASSUME NEW r \in ConnState, r.key[1] \in Dcs, PhaseOK(r)
  PROVE  /\ r.pc = "worker" /\ "worker" \in CfTiers => First(r, <<"worker", 0>>)
         /\ r.pc = "proxy" /\ "proxy" \in CfTiers => First(r, <<"proxy", 0>>)
         /\ r.pc = "upstream" /\ r.up <= Upstreams =>
              First(r, <<"upstream", r.up>>)
         /\ r.pc \in {"pool", "direct"} => First(r, <<"direct", 0>>)
<1> USE ConfigAssumption
<1>1. r.cooling \in BOOLEAN /\ r.up \in 1..(Upstreams + 1)
  BY DEF ConnState
<1>2. CASE r.pc = "worker" /\ "worker" \in CfTiers
  <2>1. ~Done(r, <<"worker", 0>>)
    BY <1>2 DEF Done, DirectPcs, UpstreamPcs
  <2>2. ASSUME NEW t \in TiersOf(r.key[1]) \ {<<"worker", 0>>}, ~Done(r, t)
        PROVE  Rank(<<"worker", 0>>, r.cooling) < Rank(t, r.cooling)
    <3>1. \/ t = <<"proxy", 0>>
          \/ \E u \in 1..Upstreams : t = <<"upstream", u>>
          \/ t = <<"direct", 0>> /\ (r.cooling \/ CfPriority)
      BY <1>2, <2>2, TierForms DEF Done, PhaseOK, ChainPcs, UpstreamPcs, ConnState
    <3>2. QED
      BY <1>1, <3>1, Ranks
  <2>3. QED
    BY <1>2, <2>1, <2>2, TierForms DEF First
<1>3. CASE r.pc = "proxy" /\ "proxy" \in CfTiers
  <2>1. ~Done(r, <<"proxy", 0>>)
    BY <1>3 DEF Done, DirectPcs, UpstreamPcs
  <2>2. ASSUME NEW t \in TiersOf(r.key[1]) \ {<<"proxy", 0>>}, ~Done(r, t)
        PROVE  Rank(<<"proxy", 0>>, r.cooling) < Rank(t, r.cooling)
    <3>1. \/ \E u \in 1..Upstreams : t = <<"upstream", u>>
          \/ t = <<"direct", 0>> /\ (r.cooling \/ CfPriority)
      BY <1>3, <2>2, TierForms DEF Done, PhaseOK, ChainPcs, UpstreamPcs, ConnState
    <3>2. QED
      BY <1>1, <3>1, Ranks
  <2>3. QED
    BY <1>3, <2>1, <2>2, TierForms DEF First
<1>4. CASE r.pc = "upstream" /\ r.up <= Upstreams
  <2>1. ~Done(r, <<"upstream", r.up>>) /\ r.up \in 1..Upstreams
    BY <1>1, <1>4 DEF Done, DirectPcs, UpstreamPcs
  <2>2. ASSUME NEW t \in TiersOf(r.key[1]) \ {<<"upstream", r.up>>}, ~Done(r, t)
        PROVE  Rank(<<"upstream", r.up>>, r.cooling) < Rank(t, r.cooling)
    <3>1. \/ \E u \in 1..Upstreams : u > r.up /\ t = <<"upstream", u>>
          \/ t = <<"direct", 0>> /\ r.cooling
      BY <1>1, <1>4, <2>1, <2>2, TierForms
      DEF Done, PhaseOK, ChainPcs, UpstreamPcs, ConnState
    <3>2. QED
      BY <1>1, <2>1, <3>1, Ranks
  <2>3. QED
    BY <1>4, <2>1, <2>2, TierForms DEF First
<1>5. CASE r.pc \in {"pool", "direct"}
  <2>1. ~Done(r, <<"direct", 0>>)
    BY <1>5 DEF Done, DialPcs, ChainPcs, UpstreamPcs
  <2>2. ASSUME NEW t \in TiersOf(r.key[1]) \ {<<"direct", 0>>}, ~Done(r, t)
        PROVE  Rank(<<"direct", 0>>, r.cooling) < Rank(t, r.cooling)
    BY <1>1, <1>5, <2>2, Ranks, TierForms DEF Done, PhaseOK, DirectPcs
  <2>3. QED
    BY <1>5, <2>1, <2>2, TierForms DEF First, PhaseOK, DirectPcs
<1>6. QED
  BY <1>2, <1>3, <1>4, <1>5

(* What Dialled changes.                                                   *)
LEMMA DialledFacts ==
  ASSUME IInv, NEW c \in Conns, conn[c].key[1] \in Dcs,
         NEW tier \in TiersOf(conn[c].key[1])
  PROVE  /\ Dialled(c, tier) \in ConnState
         /\ Dialled(c, tier) =
              [conn[c] EXCEPT !.log = Append(conn[c].log, tier)]
<1>1. conn[c] \in ConnState /\ tier \in Tiers
  BY ConnFacts, TierForms
<1>2. Append(conn[c].log, tier) \in Seq(Tiers)
  BY <1>1, AppendProperties DEF ConnState
<1>3. QED
  BY <1>1, <1>2 DEF Dialled, ConnState

(* A pooled connection of the first tier left is taken.                    *)
LEMMA Taking ==
  ASSUME IInv, NEW c \in Conns, conn[c].pc \in WalkPcs, CooldownsOK',
         NEW tier, First(conn[c], tier),
         conn' = [conn EXCEPT ![c] =
           [Dialled(c, tier) EXCEPT !.pc = "routed", !.out = Way(tier)]]
  PROVE  Kept
<1> DEFINE r == conn[c]
           s == [Dialled(c, tier) EXCEPT !.pc = "routed", !.out = Way(tier)]
<1>1. r \in ConnState /\ tier \in TiersOf(r.key[1]) /\ r.key[1] \in Dcs
  BY Here DEF First
<1>2. Dialled(c, tier) \in ConnState /\ Way(tier) \in {"tunnel", "mtproto", "packets"}
  BY <1>1, DialledFacts DEF Way
<1>3. s \in ConnState
  BY <1>2 DEF ConnState
<1>4. /\ s.key = r.key /\ s.skipped = r.skipped /\ s.cooling = r.cooling
      /\ s.log = Append(r.log, tier) /\ s.pc = "routed" /\ s.out = Way(tier)
  BY <1>1 DEF Dialled, ConnState
<1>5. Moves(c, s)
  BY <1>3, <1>4 DEF Moves
<1>6. QED
  BY <1>4, <1>5, Dialling

(* The first tier left is dialled and the code waits, or goes on, at pc.   *)
LEMMA Waiting ==
  ASSUME IInv, NEW c \in Conns, conn[c].pc \in WalkPcs, CooldownsOK',
         NEW tier, First(conn[c], tier), NEW pc \in WalkPcs,
         conn' = [conn EXCEPT ![c] = [Dialled(c, tier) EXCEPT !.pc = pc]],
         WalksOn([Dialled(c, tier) EXCEPT !.pc = pc]),
         \A t \in TiersOf(conn[c].key[1]) :
           Done([Dialled(c, tier) EXCEPT !.pc = pc], t)
             <=> Done(conn[c], t) \/ t = tier
  PROVE  Kept
<1> DEFINE r == conn[c]
           s == [Dialled(c, tier) EXCEPT !.pc = pc]
<1>1. r \in ConnState /\ tier \in TiersOf(r.key[1]) /\ r.key[1] \in Dcs
  BY Here DEF First
<1>2. Dialled(c, tier) \in ConnState
  BY <1>1, DialledFacts
<1>3. s \in ConnState
  BY <1>2 DEF ConnState, WalkPcs, DirectPcs, ChainPcs, UpstreamPcs
<1>4. /\ s.key = r.key /\ s.skipped = r.skipped /\ s.cooling = r.cooling
      /\ s.log = Append(r.log, tier)
  BY <1>1 DEF Dialled, ConnState
<1>5. Moves(c, s)
  BY <1>3, <1>4 DEF Moves
<1>6. QED
  BY <1>4, <1>5, Dialling

(* A step that leaves the cooldowns alone.                                 *)
LEMMA SameCooldowns ==
  ASSUME IInv, UNCHANGED <<cooldowns, now>>
  PROVE  CooldownsOK'
  BY DEF IInv, TypeOK, CooldownsOK, cooldowns

LEMMA WorkerKept ==
  ASSUME IInv, NEW c \in Conns, Worker(c)
  PROVE  Kept
<1> DEFINE r == conn[c]
<1> USE DEF DirectPcs, DialPcs, UpstreamPcs, ChainPcs, WalkPcs
<1>1. r.pc = "worker" /\ CooldownsOK'
  BY SameCooldowns DEF Worker, At
<1>2. /\ r \in ConnState /\ r.key[1] \in Dcs /\ r.out = "none"
      /\ PhaseOK(r) /\ TryingOK(r)
  BY <1>1, Here
<1>3. CASE /\ "worker" \notin CfTiers
           /\ conn' = [conn EXCEPT ![c].pc = "proxy"]
  <2> DEFINE s == [r EXCEPT !.pc = "proxy"]
  <2>1. Moves(c, s)
    BY <1>1, <1>2, <1>3 DEF Moves, ConnState
  <2>2. WalksOn(s)
    BY <1>1, <1>2 DEF ConnState, WalksOn, PhaseOK, TryingOK
  <2>3. \A t \in TiersOf(r.key[1]) : Done(s, t) <=> Done(r, t)
    BY <1>1, <1>2, <1>3, TierForms DEF ConnState, Done
  <2>4. s.log = r.log /\ s.skipped = r.skipped /\ s.cooling = r.cooling
    BY <1>2 DEF ConnState
  <2>5. QED
    BY <2>1, <2>2, <2>3, <2>4, Silent
<1>4. CASE /\ "worker" \in CfTiers
           /\ conn' = [conn EXCEPT ![c] =
                [Dialled(c, <<"worker", 0>>) EXCEPT !.pc = "proxy"]]
  <2> DEFINE s == [Dialled(c, <<"worker", 0>>) EXCEPT !.pc = "proxy"]
  <2>1. WalksOn(s)
    BY <1>1, <1>2 DEF ConnState, WalksOn, PhaseOK, TryingOK, Dialled
  <2>2. \A t \in TiersOf(r.key[1]) :
          Done(s, t) <=> Done(r, t) \/ t = <<"worker", 0>>
    BY <1>1, <1>2, TierForms DEF ConnState, Done, Dialled
  <2>3. First(r, <<"worker", 0>>)
    BY <1>1, <1>2, <1>4, FirstTier
  <2>4. QED
    BY <1>1, <1>4, <2>1, <2>2, <2>3, Waiting
<1>5. CASE /\ "worker" \in CfTiers
           /\ conn' = [conn EXCEPT ![c] =
                [Dialled(c, <<"worker", 0>>) EXCEPT !.pc = "routed",
                                                    !.out = "tunnel"]]
  <2>1. First(r, <<"worker", 0>>)
    BY <1>1, <1>2, <1>5, FirstTier
  <2>2. Way(<<"worker", 0>>) = "tunnel"
    BY DEF Way
  <2>3. QED
    BY <1>1, <1>5, <2>1, <2>2, Taking
<1>6. QED
  BY <1>3, <1>4, <1>5 DEF Worker, Goto

LEMMA ProxyKept ==
  ASSUME IInv, NEW c \in Conns, Proxy(c)
  PROVE  Kept
<1> DEFINE r == conn[c]
<1> USE DEF DirectPcs, DialPcs, UpstreamPcs, ChainPcs, WalkPcs
<1>1. r.pc = "proxy" /\ CooldownsOK'
  BY SameCooldowns DEF Proxy, At
<1>2. /\ r \in ConnState /\ r.key[1] \in Dcs /\ r.out = "none"
      /\ PhaseOK(r) /\ TryingOK(r)
  BY <1>1, Here
<1>3. AfterCf(c) \in {"ipcheck", "upstream"}
  BY DEF AfterCf
<1>4. r.phase = "priority" <=> AfterCf(c) = "ipcheck"
  BY DEF AfterCf
<1>5. CASE /\ "proxy" \notin CfTiers
           /\ conn' = [conn EXCEPT ![c].pc = AfterCf(c)]
  <2> DEFINE s == [r EXCEPT !.pc = AfterCf(c)]
  <2>1. Moves(c, s)
    BY <1>1, <1>2, <1>3, <1>5 DEF Moves, ConnState
  <2>2. WalksOn(s)
    BY <1>1, <1>2, <1>3, <1>4 DEF ConnState, WalksOn, PhaseOK, TryingOK
  <2>3. \A t \in TiersOf(r.key[1]) : Done(s, t) <=> Done(r, t)
    <3>1. s.pc = AfterCf(c) /\ s.phase = r.phase /\ s.up = 1
      BY <1>1, <1>2 DEF ConnState, PhaseOK
    <3>2. QED
      BY <1>1, <1>2, <1>3, <1>4, <1>5, <3>1, TierForms DEF Done, PhaseOK
  <2>4. s.log = r.log /\ s.skipped = r.skipped /\ s.cooling = r.cooling
    BY <1>2 DEF ConnState
  <2>5. QED
    BY <2>1, <2>2, <2>3, <2>4, Silent
<1>6. CASE /\ "proxy" \in CfTiers
           /\ conn' = [conn EXCEPT ![c] =
                [Dialled(c, <<"proxy", 0>>) EXCEPT !.pc = AfterCf(c)]]
  <2> DEFINE s == [Dialled(c, <<"proxy", 0>>) EXCEPT !.pc = AfterCf(c)]
  <2>1. WalksOn(s)
    BY <1>1, <1>2, <1>3, <1>4 DEF ConnState, WalksOn, PhaseOK, TryingOK, Dialled
  <2>2. \A t \in TiersOf(r.key[1]) :
          Done(s, t) <=> Done(r, t) \/ t = <<"proxy", 0>>
    <3>1. s.pc = AfterCf(c) /\ s.phase = r.phase /\ s.up = 1
      BY <1>1, <1>2 DEF ConnState, PhaseOK, Dialled
    <3>2. QED
      BY <1>1, <1>2, <1>3, <1>4, <3>1, TierForms DEF Done, PhaseOK
  <2>3. First(r, <<"proxy", 0>>)
    BY <1>1, <1>2, <1>6, FirstTier
  <2>4. QED
    BY <1>1, <1>3, <1>6, <2>1, <2>2, <2>3, Waiting
<1>7. CASE /\ "proxy" \in CfTiers
           /\ conn' = [conn EXCEPT ![c] =
                [Dialled(c, <<"proxy", 0>>) EXCEPT !.pc = "routed",
                                                   !.out = "packets"]]
  <2>1. First(r, <<"proxy", 0>>)
    BY <1>1, <1>2, <1>7, FirstTier
  <2>2. Way(<<"proxy", 0>>) = "packets"
    BY DEF Way
  <2>3. QED
    BY <1>1, <1>7, <2>1, <2>2, Taking
<1>8. QED
  BY <1>5, <1>6, <1>7 DEF Proxy, Goto

LEMMA UpstreamSkipKept ==
  ASSUME IInv, NEW c \in Conns, UpstreamSkip(c)
  PROVE  Kept
<1> DEFINE r == conn[c]
           tier == <<"upstream", r.up>>
           s == [r EXCEPT !.up = r.up + 1, !.skipped = r.skipped \union {tier}]
<1> USE DEF DirectPcs, DialPcs, UpstreamPcs, ChainPcs, WalkPcs
<1>1. /\ r.pc = "upstream" /\ r.up <= Upstreams /\ CooldownsOK'
      /\ conn' = [conn EXCEPT ![c] = s]
  BY SameCooldowns DEF UpstreamSkip, At
<1>2. /\ r \in ConnState /\ r.key[1] \in Dcs /\ r.out = "none"
      /\ PhaseOK(r) /\ TryingOK(r)
  BY <1>1, Here
<1>3. r.up \in 1..Upstreams
  BY <1>1, <1>2, ConfigAssumption DEF ConnState
<1>4. tier \in Tiers
  BY <1>2, <1>3, TierForms
<1>5. s \in ConnState
  <2>1. r.up + 1 \in 1..(Upstreams + 1)
    BY <1>3, ConfigAssumption
  <2>2. r.skipped \union {tier} \in SUBSET Tiers
    BY <1>2, <1>4 DEF ConnState
  <2>3. QED
    BY <1>2, <2>1, <2>2 DEF ConnState
<1>6. /\ s.pc = "upstream" /\ s.key = r.key /\ s.log = r.log /\ s.phase = r.phase
      /\ s.cooling = r.cooling /\ s.out = "none" /\ s.up = r.up + 1
      /\ s.skipped = r.skipped \union {tier}
  BY <1>1, <1>2 DEF ConnState
<1>7. Moves(c, s)
  BY <1>1, <1>5, <1>6 DEF Moves
<1>8. WalksOn(s)
  BY <1>1, <1>2, <1>6 DEF WalksOn, PhaseOK, TryingOK
<1>9. First(r, tier)
  BY <1>1, <1>2, FirstTier
<1>10. \A t \in TiersOf(r.key[1]) : Done(s, t) <=> Done(r, t) \/ t = tier
  BY <1>1, <1>2, <1>3, <1>6, TierForms, ConfigAssumption DEF Done
<1>11. QED
  BY <1>6, <1>7, <1>8, <1>9, <1>10, Skipping DEF IsUpstream

LEMMA UpstreamDialKept ==
  ASSUME IInv, NEW c \in Conns, UpstreamDial(c)
  PROVE  Kept
<1> DEFINE r == conn[c]
           tier == <<"upstream", r.up>>
           s == [Dialled(c, tier) EXCEPT !.pc = "updial"]
<1> USE DEF DirectPcs, DialPcs, UpstreamPcs, ChainPcs, WalkPcs
<1>1. /\ r.pc = "upstream" /\ r.up <= Upstreams /\ CooldownsOK'
      /\ conn' = [conn EXCEPT ![c] = s]
  BY SameCooldowns DEF UpstreamDial, At
<1>2. /\ r \in ConnState /\ r.key[1] \in Dcs /\ r.out = "none"
      /\ PhaseOK(r) /\ TryingOK(r)
  BY <1>1, Here
<1>3. r.up \in 1..Upstreams
  BY <1>1, <1>2, ConfigAssumption DEF ConnState
<1>4. First(r, tier)
  BY <1>1, <1>2, FirstTier
<1>5. /\ s.pc = "updial" /\ s.phase = r.phase /\ s.up = r.up /\ s.key = r.key
      /\ s.cooling = r.cooling /\ s.out = "none" /\ s.log = Append(r.log, tier)
      /\ s.skipped = r.skipped
  BY <1>1, <1>2 DEF ConnState, Dialled
<1>6. s.log # <<>> /\ s.log[Len(s.log)] = tier
  <2>1. r.log \in Seq(Tiers) /\ tier \in Tiers
    BY <1>2, <1>3, TierForms DEF ConnState
  <2> HIDE DEF s, tier
  <2>2. QED
    BY <1>5, <2>1, AppendFacts
<1>7. WalksOn(s)
  BY <1>1, <1>2, <1>5, <1>6 DEF WalksOn, PhaseOK, TryingOK
<1>8. \A t \in TiersOf(r.key[1]) : Done(s, t) <=> Done(r, t) \/ t = tier
  BY <1>1, <1>2, <1>3, <1>5, TierForms, ConfigAssumption DEF Done
<1>9. QED
  BY <1>1, <1>4, <1>7, <1>8, Waiting

(* An answer, at either wait of the upstream's dial.                       *)
LEMMA UpstreamOkKept ==
  ASSUME IInv, NEW c \in Conns, conn[c].pc \in {"updial", "hello"},
         UpstreamOk(c)
  PROVE  Kept
<1> DEFINE r == conn[c]
           s == [r EXCEPT !.pc = "routed", !.out = "mtproto"]
<1> USE DEF DirectPcs, DialPcs, UpstreamPcs, ChainPcs, WalkPcs
<1>1. conn' = [conn EXCEPT ![c] = s]
  BY DEF UpstreamOk, Routed
<1>2. /\ r \in ConnState /\ r.key[1] \in Dcs /\ PhaseOK(r) /\ TryingOK(r)
  BY Here
<1>3. CooldownsOK'
  BY DEF UpstreamOk, IInv, TypeOK, CooldownsOK
<1>4. s \in ConnState
  BY <1>2 DEF ConnState
<1>5. /\ s.pc = "routed" /\ s.out = "mtproto" /\ s.key = r.key
      /\ s.log = r.log /\ s.skipped = r.skipped /\ s.cooling = r.cooling
  BY <1>2 DEF ConnState
<1>6. Moves(c, s)
  BY <1>1, <1>3, <1>4, <1>5 DEF Moves
<1>7. r.log # <<>> /\ r.log[Len(r.log)] = <<"upstream", r.up>>
  BY <1>2 DEF TryingOK
<1>8. Way(<<"upstream", r.up>>) = "mtproto" /\ <<"upstream", r.up>> # <<>>
  BY DEF Way
<1>9. QED
  BY <1>5, <1>6, <1>7, <1>8, Settling

(* A failure or a timeout, at either wait.                                 *)
LEMMA UpstreamFailedKept ==
  ASSUME IInv, NEW c \in Conns, conn[c].pc \in {"updial", "hello"},
         UpstreamFailed(c)
  PROVE  Kept
<1> DEFINE r == conn[c]
           s == [r EXCEPT !.pc = "upstream", !.up = r.up + 1]
<1> USE DEF DirectPcs, DialPcs, UpstreamPcs, ChainPcs, WalkPcs
<1>1. conn' = [conn EXCEPT ![c] = s]
  BY DEF UpstreamFailed
<1>2. /\ r \in ConnState /\ r.key[1] \in Dcs /\ PhaseOK(r) /\ TryingOK(r)
      /\ r.out = "none"
  BY Here
<1>3. r.up \in 1..Upstreams
  BY <1>2, ConfigAssumption DEF ConnState, PhaseOK
<1>4. CooldownsOK'
  <2>1. now + UpstreamFailCooldown \in Nat
    BY TimeAssumption DEF IInv, TypeOK
  <2>2. QED
    BY <1>3, <2>1 DEF UpstreamFailed, IInv, TypeOK, CooldownsOK
<1>5. s \in ConnState
  <2>1. r.up + 1 \in 1..(Upstreams + 1)
    BY <1>3, ConfigAssumption
  <2>2. QED
    BY <1>2, <2>1 DEF ConnState
<1>6. /\ s.pc = "upstream" /\ s.out = "none" /\ s.key = r.key
      /\ s.log = r.log /\ s.skipped = r.skipped /\ s.cooling = r.cooling
      /\ s.phase = r.phase /\ s.up = r.up + 1
  BY <1>2 DEF ConnState
<1>7. Moves(c, s)
  BY <1>1, <1>4, <1>5, <1>6 DEF Moves
<1>8. WalksOn(s)
  BY <1>2, <1>6 DEF WalksOn, PhaseOK, TryingOK
<1>9. \A t \in TiersOf(r.key[1]) : Done(s, t) <=> Done(r, t)
  BY <1>2, <1>3, <1>6, TierForms, ConfigAssumption DEF Done
<1>10. QED
  BY <1>6, <1>7, <1>8, <1>9, Silent

LEMMA UpstreamTcpKept ==
  ASSUME IInv, NEW c \in Conns, UpstreamTcp(c)
  PROVE  Kept
<1> DEFINE r == conn[c]
           s == [r EXCEPT !.pc = "hello"]
<1> USE DEF DirectPcs, DialPcs, UpstreamPcs, ChainPcs, WalkPcs
<1>1. r.pc = "updial"
  BY DEF UpstreamTcp, At
<1>2. CASE UpstreamFailed(c)
  BY <1>1, <1>2, UpstreamFailedKept
<1>3. CASE UpstreamOk(c)
  BY <1>1, <1>3, UpstreamOkKept
<1>4. CASE conn' = [conn EXCEPT ![c] = s] /\ UNCHANGED <<cooldowns, now>>
  <2>1. /\ r \in ConnState /\ r.key[1] \in Dcs /\ PhaseOK(r) /\ TryingOK(r)
        /\ r.out = "none"
    BY <1>1, Here
  <2>2. /\ s.pc = "hello" /\ s.out = "none" /\ s.key = r.key
        /\ s.log = r.log /\ s.skipped = r.skipped /\ s.cooling = r.cooling
        /\ s.phase = r.phase /\ s.up = r.up
    BY <2>1 DEF ConnState
  <2>3. Moves(c, s)
    BY <1>1, <1>4, <2>1, <2>2, SameCooldowns DEF Moves, ConnState
  <2>4. WalksOn(s)
    BY <1>1, <2>1, <2>2 DEF WalksOn, PhaseOK, TryingOK
  <2>5. \A t \in TiersOf(r.key[1]) : Done(s, t) <=> Done(r, t)
    BY <1>1, <2>1, <2>2, TierForms DEF Done
  <2>6. QED
    BY <2>2, <2>3, <2>4, <2>5, Silent
<1>5. QED
  BY <1>2, <1>3, <1>4 DEF UpstreamTcp, Goto

LEMMA UpstreamHelloKept ==
  ASSUME IInv, NEW c \in Conns, UpstreamHello(c)
  PROVE  Kept
  BY UpstreamOkKept, UpstreamFailedKept DEF UpstreamHello, At

LEMMA ChainFailedKept ==
  ASSUME IInv, NEW c \in Conns, ChainFailed(c)
  PROVE  Kept
<1> DEFINE r == conn[c]
<1> USE DEF DirectPcs, DialPcs, UpstreamPcs, ChainPcs, WalkPcs
<1>1. r.pc = "upstream" /\ r.up > Upstreams /\ CooldownsOK'
  BY SameCooldowns DEF ChainFailed, At
<1>2. /\ r \in ConnState /\ r.key[1] \in Dcs /\ PhaseOK(r) /\ TryingOK(r)
      /\ r.out = "none"
  BY <1>1, Here
<1>3. \A u \in 1..Upstreams : u < r.up
  BY <1>1, <1>2, ConfigAssumption DEF ConnState
<1>4. CASE r.phase = "cooling"
  <2> DEFINE s == [r EXCEPT !.pc = "pool"]
  <2>1. conn' = [conn EXCEPT ![c] = s]
    BY <1>4 DEF ChainFailed
  <2>2. /\ s.pc = "pool" /\ s.out = "none" /\ s.key = r.key
        /\ s.log = r.log /\ s.skipped = r.skipped /\ s.cooling = r.cooling
        /\ s.phase = r.phase /\ s.up = r.up
    BY <1>2 DEF ConnState
  <2>3. Moves(c, s)
    BY <1>1, <1>2, <2>1, <2>2 DEF Moves, ConnState
  <2>4. WalksOn(s)
    BY <1>1, <1>2, <1>4, <2>2 DEF WalksOn, PhaseOK, TryingOK
  <2>5. \A t \in TiersOf(r.key[1]) : Done(s, t) <=> Done(r, t)
    BY <1>1, <1>2, <1>3, <1>4, <2>2, TierForms DEF Done
  <2>6. QED
    BY <2>2, <2>3, <2>4, <2>5, Silent
<1>5. CASE r.phase # "cooling"
  <2> DEFINE s == [r EXCEPT !.pc = "routed", !.out = "tcp"]
  <2>1. conn' = [conn EXCEPT ![c] = s]
    BY <1>5 DEF ChainFailed, Routed
  <2>2. /\ s.pc = "routed" /\ s.out = "tcp" /\ s.key = r.key
        /\ s.log = r.log /\ s.skipped = r.skipped /\ s.cooling = r.cooling
    BY <1>2 DEF ConnState
  <2>3. Moves(c, s)
    BY <1>1, <1>2, <2>1, <2>2 DEF Moves, ConnState
  <2>4. r.phase = "late" \/ TargetIp[r.key[1]] = NoIp
    BY <1>1, <1>2, <1>5 DEF PhaseOK, ConnState
  <2>5. \A t \in TiersOf(r.key[1]) : Done(r, t)
    BY <1>1, <1>2, <1>3, <2>4, TierForms DEF Done
  <2>6. QED
    BY <2>2, <2>3, <2>5, Settling
<1>6. QED
  BY <1>4, <1>5

(* The direct tier is put off: its address is stepped over.                *)
LEMMA Postponing ==
  ASSUME NEW c \in Conns, NEW s, Moves(c, s), WalksOn(s),
         s.log = conn[c].log, s.skipped = conn[c].skipped,
         ~conn[c].cooling, s.cooling = TRUE,
         \A t \in TiersOf(conn[c].key[1]) : Done(s, t) <=> Done(conn[c], t)
  PROVE  Kept
<1>1. Passed(s) = Passed(conn[c])
  BY PassedSame
<1>2. PassedExactly(s)
  BY <1>1, Walking DEF PassedExactly, Moves
<1>3. s.pc # "idle" /\ s.pc # "routed"
  BY DEF WalksOn, WalkPcs, DirectPcs, ChainPcs, UpstreamPcs
<1>4. /\ LeftOf(s) = LeftOf(conn[c]) /\ TryingOf(s) = TryingOf(conn[c])
      /\ DecisionOf(s) = DecisionOf(conn[c])
  BY <1>1, <1>3, Walking DEF LeftOf, TryingOf, DecisionOf, WalksOn, Moves
<1>5. /\ [d \in Conns |-> LeftOf(conn'[d])]
           = [d \in Conns |-> LeftOf(conn[d])]
      /\ [d \in Conns |-> TryingOf(conn'[d])]
           = [d \in Conns |-> TryingOf(conn[d])]
      /\ [d \in Conns |-> DecisionOf(conn'[d])]
           = [d \in Conns |-> DecisionOf(conn[d])]
  BY <1>4, Stays DEF Moves
<1>6. [d \in Conns |-> conn'[d].cooling] =
        [[d \in Conns |-> conn[d].cooling] EXCEPT ![c] = TRUE]
  <2>1. [d \in Conns |-> conn'[d].cooling] =
          [[d \in Conns |-> conn[d].cooling] EXCEPT ![c] = s.cooling]
    BY Mapped DEF Moves
  <2>2. QED
    BY ONLY <2>1, s.cooling = TRUE
<1>7. Abstract!PutOff(c)
  BY <1>5, <1>6, Walking DEF Abstract!PutOff, Abstract!Walking
<1>8. Abstract!Next
  BY <1>7 DEF Abstract!Next
<1>9. QED
  BY <1>2, <1>8, KeepsWalking DEF Kept

(* The head of the chain keeps the type.                                   *)
LEMMA ChainTyped ==
  ASSUME NEW r \in ConnState, NEW skip_cf \in BOOLEAN,
         NEW phase \in {"nodirect", "priority", "cooling", "late"}
  PROVE  EnterChain(r, phase, skip_cf) \in ConnState
<1>1. 1 \in 1..(Upstreams + 1)
  BY ConfigAssumption
<1>2. QED
  BY <1>1 DEF EnterChain, ConnState

LEMMA StartKept ==
  ASSUME IInv, NEW c \in Conns, Start(c)
  PROVE  Kept
<1> DEFINE r == conn[c]
<1> USE DEF DirectPcs, DialPcs, UpstreamPcs, ChainPcs, WalkPcs
<1>1. r.pc = "start" /\ CooldownsOK'
  BY SameCooldowns DEF Start, At
<1>2. /\ r \in ConnState /\ r.key[1] \in Dcs /\ PhaseOK(r) /\ TryingOK(r)
      /\ r.out = "none"
  BY <1>1, Here
<1>3. CASE Target(c) = NoIp /\ r.key[1] \notin BuiltIn
  <2> DEFINE s == [r EXCEPT !.pc = "routed", !.out = "none"]
  <2>1. conn' = [conn EXCEPT ![c] = s]
    BY <1>3 DEF Start, Routed
  <2>2. /\ s.pc = "routed" /\ s.out = "none" /\ s.key = r.key
        /\ s.log = r.log /\ s.skipped = r.skipped /\ s.cooling = r.cooling
    BY <1>2 DEF ConnState
  <2>3. Moves(c, s)
    BY <1>1, <1>2, <2>1, <2>2 DEF Moves, ConnState
  <2>4. r.log = <<>>
    BY <1>1, <1>2 DEF TryingOK
  <2>5. QED
    BY <2>2, <2>3, <2>4, Settling
<1>4. ASSUME NEW phase \in {"nodirect", "priority"},
             phase = "nodirect" <=> Target(c) = NoIp,
             phase = "priority" => CfPriority,
             conn' = [conn EXCEPT ![c] = EnterChain(r, phase, FALSE)]
      PROVE  Kept
  <2> DEFINE s == EnterChain(r, phase, FALSE)
  <2>1. /\ s.pc = "worker" /\ s.out = "none" /\ s.key = r.key /\ s.up = 1
        /\ s.log = r.log /\ s.skipped = r.skipped /\ s.cooling = r.cooling
        /\ s.phase = phase
    BY <1>2 DEF ConnState, EnterChain
  <2>2. s \in ConnState
    BY <1>2, ChainTyped
  <2>3. Moves(c, s)
    BY <1>1, <1>4, <2>1, <2>2 DEF Moves
  <2>4. WalksOn(s)
    BY <1>1, <1>2, <1>4, <2>1 DEF WalksOn, PhaseOK, TryingOK, Target
  <2>5. \A t \in TiersOf(r.key[1]) : Done(s, t) <=> Done(r, t)
    BY <1>1, <1>2, <1>4, <2>1, TierForms DEF Done
  <2>6. QED
    BY <2>1, <2>3, <2>4, <2>5, Silent
<1>5. CASE Target(c) = NoIp /\ r.key[1] \in BuiltIn
  <2>1. conn' = [conn EXCEPT ![c] = EnterChain(r, "nodirect", FALSE)]
    BY <1>5 DEF Start
  <2>2. QED
    BY <1>4, <1>5, <2>1
<1>6. CASE Target(c) # NoIp /\ CfPriority
  <2>1. conn' = [conn EXCEPT ![c] = EnterChain(r, "priority", FALSE)]
    BY <1>6 DEF Start
  <2>2. QED
    BY <1>4, <1>6, <2>1
<1>7. CASE Target(c) # NoIp /\ ~CfPriority
  <2> DEFINE s == [r EXCEPT !.pc = "ipcheck"]
  <2>1. conn' = [conn EXCEPT ![c] = s]
    BY <1>7 DEF Start
  <2>2. /\ s.pc = "ipcheck" /\ s.out = "none" /\ s.key = r.key
        /\ s.log = r.log /\ s.skipped = r.skipped /\ s.cooling = r.cooling
        /\ s.phase = r.phase
    BY <1>2 DEF ConnState
  <2>3. Moves(c, s)
    BY <1>1, <1>2, <2>1, <2>2 DEF Moves, ConnState
  <2>4. WalksOn(s)
    BY <1>1, <1>2, <1>7, <2>2 DEF WalksOn, PhaseOK, TryingOK, Target
  <2>5. \A t \in TiersOf(r.key[1]) : Done(s, t) <=> Done(r, t)
    BY <1>1, <1>2, <2>2, TierForms DEF Done, PhaseOK
  <2>6. QED
    BY <2>2, <2>3, <2>4, <2>5, Silent
<1>8. QED
  BY <1>3, <1>5, <1>6, <1>7

LEMMA IpCheckKept ==
  ASSUME IInv, NEW c \in Conns, IpCheck(c)
  PROVE  Kept
<1> DEFINE r == conn[c]
           cooling == Active(ipFail[Target(c)]) /\ HasFallback
<1> USE DEF DirectPcs, DialPcs, UpstreamPcs, ChainPcs, WalkPcs
<1>1. r.pc = "ipcheck" /\ CooldownsOK'
  BY SameCooldowns DEF IpCheck, At
<1>2. /\ r \in ConnState /\ r.key[1] \in Dcs /\ PhaseOK(r) /\ TryingOK(r)
      /\ r.out = "none"
  BY <1>1, Here
<1>3. /\ r.cooling = FALSE /\ r.phase \in {"none", "priority"}
      /\ TargetIp[r.key[1]] # NoIp
      /\ r.phase = "priority" <=> CfPriority
  BY <1>1, <1>2, ConfigAssumption DEF PhaseOK, ConnState
<1>4. CASE cooling
  <2> DEFINE s == EnterChain([r EXCEPT !.cooling = TRUE], "cooling", CfPriority)
  <2>1. conn' = [conn EXCEPT ![c] = s]
    BY <1>4 DEF IpCheck
  <2>2. /\ s.pc = IF CfPriority THEN "upstream" ELSE "worker"
        /\ s.out = "none" /\ s.key = r.key /\ s.up = 1
        /\ s.log = r.log /\ s.skipped = r.skipped /\ s.cooling = TRUE
        /\ s.phase = "cooling"
    BY <1>2 DEF ConnState, EnterChain
  <2>3. s \in ConnState
    <3>1. [r EXCEPT !.cooling = TRUE] \in ConnState
      BY <1>2 DEF ConnState
    <3>2. QED
      BY <3>1, ChainTyped, ConfigAssumption
  <2>4. Moves(c, s)
    BY <1>1, <2>1, <2>2, <2>3 DEF Moves
  <2>5. WalksOn(s)
    BY <1>2, <1>3, <2>2 DEF WalksOn, PhaseOK, TryingOK
  <2>6. \A t \in TiersOf(r.key[1]) : Done(s, t) <=> Done(r, t)
    BY <1>1, <1>2, <1>3, <2>2, TierForms DEF Done
  <2>7. QED
    BY <1>3, <2>2, <2>4, <2>5, <2>6, Postponing
<1>5. CASE ~cooling
  <2> DEFINE s == [r EXCEPT !.cooling = FALSE, !.pc = "pool"]
  <2>1. conn' = [conn EXCEPT ![c] = s]
    BY <1>5 DEF IpCheck
  <2>2. /\ s.pc = "pool" /\ s.out = "none" /\ s.key = r.key
        /\ s.log = r.log /\ s.skipped = r.skipped /\ s.cooling = r.cooling
        /\ s.phase = r.phase
    BY <1>2, <1>3 DEF ConnState
  <2>3. Moves(c, s)
    BY <1>1, <1>2, <2>1, <2>2 DEF Moves, ConnState
  <2>4. WalksOn(s)
    BY <1>1, <1>2, <1>3, <2>2 DEF WalksOn, PhaseOK, TryingOK
  <2>5. \A t \in TiersOf(r.key[1]) : Done(s, t) <=> Done(r, t)
    BY <1>1, <1>2, <2>2, TierForms DEF Done
  <2>6. QED
    BY <2>2, <2>3, <2>4, <2>5, Silent
<1>6. QED
  BY <1>4, <1>5

LEMMA PoolGetKept ==
  ASSUME IInv, NEW c \in Conns, PoolGet(c)
  PROVE  Kept
<1> DEFINE r == conn[c]
           s == [r EXCEPT !.pc = "direct"]
<1> USE DEF DirectPcs, DialPcs, UpstreamPcs, ChainPcs, WalkPcs
<1>1. r.pc = "pool" /\ CooldownsOK'
  BY SameCooldowns DEF PoolGet, At
<1>2. /\ r \in ConnState /\ r.key[1] \in Dcs /\ PhaseOK(r) /\ TryingOK(r)
      /\ r.out = "none"
  BY <1>1, Here
<1>3. CASE conn' = [conn EXCEPT ![c] = [Dialled(c, <<"direct", 0>>) EXCEPT
                      !.pc = "routed", !.out = "packets"]]
  <2>1. First(r, <<"direct", 0>>)
    BY <1>1, <1>2, FirstTier
  <2>2. Way(<<"direct", 0>>) = "packets"
    BY DEF Way
  <2>3. QED
    BY <1>1, <1>3, <2>1, <2>2, Taking
<1>4. CASE conn' = [conn EXCEPT ![c] = s]
  <2>1. /\ s.pc = "direct" /\ s.out = "none" /\ s.key = r.key
        /\ s.log = r.log /\ s.skipped = r.skipped /\ s.cooling = r.cooling
        /\ s.phase = r.phase
    BY <1>2 DEF ConnState
  <2>2. Moves(c, s)
    BY <1>1, <1>2, <1>4, <2>1 DEF Moves, ConnState
  <2>3. WalksOn(s)
    BY <1>1, <1>2, <2>1 DEF WalksOn, PhaseOK, TryingOK
  <2>4. \A t \in TiersOf(r.key[1]) : Done(s, t) <=> Done(r, t)
    BY <1>1, <1>2, <2>1, TierForms DEF Done
  <2>5. QED
    BY <2>1, <2>2, <2>3, <2>4, Silent
<1>5. QED
  BY <1>3, <1>4 DEF PoolGet, Goto

LEMMA DirectKept ==
  ASSUME IInv, NEW c \in Conns, Direct(c)
  PROVE  Kept
<1> DEFINE r == conn[c]
           tier == <<"direct", 0>>
           s == [Dialled(c, tier) EXCEPT
                   !.pc = "timeout",
                   !.sticky = Fronting /\ Active(frontingUntil),
                   !.probing = Active(wsFail[conn[c].key])]
<1> USE DEF DirectPcs, DialPcs, UpstreamPcs, ChainPcs, WalkPcs
<1>1. r.pc = "direct" /\ CooldownsOK' /\ conn' = [conn EXCEPT ![c] = s]
  BY SameCooldowns DEF Direct, At
<1>2. /\ r \in ConnState /\ r.key[1] \in Dcs /\ PhaseOK(r) /\ TryingOK(r)
      /\ r.out = "none"
  BY <1>1, Here
<1>3. First(r, tier) /\ tier \in TiersOf(r.key[1])
  BY <1>1, <1>2, FirstTier DEF First
<1>4. /\ s.pc = "timeout" /\ s.phase = r.phase /\ s.up = r.up /\ s.key = r.key
      /\ s.cooling = r.cooling /\ s.out = "none" /\ s.log = Append(r.log, tier)
      /\ s.skipped = r.skipped
  BY <1>1, <1>2 DEF ConnState, Dialled
<1>5. s \in ConnState
  <2>1. Dialled(c, tier) \in ConnState
    BY <1>2, <1>3, DialledFacts
  <2>2. /\ (Fronting /\ Active(frontingUntil)) \in BOOLEAN
        /\ Active(wsFail[r.key]) \in BOOLEAN
    BY DEF Active
  <2>3. QED
    BY <2>1, <2>2 DEF ConnState
<1>6. s.log # <<>> /\ s.log[Len(s.log)] = tier
  <2>1. r.log \in Seq(Tiers) /\ tier \in Tiers
    BY <1>2, <1>3, TierForms DEF ConnState
  <2> HIDE DEF s, tier
  <2>2. QED
    BY <1>4, <2>1, AppendFacts
<1>7. WalksOn(s)
  BY <1>1, <1>2, <1>4, <1>6 DEF WalksOn, PhaseOK, TryingOK
<1>8. \A t \in TiersOf(r.key[1]) : Done(s, t) <=> Done(r, t) \/ t = tier
  BY <1>1, <1>2, <1>4, TierForms DEF Done, PhaseOK
<1>9. Moves(c, s)
  BY <1>1, <1>4, <1>5 DEF Moves
<1>10. QED
  BY <1>3, <1>4, <1>7, <1>8, <1>9, Dialling

(* The steps between the dial of the direct tier and its end change only   *)
(* what the ladder does not see.                                           *)
LEMMA DialGoesOn ==
  ASSUME IInv, NEW c \in Conns, conn[c].pc \in DialPcs, CooldownsOK',
         NEW s \in ConnState, conn' = [conn EXCEPT ![c] = s],
         s.pc \in DialPcs, s.key = conn[c].key, s.phase = conn[c].phase,
         s.cooling = conn[c].cooling, s.log = conn[c].log,
         s.skipped = conn[c].skipped, s.out = conn[c].out
  PROVE  Kept
<1> DEFINE r == conn[c]
<1> USE DEF DirectPcs, DialPcs, UpstreamPcs, ChainPcs, WalkPcs
<1>1. /\ r.key[1] \in Dcs /\ PhaseOK(r) /\ TryingOK(r) /\ r.out = "none"
  BY Here
<1>2. Moves(c, s)
  BY DEF Moves
<1>3. WalksOn(s)
  BY <1>1 DEF WalksOn, PhaseOK, TryingOK
<1>4. \A t \in TiersOf(r.key[1]) : Done(s, t) <=> Done(r, t)
  BY <1>1, TierForms DEF Done
<1>5. QED
  BY <1>2, <1>3, <1>4, Silent

LEMMA ConnectWsKept ==
  ASSUME IInv, NEW c \in Conns, ConnectWs(c)
  PROVE  Kept
<1> DEFINE r == conn[c]
           s == [r EXCEPT !.pc = "dialing", !.short = Active(wsFail[r.key])]
<1>1. r.pc = "timeout" /\ CooldownsOK' /\ conn' = [conn EXCEPT ![c] = s]
  BY SameCooldowns DEF ConnectWs, At
<1>2. r \in ConnState /\ Active(wsFail[r.key]) \in BOOLEAN
  BY ConnFacts DEF Active
<1>3. /\ s \in ConnState /\ s.pc = "dialing" /\ s.key = r.key
      /\ s.phase = r.phase /\ s.cooling = r.cooling /\ s.log = r.log
      /\ s.skipped = r.skipped /\ s.out = r.out
  BY <1>2 DEF ConnState
<1>4. QED
  BY <1>1, <1>3, DialGoesOn DEF DialPcs

LEMMA StickyFailKept ==
  ASSUME IInv, NEW c \in Conns, StickyFail(c)
  PROVE  Kept
<1> DEFINE r == conn[c]
<1>1. PICK a \in FailedAttempts :
        conn' = [conn EXCEPT ![c].pc = "cool", ![c].attempt = a]
  BY DEF StickyFail
<1> DEFINE s == [r EXCEPT !.pc = "cool", !.attempt = a]
<1>2. r.pc = "dialing" /\ conn' = [conn EXCEPT ![c] = s]
  BY <1>1 DEF StickyFail, At
<1>3. CooldownsOK'
  <2>1. now + FrontingFailCooldown \in Nat
    BY TimeAssumption DEF IInv, TypeOK
  <2>2. QED
    BY <2>1 DEF StickyFail, IInv, TypeOK, CooldownsOK
<1>4. r \in ConnState /\ a \in Attempt
  BY ConnFacts DEF FailedAttempts
<1>5. /\ s \in ConnState /\ s.pc = "cool" /\ s.key = r.key
      /\ s.phase = r.phase /\ s.cooling = r.cooling /\ s.log = r.log
      /\ s.skipped = r.skipped /\ s.out = r.out
  BY <1>4 DEF ConnState
<1>6. QED
  BY <1>2, <1>3, <1>5, DialGoesOn DEF DialPcs

LEMMA DirectFailKept ==
  ASSUME IInv, NEW c \in Conns, DirectFail(c)
  PROVE  Kept
<1> DEFINE r == conn[c]
<1>1. PICK a \in FailedAttempts, pc \in {"fronting", "cool"} :
        conn' = [conn EXCEPT ![c].attempt = a, ![c].pc = pc]
  BY DEF DirectFail
<1> DEFINE s == [r EXCEPT !.attempt = a, !.pc = pc]
<1>2. r.pc = "dialing" /\ conn' = [conn EXCEPT ![c] = s] /\ CooldownsOK'
  BY <1>1, SameCooldowns DEF DirectFail, At
<1>3. r \in ConnState /\ a \in Attempt
  BY ConnFacts DEF FailedAttempts
<1>4. /\ s \in ConnState /\ s.pc = pc /\ s.key = r.key
      /\ s.phase = r.phase /\ s.cooling = r.cooling /\ s.log = r.log
      /\ s.skipped = r.skipped /\ s.out = r.out
  BY <1>3 DEF ConnState
<1>5. QED
  BY <1>2, <1>4, DialGoesOn DEF DialPcs

(* The direct tier answered: the connection goes its way.                  *)
LEMMA DirectSettles ==
  ASSUME IInv, NEW c \in Conns, conn[c].pc \in DialPcs, CooldownsOK',
         conn' = [conn EXCEPT ![c] = Returned(Routed(c, "packets"))]
  PROVE  Kept
<1> DEFINE r == conn[c]
           s == Returned(Routed(c, "packets"))
<1> USE DEF DirectPcs, DialPcs, UpstreamPcs, ChainPcs, WalkPcs
<1>1. r \in ConnState /\ TryingOK(r)
  BY Here
<1>2. s \in ConnState
  BY <1>1 DEF ConnState, Returned, Routed
<1>3. /\ s.pc = "routed" /\ s.out = "packets" /\ s.key = r.key
      /\ s.log = r.log /\ s.skipped = r.skipped /\ s.cooling = r.cooling
  BY <1>1 DEF ConnState, Returned, Routed
<1>4. Moves(c, s)
  BY <1>2, <1>3 DEF Moves
<1>5. r.log # <<>> /\ r.log[Len(r.log)] = <<"direct", 0>>
  BY <1>1 DEF TryingOK
<1>6. Way(<<"direct", 0>>) = "packets" /\ <<"direct", 0>> # <<>>
  BY DEF Way
<1>7. QED
  BY <1>3, <1>4, <1>5, <1>6, Settling

LEMMA FrontingSuccessKept ==
  ASSUME IInv, NEW c \in Conns, conn[c].pc \in DialPcs, FrontingSuccess(c)
  PROVE  Kept
<1>1. now + FrontingCooldown \in Nat
  BY TimeAssumption DEF IInv, TypeOK
<1>2. CooldownsOK'
  BY <1>1 DEF FrontingSuccess, IInv, TypeOK, CooldownsOK
<1>3. QED
  BY <1>2, DirectSettles DEF FrontingSuccess

LEMMA DirectOkKept ==
  ASSUME IInv, NEW c \in Conns, DirectOk(c)
  PROVE  Kept
<1>1. CooldownsOK'
  BY DEF DirectOk, IInv, TypeOK, CooldownsOK
<1>2. QED
  BY <1>1, DirectSettles DEF DirectOk, At, DialPcs

LEMMA StickyOkKept ==
  ASSUME IInv, NEW c \in Conns, StickyOk(c)
  PROVE  Kept
  BY FrontingSuccessKept DEF StickyOk, At, DialPcs

LEMMA ReactiveFrontingKept ==
  ASSUME IInv, NEW c \in Conns, ReactiveFronting(c)
  PROVE  Kept
<1> DEFINE r == conn[c]
           s == [r EXCEPT !.pc = "cool"]
<1>1. r.pc = "fronting" /\ r \in ConnState
  BY ConnFacts DEF ReactiveFronting, At
<1>2. CASE FrontingSuccess(c)
  BY <1>1, <1>2, FrontingSuccessKept DEF DialPcs
<1>3. CASE ~FrontingSuccess(c)
  <2>1. conn' = [conn EXCEPT ![c] = s]
    BY <1>3 DEF ReactiveFronting, Goto
  <2>2. now + FrontingFailCooldown \in Nat
    BY TimeAssumption DEF IInv, TypeOK
  <2>3. CooldownsOK'
    BY <1>3, <2>2 DEF ReactiveFronting, IInv, TypeOK, CooldownsOK
  <2>4. /\ s \in ConnState /\ s.pc = "cool" /\ s.key = r.key
        /\ s.phase = r.phase /\ s.cooling = r.cooling /\ s.log = r.log
        /\ s.skipped = r.skipped /\ s.out = r.out
    BY <1>1 DEF ConnState
  <2>5. QED
    BY <1>1, <2>1, <2>3, <2>4, DialGoesOn DEF DialPcs
<1>4. QED
  BY <1>2, <1>3

LEMMA CoolDownKept ==
  ASSUME IInv, NEW c \in Conns, CoolDown(c)
  PROVE  Kept
<1> DEFINE r == conn[c]
<1> USE DEF DirectPcs, DialPcs, UpstreamPcs, ChainPcs, WalkPcs
<1>1. r.pc = "cool"
  BY DEF CoolDown, At
<1>2. /\ r \in ConnState /\ r.key[1] \in Dcs /\ PhaseOK(r) /\ TryingOK(r)
      /\ r.out = "none"
  BY <1>1, Here
<1>3. CooldownsOK'
  <2>1. \A d \in {WsFailCooldown, WsRedirectCooldown, IpFailCooldown} :
          now + d \in Nat
    BY TimeAssumption DEF IInv, TypeOK
  <2>2. wsFail' \in [Keys -> Nat]
    BY <2>1 DEF CoolDown, IInv, TypeOK
  <2>3. ipFail' \in [Ips -> Nat]
    BY <2>1 DEF CoolDown, IInv, TypeOK
  <2>4. QED
    BY <2>2, <2>3 DEF CoolDown, IInv, TypeOK, CooldownsOK
<1>4. CASE r.cooling
  <2> DEFINE s == Returned([r EXCEPT !.pc = "routed", !.out = "tcp"])
  <2>1. conn' = [conn EXCEPT ![c] = s]
    BY <1>4 DEF CoolDown, AfterDirect, Routed
  <2>2. /\ s.pc = "routed" /\ s.out = "tcp" /\ s.key = r.key
        /\ s.log = r.log /\ s.skipped = r.skipped /\ s.cooling = r.cooling
    BY <1>2 DEF ConnState, Returned
  <2>3. s \in ConnState
    BY <1>2 DEF ConnState, Returned
  <2>4. Moves(c, s)
    BY <1>1, <1>3, <2>1, <2>2, <2>3 DEF Moves
  <2>5. \A t \in TiersOf(r.key[1]) : Done(r, t)
    BY <1>1, <1>2, <1>4, TierForms DEF Done, PhaseOK
  <2>6. QED
    BY <2>2, <2>4, <2>5, Settling
<1>5. CASE ~r.cooling
  <2> DEFINE e == EnterChain(r, "late", CfPriority)
             s == Returned(e)
  <2>1. conn' = [conn EXCEPT ![c] = s]
    BY <1>5 DEF CoolDown, AfterDirect
  <2>2. e \in ConnState
    BY <1>2, ChainTyped, ConfigAssumption
  <2>3. s \in ConnState
    BY <2>2 DEF ConnState, Returned
  <2>4. /\ s.pc = IF CfPriority THEN "upstream" ELSE "worker"
        /\ s.out = "none" /\ s.key = r.key /\ s.up = 1
        /\ s.log = r.log /\ s.skipped = r.skipped /\ s.cooling = r.cooling
        /\ s.phase = "late"
    BY <1>2 DEF ConnState, EnterChain, Returned
  <2>5. Moves(c, s)
    BY <1>1, <1>3, <2>1, <2>3, <2>4 DEF Moves
  <2>6. /\ TargetIp[r.key[1]] # NoIp /\ r.phase \in {"none", "priority"}
        /\ r.phase = "priority" <=> CfPriority
    BY <1>1, <1>2, <1>5, ConfigAssumption DEF PhaseOK
  <2>7. WalksOn(s)
    BY <1>2, <1>5, <2>4, <2>6 DEF WalksOn, PhaseOK, TryingOK
  <2>8. \A t \in TiersOf(r.key[1]) : Done(s, t) <=> Done(r, t)
    BY <1>1, <1>2, <2>4, <2>6, TierForms DEF Done
  <2>9. QED
    BY <2>4, <2>5, <2>7, <2>8, Silent
<1>6. QED
  BY <1>4, <1>5

(* A fresh connection has passed nothing.                                  *)
LEMMA FreshConn ==
  ASSUME NEW k \in Keys \union {<<>>}
  PROVE  /\ NewConn(k) \in ConnState /\ Passed(NewConn(k)) = {}
         /\ [NewConn(k) EXCEPT !.pc = "idle"] \in ConnState
<1>1. <<>> \in Seq(Tiers) /\ Len(<<>>) = 0
  OBVIOUS
<1>2. 1 \in 1..(Upstreams + 1)
  BY ConfigAssumption
<1>3. NewConn(k) \in ConnState
  BY <1>1, <1>2 DEF NewConn, NoAttempt, ConnState, Attempt
<1>4. [NewConn(k) EXCEPT !.pc = "idle"] \in ConnState
  BY <1>3 DEF ConnState
<1>5. Passed(NewConn(k)) = {}
  BY <1>1 DEF NewConn, Passed
<1>6. QED
  BY <1>3, <1>4, <1>5

LEMMA IdleFacts ==
  /\ Idle \in ConnState /\ ConnOK(Idle)
  /\ LeftOf(Idle) = {} /\ TryingOf(Idle) = <<>> /\ Idle.cooling = FALSE
  /\ DecisionOf(Idle) = "idle"
<1>1. Idle \in ConnState
  BY FreshConn DEF Idle
<1>2. /\ Idle.pc = "idle" /\ Idle.log = <<>> /\ Idle.skipped = {}
      /\ Idle.cooling = FALSE /\ Idle.out = "none"
  BY DEF Idle, NewConn
<1>3. ConnOK(Idle)
  BY <1>2 DEF ConnOK, WalkPcs, DirectPcs, ChainPcs, UpstreamPcs
<1>4. QED
  BY <1>1, <1>2, <1>3 DEF LeftOf, TryingOf, DecisionOf

LEMMA ArriveKept ==
  ASSUME IInv, NEW c \in Conns, NEW k \in Keys, Arrive(c, k)
  PROVE  Kept
<1> DEFINE r == conn[c]
           s == NewConn(k)
<1> USE DEF DirectPcs, DialPcs, UpstreamPcs, ChainPcs, WalkPcs
<1>1. r.pc = "idle" /\ CooldownsOK' /\ conn' = [conn EXCEPT ![c] = s]
  BY SameCooldowns DEF Arrive, At
<1>2. /\ r \in ConnState /\ r.log = <<>> /\ r.skipped = {} /\ ~r.cooling
  BY <1>1, ConnFacts DEF ConnOK
<1>3. s \in ConnState /\ Passed(s) = {}
  BY FreshConn
<1>4. /\ s.pc = "start" /\ s.key = k /\ s.phase = "none" /\ s.cooling = FALSE
      /\ s.log = <<>> /\ s.skipped = {} /\ s.out = "none" /\ s.up = 1
  BY DEF NewConn
<1>5. k[1] \in Dcs
  BY DEF Keys
<1>6. IInv'
  <2>1. PassedExactly(s)
    BY <1>3, <1>4, <1>5, TierForms DEF PassedExactly, Done
  <2>2. ConnOK(s)
    BY <1>4, <2>1 DEF ConnOK, PhaseOK, TryingOK
  <2>3. QED
    BY <1>1, <1>3, <2>2, OneConn DEF CooldownsOK
<1>7. /\ LeftOf(s) = TiersOf(k[1]) /\ TryingOf(s) = TryingOf(r)
      /\ s.cooling = r.cooling /\ DecisionOf(s) = "none"
      /\ DecisionOf(r) = "idle"
  BY <1>1, <1>2, <1>3, <1>4 DEF LeftOf, TryingOf, DecisionOf, ConnState
<1>8. /\ [d \in Conns |-> TryingOf(conn'[d])]
           = [d \in Conns |-> TryingOf(conn[d])]
      /\ [d \in Conns |-> conn'[d].cooling]
           = [d \in Conns |-> conn[d].cooling]
  BY <1>1, <1>7, Stays
<1>9. /\ [d \in Conns |-> LeftOf(conn'[d])] =
           [[d \in Conns |-> LeftOf(conn[d])] EXCEPT ![c] = LeftOf(s)]
      /\ [d \in Conns |-> DecisionOf(conn'[d])] =
           [[d \in Conns |-> DecisionOf(conn[d])] EXCEPT ![c] = DecisionOf(s)]
  BY <1>1, Mapped
<1>10. LeftOf(s) \in {TiersOf(dc) : dc \in Dcs}
  BY <1>5, <1>7
<1>11. Abstract!Begin(c)
  <2>1. [d \in Conns |-> DecisionOf(conn[d])][c] = "idle"
    BY <1>7
  <2>2. \E tiers \in {TiersOf(dc) : dc \in Dcs} :
          [d \in Conns |-> LeftOf(conn'[d])] =
            [[d \in Conns |-> LeftOf(conn[d])] EXCEPT ![c] = tiers]
    <3> WITNESS LeftOf(s) \in {TiersOf(dc) : dc \in Dcs}
    <3>1. QED
      BY <1>9
  <2>3. [d \in Conns |-> DecisionOf(conn'[d])] =
          [[d \in Conns |-> DecisionOf(conn[d])] EXCEPT ![c] = "none"]
    BY ONLY <1>9, <1>7
  <2>4. QED
    BY <1>8, <2>1, <2>2, <2>3 DEF Abstract!Begin
<1>12. Abstract!Next
  BY <1>11 DEF Abstract!Next
<1>13. QED
  BY <1>6, <1>12 DEF Kept

LEMMA LeaveKept ==
  ASSUME IInv, NEW c \in Conns, Leave(c)
  PROVE  Kept
<1> DEFINE r == conn[c]
<1>1. r.pc = "routed" /\ CooldownsOK' /\ conn' = [conn EXCEPT ![c] = Idle]
  BY SameCooldowns DEF Leave, At
<1>2. IInv'
  BY <1>1, IdleFacts, OneConn DEF CooldownsOK
<1>3. DecisionOf(r) \notin {"idle", "none"}
  BY <1>1, ConnFacts DEF DecisionOf, ConnState
<1>4. /\ [d \in Conns |-> LeftOf(conn'[d])] =
           [[d \in Conns |-> LeftOf(conn[d])] EXCEPT ![c] = {}]
      /\ [d \in Conns |-> TryingOf(conn'[d])] =
           [[d \in Conns |-> TryingOf(conn[d])] EXCEPT ![c] = <<>>]
      /\ [d \in Conns |-> conn'[d].cooling] =
           [[d \in Conns |-> conn[d].cooling] EXCEPT ![c] = FALSE]
      /\ [d \in Conns |-> DecisionOf(conn'[d])] =
           [[d \in Conns |-> DecisionOf(conn[d])] EXCEPT ![c] = "idle"]
  <2>1. /\ [d \in Conns |-> LeftOf(conn'[d])] =
             [[d \in Conns |-> LeftOf(conn[d])] EXCEPT ![c] = LeftOf(Idle)]
        /\ [d \in Conns |-> TryingOf(conn'[d])] =
             [[d \in Conns |-> TryingOf(conn[d])] EXCEPT ![c] = TryingOf(Idle)]
        /\ [d \in Conns |-> conn'[d].cooling] =
             [[d \in Conns |-> conn[d].cooling] EXCEPT ![c] = Idle.cooling]
        /\ [d \in Conns |-> DecisionOf(conn'[d])] =
             [[d \in Conns |-> DecisionOf(conn[d])] EXCEPT ![c] = DecisionOf(Idle)]
    BY <1>1, Mapped
  <2>2. QED
    BY ONLY <2>1, IdleFacts
<1>5. Abstract!Leave(c)
  BY <1>3, <1>4 DEF Abstract!Leave, Abstract!Nothing
<1>6. Abstract!Next
  BY <1>5 DEF Abstract!Next
<1>7. QED
  BY <1>2, <1>6 DEF Kept

(* The clock moves no connection.                                          *)
LEMMA ClockKept ==
  ASSUME IInv, UNCHANGED conn, CooldownsOK'
  PROVE  Kept
<1>1. IInv'
  BY DEF IInv, TypeOK, CooldownsOK
<1>2. UNCHANGED Abstract!vars
  BY DEF Abstract!vars
<1>3. QED
  BY <1>1, <1>2 DEF Kept

-----------------------------------------------------------------------------
(* The theorems. *)

LEMMA InitIInv == Init => IInv /\ Abstract!Init
<1> SUFFICES ASSUME Init PROVE IInv /\ Abstract!Init
  OBVIOUS
<1>1. TypeOK
  BY IdleFacts DEF Init, TypeOK
<1>2. \A c \in Conns : ConnOK(conn[c])
  BY IdleFacts DEF Init
<1>3. Abstract!Init
  BY DEF Init, Abstract!Init, Idle, NewConn, LeftOf, TryingOf, DecisionOf,
         Abstract!Nothing
<1>4. QED
  BY <1>1, <1>2, <1>3 DEF IInv

(* Every step keeps the invariant and is a step of the ladder or none.     *)
LEMMA NextKept == IInv /\ [Next]_vars => Kept
<1> SUFFICES ASSUME IInv, [Next]_vars PROVE Kept
  OBVIOUS
<1>1. ASSUME NEW c \in Conns, NEW k \in Keys, Arrive(c, k) PROVE Kept
  BY <1>1, ArriveKept
<1>2. ASSUME NEW c \in Conns, Walk(c) PROVE Kept
  BY <1>2, StartKept, WorkerKept, ProxyKept, UpstreamSkipKept,
     UpstreamDialKept, UpstreamTcpKept, ChainFailedKept, IpCheckKept,
     PoolGetKept, DirectKept, ConnectWsKept, DirectOkKept, DirectFailKept,
     StickyOkKept, StickyFailKept, ReactiveFrontingKept, CoolDownKept
  DEF Walk
<1>3. ASSUME NEW c \in Conns, UpstreamHello(c) PROVE Kept
  BY <1>3, UpstreamHelloKept
<1>4. ASSUME NEW c \in Conns, Leave(c) PROVE Kept
  BY <1>4, LeaveKept
<1>5. CASE Tick
  <2>1. now + 1 \in Nat
    BY DEF IInv, TypeOK
  <2>2. UNCHANGED conn /\ CooldownsOK'
    BY <1>5, <2>1 DEF Tick, cooldowns, IInv, TypeOK, CooldownsOK
  <2>3. QED
    BY <2>2, ClockKept
<1>6. CASE UNCHANGED vars
  <2>1. UNCHANGED conn /\ CooldownsOK'
    BY <1>6 DEF vars, cooldowns, IInv, TypeOK, CooldownsOK
  <2>2. QED
    BY <2>1, ClockKept
<1>7. QED
  BY <1>1, <1>2, <1>3, <1>4, <1>5, <1>6 DEF Next

(***************************************************************************)
(* Every connection record, the five cooldowns and the clock keep their    *)
(* types: in particular the index of upstream_proxies never passes the end *)
(* of the list by more than one, and no deadline is ever before the start. *)
(***************************************************************************)
THEOREM RouteTypeCorrect == Spec => []TypeOK
<1>1. Init => IInv
  BY InitIInv
<1>2. IInv /\ [Next]_vars => IInv'
  BY NextKept DEF Kept
<1>3. IInv => TypeOK
  BY DEF IInv
<1>4. QED
  BY <1>1, <1>2, <1>3, PTL DEF Spec

(***************************************************************************)
(* select_upstream implements the ladder, for any number of connections,   *)
(* DCs and upstreams and every configuration of the tiers: each connection *)
(* passes its tiers in the order of their rank whatever the others do to   *)
(* the cooldowns and to the fronting window.                               *)
(***************************************************************************)
THEOREM RouteImplementsLadder == Spec => ImplementsLadder
<1>1. Init => IInv /\ Abstract!Init
  BY InitIInv
<1>2. IInv /\ [Next]_vars => IInv' /\ [Abstract!Next]_(Abstract!vars)
  BY NextKept DEF Kept
<1>3. QED
  BY <1>1, <1>2, PTL DEF Spec, ImplementsLadder, Abstract!Spec

=============================================================================
