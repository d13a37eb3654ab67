------------------------------- MODULE Ladder -------------------------------
(***************************************************************************)
(* What the fallback ladder promises to client connections, without        *)
(* cooldown maps, phases or the chain's three callers: each connection     *)
(* passes its tiers one by one in the order of their rank, goes the way of *)
(* the tier it dialled last, and takes raw TCP only when no tier is left.  *)
(***************************************************************************)
EXTENDS Integers

CONSTANTS
  Conns,        \* client connections
  Ladders,      \* the sets of tiers a connection may find configured
  Rank(_, _),   \* place of a tier, given whether direct was put off
  Way(_),       \* how a connection goes through a tier
  Skippable(_)  \* tiers that may be passed without dialling

VARIABLES
  left,     \* tiers not passed yet
  trying,   \* the tier dialled last
  putOff,   \* the direct tier was moved to the end
  decision  \* "idle", "none" while walking, then the way taken

vars == <<left, trying, putOff, decision>>

Nothing == <<>>

Init ==
  /\ left = [c \in Conns |-> {}]
  /\ trying = [c \in Conns |-> Nothing]
  /\ putOff = [c \in Conns |-> FALSE]
  /\ decision = [c \in Conns |-> "idle"]

Walking(c) == decision[c] = "none"

Begin(c) ==
  /\ decision[c] = "idle"
  /\ \E tiers \in Ladders : left' = [left EXCEPT ![c] = tiers]
  /\ decision' = [decision EXCEPT ![c] = "none"]
  /\ UNCHANGED <<trying, putOff>>

IsNext(c, tier) ==
  /\ tier \in left[c]
  /\ \A other \in left[c] \ {tier} :
       Rank(tier, putOff[c]) < Rank(other, putOff[c])

Pass(c, tier) ==
  /\ Walking(c)
  /\ IsNext(c, tier)
  /\ left' = [left EXCEPT ![c] = @ \ {tier}]
  /\ UNCHANGED putOff

Dial(c, tier) ==
  /\ Pass(c, tier)
  /\ trying' = [trying EXCEPT ![c] = tier]
  /\ UNCHANGED decision

(* A pooled connection needs no dial: it is there or it is not.            *)
Take(c, tier) ==
  /\ Pass(c, tier)
  /\ trying' = [trying EXCEPT ![c] = tier]
  /\ decision' = [decision EXCEPT ![c] = Way(tier)]

Skip(c, tier) ==
  /\ Pass(c, tier)
  /\ Skippable(tier)
  /\ UNCHANGED <<trying, decision>>

PutOff(c) ==
  /\ Walking(c) /\ ~putOff[c]
  /\ putOff' = [putOff EXCEPT ![c] = TRUE]
  /\ UNCHANGED <<left, trying, decision>>

Decide(c, way) ==
  /\ Walking(c)
  /\ decision' = [decision EXCEPT ![c] = way]
  /\ UNCHANGED <<left, trying, putOff>>

Succeed(c) == trying[c] # Nothing /\ Decide(c, Way(trying[c]))

LastResort(c) == left[c] = {} /\ Decide(c, "tcp")

(* A DC the proxy has no address for is refused before any tier is asked.  *)
Refuse(c) == trying[c] = Nothing /\ Decide(c, "refused")

Leave(c) ==
  /\ decision[c] \notin {"idle", "none"}
  /\ left' = [left EXCEPT ![c] = {}]
  /\ trying' = [trying EXCEPT ![c] = Nothing]
  /\ putOff' = [putOff EXCEPT ![c] = FALSE]
  /\ decision' = [decision EXCEPT ![c] = "idle"]

Next ==
  \E c \in Conns :
    \/ Begin(c)
    \/ \E tier \in left[c] : Dial(c, tier) \/ Take(c, tier) \/ Skip(c, tier)
    \/ PutOff(c) \/ Succeed(c) \/ LastResort(c) \/ Refuse(c) \/ Leave(c)

Spec == Init /\ [][Next]_vars

=============================================================================
