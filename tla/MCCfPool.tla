------------------------------ MODULE MCCfPool ------------------------------
(* Instances of CfPool for TLC: the configured domains.                    *)
EXTENDS CfPool, TLC

NoDomains == <<>>
OneWorker == <<"w1">>
TwoWorkers == <<"w1", "w2">>
OneZone == <<"z1">>
TwoZones == <<"z1", "z2">>

Symmetry == Permutations(Clients) \union Permutations(Tasks)

=============================================================================
