------------------------------ MODULE MCRoute ------------------------------
(* Instances of Route for TLC: which DC has which --dc-ip address.         *)
EXTENDS Route, TLC

CONSTANTS dc2, dc4, dc5, ip

SharedIp == [dc \in Dcs |-> IF dc = dc5 THEN NoIp ELSE ip]

Symmetry == Permutations(Conns)

=============================================================================
