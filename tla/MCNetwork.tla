------------------------------ MODULE MCNetwork ------------------------------
(* Instances of Network for TLC. *)
EXTENDS Network, TLC

CONSTANTS n1, n2, n3

\* Every hibernator lists every other one.
AllPeers == [n \in Nodes |-> Nodes \ {n}]

\* n1 and n2 cannot always reach each other.
LostLinks == {<<n1, n2>>, <<n2, n1>>}

NoLinks == {}

NodeSymmetry == Permutations(Nodes)

==============================================================================
