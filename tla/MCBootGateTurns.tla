----------------------------- MODULE MCBootGateTurns -----------------------------
(* A small instance of BootGateTurns: one Mac, its sessions all on it.           *)
EXTENDS BootGateTurns, TLC

MCHostOf == [s \in Sessions |-> CHOOSE m \in Hosts : TRUE]

Symmetric == Permutations(Sessions) \cup Permutations(Requests)
=============================================================================
