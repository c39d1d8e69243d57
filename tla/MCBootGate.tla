----------------------------- MODULE MCBootGate -----------------------------
(* A small instance of BootGate: one Mac, its sessions all on it.           *)
EXTENDS BootGate, TLC

MCHostOf == [s \in Sessions |-> CHOOSE m \in Hosts : TRUE]

Symmetric == Permutations(Sessions) \cup Permutations(Requests)
=============================================================================
