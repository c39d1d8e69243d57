--------------------------- MODULE MCAgentClaim ---------------------------
(* A small instance of AgentClaim: a few starters, all alike.               *)
EXTENDS AgentClaim, TLC

Symmetric == Permutations(Starters)
============================================================================
