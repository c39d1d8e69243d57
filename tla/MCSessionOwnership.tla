------------------------- MODULE MCSessionOwnership -------------------------
(* Instances of SessionOwnership on one device: person a, on two sockets of  *)
(* one client or on one; person b; and a's automation client c.              *)
EXTENDS SessionOwnership, TLC

CONSTANTS a1, a2, b, c, ka, kb, kc, ua, ub, s1

MCKeyOf == [w \in Sockets |-> IF w = b THEN kb ELSE IF w = c THEN kc ELSE ka]
MCUserOf == [w \in Sockets |-> IF w = b THEN ub ELSE ua]
=============================================================================
