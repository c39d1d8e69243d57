------------------------- MODULE AgentClaimProofs -------------------------
(***************************************************************************)
(* While starts and releases keep apart, one starter holds the slot and its *)
(* socket is at the path, for any number of starters.                       *)
(***************************************************************************)
EXTENDS AgentClaim, TLAPS

USE ClaimAssumption

\* The two markers of an empty or dead path are no starter and differ.
LEMMA Markers == /\ Empty \notin Starters /\ Corpse \notin Starters /\ Foreign \notin Starters
                 /\ Empty # Corpse /\ Empty # Foreign
BY DEF ClaimAssumption

\* The path is empty or has a leftover when the first starter comes.
LEMMA ClaimInit == Init => ClaimInv
BY DEF Init, ClaimInv, RefusalInv, TypeOK, PCs, Claiming, Refused, Busy

\* A step of one starter, killed or not, keeps the claim in order.
LEMMA ClaimStep == ClaimInv /\ [Next]_vars => ClaimInv'
<1> USE DEF ClaimInv, RefusalInv, TypeOK, PCs, Claiming, Refused, Busy
<1> SUFFICES ASSUME ClaimInv, [Next]_vars PROVE ClaimInv'
  OBVIOUS
<1>1. CASE UNCHANGED vars
  BY <1>1 DEF vars
<1>2. ASSUME NEW p \in Starters, Claim(p) PROVE ClaimInv'
  <2>1. /\ pc' = [pc EXCEPT ![p] = "bind"] /\ pc[p] = "out" /\ UNCHANGED <<file, overlap>>
        /\ saw' = [saw EXCEPT ![p] = file \in Starters]
    BY <1>2 DEF Claim
  <2>2. TypeOK' BY <2>1
  <2>3. RefusalInv' BY <2>1
  <2>4. (~overlap => /\ \A q, r \in Starters : Busy(q) /\ Busy(r) => q = r
                     /\ \A q \in Starters : pc[q] = "held" => file = q
                     /\ \A q \in Starters : pc[q] \in {"listen", "relisten"} => file = q
                     /\ \A q, r \in Starters :
                          pc[q] \in {"unlink", "rebind", "listen", "relisten", "closing"} => pc[r] # "held")'
    BY <1>2, <2>1 DEF Claim, MayBegin
  <2> QED BY <2>2, <2>3, <2>4
<1>3. ASSUME NEW p \in Starters, FirstBind(p) PROVE ClaimInv'
  BY <1>3, Markers DEF FirstBind, Bind, SeenBy
<1>4. ASSUME NEW p \in Starters, Listen(p) PROVE ClaimInv'
  BY <1>4 DEF Listen
<1>5. ASSUME NEW p \in Starters, Probe(p) PROVE ClaimInv'
  BY <1>5 DEF Probe, Answers
<1>6. ASSUME NEW p \in Starters, Unlink(p) PROVE ClaimInv'
  BY <1>6, Markers DEF Unlink
<1>7. ASSUME NEW p \in Starters, Rebind(p) PROVE ClaimInv'
  BY <1>7, Markers DEF Rebind, Bind, SeenBy
<1>8. ASSUME NEW p \in Starters, ReleaseUnlink(p) PROVE ClaimInv'
  BY <1>8, Markers DEF ReleaseUnlink
<1>9. ASSUME NEW p \in Starters, Release(p) PROVE ClaimInv'
  BY <1>9, Markers DEF Release, MayBegin
<1>10. ASSUME NEW p \in Starters, Die(p) PROVE ClaimInv'
  BY <1>10, Markers DEF Die
<1> QED BY <1>1, <1>2, <1>3, <1>4, <1>5, <1>6, <1>7, <1>8, <1>9, <1>10 DEF Next, Step

\* The inductive invariant, for every number of starters.
THEOREM ClaimInvariance == Spec => []ClaimInv
<1>1. Init => ClaimInv BY ClaimInit
<1>2. ClaimInv /\ [Next]_vars => ClaimInv' BY ClaimStep
<1> QED BY <1>1, <1>2, PTL DEF Spec

\* A starter that holds the slot is the one a probe finds.
THEOREM HolderSeen == Spec => []HolderIsVisible
<1>1. ClaimInv => HolderIsVisible BY DEF ClaimInv, HolderIsVisible
<1> QED BY <1>1, ClaimInvariance, PTL

\* "One agent per Mac, per platform", as long as no two starters overlap.
THEOREM OneAgent == Spec => []OneAgentApart
<1>1. ClaimInv => OneAgentApart BY DEF ClaimInv, OneAgentApart, OneAgentPerMac
<1> QED BY <1>1, ClaimInvariance, PTL

\* Whoever is told that an agent runs has had another's socket at the path since
\* it began, in every interleaving of starts, releases and deaths.
THEOREM RefusedOnlyByAgents == Spec => []RefusedByAnAgent
<1>1. ClaimInv => RefusedByAnAgent BY DEF ClaimInv, RefusalInv, RefusedByAnAgent
<1> QED BY <1>1, ClaimInvariance, PTL
============================================================================
