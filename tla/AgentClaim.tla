---------------------------- MODULE AgentClaim ----------------------------
(***************************************************************************)
(* The claim an agent takes on its Mac, cli/src/lib/agent-singleton.ts:     *)
(* one agent per platform, held through a listening Unix socket whose path  *)
(* every starter agrees on.  bind, listen, connect and unlink are the       *)
(* kernel's, one step each, and starters are processes: any of them may be  *)
(* overtaken between two calls and may die at any point, which closes its   *)
(* listener and leaves the socket file behind.  An agent stopped by SIGINT  *)
(* exits without a release (agent-start.ts:108), so it leaves one as well.  *)
(***************************************************************************)
CONSTANTS Starters,     \* processes that run `tapflow agent start` for one platform
          Empty,        \* nothing at the path
          Corpse,       \* a socket file nobody listens on, this account's
          Foreign       \* the same, another account's: the sticky bit protects it

ASSUME ClaimAssumption == /\ Empty # Corpse /\ Empty # Foreign /\ Corpse # Foreign
                          /\ {Empty, Corpse, Foreign} \cap Starters = {}

VARIABLES file,    \* what is at the path: a starter stands for its own socket
          pc,      \* where each starter is
          overlap, \* fixed: may one start, or let go, while another is doing so?
          saw      \* history: has another starter's socket been at the path since this one began?

vars == <<file, pc, overlap, saw>>

Claiming == {"bind", "listen", "probe", "unlink", "rebind", "relisten"}
Refused == {"in-use", "stale-claim"}
PCs == {"out", "held", "closing"} \cup Claiming \cup Refused

Busy(p) == pc[p] \in Claiming \cup {"closing"}
MayBegin(p) == overlap \/ \A q \in Starters \ {p} : ~Busy(q)

\* The kernel's answer to a connect: somebody accepts on the socket at the path.
Answers(f) == f \in Starters /\ pc[f] = "held"

\* Every starter on its way has now seen p's socket appear.
SeenBy(p) == [q \in Starters |-> saw[q] \/ (q # p /\ pc[q] \in Claiming)]

Init == /\ file \in {Empty, Corpse, Foreign}
        /\ pc = [p \in Starters |-> "out"]
        /\ overlap \in BOOLEAN
        /\ saw = [p \in Starters |-> FALSE]

\* claimAgentSlot begins.
Claim(p) ==
  /\ pc[p] = "out"
  /\ MayBegin(p)
  /\ pc' = [pc EXCEPT ![p] = "bind"]
  /\ saw' = [saw EXCEPT ![p] = file \in Starters]
  /\ UNCHANGED <<file, overlap>>

\* server.listen: bind(2) takes the path only if nothing is there ...
Bind(p, at, next, refused) ==
  /\ pc[p] = at
  /\ \/ /\ file = Empty
        /\ file' = p
        /\ pc' = [pc EXCEPT ![p] = next]
        /\ saw' = SeenBy(p)
     \/ /\ file # Empty
        /\ pc' = [pc EXCEPT ![p] = refused]
        /\ UNCHANGED <<file, saw>>
  /\ UNCHANGED overlap

FirstBind(p) == Bind(p, "bind", "listen", "probe")
Rebind(p) == Bind(p, "rebind", "relisten", "in-use")

\* ... and listen(2), the second call listenOn makes, is what a probe can see.
Listen(p) ==
  /\ pc[p] \in {"listen", "relisten"}
  /\ pc' = [pc EXCEPT ![p] = "held"]
  /\ UNCHANGED <<file, overlap, saw>>

\* Mutant. The probe takes any socket file for a live agent, as a pid file would.
ProbeByFile(p) ==
  /\ pc[p] = "probe"
  /\ pc' = [pc EXCEPT ![p] = IF file # Empty THEN "in-use" ELSE "unlink"]
  /\ UNCHANGED <<file, overlap, saw>>

\* Mutant. The corpse is removed without asking whether anybody listens.
ProbeSkipped(p) ==
  /\ pc[p] = "probe"
  /\ pc' = [pc EXCEPT ![p] = "unlink"]
  /\ UNCHANGED <<file, overlap, saw>>

\* ownerIsAlive: ENOENT and ECONNREFUSED both read as nobody there.
Probe(p) ==
  /\ pc[p] = "probe"
  /\ pc' = [pc EXCEPT ![p] = IF Answers(file) THEN "in-use" ELSE "unlink"]
  /\ UNCHANGED <<file, overlap, saw>>

\* unlinkSync: whatever is at the path by now, unless the directory protects it.
Unlink(p) ==
  /\ pc[p] = "unlink"
  /\ \/ /\ file = Foreign
        /\ pc' = [pc EXCEPT ![p] = "stale-claim"]
        /\ UNCHANGED <<file, overlap>>
     \/ /\ file # Foreign
        /\ file' = Empty
        /\ pc' = [pc EXCEPT ![p] = "rebind"]
  /\ UNCHANGED <<overlap, saw>>

\* release: closing the server removes its path, whoever's socket is there ...
Release(p) ==
  /\ pc[p] = "held"
  /\ MayBegin(p)
  /\ file' = Empty
  /\ pc' = [pc EXCEPT ![p] = "closing"]
  /\ UNCHANGED <<overlap, saw>>

\* Mutant. A release whose second unlink comes after the process has moved on.
ReleaseUnlinkLate(p) ==
  /\ pc[p] \in {"closing", "held"}
  /\ file' = Empty
  /\ pc' = [pc EXCEPT ![p] = IF pc[p] = "held" THEN "held" ELSE "out"]
  /\ UNCHANGED <<overlap, saw>>

\* ... and then release removes the path once more.
ReleaseUnlink(p) ==
  /\ pc[p] = "closing"
  /\ file' = Empty
  /\ pc' = [pc EXCEPT ![p] = "out"]
  /\ UNCHANGED <<overlap, saw>>

\* The process ends without a release: killed, stopped by a signal, or refused.
Die(p) ==
  /\ pc[p] # "out"
  /\ file' = IF file = p THEN Corpse ELSE file
  /\ pc' = [pc EXCEPT ![p] = "out"]
  /\ UNCHANGED <<overlap, saw>>

Step(p) == \/ FirstBind(p) \/ Listen(p) \/ Probe(p) \/ Unlink(p) \/ Rebind(p) \/ ReleaseUnlink(p)

Next == \E p \in Starters : Claim(p) \/ Step(p) \/ Release(p) \/ Die(p)

Spec == Init /\ [][Next]_vars

----------------------------------------------------------------------------
TypeOK == /\ file \in Starters \cup {Empty, Corpse, Foreign}
          /\ pc \in [Starters -> PCs]
          /\ overlap \in BOOLEAN
          /\ saw \in [Starters -> BOOLEAN]

\* "One agent per Mac, per platform": two starters never both hold the slot.
OneAgentPerMac == \A p, q \in Starters : pc[p] = "held" /\ pc[q] = "held" => p = q

\* Starters that come one after another never both hold the slot, whatever died
\* between two of the calls of the one before and whatever it left at the path.
OneAgentApart == ~overlap => OneAgentPerMac

\* While an agent holds the slot its socket is the one at the path, so that the
\* next starter's probe finds it: a holder nobody can see is as good as none.
HolderIsVisible == ~overlap => \A p \in Starters : pc[p] = "held" => file = p

\* A starter is told that an agent is running only if another starter's socket
\* was there while it asked: a corpse, its own or a killed agent's, never
\* refuses anybody.
RefusedByAnAgent == \A p \in Starters : pc[p] = "in-use" => saw[p]

\* What makes it so, whoever overlaps whom: a socket at the path is that of a
\* starter past its bind, another's socket has been seen by everyone on the way,
\* and a starter that cleared the path finds it taken only by one who came since.
RefusalInv ==
  \A p \in Starters :
    /\ file = p => pc[p] \in {"listen", "relisten", "held"}
    /\ pc[p] \in Claiming /\ file \in Starters \ {p} => saw[p]
    /\ pc[p] = "rebind" /\ file # Empty => saw[p]
    /\ pc[p] = "in-use" => saw[p]

\* What makes it so while starts and releases keep apart: whoever is past the
\* probe faces no holder, and a socket between its two calls is at the path.
ClaimInv ==
  /\ TypeOK
  /\ RefusalInv
  /\ ~overlap =>
       /\ \A p, q \in Starters : Busy(p) /\ Busy(q) => p = q
       /\ \A p \in Starters : pc[p] = "held" => file = p
       /\ \A p \in Starters : pc[p] \in {"listen", "relisten"} => file = p
       /\ \A p, q \in Starters :
            pc[p] \in {"unlink", "rebind", "listen", "relisten", "closing"} => pc[q] # "held"

============================================================================
