---------------------------- MODULE DeviceList ----------------------------
(***************************************************************************)
(* How a Mac's device list reaches the relay, and what it does to the       *)
(* sessions there: the agent's DeviceListWatcher, which reads the list again *)
(* every minute and sends it when it changed; the connection it is sent on,  *)
(* which drops and comes back; and the relay's diff of each list against the *)
(* sessions it keeps (agent-core/src/utils/deviceListWatcher.ts,            *)
(* RelayServer.handleAgentRegister, handleAgentDevices, sweepGoneDevices).   *)
(*                                                                           *)
(* A read takes time and may outlive its connection, may fail, and may miss  *)
(* a device that is there.  A session is held while anything at all stands   *)
(* in the way of goneAndVacant: a holder, a wait, a watcher, a boot.         *)
(***************************************************************************)
EXTENDS Naturals, Sequences, FiniteSets

CONSTANTS Devices,
          Reports,      \* what a read may say of a device: records [name, ver]
          NoVer,        \* the version of an emulator that is not running
          Absent, None,
          MaxChanges, MaxGlitches, MaxConnects, MaxWire   \* bounds, on the environment and on both queues

Lists == [Devices -> Reports \cup {Absent}]
Listed(list) == {d \in Devices : list[d] # Absent}
NoList == [d \in Devices |-> Absent]
Sessions == [id : Nat, rep : Reports, gone : BOOLEAN, held : BOOLEAN]

ASSUME ListAssumption ==
  /\ \A r \in Reports : DOMAIN r = {"name", "ver"}
  /\ \A r, s \in Reports : [r EXCEPT !.ver = s.ver] \in Reports   \* any name with any version
  /\ Absent \notin Reports
  /\ None \notin Lists /\ None \notin Sessions
  /\ {MaxChanges, MaxGlitches, MaxConnects, MaxWire} \subseteq Nat

VARIABLES
  world,      \* what there is on the Mac
  conn,       \* the agent is registered, and its watcher started
  offer,      \* the list read for the next register, or None
  sent,       \* the watcher's baseline
  missing,    \* missingOnce
  generation,
  reading,    \* None, or the read in flight: its generation, and what it read (None: not yet)
  wire,       \* lists on their way to the relay
  replies,    \* devices-applied on their way back
  session,    \* the relay's session for each device, or None
  knows,      \* the agent's deviceStates: pairs of device and session id
  born,       \* sessions made so far for each device, which numbers them
  seen,       \* history: what was so of each device since the register's list was read
  misses,     \* history: reads in a row without the device on this connection, kept once it is 2
  spent       \* changes, glitches and connections so far

agentVars == <<sent, missing, generation, reading>>
relayVars == <<session, born>>
vars == <<world, conn, offer, agentVars, wire, replies, relayVars, knows, seen, misses, spent>>

Init ==
  /\ world \in Lists
  /\ conn = FALSE /\ offer = None
  /\ sent = NoList /\ missing = {} /\ generation = 0 /\ reading = None
  /\ wire = <<>> /\ replies = <<>> /\ knows = {}
  /\ session = [d \in Devices |-> None] /\ born = [d \in Devices |-> 0]
  /\ seen = [d \in Devices |-> {world[d]}]
  /\ misses = [d \in Devices |-> 0]
  /\ spent = [changes |-> 0, glitches |-> 0, connects |-> 0]

----------------------------------------------------------------------------
(* The Mac. *)

Change(d) == \E r \in Reports \cup {Absent} :
  /\ spent.changes < MaxChanges /\ r # world[d]
  /\ world' = [world EXCEPT ![d] = r]
  /\ seen' = [seen EXCEPT ![d] = @ \cup {r}]
  /\ spent' = [spent EXCEPT !.changes = @ + 1]
  /\ UNCHANGED <<conn, offer, agentVars, wire, replies, relayVars, knows, misses>>

\* A read of the list while CoreSimulator or adb restarts misses devices.
Read(got) == \E miss \in SUBSET Listed(world) :
  /\ miss # {} => spent.glitches < MaxGlitches
  /\ got = [d \in Devices |-> IF d \in miss THEN Absent ELSE world[d]]
  /\ spent' = [spent EXCEPT !.glitches = IF miss = {} THEN @ ELSE @ + 1]

----------------------------------------------------------------------------
(* The watcher. *)

Tick ==
  /\ conn /\ reading = None
  /\ reading' = [gen |-> generation, got |-> None]
  /\ UNCHANGED <<world, conn, offer, sent, missing, generation, wire, replies, relayVars, knows, seen, misses, spent>>

Sample ==
  /\ reading # None /\ reading.got = None
  /\ \E got \in Lists : Read(got) /\ reading' = [reading EXCEPT !.got = got]
  /\ UNCHANGED <<world, conn, offer, sent, missing, generation, wire, replies, relayVars, knows, seen, misses>>

ReadFails ==
  /\ reading # None /\ spent.glitches < MaxGlitches
  /\ reading' = None
  /\ spent' = [spent EXCEPT !.glitches = @ + 1]
  /\ UNCHANGED <<world, conn, offer, sent, missing, generation, wire, replies, relayVars, knows, seen, misses>>

\* Mutant: a device seen again keeps the mark of its first miss.
StillMissingKept(got) ==
  {d \in Devices : IF sent[d] = Absent THEN d \in missing
                   ELSE (d \in missing) = (got[d] # Absent)}

\* Mutant: a second miss leaves the mark.
StillMissingTwice(got) ==
  {d \in Devices : IF sent[d] = Absent THEN d \in missing ELSE got[d] = Absent}

\* A first miss is marked; a second, or the device itself, clears the mark.
StillMissing(got) ==
  {d \in Devices : IF sent[d] = Absent THEN d \in missing ELSE got[d] = Absent /\ d \notin missing}

\* The list to be sent: what was read, and what was missed for the first time.
NextList(got) ==
  [d \in Devices |-> IF got[d] = Absent /\ sent[d] # Absent /\ d \notin missing THEN sent[d] ELSE got[d]]

Changed(next) ==
  \/ Listed(next) # Listed(sent)
  \/ \E d \in Listed(next) :
       \/ next[d].name # sent[d].name
       \/ next[d].ver # NoVer /\ next[d].ver # sent[d].ver

\* A version a list no longer carries stays what it was.
Kept(report, before) ==
  IF report # Absent /\ before # Absent /\ report.ver = NoVer THEN [report EXCEPT !.ver = before.ver] ELSE report

\* Mutant: the result of a read that outlived its connection is used.
CurrentAny == TRUE

\* A read that outlived start or stop is dropped.
Current == reading.gen = generation

\* Mutant: a list is sent, and the baseline left as it was unless a device came or went.
BaselineByIds(next) ==
  IF Listed(next) = Listed(sent) THEN sent ELSE [d \in Devices |-> Kept(next[d], sent[d])]

Baseline(next) == [d \in Devices |-> Kept(next[d], sent[d])]

Finish ==
  /\ reading # None /\ reading.got # None
  /\ reading' = None
  /\ IF ~Current \/ ~conn
     THEN UNCHANGED <<sent, missing, wire, misses>>
     ELSE LET got == reading.got
              next == NextList(got)
          IN /\ missing' = StillMissing(got)
             /\ misses' = [d \in Devices |-> IF misses[d] = 2 THEN 2
                                             ELSE IF got[d] = Absent THEN misses[d] + 1 ELSE 0]
             /\ IF Changed(next)
                THEN /\ Len(wire) < MaxWire
                     /\ sent' = Baseline(next)
                     /\ wire' = Append(wire, next)
                ELSE UNCHANGED <<sent, wire>>
  /\ UNCHANGED <<world, conn, offer, generation, replies, relayVars, knows, seen, spent>>

Apply ==
  /\ replies # <<>>
  /\ LET r == Head(replies) IN knows' = (knows \ r.removed) \cup r.added
  /\ replies' = Tail(replies)
  /\ UNCHANGED <<world, conn, offer, agentVars, wire, relayVars, seen, misses, spent>>

----------------------------------------------------------------------------
(* The relay's diff of a list that arrives on the agent's connection. *)

Fresh(d, report) == [id |-> born[d] + 1, rep |-> report, gone |-> FALSE, held |-> FALSE]

\* Mutant: somebody on the device does not keep its session.
VacantMarked(s) == TRUE

\* goneAndVacant, of a session just marked.
Vacant(s) == ~s.held

Refreshed(s, report) == [s EXCEPT !.rep = Kept(report, s.rep), !.gone = FALSE]

Diffed(d, report) ==
  CASE session[d] = None /\ report = Absent -> None
    [] session[d] = None /\ report # Absent -> Fresh(d, report)
    [] session[d] # None /\ report # Absent -> Refreshed(session[d], report)
    [] OTHER -> IF Vacant(session[d]) THEN None ELSE [session[d] EXCEPT !.gone = TRUE]

\* The device and id of each session.
Pairs(some) == {<<d, some[d].id>> : d \in {e \in Devices : some[e] # None}}
Counted == [d \in Devices |-> IF session'[d] # None /\ session[d] = None THEN born[d] + 1 ELSE born[d]]

Answer == [removed |-> Pairs(session) \ Pairs(session'), added |-> Pairs(session') \ Pairs(session)]

\* The agent's socket, as long as the relay has it open, takes the answer.
Told == replies' = IF conn THEN Append(replies, Answer) ELSE replies

Deliver ==
  /\ wire # <<>> /\ Len(replies) < MaxWire
  /\ wire' = Tail(wire)
  /\ session' = [d \in Devices |-> Diffed(d, Head(wire)[d])]
  /\ born' = Counted
  /\ Told
  /\ UNCHANGED <<world, conn, offer, agentVars, knows, seen, misses, spent>>

\* Run from the heartbeat.
Sweep ==
  LET out == {d \in Devices : session[d] # None /\ session[d].gone /\ Vacant(session[d])}
  IN /\ out # {} /\ Len(replies) < MaxWire
     /\ session' = [d \in Devices |-> IF d \in out THEN None ELSE session[d]]
     /\ Told
     /\ UNCHANGED <<world, conn, offer, agentVars, wire, born, knows, seen, misses, spent>>

\* A device that left is for whoever was on it: join refuses the others.
Hold(d) ==
  /\ session[d] # None /\ ~session[d].held /\ ~session[d].gone
  /\ session' = [session EXCEPT ![d].held = TRUE]
  /\ UNCHANGED <<world, conn, offer, agentVars, wire, replies, born, knows, seen, misses, spent>>

Free(d) ==
  /\ session[d] # None /\ session[d].held
  /\ session' = [session EXCEPT ![d].held = FALSE]
  /\ UNCHANGED <<world, conn, offer, agentVars, wire, replies, born, knows, seen, misses, spent>>

----------------------------------------------------------------------------
(* The connection. *)

\* connectOnce reads the list before it opens the socket.
Offer ==
  /\ ~conn /\ offer = None /\ spent.connects < MaxConnects
  /\ \E got \in Lists : Read(got) /\ offer' = got
  /\ seen' = [d \in Devices |-> {world[d]}]
  /\ UNCHANGED <<world, conn, agentVars, wire, replies, relayVars, knows, misses>>

\* Mutant: a session kept across the restart stays marked.
ReboundMarked(s, report) == [s EXCEPT !.rep = report]

Rebound(s, report) == [s EXCEPT !.rep = report, !.gone = FALSE]

\* The register: a listed device keeps its session or gets one, any other session ends.
Connect ==
  /\ ~conn /\ offer # None
  /\ conn' = TRUE /\ offer' = None
  /\ session' = [d \in Devices |-> CASE offer[d] = Absent -> None
                                     [] offer[d] # Absent /\ session[d] = None -> Fresh(d, offer[d])
                                     [] OTHER -> Rebound(session[d], offer[d])]
  /\ born' = Counted
  /\ knows' = Pairs(session')
  /\ sent' = offer /\ missing' = {} /\ generation' = generation + 1
  /\ wire' = <<>> /\ replies' = <<>>
  /\ misses' = [d \in Devices |-> 0]
  /\ spent' = [spent EXCEPT !.connects = @ + 1]
  /\ UNCHANGED <<world, reading, seen>>

\* What is on its way to the relay may still arrive; what is on its way back does not.
Disconnect ==
  /\ conn
  /\ conn' = FALSE
  /\ missing' = {} /\ generation' = generation + 1
  /\ knows' = {} /\ replies' = <<>>
  /\ UNCHANGED <<world, offer, sent, reading, wire, relayVars, seen, misses, spent>>

LoseWire ==
  /\ ~conn /\ wire # <<>>
  /\ wire' = <<>>
  /\ UNCHANGED <<world, conn, offer, agentVars, replies, relayVars, knows, seen, misses, spent>>

\* The hold's grace passed: every session of the agent ends.
Evict ==
  /\ ~conn /\ wire = <<>> /\ Pairs(session) # {}
  /\ session' = [d \in Devices |-> None]
  /\ UNCHANGED <<world, conn, offer, agentVars, wire, replies, born, knows, seen, misses, spent>>

----------------------------------------------------------------------------
Agent == Tick \/ Sample \/ ReadFails \/ Finish \/ Apply
Relay == Deliver \/ Sweep \/ Evict \/ \E d \in Devices : Hold(d) \/ Free(d)
Link == Offer \/ Connect \/ Disconnect \/ LoseWire
Next == Agent \/ Relay \/ Link \/ \E d \in Devices : Change(d)
Spec == Init /\ [][Next]_vars

\* The interval ticks, a read returns (its command has a timeout), an open socket
\* delivers, and the heartbeat sweeps.
Fairness == WF_vars(Tick) /\ WF_vars(Sample) /\ WF_vars(Finish) /\ WF_vars(Deliver) /\ WF_vars(Apply)
            /\ WF_vars(Sweep)
FairSpec == Spec /\ Fairness

----------------------------------------------------------------------------
\* Types of every variable; only a device of the baseline is marked missing.
TypeOK ==
  /\ world \in Lists /\ sent \in Lists /\ offer \in Lists \cup {None}
  /\ conn \in BOOLEAN /\ missing \subseteq Listed(sent) /\ generation \in Nat
  /\ reading # None => reading.gen \in Nat /\ reading.got \in Lists \cup {None}
  /\ wire \in Seq(Lists) /\ Len(wire) <= MaxWire /\ Len(replies) <= MaxWire
  /\ session \in [Devices -> Sessions \cup {None}] /\ born \in [Devices -> Nat]
  /\ knows \subseteq Devices \X Nat /\ misses \in [Devices -> 0..2]

\* What the relay shows of a device on a live connection was so at some time since
\* that connection's own list was read: nothing a read from before a reconnect brought
\* back late is on it (the generation of DeviceListWatcher, the replaced-socket check
\* of handleAgentDevices).
SentListIsReal ==
  conn => \A d \in Devices : session[d] # None =>
    /\ \E r \in seen[d] \ {Absent} : r.name = session[d].rep.name
    /\ \E r \in seen[d] \ {Absent} : r.ver = session[d].rep.ver

\* With nothing on the way, the relay and the watcher's baseline agree on which devices
\* there are and on what is known of each, through reconnects, held sessions of devices
\* that left, and devices that came back: the watcher will not send again what it
\* believes the relay has.
RelayAgrees ==
  conn /\ wire = <<>> => \A d \in Devices :
    /\ sent[d] # Absent <=> session[d] # None /\ ~session[d].gone
    /\ sent[d] # Absent => /\ session[d].rep.name = sent[d].name
                           /\ sent[d].ver # NoVer => session[d].rep.ver = sent[d].ver

\* With nothing on the way back either, the agent has a state for exactly the sessions
\* the relay sends it commands for.
AgentKnowsSessions == conn /\ replies = <<>> => knows = Pairs(session)

\* Watcher, relay and agent agree on every device once the wire between them is still.
ListsAgree == RelayAgrees /\ AgentKnowsSessions

\* On a live connection the relay ends or marks a session only for a device that two
\* reads in a row were without: one bad read costs nobody anything.
OneMissIsNotGone ==
  [][conn /\ conn' => \A d \in Devices :
       (session[d] # None /\ ~session[d].gone /\ (session'[d] = None \/ session'[d].gone)) => misses[d] = 2]_vars

\* A list never ends a session somebody holds; only the agent's register or its absence does.
HeldSessionStays ==
  [][conn /\ conn' => \A d \in Devices : (session[d] # None /\ session[d].held) => session'[d] # None]_vars

\* No list and no sweep takes a device from anybody but for two reads without it, and
\* none from whoever is on it: missingOnce on the Mac and goneAndVacant at the relay.
EndsAreJust == OneMissIsNotGone /\ HeldSessionStays

\* The relay shows the Mac as it is, and keeps nothing of a device that left but the
\* session somebody is on; a version an emulator no longer reports does not count.
Matches == \A d \in Devices :
  IF world[d] = Absent THEN session[d] # None => session[d].gone /\ session[d].held
  ELSE /\ session[d] # None /\ ~session[d].gone
       /\ session[d].rep.name = world[d].name
       /\ world[d].ver # NoVer => session[d].rep.ver = world[d].ver

\* While the agent stays connected and the Mac stays as it is, the relay comes to show it,
\* whatever reads failed, missed a device or were left over from the last connection,
\* and whoever left a device that was gone.
ListCatchesUp == <>[]conn => <>[]Matches
============================================================================
